------------------------------ MODULE MCLifecycle -----------------------------
EXTENDS Lifecycle, TLC

MCSymmetry == Permutations(Managed)
===============================================================================
