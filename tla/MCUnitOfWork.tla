----------------------------- MODULE MCUnitOfWork -----------------------------
EXTENDS UnitOfWork, TLC

MCSymmetry == Permutations(Op) \cup Permutations(Part) \cup Permutations(UoW) \cup Permutations(Thread)
===============================================================================
