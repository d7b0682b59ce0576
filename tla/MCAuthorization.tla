---------------------------- MODULE MCAuthorization ----------------------------
EXTENDS Authorization, TLC

MCSymmetry == Permutations(Request) \cup Permutations(Principal) \cup Permutations(Confirmation)
===============================================================================
