---------------------------- MODULE MCCppObjects ----------------------------
(* CppObjects on small instances.                                          *)
EXTENDS CppObjects, TLC

Symmetry == Permutations(Objects) \cup Permutations(Pointers) \cup Permutations(Users)
=============================================================================
