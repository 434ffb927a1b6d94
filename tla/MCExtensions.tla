---------------------------- MODULE MCExtensions ----------------------------
(* Extensions on small instances.                                          *)
EXTENDS Extensions, TLC

CONSTANTS p1, p2,           \* paths
          r1, r2,           \* resolvers
          earlier, later,   \* two builds of one extension, same version
          helper,           \* a dependency: another identity, no provider
          damaged           \* no assembly

MCIdentityOf(c) == IF c = helper THEN "helper 1.0" ELSE "docs 1.0"
MCTypesOf(c) == CASE c = earlier -> {"Msdn"} [] c = later -> {"Msdn", "Local"}
                  [] OTHER -> {}
MCAllButLocal(c) == MCTypesOf(c) \ {"Local"}

(* One project lists both paths, the other only p2.                       *)
MCListed(j) == IF j = "app" THEN {p1, p2} ELSE {p2}

Symmetry == Permutations(Resolvers)
=============================================================================
