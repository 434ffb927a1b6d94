---------------------------- MODULE MCSharpGenTask ----------------------------
(* SharpGenTask on small instances.                                        *)
EXTENDS SharpGenTask, TLC

(* Versions 1 and 2 of the config differ in what the C++ header is made    *)
(* from; 2 and 3 differ only in mapping rules.                             *)
MCHeaderText(v) == IF v = 1 THEN 1 ELSE 2

SameVersions(f) == MaxVersion
FewerNative(f) == IF f = "native" THEN MaxVersion - 1 ELSE MaxVersion

Symmetry == Permutations(Workers)
=============================================================================
