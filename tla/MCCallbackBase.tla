--------------------------- MODULE MCCallbackBase ---------------------------
EXTENDS CallbackBase, TLC

CONSTANTS t1, t2, r1, r2

MCInterfaces == {"IUnknown", "IFirst", "ISecond"}

First == [guid |-> "IFirst", inherits |-> {"IUnknown"}]
Second == [guid |-> "ISecond", inherits |-> {"IUnknown"}]

(* One leaf interface or two; the wrappers lead to the callback or to the  *)
(* one shadow of the class.                                                *)
Plain == {[leaves |-> <<First, Second>>, shadows |-> 0],
          [leaves |-> <<First>>, shadows |-> 0],
          [leaves |-> <<First>>, shadows |-> 1]}
(* One interface, to let two threads look for it in every order.           *)
OneInterface == {[leaves |-> <<[guid |-> "IFirst", inherits |-> {}]>>, shadows |-> n] :
                 n \in {0, 1}}
(* Two leaf interfaces with one shadow for both.                           *)
SharedShadow == {[leaves |-> <<First, Second>>, shadows |-> 1]}
(* Two leaf interfaces with a shadow each.                                 *)
TwoShadows == {[leaves |-> <<First, Second>>, shadows |-> 2]}

FourSlots == 1..4
FiveSlots == 1..5

Symmetry == Permutations(References)

=============================================================================
