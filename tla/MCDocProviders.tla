--------------------------- MODULE MCDocProviders ---------------------------
(* DocProviders on small instances.                                        *)
EXTENDS DocProviders

CONSTANTS a, b

OneName == <<a>>
TwoNames == <<a, b>>
Overloads == <<a, b, a>>
WithUnnamed == <<a, NoName, b>>

Distinct == [n \in Names |-> n]

NoOwnName == {{}}
AnyOwnName == {{}, {b}}

Strict == <<TRUE>>
Lenient == <<FALSE>>
LenientFirst == <<FALSE, TRUE>>
=============================================================================
