------------------------------- MODULE MCUser -------------------------------
(* Instances of UserController for TLC.                                     *)
EXTENDS UserController

S(name, policies) == [name |-> name, policies |-> policies, given |-> TRUE, ref |-> TRUE]

(* No policies, or in MinIO's order; a name the webhook does not let change.*)
SortedSpecs == {[S("", <<>>) EXCEPT !.given = FALSE], S("", <<"p1", "p2">>), S("v", <<"p1">>)}

(* Policies in another order.                                               *)
UnsortedSpecs == {S("", <<"p2", "p1">>)}

UserAnns == {"", "true"}
UserAts == Names \cup {""}
NameX == [r \in Resources |-> "u"]
TwoPolicies == <<"p1", "p2">>

=============================================================================
