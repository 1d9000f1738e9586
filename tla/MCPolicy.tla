------------------------------ MODULE MCPolicy ------------------------------
(* Instances of PolicyController for TLC.                                   *)
EXTENDS PolicyController

S(allow, raw) == [allow |-> allow, raw |-> raw, ref |-> TRUE]

(* Both forms of a policy, a text MinIO refuses, one that is not JSON, no   *)
(* policy at all, and a spec the webhook refuses.                           *)
PolicySpecs == {S("b", ""), S("", "t1"), S("", "bad"), S("", "text"), S("", ""),
                S("b", "t1")}

PolicyAnns == {"", "claimed"}
PolicyAts == Contents \cup {""}
NameP == [r \in Resources |-> "p"]
MCMeaning == [t \in {"t1", "t2", "bad", "text"} |-> IF t \in {"t1", "t2"} THEN "m1" ELSE t]

=============================================================================
