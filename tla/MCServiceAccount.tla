-------------------------- MODULE MCServiceAccount --------------------------
(* Instances of ServiceAccountController for TLC.                           *)
EXTENDS ServiceAccountController, TLC

S(key, secret, policy, exp) ==
    [key |-> key, secret |-> secret, policy |-> policy, exp |-> exp, target |-> "u", ref |-> TRUE]

(* Keys that MinIO generates.                                               *)
PlainSpecs == {S("", "", "", "")}

(* Policies and expirations that change; "p2" is not in the form in which   *)
(* MinIO returns it, "bad" is refused; an edit that the webhook refuses.    *)
ConvergeSpecs == {S("k1", "", "p1", "e1"), S("k1", "", "p2", "e2"), S("k1", "", "bad", "e1"),
                  [S("k1", "", "p1", "e1") EXCEPT !.target = "v"]}

KeysGenerated == {"x", "g1", "g2", "g3", "g4", "g5"}
KeysOne == {"x", "k1"}
KeysAnn == Keys \cup {""}
NameX == [r \in Resources |-> "x"]
MCCanonical == [p \in {"p1", "p2", "bad", "text"} |-> IF p = "p2" THEN "p1" ELSE p]

WorkerSymmetry == Permutations(Workers)

=============================================================================
