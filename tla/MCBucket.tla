------------------------------ MODULE MCBucket ------------------------------
(* Instances of BucketController for TLC.                                   *)
EXTENDS BucketController, TLC

S(name, policy, tags, deleteAll) ==
    [name |-> name, region |-> "r", policy |-> policy, tags |-> tags,
     deleteAll |-> deleteAll, ref |-> TRUE]

(* Two resources over one name, with both deletion policies, and a policy   *)
(* that MinIO refuses.                                                      *)
SharedSpecs == {S("b1", "", "nil", FALSE), S("b1", "bad", "nil", TRUE)}

(* The same with a change of name and region and a missing reference.       *)
OwnerSpecs == SharedSpecs \cup {S("b2", "", "nil", TRUE),
                                [S("b1", "", "nil", FALSE) EXCEPT !.ref = FALSE]}

(* One resource whose policy, tags and deletion policy change; "p2" is not  *)
(* in the form in which MinIO returns it.                                   *)
ConvergeSpecs == {S("b1", "p1", "tagged", TRUE), S("b1", "p2", "empty", TRUE),
                  S("b1", "p2", "nil", TRUE), S("b1", "p1", "tagged", FALSE)}

BucketAnns == {"", "claimed"}
AtsOne == {"", "b1"}
AtsTwo == {"", "b1", "b2"}
MCCanonical == [p \in {"p1", "p2", "bad"} |-> "p1"]

WorkerSymmetry == Permutations(Workers)
ResourceSymmetry == Permutations(Resources)

=============================================================================
