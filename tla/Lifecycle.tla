----------------------------- MODULE Lifecycle -----------------------------
(***************************************************************************)
(* What a user of the API server sees of managed resources, whatever their *)
(* kind, the number of replicas and the failures: the abstract             *)
(* specification that ManagedReconciler implements.  It says when the      *)
(* provider may begin to create something outside, and when a resource may *)
(* disappear.                                                              *)
(***************************************************************************)
CONSTANT Resources

VARIABLES
    phase,     \* phase[r]: "gone", "new", "held" by the finalizer, or "ending"
    creation   \* creation[r]: "none", "pending", "succeeded" or "failed"

vars == <<phase, creation>>

Init ==
    /\ phase = [r \in Resources |-> "gone"]
    /\ creation = [r \in Resources |-> "none"]

Become(r, p, c) ==
    /\ phase' = [phase EXCEPT ![r] = p]
    /\ creation' = [creation EXCEPT ![r] = c]

(* A user creates the resource, or deletes it before it is held.            *)
Admit(r) == phase[r] = "gone" /\ Become(r, "new", "none")
Withdraw(r) == phase[r] = "new" /\ Become(r, "gone", "none")

(* The finalizer is put on a resource that nobody has deleted.              *)
Hold(r) == phase[r] = "new" /\ Become(r, "held", creation[r])

(* A user deletes a resource that is held: it stays until it is let go.     *)
End(r) == phase[r] = "held" /\ Become(r, "ending", creation[r])

(* A creation begins only for a resource that is held and not being         *)
(* deleted, and not while one is under way.                                 *)
Announce(r) == phase[r] = "held" /\ creation[r] # "pending" /\ Become(r, "held", "pending")

(* Its outcome is recorded.                                                 *)
Record(r) ==
    /\ phase[r] \in {"held", "ending"}
    /\ creation[r] = "pending"
    /\ \E c \in {"succeeded", "failed"} : Become(r, phase[r], c)

(* A deleted resource disappears, but never while it is unknown whether a   *)
(* creation happened.                                                       *)
LetGo(r) == phase[r] = "ending" /\ creation[r] # "pending" /\ Become(r, "gone", "none")

Next == \E r \in Resources :
    \/ Admit(r) \/ Withdraw(r) \/ Hold(r) \/ End(r)
    \/ Announce(r) \/ Record(r) \/ LetGo(r)

Spec == Init /\ [][Next]_vars

=============================================================================
