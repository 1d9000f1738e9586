------------------------ MODULE MCNotificationWiped ------------------------
(* The instances of MCNotification with history: what the bucket had when a *)
(* Create read it, also when the read failed.  No guard looks at it.        *)
EXTENDS MCNotification

VARIABLE atRead  \* atRead[w]: the entries in the bucket at worker w's read

InitH == Init /\ atRead = [w \in Workers |-> {}]

(* A Create's read after which it goes on, and its write.                   *)
Reads(w) == pc[w] = "create" /\ pc'[w] = "create2"
Writes(w) == pc[w] = "create2" /\ pc'[w] \in {"created", "createFailed"}

NextH ==
    /\ Next
    /\ atRead' = [w \in Workers |-> IF Reads(w) THEN ToSet(BucketOf(w).entries) ELSE atRead[w]]

SpecH == InitH /\ [][NextH]_<<vars, atRead>>

(* Create starts fresh only "if no configuration exists yet" (create.go     *)
(* Create): its write takes no entry with another ID away that the bucket   *)
(* had when Create read it.  An entry that others add between the read and  *)
(* the write may go.                                                        *)
StartsFresh ==
    [][\A w \in Workers : Writes(w) =>
          \A e \in atRead[w] \cap ToSet(BucketOf(w).entries) :
            Vanishes(mem[w].spec.bucket, e) => mem[w].spec.id = e.id]_<<vars, atRead>>

=============================================================================
