-------------------------- MODULE BucketController --------------------------
(***************************************************************************)
(* The Bucket controller (operator/bucket): its webhook, and the Observe,  *)
(* Create, Update and Delete it gives to the managed reconciler, against a *)
(* MinIO whose buckets other clients use too.                              *)
(***************************************************************************)
EXTENDS ManagedReconciler

CONSTANTS
    Names,        \* bucket names
    Canonical,    \* Canonical[p]: the text MinIO stores and returns for policy p
    BadPolicies,  \* policies MinIO refuses
    Foreign       \* what other MinIO clients do: subset of {"make", "remove", "put"}

(* spec.forProvider, and whether the spec has a providerConfigRef.  name is *)
(* what GetBucketName returns.                                              *)
BucketParameters ==
    [name : Names, region : STRING, policy : DOMAIN Canonical \cup {""},
     tags : {"nil", "empty", "tagged"}, deleteAll : BOOLEAN, ref : BOOLEAN]

ASSUME BucketAssumption ==
    /\ Specs \subseteq BucketParameters
    /\ Anns = {"", "claimed"}
    /\ Ats = Names \cup {""}
    /\ "" \notin Names

VARIABLES
    buckets,  \* buckets[n]: the bucket in MinIO
    consent,  \* history: the buckets r named while its deletion with DeleteAll was requested
    left      \* history: the names that users changed the spec of r away from

vars == <<reconcilerVars, buckets, consent, left>>

NoBucket == [exists |-> FALSE, maker |-> NoResource, region |-> "", policy |-> "",
             tags |-> "empty", objects |-> FALSE]

Claimed(r) == api[r].present /\ api[r].ann = "claimed"

Init ==
    /\ ReconcilerInit
    /\ buckets = [n \in Names |-> NoBucket]
    /\ consent = [r \in Resources |-> {}]
    /\ left = [r \in Resources |-> {}]

-----------------------------------------------------------------------------
(* Types and webhook.                                                       *)

(* spec.forProvider.tags is omitempty: an empty map does not survive a      *)
(* write by the controller.                                                 *)
Encode(s) == IF s.tags = "empty" THEN [s EXCEPT !.tags = "nil"] ELSE s

ASSUME EncodeAssumption == \A s \in Specs : Encode(s) \in Specs

ValidateCreate(s) == s.ref

(* Mutant of ValidateUpdate: the name may change.                           *)
ValidateUpdateAnyName(old, s) ==
    /\ old.at # "" => s.region = old.spec.region
    /\ s.ref

ValidateUpdate(old, s) ==
    /\ old.at # "" => s.name = old.at /\ s.region = old.spec.region
    /\ s.ref

Requested(o) == IF o.deleting /\ o.spec.deleteAll THEN {o.spec.name} ELSE {}

Apply(r, s) == ValidateCreate(s) /\ UserApply(r, s) /\ UNCHANGED <<buckets, consent, left>>

Edit(r, s) ==
    /\ ValidateUpdate(api[r], s)
    /\ UserEdit(r, s)
    /\ consent' = [consent EXCEPT ![r] = @ \cup Requested(api'[r])]
    /\ left' = [left EXCEPT ![r] = @ \cup ({api[r].spec.name} \ {s.name})]
    /\ UNCHANGED buckets

Delete(r) ==
    /\ UserDelete(r)
    /\ consent' = [consent EXCEPT ![r] = Requested(api'[r])]
    /\ UNCHANGED <<buckets, left>>

-----------------------------------------------------------------------------
(* Observe: the lock annotation and the bucket's existence decide.          *)

PolicyLatest(s) == s.policy = "" \/ buckets[s.name].policy = s.policy
TagsLatest(s) == s.tags = "nil" \/ buckets[s.name].tags = s.tags

(* Mutant of Observe: a bucket without the lock is left to Create, which    *)
(* takes "already exists" for a success.                                    *)
ObserveWithoutLock(w) ==
    LET m == mem[w]
        b == buckets[m.spec.name]
        seen == [m EXCEPT !.at = m.spec.name, !.ready = "Available"]
    IN  /\ IF b.exists /\ m.ann = "claimed"
             THEN AfterObserve(w, seen, IF PolicyLatest(m.spec) /\ TagsLatest(m.spec)
                                          THEN "upToDate" ELSE "outdated")
             ELSE AfterObserve(w, m, "absent")
        /\ UNCHANGED <<faults, buckets, consent, left>>

Observe(w) ==
    LET m == mem[w]
        b == buckets[m.spec.name]
        seen == [m EXCEPT !.at = m.spec.name, !.ready = "Available"]
    IN  /\ IF b.exists
             THEN IF m.ann = "claimed"
                    THEN AfterObserve(w, seen, IF PolicyLatest(m.spec) /\ TagsLatest(m.spec)
                                                 THEN "upToDate" ELSE "outdated")
                    ELSE AfterObserveError(w, m)
             ELSE AfterObserve(w, m, "absent")
        /\ UNCHANGED <<faults, buckets, consent, left>>

(* Mutant of ObserveFails: the error of BucketExists is dropped.            *)
ObserveErrorAsAbsent(w) ==
    /\ Fault("refused")
    /\ AfterObserve(w, mem[w], "absent")
    /\ UNCHANGED <<buckets, consent, left>>

(* Connect or a call of Observe fails: BucketExists before the status is    *)
(* set, GetBucketPolicy and GetBucketTagging after.                         *)
ObserveFails(w) ==
    LET m == mem[w]
        seen == [m EXCEPT !.at = m.spec.name, !.ready = "Available"]
    IN  /\ Fault("refused")
        /\ \/ AfterObserveError(w, m)
           \/ /\ buckets[m.spec.name].exists /\ m.ann = "claimed"
              /\ AfterObserveError(w, seen)
        /\ UNCHANGED <<buckets, consent, left>>

-----------------------------------------------------------------------------
(* Create: MakeBucket, SetBucketPolicy, SetBucketTagging, then the lock.    *)

Call(w, stage) == ExternalCall(w, stage, mem[w].ann, mem[w].at, mem[w].ready)

(* createS3Bucket: a MakeBucket that fails because the bucket exists is     *)
(* taken for a success.                                                     *)
MakeBucket(w) ==
    LET n == mem[w].spec.name
        made == IF buckets[n].exists THEN buckets
                ELSE [buckets EXCEPT ![n] = [NoBucket EXCEPT !.exists = TRUE, !.maker = cur[w],
                                                             !.region = mem[w].spec.region]]
    IN  /\ pc[w] = "create"
        /\ \/ buckets' = made /\ Call(w, "create2") /\ UNCHANGED faults
           \/ buckets' = buckets /\ ~buckets[n].exists /\ Call(w, "createFailed") /\ Fault("refused")
           \/ buckets' = made /\ Call(w, "createFailed") /\ Fault("partial")
        /\ UNCHANGED <<consent, left>>

(* Calls that fail whatever the network does.                               *)
PolicyAccepted(s) == buckets[s.name].exists /\ s.policy \notin BadPolicies

SetPolicy(s) == [buckets EXCEPT ![s.name].policy = Canonical[s.policy]]
SetTags(s) == [buckets EXCEPT ![s.name].tags = s.tags]

CreatePolicy(w) ==
    LET s == mem[w].spec
    IN  /\ pc[w] = "create2"
        /\ \/ /\ s.policy = ""
              /\ buckets' = buckets /\ Call(w, "create3") /\ UNCHANGED faults
           \/ /\ s.policy # "" /\ PolicyAccepted(s)
              /\ buckets' = SetPolicy(s) /\ Call(w, "create3") /\ UNCHANGED faults
           \/ /\ s.policy # "" /\ ~PolicyAccepted(s)
              /\ buckets' = buckets /\ Call(w, "createFailed") /\ UNCHANGED faults
           \/ /\ s.policy # ""
              /\ buckets' = buckets /\ Call(w, "createFailed") /\ Fault("refused")
           \/ /\ s.policy # "" /\ PolicyAccepted(s)
              /\ buckets' = SetPolicy(s) /\ Call(w, "createFailed") /\ Fault("partial")
        /\ UNCHANGED <<consent, left>>

(* Mutant of CreateTags: tags are set although the spec has none.           *)
CreateTagsAlways(w) ==
    LET s == mem[w].spec
    IN  /\ pc[w] = "create3"
        /\ buckets' = SetTags(s)
        /\ ExternalCall(w, "created", "claimed", mem[w].at, mem[w].ready)
        /\ UNCHANGED <<faults, consent, left>>

CreateTags(w) ==
    LET s == mem[w].spec
        locked == ExternalCall(w, "created", "claimed", mem[w].at, mem[w].ready)
    IN  /\ pc[w] = "create3"
        /\ \/ s.tags = "nil" /\ buckets' = buckets /\ locked /\ UNCHANGED faults
           \/ /\ s.tags # "nil" /\ buckets[s.name].exists
              /\ buckets' = SetTags(s) /\ locked /\ UNCHANGED faults
           \/ /\ s.tags # "nil" /\ ~buckets[s.name].exists
              /\ buckets' = buckets /\ Call(w, "createFailed") /\ UNCHANGED faults
           \/ /\ s.tags # "nil"
              /\ buckets' = buckets /\ Call(w, "createFailed") /\ Fault("refused")
           \/ /\ s.tags # "nil" /\ buckets[s.name].exists
              /\ buckets' = SetTags(s) /\ Call(w, "createFailed") /\ Fault("partial")
        /\ UNCHANGED <<consent, left>>

-----------------------------------------------------------------------------
(* Update: SetBucketPolicy, then SetBucketTagging or RemoveBucketTagging.   *)

UpdatePolicy(w) ==
    LET s == mem[w].spec
    IN  /\ pc[w] = "update"
        /\ \/ s.policy = "" /\ buckets' = buckets /\ Call(w, "update2") /\ UNCHANGED faults
           \/ /\ s.policy # "" /\ PolicyAccepted(s)
              /\ buckets' = SetPolicy(s) /\ Call(w, "update2") /\ UNCHANGED faults
           \/ /\ s.policy # "" /\ ~PolicyAccepted(s)
              /\ buckets' = buckets /\ Call(w, "status") /\ UNCHANGED faults
           \/ /\ s.policy # ""
              /\ buckets' = buckets /\ Call(w, "status") /\ Fault("refused")
        /\ UNCHANGED <<consent, left>>

(* Mutant of UpdateTags: tags that are empty are not removed from MinIO.    *)
UpdateTagsIfAny(w) ==
    LET s == mem[w].spec
    IN  /\ pc[w] = "update2"
        /\ buckets' = IF s.tags = "tagged" /\ buckets[s.name].exists THEN SetTags(s) ELSE buckets
        /\ Call(w, "status")
        /\ UNCHANGED <<faults, consent, left>>

UpdateTags(w) ==
    LET s == mem[w].spec
    IN  /\ pc[w] = "update2"
        /\ \/ /\ buckets' = IF s.tags # "nil" /\ buckets[s.name].exists THEN SetTags(s) ELSE buckets
              /\ UNCHANGED faults
           \/ s.tags # "nil" /\ buckets' = buckets /\ Fault("refused")
        /\ Call(w, "status")
        /\ UNCHANGED <<consent, left>>

-----------------------------------------------------------------------------
(* Delete: with DeleteAll the objects first, then the bucket; MinIO keeps a *)
(* bucket that has objects.  Both name the bucket by the status.            *)

DeletingStatus(w) == ExternalCall(w, "status", mem[w].ann, mem[w].at, "Deleting")

(* Mutants of DeleteAllObjects: the policy is not looked at, and the        *)
(* objects are never removed.                                               *)
DeleteObjectsAlways(w) ==
    /\ pc[w] = "delete"
    /\ buckets' = [buckets EXCEPT ![mem[w].at].objects = FALSE]
    /\ Call(w, "delete2")
    /\ UNCHANGED <<faults, consent, left>>

DeleteObjectsNever(w) ==
    /\ pc[w] = "delete"
    /\ Call(w, "delete2")
    /\ UNCHANGED <<faults, buckets, consent, left>>

DeleteAllObjects(w) ==
    LET n == mem[w].at
    IN  /\ pc[w] = "delete"
        /\ \/ /\ ~mem[w].spec.deleteAll
              /\ buckets' = buckets /\ Call(w, "delete2") /\ UNCHANGED faults
           \/ /\ mem[w].spec.deleteAll
              /\ buckets' = [buckets EXCEPT ![n].objects = FALSE] /\ Call(w, "delete2") /\ UNCHANGED faults
           \/ \* listing errors are skipped, so objects remain
              /\ mem[w].spec.deleteAll
              /\ buckets' = buckets /\ Call(w, "delete2") /\ Fault("refused")
           \/ \* RemoveObjects reports an error
              /\ mem[w].spec.deleteAll
              /\ buckets' = buckets /\ DeletingStatus(w) /\ Fault("refused")
        /\ UNCHANGED <<consent, left>>

RemoveBucket(w) ==
    LET n == mem[w].at
    IN  /\ pc[w] = "delete2"
        /\ \/ /\ buckets' = IF buckets[n].objects THEN buckets ELSE [buckets EXCEPT ![n] = NoBucket]
              /\ UNCHANGED faults
           \/ buckets' = buckets /\ Fault("refused")
        /\ DeletingStatus(w)
        /\ UNCHANGED <<consent, left>>

-----------------------------------------------------------------------------
(* The runtime's own steps.  Its writes pass through the webhook, which     *)
(* never refuses a fresh copy: that is what StatusNamesSpec is for.         *)

Writable(w) == pc[w] \in Observed /\ ValidateUpdate(api[cur[w]], mem[w].spec)

RuntimeStep(w) ==
    /\ \/ Writable(w) /\ AddFinalizer(w, Encode(mem[w].spec))
       \/ Writable(w) /\ MarkPending(w, Encode(mem[w].spec))
       \/ pc[w] = "created" /\ RecordCreation(w, Encode(api[cur[w]].spec), "status")
       \/ pc[w] = "createFailed" /\ RecordFailure(w, Encode(api[cur[w]].spec))
       \/ WriteStatus(w)
       \/ Conflict(w)
    /\ UNCHANGED <<buckets, consent, left>>

(* Mutant of RemoveFinalizer: the finalizer is removed whatever version the *)
(* copy has.                                                                *)
RemoveFinalizerForced(w) ==
    /\ pc[w] = "finalize"
    /\ Store(cur[w], Gone)
    /\ fresh' = fresh \ StaleNow(cur[w])
    /\ Return(w)
    /\ consent' = [consent EXCEPT ![cur[w]] = {}]
    /\ UNCHANGED <<cache, faults, ops, buckets, left>>

RemoveFinalizer(w) ==
    /\ Finalize(w)
    /\ consent' = [consent EXCEPT ![cur[w]] = {}]
    /\ UNCHANGED <<buckets, left>>

Step(w) ==
    \/ Observe(w)
    \/ MakeBucket(w) \/ CreatePolicy(w) \/ CreateTags(w)
    \/ UpdatePolicy(w) \/ UpdateTags(w)
    \/ DeleteAllObjects(w) \/ RemoveBucket(w)
    \/ RuntimeStep(w) \/ RemoveFinalizer(w)

StartReconcile(w, r) == Load(w, r) /\ UNCHANGED <<buckets, consent, left>>
SyncCache(w) == CacheSync(w) /\ UNCHANGED <<buckets, consent, left>>
Stop(w) == Crash(w) /\ UNCHANGED <<buckets, consent, left>>

(* Other MinIO clients make a bucket, remove an empty one or put objects.   *)
ForeignClient(n) ==
    /\ Operation
    /\ \/ /\ "make" \in Foreign /\ ~buckets[n].exists
          /\ buckets' = [buckets EXCEPT ![n] = [NoBucket EXCEPT !.exists = TRUE]]
       \/ /\ "remove" \in Foreign /\ buckets[n].exists /\ ~buckets[n].objects
          /\ buckets' = [buckets EXCEPT ![n] = NoBucket]
       \/ /\ "put" \in Foreign /\ buckets[n].exists /\ ~buckets[n].objects
          /\ buckets' = [buckets EXCEPT ![n].objects = TRUE]
    /\ UNCHANGED <<api, cache, synced, fresh, pc, cur, mem, faults, consent, left>>

Next ==
    \/ \E w \in Workers :
         \/ Step(w) \/ ObserveFails(w) \/ Stop(w) \/ SyncCache(w)
         \/ \E r \in Resources : StartReconcile(w, r)
    \/ \E r \in Resources :
         \/ Delete(r)
         \/ \E s \in Specs : Apply(r, s) \/ Edit(r, s)
    \/ \E n \in Names : ForeignClient(n)

Spec == Init /\ [][Next]_vars

(* The workqueue holds every resource until it is reconciled and is polled  *)
(* every minute, the watch delivers every change, and a worker that is      *)
(* running goes on: users, other clients and faults owe nothing.            *)
Fairness ==
    /\ \A w \in Workers : WF_vars(Step(w)) /\ WF_vars(SyncCache(w))
    /\ \A w \in Workers, r \in Resources : SF_vars(StartReconcile(w, r))

FairSpec == Spec /\ Fairness

-----------------------------------------------------------------------------
(* Properties.                                                              *)

TypeOK ==
    /\ ReconcilerTypeOK
    /\ buckets \in [Names -> [exists : BOOLEAN, maker : Resources \cup {NoResource},
                              region : {s.region : s \in Specs} \cup {""},
                              policy : {Canonical[p] : p \in DOMAIN Canonical} \cup {""},
                              tags : {"empty", "tagged"}, objects : BOOLEAN]]
    /\ consent \in [Resources -> SUBSET Names]
    /\ left \in [Resources -> SUBSET Names]

(* Once the status names a bucket, it is the bucket of the spec: a          *)
(* reconcile that observed the bucket of the old name never writes its      *)
(* status over a user's change of the name.  With the old name there, the   *)
(* webhook would refuse every write that keeps the new one (observe.go,     *)
(* webhook.go ValidateUpdate).                                              *)
StatusNamesSpec == \A r \in Resources : api[r].at # "" => api[r].at = api[r].spec.name

(* With one replica, a resource never gets the lock for a bucket that       *)
(* another resource made, whatever crashed, failed, was renamed or was made *)
(* by other clients in between (create.go setLock, observe.go               *)
(* observeBucket).                                                          *)
LockOnlyToMaker ==
    [][\A r \in Resources, w \in Workers :
          ~Claimed(r) /\ Claimed(r)' /\ Creating(w) /\ cur[w] = r =>
             buckets[mem[w].spec.name].maker \in {r, NoResource}]_vars

(* The controller deletes objects only of a bucket for which a deletion     *)
(* with DeleteAll was requested: a policy changed to DeleteIfEmpty before   *)
(* the deletion is honoured however late the caches are (delete.go).        *)
DataSafety ==
    [][\A n \in Names : buckets[n].objects /\ ~buckets'[n].objects =>
          \E r \in Resources : n \in consent[r]]_vars

(* With one replica, a resource disappears only when the bucket it made is  *)
(* gone, whatever failed, crashed or was read from a late cache.  One thing *)
(* leaves its bucket behind: a user's change of the name in the spec, which *)
(* the webhook allows until the status names a bucket (delete.go,           *)
(* webhook.go ValidateUpdate).                                              *)
DeletedMeansRemoved ==
    [][\A r \in Resources, n \in Names :
          api[r].present /\ ~api'[r].present /\ buckets[n].maker = r => n \in left[r]]_vars

(* The bucket has the policy and the tags of the spec.                      *)
Satisfied(r) ==
    LET s == api[r].spec
        b == buckets[s.name]
    IN  /\ Claimed(r) /\ api[r].ready = "Available" /\ api[r].at = s.name
        /\ b.exists
        /\ s.policy # "" => b.policy = Canonical[s.policy]
        /\ s.tags # "nil" => b.tags = s.tags

(* Create did not get to the lock.  It failed after MakeBucket, and Observe *)
(* refuses the bucket that r itself made because it has no lock; or the     *)
(* replica stopped in it, and the runtime waits for someone to say whether  *)
(* it happened.                                                             *)
Wedged(r) ==
    \/ api[r].create = "failed" /\ ~Claimed(r) /\ buckets[api[r].spec.name].maker = r
    \/ api[r].create = "pending"

(* A resource that users leave alone ends with a bucket that has the policy *)
(* and the tags of the spec and stays that way, whatever calls failed and   *)
(* other clients did before; or it is wedged for ever, which one failed     *)
(* call in its Create is enough for (observe.go, create.go, update.go).     *)
Converges ==
    \A r \in Resources :
        <>[](api[r].present /\ ~api[r].deleting) => <>[]Satisfied(r) \/ <>[]Wedged(r)

(* The deletion of a resource with policy DeleteAll ends, unless the        *)
(* resource is wedged: then it is never deleted (delete.go, observe.go).    *)
DeletionCompletes ==
    \A r \in Resources :
        <>[](api[r].deleting /\ api[r].spec.deleteAll) => <>[]Wedged(r)

-----------------------------------------------------------------------------
(* What the comments and types say and the code does not do.                *)

(* "causing 2 resources managing 1 bucket" is what the lock is to prevent.  *)
OneOwner ==
    \A q, r \in Resources :
        Claimed(q) /\ Claimed(r) /\ api[q].spec.name = api[r].spec.name
        /\ buckets[api[q].spec.name].exists => q = r

=============================================================================
