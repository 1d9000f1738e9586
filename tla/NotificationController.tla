----------------------- MODULE NotificationController -----------------------
(***************************************************************************)
(* The NotificationConfiguration controller                                *)
(* (operator/notificationconfiguration): its webhook, and the Observe,     *)
(* Create, Update and Delete it gives to the managed reconciler.  MinIO    *)
(* has one configuration per bucket, read and written as a whole: every    *)
(* change is a read, an edit in memory and a write, and all resources and  *)
(* clients of the bucket share it.  Nothing marks an entry as a            *)
(* resource's own but the ID and the endpoint in it.                       *)
(***************************************************************************)
EXTENDS ManagedReconciler, SequencesExt

CONSTANTS
    Names,        \* names of buckets
    Ids,          \* webhook IDs; the ARN of an entry is made from it
    Endpoints,    \* webhook URLs
    EventLists,   \* lists of events that a spec may have
    Filters,      \* "none", "empty" (no rule in it) and lists of rules
    KnownEvents,  \* events that MinIO and ValidateS3Event know
    Foreign       \* what other MinIO clients do: subset of {"add", "remove", "drop", "make"}

(* spec.forProvider; hook is FALSE for a spec without webhookConfiguration, *)
(* ref is whether the spec has a providerConfigRef.                         *)
NotificationParameters ==
    [bucket : Names \cup {""}, hook : BOOLEAN, id : Ids \cup {""},
     endpoint : Endpoints \cup {""}, events : EventLists, filter : Filters, ref : BOOLEAN]

(* A LambdaConfig; maker is history: the resource that wrote it.            *)
Entry == [id : Ids \cup {""}, endpoint : Endpoints \cup {""}, events : EventLists,
          filter : Filters, maker : Resources \cup {NoResource}]

ASSUME NotificationAssumption ==
    /\ Specs \subseteq NotificationParameters
    /\ Anns = {""}
    /\ Ats = Ids \cup {""}
    /\ \A l \in EventLists : l \in Seq(STRING)
    /\ "none" \in Filters

VARIABLES
    buckets,  \* buckets[n]: whether it exists, and its configuration
    held      \* held[w]: the configuration that worker w has read

vars == <<reconcilerVars, buckets, held>>
minio == <<buckets, held>>

NoBucket == [exists |-> FALSE, entries |-> <<>>]

Init ==
    /\ ReconcilerInit
    /\ buckets \in [Names -> {NoBucket, [NoBucket EXCEPT !.exists = TRUE]}]
    /\ held = [w \in Workers |-> <<>>]

-----------------------------------------------------------------------------
(* Webhook.  It sees the writes of the runtime too, and admits them: they   *)
(* do not change the spec.                                                  *)

ValidateEvents(l) == l # <<>> /\ ToSet(l) \subseteq KnownEvents

ValidateCreate(s) ==
    /\ s.ref
    /\ s.bucket # ""
    /\ ValidateEvents(s.events)
    /\ s.hook /\ s.endpoint # "" /\ s.id # ""

(* Webhook, endpoint, ID and the names of the events are not looked at.     *)
ValidateUpdate(old, s) ==
    /\ s.bucket = old.spec.bucket
    /\ s.ref
    /\ old.deleting \/ s.events # <<>>

Apply(r, s) == ValidateCreate(s) /\ UserApply(r, s) /\ UNCHANGED minio
Edit(r, s) == ValidateUpdate(api[r], s) /\ UserEdit(r, s) /\ UNCHANGED minio
Delete(r) == UserDelete(r) /\ UNCHANGED minio

-----------------------------------------------------------------------------
(* Observe.                                                                 *)

(* The entries of config at the positions in kept, in their order: what the *)
(* loops of the code keep.                                                  *)
Select(config, kept) ==
    LET rank(i) == Cardinality({j \in kept : j <= i})
    IN  [k \in 1..Cardinality(kept) |-> config[CHOOSE i \in kept : rank(i) = k]]

SameARN(e, s) == e.id = s.id
Matches(e, s) == SameARN(e, s) /\ e.endpoint = s.endpoint

(* The entries that are the spec's; the first one counts.                   *)
FindWebhookConfiguration(s, config) ==
    IF s.hook THEN Select(config, {i \in DOMAIN config : Matches(config[i], s)}) ELSE <<>>

(* Mutant of IsConfigurationUpToDate: the filter is not compared.           *)
IsUpToDateWithoutFilter(s, e) == ToSet(e.events) = ToSet(s.events)

(* The number of events in MinIO is compared with the number of different   *)
(* ones in the spec; an empty list of rules comes back from MinIO as none   *)
(* at all, which never is what the spec says.                               *)
IsConfigurationUpToDate(s, e) ==
    /\ Len(e.events) = Cardinality(ToSet(s.events))
    /\ ToSet(e.events) \subseteq ToSet(s.events)
    /\ e.filter = s.filter /\ s.filter # "empty"

(* Mutant of Observe: the status shows the endpoint.                        *)
ObserveShowsEndpoint(w) ==
    LET m == mem[w]
        found == FindWebhookConfiguration(m.spec, buckets[m.spec.bucket].entries)
    IN  /\ pc[w] = "observe"
        /\ IF found = <<>> THEN AfterObserve(w, [m EXCEPT !.ready = "Creating"], "absent")
           ELSE AfterObserve(w, [m EXCEPT !.at = m.spec.endpoint, !.ready = "Available"], "upToDate")
        /\ UNCHANGED <<faults, minio>>

Observe(w) ==
    LET m == mem[w]
        found == FindWebhookConfiguration(m.spec, buckets[m.spec.bucket].entries)
        seen == [m EXCEPT !.at = m.spec.id]
    IN  /\ pc[w] = "observe"
        /\ IF found = <<>> THEN AfterObserve(w, [m EXCEPT !.ready = "Creating"], "absent")
           ELSE IF IsConfigurationUpToDate(m.spec, Head(found))
                  THEN AfterObserve(w, [seen EXCEPT !.ready = "Available"], "upToDate")
                  ELSE AfterObserve(w, [seen EXCEPT !.ready = "Creating"], "outdated")
        /\ UNCHANGED <<faults, minio>>

(* Mutant of ObserveFails: every error means that there is no configuration.*)
ObserveErrorAsAbsent(w) ==
    /\ Fault("refused")
    /\ AfterObserve(w, [mem[w] EXCEPT !.ready = "Creating"], "absent")
    /\ UNCHANGED minio

(* Connect or GetBucketNotification fails.                                  *)
ObserveFails(w) ==
    /\ Fault("refused")
    /\ AfterObserveError(w, mem[w])
    /\ UNCHANGED minio

-----------------------------------------------------------------------------
(* GetBucketNotification and SetBucketNotification in Create, Update and    *)
(* Delete.                                                                  *)

BucketOf(w) == buckets[mem[w].spec.bucket]
Call(w, stage) == ExternalCall(w, stage, mem[w].ann, mem[w].at, mem[w].ready)
Keep(w, config) == held' = [held EXCEPT ![w] = config] /\ UNCHANGED buckets

(* The LambdaConfig that Create and Update build from the spec.             *)
LambdaConfig(w) ==
    [id |-> mem[w].spec.id, endpoint |-> mem[w].spec.endpoint, events |-> mem[w].spec.events,
     filter |-> mem[w].spec.filter, maker |-> cur[w]]

(* MinIO refuses events it does not know, and a list that repeats one.      *)
Acceptable(s) ==
    /\ ToSet(s.events) \subseteq KnownEvents
    /\ Len(s.events) = Cardinality(ToSet(s.events))

SetBucketNotification(w, config) ==
    buckets' = [buckets EXCEPT ![mem[w].spec.bucket].entries = config]

(* Mutant of GetForCreate: Create marks the resource itself.                *)
GetForCreatePersists(w) ==
    /\ pc[w] = "create"
    /\ Keep(w, BucketOf(w).entries)
    /\ Store(cur[w], [api[cur[w]] EXCEPT !.create = "succeeded"])
    /\ pc' = [pc EXCEPT ![w] = "create2"]
    /\ UNCHANGED <<cache, fresh, cur, mem, faults, ops>>

(* Mutant of GetForCreate: an entry that is there already is not noticed.   *)
GetForCreateUnchecked(w) ==
    /\ pc[w] = "create"
    /\ Keep(w, BucketOf(w).entries)
    /\ Call(w, IF mem[w].spec.hook THEN "create2" ELSE "createFailed")
    /\ UNCHANGED faults

(* An entry that is there already is a success.  Whatever error the read    *)
(* has, Create goes on with an empty configuration.                         *)
GetForCreate(w) ==
    LET s == mem[w].spec
    IN  /\ pc[w] = "create"
        /\ \/ ~s.hook /\ Keep(w, <<>>) /\ Call(w, "createFailed") /\ UNCHANGED faults
           \/ /\ s.hook /\ FindWebhookConfiguration(s, BucketOf(w).entries) # <<>>
              /\ Keep(w, <<>>) /\ Call(w, "created") /\ UNCHANGED faults
           \/ /\ s.hook /\ FindWebhookConfiguration(s, BucketOf(w).entries) = <<>>
              /\ Keep(w, BucketOf(w).entries) /\ Call(w, "create2") /\ UNCHANGED faults
           \/ /\ s.hook /\ Keep(w, <<>>) /\ Call(w, "create2") /\ Fault("refused")

(* The write of a configuration: done, refused by MinIO or the network, or  *)
(* done without a reply.                                                    *)
SetForCreate(w) ==
    LET config == Append(held[w], LambdaConfig(w))
        ok == BucketOf(w).exists /\ Acceptable(mem[w].spec)
    IN  /\ pc[w] = "create2"
        /\ held' = [held EXCEPT ![w] = <<>>]
        /\ \/ ok /\ SetBucketNotification(w, config) /\ Call(w, "created") /\ UNCHANGED faults
           \/ ~ok /\ UNCHANGED buckets /\ Call(w, "createFailed") /\ UNCHANGED faults
           \/ ok /\ UNCHANGED buckets /\ Call(w, "createFailed") /\ Fault("refused")
           \/ ok /\ SetBucketNotification(w, config) /\ Call(w, "createFailed") /\ Fault("partial")

(* Update and Delete are called only for an entry that Observe found, so    *)
(* the spec has a webhook.                                                  *)
GetForUpdate(w) ==
    /\ pc[w] = "update"
    /\ \/ /\ BucketOf(w).exists
          /\ Keep(w, BucketOf(w).entries) /\ Call(w, "update2") /\ UNCHANGED faults
       \/ ~BucketOf(w).exists /\ Keep(w, <<>>) /\ Call(w, "status") /\ UNCHANGED faults
       \/ Keep(w, <<>>) /\ Call(w, "status") /\ Fault("refused")

(* Every entry with the ARN is replaced, whatever its endpoint.             *)
OtherARNs(w) == Select(held[w], {i \in DOMAIN held[w] : ~SameARN(held[w][i], mem[w].spec)})

Updated(w) == Append(OtherARNs(w), LambdaConfig(w))

SetForUpdate(w) ==
    LET ok == BucketOf(w).exists /\ Acceptable(mem[w].spec)
    IN  /\ pc[w] = "update2"
        /\ held' = [held EXCEPT ![w] = <<>>]
        /\ \/ /\ ok /\ SetBucketNotification(w, Updated(w))
              /\ ExternalCall(w, "status", mem[w].ann, mem[w].at, "Available") /\ UNCHANGED faults
           \/ ~ok /\ UNCHANGED buckets /\ Call(w, "status") /\ UNCHANGED faults
           \/ ok /\ UNCHANGED buckets /\ Call(w, "status") /\ Fault("refused")
           \/ ok /\ SetBucketNotification(w, Updated(w)) /\ Call(w, "status") /\ Fault("partial")

Deleting(w, stage) == ExternalCall(w, stage, mem[w].ann, mem[w].at, "Deleting")

GetForDelete(w) ==
    /\ pc[w] = "delete"
    /\ \/ /\ BucketOf(w).exists
          /\ Keep(w, BucketOf(w).entries) /\ Deleting(w, "delete2") /\ UNCHANGED faults
       \/ ~BucketOf(w).exists /\ Keep(w, <<>>) /\ Deleting(w, "status") /\ UNCHANGED faults
       \/ Keep(w, <<>>) /\ Deleting(w, "status") /\ Fault("refused")

(* Mutant of Remaining: entries that differ in only one of the two go too.  *)
RemainingBoth(w) ==
    Select(held[w], {i \in DOMAIN held[w] : /\ held[w][i].id # mem[w].spec.id
                                            /\ held[w][i].endpoint # mem[w].spec.endpoint})

Remaining(w) == Select(held[w], {i \in DOMAIN held[w] : ~Matches(held[w][i], mem[w].spec)})

(* Mutant of SetForDelete: only an empty configuration is written.          *)
SetForDeleteIfLast(w) ==
    /\ pc[w] = "delete2"
    /\ held' = [held EXCEPT ![w] = <<>>]
    /\ IF Remaining(w) = <<>> /\ BucketOf(w).exists THEN SetBucketNotification(w, <<>>)
                                                    ELSE UNCHANGED buckets
    /\ Deleting(w, "status")
    /\ UNCHANGED faults

SetForDelete(w) ==
    /\ pc[w] = "delete2"
    /\ held' = [held EXCEPT ![w] = <<>>]
    /\ \/ /\ BucketOf(w).exists
          /\ SetBucketNotification(w, Remaining(w)) /\ UNCHANGED faults
       \/ ~BucketOf(w).exists /\ UNCHANGED <<buckets, faults>>
       \/ UNCHANGED buckets /\ Fault("refused")
    /\ Deleting(w, "status")

-----------------------------------------------------------------------------
(* The runtime's own steps.                                                 *)

RuntimeStep(w) ==
    /\ \/ AddFinalizer(w, mem[w].spec)
       \/ MarkPending(w, mem[w].spec)
       \/ pc[w] = "created" /\ RecordCreation(w, api[cur[w]].spec, "status")
       \/ pc[w] = "createFailed" /\ RecordFailure(w, api[cur[w]].spec)
       \/ WriteStatus(w)
       \/ Finalize(w)
       \/ Conflict(w)
    /\ UNCHANGED minio

Step(w) ==
    \/ Observe(w)
    \/ GetForCreate(w) \/ SetForCreate(w)
    \/ GetForUpdate(w) \/ SetForUpdate(w)
    \/ GetForDelete(w) \/ SetForDelete(w)
    \/ RuntimeStep(w)

StartReconcile(w, r) == Load(w, r) /\ UNCHANGED minio
SyncCache(w) == CacheSync(w) /\ UNCHANGED minio
Stop(w) == Crash(w) /\ held' = [held EXCEPT ![w] = <<>>] /\ UNCHANGED buckets

(* Other clients add an entry that is not there, remove one, and remove or  *)
(* make the bucket.                                                         *)
ForeignClient(n) ==
    LET config == buckets[n].entries
        Set(b) == buckets' = [buckets EXCEPT ![n] = b]
    IN  /\ Operation
        /\ \/ /\ "add" \in Foreign /\ buckets[n].exists
              /\ \E id \in Ids, endpoint \in Endpoints, l \in EventLists :
                   /\ ValidateEvents(l)
                   /\ \A i \in DOMAIN config : config[i].id # id
                   /\ Set([buckets[n] EXCEPT !.entries =
                              Append(@, [id |-> id, endpoint |-> endpoint, events |-> l,
                                         filter |-> "none", maker |-> NoResource])])
           \/ /\ "remove" \in Foreign
              /\ \E i \in DOMAIN config : Set([buckets[n] EXCEPT !.entries = RemoveAt(@, i)])
           \/ "drop" \in Foreign /\ buckets[n].exists /\ Set(NoBucket)
           \/ "make" \in Foreign /\ ~buckets[n].exists /\ Set([NoBucket EXCEPT !.exists = TRUE])
        /\ UNCHANGED <<api, cache, synced, fresh, pc, cur, mem, faults, held>>

Next ==
    \/ \E w \in Workers :
         \/ Step(w) \/ ObserveFails(w) \/ Stop(w) \/ SyncCache(w)
         \/ \E r \in Resources : StartReconcile(w, r)
    \/ \E r \in Resources :
         \/ Delete(r)
         \/ \E s \in Specs : Apply(r, s) \/ Edit(r, s)
    \/ \E n \in Names : ForeignClient(n)

Spec == Init /\ [][Next]_vars

(* The queue and the poll bring every resource back, the watch delivers     *)
(* every change, and a running worker goes on.                              *)
Fairness ==
    /\ \A w \in Workers : WF_vars(Step(w)) /\ WF_vars(SyncCache(w))
    /\ \A w \in Workers, r \in Resources : SF_vars(StartReconcile(w, r))

FairSpec == Spec /\ Fairness

-----------------------------------------------------------------------------
(* Properties.                                                              *)

TypeOK ==
    /\ ReconcilerTypeOK
    /\ buckets \in [Names -> [exists : BOOLEAN, entries : Seq(Entry)]]
    /\ held \in [Workers -> Seq(Entry)]

Entries(r) == ToSet(buckets[api[r].spec.bucket].entries)
Present(r) == api[r].present /\ ~api[r].deleting /\ api[r].spec.hook

(* The bucket has no two entries for one webhook: an entry that appears     *)
(* after Observe looked, or whose Create had no reply, is not added again   *)
(* (create.go Create, "idempotency").                                       *)
NoDuplicates ==
    \A n \in Names : LET config == buckets[n].entries IN
        \A i, j \in DOMAIN config : Matches(config[i], config[j]) => i = j

(* A worker takes an entry with another ID than its resource's away only if *)
(* it had not seen it: what Update and Delete read of other resources and   *)
(* clients they write back, also next to entries with the same endpoint     *)
(* (update.go, delete.go).                                                  *)
Vanishes(n, e) == ~\E f \in ToSet(buckets'[n].entries) : Matches(f, e)

KeepsOthers ==
    [][\A n \in Names : \A e \in ToSet(buckets[n].entries) : Vanishes(n, e) /\ ops' = ops =>
          \E w \in Workers : /\ pc[w] \in {"create2", "update2", "delete2"}
                             /\ mem[w].spec.id = e.id \/ e \notin ToSet(held[w])]_vars

(* With one replica, a resource disappears only after the entry it made for *)
(* the webhook of its spec: no error and no stale copy lets the finalizer   *)
(* go first (observe.go, delete.go).                                        *)
EntryGoesFirst ==
    [][\A r \in Resources : api[r].finalizer /\ ~api'[r].present /\ api[r].spec.hook =>
          \A e \in Entries(r) : ~(Matches(e, api[r].spec) /\ e.maker = r)]_vars

(* A resource that users leave alone, whose bucket exists and whose ID no   *)
(* other resource uses, ends with one entry that says what the spec says,   *)
(* and is Available: lost updates, removed entries, wiped configurations    *)
(* and refused calls heal (observe.go, create.go, update.go).               *)
WellFormed(s) == s.hook /\ Acceptable(s) /\ s.filter # "empty"

Undisturbed(r) ==
    /\ Present(r) /\ WellFormed(api[r].spec)
    /\ api[r].create # "pending"
    /\ buckets[api[r].spec.bucket].exists
    /\ \A q \in Resources \ {r} : api[q].present => api[q].spec.id # api[r].spec.id

Satisfied(r) ==
    /\ \E e \in Entries(r) :
         /\ Matches(e, api[r].spec)
         /\ ToSet(e.events) = ToSet(api[r].spec.events) /\ e.filter = api[r].spec.filter
    /\ api[r].ready = "Available" /\ api[r].at = api[r].spec.id

Converges == \A r \in Resources : <>[]Undisturbed(r) => <>[]Satisfied(r)

(* A deletion ends, also of a resource whose spec became invalid and of one *)
(* whose bucket is gone; only a creation that was announced and never       *)
(* recorded holds it up (observe.go, delete.go).                            *)
DeletionCompletes ==
    \A r \in Resources : <>[]api[r].deleting => <>[](api[r].create = "pending")

=============================================================================
