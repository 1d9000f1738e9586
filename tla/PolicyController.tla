-------------------------- MODULE PolicyController --------------------------
(***************************************************************************)
(* The Policy controller (operator/policy): its webhook, and the Observe,  *)
(* Create, Update and Delete it gives to the managed reconciler, against   *)
(* MinIO's canned policies.  A canned policy has the resource's name;      *)
(* resources are namespaced, so two of them can mean the same policy.      *)
(***************************************************************************)
EXTENDS ManagedReconciler

CONSTANTS
    Names,        \* names of canned policies
    NameOf,       \* NameOf[r]: metadata.name
    Meaning,      \* Meaning[t]: what the raw text t says; texts may agree
    BadPolicies,  \* texts that MinIO refuses
    NotJSON,      \* those that cannot be parsed
    Buckets,      \* names a spec may give as allowBucket
    Foreign       \* what other MinIO clients do: subset of
                  \* {"make", "remove", "change", "attach"}

Contents == Buckets \cup {Meaning[t] : t \in DOMAIN Meaning} \cup {"foreign"}

(* spec.forProvider, and whether the spec has a providerConfigRef.          *)
PolicyParameters ==
    [allow : Buckets \cup {""}, raw : DOMAIN Meaning \cup {""}, ref : BOOLEAN]

ASSUME PolicyAssumption ==
    /\ Specs \subseteq PolicyParameters
    /\ Anns = {"", "claimed"}
    /\ Ats = Contents \cup {""}
    /\ "" \notin Contents
    /\ NameOf \in [Resources -> Names]
    /\ NotJSON \subseteq BadPolicies

VARIABLE
    canned    \* canned[n]: the canned policy in MinIO

vars == <<reconcilerVars, canned>>

NoPolicy == [exists |-> FALSE, maker |-> NoResource, content |-> "", attached |-> FALSE]

Init ==
    /\ ReconcilerInit
    /\ canned = [n \in Names |-> NoPolicy]

Claimed(r) == api[r].present /\ api[r].ann = "claimed"
PolicyOf(w) == canned[NameOf[cur[w]]]

-----------------------------------------------------------------------------
(* Webhook: allowBucket and rawPolicy are not given together.  It judges    *)
(* the new spec alone, so it never refuses a write of the runtime.          *)

ValidatePolicy(s) == (s.allow = "" \/ s.raw = "") /\ s.ref

Apply(r, s) == ValidatePolicy(s) /\ UserApply(r, s) /\ UNCHANGED canned
Edit(r, s) == ValidatePolicy(s) /\ UserEdit(r, s) /\ UNCHANGED canned
Delete(r) == UserDelete(r) /\ UNCHANGED canned

-----------------------------------------------------------------------------
(* Observe: the policies are compared by what they say.                     *)

Empty(s) == s.allow = "" /\ s.raw = ""
Asked(s) == IF s.allow # "" THEN s.allow ELSE Meaning[s.raw]

(* Mutant of SameObject: rawPolicy is not compared.                         *)
SameAllow(s, c) == s.allow = "" \/ s.allow = c

(* A spec that gives neither is satisfied by any policy.                    *)
SameObject(s, c) == Empty(s) \/ Asked(s) = c

(* Mutant of Observe: the status shows the text of the spec.                *)
ObserveShowsSpec(w) ==
    LET m == mem[w]
        c == PolicyOf(w)
    IN  /\ pc[w] = "observe"
        /\ IF m.ann = "" \/ ~c.exists THEN AfterObserve(w, m, "absent")
           ELSE AfterObserve(w, [m EXCEPT !.at = m.spec.raw, !.ready = "Available"],
                             IF SameObject(m.spec, c.content) THEN "upToDate" ELSE "outdated")
        /\ UNCHANGED <<faults, canned>>

Observe(w) ==
    LET m == mem[w]
        c == PolicyOf(w)
    IN  /\ pc[w] = "observe"
        /\ IF m.ann = "" \/ ~c.exists THEN AfterObserve(w, m, "absent")
           ELSE IF m.spec.raw \in NotJSON THEN AfterObserveError(w, m)
           ELSE IF SameObject(m.spec, c.content)
                  THEN AfterObserve(w, [m EXCEPT !.at = c.content, !.ready = "Available"], "upToDate")
                  ELSE AfterObserve(w, [m EXCEPT !.ready = "Updating"], "outdated")
        /\ UNCHANGED <<faults, canned>>

(* Mutant of ObserveFails: a list that cannot be read is empty.             *)
ObserveErrorAsAbsent(w) ==
    /\ Fault("refused")
    /\ AfterObserve(w, mem[w], "absent")
    /\ UNCHANGED canned

(* Connect or ListCannedPolicies fails.                                     *)
ObserveFails(w) ==
    /\ Fault("refused")
    /\ AfterObserveError(w, mem[w])
    /\ UNCHANGED canned

-----------------------------------------------------------------------------
(* Create: ListCannedPolicies, then AddCannedPolicy, which would replace a  *)
(* policy that exists.                                                      *)

Call(w, stage) == ExternalCall(w, stage, mem[w].ann, mem[w].at, mem[w].ready)

(* Mutant of CheckPolicy: a policy that exists is replaced.                 *)
CheckNothing(w) ==
    /\ pc[w] = "create"
    /\ Call(w, IF Empty(mem[w].spec) THEN "createFailed" ELSE "create2")
    /\ UNCHANGED <<faults, canned>>

CheckPolicy(w) ==
    /\ pc[w] = "create"
    /\ \/ /\ Call(w, IF PolicyOf(w).exists \/ Empty(mem[w].spec) THEN "createFailed" ELSE "create2")
          /\ UNCHANGED faults
       \/ Call(w, "createFailed") /\ Fault("refused")
    /\ UNCHANGED canned

Acceptable(s) == s.raw \notin BadPolicies

(* A policy keeps its attachments when it is replaced.                      *)
Add(w) ==
    [canned EXCEPT ![NameOf[cur[w]]] =
        [@ EXCEPT !.exists = TRUE, !.content = Asked(mem[w].spec),
                  !.maker = IF PolicyOf(w).exists THEN PolicyOf(w).maker ELSE cur[w]]]

(* Mutant of CreatePolicy: Create itself writes the lock.                   *)
CreatePolicyPersists(w) ==
    /\ pc[w] = "create2"
    /\ canned' = Add(w)
    /\ Store(cur[w], [api[cur[w]] EXCEPT !.ann = "claimed"])
    /\ mem' = [mem EXCEPT ![w].ann = "claimed"]
    /\ pc' = [pc EXCEPT ![w] = "created"]
    /\ UNCHANGED <<cache, fresh, cur, faults, ops>>

CreatePolicy(w) ==
    /\ pc[w] = "create2"
    /\ \/ /\ Acceptable(mem[w].spec)
          /\ canned' = Add(w)
          /\ ExternalCall(w, "created", "claimed", mem[w].at, mem[w].ready)
          /\ UNCHANGED faults
       \/ /\ ~Acceptable(mem[w].spec)
          /\ Call(w, "createFailed") /\ UNCHANGED <<faults, canned>>
       \/ Call(w, "createFailed") /\ Fault("refused") /\ UNCHANGED canned
       \/ /\ Acceptable(mem[w].spec)   \* the reply is lost
          /\ canned' = Add(w)
          /\ Call(w, "createFailed") /\ Fault("partial")

-----------------------------------------------------------------------------
(* Update and Delete.                                                       *)

CheckUpdate(w) ==
    /\ pc[w] = "update"
    /\ \/ /\ Call(w, IF ~PolicyOf(w).exists \/ Empty(mem[w].spec) THEN "status" ELSE "update2")
          /\ UNCHANGED faults
       \/ Call(w, "status") /\ Fault("refused")
    /\ UNCHANGED canned

(* The lock that Update sets is there already: Observe asked for it.        *)
UpdatePolicy(w) ==
    /\ pc[w] = "update2"
    /\ \/ /\ canned' = IF Acceptable(mem[w].spec) THEN Add(w) ELSE canned
          /\ UNCHANGED faults
       \/ canned' = canned /\ Fault("refused")
    /\ Call(w, "status")

(* Mutant of RemovePolicy: a policy that says something else is kept.       *)
RemovePolicyIfSame(w) ==
    /\ pc[w] = "delete"
    /\ canned' = IF PolicyOf(w).attached \/ ~SameObject(mem[w].spec, PolicyOf(w).content) THEN canned
                 ELSE [canned EXCEPT ![NameOf[cur[w]]] = NoPolicy]
    /\ ExternalCall(w, "status", mem[w].ann, mem[w].at, "Deleting")
    /\ UNCHANGED faults

(* MinIO keeps a policy that is attached to a user or group.                *)
RemovePolicy(w) ==
    /\ pc[w] = "delete"
    /\ \/ /\ canned' = IF PolicyOf(w).attached THEN canned
                       ELSE [canned EXCEPT ![NameOf[cur[w]]] = NoPolicy]
          /\ UNCHANGED faults
       \/ canned' = canned /\ Fault("refused")
    /\ ExternalCall(w, "status", mem[w].ann, mem[w].at, "Deleting")

-----------------------------------------------------------------------------
(* The runtime's own steps.                                                 *)

RuntimeStep(w) ==
    /\ \/ AddFinalizer(w, mem[w].spec)
       \/ MarkPending(w, mem[w].spec)
       \/ pc[w] = "created" /\ RecordCreation(w, api[cur[w]].spec, "status")
       \/ pc[w] = "createFailed" /\ RecordFailure(w, api[cur[w]].spec)
       \/ WriteStatus(w)
       \/ Finalize(w)
       \/ Conflict(w)
    /\ UNCHANGED canned

Step(w) ==
    \/ Observe(w)
    \/ CheckPolicy(w) \/ CreatePolicy(w)
    \/ CheckUpdate(w) \/ UpdatePolicy(w)
    \/ RemovePolicy(w)
    \/ RuntimeStep(w)

StartReconcile(w, r) == Load(w, r) /\ UNCHANGED canned
SyncCache(w) == CacheSync(w) /\ UNCHANGED canned
Stop(w) == Crash(w) /\ UNCHANGED canned

(* A policy that another client makes while a Create is about to add its    *)
(* own counts as made by that Create, which replaces it unseen.             *)
Adding(n) == {r \in Resources : NameOf[r] = n /\ \E w \in Workers : cur[w] = r /\ pc[w] = "create2"}

MakerOf(n) == IF Adding(n) = {} THEN NoResource ELSE CHOOSE r \in Adding(n) : TRUE

(* Other MinIO clients, and resources of the same name in other namespaces, *)
(* make a policy, remove one that is not in use, replace it, and attach or  *)
(* detach it.                                                               *)
ForeignClient(n) ==
    /\ Operation
    /\ \/ /\ "make" \in Foreign /\ ~canned[n].exists
          /\ canned' = [canned EXCEPT ![n] = [NoPolicy EXCEPT !.exists = TRUE, !.maker = MakerOf(n),
                                                              !.content = "foreign"]]
       \/ /\ "remove" \in Foreign /\ canned[n].exists /\ ~canned[n].attached
          /\ canned' = [canned EXCEPT ![n] = NoPolicy]
       \/ /\ "change" \in Foreign /\ canned[n].exists
          /\ canned' = [canned EXCEPT ![n].content = "foreign"]
       \/ /\ "attach" \in Foreign /\ canned[n].exists
          /\ canned' = [canned EXCEPT ![n].attached = ~@]
    /\ UNCHANGED <<api, cache, synced, fresh, pc, cur, mem, faults>>

Next ==
    \/ \E w \in Workers :
         \/ Step(w) \/ ObserveFails(w) \/ Stop(w) \/ SyncCache(w)
         \/ \E r \in Resources : StartReconcile(w, r)
    \/ \E r \in Resources :
         \/ Delete(r)
         \/ \E s \in Specs : Apply(r, s) \/ Edit(r, s)
    \/ \E n \in Names : ForeignClient(n)

Spec == Init /\ [][Next]_vars

(* The queue and the poll bring every resource back, the watch delivers     *)
(* every change, and a running worker goes on.                              *)
Fairness ==
    /\ \A w \in Workers : WF_vars(Step(w)) /\ WF_vars(SyncCache(w))
    /\ \A w \in Workers, r \in Resources : SF_vars(StartReconcile(w, r))

FairSpec == Spec /\ Fairness

-----------------------------------------------------------------------------
(* Properties.                                                              *)

TypeOK ==
    /\ ReconcilerTypeOK
    /\ canned \in [Names -> [exists : BOOLEAN, maker : Resources \cup {NoResource},
                             content : Contents \cup {""}, attached : BOOLEAN]]

Policy(r) == canned[NameOf[r]]

(* With one replica, a Create that succeeds, and so sets the lock, has made *)
(* the policy itself, though AddCannedPolicy would replace any: not one     *)
(* that another client made, and not one that a Create left behind whose    *)
(* reply was lost and that somebody replaced since (create.go Create,       *)
(* setLock).                                                                *)
ClaimsOwnPolicy ==
    [][\A w \in Workers : pc[w] # "created" /\ pc'[w] = "created" =>
          canned'[NameOf[cur[w]]].maker = cur[w]]_vars

(* With one replica, a resource that holds the lock disappears only after   *)
(* its policy: no error, crash or stale cache makes the finalizer go first, *)
(* although MinIO refuses to remove a policy in use (delete.go,             *)
(* observer.go).  A second replica that is slow in Update would bring the   *)
(* policy back: AddCannedPolicy also makes one.                             *)
PolicyGoesFirst ==
    [][\A r \in Resources : Claimed(r) /\ ~api'[r].present => Policy(r).maker # r]_vars

(* A resource that users leave alone ends with a policy that says what the  *)
(* spec says, the status shows it, and it stays that way, whatever other    *)
(* clients wrote and whichever calls were refused (observer.go, update.go). *)
(* Two things prevent it: a policy it has no lock on, of another client or  *)
(* left by a Create whose reply was lost, and a Create that was             *)
(* interrupted.                                                             *)
WellFormed(r) == ~Empty(api[r].spec) /\ Acceptable(api[r].spec)

Satisfied(r) ==
    /\ WellFormed(r) /\ Claimed(r) /\ Policy(r).exists
    /\ Policy(r).content = Asked(api[r].spec)
    /\ api[r].ready = "Available" /\ api[r].at = Policy(r).content

Obstructed(r) == (Policy(r).exists /\ ~Claimed(r)) \/ api[r].create = "pending"

Converges ==
    \A r \in Resources :
        <>[](api[r].present /\ ~api[r].deleting /\ WellFormed(r)) =>
            <>[]Satisfied(r) \/ <>[]Obstructed(r)

(* Only a policy in use, a rawPolicy that Observe cannot parse or a Create  *)
(* that was interrupted keeps a deletion from ending (delete.go,            *)
(* observer.go).                                                            *)
DeletionCompletes ==
    \A r \in Resources :
        <>[]api[r].deleting =>
            <>[](Policy(r).attached \/ api[r].spec.raw \in NotJSON \/ api[r].create = "pending")

=============================================================================
