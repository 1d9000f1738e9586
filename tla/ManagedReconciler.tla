------------------------- MODULE ManagedReconciler -------------------------
(***************************************************************************)
(* The part every controller of the provider shares: the API server's      *)
(* copy of a custom resource, the informer cache a replica reads it from,  *)
(* and the crossplane-runtime managed.Reconciler that createReconciler of  *)
(* operator/<kind>/setup.go configures (one worker per kind and replica,   *)
(* creation grace period 0).  The runtime is a dependency: it is modelled  *)
(* from how the controllers use it.                                        *)
(*                                                                         *)
(* A controller module EXTENDS this one, supplies Observe, Create, Update  *)
(* and Delete, and composes them with the actions below.  ReconcilerSpec   *)
(* is what all of them promise to the API server; each controller is       *)
(* shown to implement it.                                                  *)
(***************************************************************************)
EXTENDS Naturals

CONSTANTS
    Workers,      \* one reconcile worker per running replica of the provider
    Resources,    \* names of custom resources of one kind
    NoResource,   \* what an idle worker works on
    Specs,        \* the specs users write
    Anns,         \* values of the annotation that a controller's Create sets
    Ats,          \* values of the status.atProvider field a controller uses
    FaultKinds,   \* the kinds of fault that may happen in this instance
    MaxFaults,    \* bound on faults
    MaxOps        \* bound on what users and other MinIO clients do

ASSUME ReconcilerAssumption ==
    /\ NoResource \notin Resources
    /\ Specs # {}
    /\ "" \in Anns
    /\ "" \in Ats
    /\ MaxFaults \in Nat
    /\ MaxOps \in Nat

VARIABLES
    api,      \* api[r]: the API server's copy of resource r
    cache,    \* cache[w][r]: the copy in the informer cache of w's replica
    synced,   \* the <<w, r>> for which cache[w][r] has api[r]'s resourceVersion
    fresh,    \* the workers whose copy has the API server's resourceVersion
    pc,       \* pc[w]: the call the worker makes next
    cur,      \* cur[w]: the resource being reconciled
    mem,      \* mem[w]: the worker's in-memory copy of it
    faults,   \* faults so far
    ops       \* operations of users and of other MinIO clients so far

reconcilerVars == <<api, cache, synced, fresh, pc, cur, mem, faults, ops>>

-----------------------------------------------------------------------------
(* Stages.  A Create, Update or Delete that makes several remote calls has  *)
(* one stage per call.                                                      *)

CreateStages == {"create", "create2", "create3", "created", "createFailed"}
UpdateStages == {"update", "update2", "update3"}
DeleteStages == {"delete", "delete2"}
Observed == {"absent", "outdated", "upToDate"}
Stages == {"idle", "observe", "finalize", "publish", "status"}
            \cup Observed \cup CreateStages \cup UpdateStages \cup DeleteStages

(* The worker is inside the controller's Create, or its outcome is not yet  *)
(* recorded in the API server.                                              *)
Creating(w) == pc[w] \in CreateStages

Readiness == {"", "Creating", "Available", "Updating", "Disabled", "Deleting"}

(* "create" summarises the runtime's external-create-* annotations: the     *)
(* latest of pending, succeeded and failed.                                 *)
Object == [present : BOOLEAN, deleting : BOOLEAN, finalizer : BOOLEAN,
           create : {"", "pending", "succeeded", "failed"},
           ann : Anns, spec : Specs, at : Ats,
           ready : Readiness]

Gone == [present |-> FALSE, deleting |-> FALSE, finalizer |-> FALSE,
         create |-> "", ann |-> "", spec |-> CHOOSE s \in Specs : TRUE,
         at |-> "", ready |-> ""]

ReconcilerTypeOK ==
    /\ api \in [Resources -> Object]
    /\ cache \in [Workers -> [Resources -> Object]]
    /\ synced \in SUBSET (Workers \X Resources)
    /\ fresh \in SUBSET Workers
    /\ pc \in [Workers -> Stages]
    /\ cur \in [Workers -> Resources \cup {NoResource}]
    /\ mem \in [Workers -> Object]
    /\ faults \in 0..MaxFaults
    /\ ops \in 0..MaxOps

ReconcilerInit ==
    /\ api = [r \in Resources |-> Gone]
    /\ cache = [w \in Workers |-> [r \in Resources |-> Gone]]
    /\ synced = Workers \X Resources
    /\ fresh = {}
    /\ pc = [w \in Workers |-> "idle"]
    /\ cur = [w \in Workers |-> NoResource]
    /\ mem = [w \in Workers |-> Gone]
    /\ faults = 0
    /\ ops = 0

-----------------------------------------------------------------------------
(* Writing to the API server: the resourceVersion changes, so every cached  *)
(* copy and every copy in another worker's memory is out of date.           *)

Store(r, o) ==
    /\ api' = [api EXCEPT ![r] = o]
    /\ synced' = synced \ (Workers \X {r})

StaleNow(r) == {v \in Workers : cur[v] = r}

Fault(kind) ==
    /\ kind \in FaultKinds
    /\ faults < MaxFaults
    /\ faults' = faults + 1

(* The reconcile request ends; the worker takes the next from its queue.    *)
Return(w) ==
    /\ pc' = [pc EXCEPT ![w] = "idle"]
    /\ cur' = [cur EXCEPT ![w] = NoResource]
    /\ mem' = [mem EXCEPT ![w] = Gone]

-----------------------------------------------------------------------------
(* The managed.Reconciler.                                                  *)

(* Get from the cache.  A creation that was announced and never recorded    *)
(* stops the reconcile: the runtime cannot tell whether it happened.        *)
Load(w, r) ==
    LET o == cache[w][r]
        incomplete == o.create = "pending"
    IN  /\ pc[w] = "idle"
        /\ o.present
        /\ cur' = [cur EXCEPT ![w] = r]
        /\ mem' = [mem EXCEPT ![w] =
                     IF incomplete THEN [o EXCEPT !.ready = "Creating"] ELSE o]
        /\ pc' = [pc EXCEPT ![w] = IF incomplete THEN "status" ELSE "observe"]
        /\ fresh' = IF <<w, r>> \in synced THEN fresh \cup {w} ELSE fresh \ {w}
        /\ UNCHANGED <<api, cache, synced, faults, ops>>

(* The runtime goes on as soon as the finalizer is there.                   *)
AfterFinalizer(outcome) ==
    CASE outcome = "absent"   -> "absent"
      [] outcome = "outdated" -> "update"
      [] outcome = "upToDate" -> "status"

(* What the runtime does with the outcome of the controller's Observe, the  *)
(* in-memory copy m with the status Observe put in it.                      *)
AfterObserve(w, m, outcome) ==
    /\ pc[w] = "observe"
    /\ mem' = [mem EXCEPT ![w] = m]
    /\ pc' = [pc EXCEPT ![w] =
                IF mem[w].deleting
                  THEN IF outcome = "absent" THEN "finalize" ELSE "delete"
                  ELSE IF mem[w].finalizer THEN AfterFinalizer(outcome)
                                           ELSE outcome]
    /\ UNCHANGED <<api, cache, synced, fresh, cur, ops>>

(* Connect or Observe returned an error: only the status is written.        *)
AfterObserveError(w, m) ==
    /\ pc[w] = "observe"
    /\ mem' = [mem EXCEPT ![w] = m]
    /\ pc' = [pc EXCEPT ![w] = "status"]
    /\ UNCHANGED <<api, cache, synced, fresh, cur, ops>>

(* client.Update of the in-memory copy: refused when it is not the latest.  *)
(* s is the spec as the provider's types serialise it.  The reply is        *)
(* decoded over the in-memory copy, so a status the server has wins.        *)
ClientUpdate(w, o, stage) ==
    /\ w \in fresh
    /\ Store(cur[w], o)
    /\ fresh' = (fresh \ StaleNow(cur[w])) \cup {w}
    /\ mem' = [mem EXCEPT ![w] =
                 [o EXCEPT !.spec = mem[w].spec,
                           !.at = IF o.at = "" THEN mem[w].at ELSE o.at,
                           !.ready = IF o.ready = "" THEN mem[w].ready ELSE o.ready]]
    /\ pc' = [pc EXCEPT ![w] = stage]
    /\ UNCHANGED <<cache, cur, faults, ops>>

(* The default initializer: a resource without external-name annotation     *)
(* gets its own name.  Only ServiceAccount reads that annotation.           *)
Initialize(w, name, s) ==
    /\ pc[w] = "observe"
    /\ mem[w].ann = ""
    /\ ClientUpdate(w, [api[cur[w]] EXCEPT !.ann = name, !.spec = s], "observe")

AddFinalizer(w, s) ==
    /\ pc[w] \in Observed
    /\ ~mem[w].finalizer
    /\ ClientUpdate(w, [api[cur[w]] EXCEPT !.finalizer = TRUE, !.spec = s],
                    AfterFinalizer(pc[w]))

(* Mutant of MarkPending: the announcement is written whatever version the  *)
(* copy has.                                                                *)
MarkPendingUnchecked(w, s) ==
    LET o == [api[cur[w]] EXCEPT !.create = "pending", !.spec = s]
    IN  /\ pc[w] = "absent"
        /\ mem[w].finalizer
        /\ Store(cur[w], o)
        /\ fresh' = (fresh \ StaleNow(cur[w])) \cup {w}
        /\ mem' = [mem EXCEPT ![w] = o]
        /\ pc' = [pc EXCEPT ![w] = "create"]
        /\ UNCHANGED <<cache, cur, faults, ops>>

(* The annotation that announces a creation is written before Create runs.  *)
MarkPending(w, s) ==
    /\ pc[w] = "absent"
    /\ mem[w].finalizer
    /\ ClientUpdate(w, [api[cur[w]] EXCEPT !.create = "pending", !.spec = s], "create")

(* UpdateCriticalAnnotations: fetches the latest version and retries, so    *)
(* it does not need a fresh copy.  It persists the annotation Create set;   *)
(* the status Create set stays in memory unless the latest copy replaced it.*)
RecordCreation(w, s, stage) ==
    LET r == cur[w]
        o == [api[r] EXCEPT !.create = "succeeded", !.ann = mem[w].ann, !.spec = s]
        at == IF w \in fresh /\ o.at = "" THEN mem[w].at ELSE o.at
    IN  /\ pc[w] = "created"
        /\ Store(r, o)
        /\ fresh' = (fresh \ StaleNow(r)) \cup {w}
        /\ mem' = [mem EXCEPT ![w] = [o EXCEPT !.at = at, !.ready = "Creating"]]
        /\ pc' = [pc EXCEPT ![w] = stage]
        /\ UNCHANGED <<cache, cur, faults, ops>>

RecordFailure(w, s) ==
    LET r == cur[w]
        o == [api[r] EXCEPT !.create = "failed", !.spec = s]
    IN  /\ pc[w] = "createFailed"
        /\ Store(r, o)
        /\ fresh' = (fresh \ StaleNow(r)) \cup {w}
        /\ mem' = [mem EXCEPT ![w] = [o EXCEPT !.ready = "Creating"]]
        /\ pc' = [pc EXCEPT ![w] = "status"]
        /\ UNCHANGED <<cache, cur, faults, ops>>

(* Status().Update: a status that did not change is not a write.            *)
WriteStatus(w) ==
    LET r == cur[w]
        o == [api[r] EXCEPT !.ready = mem[w].ready, !.at = mem[w].at]
    IN  /\ pc[w] = "status"
        /\ w \in fresh
        /\ IF o = api[r]
             THEN fresh' = fresh \ {w} /\ UNCHANGED <<api, synced>>
             ELSE Store(r, o) /\ fresh' = fresh \ StaleNow(r)
        /\ Return(w)
        /\ UNCHANGED <<cache, faults, ops>>

(* The last finalizer of a deleted resource is removed: it is gone.         *)
Finalize(w) ==
    /\ pc[w] = "finalize"
    /\ w \in fresh
    /\ Store(cur[w], Gone)
    /\ fresh' = fresh \ StaleNow(cur[w])
    /\ Return(w)
    /\ UNCHANGED <<cache, faults, ops>>

(* A write of a copy that is not the latest is refused; the request is      *)
(* queued again.                                                            *)
Conflict(w) ==
    /\ pc[w] \in Observed \cup {"status", "finalize"}
    /\ w \notin fresh
    /\ Return(w)
    /\ UNCHANGED <<api, cache, synced, fresh, faults, ops>>

(* So is the default initializer's write.                                   *)
InitializeConflict(w) ==
    /\ pc[w] = "observe"
    /\ mem[w].ann = ""
    /\ w \notin fresh
    /\ Return(w)
    /\ UNCHANGED <<api, cache, synced, fresh, faults, ops>>

(* The kind's own webhook refuses a write of the runtime: the reconcile ends*)
(* with a write of the status, which no webhook sees.                       *)
WriteRefused(w) ==
    /\ pc[w] \in Observed \cup {"created", "createFailed"}
    /\ mem' = [mem EXCEPT ![w].ready = IF Creating(w) THEN "Creating" ELSE @]
    /\ pc' = [pc EXCEPT ![w] = "status"]
    /\ UNCHANGED <<api, cache, synced, fresh, cur, faults, ops>>

(* The replica stops in the middle of a reconcile and is started again, or  *)
(* a write of the runtime fails for good: the rest does not happen.         *)
Crash(w) ==
    /\ pc[w] # "idle"
    /\ Fault("crash")
    /\ Return(w)
    /\ fresh' = fresh \ {w}
    /\ UNCHANGED <<api, cache, synced, ops>>

(* One remote call inside Create, Update or Delete.  Only the in-memory     *)
(* annotation and status may change until the runtime writes them.          *)
ExternalCall(w, stage, ann, at, ready) ==
    /\ \/ pc[w] \in {"create", "create2", "create3"} /\ stage \in CreateStages
       \/ pc[w] \in UpdateStages /\ stage \in UpdateStages \cup {"status"}
       \/ pc[w] \in DeleteStages /\ stage \in DeleteStages \cup {"status"}
       \/ pc[w] = "publish" /\ stage = "status"
    /\ mem' = [mem EXCEPT ![w].ann = ann, ![w].at = at, ![w].ready = ready]
    /\ pc' = [pc EXCEPT ![w] = stage]
    /\ UNCHANGED <<api, cache, synced, fresh, cur, ops>>

(* The watch on the kind delivers changes in the order in which they were   *)
(* made: a cache is the API server's state at some earlier moment.          *)
CacheSync(w) ==
    /\ \E r \in Resources : <<w, r>> \notin synced
    /\ cache' = [cache EXCEPT ![w] = api]
    /\ synced' = synced \cup ({w} \X Resources)
    /\ UNCHANGED <<api, fresh, pc, cur, mem, faults, ops>>

-----------------------------------------------------------------------------
(* Users of the API server.  The guards that a kind's webhook adds are in   *)
(* the controller's module.                                                 *)

Operation == ops < MaxOps /\ ops' = ops + 1

UserWrite(r, o) ==
    /\ Operation
    /\ Store(r, o)
    /\ fresh' = fresh \ StaleNow(r)
    /\ UNCHANGED <<cache, pc, cur, mem, faults>>

UserApply(r, s) ==
    /\ ~api[r].present
    /\ UserWrite(r, [Gone EXCEPT !.present = TRUE, !.spec = s])

UserEdit(r, s) ==
    /\ api[r].present
    /\ api[r].spec # s
    /\ UserWrite(r, [api[r] EXCEPT !.spec = s])

UserDelete(r) ==
    /\ api[r].present
    /\ ~api[r].deleting
    /\ UserWrite(r, IF api[r].finalizer THEN [api[r] EXCEPT !.deleting = TRUE] ELSE Gone)

-----------------------------------------------------------------------------
(* What every controller promises to the API server, whatever its Observe,  *)
(* Create, Update and Delete do to MinIO.                                   *)

MayFault == faults' = faults \/ (faults < MaxFaults /\ faults' = faults + 1)

ReconcilerNext ==
    \/ \E w \in Workers :
         \/ CacheSync(w)
         \/ \E r \in Resources : Load(w, r)
         \/ \E at \in Ats, ready \in Readiness :
              LET m == [mem[w] EXCEPT !.at = at, !.ready = ready]
              IN  MayFault /\ \/ AfterObserveError(w, m)
                              \/ \E outcome \in Observed : AfterObserve(w, m, outcome)
         \/ \E s \in Specs : \/ \E name \in Anns : Initialize(w, name, s)
                             \/ AddFinalizer(w, s)
                             \/ MarkPending(w, s)
                             \/ \E stage \in {"publish", "status"} : RecordCreation(w, s, stage)
                             \/ RecordFailure(w, s)
         \/ \E stage \in Stages, ann \in Anns, at \in Ats, ready \in {mem[w].ready, "Available", "Deleting"} :
              MayFault /\ ExternalCall(w, stage, ann, at, ready)
         \/ WriteStatus(w)
         \/ Finalize(w)
         \/ Conflict(w)
         \/ InitializeConflict(w)
         \/ WriteRefused(w)
         \/ Crash(w)
    \/ \E r \in Resources :
         \/ UserDelete(r)
         \/ \E s \in Specs : UserApply(r, s) \/ UserEdit(r, s)
    \/ Operation /\ UNCHANGED <<api, cache, synced, fresh, pc, cur, mem, faults>>

ReconcilerSpec == ReconcilerInit /\ [][ReconcilerNext]_reconcilerVars

(* Seen from the API server, the reconciler implements Lifecycle.           *)
PhaseOf(o) == IF ~o.present THEN "gone"
              ELSE IF o.deleting THEN "ending"
              ELSE IF o.finalizer THEN "held" ELSE "new"

CreationOf(o) == IF o.create = "" THEN "none" ELSE o.create

Life == INSTANCE Lifecycle WITH
          phase <- [r \in Resources |-> PhaseOf(api[r])],
          creation <- [r \in Resources |-> CreationOf(api[r])]

(* Whatever the replicas, their caches, crashes and conflicts: a creation   *)
(* begins only for a resource that is held by its finalizer and not being   *)
(* deleted, one at a time, and a resource disappears only when it is known  *)
(* whether its creation happened (createReconciler).                        *)
LifecycleSpec == Life!Spec

-----------------------------------------------------------------------------
(* Two replicas never run Create for the same resource at the same time:    *)
(* the external-create-pending annotation is written with a version check.  *)
OneCreateInFlight ==
    \A v, w \in Workers : Creating(v) /\ Creating(w) /\ cur[v] = cur[w] => v = w

(* The parts of the inductive invariant behind it.                          *)

(* A cache that has caught up agrees with the API server.                   *)
SyncedAgrees ==
    \A w \in Workers, r \in Resources : <<w, r>> \in synced => cache[w][r] = api[r]

(* A worker at work has a resource, and a copy that was present.            *)
BusyHasResource ==
    \A w \in Workers : pc[w] # "idle" => cur[w] \in Resources /\ mem[w].present

(* A copy with the latest resourceVersion agrees with the API server on     *)
(* what the runtime decides by.                                             *)
FreshAgrees ==
    \A w \in fresh : pc[w] # "idle" =>
        /\ mem[w].present = api[cur[w]].present
        /\ mem[w].deleting = api[cur[w]].deleting
        /\ mem[w].finalizer = api[cur[w]].finalizer
        /\ mem[w].create = api[cur[w]].create

(* No worker gets past Load on a copy with an announced creation.           *)
NothingAnnounced ==
    \A w \in Workers :
        pc[w] \in Observed \cup {"observe", "finalize"} => mem[w].create # "pending"

(* While a worker is in Create, the API server has its announcement, and    *)
(* the finalizer keeps the resource from disappearing.                      *)
CreateAnnounced ==
    \A w \in Workers : Creating(w) =>
        /\ api[cur[w]].present
        /\ api[cur[w]].finalizer
        /\ api[cur[w]].create = "pending"

ReconcilerInv ==
    /\ ReconcilerTypeOK
    /\ SyncedAgrees
    /\ BusyHasResource
    /\ FreshAgrees
    /\ NothingAnnounced
    /\ CreateAnnounced
    /\ OneCreateInFlight

=============================================================================
