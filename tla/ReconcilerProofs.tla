-------------------------- MODULE ReconcilerProofs --------------------------
(***************************************************************************)
(* What holds of every controller built on the managed reconciler, for any *)
(* number of replicas and resources: the type invariant, and that Create   *)
(* never runs twice at once for a resource.  Steps come in four shapes:    *)
(* a worker moves on without a write, writes and goes on, writes or not    *)
(* and returns, and a user writes.  One lemma for each shape.              *)
(***************************************************************************)
EXTENDS ManagedReconciler, TLAPS

(* The record of a resource that does not exist is a record of a resource.  *)
LEMMA GoneIsObject == Gone \in Object
  BY ReconcilerAssumption DEF Gone, Object, Readiness

(* The initial state satisfies the inductive invariant.                     *)
LEMMA InitInv == ReconcilerInit => ReconcilerInv
  <1> SUFFICES ASSUME ReconcilerInit PROVE ReconcilerInv
    OBVIOUS
  <1>1. faults \in 0..MaxFaults /\ ops \in 0..MaxOps
    <2>1. MaxFaults \in Nat /\ MaxOps \in Nat
      BY ReconcilerAssumption
    <2>2. faults = 0 /\ ops = 0
      BY DEF ReconcilerInit
    <2>3. QED
      BY <2>1, <2>2
  <1>2. ReconcilerTypeOK
    BY <1>1, GoneIsObject DEF ReconcilerInit, ReconcilerTypeOK, Stages
  <1>3. QED
    BY <1>2 DEF ReconcilerInit, ReconcilerInv, SyncedAgrees, BusyHasResource, FreshAgrees,
       NothingAnnounced, CreateAnnounced, OneCreateInFlight, Creating, CreateStages, Observed

(* Budgets only grow, and not past their bounds.                            *)
LEMMA FaultBound ==
  ASSUME ReconcilerTypeOK, MayFault \/ \E k \in {"crash"} : Fault(k)
  PROVE  faults' \in 0..MaxFaults
  <1>1. MaxFaults \in Nat
    BY ReconcilerAssumption
  <1>2. faults \in 0..MaxFaults
    BY DEF ReconcilerTypeOK
  <1>3. faults' = faults \/ (faults < MaxFaults /\ faults' = faults + 1)
    BY DEF MayFault, Fault
  <1>4. QED
    BY <1>1, <1>2, <1>3

LEMMA OpBound ==
  ASSUME ReconcilerTypeOK, Operation
  PROVE  ops' \in 0..MaxOps
  <1>1. MaxOps \in Nat
    BY ReconcilerAssumption
  <1>2. ops \in 0..MaxOps /\ ops < MaxOps /\ ops' = ops + 1
    BY DEF ReconcilerTypeOK, Operation
  <1>3. QED
    BY <1>1, <1>2

(* Two copies agree on what the runtime decides by.                         *)
SameMeta(m, o) ==
    /\ m.present = o.present
    /\ m.deleting = o.deleting
    /\ m.finalizer = o.finalizer
    /\ m.create = o.create

(* A worker moves on without writing to the API server.                     *)
LEMMA LocalStep ==
  ASSUME ReconcilerInv, NEW w \in Workers, NEW m \in Object, NEW stage \in Stages,
         pc[w] # "idle", stage # "idle",
         mem' = [mem EXCEPT ![w] = m],
         pc' = [pc EXCEPT ![w] = stage],
         SameMeta(m, mem[w]),
         stage \in Observed \cup {"observe", "finalize"} => m.create # "pending",
         stage \in CreateStages => pc[w] \in CreateStages,
         UNCHANGED <<api, cache, synced, fresh, cur>>,
         faults' \in 0..MaxFaults, ops' \in 0..MaxOps
  PROVE  ReconcilerInv'
  <1> USE DEF ReconcilerInv
  <1>1. ReconcilerTypeOK'
    BY DEF ReconcilerTypeOK
  <1>2. SyncedAgrees'
    BY DEF SyncedAgrees
  <1>3. BusyHasResource' /\ FreshAgrees'
    BY DEF ReconcilerTypeOK, BusyHasResource, FreshAgrees, SameMeta
  <1>4. NothingAnnounced'
    BY DEF ReconcilerTypeOK, NothingAnnounced
  <1>5. CreateAnnounced' /\ OneCreateInFlight'
    BY DEF ReconcilerTypeOK, CreateAnnounced, OneCreateInFlight, Creating
  <1>6. QED
    BY <1>1, <1>2, <1>3, <1>4, <1>5

(* A write leaves no cache of that resource synced.                         *)
LEMMA StoreFacts ==
  ASSUME ReconcilerInv, NEW r \in Resources, NEW o \in Object, Store(r, o), UNCHANGED cache
  PROVE  /\ SyncedAgrees'
         /\ synced' \in SUBSET (Workers \X Resources)
         /\ api' \in [Resources -> Object]
         /\ api'[r] = o
         /\ \A q \in Resources : q # r => api'[q] = api[q]
  <1>1. api \in [Resources -> Object] /\ synced \in SUBSET (Workers \X Resources)
    BY DEF ReconcilerInv, ReconcilerTypeOK
  <1>2. \A v \in Workers : <<v, r>> \notin synced'
    BY DEF Store
  <1>3. \A q \in Resources : q # r => api'[q] = api[q]
    BY <1>1 DEF Store
  <1>4. SyncedAgrees'
    <2> SUFFICES ASSUME NEW v \in Workers, NEW q \in Resources, <<v, q>> \in synced'
                 PROVE  cache'[v][q] = api'[q]
      BY DEF SyncedAgrees
    <2>1. q # r /\ <<v, q>> \in synced
      BY <1>2 DEF Store
    <2>2. QED
      BY <2>1, <1>3 DEF ReconcilerInv, SyncedAgrees
  <1>5. QED
    BY <1>1, <1>3, <1>4 DEF Store

(* A worker writes its resource and goes on with the reply.                 *)
LEMMA WorkerWrite ==
  ASSUME ReconcilerInv, NEW w \in Workers, NEW o \in Object, NEW m \in Object, NEW stage \in Stages,
         pc[w] # "idle", stage # "idle",
         Store(cur[w], o),
         fresh' = (fresh \ StaleNow(cur[w])) \cup {w},
         mem' = [mem EXCEPT ![w] = m],
         pc' = [pc EXCEPT ![w] = stage],
         SameMeta(m, o), m.present,
         stage \in Observed \cup {"observe", "finalize"} => m.create # "pending",
         stage \in CreateStages => o.finalizer /\ o.create = "pending",
         \A v \in Workers : Creating(v) /\ cur[v] = cur[w] => v = w,
         UNCHANGED <<cache, cur, faults, ops>>
  PROVE  ReconcilerInv'
  <1> DEFINE r == cur[w]
  <1> USE DEF ReconcilerInv
  <1>1. r \in Resources
    BY DEF BusyHasResource
  <1>2. /\ SyncedAgrees'
        /\ synced' \in SUBSET (Workers \X Resources)
        /\ api' \in [Resources -> Object]
        /\ api'[r] = o
        /\ \A q \in Resources : q # r => api'[q] = api[q]
    BY <1>1, StoreFacts
  <1>3. ReconcilerTypeOK'
    BY <1>2 DEF ReconcilerTypeOK
  <1>4. BusyHasResource' /\ NothingAnnounced'
    BY <1>1 DEF ReconcilerTypeOK, BusyHasResource, NothingAnnounced
  <1>5. FreshAgrees'
    <2> SUFFICES ASSUME NEW v \in fresh', pc'[v] # "idle"
                 PROVE  SameMeta(mem'[v], api'[cur[v]])
      BY DEF FreshAgrees, SameMeta
    <2>1. v \in Workers
      BY DEF ReconcilerTypeOK
    <2>2. CASE v = w
      BY <2>2, <1>2 DEF ReconcilerTypeOK
    <2>3. CASE v # w
      <3>1. v \in fresh /\ cur[v] # r
        BY <2>1, <2>3 DEF StaleNow
      <3>2. mem'[v] = mem[v] /\ pc[v] # "idle" /\ cur[v] \in Resources
        BY <2>1, <2>3 DEF ReconcilerTypeOK, BusyHasResource
      <3>3. QED
        BY <3>1, <3>2, <1>2 DEF FreshAgrees, SameMeta
    <2>4. QED
      BY <2>2, <2>3
  <1>6. OneCreateInFlight'
    BY DEF ReconcilerTypeOK, OneCreateInFlight, Creating
  <1>7. CreateAnnounced'
    <2> SUFFICES ASSUME NEW v \in Workers, Creating(v)'
                 PROVE  /\ api'[cur[v]].present
                        /\ api'[cur[v]].finalizer
                        /\ api'[cur[v]].create = "pending"
      BY DEF CreateAnnounced
    <2>1. CASE v = w
      BY <2>1, <1>2 DEF ReconcilerTypeOK, Creating, SameMeta
    <2>2. CASE v # w
      <3>1. Creating(v) /\ cur[v] # r /\ cur[v] \in Resources
        BY <2>2 DEF ReconcilerTypeOK, Creating, BusyHasResource, CreateStages
      <3>2. QED
        BY <3>1, <1>2 DEF CreateAnnounced
    <2>3. QED
      BY <2>1, <2>2
  <1>8. QED
    BY <1>2, <1>3, <1>4, <1>5, <1>6, <1>7

(* A write by a worker that returns, or by a user, of a resource on which a *)
(* Create may be running: the write keeps what CreateAnnounced says.        *)
LEMMA LastWrite ==
  ASSUME ReconcilerInv, NEW r \in Resources, NEW o \in Object,
         Store(r, o), UNCHANGED cache,
         fresh' = fresh \ StaleNow(r),
         \/ UNCHANGED <<pc, cur, mem>>
         \/ \E w \in Workers : Return(w) /\ cur[w] = r,
         \/ \A v \in Workers : Creating(v) => cur[v] # r
         \/ /\ o.create = api[r].create
            /\ api[r].present /\ api[r].finalizer => o.present /\ o.finalizer,
         faults' \in 0..MaxFaults, ops' \in 0..MaxOps
  PROVE  ReconcilerInv'
  <1> USE DEF ReconcilerInv
  <1>1. /\ SyncedAgrees'
        /\ synced' \in SUBSET (Workers \X Resources)
        /\ api' \in [Resources -> Object]
        /\ api'[r] = o
        /\ \A q \in Resources : q # r => api'[q] = api[q]
    BY StoreFacts
  <1>2. \A v \in Workers : \/ pc'[v] = pc[v] /\ cur'[v] = cur[v] /\ mem'[v] = mem[v]
                           \/ pc'[v] = "idle"
    BY DEF Return, ReconcilerTypeOK
  <1>3. ReconcilerTypeOK'
    BY <1>1, GoneIsObject DEF ReconcilerTypeOK, Return, Stages
  <1>4. BusyHasResource' /\ NothingAnnounced' /\ OneCreateInFlight'
    BY <1>2 DEF BusyHasResource, NothingAnnounced, Observed, OneCreateInFlight, Creating, CreateStages
  <1>5. FreshAgrees'
    <2> SUFFICES ASSUME NEW v \in fresh', pc'[v] # "idle"
                 PROVE  SameMeta(mem'[v], api'[cur'[v]])
      BY DEF FreshAgrees, SameMeta
    <2>1. v \in fresh /\ v \in Workers /\ cur[v] # r
      BY DEF StaleNow, ReconcilerTypeOK
    <2>2. cur'[v] = cur[v] /\ mem'[v] = mem[v] /\ pc[v] # "idle" /\ cur[v] \in Resources
      BY <1>2, <2>1 DEF BusyHasResource
    <2>3. QED
      BY <1>1, <2>1, <2>2 DEF FreshAgrees, SameMeta
  <1>6. CreateAnnounced'
    <2> SUFFICES ASSUME NEW v \in Workers, Creating(v)'
                 PROVE  /\ api'[cur'[v]].present
                        /\ api'[cur'[v]].finalizer
                        /\ api'[cur'[v]].create = "pending"
      BY DEF CreateAnnounced
    <2>1. Creating(v) /\ cur'[v] = cur[v] /\ cur[v] \in Resources
      BY <1>2 DEF Creating, CreateStages, BusyHasResource
    <2>2. QED
      BY <1>1, <2>1 DEF CreateAnnounced
  <1>7. QED
    BY <1>1, <1>3, <1>4, <1>5, <1>6

(* A worker returns without a write.                                        *)
LEMMA ReturnStep ==
  ASSUME ReconcilerInv, NEW w \in Workers, Return(w), fresh' \in SUBSET fresh,
         UNCHANGED <<api, cache, synced>>,
         faults' \in 0..MaxFaults, ops' \in 0..MaxOps
  PROVE  ReconcilerInv'
  <1> USE DEF ReconcilerInv
  <1>1. \A v \in Workers : \/ pc'[v] = pc[v] /\ cur'[v] = cur[v] /\ mem'[v] = mem[v]
                           \/ pc'[v] = "idle"
    BY DEF Return, ReconcilerTypeOK
  <1>2. ReconcilerTypeOK'
    BY GoneIsObject DEF ReconcilerTypeOK, Return, Stages
  <1>3. SyncedAgrees'
    BY DEF SyncedAgrees
  <1>4. BusyHasResource' /\ NothingAnnounced' /\ OneCreateInFlight'
    BY <1>1 DEF BusyHasResource, NothingAnnounced, Observed, OneCreateInFlight, Creating, CreateStages
  <1>5. FreshAgrees' /\ CreateAnnounced'
    BY <1>1 DEF FreshAgrees, CreateAnnounced, Creating, CreateStages, ReconcilerTypeOK
  <1>6. QED
    BY <1>2, <1>3, <1>4, <1>5

(* A worker takes a resource from its queue.                                *)
LEMMA LoadInv ==
  ASSUME ReconcilerInv, NEW w \in Workers, NEW r \in Resources, Load(w, r)
  PROVE  ReconcilerInv'
  <1> DEFINE o == cache[w][r]
             m == IF o.create = "pending" THEN [o EXCEPT !.ready = "Creating"] ELSE o
             stage == IF o.create = "pending" THEN "status" ELSE "observe"
  <1> USE DEF ReconcilerInv
  <1>1. o \in Object
    BY DEF ReconcilerTypeOK
  <1>2. m \in Object /\ SameMeta(m, o) /\ m.present
    BY <1>1 DEF Object, Readiness, SameMeta, Load
  <1>3. /\ mem' = [mem EXCEPT ![w] = m]
        /\ pc' = [pc EXCEPT ![w] = stage]
        /\ cur' = [cur EXCEPT ![w] = r]
        /\ fresh' = IF <<w, r>> \in synced THEN fresh \cup {w} ELSE fresh \ {w}
        /\ UNCHANGED <<api, cache, synced, faults, ops>>
    BY DEF Load
  <1> HIDE DEF m, o
  <1>4. ReconcilerTypeOK'
    BY <1>2, <1>3 DEF ReconcilerTypeOK, Stages
  <1>5. SyncedAgrees' /\ BusyHasResource'
    BY <1>2, <1>3 DEF ReconcilerTypeOK, SyncedAgrees, BusyHasResource
  <1>6. NothingAnnounced'
    BY <1>2, <1>3 DEF ReconcilerTypeOK, NothingAnnounced, Observed, SameMeta
  <1>7. FreshAgrees'
    <2> SUFFICES ASSUME NEW v \in fresh', pc'[v] # "idle"
                 PROVE  SameMeta(mem'[v], api'[cur'[v]])
      BY DEF FreshAgrees, SameMeta
    <2>1. v \in Workers
      BY <1>3 DEF ReconcilerTypeOK
    <2>2. CASE v = w
      <3>1. o = api[r]
        BY <2>2, <1>3 DEF SyncedAgrees, o
      <3>2. QED
        BY <2>2, <3>1, <1>2, <1>3 DEF ReconcilerTypeOK
    <2>3. CASE v # w
      BY <2>1, <2>3, <1>3 DEF ReconcilerTypeOK, FreshAgrees, SameMeta
    <2>4. QED
      BY <2>2, <2>3
  <1>8. CreateAnnounced' /\ OneCreateInFlight'
    BY <1>3 DEF ReconcilerTypeOK, CreateAnnounced, OneCreateInFlight, Creating, CreateStages
  <1>9. QED
    BY <1>4, <1>5, <1>6, <1>7, <1>8

(* A cache catches up.                                                      *)
LEMMA CacheSyncInv ==
  ASSUME ReconcilerInv, NEW w \in Workers, CacheSync(w)
  PROVE  ReconcilerInv'
  <1> USE DEF ReconcilerInv, CacheSync
  <1>1. ReconcilerTypeOK'
    BY DEF ReconcilerTypeOK
  <1>2. SyncedAgrees'
    BY DEF ReconcilerTypeOK, SyncedAgrees
  <1>3. BusyHasResource' /\ FreshAgrees' /\ NothingAnnounced'
    BY DEF BusyHasResource, FreshAgrees, NothingAnnounced
  <1>4. CreateAnnounced' /\ OneCreateInFlight'
    BY DEF CreateAnnounced, OneCreateInFlight, Creating
  <1>5. QED
    BY <1>1, <1>2, <1>3, <1>4

(* Observe ends, with an outcome or an error.                               *)
LEMMA ObserveInv ==
  ASSUME ReconcilerInv, NEW w \in Workers, NEW at \in Ats, NEW ready \in Readiness, MayFault,
         LET m == [mem[w] EXCEPT !.at = at, !.ready = ready]
         IN  \/ AfterObserveError(w, m)
             \/ \E outcome \in Observed : AfterObserve(w, m, outcome)
  PROVE  ReconcilerInv'
  <1> DEFINE m == [mem[w] EXCEPT !.at = at, !.ready = ready]
  <1>1. mem[w] \in Object /\ pc \in [Workers -> Stages]
    BY DEF ReconcilerInv, ReconcilerTypeOK
  <1>2. m \in Object /\ SameMeta(m, mem[w])
    BY <1>1 DEF Object, SameMeta
  <1>3. pc[w] = "observe" /\ mem[w].create # "pending"
    BY DEF AfterObserve, AfterObserveError, ReconcilerInv, NothingAnnounced
  <1>4. faults' \in 0..MaxFaults
    BY FaultBound DEF ReconcilerInv
  <1>5. ops' \in 0..MaxOps
    BY DEF ReconcilerInv, ReconcilerTypeOK, AfterObserve, AfterObserveError
  <1>6. PICK stage \in Observed \cup {"finalize", "delete", "update", "status"} :
            pc' = [pc EXCEPT ![w] = stage]
    BY DEF AfterObserve, AfterObserveError, AfterFinalizer, Observed
  <1>7. stage \in Stages /\ stage # "idle" /\ stage \notin CreateStages
    BY <1>6 DEF Stages, Observed, UpdateStages, DeleteStages, CreateStages
  <1>8. mem' = [mem EXCEPT ![w] = m] /\ UNCHANGED <<api, cache, synced, fresh, cur>>
    BY DEF AfterObserve, AfterObserveError
  <1> HIDE DEF m
  <1>9. QED
    BY <1>2, <1>3, <1>4, <1>5, <1>6, <1>7, <1>8, LocalStep DEF SameMeta

(* A client.Update of a copy on which no creation is announced.             *)
LEMMA ClientUpdateInv ==
  ASSUME ReconcilerInv, NEW w \in Workers, NEW o \in Object, NEW stage \in Stages,
         pc[w] \in Observed \cup {"observe"},
         ClientUpdate(w, o, stage),
         o.present = api[cur[w]].present,
         stage # "idle",
         stage \in Observed \cup {"observe", "finalize"} => o.create = api[cur[w]].create,
         stage \in CreateStages => o.finalizer /\ o.create = "pending"
  PROVE  ReconcilerInv'
  <1> DEFINE m == [o EXCEPT !.spec = mem[w].spec,
                            !.at = IF o.at = "" THEN mem[w].at ELSE o.at,
                            !.ready = IF o.ready = "" THEN mem[w].ready ELSE o.ready]
  <1>1. mem[w] \in Object
    BY DEF ReconcilerInv, ReconcilerTypeOK
  <1>2. m \in Object /\ SameMeta(m, o)
    BY <1>1 DEF Object, SameMeta
  <1>3. pc[w] # "idle" /\ mem[w].create # "pending" /\ w \in fresh
    BY DEF Observed, ClientUpdate, ReconcilerInv, NothingAnnounced
  <1>4. /\ mem[w].present /\ api[cur[w]].present
        /\ api[cur[w]].create # "pending"
    BY <1>3 DEF ReconcilerInv, FreshAgrees, BusyHasResource
  <1>5. \A v \in Workers : Creating(v) /\ cur[v] = cur[w] => v = w
    BY <1>4 DEF ReconcilerInv, CreateAnnounced
  <1>6. m.present /\ (stage \in Observed \cup {"observe", "finalize"} => m.create # "pending")
    BY <1>2, <1>4 DEF SameMeta
  <1>7. /\ Store(cur[w], o)
        /\ fresh' = (fresh \ StaleNow(cur[w])) \cup {w}
        /\ mem' = [mem EXCEPT ![w] = m]
        /\ pc' = [pc EXCEPT ![w] = stage]
        /\ UNCHANGED <<cache, cur, faults, ops>>
    BY DEF ClientUpdate
  <1> HIDE DEF m
  <1>8. QED
    BY <1>2, <1>3, <1>5, <1>6, <1>7, WorkerWrite

(* The writes the runtime makes before Create.                              *)
LEMMA RuntimeUpdateInv ==
  ASSUME ReconcilerInv, NEW w \in Workers, NEW s \in Specs, NEW name \in Anns,
         Initialize(w, name, s) \/ AddFinalizer(w, s) \/ MarkPending(w, s)
  PROVE  ReconcilerInv'
  <1>1. w \in fresh /\ pc[w] \in Observed \cup {"observe"}
    BY DEF Initialize, AddFinalizer, MarkPending, ClientUpdate, Observed
  <1>2. cur[w] \in Resources
    BY <1>1 DEF Observed, ReconcilerInv, BusyHasResource
  <1>3. api[cur[w]] \in Object
    BY <1>2 DEF ReconcilerInv, ReconcilerTypeOK
  <1>4. CASE Initialize(w, name, s)
    <2> DEFINE o == [api[cur[w]] EXCEPT !.ann = name, !.spec = s]
    <2>1. o \in Object /\ o.present = api[cur[w]].present /\ o.create = api[cur[w]].create
      BY <1>3 DEF Object
    <2>2. ClientUpdate(w, o, "observe")
      BY <1>4 DEF Initialize
    <2>3. "observe" \in Stages /\ "observe" \notin CreateStages
      BY DEF Stages, CreateStages
    <2> HIDE DEF o
    <2>4. QED
      BY <1>1, <2>1, <2>2, <2>3, ClientUpdateInv
  <1>5. CASE AddFinalizer(w, s)
    <2> DEFINE o == [api[cur[w]] EXCEPT !.finalizer = TRUE, !.spec = s]
               stage == AfterFinalizer(pc[w])
    <2>1. o \in Object /\ o.present = api[cur[w]].present /\ o.create = api[cur[w]].create
      BY <1>3 DEF Object
    <2>2. ClientUpdate(w, o, stage)
      BY <1>5 DEF AddFinalizer
    <2>3. stage \in {"absent", "update", "status"}
      BY <1>5 DEF AddFinalizer, AfterFinalizer, Observed
    <2>4. stage \in Stages /\ stage \notin CreateStages /\ stage # "idle"
      BY <2>3 DEF Stages, CreateStages, Observed, UpdateStages
    <2> HIDE DEF o, stage
    <2>5. QED
      BY <1>1, <2>1, <2>2, <2>4, ClientUpdateInv
  <1>6. CASE MarkPending(w, s)
    <2> DEFINE o == [api[cur[w]] EXCEPT !.create = "pending", !.spec = s]
    <2>1. /\ o \in Object /\ o.present = api[cur[w]].present
          /\ o.create = "pending" /\ o.finalizer = api[cur[w]].finalizer
      BY <1>3 DEF Object
    <2>2. ClientUpdate(w, o, "create") /\ mem[w].finalizer /\ pc[w] = "absent"
      BY <1>6 DEF MarkPending
    <2>3. api[cur[w]].finalizer
      BY <1>1, <2>2 DEF ReconcilerInv, FreshAgrees
    <2>4. "create" \in Stages /\ "create" \notin Observed
      BY DEF Stages, CreateStages, Observed
    <2> HIDE DEF o
    <2>5. QED
      BY <1>1, <2>1, <2>2, <2>3, <2>4, ClientUpdateInv
  <1>7. QED
    BY <1>4, <1>5, <1>6

(* The outcome of Create is recorded by the only worker that ran it.        *)
LEMMA RecordInv ==
  ASSUME ReconcilerInv, NEW w \in Workers, NEW s \in Specs, NEW stage \in {"publish", "status"},
         RecordCreation(w, s, stage) \/ RecordFailure(w, s)
  PROVE  ReconcilerInv'
  <1>1. pc[w] \in {"created", "createFailed"} /\ Creating(w) /\ pc[w] # "idle"
    BY DEF RecordCreation, RecordFailure, Creating, CreateStages
  <1>2. /\ cur[w] \in Resources
        /\ api[cur[w]].present
        /\ \A v \in Workers : Creating(v) /\ cur[v] = cur[w] => v = w
    BY <1>1 DEF ReconcilerInv, BusyHasResource, CreateAnnounced, OneCreateInFlight
  <1>3. api[cur[w]] \in Object /\ mem[w] \in Object
    BY <1>2 DEF ReconcilerInv, ReconcilerTypeOK
  <1>4. \A st \in {"publish", "status"} :
          st \in Stages /\ st # "idle" /\ st \notin CreateStages
             /\ st \notin Observed \cup {"observe", "finalize"}
    BY DEF Stages, CreateStages, Observed
  <1>5. CASE RecordCreation(w, s, stage)
    <2> DEFINE o == [api[cur[w]] EXCEPT !.create = "succeeded", !.ann = mem[w].ann, !.spec = s]
               at == IF w \in fresh /\ o.at = "" THEN mem[w].at ELSE o.at
               m == [o EXCEPT !.at = at, !.ready = "Creating"]
    <2>1. o \in Object
      BY <1>3 DEF Object
    <2>2. m \in Object /\ SameMeta(m, o) /\ m.present
      BY <1>2, <1>3 DEF Object, Readiness, SameMeta
    <2>3. /\ Store(cur[w], o)
          /\ fresh' = (fresh \ StaleNow(cur[w])) \cup {w}
          /\ mem' = [mem EXCEPT ![w] = m]
          /\ pc' = [pc EXCEPT ![w] = stage]
          /\ UNCHANGED <<cache, cur, faults, ops>>
      BY <1>5 DEF RecordCreation
    <2> HIDE DEF o, m
    <2>4. QED
      BY <1>1, <1>2, <1>4, <2>1, <2>2, <2>3, WorkerWrite
  <1>6. CASE RecordFailure(w, s)
    <2> DEFINE o == [api[cur[w]] EXCEPT !.create = "failed", !.spec = s]
               m == [o EXCEPT !.ready = "Creating"]
    <2>1. o \in Object
      BY <1>3 DEF Object
    <2>2. m \in Object /\ SameMeta(m, o) /\ m.present
      BY <1>2, <1>3 DEF Object, Readiness, SameMeta
    <2>3. /\ Store(cur[w], o)
          /\ fresh' = (fresh \ StaleNow(cur[w])) \cup {w}
          /\ mem' = [mem EXCEPT ![w] = m]
          /\ pc' = [pc EXCEPT ![w] = "status"]
          /\ UNCHANGED <<cache, cur, faults, ops>>
      BY <1>6 DEF RecordFailure
    <2> HIDE DEF o, m
    <2>4. QED
      BY <1>1, <1>2, <1>4, <2>1, <2>2, <2>3, WorkerWrite
  <1>7. QED
    BY <1>5, <1>6

(* The steps that end a reconcile.                                          *)
LEMMA EndInv ==
  ASSUME ReconcilerInv, NEW w \in Workers,
         \/ WriteStatus(w) \/ Finalize(w) \/ Conflict(w) \/ InitializeConflict(w) \/ Crash(w)
  PROVE  ReconcilerInv'
  <1>1. Return(w) /\ UNCHANGED cache
    BY DEF WriteStatus, Finalize, Conflict, InitializeConflict, Crash
  <1>2. pc[w] # "idle" => cur[w] \in Resources /\ api[cur[w]] \in Object
    BY DEF ReconcilerInv, BusyHasResource, ReconcilerTypeOK
  <1>3. faults \in 0..MaxFaults /\ ops \in 0..MaxOps
    BY DEF ReconcilerInv, ReconcilerTypeOK
  <1>4. CASE WriteStatus(w)
    <2> DEFINE r == cur[w]
               o == [api[r] EXCEPT !.ready = mem[w].ready, !.at = mem[w].at]
    <2>1. pc[w] = "status" /\ r \in Resources /\ mem[w] \in Object
      BY <1>2, <1>4 DEF WriteStatus, ReconcilerInv, ReconcilerTypeOK
    <2>2. /\ o \in Object /\ o.create = api[r].create
          /\ o.present = api[r].present /\ o.finalizer = api[r].finalizer
      BY <1>2, <2>1 DEF Object
    <2>3. CASE o = api[r]
      <3>1. fresh' \in SUBSET fresh /\ UNCHANGED <<api, synced, faults, ops>>
        BY <1>4, <2>3 DEF WriteStatus
      <3>2. QED
        BY <1>1, <1>3, <3>1, ReturnStep
    <2>4. CASE o # api[r]
      <3>1. Store(r, o) /\ fresh' = fresh \ StaleNow(r) /\ UNCHANGED <<faults, ops>>
        BY <1>4, <2>4 DEF WriteStatus
      <3> HIDE DEF o
      <3>2. QED
        BY <1>1, <1>3, <2>1, <2>2, <3>1, LastWrite
    <2>5. QED
      BY <2>3, <2>4
  <1>5. CASE Finalize(w)
    <2>1. pc[w] = "finalize" /\ w \in fresh /\ cur[w] \in Resources
      BY <1>2, <1>5 DEF Finalize
    <2>2. api[cur[w]].create # "pending"
      BY <2>1 DEF ReconcilerInv, NothingAnnounced, FreshAgrees
    <2>3. \A v \in Workers : Creating(v) => cur[v] # cur[w]
      BY <2>2 DEF ReconcilerInv, CreateAnnounced
    <2>4. /\ Store(cur[w], Gone) /\ fresh' = fresh \ StaleNow(cur[w])
          /\ UNCHANGED <<faults, ops>>
      BY <1>5 DEF Finalize
    <2>5. QED
      BY <1>1, <1>3, <2>1, <2>3, <2>4, GoneIsObject, LastWrite
  <1>6. CASE Conflict(w) \/ InitializeConflict(w)
    <2>1. UNCHANGED <<api, synced, fresh, faults, ops>>
      BY <1>6 DEF Conflict, InitializeConflict
    <2>2. QED
      BY <1>1, <1>3, <2>1, ReturnStep
  <1>7. CASE Crash(w)
    <2>1. fresh' \in SUBSET fresh /\ UNCHANGED <<api, synced, ops>>
      BY <1>7 DEF Crash
    <2>2. faults' \in 0..MaxFaults
      BY <1>7, FaultBound DEF Crash, ReconcilerInv
    <2>3. QED
      BY <1>1, <1>3, <2>1, <2>2, ReturnStep
  <1>8. QED
    BY <1>4, <1>5, <1>6, <1>7

(* The webhook refuses a write.                                             *)
LEMMA RefusedInv ==
  ASSUME ReconcilerInv, NEW w \in Workers, WriteRefused(w)
  PROVE  ReconcilerInv'
  <1> DEFINE m == [mem[w] EXCEPT !.ready = IF Creating(w) THEN "Creating" ELSE @]
  <1>1. mem[w] \in Object /\ mem \in [Workers -> Object]
    BY DEF ReconcilerInv, ReconcilerTypeOK
  <1>2. m \in Object /\ SameMeta(m, mem[w])
    BY <1>1 DEF Object, Readiness, SameMeta
  <1>3. mem' = [mem EXCEPT ![w] = m]
    BY <1>1 DEF WriteRefused, Object
  <1>4. /\ pc' = [pc EXCEPT ![w] = "status"]
        /\ UNCHANGED <<api, cache, synced, fresh, cur>>
        /\ faults' \in 0..MaxFaults /\ ops' \in 0..MaxOps
    BY DEF WriteRefused, ReconcilerInv, ReconcilerTypeOK
  <1>5. /\ pc[w] # "idle"
        /\ "status" \in Stages /\ "status" \notin Observed \cup {"observe", "finalize"}
        /\ "status" \notin CreateStages
    BY DEF WriteRefused, Stages, CreateStages, Observed
  <1> HIDE DEF m
  <1>6. QED
    BY <1>2, <1>3, <1>4, <1>5, LocalStep

(* A remote call inside Create, Update or Delete.                           *)
LEMMA ExternalCallInv ==
  ASSUME ReconcilerInv, NEW w \in Workers, NEW stage \in Stages, NEW ann \in Anns, NEW at \in Ats,
         NEW ready \in {mem[w].ready, "Available", "Deleting"}, MayFault, ExternalCall(w, stage, ann, at, ready)
  PROVE  ReconcilerInv'
  <1> DEFINE m == [mem[w] EXCEPT !.ann = ann, !.at = at, !.ready = ready]
  <1>1. mem[w] \in Object /\ mem \in [Workers -> Object]
    BY DEF ReconcilerInv, ReconcilerTypeOK
  <1>2. m \in Object /\ SameMeta(m, mem[w])
    BY <1>1 DEF Object, Readiness, SameMeta
  <1>3. mem' = [mem EXCEPT ![w] = m]
    BY <1>1 DEF ExternalCall, Object
  <1>4. /\ pc' = [pc EXCEPT ![w] = stage]
        /\ UNCHANGED <<api, cache, synced, fresh, cur>>
        /\ ops' \in 0..MaxOps
    BY DEF ExternalCall, ReconcilerInv, ReconcilerTypeOK
  <1>5. /\ pc[w] # "idle" /\ stage # "idle"
        /\ stage \notin Observed \cup {"observe", "finalize"}
        /\ stage \in CreateStages => pc[w] \in CreateStages
    BY DEF ExternalCall, CreateStages, UpdateStages, DeleteStages, Observed
  <1>6. faults' \in 0..MaxFaults
    BY FaultBound DEF ReconcilerInv
  <1> HIDE DEF m
  <1>7. QED
    BY <1>2, <1>3, <1>4, <1>5, <1>6, LocalStep

(* What users do.                                                           *)
LEMMA UserInv ==
  ASSUME ReconcilerInv, NEW r \in Resources, NEW s \in Specs,
         UserApply(r, s) \/ UserEdit(r, s) \/ UserDelete(r)
  PROVE  ReconcilerInv'
  <1>1. api[r] \in Object
    BY DEF ReconcilerInv, ReconcilerTypeOK
  <1>2. PICK o : UserWrite(r, o) /\ \/ o = [Gone EXCEPT !.present = TRUE, !.spec = s] /\ ~api[r].present
                                    \/ o = [api[r] EXCEPT !.spec = s]
                                    \/ o = [api[r] EXCEPT !.deleting = TRUE]
                                    \/ o = Gone /\ ~api[r].finalizer
    BY DEF UserApply, UserEdit, UserDelete
  <1>3. o \in Object
    BY <1>1, <1>2, GoneIsObject DEF Object
  <1>4. \/ \A v \in Workers : Creating(v) => cur[v] # r
        \/ /\ o.create = api[r].create
           /\ api[r].present /\ api[r].finalizer => o.present /\ o.finalizer
    <2>1. CASE api[r].present /\ api[r].finalizer
      BY <1>1, <1>2, <2>1 DEF Object
    <2>2. CASE ~(api[r].present /\ api[r].finalizer)
      BY <2>2 DEF ReconcilerInv, CreateAnnounced
    <2>3. QED
      BY <2>1, <2>2
  <1>5. /\ Store(r, o) /\ fresh' = fresh \ StaleNow(r)
        /\ UNCHANGED <<cache, pc, cur, mem>>
        /\ faults' \in 0..MaxFaults
    BY <1>2 DEF UserWrite, ReconcilerInv, ReconcilerTypeOK
  <1>6. ops' \in 0..MaxOps
    BY <1>2, OpBound DEF UserWrite, ReconcilerInv
  <1>7. QED
    BY <1>3, <1>4, <1>5, <1>6, LastWrite

(* Steps that change nothing but the count of operations, and stuttering.   *)
LEMMA IdleInv ==
  ASSUME ReconcilerInv, UNCHANGED <<api, cache, synced, fresh, pc, cur, mem>>,
         faults' \in 0..MaxFaults, ops' \in 0..MaxOps
  PROVE  ReconcilerInv'
  BY DEF ReconcilerInv, ReconcilerTypeOK, SyncedAgrees, BusyHasResource, FreshAgrees,
     NothingAnnounced, CreateAnnounced, OneCreateInFlight, Creating

(* Every step keeps the inductive invariant.                                *)
LEMMA StepInv == ReconcilerInv /\ [ReconcilerNext]_reconcilerVars => ReconcilerInv'
  <1> SUFFICES ASSUME ReconcilerInv, [ReconcilerNext]_reconcilerVars PROVE ReconcilerInv'
    OBVIOUS
  <1>1. faults \in 0..MaxFaults /\ ops \in 0..MaxOps
    BY DEF ReconcilerInv, ReconcilerTypeOK
  <1>2. ASSUME NEW w \in Workers, CacheSync(w) PROVE ReconcilerInv'
    BY <1>2, CacheSyncInv
  <1>3. ASSUME NEW w \in Workers, NEW r \in Resources, Load(w, r) PROVE ReconcilerInv'
    BY <1>3, LoadInv
  <1>4. ASSUME NEW w \in Workers, NEW at \in Ats, NEW ready \in Readiness, MayFault,
               LET m == [mem[w] EXCEPT !.at = at, !.ready = ready]
               IN  \/ AfterObserveError(w, m)
                   \/ \E outcome \in Observed : AfterObserve(w, m, outcome)
        PROVE  ReconcilerInv'
    BY <1>4, ObserveInv
  <1>5. ASSUME NEW w \in Workers, NEW s \in Specs, NEW name \in Anns,
               Initialize(w, name, s) \/ AddFinalizer(w, s) \/ MarkPending(w, s)
        PROVE  ReconcilerInv'
    BY <1>5, RuntimeUpdateInv
  <1>6. ASSUME NEW w \in Workers, NEW s \in Specs, NEW stage \in {"publish", "status"},
               RecordCreation(w, s, stage) \/ RecordFailure(w, s)
        PROVE  ReconcilerInv'
    BY <1>6, RecordInv
  <1>7. ASSUME NEW w \in Workers, NEW stage \in Stages, NEW ann \in Anns, NEW at \in Ats,
               NEW ready \in {mem[w].ready, "Available", "Deleting"}, MayFault, ExternalCall(w, stage, ann, at, ready)
        PROVE  ReconcilerInv'
    BY <1>7, ExternalCallInv
  <1>8. ASSUME NEW w \in Workers, \/ WriteStatus(w) \/ Finalize(w) \/ Conflict(w)
                                  \/ InitializeConflict(w) \/ Crash(w)
        PROVE  ReconcilerInv'
    BY <1>8, EndInv
  <1>8a. ASSUME NEW w \in Workers, WriteRefused(w) PROVE ReconcilerInv'
    BY <1>8a, RefusedInv
  <1>9. ASSUME NEW r \in Resources, NEW s \in Specs,
               UserApply(r, s) \/ UserEdit(r, s) \/ UserDelete(r)
        PROVE  ReconcilerInv'
    BY <1>9, UserInv
  <1>10. CASE Operation /\ UNCHANGED <<api, cache, synced, fresh, pc, cur, mem, faults>>
    BY <1>1, <1>10, OpBound, IdleInv DEF ReconcilerInv
  <1>11. CASE UNCHANGED reconcilerVars
    BY <1>1, <1>11, IdleInv DEF reconcilerVars
  <1>12. "" \in Anns /\ Specs # {} /\ "status" \in {"publish", "status"}
    BY ReconcilerAssumption
  <1>13. QED
    BY <1>2, <1>3, <1>4, <1>5, <1>6, <1>7, <1>8, <1>8a, <1>9, <1>10, <1>11, <1>12 DEF ReconcilerNext

(* The inductive invariant holds of every behaviour of the reconciler.      *)
THEOREM ReconcilerInvariant == ReconcilerSpec => []ReconcilerInv
  <1>1. QED
    BY InitInv, StepInv, PTL DEF ReconcilerSpec

(* Type correctness, for every number of replicas, resources and faults.    *)
THEOREM ReconcilerTypes == ReconcilerSpec => []ReconcilerTypeOK
  <1>1. ReconcilerInv => ReconcilerTypeOK
    BY DEF ReconcilerInv
  <1>2. QED
    BY <1>1, ReconcilerInvariant, PTL

(* However many replicas run, and however their caches lag and they crash,  *)
(* Create runs for a resource in one of them at a time.                     *)
THEOREM OneCreate == ReconcilerSpec => []OneCreateInFlight
  <1>1. ReconcilerInv => OneCreateInFlight
    BY DEF ReconcilerInv
  <1>2. QED
    BY <1>1, ReconcilerInvariant, PTL

-----------------------------------------------------------------------------
(* What a step leaves alone of a worker that does not take it.  The proofs  *)
(* about a kind's own state need the actor's step and this.                 *)

(* A step of worker w, whatever the controller puts into it.                *)
StepOf(w) ==
    \/ CacheSync(w)
    \/ \E r \in Resources : Load(w, r)
    \/ \E m : AfterObserveError(w, m) \/ \E outcome : AfterObserve(w, m, outcome)
    \/ \E s : \/ \E name : Initialize(w, name, s)
              \/ AddFinalizer(w, s) \/ MarkPending(w, s)
              \/ \E stage \in {"publish", "status"} : RecordCreation(w, s, stage)
              \/ RecordFailure(w, s)
    \/ \E stage, ann, at, ready : ExternalCall(w, stage, ann, at, ready)
    \/ WriteStatus(w) \/ Finalize(w) \/ Conflict(w) \/ InitializeConflict(w)
    \/ WriteRefused(w) \/ Crash(w)

StepOfUser(r) == UserDelete(r) \/ \E s \in Specs : UserApply(r, s) \/ UserEdit(r, s)

(* Worker v goes on where it was.  Its resource is as it was if its copy is *)
(* still the latest, and has the same annotation while v creates.           *)
Bystander(v) ==
    /\ pc'[v] = pc[v] /\ cur'[v] = cur[v] /\ mem'[v] = mem[v]
    /\ v \in fresh' => v \in fresh
    /\ pc[v] # "idle" /\ v \in fresh' => api'[cur[v]] = api[cur[v]]
    /\ Creating(v) => api'[cur[v]].ann = api[cur[v]].ann

(* Nobody is creating the resource of a worker that may write to it first.  *)
LEMMA OnlyCreator ==
  ASSUME ReconcilerInv, NEW v \in Workers, NEW w \in Workers, v # w, Creating(v), pc[w] # "idle",
         \/ Creating(w)
         \/ w \in fresh /\ pc[w] \in Observed \cup {"observe", "finalize"}
  PROVE  cur[v] # cur[w]
  <1>1. CASE Creating(w)
    BY <1>1 DEF ReconcilerInv, OneCreateInFlight
  <1>2. CASE w \in fresh /\ pc[w] \in Observed \cup {"observe", "finalize"}
    BY <1>2 DEF ReconcilerInv, FreshAgrees, NothingAnnounced, CreateAnnounced
  <1>3. QED
    BY <1>1, <1>2

(* A write by another worker.                                               *)
LEMMA BystanderOfWrite ==
  ASSUME ReconcilerInv, NEW v \in Workers, NEW w \in Workers, v # w, pc[w] # "idle",
         NEW o, Store(cur[w], o),
         pc'[v] = pc[v], cur'[v] = cur[v], mem'[v] = mem[v],
         fresh' \subseteq (fresh \ StaleNow(cur[w])) \cup {w},
         \/ o.ann = api[cur[w]].ann
         \/ Creating(w)
         \/ w \in fresh /\ pc[w] \in Observed \cup {"observe", "finalize"}
  PROVE  Bystander(v)
  <1>1. api \in [Resources -> Object] /\ cur[w] \in Resources
    BY DEF ReconcilerInv, ReconcilerTypeOK, BusyHasResource
  <1>2. pc[v] # "idle" => cur[v] \in Resources
    BY DEF ReconcilerInv, BusyHasResource
  <1>3. v \in fresh' => v \in fresh /\ cur[v] # cur[w]
    BY DEF StaleNow
  <1>4. pc[v] # "idle" /\ cur[v] # cur[w] => api'[cur[v]] = api[cur[v]]
    BY <1>1, <1>2 DEF Store
  <1>5. Creating(v) => pc[v] # "idle"
    BY DEF Creating, CreateStages
  <1>6. Creating(v) /\ cur[v] = cur[w] => o.ann = api[cur[w]].ann
    BY OnlyCreator
  <1>7. cur[v] = cur[w] => api'[cur[v]] = o
    BY <1>1 DEF Store
  <1>8. QED
    BY <1>3, <1>4, <1>5, <1>6, <1>7 DEF Bystander

LEMMA StepOfOther ==
  ASSUME ReconcilerInv, NEW v \in Workers, NEW w \in Workers, v # w, StepOf(w)
  PROVE  Bystander(v)
  <1>1. /\ pc \in [Workers -> Stages] /\ cur \in [Workers -> Resources \cup {NoResource}]
        /\ mem \in [Workers -> Object] /\ api \in [Resources -> Object]
    BY DEF ReconcilerInv, ReconcilerTypeOK
  <1>2. CASE UNCHANGED api
    <2>1. pc'[v] = pc[v] /\ cur'[v] = cur[v] /\ mem'[v] = mem[v]
      BY <1>1 DEF StepOf, CacheSync, Load, AfterObserve, AfterObserveError, Initialize, AddFinalizer,
                  MarkPending, ClientUpdate, RecordCreation, RecordFailure, ExternalCall, WriteStatus,
                  Finalize, Conflict, InitializeConflict, WriteRefused, Crash, Return
    <2>2. v \in fresh' => v \in fresh
      BY DEF StepOf, CacheSync, Load, AfterObserve, AfterObserveError, Initialize, AddFinalizer,
             MarkPending, ClientUpdate, RecordCreation, RecordFailure, ExternalCall, WriteStatus,
             Finalize, Conflict, InitializeConflict, WriteRefused, Crash
    <2>3. QED
      BY <1>2, <2>1, <2>2 DEF Bystander
  <1>3. ASSUME NEW s, \/ \E name : Initialize(w, name, s)
                      \/ AddFinalizer(w, s) \/ MarkPending(w, s)
        PROVE  Bystander(v)
    <2>1. /\ \E o, stage : ClientUpdate(w, o, stage)
          /\ pc[w] \in Observed \cup {"observe", "finalize"} /\ pc[w] # "idle"
      BY <1>3 DEF Initialize, AddFinalizer, MarkPending, Observed
    <2>2. QED
      BY <1>1, <2>1, BystanderOfWrite DEF ClientUpdate
  <1>4. ASSUME NEW s, (\E stage : RecordCreation(w, s, stage)) \/ RecordFailure(w, s)
        PROVE  Bystander(v)
    <2>1. Creating(w) /\ pc[w] # "idle"
      BY <1>4 DEF RecordCreation, RecordFailure, Creating, CreateStages
    <2>2. /\ \E o : Store(cur[w], o)
          /\ fresh' = (fresh \ StaleNow(cur[w])) \cup {w}
          /\ pc'[v] = pc[v] /\ cur'[v] = cur[v] /\ mem'[v] = mem[v]
      BY <1>1, <1>4 DEF RecordCreation, RecordFailure
    <2>3. QED
      BY <2>1, <2>2, BystanderOfWrite
  <1>5. CASE WriteStatus(w) /\ api' # api
    <2> DEFINE o == [api[cur[w]] EXCEPT !.ready = mem[w].ready, !.at = mem[w].at]
    <2>1. pc[w] # "idle" /\ cur[w] \in Resources
      BY <1>5 DEF WriteStatus, ReconcilerInv, BusyHasResource
    <2>2. o.ann = api[cur[w]].ann
      <3>1. api[cur[w]] \in Object
        BY <1>1, <2>1
      <3>2. QED
        BY <3>1 DEF Object
    <2>3. /\ Store(cur[w], o) /\ fresh' = fresh \ StaleNow(cur[w])
          /\ pc'[v] = pc[v] /\ cur'[v] = cur[v] /\ mem'[v] = mem[v]
      BY <1>1, <1>5 DEF WriteStatus, Return
    <2> HIDE DEF o
    <2>4. QED
      BY <2>1, <2>2, <2>3, BystanderOfWrite
  <1>6. CASE Finalize(w)
    <2>1. /\ Store(cur[w], Gone) /\ fresh' = fresh \ StaleNow(cur[w])
          /\ pc'[v] = pc[v] /\ cur'[v] = cur[v] /\ mem'[v] = mem[v]
          /\ w \in fresh /\ pc[w] = "finalize"
      BY <1>1, <1>6 DEF Finalize, Return
    <2>2. QED
      BY <2>1, BystanderOfWrite
  <1>7. QED
    BY <1>2, <1>3, <1>4, <1>5, <1>6
       DEF StepOf, CacheSync, Load, AfterObserve, AfterObserveError, ExternalCall, Conflict,
           InitializeConflict, WriteRefused, Crash

(* Users keep the annotation of what they edit or delete, and the webhooks' *)
(* guards add nothing to that.                                              *)
LEMMA StepOfUserAside ==
  ASSUME ReconcilerInv, NEW v \in Workers, NEW r \in Resources, StepOfUser(r)
  PROVE  Bystander(v)
  <1>1. api \in [Resources -> Object] /\ (pc[v] # "idle" => cur[v] \in Resources)
    BY DEF ReconcilerInv, ReconcilerTypeOK, BusyHasResource
  <1>2. /\ pc' = pc /\ cur' = cur /\ mem' = mem /\ fresh' = fresh \ StaleNow(r)
        /\ \A q \in Resources : q # r => api'[q] = api[q]
    BY <1>1 DEF StepOfUser, UserApply, UserEdit, UserDelete, UserWrite, Store
  <1>3. Creating(v) => /\ pc[v] # "idle"
                       /\ api[cur[v]].present /\ api[cur[v]].finalizer
    BY DEF ReconcilerInv, CreateAnnounced, Creating, CreateStages
  <1>4. api[r].present /\ api[r].finalizer => api'[r].ann = api[r].ann
    <2>1. api[r] \in Object
      BY <1>1
    <2>2. ASSUME NEW s, UserEdit(r, s) PROVE api'[r].ann = api[r].ann
      <3>1. api'[r] = [api[r] EXCEPT !.spec = s]
        BY <1>1, <2>2 DEF UserEdit, UserWrite, Store
      <3>2. QED
        BY <2>1, <3>1 DEF Object
    <2>3. ASSUME UserDelete(r), api[r].finalizer PROVE api'[r].ann = api[r].ann
      <3>1. api'[r] = [api[r] EXCEPT !.deleting = TRUE]
        BY <1>1, <2>3 DEF UserDelete, UserWrite, Store
      <3>2. QED
        BY <2>1, <3>1 DEF Object
    <2>4. QED
      BY <2>2, <2>3 DEF StepOfUser, UserApply
  <1>5. QED
    BY <1>1, <1>2, <1>3, <1>4 DEF Bystander, StaleNow

-----------------------------------------------------------------------------
(* What a step makes of one resource.                                       *)

SomeStep ==
    \/ \E w \in Workers : StepOf(w)
    \/ \E r \in Resources : StepOfUser(r)
    \/ UNCHANGED api

(* The resource stays, with its annotation and its finalizer.               *)
Stays(r) ==
    /\ api'[r].present = api[r].present
    /\ api'[r].ann = api[r].ann
    /\ api[r].finalizer => api'[r].finalizer
    /\ api'[r].finalizer => api[r].present
    /\ api[r].deleting => api'[r].deleting

(* It is given an annotation that it lacked, by the initializer.            *)
Named(r) ==
    \E w \in Workers : /\ cur[w] = r /\ w \in fresh /\ pc[w] = "observe" /\ mem[w].ann = ""
                       /\ pc'[w] = "observe" /\ w \in fresh'
                       /\ api'[r].present = api[r].present
                       /\ api'[r].finalizer = api[r].finalizer
                       /\ api'[r].deleting = api[r].deleting

(* It is given the one that its Create set.                                 *)
Recorded(r) ==
    \E w \in Workers : /\ cur[w] = r /\ pc[w] = "created" /\ pc'[w] \in {"publish", "status"}
                       /\ api'[r].present /\ api'[r].finalizer
                       /\ api'[r].ann = mem[w].ann /\ api'[r].deleting = api[r].deleting

(* It disappears, for good or because it was not held.                      *)
Finalized(r) ==
    \E w \in Workers : cur[w] = r /\ w \in fresh /\ pc[w] = "finalize" /\ api'[r] = Gone

Dropped(r) == ~api[r].finalizer /\ api'[r] = Gone

(* It is new.                                                               *)
Applied(r) ==
    ~api[r].present /\ api'[r].present /\ ~api'[r].finalizer /\ api'[r].ann = ""

LEMMA WriteStays ==
  ASSUME ReconcilerInv, NEW w \in Workers, cur[w] \in Resources, mem[w].present, w \in fresh, pc[w] # "idle",
         NEW s,
         \/ \E stage : \/ ClientUpdate(w, [api[cur[w]] EXCEPT !.finalizer = TRUE, !.spec = s], stage)
                       \/ ClientUpdate(w, [api[cur[w]] EXCEPT !.create = "pending", !.spec = s], stage)
         \/ WriteStatus(w)
  PROVE  Stays(cur[w])
  <1>1. api \in [Resources -> Object] /\ api[cur[w]] \in Object
    BY DEF ReconcilerInv, ReconcilerTypeOK
  <1>2. api[cur[w]].present
    BY DEF ReconcilerInv, FreshAgrees
  <1>3. \/ api'[cur[w]] = [api[cur[w]] EXCEPT !.finalizer = TRUE, !.spec = s]
        \/ api'[cur[w]] = [api[cur[w]] EXCEPT !.create = "pending", !.spec = s]
        \/ api'[cur[w]] = [api[cur[w]] EXCEPT !.ready = mem[w].ready, !.at = mem[w].at]
        \/ api' = api
    BY <1>1 DEF ClientUpdate, WriteStatus, Store
  <1>4. QED
    BY <1>1, <1>2, <1>3 DEF Stays, Object

LEMMA ResourceChanges ==
  ASSUME ReconcilerInv, SomeStep, NEW r \in Resources
  PROVE  \/ api'[r] = api[r] \/ Stays(r) \/ Named(r) \/ Recorded(r)
         \/ Finalized(r) \/ Dropped(r) \/ Applied(r)
  <1>1. api \in [Resources -> Object] /\ pc \in [Workers -> Stages]
    BY DEF ReconcilerInv, ReconcilerTypeOK
  <1>2. \A w \in Workers : pc[w] # "idle" => cur[w] \in Resources /\ mem[w].present
    BY DEF ReconcilerInv, BusyHasResource
  <1>3. \A q, o : Store(q, o) => api'[r] = IF r = q THEN o ELSE api[r]
    BY <1>1 DEF Store
  <1>4. ASSUME NEW w \in Workers, NEW s, NEW name, Initialize(w, name, s)
        PROVE  api'[r] = api[r] \/ Named(r)
    <2> DEFINE o == [api[cur[w]] EXCEPT !.ann = name, !.spec = s]
    <2>1. /\ pc[w] = "observe" /\ mem[w].ann = "" /\ w \in fresh /\ Store(cur[w], o) /\ cur[w] \in Resources
          /\ pc'[w] = "observe" /\ w \in fresh'
      BY <1>1, <1>2, <1>4 DEF Initialize, ClientUpdate
    <2>2. api[cur[w]] \in Object
      BY <1>1, <2>1
    <2>3. /\ o.present = api[cur[w]].present /\ o.finalizer = api[cur[w]].finalizer
          /\ o.deleting = api[cur[w]].deleting
      BY <2>2 DEF Object
    <2> HIDE DEF o
    <2>4. CASE r = cur[w]
      BY <1>3, <2>1, <2>3, <2>4 DEF Named
    <2>5. QED
      BY <1>3, <2>1, <2>4
  <1>5. ASSUME NEW w \in Workers, NEW s, AddFinalizer(w, s) \/ MarkPending(w, s)
        PROVE  api'[r] = api[r] \/ Stays(r)
    <2>1. pc[w] # "idle"
      BY <1>5 DEF AddFinalizer, MarkPending, Observed
    <2>2. \E stage : \/ ClientUpdate(w, [api[cur[w]] EXCEPT !.finalizer = TRUE, !.spec = s], stage)
                     \/ ClientUpdate(w, [api[cur[w]] EXCEPT !.create = "pending", !.spec = s], stage)
      BY <1>5 DEF AddFinalizer, MarkPending
    <2>3. w \in fresh /\ \E o : Store(cur[w], o)
      BY <2>2 DEF ClientUpdate
    <2>4. Stays(cur[w])
      BY <1>2, <2>1, <2>2, <2>3, WriteStays
    <2>5. QED
      BY <1>3, <2>3, <2>4
  <1>6. ASSUME NEW w \in Workers, WriteStatus(w) PROVE api'[r] = api[r] \/ Stays(r)
    <2>1. pc[w] # "idle" /\ w \in fresh /\ (UNCHANGED api \/ \E o : Store(cur[w], o))
      BY <1>6 DEF WriteStatus
    <2>2. Stays(cur[w])
      BY <1>2, <1>6, <2>1, WriteStays
    <2>3. QED
      BY <1>3, <2>1, <2>2
  <1>7. ASSUME NEW w \in Workers, NEW s, NEW stage \in {"publish", "status"}, RecordCreation(w, s, stage)
        PROVE  api'[r] = api[r] \/ Recorded(r)
    <2> DEFINE o == [api[cur[w]] EXCEPT !.create = "succeeded", !.ann = mem[w].ann, !.spec = s]
    <2>1. pc[w] = "created" /\ Creating(w) /\ cur[w] \in Resources
      BY <1>2, <1>7 DEF RecordCreation, Creating, CreateStages
    <2>2. api[cur[w]] \in Object /\ api[cur[w]].present /\ api[cur[w]].finalizer
      BY <1>1, <2>1 DEF ReconcilerInv, CreateAnnounced
    <2>3. o.present /\ o.finalizer /\ o.ann = mem[w].ann /\ o.deleting = api[cur[w]].deleting
      BY <2>2 DEF Object
    <2>4. Store(cur[w], o) /\ pc' = [pc EXCEPT ![w] = stage]
      BY <1>7 DEF RecordCreation
    <2> HIDE DEF o
    <2>5. QED
      BY <1>1, <1>3, <2>1, <2>3, <2>4 DEF Recorded
  <1>8. ASSUME NEW w \in Workers, NEW s, RecordFailure(w, s) PROVE api'[r] = api[r] \/ Stays(r)
    <2> DEFINE o == [api[cur[w]] EXCEPT !.create = "failed", !.spec = s]
    <2>1. Creating(w) /\ cur[w] \in Resources
      BY <1>2, <1>8 DEF RecordFailure, Creating, CreateStages
    <2>2. api[cur[w]] \in Object /\ api[cur[w]].present /\ api[cur[w]].finalizer
      BY <1>1, <2>1 DEF ReconcilerInv, CreateAnnounced
    <2>3. o.present = api[cur[w]].present /\ o.finalizer /\ o.ann = api[cur[w]].ann
          /\ o.deleting = api[cur[w]].deleting
      BY <2>2 DEF Object
    <2>4. Store(cur[w], o)
      BY <1>8 DEF RecordFailure
    <2> HIDE DEF o
    <2>5. CASE r = cur[w]
      BY <1>3, <2>2, <2>3, <2>4, <2>5 DEF Stays
    <2>6. QED
      BY <1>3, <2>4, <2>5
  <1>9. ASSUME NEW w \in Workers, Finalize(w) PROVE api'[r] = api[r] \/ Finalized(r)
    BY <1>3, <1>9 DEF Finalize, Finalized
  <1>10. ASSUME NEW q \in Resources, StepOfUser(q)
         PROVE  api'[r] = api[r] \/ Stays(r) \/ Dropped(r) \/ Applied(r)
    <2>1. api[q] \in Object
      BY <1>1
    <2>2. ASSUME NEW s, UserEdit(q, s) PROVE Stays(q)
      <3>1. api'[q] = [api[q] EXCEPT !.spec = s] /\ api[q].present
        BY <1>1, <2>2 DEF UserEdit, UserWrite, Store
      <3>2. QED
        BY <2>1, <3>1 DEF Stays, Object
    <2>3. ASSUME UserDelete(q) PROVE Stays(q) \/ Dropped(q)
      <3>1. \/ api[q].finalizer /\ api'[q] = [api[q] EXCEPT !.deleting = TRUE]
            \/ ~api[q].finalizer /\ api'[q] = Gone
        BY <1>1, <2>3 DEF UserDelete, UserWrite, Store
      <3>2. api[q].present
        BY <2>3 DEF UserDelete
      <3>3. QED
        BY <2>1, <3>1, <3>2 DEF Stays, Dropped, Object
    <2>4. ASSUME NEW s \in Specs, UserApply(q, s) PROVE Applied(q)
      <3>1. api'[q] = [Gone EXCEPT !.present = TRUE, !.spec = s] /\ ~api[q].present
        BY <1>1, <2>4 DEF UserApply, UserWrite, Store
      <3>2. QED
        BY <3>1 DEF Applied, Gone
    <2>5. \E o : Store(q, o)
      BY <1>10 DEF StepOfUser, UserEdit, UserDelete, UserApply, UserWrite
    <2>6. QED
      BY <1>3, <1>10, <2>2, <2>3, <2>4, <2>5 DEF StepOfUser
  <1>11. ASSUME NEW w \in Workers, StepOf(w), api' # api
         PROVE  \/ \E s : \/ \E name : Initialize(w, name, s)
                          \/ AddFinalizer(w, s) \/ MarkPending(w, s)
                          \/ \E stage \in {"publish", "status"} : RecordCreation(w, s, stage)
                          \/ RecordFailure(w, s)
                \/ WriteStatus(w) \/ Finalize(w)
    BY <1>11 DEF StepOf, CacheSync, Load, AfterObserve, AfterObserveError, ExternalCall, Conflict,
                 InitializeConflict, WriteRefused, Crash
  <1>12. QED
    BY <1>4, <1>5, <1>6, <1>7, <1>8, <1>9, <1>10, <1>11 DEF SomeStep

(* Only a resource that is there has a finalizer.                           *)
HeldIsThere == \A r \in Resources : api[r].finalizer => api[r].present

LEMMA GoneFacts ==
  ~Gone.present /\ ~Gone.finalizer /\ ~Gone.deleting /\ Gone.ann = "" /\ Gone.create = ""
  BY DEF Gone

LEMMA HeldInit == ReconcilerInit => HeldIsThere
  <1>1. ReconcilerInit => \A r \in Resources : api[r] = Gone
    BY DEF ReconcilerInit
  <1>2. QED
    BY <1>1, GoneFacts DEF HeldIsThere

LEMMA HeldStep ==
  ASSUME ReconcilerInv, HeldIsThere, SomeStep
  PROVE  HeldIsThere'
  <1> SUFFICES ASSUME NEW r \in Resources, api'[r].finalizer PROVE api'[r].present
    BY DEF HeldIsThere
  <1>1. CASE api'[r] = api[r] \/ Stays(r) \/ Recorded(r)
    BY <1>1 DEF HeldIsThere, Stays, Recorded
  <1>2. CASE Named(r)
    BY <1>2 DEF Named, HeldIsThere
  <1>3. CASE Finalized(r) \/ Dropped(r)
    BY <1>3, GoneFacts DEF Finalized, Dropped
  <1>4. CASE Applied(r)
    BY <1>4 DEF Applied
  <1>5. QED
    BY <1>1, <1>2, <1>3, <1>4, ResourceChanges

(* A fault of the controller is a fault of the reconciler.                  *)
LEMMA FaultIsMayFault ==
  ASSUME NEW k, Fault(k) \/ UNCHANGED faults
  PROVE  MayFault
  BY DEF Fault, MayFault

(* Observe, with the status that it puts in the copy in memory.             *)
LEMMA ObservedStep ==
  ASSUME NEW w \in Workers, NEW m, NEW at \in Ats, NEW ready \in Readiness,
         m = [mem[w] EXCEPT !.at = at, !.ready = ready], MayFault,
         AfterObserveError(w, m) \/ \E outcome \in Observed : AfterObserve(w, m, outcome)
  PROVE  ReconcilerNext
  <1>1. LET n == [mem[w] EXCEPT !.at = at, !.ready = ready]
        IN  MayFault /\ \/ AfterObserveError(w, n)
                        \/ \E outcome \in Observed : AfterObserve(w, n, outcome)
    OBVIOUS
  <1>2. QED
    BY <1>1 DEF ReconcilerNext

(* Faults are counted one at a time.                                        *)
LEMMA FaultsCount ==
  ASSUME [ReconcilerNext]_reconcilerVars
  PROVE  MayFault
  <1>1. ASSUME NEW w \in Workers, NEW s,
               \/ \E name : Initialize(w, name, s)
               \/ AddFinalizer(w, s) \/ MarkPending(w, s)
               \/ \E stage : RecordCreation(w, s, stage)
               \/ RecordFailure(w, s)
        PROVE  faults' = faults
    BY <1>1 DEF Initialize, AddFinalizer, MarkPending, ClientUpdate, RecordCreation, RecordFailure
  <1>2. ASSUME NEW w \in Workers,
               \/ CacheSync(w) \/ \E r \in Resources : Load(w, r)
               \/ WriteStatus(w) \/ Finalize(w) \/ Conflict(w) \/ InitializeConflict(w) \/ WriteRefused(w)
        PROVE  faults' = faults
    BY <1>2 DEF CacheSync, Load, WriteStatus, Finalize, Conflict, InitializeConflict, WriteRefused
  <1>3. ASSUME NEW r, \/ UserDelete(r) \/ \E s \in Specs : UserApply(r, s) \/ UserEdit(r, s)
        PROVE  faults' = faults
    BY <1>3 DEF UserDelete, UserApply, UserEdit, UserWrite
  <1>4. ASSUME NEW w, Crash(w) PROVE MayFault
    BY <1>4 DEF Crash, Fault, MayFault
  <1>5. QED
    BY <1>1, <1>2, <1>3, <1>4 DEF ReconcilerNext, reconcilerVars, MayFault

-----------------------------------------------------------------------------
(* The copy of a worker that decides whether the resource may go, for the   *)
(* kinds whose external-name nobody reads: Load made it, and Observe left   *)
(* the annotation and the spec in it.                                       *)
KnowsCopy(w) ==
    w \in fresh /\ pc[w] \in {"observe", "finalize"} =>
        mem[w].ann = api[cur[w]].ann /\ mem[w].spec = api[cur[w]].spec

LEMMA KnowsCopyStep ==
  ASSUME ReconcilerInv, NEW w \in Workers, KnowsCopy(w), StepOf(w),
         pc[w] = "observe" /\ pc'[w] = "observe" => UNCHANGED <<api, mem>>,
         pc[w] = "observe" /\ pc'[w] = "finalize" =>
           mem'[w].ann = mem[w].ann /\ mem'[w].spec = mem[w].spec
  PROVE  KnowsCopy(w)'
  <1>1. /\ pc \in [Workers -> Stages] /\ cur \in [Workers -> Resources \cup {NoResource}]
        /\ mem \in [Workers -> Object]
    BY DEF ReconcilerInv, ReconcilerTypeOK
  <1>2. ASSUME NEW r \in Resources, Load(w, r) PROVE KnowsCopy(w)'
    <2> DEFINE o == cache[w][r]
    <2>1. o \in Object
      BY DEF ReconcilerInv, ReconcilerTypeOK
    <2>2. [o EXCEPT !.ready = "Creating"].ann = o.ann /\ [o EXCEPT !.ready = "Creating"].spec = o.spec
      BY <2>1 DEF Object
    <2>3. mem'[w].ann = o.ann /\ mem'[w].spec = o.spec /\ cur'[w] = r /\ api' = api
      BY <1>1, <1>2, <2>2 DEF Load
    <2>4. w \in fresh' => o = api[r]
      BY <1>2 DEF Load, ReconcilerInv, SyncedAgrees
    <2>5. QED
      BY <2>3, <2>4 DEF KnowsCopy
  <1>3. CASE CacheSync(w)
    BY <1>3 DEF CacheSync, KnowsCopy
  <1>4. ASSUME NEW s, NEW name, Initialize(w, name, s) PROVE KnowsCopy(w)'
    <2>1. pc[w] = "observe" /\ pc'[w] = "observe" /\ w \in fresh /\ cur' = cur
      BY <1>1, <1>4 DEF Initialize, ClientUpdate
    <2>2. QED
      BY <2>1 DEF KnowsCopy
  <1>5. ASSUME NEW m, NEW outcome, AfterObserve(w, m, outcome), pc'[w] = "finalize" PROVE KnowsCopy(w)'
    BY <1>5 DEF AfterObserve, KnowsCopy
  <1>6. ASSUME NEW m, NEW outcome, AfterObserve(w, m, outcome), pc'[w] = "observe" PROVE KnowsCopy(w)'
    BY <1>6 DEF AfterObserve, KnowsCopy
  <1>7. ASSUME \/ \E m : AfterObserveError(w, m)
               \/ \E s : \/ AddFinalizer(w, s) \/ MarkPending(w, s)
                         \/ \E stage \in {"publish", "status"} : RecordCreation(w, s, stage)
                         \/ RecordFailure(w, s)
               \/ \E stage, ann, at, ready : ExternalCall(w, stage, ann, at, ready)
               \/ WriteStatus(w) \/ Finalize(w) \/ Conflict(w) \/ InitializeConflict(w)
               \/ WriteRefused(w) \/ Crash(w)
        PROVE  pc'[w] \notin {"observe", "finalize"}
    BY <1>1, <1>7 DEF AfterObserveError, AddFinalizer, MarkPending, ClientUpdate, AfterFinalizer, Observed,
         RecordCreation, RecordFailure, ExternalCall, CreateStages, UpdateStages, DeleteStages,
         WriteStatus, Finalize, Conflict, InitializeConflict, WriteRefused, Crash, Return
  <1>8. QED
    BY <1>2, <1>3, <1>4, <1>5, <1>6, <1>7 DEF StepOf, KnowsCopy

LEMMA KnowsCopyAside ==
  ASSUME NEW w \in Workers, KnowsCopy(w), Bystander(w)
  PROVE  KnowsCopy(w)'
  BY DEF KnowsCopy, Bystander

(* Only an initializer gives an annotation to a resource that no Create is  *)
(* recorded for.                                                            *)
LEMMA NotNamed ==
  ASSUME ReconcilerInv, NEW r \in Resources, Named(r),
         \A w \in Workers : \/ Bystander(w)
                            \/ pc[w] = "observe" /\ pc'[w] = "observe" => UNCHANGED api
  PROVE  api'[r] = api[r]
  BY DEF Named, Bystander

=============================================================================
