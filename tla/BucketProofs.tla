---------------------------- MODULE BucketProofs ----------------------------
(***************************************************************************)
(* The Bucket controller implements the managed reconciler's contract with *)
(* the API server, so what ReconcilerProofs shows holds of it; the status  *)
(* of a Bucket always names the bucket of its spec; and with one replica   *)
(* nobody gets the lock of another's bucket, or leaves its own behind      *)
(* unless a user renamed it.                                               *)
(***************************************************************************)
EXTENDS BucketController, LifecycleProofs

(* What the assumptions say of a spec.                                      *)
LEMMA SpecFacts ==
  ASSUME NEW s \in Specs
  PROVE  /\ s.name \in Names
         /\ s.name \in Ats
         /\ s.name # ""
         /\ Encode(s) \in Specs
         /\ Encode(s).name = s.name
  <1>1. s \in BucketParameters
    BY BucketAssumption
  <1>2. Encode(s) \in Specs
    BY EncodeAssumption
  <1>3. Encode(s).name = s.name
    BY <1>1 DEF Encode, BucketParameters
  <1>4. QED
    BY <1>1, <1>2, <1>3, BucketAssumption DEF BucketParameters

(* Observe and its errors.                                                  *)
LEMMA ObserveSim ==
  ASSUME ReconcilerTypeOK, NEW w \in Workers, Observe(w) \/ ObserveFails(w)
  PROVE  ReconcilerNext
  <1> DEFINE m == mem[w]
             seen == [m EXCEPT !.at = m.spec.name, !.ready = "Available"]
  <1>1. m \in Object
    BY DEF ReconcilerTypeOK
  <1>2. m.spec \in Specs /\ m.at \in Ats /\ m.ready \in Readiness
    BY <1>1 DEF Object
  <1>3. m.spec.name \in Ats /\ "Available" \in Readiness
    BY <1>2, SpecFacts DEF Readiness
  <1>4. m = [mem[w] EXCEPT !.at = m.at, !.ready = m.ready]
    BY <1>1 DEF Object
  <1>5. MayFault
    BY FaultIsMayFault DEF Observe, ObserveFails
  <1>6. \E n \in {m, seen} : \/ AfterObserveError(w, n)
                             \/ \E outcome \in Observed : AfterObserve(w, n, outcome)
    BY DEF Observe, ObserveFails, Observed
  <1>7. \E at \in Ats, ready \in Readiness :
          LET n == [mem[w] EXCEPT !.at = at, !.ready = ready]
          IN  MayFault /\ \/ AfterObserveError(w, n)
                          \/ \E outcome \in Observed : AfterObserve(w, n, outcome)
    <2>1. CASE \/ AfterObserveError(w, m)
               \/ \E outcome \in Observed : AfterObserve(w, m, outcome)
      BY <2>1, <1>2, <1>4, <1>5
    <2>2. CASE \/ AfterObserveError(w, seen)
               \/ \E outcome \in Observed : AfterObserve(w, seen, outcome)
      BY <2>2, <1>3, <1>5
    <2>3. QED
      BY <1>6, <2>1, <2>2
  <1>8. QED
    BY <1>7 DEF ReconcilerNext

(* The calls of Create, Update and Delete.                                  *)
LEMMA CallSim ==
  ASSUME ReconcilerTypeOK, NEW w \in Workers,
         \/ MakeBucket(w) \/ CreatePolicy(w) \/ CreateTags(w)
         \/ UpdatePolicy(w) \/ UpdateTags(w)
         \/ DeleteAllObjects(w) \/ RemoveBucket(w)
  PROVE  ReconcilerNext
  <1>1. mem[w].ann \in Anns /\ mem[w].at \in Ats /\ "claimed" \in Anns
    BY BucketAssumption DEF ReconcilerTypeOK, Object
  <1>2. MayFault
    BY FaultIsMayFault
       DEF MakeBucket, CreatePolicy, CreateTags, UpdatePolicy, UpdateTags, DeleteAllObjects, RemoveBucket
  <1>3. \E stage \in Stages, ann \in Anns, at \in Ats, ready \in {mem[w].ready, "Available", "Deleting"} :
          ExternalCall(w, stage, ann, at, ready)
    <2>1. \/ \E stage \in {"create2", "create3", "createFailed", "update2", "delete2", "status"} :
               ExternalCall(w, stage, mem[w].ann, mem[w].at, mem[w].ready)
          \/ ExternalCall(w, "created", "claimed", mem[w].at, mem[w].ready)
          \/ ExternalCall(w, "status", mem[w].ann, mem[w].at, "Deleting")
      BY DEF MakeBucket, CreatePolicy, CreateTags, UpdatePolicy, UpdateTags, DeleteAllObjects,
             RemoveBucket, Call, DeletingStatus
    <2>2. {"create2", "create3", "createFailed", "update2", "delete2", "status", "created"} \subseteq Stages
      BY DEF Stages, CreateStages, UpdateStages, DeleteStages
    <2>3. QED
      BY <2>1, <2>2, <1>1
  <1>4. QED
    BY <1>2, <1>3 DEF ReconcilerNext

(* The runtime's writes carry a spec in the form the types serialise.       *)
LEMMA RuntimeSim ==
  ASSUME ReconcilerInv, NEW w \in Workers, RuntimeStep(w)
  PROVE  ReconcilerNext
  <1>1. mem[w].spec \in Specs
    BY DEF ReconcilerInv, ReconcilerTypeOK, Object
  <1>2. Encode(mem[w].spec) \in Specs
    BY <1>1, SpecFacts
  <1>3. pc[w] # "idle" => api[cur[w]].spec \in Specs
    BY DEF ReconcilerInv, BusyHasResource, ReconcilerTypeOK, Object
  <1>4. pc[w] # "idle" => Encode(api[cur[w]].spec) \in Specs
    BY <1>3, SpecFacts
  <1>5. \/ \E s \in Specs : \/ AddFinalizer(w, s) \/ MarkPending(w, s)
                            \/ \E stage \in {"publish", "status"} : RecordCreation(w, s, stage)
                            \/ RecordFailure(w, s)
        \/ WriteStatus(w) \/ Conflict(w)
    BY <1>2, <1>4 DEF RuntimeStep
  <1>6. QED
    BY <1>5 DEF ReconcilerNext

(* Every step of the controller is a step of the reconciler or none.        *)
LEMMA BucketStepSim ==
  ReconcilerInv /\ [Next]_vars => [ReconcilerNext]_reconcilerVars
  <1> SUFFICES ASSUME ReconcilerInv, [Next]_vars PROVE [ReconcilerNext]_reconcilerVars
    OBVIOUS
  <1>1. ASSUME NEW w \in Workers, Step(w) \/ ObserveFails(w) PROVE ReconcilerNext
    <2>1. CASE Observe(w) \/ ObserveFails(w)
      BY <2>1, ObserveSim DEF ReconcilerInv
    <2>2. CASE \/ MakeBucket(w) \/ CreatePolicy(w) \/ CreateTags(w)
               \/ UpdatePolicy(w) \/ UpdateTags(w) \/ DeleteAllObjects(w) \/ RemoveBucket(w)
      BY <2>2, CallSim DEF ReconcilerInv
    <2>3. CASE RuntimeStep(w)
      BY <2>3, RuntimeSim
    <2>4. CASE RemoveFinalizer(w)
      BY <2>4 DEF RemoveFinalizer, ReconcilerNext
    <2>5. QED
      BY <1>1, <2>1, <2>2, <2>3, <2>4 DEF Step
  <1>2. ASSUME NEW w \in Workers, \/ Stop(w) \/ SyncCache(w)
                                  \/ \E r \in Resources : StartReconcile(w, r)
        PROVE  ReconcilerNext
    BY <1>2 DEF Stop, SyncCache, StartReconcile, ReconcilerNext
  <1>3. ASSUME NEW r \in Resources, \/ Delete(r)
                                    \/ \E s \in Specs : Apply(r, s) \/ Edit(r, s)
        PROVE  ReconcilerNext
    BY <1>3 DEF Delete, Apply, Edit, ReconcilerNext
  <1>4. ASSUME NEW n \in Names, ForeignClient(n) PROVE ReconcilerNext
    BY <1>4 DEF ForeignClient, ReconcilerNext
  <1>5. ASSUME UNCHANGED vars PROVE UNCHANGED reconcilerVars
    BY <1>5 DEF vars
  <1>6. QED
    BY <1>1, <1>2, <1>3, <1>4, <1>5 DEF Next

(* The reconciler's inductive invariant holds of the Bucket controller.     *)
LEMMA BucketReconcilerInv == Spec => []ReconcilerInv
  <1>1. Init => ReconcilerInv
    BY InitInv DEF Init
  <1>2. ReconcilerInv /\ [Next]_vars => ReconcilerInv'
    BY BucketStepSim, StepInv
  <1>3. QED
    BY <1>1, <1>2, PTL DEF Spec

(* The Bucket controller, whatever it does to MinIO, is a managed           *)
(* reconciler to the API server (operator/bucket/setup.go).                 *)
THEOREM BucketImplementsReconciler == Spec => ReconcilerSpec
  <1>1. Init => ReconcilerInit
    BY DEF Init
  <1>2. QED
    BY <1>1, BucketReconcilerInv, BucketStepSim, PTL DEF Spec, ReconcilerSpec

(* So Buckets live as Lifecycle says: none begins to be created before it   *)
(* is held or after it is deleted, and none disappears while its creation   *)
(* is under way (operator/bucket/setup.go, delete.go).                      *)
THEOREM BucketImplementsLifecycle == Spec => LifecycleSpec
  <1>1. QED
    BY BucketImplementsReconciler, ReconcilerImplementsLifecycle

(* However many replicas of the provider run, at most one is between the    *)
(* announcement and the record of a Bucket's Create.                        *)
THEOREM BucketOneCreate == Spec => []OneCreateInFlight
  <1>1. ReconcilerInv => OneCreateInFlight
    BY DEF ReconcilerInv
  <1>2. QED
    BY <1>1, BucketReconcilerInv, PTL

-----------------------------------------------------------------------------
(* The status names the bucket of the spec.  The argument goes through the  *)
(* copies in memory: a status reaches the API server only from a copy with  *)
(* the latest resourceVersion, and such a copy has the latest name.         *)

FreshNames ==
    \A w \in fresh : pc[w] # "idle" =>
        /\ mem[w].spec.name = api[cur[w]].spec.name
        /\ mem[w].at # "" => mem[w].at = mem[w].spec.name

NamesInv == StatusNamesSpec /\ FreshNames

(* A copy written or read back keeps a good status.                         *)
GoodCopy(o) == o.at # "" => o.at = o.spec.name

(* A worker's step that writes nothing to the API server.                   *)
LEMMA NamesLocal ==
  ASSUME ReconcilerInv, NamesInv, NEW w \in Workers,
         UNCHANGED api,
         \A v \in Workers \ {w} : cur'[v] = cur[v] /\ pc'[v] = pc[v] /\ mem'[v] = mem[v],
         fresh' \subseteq fresh \cup {w},
         w \in fresh' /\ pc'[w] # "idle" => mem'[w].spec.name = api[cur'[w]].spec.name /\ GoodCopy(mem'[w])
  PROVE  NamesInv'
  <1>1. fresh \subseteq Workers
    BY DEF ReconcilerInv, ReconcilerTypeOK
  <1>2. StatusNamesSpec'
    BY DEF NamesInv, StatusNamesSpec
  <1>3. FreshNames'
    <2> SUFFICES ASSUME NEW v \in fresh', pc'[v] # "idle"
                 PROVE  /\ mem'[v].spec.name = api'[cur'[v]].spec.name
                        /\ mem'[v].at # "" => mem'[v].at = mem'[v].spec.name
      BY DEF FreshNames
    <2>1. CASE v = w
      BY <2>1 DEF GoodCopy
    <2>2. CASE v # w
      BY <2>2, <1>1 DEF NamesInv, FreshNames
    <2>3. QED
      BY <2>1, <2>2
  <1>4. QED
    BY <1>2, <1>3 DEF NamesInv

(* A write: the other workers on the resource are out of date.              *)
LEMMA NamesWrite ==
  ASSUME ReconcilerInv, NamesInv, NEW r \in Resources, NEW o \in Object, Store(r, o), GoodCopy(o),
         \A v \in fresh' : pc'[v] # "idle" =>
            \/ /\ v \in fresh \ StaleNow(r)
               /\ cur'[v] = cur[v] /\ pc'[v] = pc[v] /\ mem'[v] = mem[v]
            \/ cur'[v] = r /\ mem'[v].spec.name = o.spec.name /\ GoodCopy(mem'[v])
  PROVE  NamesInv'
  <1>1. fresh \subseteq Workers /\ api \in [Resources -> Object]
    BY DEF ReconcilerInv, ReconcilerTypeOK
  <1>2. api'[r] = o /\ \A q \in Resources : q # r => api'[q] = api[q]
    BY <1>1 DEF Store
  <1>3. StatusNamesSpec'
    BY <1>2 DEF NamesInv, StatusNamesSpec, GoodCopy
  <1>4. FreshNames'
    <2> SUFFICES ASSUME NEW v \in fresh', pc'[v] # "idle"
                 PROVE  /\ mem'[v].spec.name = api'[cur'[v]].spec.name
                        /\ mem'[v].at # "" => mem'[v].at = mem'[v].spec.name
      BY DEF FreshNames
    <2>1. CASE cur'[v] = r /\ mem'[v].spec.name = o.spec.name /\ GoodCopy(mem'[v])
      BY <2>1, <1>2 DEF GoodCopy
    <2>2. CASE /\ v \in fresh \ StaleNow(r)
               /\ cur'[v] = cur[v] /\ pc'[v] = pc[v] /\ mem'[v] = mem[v]
      <3>1. v \in Workers /\ cur[v] # r
        BY <2>2, <1>1 DEF StaleNow
      <3>2. cur[v] \in Resources
        BY <2>2, <3>1 DEF ReconcilerInv, BusyHasResource
      <3>3. api'[cur'[v]] = api[cur[v]]
        BY <2>2, <3>1, <3>2, <1>2
      <3>4. /\ mem[v].spec.name = api[cur[v]].spec.name
            /\ mem[v].at # "" => mem[v].at = mem[v].spec.name
        BY <2>2 DEF NamesInv, FreshNames
      <3>5. QED
        BY <2>2, <3>3, <3>4
    <2>3. QED
      BY <2>1, <2>2
  <1>5. QED
    BY <1>3, <1>4 DEF NamesInv

(* Load takes the latest copy or one that is not marked fresh.              *)
LEMMA NamesLoad ==
  ASSUME ReconcilerInv, NamesInv, NEW w \in Workers, NEW r \in Resources, Load(w, r)
  PROVE  NamesInv'
  <1> DEFINE o == cache[w][r]
  <1>1. /\ pc \in [Workers -> Stages] /\ cur \in [Workers -> Resources \cup {NoResource}]
        /\ mem \in [Workers -> Object]
    BY DEF ReconcilerInv, ReconcilerTypeOK
  <1>2. o \in Object
    BY DEF ReconcilerInv, ReconcilerTypeOK
  <1>3. /\ mem'[w] = IF o.create = "pending" THEN [o EXCEPT !.ready = "Creating"] ELSE o
        /\ cur'[w] = r
        /\ \A v \in Workers \ {w} : cur'[v] = cur[v] /\ pc'[v] = pc[v] /\ mem'[v] = mem[v]
    BY <1>1 DEF Load
  <1>4. mem'[w].spec = o.spec /\ mem'[w].at = o.at
    BY <1>2, <1>3 DEF Object
  <1>5. w \in fresh' => o = api[r]
    BY DEF Load, ReconcilerInv, SyncedAgrees
  <1>6. GoodCopy(api[r])
    BY DEF NamesInv, StatusNamesSpec, GoodCopy
  <1>7. w \in fresh' => mem'[w].spec.name = api[cur'[w]].spec.name /\ GoodCopy(mem'[w])
    BY <1>3, <1>4, <1>5, <1>6 DEF GoodCopy
  <1>8. fresh' \subseteq fresh \cup {w} /\ UNCHANGED api
    BY DEF Load
  <1>9. QED
    BY <1>3, <1>7, <1>8, NamesLocal

(* Observe sets the status to the name in the spec it observed.             *)
LEMMA NamesObserve ==
  ASSUME ReconcilerInv, NamesInv, NEW w \in Workers, Observe(w) \/ ObserveFails(w)
  PROVE  NamesInv'
  <1> DEFINE m == mem[w]
             seen == [m EXCEPT !.at = m.spec.name, !.ready = "Available"]
  <1>1. m \in Object /\ mem \in [Workers -> Object] /\ pc \in [Workers -> Stages]
    BY DEF ReconcilerInv, ReconcilerTypeOK
  <1>2. PICK n \in {m, seen} : \/ AfterObserveError(w, n)
                               \/ \E outcome \in Observed : AfterObserve(w, n, outcome)
    BY DEF Observe, ObserveFails, Observed
  <1>3. /\ mem' = [mem EXCEPT ![w] = n] /\ pc[w] = "observe"
        /\ UNCHANGED <<api, cur, fresh>>
        /\ \E stage : pc' = [pc EXCEPT ![w] = stage]
    BY <1>2 DEF AfterObserveError, AfterObserve
  <1>4. /\ mem'[w] = n
        /\ \A v \in Workers \ {w} : cur'[v] = cur[v] /\ pc'[v] = pc[v] /\ mem'[v] = mem[v]
    BY <1>1, <1>3
  <1>5. n.spec = m.spec /\ (n.at = m.at \/ n.at = m.spec.name)
    BY <1>1, <1>2 DEF Object
  <1>6. w \in fresh => m.spec.name = api[cur[w]].spec.name /\ GoodCopy(m)
    BY <1>3 DEF NamesInv, FreshNames, GoodCopy
  <1>7. w \in fresh' => mem'[w].spec.name = api[cur'[w]].spec.name /\ GoodCopy(mem'[w])
    BY <1>3, <1>4, <1>5, <1>6 DEF GoodCopy
  <1>8. QED
    BY <1>3, <1>4, <1>7, NamesLocal

(* The calls of Create, Update and Delete leave name and status alone.      *)
LEMMA NamesCall ==
  ASSUME ReconcilerInv, NamesInv, NEW w \in Workers, NEW stage, NEW ann, NEW ready,
         ExternalCall(w, stage, ann, mem[w].at, ready)
  PROVE  NamesInv'
  <1>1. mem[w] \in Object /\ mem \in [Workers -> Object] /\ pc \in [Workers -> Stages]
    BY DEF ReconcilerInv, ReconcilerTypeOK
  <1>2. mem' = [mem EXCEPT ![w].ann = ann, ![w].at = mem[w].at, ![w].ready = ready]
        /\ UNCHANGED <<api, cur, fresh>>
    BY DEF ExternalCall
  <1>3. mem'[w].spec = mem[w].spec /\ mem'[w].at = mem[w].at
    BY <1>1, <1>2 DEF Object
  <1>4. \A v \in Workers \ {w} : cur'[v] = cur[v] /\ pc'[v] = pc[v] /\ mem'[v] = mem[v]
    BY <1>1, <1>2 DEF ExternalCall
  <1>5. pc[w] # "idle"
    BY DEF ExternalCall, UpdateStages, DeleteStages
  <1>6. w \in fresh => mem[w].spec.name = api[cur[w]].spec.name /\ GoodCopy(mem[w])
    BY <1>5 DEF NamesInv, FreshNames, GoodCopy
  <1>7. w \in fresh' => mem'[w].spec.name = api[cur'[w]].spec.name /\ GoodCopy(mem'[w])
    BY <1>2, <1>3, <1>6 DEF GoodCopy
  <1>8. QED
    BY <1>2, <1>4, <1>7, NamesLocal

(* An update by the runtime writes back the name it read.                   *)
LEMMA NamesUpdate ==
  ASSUME ReconcilerInv, NamesInv, NEW w \in Workers, pc[w] # "idle",
         NEW o \in Object, NEW stage, ClientUpdate(w, o, stage),
         o.spec = Encode(mem[w].spec), o.at = api[cur[w]].at
  PROVE  NamesInv'
  <1>1. /\ mem[w] \in Object /\ mem \in [Workers -> Object] /\ pc \in [Workers -> Stages]
        /\ cur[w] \in Resources /\ fresh \subseteq Workers
    BY DEF ReconcilerInv, ReconcilerTypeOK, BusyHasResource
  <1>2. mem[w].spec \in Specs
    BY <1>1 DEF Object
  <1>3. o.spec.name = mem[w].spec.name
    BY <1>2, SpecFacts
  <1>4. mem[w].spec.name = api[cur[w]].spec.name /\ GoodCopy(mem[w]) /\ GoodCopy(api[cur[w]])
    BY <1>1 DEF ClientUpdate, NamesInv, FreshNames, StatusNamesSpec, GoodCopy
  <1>5. GoodCopy(o)
    BY <1>3, <1>4 DEF GoodCopy
  <1> DEFINE m == [o EXCEPT !.spec = mem[w].spec,
                            !.at = IF o.at = "" THEN mem[w].at ELSE o.at,
                            !.ready = IF o.ready = "" THEN mem[w].ready ELSE o.ready]
  <1>6. m.spec = mem[w].spec /\ m.at = (IF o.at = "" THEN mem[w].at ELSE o.at)
    BY <1>1 DEF Object
  <1>7. m.spec.name = o.spec.name /\ GoodCopy(m)
    <2> HIDE DEF m
    <2>1. QED
      BY <1>3, <1>4, <1>5, <1>6 DEF GoodCopy
  <1>8. mem' = [mem EXCEPT ![w] = m] /\ UNCHANGED cur /\ pc' = [pc EXCEPT ![w] = stage]
        /\ Store(cur[w], o) /\ fresh' = (fresh \ StaleNow(cur[w])) \cup {w}
    BY DEF ClientUpdate
  <1> HIDE DEF m
  <1>9. mem'[w] = m /\ \A v \in Workers \ {w} : cur'[v] = cur[v] /\ pc'[v] = pc[v] /\ mem'[v] = mem[v]
    BY <1>1, <1>8
  <1>10. \A v \in fresh' :
            \/ /\ v \in fresh \ StaleNow(cur[w])
               /\ cur'[v] = cur[v] /\ pc'[v] = pc[v] /\ mem'[v] = mem[v]
            \/ cur'[v] = cur[w] /\ mem'[v].spec.name = o.spec.name /\ GoodCopy(mem'[v])
    BY <1>1, <1>7, <1>8, <1>9
  <1>11. QED
    BY <1>1, <1>5, <1>8, <1>10, NamesWrite

(* The record of a creation merges the annotations into the latest copy.    *)
LEMMA NamesRecord ==
  ASSUME ReconcilerInv, NamesInv, NEW w \in Workers,
         LET s == Encode(api[cur[w]].spec)
         IN  RecordCreation(w, s, "status") \/ RecordFailure(w, s)
  PROVE  NamesInv'
  <1> DEFINE s == Encode(api[cur[w]].spec)
             a == api[cur[w]]
  <1>1. /\ mem[w] \in Object /\ mem \in [Workers -> Object] /\ pc \in [Workers -> Stages]
        /\ api \in [Resources -> Object] /\ fresh \subseteq Workers
    BY DEF ReconcilerInv, ReconcilerTypeOK
  <1>2. cur[w] \in Resources
    BY DEF ReconcilerInv, BusyHasResource, RecordCreation, RecordFailure
  <1>3. a \in Object /\ a.spec \in Specs /\ mem[w].ann \in Anns
    BY <1>1, <1>2 DEF Object
  <1>4. s \in Specs /\ s.name = a.spec.name
    BY <1>3, SpecFacts
  <1>5. GoodCopy(a) /\ (w \in fresh => mem[w].spec.name = a.spec.name /\ GoodCopy(mem[w]))
    BY <1>2 DEF NamesInv, StatusNamesSpec, FreshNames, GoodCopy, RecordCreation, RecordFailure
  <1> HIDE DEF s, a
  <1>6. PICK o \in Object, m \in Object :
          /\ o.spec = s /\ o.at = a.at
          /\ m.spec = s /\ (m.at = a.at \/ (w \in fresh /\ m.at = mem[w].at))
          /\ Store(cur[w], o)
          /\ mem' = [mem EXCEPT ![w] = m]
          /\ UNCHANGED cur
          /\ pc' = [pc EXCEPT ![w] = "status"]
          /\ fresh' = (fresh \ StaleNow(cur[w])) \cup {w}
    <2>1. CASE RecordCreation(w, s, "status")
      <3> DEFINE o == [a EXCEPT !.create = "succeeded", !.ann = mem[w].ann, !.spec = s]
                 at == IF w \in fresh /\ o.at = "" THEN mem[w].at ELSE o.at
                 m == [o EXCEPT !.at = at, !.ready = "Creating"]
      <3>1. o \in Object /\ o.spec = s /\ o.at = a.at
        BY <1>3, <1>4 DEF Object
      <3>2. at \in Ats
        BY <1>1, <1>3 DEF Object
      <3>3. m \in Object /\ m.spec = s /\ (m.at = a.at \/ (w \in fresh /\ m.at = mem[w].at))
        BY <1>1, <1>3, <1>4, <3>1, <3>2 DEF Object, Readiness
      <3>4. Store(cur[w], o) /\ mem' = [mem EXCEPT ![w] = m] /\ UNCHANGED cur
            /\ pc' = [pc EXCEPT ![w] = "status"] /\ fresh' = (fresh \ StaleNow(cur[w])) \cup {w}
        BY <2>1 DEF RecordCreation, a
      <3> HIDE DEF o, m
      <3>5. QED
        BY <3>1, <3>3, <3>4
    <2>2. CASE RecordFailure(w, s)
      <3> DEFINE o == [a EXCEPT !.create = "failed", !.spec = s]
                 m == [o EXCEPT !.ready = "Creating"]
      <3>1. o \in Object /\ o.spec = s /\ o.at = a.at
        BY <1>3, <1>4 DEF Object
      <3>2. m \in Object /\ m.spec = s /\ m.at = a.at
        BY <1>3, <1>4 DEF Object, Readiness
      <3>3. Store(cur[w], o) /\ mem' = [mem EXCEPT ![w] = m] /\ UNCHANGED cur
            /\ pc' = [pc EXCEPT ![w] = "status"] /\ fresh' = (fresh \ StaleNow(cur[w])) \cup {w}
        BY <2>2 DEF RecordFailure, a
      <3> HIDE DEF o, m
      <3>4. QED
        BY <3>1, <3>2, <3>3
    <2>3. QED
      BY <2>1, <2>2 DEF s
  <1>7. GoodCopy(o)
    BY <1>4, <1>5, <1>6 DEF GoodCopy
  <1>8. /\ mem'[w] = m
        /\ \A v \in Workers \ {w} : cur'[v] = cur[v] /\ pc'[v] = pc[v] /\ mem'[v] = mem[v]
    BY <1>1, <1>6
  <1>9. GoodCopy(mem'[w])
    BY <1>4, <1>5, <1>6, <1>7, <1>8 DEF GoodCopy
  <1>10. \A v \in fresh' :
            \/ /\ v \in fresh \ StaleNow(cur[w])
               /\ cur'[v] = cur[v] /\ pc'[v] = pc[v] /\ mem'[v] = mem[v]
            \/ cur'[v] = cur[w] /\ mem'[v].spec.name = o.spec.name /\ GoodCopy(mem'[v])
    BY <1>1, <1>6, <1>8, <1>9
  <1>11. QED
    BY <1>2, <1>6, <1>7, <1>10, NamesWrite

(* The steps that end a reconcile.                                          *)
LEMMA NamesEnd ==
  ASSUME ReconcilerInv, NamesInv, NEW w \in Workers,
         WriteStatus(w) \/ Finalize(w) \/ Conflict(w) \/ Crash(w)
  PROVE  NamesInv'
  <1>1. /\ mem \in [Workers -> Object] /\ pc \in [Workers -> Stages] /\ mem[w] \in Object
        /\ fresh \subseteq Workers
        /\ cur \in [Workers -> Resources \cup {NoResource}] /\ api \in [Resources -> Object]
    BY DEF ReconcilerInv, ReconcilerTypeOK
  <1>2. /\ pc'[w] = "idle"
        /\ \A v \in Workers \ {w} : cur'[v] = cur[v] /\ pc'[v] = pc[v] /\ mem'[v] = mem[v]
    BY <1>1 DEF WriteStatus, Finalize, Conflict, Crash, Return
  <1>3. CASE UNCHANGED api /\ fresh' \subseteq fresh
    BY <1>2, <1>3, NamesLocal
  <1>4. CASE WriteStatus(w) /\ ~(UNCHANGED api /\ fresh' \subseteq fresh)
    <2> DEFINE o == [api[cur[w]] EXCEPT !.ready = mem[w].ready, !.at = mem[w].at]
    <2>1. cur[w] \in Resources /\ pc[w] # "idle"
      BY <1>4 DEF WriteStatus, ReconcilerInv, BusyHasResource
    <2>2. api[cur[w]] \in Object /\ mem[w].ready \in Readiness /\ mem[w].at \in Ats
      BY <1>1, <2>1 DEF Object
    <2>3. o \in Object /\ o.at = mem[w].at /\ o.spec = api[cur[w]].spec
      BY <2>2 DEF Object
    <2>4. Store(cur[w], o) /\ fresh' = fresh \ StaleNow(cur[w])
      BY <1>4 DEF WriteStatus
    <2> HIDE DEF o
    <2>5. GoodCopy(o)
      BY <1>4, <2>1, <2>3 DEF WriteStatus, NamesInv, FreshNames, GoodCopy
    <2>6. \A v \in fresh' : pc'[v] # "idle" =>
            /\ v \in fresh \ StaleNow(cur[w])
            /\ cur'[v] = cur[v] /\ pc'[v] = pc[v] /\ mem'[v] = mem[v]
      BY <1>1, <1>2, <2>4
    <2>7. QED
      BY <2>1, <2>3, <2>4, <2>5, <2>6, NamesWrite
  <1>5. CASE Finalize(w)
    <2>1. cur[w] \in Resources
      BY <1>5 DEF Finalize, ReconcilerInv, BusyHasResource
    <2>2. Gone \in Object /\ GoodCopy(Gone)
      BY GoneIsObject DEF Gone, GoodCopy
    <2>3. Store(cur[w], Gone) /\ fresh' = fresh \ StaleNow(cur[w])
      BY <1>5 DEF Finalize
    <2>4. \A v \in fresh' : pc'[v] # "idle" =>
            /\ v \in fresh \ StaleNow(cur[w])
            /\ cur'[v] = cur[v] /\ pc'[v] = pc[v] /\ mem'[v] = mem[v]
      BY <1>1, <1>2, <2>3
    <2>5. QED
      BY <2>1, <2>2, <2>3, <2>4, NamesWrite
  <1>6. QED
    BY <1>3, <1>4, <1>5 DEF Conflict, Crash

(* Users: the webhook refuses an edit of the name once the status has one.  *)
LEMMA NamesUser ==
  ASSUME ReconcilerInv, NamesInv, NEW r \in Resources, NEW s \in Specs,
         Apply(r, s) \/ Edit(r, s) \/ Delete(r)
  PROVE  NamesInv'
  <1>1. api[r] \in Object
    BY DEF ReconcilerInv, ReconcilerTypeOK
  <1>2. GoodCopy(api[r])
    BY DEF NamesInv, StatusNamesSpec, GoodCopy
  <1>3. Gone \in Object /\ Gone.at = ""
    BY GoneIsObject DEF Gone
  <1>4. PICK o : UserWrite(r, o) /\ \/ o = [Gone EXCEPT !.present = TRUE, !.spec = s]
                                    \/ o = [api[r] EXCEPT !.spec = s] /\ ValidateUpdate(api[r], s)
                                    \/ o = [api[r] EXCEPT !.deleting = TRUE]
                                    \/ o = Gone
    BY DEF Apply, Edit, Delete, UserApply, UserEdit, UserDelete
  <1>5. o \in Object
    BY <1>1, <1>3, <1>4 DEF Object
  <1>6. GoodCopy(o)
    <2>1. CASE o = [Gone EXCEPT !.present = TRUE, !.spec = s] \/ o = Gone
      <3>1. o.at = ""
        BY <2>1, <1>3 DEF Object
      <3>2. QED
        BY <3>1 DEF GoodCopy
    <2>2. CASE o = [api[r] EXCEPT !.spec = s] /\ ValidateUpdate(api[r], s)
      <3>1. o.at = api[r].at /\ o.spec = s
        BY <2>2, <1>1 DEF Object
      <3>2. QED
        BY <3>1, <2>2 DEF ValidateUpdate, GoodCopy
    <2>3. CASE o = [api[r] EXCEPT !.deleting = TRUE]
      <3>1. o.at = api[r].at /\ o.spec = api[r].spec
        BY <2>3, <1>1 DEF Object
      <3>2. QED
        BY <3>1, <1>2 DEF GoodCopy
    <2>4. QED
      BY <1>4, <2>1, <2>2, <2>3
  <1>7. /\ Store(r, o)
        /\ \A v \in fresh' : /\ v \in fresh \ StaleNow(r)
                             /\ cur'[v] = cur[v] /\ pc'[v] = pc[v] /\ mem'[v] = mem[v]
    BY <1>4 DEF UserWrite
  <1>8. QED
    BY <1>5, <1>6, <1>7, NamesWrite

(* What touches neither the resources nor the workers.                      *)
LEMMA NamesIdle ==
  ASSUME NamesInv, UNCHANGED <<api, fresh, pc, cur, mem>>
  PROVE  NamesInv'
  BY DEF NamesInv, StatusNamesSpec, FreshNames

(* One case for each action of the controller.                              *)
LEMMA NamesStep == ReconcilerInv /\ NamesInv /\ [Next]_vars => NamesInv'
  <1> SUFFICES ASSUME ReconcilerInv, NamesInv, [Next]_vars PROVE NamesInv'
    OBVIOUS
  <1>1. ASSUME NEW w \in Workers, Observe(w) \/ ObserveFails(w) PROVE NamesInv'
    BY <1>1, NamesObserve
  <1>2. ASSUME NEW w \in Workers,
               \/ MakeBucket(w) \/ CreatePolicy(w) \/ CreateTags(w)
               \/ UpdatePolicy(w) \/ UpdateTags(w) \/ DeleteAllObjects(w) \/ RemoveBucket(w)
        PROVE  NamesInv'
    <2>1. \E stage, ann, ready : ExternalCall(w, stage, ann, mem[w].at, ready)
      BY <1>2 DEF MakeBucket, CreatePolicy, CreateTags, UpdatePolicy, UpdateTags,
                  DeleteAllObjects, RemoveBucket, Call, DeletingStatus
    <2>2. QED
      BY <2>1, NamesCall
  <1>3. ASSUME NEW w \in Workers, RuntimeStep(w) PROVE NamesInv'
    <2>1. ASSUME Writable(w), \/ AddFinalizer(w, Encode(mem[w].spec))
                              \/ MarkPending(w, Encode(mem[w].spec))
          PROVE  NamesInv'
      <3> DEFINE s == Encode(mem[w].spec)
                 a == api[cur[w]]
      <3>1. pc[w] # "idle" /\ cur[w] \in Resources
        BY <2>1 DEF AddFinalizer, MarkPending, Observed, ReconcilerInv, BusyHasResource
      <3>2. a \in Object /\ mem[w].spec \in Specs
        BY <3>1 DEF ReconcilerInv, ReconcilerTypeOK, Object
      <3>3. s \in Specs
        BY <3>2, SpecFacts
      <3> HIDE DEF s, a
      <3>4. \E o \in Object : \E stage : ClientUpdate(w, o, stage) /\ o.spec = s /\ o.at = a.at
        <4>1. CASE AddFinalizer(w, s)
          <5> DEFINE o == [a EXCEPT !.finalizer = TRUE, !.spec = s]
          <5>1. o \in Object /\ o.spec = s /\ o.at = a.at
            BY <3>2, <3>3 DEF Object
          <5>2. QED
            BY <4>1, <5>1 DEF AddFinalizer, a
        <4>2. CASE MarkPending(w, s)
          <5> DEFINE o == [a EXCEPT !.create = "pending", !.spec = s]
          <5>1. o \in Object /\ o.spec = s /\ o.at = a.at
            BY <3>2, <3>3 DEF Object
          <5>2. QED
            BY <4>2, <5>1 DEF MarkPending, a
        <4>3. QED
          BY <2>1, <4>1, <4>2 DEF s
      <3>5. QED
        BY <3>1, <3>4, NamesUpdate DEF s, a
    <2>2. CASE \/ RecordCreation(w, Encode(api[cur[w]].spec), "status")
               \/ RecordFailure(w, Encode(api[cur[w]].spec))
      BY <2>2, NamesRecord
    <2>3. CASE WriteStatus(w) \/ Conflict(w)
      BY <2>3, NamesEnd
    <2>4. QED
      BY <1>3, <2>1, <2>2, <2>3 DEF RuntimeStep
  <1>4. ASSUME NEW w \in Workers, RemoveFinalizer(w) \/ Stop(w) PROVE NamesInv'
    BY <1>4, NamesEnd DEF RemoveFinalizer, Stop
  <1>5. ASSUME NEW w \in Workers, NEW r \in Resources, StartReconcile(w, r) PROVE NamesInv'
    BY <1>5, NamesLoad DEF StartReconcile
  <1>6. ASSUME NEW w \in Workers, SyncCache(w) PROVE NamesInv'
    BY <1>6, NamesIdle DEF SyncCache, CacheSync
  <1>7. ASSUME NEW n \in Names, ForeignClient(n) PROVE NamesInv'
    BY <1>7, NamesIdle DEF ForeignClient
  <1>8. ASSUME NEW r \in Resources, NEW s \in Specs, Apply(r, s) \/ Edit(r, s) PROVE NamesInv'
    BY <1>8, NamesUser
  <1>9. ASSUME NEW r \in Resources, Delete(r) PROVE NamesInv'
    <2>1. PICK s \in Specs : TRUE
      BY ReconcilerAssumption
    <2>2. QED
      BY <1>9, <2>1, NamesUser
  <1>10. ASSUME UNCHANGED vars PROVE NamesInv'
    BY <1>10, NamesIdle DEF vars, reconcilerVars
  <1>11. QED
    BY <1>1, <1>2, <1>3, <1>4, <1>5, <1>6, <1>7, <1>8, <1>9, <1>10 DEF Next, Step

LEMMA NamesInit == Init => NamesInv
  <1>1. Gone.at = ""
    BY DEF Gone
  <1>2. Init => /\ \A r \in Resources : api[r] = Gone
                /\ fresh = {}
    BY DEF Init, ReconcilerInit
  <1>3. QED
    BY <1>1, <1>2 DEF NamesInv, StatusNamesSpec, FreshNames

(* Whatever users edit, however many replicas run and however their caches  *)
(* lag, a bucket that status.atProvider.bucketName names is the bucket of   *)
(* the spec: no status write goes over a change of the name.                *)
THEOREM BucketStatusNamesSpec == Spec => []StatusNamesSpec
  <1>1. NamesInv => StatusNamesSpec
    BY DEF NamesInv
  <1>2. QED
    BY <1>1, NamesInit, NamesStep, BucketReconcilerInv, PTL DEF Spec

-----------------------------------------------------------------------------
(* Who takes a step.                                                        *)

WorkerStep(w) ==
    \/ Step(w) \/ ObserveFails(w) \/ Stop(w) \/ SyncCache(w)
    \/ \E r \in Resources : StartReconcile(w, r)

UserStep(r) == Delete(r) \/ \E s \in Specs : Apply(r, s) \/ Edit(r, s)

CallStep(w) ==
    \/ MakeBucket(w) \/ CreatePolicy(w) \/ CreateTags(w)
    \/ UpdatePolicy(w) \/ UpdateTags(w)
    \/ DeleteAllObjects(w) \/ RemoveBucket(w)

LEMMA NextCases ==
  ASSUME [Next]_vars
  PROVE  \/ \E w \in Workers : WorkerStep(w)
         \/ \E r \in Resources : UserStep(r)
         \/ \E n \in Names : ForeignClient(n)
         \/ UNCHANGED vars
  BY DEF Next, WorkerStep, UserStep

(* What Observe makes of the copy in memory.                                *)
LEMMA ObserveCases ==
  ASSUME NEW w \in Workers, Observe(w)
  PROVE  \/ AfterObserve(w, mem[w], "absent") /\ ~buckets[mem[w].spec.name].exists
         \/ AfterObserveError(w, mem[w])
         \/ \E m : \E outcome \in {"upToDate", "outdated"} : AfterObserve(w, m, outcome)
  BY DEF Observe

LEMMA CallCases ==
  ASSUME NEW w \in Workers, CallStep(w)
  PROVE  \E stage, ann, ready : ExternalCall(w, stage, ann, mem[w].at, ready)
  BY DEF CallStep, MakeBucket, CreatePolicy, CreateTags, UpdatePolicy, UpdateTags, DeleteAllObjects,
         RemoveBucket, Call, DeletingStatus

LEMMA WorkerStepIsStepOf ==
  ASSUME NEW w \in Workers, WorkerStep(w)
  PROVE  StepOf(w)
  <1>1. CASE Observe(w) \/ ObserveFails(w)
    BY <1>1 DEF Observe, ObserveFails, StepOf
  <1>2. CASE CallStep(w)
    BY <1>2, CallCases DEF StepOf
  <1>3. CASE RuntimeStep(w)
    BY <1>3 DEF RuntimeStep, StepOf
  <1>4. CASE RemoveFinalizer(w) \/ Stop(w) \/ SyncCache(w) \/ \E r \in Resources : StartReconcile(w, r)
    BY <1>4 DEF RemoveFinalizer, Stop, SyncCache, StartReconcile, StepOf
  <1>5. QED
    BY <1>1, <1>2, <1>3, <1>4 DEF WorkerStep, Step, CallStep

LEMMA UserStepIsStepOfUser ==
  ASSUME NEW r \in Resources, UserStep(r)
  PROVE  StepOfUser(r) /\ buckets' = buckets
  BY DEF UserStep, Delete, Apply, Edit, StepOfUser

LEMMA ForeignLeaves ==
  ASSUME NEW n, ForeignClient(n)
  PROVE  UNCHANGED <<api, fresh, pc, cur, mem, consent, left>>
  BY DEF ForeignClient

LEMMA NextIsSomeStep ==
  ASSUME [Next]_vars
  PROVE  SomeStep
  BY NextCases, WorkerStepIsStepOf, UserStepIsStepOfUser, ForeignLeaves DEF vars, reconcilerVars, SomeStep

LEMMA WorkerFacts ==
  ASSUME ReconcilerInv, NEW w \in Workers, pc[w] # "idle"
  PROVE  /\ cur[w] \in Resources /\ cur[w] # NoResource
         /\ mem[w] \in Object /\ mem[w].spec \in Specs /\ mem[w].spec.name \in Names
         /\ mem[w].at \in Names \cup {""}
  <1>1. cur[w] \in Resources /\ mem[w] \in Object
    BY DEF ReconcilerInv, ReconcilerTypeOK, BusyHasResource
  <1>2. QED
    BY <1>1, SpecFacts, BucketAssumption, ReconcilerAssumption DEF Object

-----------------------------------------------------------------------------
(* The buckets.                                                             *)

Regions == {s.region : s \in Specs} \cup {""}
Policies == {Canonical[p] : p \in DOMAIN Canonical} \cup {""}

Bucket == [exists : BOOLEAN, maker : Resources \cup {NoResource}, region : Regions,
           policy : Policies, tags : {"empty", "tagged"}, objects : BOOLEAN]

(* A bucket that is not there is nobody's.                                  *)
BucketsOK ==
    /\ buckets \in [Names -> Bucket]
    /\ \A n \in Names : ~buckets[n].exists => buckets[n].maker = NoResource
    /\ consent \in [Resources -> SUBSET Names]
    /\ left \in [Resources -> SUBSET Names]

LEMMA NoBucketFacts ==
  NoBucket \in Bucket /\ ~NoBucket.exists /\ NoBucket.maker = NoResource
  BY DEF NoBucket, Bucket, Regions, Policies

LEMMA FieldFacts ==
  ASSUME NEW b \in Bucket
  PROVE  /\ \A p \in Policies : LET c == [b EXCEPT !.policy = p] IN
              c \in Bucket /\ c.exists = b.exists /\ c.maker = b.maker
         /\ \A t \in {"empty", "tagged"} : LET c == [b EXCEPT !.tags = t] IN
              c \in Bucket /\ c.exists = b.exists /\ c.maker = b.maker
         /\ \A x \in BOOLEAN : LET c == [b EXCEPT !.objects = x] IN
              c \in Bucket /\ c.exists = b.exists /\ c.maker = b.maker
  BY DEF Bucket

(* A worker's step leaves the makers of buckets alone, unless it makes a    *)
(* bucket that is not there or removes one.                                 *)
LEMMA WorkerStepBuckets ==
  ASSUME ReconcilerInv, BucketsOK, NEW w \in Workers, WorkerStep(w)
  PROVE  \/ buckets' = buckets
         \/ \E n \in Names, b \in Bucket :
              /\ buckets' = [buckets EXCEPT ![n] = b]
              /\ \/ b.exists = buckets[n].exists /\ b.maker = buckets[n].maker
                 \/ b = NoBucket
                 \/ pc[w] = "create" /\ n = mem[w].spec.name /\ b.exists /\ b.maker = cur[w]
  <1> DEFINE Goal == \/ buckets' = buckets
                     \/ \E n \in Names, b \in Bucket :
                          /\ buckets' = [buckets EXCEPT ![n] = b]
                          /\ \/ b.exists = buckets[n].exists /\ b.maker = buckets[n].maker
                             \/ b = NoBucket
                             \/ pc[w] = "create" /\ n = mem[w].spec.name /\ b.exists /\ b.maker = cur[w]
             s == mem[w].spec
  <1>1. CASE buckets' = buckets
    BY <1>1
  <1>2. CASE CallStep(w)
    <2>1. pc[w] # "idle"
      BY <1>2, CallCases DEF ExternalCall, UpdateStages, DeleteStages
    <2>2. /\ cur[w] \in Resources /\ s \in Specs /\ s.name \in Names
          /\ mem[w].at \in Names \cup {""} /\ buckets \in [Names -> Bucket]
      BY <2>1, WorkerFacts DEF BucketsOK
    <2>3. s \in BucketParameters
      BY <2>2, BucketAssumption
    <2>4. CASE MakeBucket(w) /\ buckets' = [buckets EXCEPT ![s.name] =
                 [NoBucket EXCEPT !.exists = TRUE, !.maker = cur[w], !.region = s.region]]
      <3> DEFINE b == [NoBucket EXCEPT !.exists = TRUE, !.maker = cur[w], !.region = s.region]
      <3>1. b \in Bucket /\ b.exists /\ b.maker = cur[w]
        BY <2>2, NoBucketFacts DEF Bucket, Regions, NoBucket
      <3>2. pc[w] = "create"
        BY <2>4 DEF MakeBucket
      <3> HIDE DEF b
      <3>3. QED
        BY <2>2, <2>4, <3>1, <3>2 DEF b
    <2>5. CASE buckets' = SetPolicy(s) /\ s.policy # ""
      <3> DEFINE b == [buckets[s.name] EXCEPT !.policy = Canonical[s.policy]]
      <3>1. Canonical[s.policy] \in Policies
        BY <2>3, <2>5 DEF BucketParameters, Policies
      <3>2. b \in Bucket /\ b.exists = buckets[s.name].exists /\ b.maker = buckets[s.name].maker
        BY <2>2, <3>1, FieldFacts
      <3>3. buckets' = [buckets EXCEPT ![s.name] = b]
        BY <2>5 DEF SetPolicy
      <3> HIDE DEF b
      <3>4. QED
        BY <2>2, <3>2, <3>3
    <2>6. CASE buckets' = SetTags(s) /\ s.tags # "nil"
      <3> DEFINE b == [buckets[s.name] EXCEPT !.tags = s.tags]
      <3>1. s.tags \in {"empty", "tagged"}
        BY <2>3, <2>6 DEF BucketParameters
      <3>2. b \in Bucket /\ b.exists = buckets[s.name].exists /\ b.maker = buckets[s.name].maker
        BY <2>2, <3>1, FieldFacts
      <3>3. buckets' = [buckets EXCEPT ![s.name] = b]
        BY <2>6 DEF SetTags
      <3> HIDE DEF b
      <3>4. QED
        BY <2>2, <3>2, <3>3
    <2>7. CASE buckets' = [buckets EXCEPT ![mem[w].at].objects = FALSE]
      <3>1. CASE mem[w].at \in Names
        <4> DEFINE b == [buckets[mem[w].at] EXCEPT !.objects = FALSE]
        <4>1. /\ b \in Bucket
              /\ b.exists = buckets[mem[w].at].exists /\ b.maker = buckets[mem[w].at].maker
          BY <2>2, <3>1, FieldFacts
        <4>2. buckets' = [buckets EXCEPT ![mem[w].at] = b]
          BY <2>7
        <4> HIDE DEF b
        <4>3. QED
          BY <3>1, <4>1, <4>2
      <3>2. CASE mem[w].at \notin Names
        BY <2>2, <2>7, <3>2
      <3>3. QED
        BY <3>1, <3>2
    <2>8. CASE buckets' = [buckets EXCEPT ![mem[w].at] = NoBucket]
      <3>1. CASE mem[w].at \in Names
        BY <2>8, <3>1, NoBucketFacts
      <3>2. CASE mem[w].at \notin Names
        BY <2>2, <2>8, <3>2
      <3>3. QED
        BY <3>1, <3>2
    <2>9. \/ buckets' = buckets
          \/ MakeBucket(w) /\ buckets' = [buckets EXCEPT ![s.name] =
                 [NoBucket EXCEPT !.exists = TRUE, !.maker = cur[w], !.region = s.region]]
          \/ buckets' = SetPolicy(s) /\ s.policy # ""
          \/ buckets' = SetTags(s) /\ s.tags # "nil"
          \/ buckets' = [buckets EXCEPT ![mem[w].at].objects = FALSE]
          \/ buckets' = [buckets EXCEPT ![mem[w].at] = NoBucket]
      BY <1>2 DEF CallStep, MakeBucket, CreatePolicy, CreateTags, UpdatePolicy, UpdateTags,
                  DeleteAllObjects, RemoveBucket
    <2> HIDE DEF Goal, s
    <2>10. Goal
      BY <1>1, <2>4, <2>5, <2>6, <2>7, <2>8, <2>9 DEF Goal
    <2>11. QED
      BY <2>10 DEF Goal
  <1>3. ASSUME WorkerStep(w), ~CallStep(w) PROVE buckets' = buckets
    BY <1>3 DEF WorkerStep, Step, CallStep, Observe, ObserveFails, RuntimeStep, RemoveFinalizer, Stop,
                SyncCache, StartReconcile
  <1>4. QED
    BY <1>1, <1>2, <1>3

(* Other clients make buckets for nobody.                                   *)
LEMMA ForeignFacts ==
  ASSUME BucketsOK, NEW n \in Names, ForeignClient(n)
  PROVE  \E b \in Bucket :
            /\ buckets' = [buckets EXCEPT ![n] = b]
            /\ \/ b.exists = buckets[n].exists /\ b.maker = buckets[n].maker
               \/ b.maker = NoResource
  <1>1. buckets[n] \in Bucket
    BY DEF BucketsOK
  <1>2. CASE buckets' = [buckets EXCEPT ![n] = [NoBucket EXCEPT !.exists = TRUE]]
    <2>1. [NoBucket EXCEPT !.exists = TRUE] \in Bucket /\ [NoBucket EXCEPT !.exists = TRUE].maker = NoResource
      BY NoBucketFacts DEF Bucket
    <2>2. QED
      BY <1>2, <2>1
  <1>3. CASE buckets' = [buckets EXCEPT ![n] = NoBucket]
    BY <1>3, NoBucketFacts
  <1>4. CASE buckets' = [buckets EXCEPT ![n].objects = TRUE]
    <2> DEFINE b == [buckets[n] EXCEPT !.objects = TRUE]
    <2>1. b \in Bucket /\ b.exists = buckets[n].exists /\ b.maker = buckets[n].maker
      BY <1>1 DEF Bucket
    <2>2. buckets' = [buckets EXCEPT ![n] = b]
      BY <1>4
    <2> HIDE DEF b
    <2>3. QED
      BY <2>1, <2>2
  <1>5. QED
    BY <1>2, <1>3, <1>4 DEF ForeignClient

LEMMA ConsentStep ==
  ASSUME ReconcilerInv, ReconcilerInv', BucketsOK, [Next]_vars
  PROVE  consent' \in [Resources -> SUBSET Names]
  <1>1. /\ consent \in [Resources -> SUBSET Names]
        /\ \A r \in Resources : api'[r].spec.name \in Names
    BY SpecFacts DEF BucketsOK, ReconcilerInv, ReconcilerTypeOK, Object
  <1>2. \A r \in Resources : Requested(api'[r]) \in SUBSET Names
    BY <1>1 DEF Requested
  <1>3. ASSUME NEW w \in Workers, WorkerStep(w)
        PROVE  consent' = consent \/ consent' = [consent EXCEPT ![cur[w]] = {}]
    BY <1>3 DEF WorkerStep, Step, Observe, ObserveFails, MakeBucket, CreatePolicy, CreateTags, UpdatePolicy,
                UpdateTags, DeleteAllObjects, RemoveBucket, RuntimeStep, RemoveFinalizer, Stop, SyncCache,
                StartReconcile
  <1>4. ASSUME NEW r \in Resources, UserStep(r)
        PROVE  \/ consent' = consent
               \/ consent' = [consent EXCEPT ![r] = consent[r] \cup Requested(api'[r])]
               \/ consent' = [consent EXCEPT ![r] = Requested(api'[r])]
    BY <1>4 DEF UserStep, Apply, Edit, Delete
  <1>5. ASSUME NEW r \in Resources, UserStep(r) PROVE consent' \in [Resources -> SUBSET Names]
    BY <1>1, <1>2, <1>4, <1>5
  <1>6. QED
    BY <1>1, <1>3, <1>5, NextCases, ForeignLeaves DEF vars

(* Workers rename nothing, and what users renamed stays known.              *)
LEMMA WorkerLeaves ==
  ASSUME NEW w \in Workers, WorkerStep(w)
  PROVE  left' = left
  BY DEF WorkerStep, Step, Observe, ObserveFails, MakeBucket, CreatePolicy, CreateTags, UpdatePolicy, UpdateTags,
         DeleteAllObjects, RemoveBucket, RuntimeStep, RemoveFinalizer, Stop, SyncCache, StartReconcile

LEMMA UserLeaves ==
  ASSUME ReconcilerInv, BucketsOK, NEW r \in Resources, UserStep(r)
  PROVE  /\ left' \in [Resources -> SUBSET Names]
         /\ \A q \in Resources : left[q] \subseteq left'[q]
  <1>1. left \in [Resources -> SUBSET Names] /\ api[r].spec.name \in Names
    BY SpecFacts DEF BucketsOK, ReconcilerInv, ReconcilerTypeOK, Object
  <1>2. \/ left' = left
        \/ \E s \in Specs : left' = [left EXCEPT ![r] = left[r] \cup ({api[r].spec.name} \ {s.name})]
    BY DEF UserStep, Apply, Edit, Delete
  <1>3. QED
    BY <1>1, <1>2

LEMMA LeftTypes ==
  ASSUME ReconcilerInv, BucketsOK, [Next]_vars
  PROVE  left' \in [Resources -> SUBSET Names]
  <1>1. left \in [Resources -> SUBSET Names]
    BY DEF BucketsOK
  <1>2. QED
    BY <1>1, NextCases, WorkerLeaves, UserLeaves, ForeignLeaves DEF vars

LEMMA BucketsStep ==
  ASSUME ReconcilerInv, ReconcilerInv', BucketsOK, [Next]_vars
  PROVE  BucketsOK'
  <1>1. buckets \in [Names -> Bucket] /\ \A n \in Names : ~buckets[n].exists => buckets[n].maker = NoResource
    BY DEF BucketsOK
  <1>2. ASSUME NEW n \in Names, NEW b \in Bucket, buckets' = [buckets EXCEPT ![n] = b],
               b.exists \/ b.maker = NoResource
        PROVE  /\ buckets' \in [Names -> Bucket]
               /\ \A k \in Names : ~buckets'[k].exists => buckets'[k].maker = NoResource
    BY <1>1, <1>2
  <1>3. /\ buckets' \in [Names -> Bucket]
        /\ \A k \in Names : ~buckets'[k].exists => buckets'[k].maker = NoResource
    <2>1. CASE buckets' = buckets
      BY <1>1, <2>1
    <2>2. ASSUME NEW w \in Workers, WorkerStep(w), buckets' # buckets PROVE <1>3
      <3>1. PICK n \in Names, b \in Bucket :
              /\ buckets' = [buckets EXCEPT ![n] = b]
              /\ \/ b.exists = buckets[n].exists /\ b.maker = buckets[n].maker
                 \/ b = NoBucket
                 \/ b.exists
        BY <2>2, WorkerStepBuckets
      <3>2. b.exists \/ b.maker = NoResource
        BY <1>1, <3>1, NoBucketFacts
      <3>3. QED
        BY <1>2, <3>1, <3>2
    <2>3. ASSUME NEW n \in Names, ForeignClient(n) PROVE <1>3
      <3>1. PICK b \in Bucket :
              /\ buckets' = [buckets EXCEPT ![n] = b]
              /\ \/ b.exists = buckets[n].exists /\ b.maker = buckets[n].maker
                 \/ b.maker = NoResource
        BY <2>3, ForeignFacts
      <3>2. b.exists \/ b.maker = NoResource
        BY <1>1, <3>1
      <3>3. QED
        BY <1>2, <3>1, <3>2
    <2>4. QED
      BY <2>1, <2>2, <2>3, NextCases, UserStepIsStepOfUser DEF vars
  <1>4. QED
    BY <1>3, ConsentStep, LeftTypes DEF BucketsOK

LEMMA BucketsInvariant == Spec => [](ReconcilerInv /\ BucketsOK)
  <1>1. Init => ReconcilerInv /\ BucketsOK
    BY InitInv, NoBucketFacts DEF Init, BucketsOK
  <1>2. ReconcilerInv /\ BucketsOK /\ [Next]_vars => ReconcilerInv' /\ BucketsOK'
    BY BucketStepSim, StepInv, BucketsStep
  <1>3. QED
    BY <1>1, <1>2, PTL DEF Spec

(* The types: what MinIO has of a bucket comes from a spec that got past    *)
(* the webhook, and consent names only buckets.                             *)
THEOREM BucketTypesOK == Spec => []TypeOK
  <1>1. ReconcilerInv /\ BucketsOK => TypeOK
    BY DEF ReconcilerInv, BucketsOK, TypeOK, Bucket, Regions, Policies
  <1>2. QED
    BY <1>1, BucketsInvariant, PTL

-----------------------------------------------------------------------------
(* What one replica knows of its resource's bucket.                         *)

OneReplica == \A v, w \in Workers : v = w

MakerOf(w) == buckets[mem[w].spec.name].maker

(* From the moment it saw no bucket until its Create is recorded, the       *)
(* bucket is its own or nobody's; and it lets a resource go when the bucket *)
(* is not there, or is one that somebody else made since.                   *)
KnowsBucket(w) ==
    /\ KnowsCopy(w)
    /\ pc[w] = "absent" \/ Creating(w) => MakerOf(w) \in {cur[w], NoResource}
    /\ pc[w] = "finalize" => MakerOf(w) # cur[w]

BucketsKnown ==
    /\ ReconcilerInv
    /\ BucketsOK
    /\ \A r \in Resources : Claimed(r) => api[r].finalizer
    /\ \A w \in Workers : KnowsBucket(w)

(* A worker that is about to observe leaves the API server alone.           *)
LEMMA LookingAtObserve ==
  ASSUME ReconcilerInv, NEW w \in Workers, WorkerStep(w), pc[w] = "observe"
  PROVE  /\ UNCHANGED <<api, buckets>>
         /\ pc'[w] = "observe" => UNCHANGED mem
  <1>1. pc \in [Workers -> Stages]
    BY DEF ReconcilerInv, ReconcilerTypeOK
  <1>2. ~CallStep(w) /\ ~RuntimeStep(w) /\ ~RemoveFinalizer(w)
    <2>1. ~CallStep(w)
      BY CallCases DEF ExternalCall, UpdateStages, DeleteStages
    <2>2. QED
      BY <2>1 DEF RuntimeStep, RemoveFinalizer, Writable, AddFinalizer, MarkPending, Observed, RecordCreation,
                  RecordFailure, WriteStatus, Finalize, Conflict
  <1>3. Observe(w) \/ ObserveFails(w) \/ SyncCache(w) \/ Stop(w)
    BY <1>2 DEF WorkerStep, Step, CallStep, StartReconcile, Load
  <1>4. CASE Observe(w) \/ ObserveFails(w)
    <2>1. ASSUME NEW m, AfterObserveError(w, m) PROVE api' = api /\ pc'[w] # "observe"
      BY <1>1, <2>1 DEF AfterObserveError
    <2>2. ASSUME NEW m, NEW outcome \in Observed, AfterObserve(w, m, outcome)
          PROVE  api' = api /\ pc'[w] # "observe"
      BY <1>1, <2>2 DEF AfterObserve, AfterFinalizer, Observed
    <2>3. {"absent", "upToDate", "outdated"} \subseteq Observed
      BY DEF Observed
    <2>4. buckets' = buckets
      BY <1>4 DEF Observe, ObserveFails
    <2>5. QED
      BY <1>4, <2>1, <2>2, <2>3, <2>4, ObserveCases DEF ObserveFails
  <1>5. CASE SyncCache(w)
    BY <1>5 DEF SyncCache, CacheSync
  <1>6. CASE Stop(w)
    BY <1>1, <1>6 DEF Stop, Crash, Return
  <1>7. QED
    BY <1>3, <1>4, <1>5, <1>6

(* The way into Create and to the end of a resource.                        *)
LEMMA StageFacts ==
  ASSUME ReconcilerInv, NEW w \in Workers, WorkerStep(w),
         pc'[w] \in {"absent", "finalize"} \cup CreateStages
  PROVE  /\ cur'[w] = cur[w] /\ mem'[w].spec = mem[w].spec
         /\ \/ /\ pc[w] = "observe" /\ pc'[w] \in {"absent", "finalize"}
               /\ buckets' = buckets /\ mem'[w] = mem[w] /\ ~buckets[mem[w].spec.name].exists
            \/ pc'[w] = "finalize" /\ pc[w] = "finalize" /\ buckets' = buckets /\ mem'[w] = mem[w]
            \/ pc'[w] # "finalize" /\ (pc[w] = "absent" \/ Creating(w))
  <1>1. pc \in [Workers -> Stages] /\ mem \in [Workers -> Object] /\ mem[w] \in Object /\ api \in [Resources -> Object]
    BY DEF ReconcilerInv, ReconcilerTypeOK
  <1>2. ASSUME NEW m, AfterObserveError(w, m) PROVE FALSE
    BY <1>1, <1>2 DEF AfterObserveError, CreateStages
  <1>3. ASSUME NEW m, AfterObserve(w, m, "upToDate") \/ AfterObserve(w, m, "outdated") PROVE FALSE
    BY <1>1, <1>3 DEF AfterObserve, AfterFinalizer, CreateStages
  <1>4. CASE Observe(w)
    <2>1. AfterObserve(w, mem[w], "absent") /\ ~buckets[mem[w].spec.name].exists
      BY <1>2, <1>3, <1>4, ObserveCases
    <2>2. pc[w] = "observe" /\ mem'[w] = mem[w] /\ cur' = cur /\ pc'[w] \in {"absent", "finalize"}
      BY <1>1, <2>1 DEF AfterObserve, AfterFinalizer
    <2>3. QED
      BY <1>4, <2>1, <2>2 DEF Observe
  <1>5. ~ObserveFails(w)
    BY <1>2 DEF ObserveFails
  <1>6. CASE SyncCache(w)
    BY <1>1, <1>6 DEF SyncCache, CacheSync, Creating
  <1>7. CASE CallStep(w)
    <2>1. PICK stage, ann, ready : ExternalCall(w, stage, ann, mem[w].at, ready)
      BY <1>7, CallCases
    <2>2. /\ mem' = [mem EXCEPT ![w].ann = ann, ![w].at = mem[w].at, ![w].ready = ready]
          /\ cur' = cur /\ pc'[w] # "finalize" /\ Creating(w)
      BY <1>1, <2>1 DEF ExternalCall, CreateStages, UpdateStages, DeleteStages, Creating
    <2>3. mem'[w].spec = mem[w].spec
      BY <1>1, <2>2 DEF Object
    <2>4. QED
      BY <2>2, <2>3
  <1>8. CASE RuntimeStep(w)
    <2>1. CASE AddFinalizer(w, Encode(mem[w].spec)) \/ MarkPending(w, Encode(mem[w].spec))
      <3>1. pc[w] # "idle"
        BY <2>1 DEF AddFinalizer, MarkPending, Observed
      <3>2. cur[w] \in Resources /\ mem[w].spec \in Specs /\ Encode(mem[w].spec) \in Specs
        BY <3>1, WorkerFacts, SpecFacts
      <3>3. api[cur[w]] \in Object
        BY <1>1, <3>2
      <3> DEFINE o == [api[cur[w]] EXCEPT !.finalizer = TRUE, !.spec = Encode(mem[w].spec)]
                 p == [api[cur[w]] EXCEPT !.create = "pending", !.spec = Encode(mem[w].spec)]
      <3>4. o \in Object /\ p \in Object
        BY <3>2, <3>3 DEF Object
      <3>5. \/ pc[w] \in Observed /\ ClientUpdate(w, o, AfterFinalizer(pc[w]))
            \/ pc[w] = "absent" /\ ClientUpdate(w, p, "create")
        BY <2>1 DEF AddFinalizer, MarkPending
      <3> HIDE DEF o, p
      <3>6. ASSUME NEW q \in Object, NEW stage, ClientUpdate(w, q, stage)
            PROVE  mem'[w].spec = mem[w].spec /\ cur' = cur /\ pc'[w] = stage
        <4>1. [q EXCEPT !.spec = mem[w].spec,
                        !.at = IF q.at = "" THEN mem[w].at ELSE q.at,
                        !.ready = IF q.ready = "" THEN mem[w].ready ELSE q.ready].spec = mem[w].spec
          BY DEF Object
        <4>2. QED
          BY <1>1, <3>6, <4>1 DEF ClientUpdate
      <3>7. pc[w] = "absent" /\ pc'[w] # "finalize"
        BY <3>4, <3>5, <3>6 DEF AfterFinalizer, Observed, CreateStages
      <3>8. QED
        BY <3>4, <3>5, <3>6, <3>7
    <2>2. ASSUME \/ pc[w] = "created" /\ RecordCreation(w, Encode(api[cur[w]].spec), "status")
                 \/ pc[w] = "createFailed" /\ RecordFailure(w, Encode(api[cur[w]].spec))
                 \/ WriteStatus(w) \/ Conflict(w)
          PROVE  FALSE
      BY <1>1, <2>2 DEF RecordCreation, RecordFailure, WriteStatus, Conflict, Return, CreateStages
    <2>3. QED
      BY <1>8, <2>1, <2>2 DEF RuntimeStep
  <1>9. ASSUME RemoveFinalizer(w) \/ Stop(w) \/ \E r \in Resources : StartReconcile(w, r) PROVE FALSE
    BY <1>1, <1>9 DEF RemoveFinalizer, Finalize, Return, Stop, Crash, StartReconcile, Load, CreateStages
  <1>10. QED
    BY <1>4, <1>5, <1>6, <1>7, <1>8, <1>9 DEF WorkerStep, Step, CallStep

(* The worker that takes the step.                                          *)
LEMMA BucketActor ==
  ASSUME BucketsKnown, NEW w \in Workers, WorkerStep(w)
  PROVE  KnowsBucket(w)'
  <1>1. /\ ReconcilerInv /\ BucketsOK /\ KnowsBucket(w)
        /\ buckets \in [Names -> Bucket]
        /\ \A n \in Names : ~buckets[n].exists => buckets[n].maker = NoResource
    BY DEF BucketsKnown, BucketsOK
  <1>2. KnowsCopy(w)'
    <2>1. pc[w] = "observe" /\ pc'[w] = "observe" => UNCHANGED <<api, mem>>
      BY <1>1, LookingAtObserve
    <2>2. pc[w] = "observe" /\ pc'[w] = "finalize" => mem'[w].ann = mem[w].ann /\ mem'[w].spec = mem[w].spec
      BY <1>1, StageFacts
    <2>3. QED
      BY <1>1, <2>1, <2>2, KnowsCopyStep, WorkerStepIsStepOf DEF KnowsBucket
  <1>3. ASSUME pc'[w] = "absent" \/ Creating(w)' PROVE MakerOf(w)' \in {cur'[w], NoResource}
    <2>1. /\ cur'[w] = cur[w] /\ mem'[w].spec = mem[w].spec
          /\ \/ /\ pc[w] = "observe" /\ buckets' = buckets
                /\ ~buckets[mem[w].spec.name].exists
             \/ pc[w] = "absent" \/ Creating(w)
      BY <1>1, <1>3, StageFacts DEF Creating, CreateStages
    <2>2. pc[w] # "idle"
      BY <2>1 DEF Creating, CreateStages
    <2>3. mem[w].spec.name \in Names
      BY <1>1, <2>2, WorkerFacts
    <2>4. MakerOf(w) \in {cur[w], NoResource}
      BY <1>1, <2>1, <2>3 DEF KnowsBucket, MakerOf
    <2>5. CASE buckets' = buckets
      BY <2>1, <2>4, <2>5 DEF MakerOf
    <2>6. CASE buckets' # buckets
      <3>1. PICK n \in Names, b \in Bucket :
              /\ buckets' = [buckets EXCEPT ![n] = b]
              /\ \/ b.maker = buckets[n].maker
                 \/ b = NoBucket
                 \/ n = mem[w].spec.name /\ b.maker = cur[w]
        BY <1>1, <2>6, WorkerStepBuckets
      <3>2. buckets'[mem[w].spec.name].maker \in {MakerOf(w), NoResource, cur[w]}
        BY <1>1, <2>3, <3>1, NoBucketFacts DEF MakerOf
      <3>3. QED
        BY <2>1, <2>4, <3>2 DEF MakerOf
    <2>7. QED
      BY <2>5, <2>6
  <1>4. ASSUME pc'[w] = "finalize" PROVE MakerOf(w)' # cur'[w]
    <2>1. /\ cur'[w] = cur[w] /\ mem'[w].spec = mem[w].spec /\ buckets' = buckets
          /\ \/ pc[w] = "observe" /\ ~buckets[mem[w].spec.name].exists
             \/ pc[w] = "finalize"
      BY <1>1, <1>4, StageFacts
    <2>2. mem[w].spec.name \in Names /\ cur[w] # NoResource
      BY <1>1, <2>1, WorkerFacts
    <2>3. MakerOf(w) # cur[w]
      BY <1>1, <2>1, <2>2 DEF KnowsBucket, MakerOf
    <2>4. QED
      BY <2>1, <2>3 DEF MakerOf
  <1>5. QED
    BY <1>2, <1>3, <1>4 DEF KnowsBucket

(* Users leave the buckets alone, other clients make them for nobody.       *)
LEMMA BucketAside ==
  ASSUME BucketsKnown, NEW w \in Workers,
         \/ \E r \in Resources : UserStep(r)
         \/ \E n \in Names : ForeignClient(n)
  PROVE  KnowsBucket(w)'
  <1>1. ReconcilerInv /\ BucketsOK /\ KnowsBucket(w) /\ buckets \in [Names -> Bucket]
    BY DEF BucketsKnown, BucketsOK
  <1>2. ASSUME NEW r \in Resources, UserStep(r) PROVE KnowsBucket(w)'
    <2>1. Bystander(w) /\ buckets' = buckets
      BY <1>1, <1>2, StepOfUserAside, UserStepIsStepOfUser
    <2>2. KnowsCopy(w)'
      BY <1>1, <2>1, KnowsCopyAside DEF KnowsBucket
    <2>3. QED
      BY <1>1, <2>1, <2>2 DEF KnowsBucket, MakerOf, Creating, Bystander
  <1>3. ASSUME NEW n \in Names, ForeignClient(n) PROVE KnowsBucket(w)'
    <2>1. UNCHANGED <<api, fresh, pc, cur, mem>>
      BY <1>3, ForeignLeaves
    <2>2. PICK b \in Bucket :
            /\ buckets' = [buckets EXCEPT ![n] = b]
            /\ b.maker = buckets[n].maker \/ b.maker = NoResource
      BY <1>1, <1>3, ForeignFacts
    <2>3. ASSUME pc[w] # "idle"
          PROVE  (MakerOf(w)' = MakerOf(w) \/ MakerOf(w)' = NoResource) /\ cur[w] # NoResource
      BY <1>1, <2>1, <2>2, <2>3, WorkerFacts DEF MakerOf
    <2>4. QED
      BY <1>1, <2>1, <2>3 DEF KnowsBucket, KnowsCopy, Creating, CreateStages
  <1>4. QED
    BY <1>2, <1>3

(* The lock is there only under the finalizer: only Create sets it.         *)
LEMMA LockHeldStep ==
  ASSUME BucketsKnown, [Next]_vars, NEW r \in Resources, Claimed(r)'
  PROVE  api'[r].finalizer
  <1>1. ReconcilerInv /\ SomeStep /\ (Claimed(r) => api[r].finalizer)
    BY NextIsSomeStep DEF BucketsKnown
  <1>2. api'[r].present /\ api'[r].ann = "claimed"
    BY DEF Claimed
  <1>3. ASSUME Named(r) PROVE api'[r] = api[r]
    <2>1. ASSUME NEW w \in Workers PROVE Bystander(w) \/ (pc[w] = "observe" => UNCHANGED api)
      <3>1. ASSUME NEW v \in Workers, WorkerStep(v)
            PROVE  Bystander(w) \/ (pc[w] = "observe" => UNCHANGED api)
        BY <1>1, <3>1, StepOfOther, WorkerStepIsStepOf, LookingAtObserve
      <3>2. ASSUME NEW q \in Resources, UserStep(q) PROVE Bystander(w)
        BY <1>1, <3>2, StepOfUserAside, UserStepIsStepOfUser
      <3>3. CASE (\E n \in Names : ForeignClient(n)) \/ UNCHANGED vars
        BY <3>3, ForeignLeaves DEF vars, reconcilerVars
      <3>4. QED
        BY <3>1, <3>2, <3>3, NextCases
    <2>2. QED
      BY <1>1, <1>3, <2>1, NotNamed
  <1>4. CASE api'[r] = api[r] \/ Stays(r)
    BY <1>1, <1>2, <1>4 DEF Stays, Claimed
  <1>5. CASE Recorded(r)
    BY <1>5 DEF Recorded
  <1>6. ~Finalized(r) /\ ~Dropped(r) /\ ~Applied(r)
    BY <1>2, GoneFacts DEF Finalized, Dropped, Applied
  <1>7. QED
    BY <1>1, <1>3, <1>4, <1>5, <1>6, ResourceChanges

LEMMA BucketsKnownStep ==
  ASSUME OneReplica, BucketsKnown, [Next]_vars
  PROVE  BucketsKnown'
  <1>1. ReconcilerInv' /\ BucketsOK'
    BY BucketStepSim, StepInv, BucketsStep DEF BucketsKnown
  <1>2. ASSUME NEW w \in Workers PROVE KnowsBucket(w)'
    <2>1. ASSUME NEW v \in Workers, WorkerStep(v) PROVE KnowsBucket(w)'
      BY <2>1, BucketActor DEF OneReplica
    <2>2. CASE UNCHANGED vars
      BY <2>2 DEF vars, reconcilerVars, BucketsKnown, KnowsBucket, KnowsCopy, MakerOf, Creating
    <2>3. QED
      BY <2>1, <2>2, NextCases, BucketAside
  <1>3. QED
    BY <1>1, <1>2, LockHeldStep DEF BucketsKnown, Claimed

LEMMA BucketsKnownInit == Init => BucketsKnown
  <1> SUFFICES ASSUME Init PROVE BucketsKnown
    OBVIOUS
  <1>1. ReconcilerInv /\ BucketsOK
    BY InitInv, NoBucketFacts DEF Init, BucketsOK
  <1>2. /\ \A r \in Resources : api[r] = Gone
        /\ \A w \in Workers : pc[w] = "idle"
    BY DEF Init, ReconcilerInit
  <1>3. QED
    BY <1>1, <1>2, GoneFacts DEF BucketsKnown, Claimed, KnowsBucket, KnowsCopy, Creating, CreateStages

LEMMA BucketsKnownInv == ASSUME OneReplica PROVE Spec => []BucketsKnown
  <1>1. BucketsKnown /\ [Next]_vars => BucketsKnown'
    BY BucketsKnownStep
  <1>2. QED
    BY <1>1, BucketsKnownInit, PTL DEF Spec

(* With one replica, a resource never gets the lock for a bucket that       *)
(* another resource made: "already exists" is a success of MakeBucket only  *)
(* for a bucket of its own or one that nobody here made (create.go).        *)
THEOREM BucketLockOnlyToMaker == ASSUME OneReplica PROVE Spec => LockOnlyToMaker
  <1> DEFINE A == \A r \in Resources, w \in Workers :
                    ~Claimed(r) /\ Claimed(r)' /\ Creating(w) /\ cur[w] = r =>
                       buckets[mem[w].spec.name].maker \in {r, NoResource}
  <1>1. BucketsKnown => A
    BY DEF BucketsKnown, KnowsBucket, MakerOf
  <1>2. QED
    BY <1>1, BucketsKnownInv, PTL DEF LockOnlyToMaker

-----------------------------------------------------------------------------
(* Whose bucket is left behind.                                             *)

(* A bucket was made by a resource that is held and has its name, or that   *)
(* had it before a user changed it.                                         *)
Kept(r) ==
    \A n \in Names : buckets[n].maker = r /\ n \notin left[r] =>
        api[r].present /\ api[r].finalizer /\ api[r].spec.name = n

(* The bucket that a Create is about to make will be of that kind.          *)
CreatesNamed(w) ==
    Creating(w) => mem[w].spec.name \in {api[cur[w]].spec.name} \cup left[cur[w]]

LeftInv ==
    /\ BucketsKnown
    /\ NamesInv
    /\ \A r \in Resources : Kept(r)
    /\ \A w \in Workers : CreatesNamed(w)

(* The runtime writes a spec only with the name that it has.                *)
LEMMA WorkerKeepsName ==
  ASSUME ReconcilerInv, NamesInv, NEW w \in Workers, WorkerStep(w), NEW r \in Resources
  PROVE  \/ api'[r].spec.name = api[r].spec.name
         \/ cur[w] = r /\ w \in fresh /\ pc[w] = "finalize"
  <1>1. api \in [Resources -> Object] /\ (pc[w] # "idle" => cur[w] \in Resources)
    BY DEF ReconcilerInv, ReconcilerTypeOK, BusyHasResource
  <1>2. ASSUME NEW o \in Object, Store(cur[w], o), cur[w] \in Resources, o.spec.name = api[cur[w]].spec.name
        PROVE  api'[r].spec.name = api[r].spec.name
    BY <1>1, <1>2 DEF Store
  <1>3. CASE \/ AddFinalizer(w, Encode(mem[w].spec))
             \/ MarkPending(w, Encode(mem[w].spec))
    <2> DEFINE s == Encode(mem[w].spec)
               o == [api[cur[w]] EXCEPT !.finalizer = TRUE, !.spec = s]
               p == [api[cur[w]] EXCEPT !.create = "pending", !.spec = s]
    <2>1. pc[w] # "idle" /\ w \in fresh /\ (Store(cur[w], o) \/ Store(cur[w], p))
      BY <1>3 DEF AddFinalizer, MarkPending, ClientUpdate, Observed
    <2>2. cur[w] \in Resources /\ api[cur[w]] \in Object /\ mem[w].spec \in Specs
      BY <1>1, <2>1, WorkerFacts
    <2>3. s \in Specs /\ s.name = api[cur[w]].spec.name
      BY <2>1, <2>2, SpecFacts DEF NamesInv, FreshNames
    <2> HIDE DEF s
    <2>4. /\ o \in Object /\ o.spec = s
          /\ p \in Object /\ p.spec = s
      BY <2>2, <2>3 DEF Object
    <2> HIDE DEF o, p
    <2>5. QED
      BY <1>2, <2>1, <2>2, <2>3, <2>4
  <1>4. CASE \/ RecordCreation(w, Encode(api[cur[w]].spec), "status")
             \/ RecordFailure(w, Encode(api[cur[w]].spec))
    <2> DEFINE s == Encode(api[cur[w]].spec)
               o == [api[cur[w]] EXCEPT !.create = "succeeded", !.ann = mem[w].ann, !.spec = s]
               p == [api[cur[w]] EXCEPT !.create = "failed", !.spec = s]
    <2>1. pc[w] # "idle" /\ (Store(cur[w], o) \/ Store(cur[w], p))
      BY <1>4 DEF RecordCreation, RecordFailure
    <2>2. cur[w] \in Resources /\ api[cur[w]] \in Object /\ mem[w].ann \in Anns /\ api[cur[w]].spec \in Specs
      BY <1>1, <2>1, WorkerFacts DEF Object
    <2>3. s \in Specs /\ s.name = api[cur[w]].spec.name
      BY <2>2, SpecFacts
    <2> HIDE DEF s
    <2>4. /\ o \in Object /\ o.spec = s
          /\ p \in Object /\ p.spec = s
      BY <2>2, <2>3 DEF Object
    <2> HIDE DEF o, p
    <2>5. QED
      BY <1>2, <2>1, <2>2, <2>3, <2>4
  <1>5. CASE WriteStatus(w)
    <2> DEFINE o == [api[cur[w]] EXCEPT !.ready = mem[w].ready, !.at = mem[w].at]
    <2>1. pc[w] # "idle" /\ (UNCHANGED api \/ Store(cur[w], o))
      BY <1>5 DEF WriteStatus
    <2>2. cur[w] \in Resources /\ api[cur[w]] \in Object /\ mem[w] \in Object
      BY <1>1, <2>1, WorkerFacts
    <2>3. o \in Object /\ o.spec = api[cur[w]].spec
      BY <2>2 DEF Object
    <2> HIDE DEF o
    <2>4. QED
      BY <1>2, <2>1, <2>2, <2>3
  <1>6. CASE RemoveFinalizer(w)
    <2>1. pc[w] = "finalize" /\ w \in fresh /\ Store(cur[w], Gone)
      BY <1>6 DEF RemoveFinalizer, Finalize
    <2>2. QED
      BY <1>1, <2>1 DEF Store
  <1>7. ASSUME Observe(w) \/ ObserveFails(w) \/ CallStep(w) \/ Conflict(w) \/ Stop(w) \/ SyncCache(w)
               \/ \E q \in Resources : StartReconcile(w, q)
        PROVE  api' = api
    <2>1. CASE CallStep(w)
      BY <2>1, CallCases DEF ExternalCall
    <2>2. CASE Observe(w) \/ ObserveFails(w)
      BY <2>2 DEF Observe, ObserveFails, AfterObserve, AfterObserveError
    <2>3. QED
      BY <1>7, <2>1, <2>2 DEF Conflict, Stop, Crash, SyncCache, CacheSync, StartReconcile, Load
  <1>8. QED
    BY <1>3, <1>4, <1>5, <1>6, <1>7 DEF WorkerStep, Step, CallStep, RuntimeStep

(* A resource that is held and named goes only from a finalizing worker.    *)
LEMMA HeldStays ==
  ASSUME ReconcilerInv, NamesInv, NEW w \in Workers, WorkerStep(w), OneReplica,
         NEW r \in Resources, api[r].present, api[r].finalizer
  PROVE  \/ api'[r].present /\ api'[r].finalizer /\ api'[r].spec.name = api[r].spec.name
         \/ cur[w] = r /\ w \in fresh /\ pc[w] = "finalize"
  <1>1. SomeStep
    BY WorkerStepIsStepOf DEF SomeStep
  <1>2. CASE Finalized(r)
    BY <1>2 DEF Finalized, OneReplica
  <1>3. CASE ~Finalized(r)
    BY <1>1, <1>3, ResourceChanges, WorkerKeepsName DEF Stays, Named, Recorded, Dropped, Applied
  <1>4. QED
    BY <1>2, <1>3

(* A Create begins from the latest copy.                                    *)
LEMMA CreateBegins ==
  ASSUME ReconcilerInv, NEW w \in Workers, WorkerStep(w), pc[w] = "absent", Creating(w)'
  PROVE  w \in fresh
  <1>1. pc \in [Workers -> Stages] /\ pc'[w] \in CreateStages /\ pc'[w] # "absent" /\ pc'[w] # "idle"
    BY DEF ReconcilerInv, ReconcilerTypeOK, Creating, CreateStages
  <1>2. ~CallStep(w)
    BY CallCases DEF ExternalCall, UpdateStages, DeleteStages
  <1>3. ~Observe(w) /\ ~ObserveFails(w)
    BY DEF Observe, ObserveFails, AfterObserve, AfterObserveError
  <1>4. ~RemoveFinalizer(w) /\ ~Stop(w) /\ ~SyncCache(w) /\ ~(\E r \in Resources : StartReconcile(w, r))
    BY <1>1 DEF RemoveFinalizer, Finalize, Stop, Crash, Return, SyncCache, CacheSync, StartReconcile, Load
  <1>5. RuntimeStep(w)
    BY <1>2, <1>3, <1>4 DEF WorkerStep, Step, CallStep
  <1>6. CASE \/ AddFinalizer(w, Encode(mem[w].spec)) \/ MarkPending(w, Encode(mem[w].spec))
    BY <1>6 DEF AddFinalizer, MarkPending, ClientUpdate
  <1>7. CASE WriteStatus(w) \/ Conflict(w)
    BY <1>1, <1>7 DEF WriteStatus, Conflict, Return
  <1>8. QED
    BY <1>5, <1>6, <1>7 DEF RuntimeStep

(* Nobody lets a resource go whose bucket has its name.                     *)
LEMMA FinalizeOnlyGone ==
  ASSUME BucketsKnown, NEW w \in Workers, w \in fresh, pc[w] = "finalize"
  PROVE  buckets[api[cur[w]].spec.name].maker # cur[w]
  BY DEF BucketsKnown, KnowsBucket, KnowsCopy, MakerOf

LEMMA KeptStep ==
  ASSUME OneReplica, LeftInv, NEW w \in Workers, WorkerStep(w), NEW r \in Resources
  PROVE  Kept(r)'
  <1>1. /\ ReconcilerInv /\ NamesInv /\ BucketsOK /\ Kept(r) /\ CreatesNamed(w)
        /\ buckets \in [Names -> Bucket] /\ left' = left
    BY WorkerLeaves DEF LeftInv, BucketsKnown, BucketsOK
  <1> SUFFICES ASSUME NEW n \in Names, buckets'[n].maker = r, n \notin left[r]
               PROVE  api'[r].present /\ api'[r].finalizer /\ api'[r].spec.name = n
    BY <1>1 DEF Kept
  <1>2. CASE buckets[n].maker = r
    <2>1. api[r].present /\ api[r].finalizer /\ api[r].spec.name = n
      BY <1>1, <1>2 DEF Kept
    <2>2. ~(cur[w] = r /\ w \in fresh /\ pc[w] = "finalize")
      BY <1>2, <2>1, FinalizeOnlyGone DEF LeftInv
    <2>3. QED
      BY <1>1, <2>1, <2>2, HeldStays
  <1>3. CASE buckets[n].maker # r
    <2>1. PICK k \in Names, b \in Bucket :
            /\ buckets' = [buckets EXCEPT ![k] = b]
            /\ \/ b.maker = buckets[k].maker
               \/ b = NoBucket
               \/ pc[w] = "create" /\ k = mem[w].spec.name /\ b.maker = cur[w]
      BY <1>1, <1>3, WorkerStepBuckets
    <2>2. k = n /\ b.maker = r
      BY <1>1, <1>3, <2>1
    <2>3. r # NoResource
      BY ReconcilerAssumption
    <2>4. pc[w] = "create" /\ n = mem[w].spec.name /\ cur[w] = r
      BY <1>3, <2>1, <2>2, <2>3, NoBucketFacts
    <2>5. Creating(w)
      BY <2>4 DEF Creating, CreateStages
    <2>6. api[r].present /\ api[r].finalizer /\ api[r].spec.name = n
      BY <1>1, <2>4, <2>5 DEF ReconcilerInv, CreateAnnounced, CreatesNamed
    <2>7. QED
      BY <1>1, <2>4, <2>6, HeldStays
  <1>4. QED
    BY <1>2, <1>3

LEMMA CreatesNamedStep ==
  ASSUME OneReplica, LeftInv, NEW w \in Workers, WorkerStep(w)
  PROVE  CreatesNamed(w)'
  <1>1. ReconcilerInv /\ NamesInv /\ CreatesNamed(w) /\ left' = left
    BY WorkerLeaves DEF LeftInv, BucketsKnown
  <1> SUFFICES ASSUME Creating(w)'
               PROVE  mem'[w].spec.name \in {api'[cur'[w]].spec.name} \cup left[cur'[w]]
    BY <1>1 DEF CreatesNamed
  <1>2. /\ cur'[w] = cur[w] /\ mem'[w].spec = mem[w].spec
        /\ pc[w] = "absent" \/ Creating(w)
    BY <1>1, StageFacts DEF Creating, CreateStages
  <1>3. cur[w] \in Resources /\ pc[w] # "finalize" /\ pc[w] # "idle"
    BY <1>1, <1>2, WorkerFacts DEF Creating, CreateStages
  <1>4. api'[cur[w]].spec.name = api[cur[w]].spec.name
    BY <1>1, <1>3, WorkerKeepsName
  <1>5. mem[w].spec.name \in {api[cur[w]].spec.name} \cup left[cur[w]]
    <2>1. CASE Creating(w)
      BY <1>1, <2>1 DEF CreatesNamed
    <2>2. CASE pc[w] = "absent"
      BY <1>1, <1>3, <2>2, CreateBegins DEF NamesInv, FreshNames
    <2>3. QED
      BY <1>2, <2>1, <2>2
  <1>6. QED
    BY <1>2, <1>4, <1>5

(* A user renames, which left remembers, or keeps a held resource's name.   *)
LEMMA UserRenames ==
  ASSUME ReconcilerInv, BucketsOK, NEW r \in Resources, UserStep(r), NEW q \in Resources,
         api[q].present, api[q].finalizer
  PROVE  /\ api'[q].present /\ api'[q].finalizer
         /\ api'[q].spec.name = api[q].spec.name \/ api[q].spec.name \in left'[q]
  <1>1. api \in [Resources -> Object] /\ api[q] \in Object /\ left \in [Resources -> SUBSET Names]
    BY DEF ReconcilerInv, ReconcilerTypeOK, BucketsOK
  <1>2. CASE q # r
    BY <1>1, <1>2 DEF UserStep, Apply, Edit, Delete, UserApply, UserEdit, UserDelete, UserWrite, Store
  <1>3. CASE q = r
    <2>1. ~(\E s \in Specs : Apply(r, s))
      BY <1>3 DEF Apply, UserApply
    <2>2. ASSUME NEW s \in Specs, Edit(r, s)
          PROVE  /\ api'[q].present /\ api'[q].finalizer
                 /\ api'[q].spec.name = api[q].spec.name \/ api[q].spec.name \in left'[q]
      <3>1. /\ api'[r] = [api[r] EXCEPT !.spec = s]
            /\ left' = [left EXCEPT ![r] = left[r] \cup ({api[r].spec.name} \ {s.name})]
        BY <1>1, <2>2 DEF Edit, UserEdit, UserWrite, Store
      <3>2. api'[r].present = api[r].present /\ api'[r].finalizer = api[r].finalizer /\ api'[r].spec = s
        BY <1>1, <1>3, <3>1 DEF Object
      <3>3. QED
        BY <1>1, <1>3, <3>1, <3>2
    <2>3. ASSUME Delete(r) PROVE api'[q].present /\ api'[q].finalizer /\ api'[q].spec = api[q].spec
      <3>1. api'[r] = [api[r] EXCEPT !.deleting = TRUE]
        BY <1>1, <1>3, <2>3 DEF Delete, UserDelete, UserWrite, Store
      <3>2. QED
        BY <1>1, <1>3, <3>1 DEF Object
    <2>4. QED
      BY <1>3, <2>1, <2>2, <2>3 DEF UserStep
  <1>4. QED
    BY <1>2, <1>3

LEMMA LeftAside ==
  ASSUME LeftInv, \/ \E r \in Resources : UserStep(r)
                  \/ \E n \in Names : ForeignClient(n)
  PROVE  /\ \A r \in Resources : Kept(r)'
         /\ \A w \in Workers : CreatesNamed(w)'
  <1>1. /\ ReconcilerInv /\ BucketsOK /\ buckets \in [Names -> Bucket]
        /\ \A r \in Resources : Kept(r)
        /\ \A w \in Workers : CreatesNamed(w)
    BY DEF LeftInv, BucketsKnown, BucketsOK
  <1>2. ASSUME NEW r \in Resources, UserStep(r), NEW q \in Resources PROVE Kept(q)'
    BY <1>1, <1>2, UserRenames, UserStepIsStepOfUser, UserLeaves DEF Kept
  <1>3. ASSUME NEW r \in Resources, UserStep(r), NEW w \in Workers PROVE CreatesNamed(w)'
    <2>1. Bystander(w)
      BY <1>1, <1>3, StepOfUserAside, UserStepIsStepOfUser
    <2>2. ASSUME Creating(w)
          PROVE  cur[w] \in Resources /\ api[cur[w]].present /\ api[cur[w]].finalizer
      BY <1>1, <2>2, WorkerFacts DEF Creating, CreateStages, ReconcilerInv, CreateAnnounced
    <2>3. QED
      BY <1>1, <1>3, <2>1, <2>2, UserRenames, UserLeaves DEF CreatesNamed, Bystander, Creating
  <1>4. ASSUME NEW n \in Names, ForeignClient(n), NEW q \in Resources PROVE Kept(q)'
    <2>1. PICK b \in Bucket :
            /\ buckets' = [buckets EXCEPT ![n] = b]
            /\ b.maker = buckets[n].maker \/ b.maker = NoResource
      BY <1>1, <1>4, ForeignFacts
    <2>2. q # NoResource /\ UNCHANGED <<api, left>>
      BY <1>4, ForeignLeaves, ReconcilerAssumption
    <2>3. \A k \in Names : buckets'[k].maker = q => buckets[k].maker = q
      BY <1>1, <2>1, <2>2
    <2>4. QED
      BY <1>1, <2>2, <2>3 DEF Kept
  <1>5. ASSUME NEW n \in Names, ForeignClient(n), NEW w \in Workers PROVE CreatesNamed(w)'
    BY <1>1, <1>5, ForeignLeaves DEF CreatesNamed, Creating
  <1>6. QED
    BY <1>2, <1>3, <1>4, <1>5

LEMMA LeftStep ==
  ASSUME OneReplica, LeftInv, [Next]_vars
  PROVE  LeftInv'
  <1>1. BucketsKnown' /\ NamesInv'
    BY BucketsKnownStep, NamesStep DEF LeftInv, BucketsKnown
  <1>2. (\A r \in Resources : Kept(r)') /\ (\A w \in Workers : CreatesNamed(w)')
    <2>1. ASSUME NEW w \in Workers, WorkerStep(w) PROVE <1>2
      BY <2>1, KeptStep, CreatesNamedStep DEF OneReplica
    <2>2. CASE UNCHANGED vars
      BY <2>2 DEF vars, reconcilerVars, LeftInv, Kept, CreatesNamed, Creating
    <2>3. QED
      BY <2>1, <2>2, NextCases, LeftAside
  <1>3. QED
    BY <1>1, <1>2 DEF LeftInv

LEMMA LeftInit == Init => LeftInv
  <1> SUFFICES ASSUME Init PROVE LeftInv
    OBVIOUS
  <1>1. BucketsKnown /\ NamesInv
    BY BucketsKnownInit, NamesInit
  <1>2. /\ \A n \in Names : buckets[n].maker = NoResource
        /\ \A w \in Workers : pc[w] = "idle"
    BY NoBucketFacts DEF Init, ReconcilerInit
  <1>3. QED
    BY <1>1, <1>2, ReconcilerAssumption DEF LeftInv, Kept, CreatesNamed, Creating, CreateStages

(* With one replica, a resource disappears only when every bucket it made   *)
(* is gone, whatever calls fail, crash or see a copy that lags; only one    *)
(* whose name a user changed in the spec is left behind (delete.go,         *)
(* webhook.go ValidateUpdate).                                              *)
THEOREM BucketRemovedFirst == ASSUME OneReplica PROVE Spec => DeletedMeansRemoved
  <1> DEFINE A == \A r \in Resources, n \in Names :
                    api[r].present /\ ~api'[r].present /\ buckets[n].maker = r => n \in left[r]
  <1>1. LeftInv /\ [Next]_vars => A
    <2> SUFFICES ASSUME LeftInv, [Next]_vars, NEW r \in Resources, NEW n \in Names,
                        api[r].present, ~api'[r].present, buckets[n].maker = r, n \notin left[r]
                 PROVE  FALSE
      OBVIOUS
    <2>1. ReconcilerInv /\ BucketsKnown /\ api[r].finalizer /\ api[r].spec.name = n
      BY DEF LeftInv, BucketsKnown, Kept
    <2>2. Finalized(r)
      BY <2>1, NextIsSomeStep, ResourceChanges DEF Stays, Named, Recorded, Dropped, Applied
    <2>3. PICK w \in Workers : cur[w] = r /\ w \in fresh /\ pc[w] = "finalize"
      BY <2>2 DEF Finalized
    <2>4. QED
      BY <2>1, <2>3, FinalizeOnlyGone
  <1>2. LeftInv /\ [Next]_vars => LeftInv'
    BY LeftStep
  <1>3. QED
    BY <1>1, <1>2, LeftInit, PTL DEF Spec, DeletedMeansRemoved

=============================================================================
