---------------------------- MODULE PolicyProofs ----------------------------
(***************************************************************************)
(* The Policy controller implements the managed reconciler's contract with *)
(* the API server, and what it promises about canned policies in MinIO     *)
(* when one replica runs: a Create that succeeds has made the policy, and  *)
(* a resource that holds the lock does not leave its policy behind.        *)
(***************************************************************************)
EXTENDS PolicyController, LifecycleProofs

(* What the assumptions say of a spec.                                      *)
LEMMA SpecFacts ==
  ASSUME NEW s \in Specs
  PROVE  /\ s.allow \in Buckets \cup {""}
         /\ s.raw \in DOMAIN Meaning \cup {""}
         /\ ~Empty(s) => Asked(s) \in Contents
  <1>1. s \in PolicyParameters
    BY PolicyAssumption
  <1>2. s.allow \in Buckets \cup {""} /\ s.raw \in DOMAIN Meaning \cup {""}
    BY <1>1 DEF PolicyParameters
  <1>3. QED
    BY <1>2 DEF Empty, Asked, Contents

-----------------------------------------------------------------------------
(* The types of what the controller has in MinIO.                           *)

Canned == [exists : BOOLEAN, maker : Resources \cup {NoResource},
           content : Contents \cup {""}, attached : BOOLEAN]

(* A worker that is about to add or change a policy has a policy to write:  *)
(* CreatePolicy and UpdatePolicy are reached only past the check that the   *)
(* spec gives one.                                                          *)
PolicyTypes ==
    /\ canned \in [Names -> Canned]
    /\ \A w \in Workers : pc[w] \in {"create2", "update2"} => ~Empty(mem[w].spec)

(* What Observe makes of the copy in memory.                                *)
LEMMA ObserveCases ==
  ASSUME NEW w \in Workers, Observe(w)
  PROVE  \/ AfterObserve(w, mem[w], "absent") /\ (mem[w].ann = "" \/ ~PolicyOf(w).exists)
         \/ AfterObserveError(w, mem[w])
         \/ AfterObserve(w, [mem[w] EXCEPT !.at = PolicyOf(w).content, !.ready = "Available"], "upToDate")
            /\ PolicyOf(w).exists
         \/ AfterObserve(w, [mem[w] EXCEPT !.ready = "Updating"], "outdated")
  BY Zenon DEF Observe

(* A worker at work has a resource and a copy of it.                        *)
LEMMA WorkerFacts ==
  ASSUME ReconcilerInv, NEW w \in Workers, pc[w] # "idle"
  PROVE  /\ cur[w] \in Resources /\ NameOf[cur[w]] \in Names
         /\ mem[w] \in Object /\ mem[w].spec \in Specs
         /\ api[cur[w]] \in Object /\ api[cur[w]].spec \in Specs
  <1>1. cur[w] \in Resources /\ mem[w] \in Object /\ api[cur[w]] \in Object
    BY DEF ReconcilerInv, ReconcilerTypeOK, BusyHasResource
  <1>2. QED
    BY <1>1, PolicyAssumption DEF Object

(* Observe and its errors.                                                  *)
LEMMA ObserveSim ==
  ASSUME ReconcilerInv, PolicyTypes, NEW w \in Workers, Observe(w) \/ ObserveFails(w)
  PROVE  ReconcilerNext
  <1> DEFINE m == mem[w]
  <1>1. m \in Object /\ pc[w] # "idle"
    BY DEF ReconcilerInv, ReconcilerTypeOK, Observe, ObserveFails, AfterObserveError
  <1>2. m.at \in Ats /\ m.ready \in Readiness /\ PolicyOf(w).content \in Ats
    <2>1. m.at \in Ats /\ m.ready \in Readiness
      BY <1>1 DEF Object
    <2>2. PolicyOf(w) \in Canned
      BY <1>1, WorkerFacts DEF PolicyOf, PolicyTypes
    <2>3. QED
      BY <2>1, <2>2, PolicyAssumption DEF Canned
  <1>3. /\ m = [mem[w] EXCEPT !.at = m.at, !.ready = m.ready]
        /\ [m EXCEPT !.ready = "Updating"] = [mem[w] EXCEPT !.at = m.at, !.ready = "Updating"]
    BY <1>1 DEF Object
  <1>4. MayFault
    BY FaultIsMayFault DEF Observe, ObserveFails
  <1>5. \/ AfterObserveError(w, m)
        \/ AfterObserve(w, m, "absent")
        \/ AfterObserve(w, [m EXCEPT !.at = PolicyOf(w).content, !.ready = "Available"], "upToDate")
        \/ AfterObserve(w, [m EXCEPT !.ready = "Updating"], "outdated")
    BY ObserveCases DEF ObserveFails
  <1>6. {"absent", "upToDate", "outdated"} \subseteq Observed /\ {"Available", "Updating"} \subseteq Readiness
    BY DEF Observed, Readiness
  <1> HIDE DEF m
  <1>7. CASE AfterObserveError(w, m) \/ AfterObserve(w, m, "absent")
    BY <1>2, <1>3, <1>4, <1>6, <1>7, ObservedStep
  <1>8. CASE AfterObserve(w, [m EXCEPT !.at = PolicyOf(w).content, !.ready = "Available"], "upToDate")
    BY <1>2, <1>4, <1>6, <1>8, ObservedStep DEF m
  <1>9. CASE AfterObserve(w, [m EXCEPT !.ready = "Updating"], "outdated")
    BY <1>2, <1>3, <1>4, <1>6, <1>9, ObservedStep
  <1>10. QED
    BY <1>5, <1>7, <1>8, <1>9

(* The calls of Create, Update and Delete.                                  *)
LEMMA CallSim ==
  ASSUME ReconcilerInv, NEW w \in Workers,
         \/ CheckPolicy(w) \/ CreatePolicy(w) \/ CheckUpdate(w) \/ UpdatePolicy(w) \/ RemovePolicy(w)
  PROVE  ReconcilerNext
  <1>1. mem[w].ann \in Anns /\ mem[w].at \in Ats
    BY DEF ReconcilerInv, ReconcilerTypeOK, Object
  <1>2. MayFault
    BY FaultIsMayFault DEF CheckPolicy, CreatePolicy, CheckUpdate, UpdatePolicy, RemovePolicy
  <1>3. \E stage \in Stages, ann \in Anns, at \in Ats, ready \in {mem[w].ready, "Available", "Deleting"} :
          ExternalCall(w, stage, ann, at, ready)
    <2>1. \/ \E stage \in {"create2", "createFailed", "update2", "status"} :
               ExternalCall(w, stage, mem[w].ann, mem[w].at, mem[w].ready)
          \/ ExternalCall(w, "status", mem[w].ann, mem[w].at, "Deleting")
          \/ ExternalCall(w, "created", "claimed", mem[w].at, mem[w].ready)
      BY DEF CheckPolicy, CreatePolicy, CheckUpdate, UpdatePolicy, RemovePolicy, Call
    <2>2. {"create2", "createFailed", "update2", "status", "created"} \subseteq Stages /\ "claimed" \in Anns
      BY PolicyAssumption DEF Stages, CreateStages, UpdateStages
    <2>3. QED
      BY <2>1, <2>2, <1>1
  <1>4. QED
    BY <1>2, <1>3 DEF ReconcilerNext

(* The runtime's own steps.                                                 *)
LEMMA RuntimeSim ==
  ASSUME ReconcilerInv, NEW w \in Workers, RuntimeStep(w)
  PROVE  ReconcilerNext
  <1>1. mem[w].spec \in Specs
    BY DEF ReconcilerInv, ReconcilerTypeOK, Object
  <1>2. pc[w] # "idle" => api[cur[w]].spec \in Specs
    BY WorkerFacts
  <1>3. \/ \E s \in Specs : \/ AddFinalizer(w, s) \/ MarkPending(w, s)
                            \/ \E stage \in {"publish", "status"} : RecordCreation(w, s, stage)
                            \/ RecordFailure(w, s)
        \/ WriteStatus(w) \/ Finalize(w) \/ Conflict(w)
    BY <1>1, <1>2 DEF RuntimeStep
  <1>4. QED
    BY <1>3 DEF ReconcilerNext

(* Every step of the controller is a step of the reconciler or none.        *)
LEMMA PolicyStepSim ==
  ReconcilerInv /\ PolicyTypes /\ [Next]_vars => [ReconcilerNext]_reconcilerVars
  <1> SUFFICES ASSUME ReconcilerInv, PolicyTypes, [Next]_vars PROVE [ReconcilerNext]_reconcilerVars
    OBVIOUS
  <1>1. ASSUME NEW w \in Workers, Step(w) \/ ObserveFails(w) PROVE ReconcilerNext
    BY <1>1, ObserveSim, CallSim, RuntimeSim DEF Step
  <1>2. ASSUME NEW w \in Workers, \/ Stop(w) \/ SyncCache(w)
                                  \/ \E r \in Resources : StartReconcile(w, r)
        PROVE  ReconcilerNext
    BY <1>2 DEF Stop, SyncCache, StartReconcile, ReconcilerNext
  <1>3. ASSUME NEW r \in Resources, \/ Delete(r)
                                    \/ \E s \in Specs : Apply(r, s) \/ Edit(r, s)
        PROVE  ReconcilerNext
    BY <1>3 DEF Delete, Apply, Edit, ReconcilerNext
  <1>4. ASSUME NEW n \in Names, ForeignClient(n) PROVE ReconcilerNext
    BY <1>4 DEF ForeignClient, ReconcilerNext
  <1>5. ASSUME UNCHANGED vars PROVE UNCHANGED reconcilerVars
    BY <1>5 DEF vars
  <1>6. QED
    BY <1>1, <1>2, <1>3, <1>4, <1>5 DEF Next

(* The reconciler's inductive invariant, and the types, hold together: that *)
(* a policy written has a content rests on the stages, and the stages on    *)
(* the types of what Observe saw.                                           *)

WorkerStep(w) ==
    \/ Step(w) \/ ObserveFails(w) \/ Stop(w) \/ SyncCache(w)
    \/ \E r \in Resources : StartReconcile(w, r)

UserStep(r) == Delete(r) \/ \E s \in Specs : Apply(r, s) \/ Edit(r, s)

LEMMA NextCases ==
  ASSUME [Next]_vars
  PROVE  \/ \E w \in Workers : WorkerStep(w)
         \/ \E r \in Resources : UserStep(r)
         \/ \E n \in Names : ForeignClient(n)
         \/ UNCHANGED vars
  BY DEF Next, WorkerStep, UserStep

LEMMA WorkerStepIsStepOf ==
  ASSUME NEW w \in Workers, WorkerStep(w)
  PROVE  StepOf(w)
  <1>1. CASE Observe(w) \/ ObserveFails(w)
    BY <1>1, ObserveCases DEF ObserveFails, StepOf
  <1>2. CASE CheckPolicy(w) \/ CreatePolicy(w) \/ CheckUpdate(w) \/ UpdatePolicy(w) \/ RemovePolicy(w)
    BY <1>2 DEF CheckPolicy, CreatePolicy, CheckUpdate, UpdatePolicy, RemovePolicy, Call, StepOf
  <1>3. CASE RuntimeStep(w)
    BY <1>3 DEF RuntimeStep, StepOf
  <1>4. CASE Stop(w) \/ SyncCache(w) \/ \E r \in Resources : StartReconcile(w, r)
    BY <1>4 DEF Stop, SyncCache, StartReconcile, StepOf
  <1>5. QED
    BY <1>1, <1>2, <1>3, <1>4 DEF WorkerStep, Step

LEMMA UserStepIsStepOfUser ==
  ASSUME NEW r \in Resources, UserStep(r)
  PROVE  StepOfUser(r) /\ canned' = canned
  BY DEF UserStep, Delete, Apply, Edit, StepOfUser

LEMMA NextIsSomeStep ==
  ASSUME [Next]_vars
  PROVE  SomeStep
  BY NextCases, WorkerStepIsStepOf, UserStepIsStepOfUser DEF ForeignClient, vars, reconcilerVars, SomeStep

(* The two stages in which a worker writes a policy are reached only by the *)
(* checks before them.                                                      *)
LEMMA WritingStages ==
  ASSUME ReconcilerInv, NEW w \in Workers, WorkerStep(w), pc'[w] \in {"create2", "update2"}
  PROVE  \/ SyncCache(w)
         \/ CheckPolicy(w) /\ pc'[w] = "create2" /\ ~PolicyOf(w).exists /\ ~Empty(mem[w].spec)
         \/ CheckUpdate(w) /\ pc'[w] = "update2" /\ ~Empty(mem[w].spec)
  <1>1. pc \in [Workers -> Stages]
    BY DEF ReconcilerInv, ReconcilerTypeOK
  <1>2. ASSUME Observe(w) \/ ObserveFails(w) PROVE FALSE
    <2>1. ASSUME NEW m, AfterObserveError(w, m) PROVE FALSE
      BY <1>1, <2>1 DEF AfterObserveError
    <2>2. ASSUME NEW m, NEW outcome \in Observed, AfterObserve(w, m, outcome) PROVE FALSE
      BY <1>1, <2>2 DEF AfterObserve, AfterFinalizer, Observed
    <2>3. {"absent", "upToDate", "outdated"} \subseteq Observed
      BY DEF Observed
    <2>4. QED
      BY <1>2, <2>1, <2>2, <2>3, ObserveCases DEF ObserveFails
  <1>3. ASSUME \/ CreatePolicy(w) \/ UpdatePolicy(w) \/ RemovePolicy(w)
        PROVE  FALSE
    BY <1>1, <1>3 DEF CreatePolicy, UpdatePolicy, RemovePolicy, Call, ExternalCall
  <1>4. ASSUME RuntimeStep(w) PROVE FALSE
    BY <1>1, <1>4 DEF RuntimeStep, AddFinalizer, MarkPending, ClientUpdate, AfterFinalizer, Observed,
                      RecordCreation, RecordFailure, WriteStatus, Finalize, Conflict, Return
  <1>5. ASSUME Stop(w) \/ \E r \in Resources : StartReconcile(w, r) PROVE FALSE
    BY <1>1, <1>5 DEF Stop, Crash, Return, StartReconcile, Load
  <1>6. CASE CheckPolicy(w)
    BY <1>1, <1>6 DEF CheckPolicy, Call, ExternalCall
  <1>7. CASE CheckUpdate(w)
    BY <1>1, <1>7 DEF CheckUpdate, Call, ExternalCall
  <1>8. QED
    BY <1>2, <1>3, <1>4, <1>5, <1>6, <1>7 DEF WorkerStep, Step

(* AddCannedPolicy.                                                         *)
LEMMA AddFacts ==
  ASSUME ReconcilerInv, PolicyTypes, NEW w \in Workers, pc[w] \in {"create2", "update2"}
  PROVE  LET n == NameOf[cur[w]]
         IN  /\ n \in Names
             /\ Add(w) \in [Names -> Canned]
             /\ Add(w)[n].exists
             /\ Add(w)[n].maker = IF canned[n].exists THEN canned[n].maker ELSE cur[w]
             /\ \A q \in Names : q # n => Add(w)[q] = canned[q]
  <1> DEFINE n == NameOf[cur[w]]
             p == [canned[n] EXCEPT !.exists = TRUE, !.content = Asked(mem[w].spec),
                                    !.maker = IF canned[n].exists THEN @ ELSE cur[w]]
  <1>1. n \in Names /\ cur[w] \in Resources /\ mem[w].spec \in Specs /\ ~Empty(mem[w].spec)
    BY WorkerFacts DEF PolicyTypes
  <1>2. Asked(mem[w].spec) \in Contents /\ canned[n] \in Canned
    BY <1>1, SpecFacts DEF PolicyTypes
  <1>3. /\ p \in Canned /\ p.exists
        /\ p.maker = IF canned[n].exists THEN canned[n].maker ELSE cur[w]
    BY <1>1, <1>2 DEF Canned
  <1>4. Add(w) = [canned EXCEPT ![n] = p]
    BY DEF Add, PolicyOf
  <1> HIDE DEF p
  <1>5. QED
    BY <1>1, <1>3, <1>4 DEF PolicyTypes

(* What the controller's steps do to the canned policies.                   *)
LEMMA WorkerStepCanned ==
  ASSUME NEW w \in Workers, WorkerStep(w)
  PROVE  \/ canned' = canned
         \/ pc[w] \in {"create2", "update2"} /\ canned' = Add(w)
         \/ pc[w] = "delete" /\ canned' = [canned EXCEPT ![NameOf[cur[w]]] = NoPolicy]
  BY DEF WorkerStep, Step, Observe, ObserveFails, CheckPolicy, CreatePolicy, CheckUpdate, UpdatePolicy,
         RemovePolicy, RuntimeStep, Stop, SyncCache, StartReconcile

LEMMA NoPolicyFacts ==
  NoPolicy \in Canned /\ ~NoPolicy.exists /\ NoPolicy.maker = NoResource
  BY DEF NoPolicy, Canned

(* What other clients do to one.                                            *)
LEMMA ForeignFacts ==
  ASSUME PolicyTypes, NEW n \in Names, ForeignClient(n)
  PROVE  \E p \in Canned :
            /\ canned' = [canned EXCEPT ![n] = p]
            /\ \/ p.exists = canned[n].exists /\ p.maker = canned[n].maker
               \/ p = NoPolicy
               \/ p.exists /\ ~canned[n].exists /\ p.maker = MakerOf(n)
  <1>1. canned[n] \in Canned
    BY DEF PolicyTypes
  <1>2. MakerOf(n) \in Resources \cup {NoResource}
    BY DEF MakerOf, Adding
  <1>3. "foreign" \in Contents
    BY DEF Contents
  <1>4. CASE canned' = [canned EXCEPT ![n] = [NoPolicy EXCEPT !.exists = TRUE, !.maker = MakerOf(n),
                                                              !.content = "foreign"]]
             /\ ~canned[n].exists
    <2> DEFINE p == [NoPolicy EXCEPT !.exists = TRUE, !.maker = MakerOf(n), !.content = "foreign"]
    <2>1. p \in Canned /\ p.exists /\ p.maker = MakerOf(n)
      BY <1>2, <1>3 DEF NoPolicy, Canned
    <2> HIDE DEF p
    <2>2. QED
      BY <1>4, <2>1 DEF p
  <1>5. CASE canned' = [canned EXCEPT ![n] = NoPolicy]
    BY <1>5, NoPolicyFacts
  <1>6. CASE canned' = [canned EXCEPT ![n].content = "foreign"]
    <2> DEFINE p == [canned[n] EXCEPT !.content = "foreign"]
    <2>1. p \in Canned /\ p.exists = canned[n].exists /\ p.maker = canned[n].maker
      BY <1>1, <1>3 DEF Canned
    <2>2. canned' = [canned EXCEPT ![n] = p]
      BY <1>6
    <2> HIDE DEF p
    <2>3. QED
      BY <2>1, <2>2
  <1>7. CASE canned' = [canned EXCEPT ![n].attached = ~@]
    <2> DEFINE p == [canned[n] EXCEPT !.attached = ~@]
    <2>1. p \in Canned /\ p.exists = canned[n].exists /\ p.maker = canned[n].maker
      BY <1>1 DEF Canned
    <2>2. canned' = [canned EXCEPT ![n] = p]
      BY <1>7
    <2> HIDE DEF p
    <2>3. QED
      BY <2>1, <2>2
  <1>8. QED
    BY <1>4, <1>5, <1>6, <1>7 DEF ForeignClient

LEMMA PolicyTypesStep ==
  ASSUME ReconcilerInv, PolicyTypes, [Next]_vars
  PROVE  PolicyTypes'
  <1>1. canned' \in [Names -> Canned]
    <2>1. ASSUME NEW w \in Workers, WorkerStep(w) PROVE <1>1
      BY <2>1, WorkerStepCanned, AddFacts, NoPolicyFacts DEF PolicyTypes
    <2>2. ASSUME NEW n \in Names, ForeignClient(n) PROVE <1>1
      BY <2>2, ForeignFacts DEF PolicyTypes
    <2>3. QED
      BY <2>1, <2>2, NextCases, UserStepIsStepOfUser DEF PolicyTypes, vars
  <1>2. ASSUME NEW v \in Workers, pc'[v] \in {"create2", "update2"} PROVE ~Empty(mem'[v].spec)
    <2>1. CASE pc'[v] = pc[v] /\ mem'[v] = mem[v]
      BY <1>2, <2>1 DEF PolicyTypes
    <2>2. CASE WorkerStep(v)
      <3>1. CASE SyncCache(v)
        BY <2>1, <3>1 DEF SyncCache, CacheSync
      <3>2. CASE (CheckPolicy(v) \/ CheckUpdate(v)) /\ ~Empty(mem[v].spec)
        <4>1. mem[v] \in Object /\ mem \in [Workers -> Object]
          BY DEF ReconcilerInv, ReconcilerTypeOK
        <4>2. mem' = [mem EXCEPT ![v].ann = mem[v].ann, ![v].at = mem[v].at, ![v].ready = mem[v].ready]
          BY <3>2 DEF CheckPolicy, CheckUpdate, Call, ExternalCall
        <4>3. mem'[v].spec = mem[v].spec
          BY <4>1, <4>2 DEF Object
        <4>4. QED
          BY <3>2, <4>3
      <3>3. QED
        BY <1>2, <2>2, <3>1, <3>2, WritingStages
    <2>3. ASSUME NEW w \in Workers, w # v, WorkerStep(w) PROVE ~Empty(mem'[v].spec)
      BY <2>1, <2>3, StepOfOther, WorkerStepIsStepOf DEF Bystander
    <2>4. ASSUME NEW r \in Resources, UserStep(r) PROVE ~Empty(mem'[v].spec)
      BY <2>1, <2>4, StepOfUserAside, UserStepIsStepOfUser DEF Bystander
    <2>5. CASE (\E n \in Names : ForeignClient(n)) \/ UNCHANGED vars
      BY <2>1, <2>5 DEF ForeignClient, vars, reconcilerVars
    <2>6. QED
      BY <2>2, <2>3, <2>4, <2>5, NextCases
  <1>3. QED
    BY <1>1, <1>2 DEF PolicyTypes

LEMMA PolicyInv == Spec => [](ReconcilerInv /\ PolicyTypes)
  <1>1. Init => ReconcilerInv /\ PolicyTypes
    <2>1. Init => canned \in [Names -> Canned]
      BY NoPolicyFacts DEF Init
    <2>2. Init => \A w \in Workers : pc[w] = "idle"
      BY DEF Init, ReconcilerInit
    <2>3. QED
      BY <2>1, <2>2, InitInv DEF Init, PolicyTypes
  <1>2. ReconcilerInv /\ PolicyTypes /\ [Next]_vars => ReconcilerInv' /\ PolicyTypes'
    BY PolicyStepSim, StepInv, PolicyTypesStep
  <1>3. QED
    BY <1>1, <1>2, PTL DEF Spec

(* The types, and that a worker about to write a policy has one to write,   *)
(* rest on each other.                                                      *)
THEOREM PolicyTypesOK == Spec => []TypeOK
  <1>1. ReconcilerInv /\ PolicyTypes => TypeOK
    BY DEF ReconcilerInv, PolicyTypes, TypeOK, Canned
  <1>2. QED
    BY <1>1, PolicyInv, PTL

(* The Policy controller, whatever it does to MinIO, is a managed           *)
(* reconciler to the API server (operator/policy/setup.go).                 *)
THEOREM PolicyImplementsReconciler == Spec => ReconcilerSpec
  <1>1. Init => ReconcilerInit
    BY DEF Init
  <1>2. QED
    BY <1>1, PolicyInv, PolicyStepSim, PTL DEF Spec, ReconcilerSpec

(* So Policies live as Lifecycle says: none begins to be created before it  *)
(* is held or after it is deleted, and none disappears while its creation   *)
(* is under way.                                                            *)
THEOREM PolicyImplementsLifecycle == Spec => LifecycleSpec
  <1>1. QED
    BY PolicyImplementsReconciler, ReconcilerImplementsLifecycle

(* However many replicas of the provider run, at most one is between the    *)
(* announcement and the record of a Policy's Create.                        *)
THEOREM PolicyOneCreate == Spec => []OneCreateInFlight
  <1>1. ReconcilerInv => OneCreateInFlight
    BY DEF ReconcilerInv
  <1>2. QED
    BY <1>1, PolicyInv, PTL

-----------------------------------------------------------------------------
(* What one replica knows of its resource's policy.                         *)

OneReplica == \A v, w \in Workers : v = w

(* While it is about to add a policy, one that exists counts as its own;    *)
(* and a resource with the lock goes when its policy is not there, or is    *)
(* one that somebody else made since.                                       *)
KnowsPolicy(w) ==
    /\ KnowsCopy(w)
    /\ pc[w] = "create2" /\ PolicyOf(w).exists => PolicyOf(w).maker = cur[w]
    /\ pc[w] = "finalize" /\ mem[w].ann = "claimed" => PolicyOf(w).maker # cur[w]

PoliciesKnown ==
    /\ ReconcilerInv
    /\ PolicyTypes
    /\ \A n \in Names : ~canned[n].exists => canned[n].maker = NoResource
    /\ \A r \in Resources : Claimed(r) => api[r].finalizer
    /\ \A w \in Workers : KnowsPolicy(w)

(* A worker that is about to observe leaves the API server alone.           *)
LEMMA LookingAtObserve ==
  ASSUME NEW w \in Workers, WorkerStep(w), pc[w] = "observe"
  PROVE  /\ UNCHANGED <<api, canned>>
         /\ Observe(w) \/ ObserveFails(w) \/ SyncCache(w) \/ Stop(w)
  <1>1. ~RuntimeStep(w)
    BY DEF RuntimeStep, AddFinalizer, MarkPending, Observed, RecordCreation, RecordFailure, WriteStatus,
           Finalize, Conflict
  <1>2. Observe(w) \/ ObserveFails(w) \/ SyncCache(w) \/ Stop(w)
    BY <1>1 DEF WorkerStep, Step, CheckPolicy, CreatePolicy, CheckUpdate, UpdatePolicy, RemovePolicy,
                StartReconcile, Load
  <1>3. Observe(w) \/ ObserveFails(w) => UNCHANGED <<api, canned>>
    <2>1. \A m : AfterObserveError(w, m) => UNCHANGED api
      BY DEF AfterObserveError
    <2>2. \A m, outcome : AfterObserve(w, m, outcome) => UNCHANGED api
      BY DEF AfterObserve
    <2>3. Observe(w) \/ ObserveFails(w) => canned' = canned
      BY DEF Observe, ObserveFails
    <2>4. QED
      BY <2>1, <2>2, <2>3, ObserveCases DEF ObserveFails
  <1>4. SyncCache(w) \/ Stop(w) => UNCHANGED <<api, canned>>
    BY DEF SyncCache, CacheSync, Stop, Crash
  <1>5. QED
    BY <1>2, <1>3, <1>4

(* What it saw when it lets the resource go.                                *)
LEMMA FinalizeStage ==
  ASSUME ReconcilerInv, NEW w \in Workers, WorkerStep(w), pc'[w] = "finalize"
  PROVE  /\ cur'[w] = cur[w] /\ canned' = canned
         /\ \/ pc[w] = "finalize" /\ mem'[w] = mem[w]
            \/ /\ pc[w] = "observe"
               /\ mem'[w].ann = mem[w].ann /\ mem'[w].spec = mem[w].spec
               /\ mem[w].ann = "" \/ ~PolicyOf(w).exists
  <1>1. /\ pc \in [Workers -> Stages] /\ mem \in [Workers -> Object]
    BY DEF ReconcilerInv, ReconcilerTypeOK
  <1>2. ASSUME NEW m, AfterObserveError(w, m) PROVE FALSE
    BY <1>1, <1>2 DEF AfterObserveError
  <1>3. ASSUME NEW m, AfterObserve(w, m, "upToDate") \/ AfterObserve(w, m, "outdated") PROVE FALSE
    BY <1>1, <1>3 DEF AfterObserve, AfterFinalizer
  <1>4. CASE Observe(w)
    <2>1. AfterObserve(w, mem[w], "absent") /\ (mem[w].ann = "" \/ ~PolicyOf(w).exists)
      BY <1>2, <1>3, <1>4, ObserveCases
    <2>2. pc[w] = "observe" /\ mem'[w] = mem[w] /\ cur' = cur
      BY <1>1, <2>1 DEF AfterObserve
    <2>3. QED
      BY <1>4, <2>1, <2>2 DEF Observe
  <1>5. ~ObserveFails(w)
    BY <1>2 DEF ObserveFails
  <1>6. CASE SyncCache(w)
    <2>1. UNCHANGED <<pc, cur, mem, canned>>
      BY <1>6 DEF SyncCache, CacheSync
    <2>2. pc[w] = "finalize" /\ mem'[w] = mem[w]
      BY <2>1
    <2>3. QED
      BY <2>1, <2>2
  <1>7. ASSUME \/ CheckPolicy(w) \/ CreatePolicy(w) \/ CheckUpdate(w) \/ UpdatePolicy(w)
               \/ RemovePolicy(w)
        PROVE  FALSE
    BY <1>1, <1>7 DEF CheckPolicy, CreatePolicy, CheckUpdate, UpdatePolicy, RemovePolicy, Call, ExternalCall,
                      CreateStages
  <1>8. ASSUME RuntimeStep(w) \/ Stop(w) \/ \E r \in Resources : StartReconcile(w, r) PROVE FALSE
    BY <1>1, <1>8 DEF RuntimeStep, AddFinalizer, MarkPending, ClientUpdate, AfterFinalizer, Observed,
                      RecordCreation, RecordFailure, WriteStatus, Finalize, Conflict, Return, Stop, Crash,
                      StartReconcile, Load
  <1>9. QED
    BY <1>4, <1>5, <1>6, <1>7, <1>8 DEF WorkerStep, Step

(* The worker that takes the step.                                          *)
LEMMA PolicyActor ==
  ASSUME PoliciesKnown, NEW w \in Workers, WorkerStep(w)
  PROVE  KnowsPolicy(w)'
  <1>1. ReconcilerInv /\ PolicyTypes /\ KnowsPolicy(w)
    BY DEF PoliciesKnown
  <1>2. KnowsCopy(w)'
    <2>1. pc[w] = "observe" /\ pc'[w] = "observe" => UNCHANGED <<api, mem>>
      <3>1. pc \in [Workers -> Stages]
        BY <1>1 DEF ReconcilerInv, ReconcilerTypeOK
      <3>2. ASSUME pc'[w] = "observe", NEW m, AfterObserveError(w, m) PROVE FALSE
        BY <3>1, <3>2 DEF AfterObserveError
      <3>3. ASSUME pc'[w] = "observe", NEW m, NEW outcome \in Observed, AfterObserve(w, m, outcome) PROVE FALSE
        BY <3>1, <3>3 DEF AfterObserve, AfterFinalizer, Observed
      <3>4. {"absent", "upToDate", "outdated"} \subseteq Observed
        BY DEF Observed
      <3>5. pc'[w] = "observe" => ~Observe(w) /\ ~ObserveFails(w)
        BY <3>2, <3>3, <3>4, ObserveCases DEF ObserveFails
      <3>6. pc'[w] = "observe" => ~Stop(w)
        BY <3>1 DEF Stop, Crash, Return
      <3>7. SyncCache(w) => UNCHANGED <<api, mem>>
        BY DEF SyncCache, CacheSync
      <3>8. QED
        BY <3>5, <3>6, <3>7, LookingAtObserve
    <2>2. QED
      BY <1>1, <2>1, FinalizeStage, KnowsCopyStep, WorkerStepIsStepOf DEF KnowsPolicy
  <1>3. ASSUME pc'[w] = "create2" PROVE PolicyOf(w)'.exists => PolicyOf(w)'.maker = cur'[w]
    <2>1. CASE SyncCache(w)
      BY <1>1, <1>3, <2>1 DEF SyncCache, CacheSync, KnowsPolicy, PolicyOf
    <2>2. CASE CheckPolicy(w) /\ ~PolicyOf(w).exists
      BY <2>2 DEF CheckPolicy, Call, ExternalCall, PolicyOf
    <2>3. QED
      BY <1>1, <1>3, <2>1, <2>2, WritingStages
  <1>4. ASSUME pc'[w] = "finalize", mem'[w].ann = "claimed" PROVE PolicyOf(w)'.maker # cur'[w]
    <2>1. /\ cur'[w] = cur[w] /\ canned' = canned
          /\ \/ pc[w] = "finalize" /\ mem'[w] = mem[w]
             \/ /\ pc[w] = "observe"
                /\ mem'[w].ann = mem[w].ann
                /\ mem[w].ann = "" \/ ~PolicyOf(w).exists
      BY <1>1, <1>4, FinalizeStage
    <2>2. CASE pc[w] = "finalize" /\ mem'[w] = mem[w]
      BY <1>1, <1>4, <2>1, <2>2 DEF KnowsPolicy, PolicyOf
    <2>3. CASE pc[w] = "observe" /\ ~PolicyOf(w).exists
      <3>1. cur[w] \in Resources /\ NameOf[cur[w]] \in Names
        BY <1>1, <2>3, WorkerFacts
      <3>2. PolicyOf(w).maker # cur[w]
        BY <2>3, <3>1, ReconcilerAssumption DEF PoliciesKnown, PolicyOf
      <3>3. QED
        BY <2>1, <3>2 DEF PolicyOf
    <2>4. QED
      BY <1>4, <2>1, <2>2, <2>3
  <1>5. QED
    BY <1>2, <1>3, <1>4 DEF KnowsPolicy

(* What other clients make while the only worker is not adding a policy is  *)
(* nobody's.                                                                *)
LEMMA PolicyAside ==
  ASSUME OneReplica, PoliciesKnown, NEW w \in Workers,
         \/ \E r \in Resources : UserStep(r)
         \/ \E n \in Names : ForeignClient(n)
  PROVE  KnowsPolicy(w)'
  <1>1. ReconcilerInv /\ PolicyTypes /\ KnowsPolicy(w)
    BY DEF PoliciesKnown
  <1>2. ASSUME NEW r \in Resources, UserStep(r) PROVE KnowsPolicy(w)'
    <2>1. Bystander(w) /\ canned' = canned
      BY <1>1, <1>2, StepOfUserAside, UserStepIsStepOfUser
    <2>2. QED
      BY <1>1, <2>1, KnowsCopyAside DEF KnowsPolicy, Bystander, PolicyOf
  <1>3. ASSUME NEW n \in Names, ForeignClient(n) PROVE KnowsPolicy(w)'
    <2>1. UNCHANGED <<api, fresh, pc, cur, mem>>
      BY <1>3 DEF ForeignClient
    <2>2. PICK p \in Canned :
            /\ canned' = [canned EXCEPT ![n] = p]
            /\ \/ p.exists = canned[n].exists /\ p.maker = canned[n].maker
               \/ p = NoPolicy
               \/ p.exists /\ ~canned[n].exists /\ p.maker = MakerOf(n)
      BY <1>1, <1>3, ForeignFacts
    <2>3. ASSUME pc[w] \in {"create2", "finalize"} PROVE cur[w] \in Resources /\ NameOf[cur[w]] \in Names
      BY <1>1, <2>3, WorkerFacts
    <2>4. ASSUME pc[w] = "create2", PolicyOf(w)'.exists PROVE PolicyOf(w)'.maker = cur'[w]
      <3>1. CASE NameOf[cur[w]] = n
        <4>1. Adding(n) = {cur[w]}
          BY <2>3, <2>4, <3>1 DEF Adding, OneReplica
        <4>2. MakerOf(n) = cur[w]
          BY <4>1 DEF MakerOf
        <4>3. PolicyOf(w)' = p
          BY <2>1, <2>2, <3>1 DEF PolicyOf, PolicyTypes, PoliciesKnown
        <4>4. canned[n].exists => canned[n].maker = cur[w]
          BY <1>1, <2>4, <3>1 DEF KnowsPolicy, PolicyOf
        <4>5. QED
          BY <2>1, <2>2, <2>4, <4>2, <4>3, <4>4, NoPolicyFacts
      <3>2. CASE NameOf[cur[w]] # n
        <4>1. PolicyOf(w)' = PolicyOf(w)
          BY <1>1, <2>1, <2>2, <2>3, <2>4, <3>2 DEF PolicyOf, PolicyTypes
        <4>2. QED
          BY <1>1, <2>1, <2>4, <4>1 DEF KnowsPolicy
      <3>3. QED
        BY <3>1, <3>2
    <2>5. ASSUME pc[w] = "finalize", mem[w].ann = "claimed" PROVE PolicyOf(w)'.maker # cur'[w]
      <3>1. CASE NameOf[cur[w]] = n
        <4>1. Adding(n) = {}
          BY <2>5 DEF Adding, OneReplica
        <4>2. MakerOf(n) = NoResource
          BY <4>1 DEF MakerOf
        <4>3. PolicyOf(w)' = p
          BY <2>1, <2>2, <3>1 DEF PolicyOf, PolicyTypes, PoliciesKnown
        <4>4. canned[n].maker # cur[w]
          BY <1>1, <2>5, <3>1 DEF KnowsPolicy, PolicyOf
        <4>5. cur[w] # NoResource
          BY <2>3, <2>5, ReconcilerAssumption
        <4>6. QED
          BY <2>1, <2>2, <4>2, <4>3, <4>4, <4>5, NoPolicyFacts
      <3>2. CASE NameOf[cur[w]] # n
        <4>1. PolicyOf(w)' = PolicyOf(w)
          BY <1>1, <2>1, <2>2, <2>3, <2>5, <3>2 DEF PolicyOf, PolicyTypes
        <4>2. QED
          BY <1>1, <2>1, <2>5, <4>1 DEF KnowsPolicy
      <3>3. QED
        BY <3>1, <3>2
    <2>6. QED
      BY <1>1, <2>1, <2>4, <2>5 DEF KnowsPolicy, KnowsCopy
  <1>4. QED
    BY <1>2, <1>3

(* A policy that is not there is nobody's.                                  *)
LEMMA NobodysStep ==
  ASSUME PoliciesKnown, [Next]_vars, NEW n \in Names, ~canned'[n].exists
  PROVE  canned'[n].maker = NoResource
  <1>1. ReconcilerInv /\ PolicyTypes /\ (~canned[n].exists => canned[n].maker = NoResource)
    BY DEF PoliciesKnown
  <1>2. ASSUME NEW w \in Workers, WorkerStep(w) PROVE canned'[n].maker = NoResource
    <2>1. CASE canned' = canned
      BY <1>1, <2>1
    <2>2. CASE pc[w] \in {"create2", "update2"} /\ canned' = Add(w)
      BY <1>1, <2>2, AddFacts
    <2>3. CASE canned' = [canned EXCEPT ![NameOf[cur[w]]] = NoPolicy]
      BY <1>1, <2>3, NoPolicyFacts DEF PolicyTypes
    <2>4. QED
      BY <1>2, <2>1, <2>2, <2>3, WorkerStepCanned
  <1>3. ASSUME NEW q \in Names, ForeignClient(q) PROVE canned'[n].maker = NoResource
    <2>1. PICK p \in Canned :
            /\ canned' = [canned EXCEPT ![q] = p]
            /\ \/ p.exists = canned[q].exists /\ p.maker = canned[q].maker
               \/ p = NoPolicy
               \/ p.exists
      BY <1>1, <1>3, ForeignFacts
    <2>2. QED
      BY <1>1, <2>1, NoPolicyFacts DEF PolicyTypes
  <1>4. QED
    BY <1>1, <1>2, <1>3, NextCases, UserStepIsStepOfUser DEF vars

(* The lock is there only under the finalizer: only Create sets it.         *)
LEMMA LockHeldStep ==
  ASSUME PoliciesKnown, [Next]_vars, NEW r \in Resources, Claimed(r)'
  PROVE  api'[r].finalizer
  <1>1. ReconcilerInv /\ SomeStep /\ (Claimed(r) => api[r].finalizer)
    BY NextIsSomeStep DEF PoliciesKnown
  <1>2. api'[r].present /\ api'[r].ann = "claimed"
    BY DEF Claimed
  <1>3. ASSUME Named(r) PROVE api'[r] = api[r]
    <2>1. \A w \in Workers : \/ Bystander(w)
                             \/ pc[w] = "observe" /\ pc'[w] = "observe" => UNCHANGED api
      <3> SUFFICES ASSUME NEW w \in Workers
                   PROVE  Bystander(w) \/ (pc[w] = "observe" => UNCHANGED api)
        OBVIOUS
      <3>1. ASSUME NEW v \in Workers, WorkerStep(v)
            PROVE  Bystander(w) \/ (pc[w] = "observe" => UNCHANGED api)
        BY <1>1, <3>1, StepOfOther, WorkerStepIsStepOf, LookingAtObserve
      <3>2. ASSUME NEW q \in Resources, UserStep(q) PROVE Bystander(w)
        BY <1>1, <3>2, StepOfUserAside, UserStepIsStepOfUser
      <3>3. CASE (\E n \in Names : ForeignClient(n)) \/ UNCHANGED vars
        BY <3>3 DEF ForeignClient, vars, reconcilerVars
      <3>4. QED
        BY <3>1, <3>2, <3>3, NextCases
    <2>2. QED
      BY <1>1, <1>3, <2>1, NotNamed
  <1>4. CASE api'[r] = api[r] \/ Stays(r)
    BY <1>1, <1>2, <1>4 DEF Stays, Claimed
  <1>5. CASE Recorded(r)
    BY <1>5 DEF Recorded
  <1>6. ~Finalized(r) /\ ~Dropped(r) /\ ~Applied(r)
    BY <1>2, GoneFacts DEF Finalized, Dropped, Applied
  <1>7. QED
    BY <1>1, <1>3, <1>4, <1>5, <1>6, ResourceChanges

LEMMA PoliciesKnownStep ==
  ASSUME OneReplica, PoliciesKnown, [Next]_vars
  PROVE  PoliciesKnown'
  <1>1. ReconcilerInv' /\ PolicyTypes'
    BY PolicyStepSim, StepInv, PolicyTypesStep DEF PoliciesKnown
  <1>2. ASSUME NEW w \in Workers PROVE KnowsPolicy(w)'
    <2>1. ASSUME NEW v \in Workers, WorkerStep(v) PROVE KnowsPolicy(w)'
      BY <2>1, PolicyActor DEF OneReplica
    <2>2. CASE UNCHANGED vars
      BY <2>2 DEF vars, reconcilerVars, PoliciesKnown, KnowsPolicy, KnowsCopy, PolicyOf
    <2>3. QED
      BY <2>1, <2>2, NextCases, PolicyAside
  <1>3. QED
    BY <1>1, <1>2, NobodysStep, LockHeldStep DEF PoliciesKnown, Claimed

LEMMA PoliciesKnownInv == ASSUME OneReplica PROVE Spec => []PoliciesKnown
  <1>1. Init => PoliciesKnown
    <2> SUFFICES ASSUME Init PROVE PoliciesKnown
      OBVIOUS
    <2>1. ReconcilerInv
      BY InitInv DEF Init
    <2>2. \A n \in Names : canned[n] = NoPolicy
      BY DEF Init
    <2>3. \A r \in Resources : api[r] = Gone
      BY DEF Init, ReconcilerInit
    <2>4. \A w \in Workers : pc[w] = "idle"
      BY DEF Init, ReconcilerInit
    <2>5. PolicyTypes
      BY <2>4, NoPolicyFacts DEF Init, PolicyTypes
    <2>6. QED
      BY <2>1, <2>2, <2>3, <2>4, <2>5, NoPolicyFacts, GoneFacts DEF PoliciesKnown, Claimed, KnowsPolicy, KnowsCopy
  <1>2. PoliciesKnown /\ [Next]_vars => PoliciesKnown'
    BY PoliciesKnownStep
  <1>3. QED
    BY <1>1, <1>2, PTL DEF Spec

(* With one replica, a Create that succeeds has made the policy itself,     *)
(* whoever else makes, replaces or removes policies between its check and   *)
(* AddCannedPolicy (create.go).                                             *)
THEOREM PolicyClaimsOwn == ASSUME OneReplica PROVE Spec => ClaimsOwnPolicy
  <1> DEFINE A == \A w \in Workers : pc[w] # "created" /\ pc'[w] = "created" =>
                     canned'[NameOf[cur[w]]].maker = cur[w]
  <1>1. PoliciesKnown /\ [Next]_vars => A
    <2> SUFFICES ASSUME PoliciesKnown, [Next]_vars, NEW w \in Workers,
                        pc[w] # "created", pc'[w] = "created"
                 PROVE  canned'[NameOf[cur[w]]].maker = cur[w]
      OBVIOUS
    <2>1. ReconcilerInv /\ PolicyTypes /\ KnowsPolicy(w) /\ pc \in [Workers -> Stages]
      BY DEF PoliciesKnown, ReconcilerInv, ReconcilerTypeOK
    <2>2. WorkerStep(w)
      <3>1. ASSUME Bystander(w) PROVE FALSE
        BY <3>1 DEF Bystander
      <3>2. ASSUME (\E n \in Names : ForeignClient(n)) \/ UNCHANGED vars PROVE FALSE
        BY <3>2 DEF ForeignClient, vars, reconcilerVars
      <3>3. QED
        BY <2>1, <3>1, <3>2, NextCases, StepOfOther, StepOfUserAside, WorkerStepIsStepOf, UserStepIsStepOfUser
    <2>3. ASSUME Observe(w) \/ ObserveFails(w) PROVE FALSE
      <3>1. ASSUME NEW m, AfterObserveError(w, m) PROVE FALSE
        BY <2>1, <3>1 DEF AfterObserveError
      <3>2. ASSUME NEW m, NEW outcome \in Observed, AfterObserve(w, m, outcome) PROVE FALSE
        BY <2>1, <3>2 DEF AfterObserve, AfterFinalizer, Observed
      <3>3. {"absent", "upToDate", "outdated"} \subseteq Observed
        BY DEF Observed
      <3>4. QED
        BY <2>3, <3>1, <3>2, <3>3, ObserveCases DEF ObserveFails
    <2>4. ASSUME \/ CheckPolicy(w) \/ CheckUpdate(w) \/ UpdatePolicy(w) \/ RemovePolicy(w) PROVE FALSE
      BY <2>1, <2>4 DEF CheckPolicy, CheckUpdate, UpdatePolicy, RemovePolicy, Call, ExternalCall
    <2>5. ASSUME RuntimeStep(w) PROVE FALSE
      BY <2>1, <2>5 DEF RuntimeStep, AddFinalizer, MarkPending, ClientUpdate, AfterFinalizer, Observed,
                        RecordCreation, RecordFailure, WriteStatus, Finalize, Conflict, Return
    <2>6. ASSUME Stop(w) \/ SyncCache(w) \/ \E r \in Resources : StartReconcile(w, r) PROVE FALSE
      BY <2>1, <2>6 DEF Stop, Crash, Return, SyncCache, CacheSync, StartReconcile, Load
    <2>7. CreatePolicy(w)
      BY <2>2, <2>3, <2>4, <2>5, <2>6 DEF WorkerStep, Step
    <2>8. pc[w] = "create2" /\ canned' = Add(w)
      BY <2>1, <2>7 DEF CreatePolicy, Call, ExternalCall
    <2>9. canned[NameOf[cur[w]]].exists => canned[NameOf[cur[w]]].maker = cur[w]
      BY <2>1, <2>8 DEF KnowsPolicy, PolicyOf
    <2>10. QED
      BY <2>1, <2>8, <2>9, AddFacts
  <1>2. QED
    BY <1>1, PoliciesKnownInv, PTL DEF Spec, ClaimsOwnPolicy

(* With one replica, a resource that holds the lock disappears only after   *)
(* its policy: the copy that was finalized is the latest, so its lock is    *)
(* the resource's, and Observe saw no policy (delete.go, observer.go).      *)
THEOREM PolicyLeavesFirst == ASSUME OneReplica PROVE Spec => PolicyGoesFirst
  <1> DEFINE A == \A r \in Resources : Claimed(r) /\ ~api'[r].present => Policy(r).maker # r
  <1>1. PoliciesKnown /\ [Next]_vars => A
    <2> SUFFICES ASSUME PoliciesKnown, [Next]_vars, NEW r \in Resources, Claimed(r), ~api'[r].present
                 PROVE  Policy(r).maker # r
      OBVIOUS
    <2>1. api[r].present /\ api[r].ann = "claimed" /\ api[r].finalizer /\ ReconcilerInv
      BY DEF PoliciesKnown, Claimed
    <2>2. Finalized(r)
      BY <2>1, NextIsSomeStep, ResourceChanges DEF Stays, Named, Recorded, Dropped, Applied
    <2>3. PICK w \in Workers : cur[w] = r /\ w \in fresh /\ pc[w] = "finalize"
      BY <2>2 DEF Finalized
    <2>4. mem[w].ann = "claimed"
      BY <2>1, <2>3 DEF PoliciesKnown, KnowsPolicy, KnowsCopy
    <2>5. QED
      BY <2>3, <2>4 DEF PoliciesKnown, KnowsPolicy, PolicyOf, Policy
  <1>2. QED
    BY <1>1, PoliciesKnownInv, PTL DEF Spec, PolicyGoesFirst

=============================================================================
