-------------------------- MODULE NotificationProofs --------------------------
(***************************************************************************)
(* The NotificationConfiguration controller implements the managed         *)
(* reconciler's contract with the API server, and what it promises about   *)
(* the configurations of buckets: with any number of replicas no entry is  *)
(* there twice and none of others is taken away unseen; with one replica   *)
(* a resource's entry goes before it.                                      *)
(***************************************************************************)
EXTENDS NotificationController, LifecycleProofs, FiniteSetTheorems, SequenceTheorems, WellFoundedInduction

-----------------------------------------------------------------------------
(* Sequences: what Select and RemoveAt return.                              *)

(* A set of natural numbers has a least one.                                *)
LEMMA LeastNatural ==
  ASSUME NEW T \in SUBSET Nat, T # {}
  PROVE  \E m \in T : \A x \in T : m <= x
  <1> DEFINE R == {ss \in Nat \X Nat : ss[1] < ss[2]}
  <1>1. OpToRel(<, Nat) = R
    BY Zenon DEF OpToRel
  <1>2. IsWellFoundedOn(R, Nat)
    BY <1>1, NatLessThanWellFounded, Zenon
  <1>3. PICK m \in T : \A y \in T : ~ (<<y, m>> \in R)
    <2> HIDE DEF R
    <2>1. QED
      BY <1>2, WFMin
  <1>4. \A y \in T : ~ (y < m)
    <2> SUFFICES ASSUME NEW y \in T, y < m PROVE FALSE
      OBVIOUS
    <2>1. <<y, m>> \in Nat \X Nat /\ <<y, m>>[1] < <<y, m>>[2]
      OBVIOUS
    <2>2. <<y, m>> \in R
      BY <2>1
    <2>3. QED
      BY <1>3, <2>2
  <1>5. QED
    BY <1>4

(* How many of the positions in K are not behind i.                         *)
Rank(K, i) == Cardinality({j \in K : j <= i})

LEMMA RankType ==
  ASSUME NEW n \in Nat, NEW K \in SUBSET (1..n), NEW i
  PROVE  /\ IsFiniteSet(K) /\ Cardinality(K) \in Nat
         /\ IsFiniteSet({j \in K : j <= i})
         /\ Rank(K, i) \in Nat /\ Rank(K, i) <= Cardinality(K)
  <1>1. IsFiniteSet(1..n)
    BY FS_Interval
  <1>2. IsFiniteSet(K)
    BY <1>1, FS_Subset
  <1>3. {j \in K : j <= i} \in SUBSET K
    OBVIOUS
  <1>4. /\ IsFiniteSet({j \in K : j <= i})
        /\ Cardinality({j \in K : j <= i}) <= Cardinality(K)
    BY <1>2, <1>3, FS_Subset
  <1>5. QED
    BY <1>2, <1>4, FS_CardinalityType DEF Rank

(* A position further on has more of them before it.                        *)
LEMMA RankGrows ==
  ASSUME NEW n \in Nat, NEW K \in SUBSET (1..n), NEW i \in K, NEW j \in K, i < j
  PROVE  Rank(K, i) < Rank(K, j)
  <1> DEFINE I == {k \in K : k <= i}
             J == {k \in K : k <= j}
  <1>1. IsFiniteSet(J) /\ Cardinality(I) \in Nat /\ Cardinality(J) \in Nat
    BY RankType DEF Rank
  <1>2. I \in SUBSET J /\ I # J
    <2>1. \A k \in K : k \in Nat
      OBVIOUS
    <2>2. \A k \in I : k \in J
      BY <2>1
    <2>3. j \in J /\ j \notin I
      BY <2>1
    <2>4. QED
      BY <2>2, <2>3
  <1> HIDE DEF I, J
  <1>3. Cardinality(I) <= Cardinality(J) /\ Cardinality(I) # Cardinality(J)
    BY <1>1, <1>2, FS_Subset
  <1>4. Cardinality(I) < Cardinality(J)
    BY <1>1, <1>3
  <1>5. QED
    BY <1>4 DEF Rank, I, J

(* Every number up to the number of positions is one's rank: look at the    *)
(* first position with at least that many.                                  *)
LEMMA RankOnto ==
  ASSUME NEW n \in Nat, NEW K \in SUBSET (1..n), NEW k \in 1..Cardinality(K)
  PROVE  \E i \in K : Rank(K, i) = k
  <1> DEFINE T == {i \in 0..n : Rank(K, i) >= k}
  <1>0. \A j \in K : j \in Nat /\ 1 <= j /\ j <= n
    OBVIOUS
  <1>1. Cardinality(K) \in Nat /\ \A i : Rank(K, i) \in Nat
    BY RankType
  <1>2. T \in SUBSET Nat /\ n \in T
    <2>1. {j \in K : j <= n} = K
      BY <1>0
    <2>2. Rank(K, n) = Cardinality(K)
      BY <2>1 DEF Rank
    <2>3. QED
      BY <1>1, <2>2
  <1>3. PICK m \in T : \A x \in T : m <= x
    <2> HIDE DEF T
    <2>1. QED
      BY <1>2, LeastNatural
  <1>4. m # 0
    <2>1. {j \in K : j <= 0} = {}
      <3>1. \A j \in K : ~ (j <= 0)
        BY <1>0
      <3>2. QED
        BY <3>1
    <2>2. Rank(K, 0) = 0
      BY <2>1, FS_EmptySet DEF Rank
    <2>3. Rank(K, m) >= k /\ k >= 1
      BY <1>3
    <2>4. QED
      BY <2>2, <2>3
  <1>5. m \in 1..n /\ m - 1 \in 0..n /\ Rank(K, m) >= k /\ ~ (Rank(K, m - 1) >= k)
    BY <1>3, <1>4
  <1>6. m \in K /\ Rank(K, m) = Rank(K, m - 1) + 1
    <2>1. IsFiniteSet({j \in K : j <= m - 1}) /\ m \notin {j \in K : j <= m - 1}
      <3>1. IsFiniteSet({j \in K : j <= m - 1})
        BY RankType
      <3>2. ~ (m <= m - 1)
        BY <1>5
      <3>3. QED
        BY <3>1, <3>2
    <2>2. CASE m \in K
      <3>1. {j \in K : j <= m} = {j \in K : j <= m - 1} \cup {m}
        <4>1. \A j \in K : j <= m <=> j <= m - 1 \/ j = m
          BY <1>0, <1>5
        <4>2. QED
          BY <2>2, <4>1
      <3>2. QED
        BY <2>1, <2>2, <3>1, FS_AddElement DEF Rank
    <2>3. CASE m \notin K
      <3>1. {j \in K : j <= m} = {j \in K : j <= m - 1}
        <4>1. \A j \in K : j <= m <=> j <= m - 1 \/ j = m
          BY <1>0, <1>5
        <4>2. QED
          BY <2>3, <4>1
      <3>2. QED
        BY <1>5, <3>1 DEF Rank
    <2>4. QED
      BY <2>2, <2>3
  <1>7. QED
    BY <1>1, <1>5, <1>6

(* The position that the k-th entry of Select comes from.                   *)
Origin(K, k) == CHOOSE i \in K : Rank(K, i) = k

LEMMA OriginFacts ==
  ASSUME NEW n \in Nat, NEW K \in SUBSET (1..n), NEW k \in 1..Cardinality(K)
  PROVE  Origin(K, k) \in K /\ Rank(K, Origin(K, k)) = k
  BY RankOnto DEF Origin

(* Select keeps the entries at the positions, and only those, each once.    *)
LEMMA SelectFacts ==
  ASSUME NEW S, NEW q \in Seq(S), NEW K \in SUBSET (DOMAIN q)
  PROVE  /\ Select(q, K) \in Seq(S)
         /\ DOMAIN Select(q, K) = 1..Cardinality(K)
         /\ \A k \in DOMAIN Select(q, K) : Origin(K, k) \in K /\ Select(q, K)[k] = q[Origin(K, k)]
         /\ \A j, k \in DOMAIN Select(q, K) : Origin(K, j) = Origin(K, k) => j = k
         /\ \A i \in K : \E k \in DOMAIN Select(q, K) : Select(q, K)[k] = q[i]
  <1>1. Len(q) \in Nat /\ DOMAIN q = 1..Len(q) /\ K \in SUBSET (1..Len(q))
    OBVIOUS
  <1>2. Cardinality(K) \in Nat
    BY <1>1, RankType
  <1>3. Select(q, K) = [k \in 1..Cardinality(K) |-> q[Origin(K, k)]]
    BY DEF Select, Origin, Rank
  <1>4. \A k \in 1..Cardinality(K) : Origin(K, k) \in K /\ Rank(K, Origin(K, k)) = k
    BY <1>1, OriginFacts
  <1>5. \A k \in 1..Cardinality(K) : q[Origin(K, k)] \in S
    BY <1>1, <1>4
  <1>6. Select(q, K) \in Seq(S)
    BY <1>2, <1>3, <1>5
  <1>7. \A i \in K : Rank(K, i) \in 1..Cardinality(K) /\ Origin(K, Rank(K, i)) = i
    <2> SUFFICES ASSUME NEW i \in K PROVE Rank(K, i) \in 1..Cardinality(K) /\ Origin(K, Rank(K, i)) = i
      OBVIOUS
    <2>1. Rank(K, i) \in Nat /\ Rank(K, i) <= Cardinality(K) /\ IsFiniteSet({j \in K : j <= i})
      BY <1>1, RankType
    <2>2. Rank(K, i) # 0
      <3>1. i \in {j \in K : j <= i}
        BY <1>1
      <3>2. QED
        BY <2>1, <3>1, FS_EmptySet DEF Rank
    <2>3. Rank(K, i) \in 1..Cardinality(K)
      BY <1>2, <2>1, <2>2
    <2> DEFINE h == Origin(K, Rank(K, i))
    <2>4. h \in K /\ Rank(K, h) = Rank(K, i)
      BY <1>4, <2>3
    <2> HIDE DEF h
    <2>5. ~ (h < i) /\ ~ (i < h)
      <3>1. h < i => Rank(K, h) < Rank(K, i)
        BY <1>1, <2>4, RankGrows
      <3>2. i < h => Rank(K, i) < Rank(K, h)
        BY <1>1, <2>4, RankGrows
      <3>3. QED
        BY <2>1, <2>4, <3>1, <3>2
    <2>6. h = i
      BY <1>1, <2>4, <2>5
    <2>7. QED
      BY <2>3, <2>6 DEF h
  <1>8. DOMAIN Select(q, K) = 1..Cardinality(K)
    BY <1>3
  <1>9. \A k \in 1..Cardinality(K) : Select(q, K)[k] = q[Origin(K, k)]
    BY <1>3
  <1>10. \A i \in K : \E k \in DOMAIN Select(q, K) : Select(q, K)[k] = q[i]
    BY <1>7, <1>8, <1>9
  <1>11. QED
    BY <1>4, <1>6, <1>8, <1>9, <1>10

(* RemoveAt takes one entry out.                                            *)
LEMMA RemoveAtFacts ==
  ASSUME NEW S, NEW q \in Seq(S), NEW i \in DOMAIN q
  PROVE  /\ RemoveAt(q, i) \in Seq(S)
         /\ DOMAIN RemoveAt(q, i) = 1..(Len(q) - 1)
         /\ \A k \in DOMAIN RemoveAt(q, i) : RemoveAt(q, i)[k] = IF k < i THEN q[k] ELSE q[k + 1]
  <1> DEFINE a == SubSeq(q, 1, i-1)  b == SubSeq(q, i+1, Len(q))
  <1>1. Len(q) \in Nat /\ i \in 1..Len(q)
    OBVIOUS
  <1>2. a \in Seq(S) /\ Len(a) = i-1 /\ \A k \in 1..(i-1) : a[k] = q[k]
    BY <1>1
  <1>3. b \in Seq(S) /\ Len(b) = Len(q)-i /\ \A k \in 1..(Len(q)-i) : b[k] = q[i+k]
    BY <1>1
  <1> HIDE DEF a, b
  <1>4. a \o b \in Seq(S) /\ Len(a \o b) = Len(q) - 1
    BY <1>1, <1>2, <1>3
  <1>5. ASSUME NEW k \in 1..Len(q)-1 PROVE (a \o b)[k] = IF k < i THEN q[k] ELSE q[k + 1]
    <2>1. CASE k < i
      <3>1. (a \o b)[k] = a[k]
        BY <1>1, <1>2, <1>3, <2>1
      <3>2. QED
        BY <1>1, <1>2, <2>1, <3>1
    <2>2. CASE ~(k < i)
      <3> DEFINE h == k - (i-1)
      <3>1. h \in 1..(Len(q)-i) /\ i + h = k + 1
        BY <1>1, <2>2
      <3>2. k \in 1..(Len(a) + Len(b)) /\ ~(k <= Len(a)) /\ k - Len(a) = h
        BY <1>1, <1>2, <1>3, <2>2
      <3>3. (a \o b)[k] = b[h]
        BY <1>2, <1>3, <3>2, ConcatProperties
      <3> HIDE DEF h
      <3>4. b[h] = q[i + h]
        BY <1>3, <3>1
      <3>5. QED
        BY <2>2, <3>1, <3>3, <3>4
    <2>3. QED
      BY <2>1, <2>2
  <1>6. RemoveAt(q,i) = a \o b
    BY DEF RemoveAt, a, b
  <1>7. DOMAIN (a \o b) = 1..(Len(q)-1)
    BY <1>4
  <1>8. QED
    BY <1>4, <1>5, <1>6, <1>7

-----------------------------------------------------------------------------
(* Refinement of the managed reconciler.                                    *)

(* What Observe makes of the copy in memory.                                *)
LEMMA ObserveCases ==
  ASSUME NEW w \in Workers, Observe(w)
  PROVE  \/ /\ AfterObserve(w, [mem[w] EXCEPT !.ready = "Creating"], "absent")
            /\ FindWebhookConfiguration(mem[w].spec, BucketOf(w).entries) = <<>>
         \/ \E ready \in {"Available", "Creating"}, outcome \in {"upToDate", "outdated"} :
              AfterObserve(w, [mem[w] EXCEPT !.at = mem[w].spec.id, !.ready = ready], outcome)
  <1> DEFINE m == mem[w]
             found == FindWebhookConfiguration(m.spec, buckets[m.spec.bucket].entries)
             seen == [m EXCEPT !.at = m.spec.id]
  <1>1. /\ [seen EXCEPT !.ready = "Available"] = [m EXCEPT !.at = m.spec.id, !.ready = "Available"]
        /\ [seen EXCEPT !.ready = "Creating"] = [m EXCEPT !.at = m.spec.id, !.ready = "Creating"]
    OBVIOUS
  <1>2. found = FindWebhookConfiguration(mem[w].spec, BucketOf(w).entries)
    BY DEF BucketOf
  <1>3. \/ AfterObserve(w, [m EXCEPT !.ready = "Creating"], "absent") /\ found = <<>>
        \/ AfterObserve(w, [seen EXCEPT !.ready = "Available"], "upToDate")
        \/ AfterObserve(w, [seen EXCEPT !.ready = "Creating"], "outdated")
    BY Zenon DEF Observe
  <1>4. QED
    BY <1>1, <1>2, <1>3

(* A worker at work has a resource and a copy of it.                        *)
LEMMA WorkerFacts ==
  ASSUME ReconcilerInv, NEW w \in Workers, pc[w] # "idle"
  PROVE  /\ cur[w] \in Resources /\ mem[w].present
         /\ mem[w] \in Object /\ mem[w].spec \in Specs
         /\ api[cur[w]] \in Object /\ api[cur[w]].spec \in Specs
  <1>1. cur[w] \in Resources /\ mem[w] \in Object /\ api[cur[w]] \in Object /\ mem[w].present
    BY DEF ReconcilerInv, ReconcilerTypeOK, BusyHasResource
  <1>2. QED
    BY <1>1 DEF Object

(* What the assumptions say of a spec.                                      *)
LEMMA SpecFacts ==
  ASSUME NEW s \in Specs
  PROVE  /\ s.bucket \in Names \cup {""} /\ s.hook \in BOOLEAN
         /\ s.id \in Ids \cup {""} /\ s.id \in Ats /\ s.endpoint \in Endpoints \cup {""}
         /\ s.events \in EventLists /\ s.filter \in Filters
  <1>1. s \in NotificationParameters
    BY NotificationAssumption
  <1>2. QED
    BY <1>1, NotificationAssumption DEF NotificationParameters

(* Observe and its errors.                                                  *)
LEMMA ObserveSim ==
  ASSUME ReconcilerInv, NEW w \in Workers, Observe(w) \/ ObserveFails(w)
  PROVE  ReconcilerNext
  <1> DEFINE m == mem[w]
  <1>1. m \in Object /\ pc[w] # "idle"
    BY DEF ReconcilerInv, ReconcilerTypeOK, Observe, ObserveFails, AfterObserveError
  <1>2. m.at \in Ats /\ m.ready \in Readiness /\ m.spec.id \in Ats
    BY <1>1, WorkerFacts, SpecFacts DEF Object
  <1>3. /\ m = [mem[w] EXCEPT !.at = m.at, !.ready = m.ready]
        /\ [m EXCEPT !.ready = "Creating"] = [mem[w] EXCEPT !.at = m.at, !.ready = "Creating"]
    BY <1>1 DEF Object
  <1>4. MayFault
    BY FaultIsMayFault DEF Observe, ObserveFails
  <1>5. \/ AfterObserveError(w, m)
        \/ AfterObserve(w, [m EXCEPT !.ready = "Creating"], "absent")
        \/ \E ready \in {"Available", "Creating"}, outcome \in {"upToDate", "outdated"} :
             AfterObserve(w, [m EXCEPT !.at = m.spec.id, !.ready = ready], outcome)
    BY ObserveCases DEF ObserveFails
  <1>6. {"absent", "upToDate", "outdated"} \subseteq Observed /\ {"Available", "Creating"} \subseteq Readiness
    BY DEF Observed, Readiness
  <1> HIDE DEF m
  <1>7. CASE AfterObserveError(w, m)
    BY <1>2, <1>3, <1>4, <1>7, ObservedStep
  <1>8. CASE AfterObserve(w, [m EXCEPT !.ready = "Creating"], "absent")
    BY <1>2, <1>3, <1>4, <1>6, <1>8, ObservedStep
  <1>9. ASSUME NEW ready \in {"Available", "Creating"}, NEW outcome \in {"upToDate", "outdated"},
               AfterObserve(w, [m EXCEPT !.at = m.spec.id, !.ready = ready], outcome)
        PROVE  ReconcilerNext
    BY <1>2, <1>4, <1>6, <1>9, ObservedStep DEF m
  <1>10. QED
    BY <1>5, <1>7, <1>8, <1>9

(* The calls of Create, Update and Delete.                                  *)
CallStep(w) ==
    \/ GetForCreate(w) \/ SetForCreate(w)
    \/ GetForUpdate(w) \/ SetForUpdate(w)
    \/ GetForDelete(w) \/ SetForDelete(w)

LEMMA CallCases ==
  ASSUME NEW w \in Workers, CallStep(w)
  PROVE  /\ faults' = faults \/ \E k : Fault(k)
         /\ \E stage \in {"create2", "created", "createFailed", "update2", "delete2", "status"},
               ready \in {mem[w].ready, "Available", "Deleting"} :
              ExternalCall(w, stage, mem[w].ann, mem[w].at, ready)
  BY DEF CallStep, GetForCreate, SetForCreate, GetForUpdate, SetForUpdate, GetForDelete, SetForDelete,
         Call, Deleting

LEMMA CallSim ==
  ASSUME ReconcilerInv, NEW w \in Workers, CallStep(w)
  PROVE  ReconcilerNext
  <1>1. mem[w].ann \in Anns /\ mem[w].at \in Ats
    BY DEF ReconcilerInv, ReconcilerTypeOK, Object
  <1>2. MayFault
    BY CallCases, FaultIsMayFault
  <1>3. {"create2", "created", "createFailed", "update2", "delete2", "status"} \subseteq Stages
    BY DEF Stages, CreateStages, UpdateStages, DeleteStages
  <1>4. \E stage \in Stages, ann \in Anns, at \in Ats, ready \in {mem[w].ready, "Available", "Deleting"} :
          ExternalCall(w, stage, ann, at, ready)
    BY <1>1, <1>3, CallCases
  <1>5. QED
    BY <1>2, <1>4 DEF ReconcilerNext

(* The runtime's own steps.                                                 *)
LEMMA RuntimeSim ==
  ASSUME ReconcilerInv, NEW w \in Workers, RuntimeStep(w)
  PROVE  ReconcilerNext
  <1>1. mem[w].spec \in Specs
    BY DEF ReconcilerInv, ReconcilerTypeOK, Object
  <1>2. pc[w] # "idle" => api[cur[w]].spec \in Specs
    BY WorkerFacts
  <1>3. \/ \E s \in Specs : \/ AddFinalizer(w, s) \/ MarkPending(w, s)
                            \/ \E stage \in {"publish", "status"} : RecordCreation(w, s, stage)
                            \/ RecordFailure(w, s)
        \/ WriteStatus(w) \/ Finalize(w) \/ Conflict(w)
    BY <1>1, <1>2 DEF RuntimeStep
  <1>4. QED
    BY <1>3 DEF ReconcilerNext

(* Every step of the controller is a step of the reconciler or none.        *)
LEMMA NotificationStepSim ==
  ReconcilerInv /\ [Next]_vars => [ReconcilerNext]_reconcilerVars
  <1> SUFFICES ASSUME ReconcilerInv, [Next]_vars PROVE [ReconcilerNext]_reconcilerVars
    OBVIOUS
  <1>1. ASSUME NEW w \in Workers, Step(w) \/ ObserveFails(w) PROVE ReconcilerNext
    BY <1>1, ObserveSim, CallSim, RuntimeSim DEF Step, CallStep
  <1>2. ASSUME NEW w \in Workers, \/ Stop(w) \/ SyncCache(w)
                                  \/ \E r \in Resources : StartReconcile(w, r)
        PROVE  ReconcilerNext
    BY <1>2 DEF Stop, SyncCache, StartReconcile, ReconcilerNext
  <1>3. ASSUME NEW r \in Resources, \/ Delete(r)
                                    \/ \E s \in Specs : Apply(r, s) \/ Edit(r, s)
        PROVE  ReconcilerNext
    BY <1>3 DEF Delete, Apply, Edit, ReconcilerNext
  <1>4. ASSUME NEW n \in Names, ForeignClient(n) PROVE ReconcilerNext
    BY <1>4 DEF ForeignClient, ReconcilerNext
  <1>5. ASSUME UNCHANGED vars PROVE UNCHANGED reconcilerVars
    BY <1>5 DEF vars
  <1>6. QED
    BY <1>1, <1>2, <1>3, <1>4, <1>5 DEF Next

LEMMA NotificationReconcilerInv == Spec => []ReconcilerInv
  <1>1. Init => ReconcilerInv
    BY InitInv DEF Init
  <1>2. ReconcilerInv /\ [Next]_vars => ReconcilerInv'
    BY NotificationStepSim, StepInv
  <1>3. QED
    BY <1>1, <1>2, PTL DEF Spec

(* The NotificationConfiguration controller, whatever it does to MinIO, is  *)
(* a managed reconciler to the API server                                   *)
(* (operator/notificationconfiguration/setup.go).                           *)
THEOREM NotificationImplementsReconciler == Spec => ReconcilerSpec
  <1>1. Init => ReconcilerInit
    BY DEF Init
  <1>2. QED
    BY <1>1, NotificationReconcilerInv, NotificationStepSim, PTL DEF Spec, ReconcilerSpec

(* So NotificationConfigurations live as Lifecycle says: none begins to be  *)
(* created before it is held or after it is deleted, and none disappears    *)
(* while its creation is under way.                                         *)
THEOREM NotificationImplementsLifecycle == Spec => LifecycleSpec
  <1>1. QED
    BY NotificationImplementsReconciler, ReconcilerImplementsLifecycle

(* However many replicas of the provider run, at most one is between the    *)
(* announcement and the record of a NotificationConfiguration's Create.     *)
THEOREM NotificationOneCreate == Spec => []OneCreateInFlight
  <1>1. ReconcilerInv => OneCreateInFlight
    BY DEF ReconcilerInv
  <1>2. QED
    BY <1>1, NotificationReconcilerInv, PTL

-----------------------------------------------------------------------------
(* Who takes a step.                                                        *)

WorkerStep(w) ==
    \/ Step(w) \/ ObserveFails(w) \/ Stop(w) \/ SyncCache(w)
    \/ \E r \in Resources : StartReconcile(w, r)

UserStep(r) == Delete(r) \/ \E s \in Specs : Apply(r, s) \/ Edit(r, s)

LEMMA NextCases ==
  ASSUME [Next]_vars
  PROVE  \/ \E w \in Workers : WorkerStep(w)
         \/ \E r \in Resources : UserStep(r)
         \/ \E n \in Names : ForeignClient(n)
         \/ UNCHANGED vars
  BY DEF Next, WorkerStep, UserStep

LEMMA WorkerStepIsStepOf ==
  ASSUME NEW w \in Workers, WorkerStep(w)
  PROVE  StepOf(w)
  <1>1. CASE Observe(w) \/ ObserveFails(w)
    BY <1>1, ObserveCases DEF ObserveFails, StepOf
  <1>2. CASE CallStep(w)
    BY <1>2, CallCases DEF StepOf
  <1>3. CASE RuntimeStep(w)
    BY <1>3 DEF RuntimeStep, StepOf
  <1>4. CASE Stop(w) \/ SyncCache(w) \/ \E r \in Resources : StartReconcile(w, r)
    BY <1>4 DEF Stop, SyncCache, StartReconcile, StepOf
  <1>5. QED
    BY <1>1, <1>2, <1>3, <1>4 DEF WorkerStep, Step, CallStep

LEMMA UserStepIsStepOfUser ==
  ASSUME NEW r \in Resources, UserStep(r)
  PROVE  StepOfUser(r) /\ buckets' = buckets /\ held' = held
  BY DEF UserStep, Delete, Apply, Edit, StepOfUser, minio

LEMMA ForeignLeaves ==
  ASSUME NEW n, ForeignClient(n)
  PROVE  UNCHANGED <<api, cache, fresh, pc, cur, mem, held>> /\ ops' = ops + 1
  BY DEF ForeignClient, Operation

LEMMA NextIsSomeStep ==
  ASSUME [Next]_vars
  PROVE  SomeStep
  BY NextCases, WorkerStepIsStepOf, UserStepIsStepOfUser, ForeignLeaves DEF vars, reconcilerVars, SomeStep

(* A worker whose turn it is not.                                           *)
LEMMA OthersWait ==
  ASSUME ReconcilerInv, [Next]_vars, NEW w \in Workers, ~WorkerStep(w)
  PROVE  Bystander(w)
  <1>1. ASSUME NEW v \in Workers, WorkerStep(v) PROVE Bystander(w)
    BY <1>1, StepOfOther, WorkerStepIsStepOf
  <1>2. ASSUME NEW r \in Resources, UserStep(r) PROVE Bystander(w)
    BY <1>2, StepOfUserAside, UserStepIsStepOfUser
  <1>3. CASE (\E n \in Names : ForeignClient(n)) \/ UNCHANGED vars
    BY <1>3, ForeignLeaves DEF vars, reconcilerVars, Bystander
  <1>4. QED
    BY <1>1, <1>2, <1>3, NextCases

-----------------------------------------------------------------------------
(* The webhook lets no resource without a bucket in, and none change it.    *)

NamesBucket(o) == o.present => o.spec.bucket \in Names

BucketsNamed ==
    /\ \A r \in Resources : NamesBucket(api[r])
    /\ \A w \in Workers : \A r \in Resources : NamesBucket(cache[w][r])
    /\ \A w \in Workers : pc[w] # "idle" => NamesBucket(mem[w])

(* What a worker's step makes of the resource and of its copy.              *)
LEMMA ObserveKeepsSpec ==
  ASSUME ReconcilerInv, NEW w \in Workers, Observe(w) \/ ObserveFails(w)
  PROVE  mem'[w].spec = mem[w].spec /\ api' = api
  <1>1. mem \in [Workers -> Object] /\ mem[w] \in Object
    BY DEF ReconcilerInv, ReconcilerTypeOK
  <1>2. ASSUME NEW m, m.spec = mem[w].spec,
               AfterObserveError(w, m) \/ \E outcome : AfterObserve(w, m, outcome)
        PROVE  mem'[w].spec = mem[w].spec /\ api' = api
    BY <1>1, <1>2 DEF AfterObserve, AfterObserveError
  <1>3. \A at, ready : /\ [mem[w] EXCEPT !.ready = ready].spec = mem[w].spec
                       /\ [mem[w] EXCEPT !.at = at, !.ready = ready].spec = mem[w].spec
    BY <1>1 DEF Object
  <1>4. QED
    BY <1>2, <1>3, ObserveCases DEF ObserveFails

LEMMA CallKeepsSpec ==
  ASSUME ReconcilerInv, NEW w \in Workers, CallStep(w)
  PROVE  mem'[w].spec = mem[w].spec /\ cur' = cur /\ api' = api /\ pc[w] # "idle"
  <1>1. mem \in [Workers -> Object] /\ mem[w] \in Object
    BY DEF ReconcilerInv, ReconcilerTypeOK
  <1>2. PICK stage, ready : ExternalCall(w, stage, mem[w].ann, mem[w].at, ready)
    BY CallCases
  <1>3. /\ mem' = [mem EXCEPT ![w].ann = mem[w].ann, ![w].at = mem[w].at, ![w].ready = ready]
        /\ cur' = cur /\ api' = api
        /\ pc[w] # "idle"
    BY <1>2 DEF ExternalCall, UpdateStages, DeleteStages
  <1>4. mem'[w].spec = mem[w].spec
    BY <1>1, <1>3 DEF Object
  <1>5. QED
    BY <1>3, <1>4

LEMMA RuntimeSpecs ==
  ASSUME ReconcilerInv, NEW w \in Workers, RuntimeStep(w)
  PROVE  /\ pc[w] # "idle"
         /\ \/ mem'[w].spec = mem[w].spec \/ pc'[w] = "idle"
            \/ api[cur[w]].present /\ mem'[w].spec = api[cur[w]].spec
         /\ \A r \in Resources :
              \/ api'[r] = api[r] \/ ~api'[r].present
              \/ cur[w] = r /\ api'[r].spec = mem[w].spec
              \/ api[r].present /\ api'[r].spec = api[r].spec
  <1>1. /\ mem \in [Workers -> Object] /\ pc \in [Workers -> Stages] /\ api \in [Resources -> Object]
        /\ mem[w] \in Object
    BY DEF ReconcilerInv, ReconcilerTypeOK
  <1>2. pc[w] # "idle"
    BY DEF RuntimeStep, AddFinalizer, MarkPending, WriteStatus, Finalize, Conflict, Observed
  <1>3. cur[w] \in Resources /\ api[cur[w]] \in Object
    BY <1>2, WorkerFacts
  <1>4. ASSUME NEW o \in Object, NEW stage, o.spec = mem[w].spec, ClientUpdate(w, o, stage)
        PROVE  /\ mem'[w].spec = mem[w].spec
               /\ \A r \in Resources : api'[r] = api[r] \/ (cur[w] = r /\ api'[r].spec = mem[w].spec)
    <2>1. [o EXCEPT !.spec = mem[w].spec,
                    !.at = IF o.at = "" THEN mem[w].at ELSE o.at,
                    !.ready = IF o.ready = "" THEN mem[w].ready ELSE o.ready].spec = mem[w].spec
      BY DEF Object
    <2>2. mem'[w].spec = mem[w].spec
      BY <1>1, <1>4, <2>1 DEF ClientUpdate
    <2>3. api' = [api EXCEPT ![cur[w]] = o]
      BY <1>4 DEF ClientUpdate, Store
    <2>4. \A r \in Resources : api'[r] = api[r] \/ (cur[w] = r /\ api'[r] = o)
      BY <1>1, <1>3, <2>3
    <2>5. QED
      BY <1>4, <2>2, <2>4
  <1>5. CASE AddFinalizer(w, mem[w].spec) \/ MarkPending(w, mem[w].spec)
    <2> DEFINE o == [api[cur[w]] EXCEPT !.finalizer = TRUE, !.spec = mem[w].spec]
               p == [api[cur[w]] EXCEPT !.create = "pending", !.spec = mem[w].spec]
    <2>1. o \in Object /\ o.spec = mem[w].spec /\ p \in Object /\ p.spec = mem[w].spec
      BY <1>1, <1>3 DEF Object
    <2>2. \/ ClientUpdate(w, o, AfterFinalizer(pc[w]))
          \/ ClientUpdate(w, p, "create")
      BY <1>5 DEF AddFinalizer, MarkPending
    <2> HIDE DEF o, p
    <2>3. /\ mem'[w].spec = mem[w].spec
          /\ \A r \in Resources : api'[r] = api[r] \/ (cur[w] = r /\ api'[r].spec = mem[w].spec)
      BY <1>4, <2>1, <2>2
    <2>4. QED
      BY <1>2, <2>3
  <1>6. CASE pc[w] = "created" /\ RecordCreation(w, api[cur[w]].spec, "status")
    <2> DEFINE o == [api[cur[w]] EXCEPT !.create = "succeeded", !.ann = mem[w].ann, !.spec = api[cur[w]].spec]
               at == IF w \in fresh /\ o.at = "" THEN mem[w].at ELSE o.at
    <2>1. o \in Object /\ o.spec = api[cur[w]].spec
      BY <1>1, <1>3 DEF Object
    <2>2. [o EXCEPT !.at = at, !.ready = "Creating"].spec = o.spec
      BY <2>1 DEF Object
    <2>3. mem' = [mem EXCEPT ![w] = [o EXCEPT !.at = at, !.ready = "Creating"]]
      BY <1>6 DEF RecordCreation
    <2>4. api' = [api EXCEPT ![cur[w]] = o]
      BY <1>6 DEF RecordCreation, Store
    <2>5. api[cur[w]].present
      BY <1>6 DEF ReconcilerInv, CreateAnnounced, Creating, CreateStages
    <2> HIDE DEF o, at
    <2>6. QED
      BY <1>1, <1>2, <1>3, <2>1, <2>2, <2>3, <2>4, <2>5
  <1>7. CASE pc[w] = "createFailed" /\ RecordFailure(w, api[cur[w]].spec)
    <2> DEFINE o == [api[cur[w]] EXCEPT !.create = "failed", !.spec = api[cur[w]].spec]
    <2>1. o \in Object /\ o.spec = api[cur[w]].spec
      BY <1>1, <1>3 DEF Object
    <2>2. [o EXCEPT !.ready = "Creating"].spec = o.spec
      BY <2>1 DEF Object
    <2>3. mem' = [mem EXCEPT ![w] = [o EXCEPT !.ready = "Creating"]]
      BY <1>7 DEF RecordFailure
    <2>4. api' = [api EXCEPT ![cur[w]] = o]
      BY <1>7 DEF RecordFailure, Store
    <2>5. api[cur[w]].present
      BY <1>7 DEF ReconcilerInv, CreateAnnounced, Creating, CreateStages
    <2> HIDE DEF o
    <2>6. QED
      BY <1>1, <1>2, <1>3, <2>1, <2>2, <2>3, <2>4, <2>5
  <1>8. CASE WriteStatus(w)
    <2> DEFINE o == [api[cur[w]] EXCEPT !.ready = mem[w].ready, !.at = mem[w].at]
    <2>1. o.spec = api[cur[w]].spec /\ o.present = api[cur[w]].present
      BY <1>3 DEF Object
    <2>2. api' = api \/ api' = [api EXCEPT ![cur[w]] = o]
      BY <1>8 DEF WriteStatus, Store
    <2>3. pc'[w] = "idle"
      BY <1>1, <1>8 DEF WriteStatus, Return
    <2> HIDE DEF o
    <2>4. \A r \in Resources : api'[r] = api[r] \/ (cur[w] = r /\ api'[r] = o)
      BY <1>1, <1>3, <2>2
    <2>5. \A r \in Resources : \/ api'[r] = api[r] \/ ~api'[r].present
                               \/ api[r].present /\ api'[r].spec = api[r].spec
      BY <2>1, <2>4
    <2>6. QED
      BY <1>2, <2>3, <2>5
  <1>9. CASE Finalize(w) \/ Conflict(w)
    <2>1. pc'[w] = "idle"
      BY <1>1, <1>9 DEF Finalize, Conflict, Return
    <2>2. api' = api \/ api' = [api EXCEPT ![cur[w]] = Gone]
      BY <1>9 DEF Finalize, Conflict, Store
    <2>3. \A r \in Resources : api'[r] = api[r] \/ api'[r] = Gone
      BY <1>1, <1>3, <2>2
    <2>4. QED
      BY <1>2, <2>1, <2>3, GoneFacts
  <1>10. QED
    BY <1>5, <1>6, <1>7, <1>8, <1>9 DEF RuntimeStep

LEMMA UserSpecs ==
  ASSUME ReconcilerInv, BucketsNamed, NEW q \in Resources, UserStep(q), NEW r \in Resources
  PROVE  NamesBucket(api'[r])
  <1>1. api \in [Resources -> Object] /\ api[q] \in Object /\ NamesBucket(api[q]) /\ NamesBucket(api[r])
    BY DEF ReconcilerInv, ReconcilerTypeOK, BucketsNamed
  <1>2. ASSUME NEW o, UserWrite(q, o), NamesBucket(o) PROVE NamesBucket(api'[r])
    BY <1>1, <1>2 DEF UserWrite, Store
  <1>3. CASE Delete(q)
    <2> DEFINE o == [api[q] EXCEPT !.deleting = TRUE]
    <2>1. NamesBucket(o)
      BY <1>1 DEF Object, NamesBucket
    <2>2. NamesBucket(Gone)
      BY GoneFacts DEF NamesBucket
    <2>3. UserWrite(q, o) \/ UserWrite(q, Gone)
      BY <1>3 DEF Delete, UserDelete
    <2> HIDE DEF o
    <2>4. QED
      BY <1>2, <2>1, <2>2, <2>3
  <1>4. ASSUME NEW s \in Specs, Apply(q, s) PROVE NamesBucket(api'[r])
    <2> DEFINE o == [Gone EXCEPT !.present = TRUE, !.spec = s]
    <2>1. s.bucket \in Names
      BY <1>4, SpecFacts DEF Apply, ValidateCreate
    <2>2. NamesBucket(o)
      BY <2>1 DEF Gone, NamesBucket
    <2>3. UserWrite(q, o)
      BY <1>4 DEF Apply, UserApply
    <2> HIDE DEF o
    <2>4. QED
      BY <1>2, <2>2, <2>3
  <1>5. ASSUME NEW s \in Specs, Edit(q, s) PROVE NamesBucket(api'[r])
    <2> DEFINE o == [api[q] EXCEPT !.spec = s]
    <2>1. s.bucket = api[q].spec.bucket
      BY <1>5 DEF Edit, ValidateUpdate
    <2>2. NamesBucket(o)
      BY <1>1, <2>1 DEF Object, NamesBucket
    <2>3. UserWrite(q, o)
      BY <1>5 DEF Edit, UserEdit
    <2> HIDE DEF o
    <2>4. QED
      BY <1>2, <2>2, <2>3
  <1>6. QED
    BY <1>3, <1>4, <1>5 DEF UserStep

(* So resources, copies in caches and copies in memory all name a bucket.   *)
LEMMA BucketsNamedStep ==
  ASSUME ReconcilerInv, BucketsNamed, [Next]_vars
  PROVE  BucketsNamed'
  <1>1. /\ api \in [Resources -> Object] /\ mem \in [Workers -> Object] /\ pc \in [Workers -> Stages]
        /\ cache \in [Workers -> [Resources -> Object]]
        /\ \A r \in Resources : NamesBucket(api[r])
    BY DEF ReconcilerInv, ReconcilerTypeOK, BucketsNamed
  <1>2. ASSUME NEW w \in Workers, pc[w] # "idle" PROVE mem[w].spec.bucket \in Names
    BY <1>2, WorkerFacts DEF BucketsNamed, NamesBucket
  <1>3. ASSUME NEW w \in Workers, RuntimeStep(w) PROVE UNCHANGED cache
    BY <1>3 DEF RuntimeStep, AddFinalizer, MarkPending, ClientUpdate, RecordCreation, RecordFailure,
                WriteStatus, Finalize, Conflict
  <1>4. ASSUME NEW w \in Workers, Observe(w) \/ ObserveFails(w) PROVE UNCHANGED cache
    <2>1. \A m : AfterObserveError(w, m) => UNCHANGED cache
      BY DEF AfterObserveError
    <2>2. \A m, outcome : AfterObserve(w, m, outcome) => UNCHANGED cache
      BY DEF AfterObserve
    <2>3. QED
      BY <1>4, <2>1, <2>2, ObserveCases DEF ObserveFails
  <1>5. ASSUME NEW w \in Workers, CallStep(w) PROVE UNCHANGED cache
    BY <1>5, CallCases DEF ExternalCall
  <1>6. ASSUME NEW r \in Resources PROVE NamesBucket(api'[r])
    <2>1. ASSUME NEW w \in Workers, RuntimeStep(w) PROVE NamesBucket(api'[r])
      BY <1>1, <1>2, <2>1, RuntimeSpecs DEF NamesBucket
    <2>2. ASSUME NEW w \in Workers, WorkerStep(w), ~RuntimeStep(w) PROVE api' = api
      <3>1. Stop(w) \/ SyncCache(w) \/ (\E q \in Resources : StartReconcile(w, q)) => api' = api
        BY DEF Stop, Crash, SyncCache, CacheSync, StartReconcile, Load
      <3>2. QED
        BY <2>2, <3>1, ObserveKeepsSpec, CallKeepsSpec DEF WorkerStep, Step, CallStep
    <2>3. QED
      BY <1>1, <2>1, <2>2, UserSpecs, NextCases, ForeignLeaves DEF vars, reconcilerVars
  <1>7. ASSUME NEW w \in Workers, NEW r \in Resources PROVE NamesBucket(cache'[w][r])
    <2>1. NamesBucket(cache[w][r])
      BY DEF BucketsNamed
    <2>2. ASSUME NEW v \in Workers, SyncCache(v) PROVE cache'[w] = cache[w] \/ cache'[w] = api
      BY <1>1, <2>2 DEF SyncCache, CacheSync
    <2>3. ASSUME NEW v \in Workers, Stop(v) \/ \E q \in Resources : StartReconcile(v, q)
          PROVE  UNCHANGED cache
      BY <2>3 DEF Stop, Crash, Return, StartReconcile, Load
    <2>4. ASSUME NEW q \in Resources, UserStep(q) PROVE UNCHANGED cache
      BY <2>4 DEF UserStep, Delete, Apply, Edit, UserDelete, UserApply, UserEdit, UserWrite
    <2>5. cache'[w] = cache[w] \/ cache'[w] = api
      BY <1>3, <1>4, <1>5, <2>2, <2>3, <2>4, NextCases, ForeignLeaves
         DEF WorkerStep, Step, CallStep, vars, reconcilerVars
    <2>6. QED
      BY <1>1, <2>1, <2>5
  <1>8. ASSUME NEW w \in Workers, pc'[w] # "idle" PROVE NamesBucket(mem'[w])
    <2>1. CASE ~WorkerStep(w)
      BY <1>8, <2>1, OthersWait DEF Bystander, BucketsNamed
    <2>2. CASE RuntimeStep(w)
      BY <1>1, <1>2, <1>8, <2>2, RuntimeSpecs, WorkerFacts DEF NamesBucket
    <2>3. CASE Observe(w) \/ ObserveFails(w)
      <3>1. pc[w] # "idle"
        BY <2>3 DEF Observe, ObserveFails, AfterObserveError
      <3>2. QED
        BY <1>2, <2>3, <3>1, ObserveKeepsSpec DEF NamesBucket
    <2>4. CASE CallStep(w)
      BY <1>2, <2>4, CallKeepsSpec DEF NamesBucket
    <2>5. CASE Stop(w)
      BY <1>1, <1>8, <2>5 DEF Stop, Crash, Return
    <2>6. CASE SyncCache(w)
      BY <1>8, <2>6 DEF SyncCache, CacheSync, BucketsNamed
    <2>7. ASSUME NEW r \in Resources, StartReconcile(w, r) PROVE NamesBucket(mem'[w])
      <3> DEFINE o == cache[w][r]
      <3>1. o \in Object /\ NamesBucket(o)
        BY <1>1 DEF BucketsNamed
      <3>2. NamesBucket([o EXCEPT !.ready = "Creating"])
        BY <3>1 DEF NamesBucket, Object
      <3>3. mem'[w] = o \/ mem'[w] = [o EXCEPT !.ready = "Creating"]
        BY <1>1, <2>7 DEF StartReconcile, Load
      <3> HIDE DEF o
      <3>4. QED
        BY <3>1, <3>2, <3>3
    <2>8. QED
      BY <2>1, <2>2, <2>3, <2>4, <2>5, <2>6, <2>7 DEF WorkerStep, Step, CallStep
  <1>9. QED
    BY <1>6, <1>7, <1>8 DEF BucketsNamed, NamesBucket

-----------------------------------------------------------------------------
(* The configurations: their types, and that no webhook is there twice.     *)

Bucket == [exists : BOOLEAN, entries : Seq(Entry)]

NotificationTypes ==
    /\ buckets \in [Names -> Bucket]
    /\ held \in [Workers -> Seq(Entry)]

(* No two entries are for one webhook.                                      *)
Single(q) == \A i, j \in DOMAIN q : Matches(q[i], q[j]) => i = j

(* None of the entries is for the spec's webhook.                           *)
Lacks(q, s) == \A i \in DOMAIN q : ~Matches(q[i], s)

(* Also what workers have read is single, and what one in Create has read   *)
(* lacks the spec's webhook, until it writes: a write then leaves the       *)
(* bucket single, whatever others wrote in between.                         *)
ConfigsInv ==
    /\ NotificationTypes
    /\ \A n \in Names : Single(buckets[n].entries)
    /\ \A w \in Workers : /\ Single(held[w])
                          /\ pc[w] = "create2" => Lacks(held[w], mem[w].spec)

NotificationInv == ReconcilerInv /\ BucketsNamed /\ ConfigsInv

(* What a worker writes.                                                    *)
Written(w) ==
    IF pc[w] = "create2" THEN Append(held[w], LambdaConfig(w))
    ELSE IF pc[w] = "update2" THEN Updated(w) ELSE Remaining(w)

LEMMA WorkerStepConfigs ==
  ASSUME NEW w \in Workers, WorkerStep(w)
  PROVE  \/ /\ buckets' = buckets
            /\ \/ held' = held
               \/ held' = [held EXCEPT ![w] = <<>>]
               \/ pc[w] # "idle" /\ held' = [held EXCEPT ![w] = BucketOf(w).entries]
         \/ /\ pc[w] \in {"create2", "update2", "delete2"}
            /\ buckets' = [buckets EXCEPT ![mem[w].spec.bucket].entries = Written(w)]
            /\ held' = [held EXCEPT ![w] = <<>>]
  <1>1. CASE Observe(w) \/ ObserveFails(w) \/ RuntimeStep(w) \/ SyncCache(w) \/ Stop(w)
             \/ \E r \in Resources : StartReconcile(w, r)
    BY <1>1 DEF Observe, ObserveFails, RuntimeStep, SyncCache, Stop, StartReconcile, minio
  <1>2. CASE GetForCreate(w) \/ GetForUpdate(w) \/ GetForDelete(w)
    BY <1>2 DEF GetForCreate, GetForUpdate, GetForDelete, Keep
  <1>3. CASE SetForCreate(w)
    BY <1>3 DEF SetForCreate, SetBucketNotification, Written
  <1>4. CASE SetForUpdate(w)
    BY <1>4 DEF SetForUpdate, SetBucketNotification, Written
  <1>5. CASE SetForDelete(w)
    BY <1>5 DEF SetForDelete, SetBucketNotification, Written
  <1>6. QED
    BY <1>1, <1>2, <1>3, <1>4, <1>5 DEF WorkerStep, Step

(* Find tells whether the spec's webhook is there.                          *)
LEMMA FindFacts ==
  ASSUME NEW s, s.hook, NEW q \in Seq(Entry), FindWebhookConfiguration(s, q) = <<>>
  PROVE  Lacks(q, s)
  <1> DEFINE K == {i \in DOMAIN q : Matches(q[i], s)}
  <1>1. K \in SUBSET (DOMAIN q) /\ Select(q, K) = <<>>
    BY DEF FindWebhookConfiguration
  <1> HIDE DEF K
  <1>2. \A i \in K : \E k \in DOMAIN Select(q, K) : Select(q, K)[k] = q[i]
    BY <1>1, SelectFacts
  <1>3. K = {}
    BY <1>1, <1>2
  <1>4. QED
    BY <1>3 DEF K, Lacks

(* Appending and leaving out.                                               *)
LEMMA AppendSingle ==
  ASSUME NEW q \in Seq(Entry), NEW e \in Entry, Single(q), Lacks(q, e)
  PROVE  Append(q, e) \in Seq(Entry) /\ Single(Append(q, e))
  <1> DEFINE p == Append(q, e)
  <1>1. /\ Len(q) \in Nat /\ DOMAIN q = 1..Len(q)
        /\ p \in Seq(Entry) /\ DOMAIN p = 1..(Len(q) + 1)
        /\ \A i \in DOMAIN q : p[i] = q[i]
        /\ p[Len(q) + 1] = e
    OBVIOUS
  <1> HIDE DEF p
  <1>2. ASSUME NEW i \in DOMAIN p, NEW j \in DOMAIN p, Matches(p[i], p[j]) PROVE i = j
    <2>1. Matches(p[j], p[i])
      BY <1>2 DEF Matches, SameARN
    <2>2. CASE i \in DOMAIN q /\ j \in DOMAIN q
      BY <1>1, <1>2, <2>2 DEF Single
    <2>3. CASE i \in DOMAIN q /\ j = Len(q) + 1
      BY <1>1, <1>2, <2>3 DEF Lacks
    <2>4. CASE j \in DOMAIN q /\ i = Len(q) + 1
      BY <1>1, <2>1, <2>4 DEF Lacks
    <2>5. CASE i = Len(q) + 1 /\ j = Len(q) + 1
      BY <2>5
    <2>6. \A k \in DOMAIN p : k \in DOMAIN q \/ k = Len(q) + 1
      BY <1>1
    <2>7. QED
      BY <2>2, <2>3, <2>4, <2>5, <2>6
  <1>3. QED
    BY <1>1, <1>2 DEF Single, p

LEMMA SelectSingle ==
  ASSUME NEW q \in Seq(Entry), NEW K \in SUBSET (DOMAIN q), Single(q)
  PROVE  Select(q, K) \in Seq(Entry) /\ Single(Select(q, K))
  <1> DEFINE p == Select(q, K)
  <1>1. /\ p \in Seq(Entry)
        /\ \A k \in DOMAIN p : Origin(K, k) \in DOMAIN q /\ p[k] = q[Origin(K, k)]
        /\ \A j, k \in DOMAIN p : Origin(K, j) = Origin(K, k) => j = k
    BY SelectFacts
  <1> HIDE DEF p
  <1>2. QED
    BY <1>1 DEF Single, p

LEMMA RemoveSingle ==
  ASSUME NEW q \in Seq(Entry), NEW i \in DOMAIN q, Single(q)
  PROVE  RemoveAt(q, i) \in Seq(Entry) /\ Single(RemoveAt(q, i))
  <1> DEFINE p == RemoveAt(q, i)
             from(k) == IF k < i THEN k ELSE k + 1
  <1>1. /\ p \in Seq(Entry) /\ DOMAIN p = 1..(Len(q) - 1) /\ Len(q) \in Nat /\ i \in 1..Len(q)
        /\ \A k \in DOMAIN p : p[k] = IF k < i THEN q[k] ELSE q[k + 1]
    BY RemoveAtFacts
  <1> HIDE DEF p
  <1>2. \A k \in DOMAIN p : from(k) \in DOMAIN q /\ p[k] = q[from(k)]
    BY <1>1
  <1>3. \A j, k \in DOMAIN p : from(j) = from(k) => j = k
    BY <1>1
  <1> HIDE DEF from
  <1>4. QED
    BY <1>1, <1>2, <1>3 DEF Single, p

(* What a worker writes has the type, no webhook twice, and every entry it  *)
(* has read that is not of its ID.                                          *)
LEMMA WrittenFacts ==
  ASSUME NotificationInv, NEW w \in Workers, pc[w] \in {"create2", "update2", "delete2"}
  PROVE  /\ Written(w) \in Seq(Entry) /\ Single(Written(w))
         /\ \A i \in DOMAIN held[w] : held[w][i].id # mem[w].spec.id =>
              \E k \in DOMAIN Written(w) : Written(w)[k] = held[w][i]
  <1> DEFINE q == held[w]
             s == mem[w].spec
             e == LambdaConfig(w)
  <1>1. q \in Seq(Entry) /\ Single(q) /\ (pc[w] = "create2" => Lacks(q, s))
    BY DEF NotificationInv, ConfigsInv, NotificationTypes
  <1>2. cur[w] \in Resources /\ s \in Specs
    BY WorkerFacts DEF NotificationInv
  <1>3. e \in Entry /\ e.id = s.id /\ e.endpoint = s.endpoint
    BY <1>2, SpecFacts DEF LambdaConfig, Entry
  <1> HIDE DEF e
  <1>4. ASSUME NEW p \in Seq(Entry)
        PROVE  /\ \A i \in DOMAIN p : i \in DOMAIN Append(p, e) /\ Append(p, e)[i] = p[i]
    OBVIOUS
  <1>5. CASE pc[w] = "create2"
    <2>1. Written(w) = Append(q, e)
      BY <1>5 DEF Written, e
    <2>2. Lacks(q, e)
      BY <1>1, <1>3, <1>5 DEF Lacks, Matches, SameARN
    <2>3. QED
      BY <1>1, <1>3, <1>4, <2>1, <2>2, AppendSingle
  <1>6. CASE pc[w] = "update2"
    <2> DEFINE K == {i \in DOMAIN q : ~SameARN(q[i], s)}
               p == Select(q, K)
    <2>1. Written(w) = Append(p, e)
      BY <1>6 DEF Written, Updated, OtherARNs, e
    <2>2. K \in SUBSET (DOMAIN q) /\ \A i \in K : q[i].id # s.id
      BY DEF SameARN
    <2>3. \A i \in DOMAIN q : q[i].id # s.id => i \in K
      BY DEF SameARN
    <2> HIDE DEF K
    <2>4. /\ p \in Seq(Entry) /\ Single(p)
          /\ \A k \in DOMAIN p : p[k].id # s.id
          /\ \A i \in K : \E k \in DOMAIN p : p[k] = q[i]
      <3>1. p \in Seq(Entry) /\ Single(p)
        BY <1>1, <2>2, SelectSingle
      <3>2. /\ \A k \in DOMAIN p : Origin(K, k) \in K /\ p[k] = q[Origin(K, k)]
            /\ \A i \in K : \E k \in DOMAIN p : p[k] = q[i]
        <4>1. q \in Seq(Entry) /\ K \in SUBSET (DOMAIN q)
          BY <1>1, <2>2
        <4> HIDE DEF q
        <4>2. QED
          BY <4>1, SelectFacts
      <3> HIDE DEF p
      <3>3. QED
        BY <2>2, <3>1, <3>2
    <2> HIDE DEF p
    <2>5. Lacks(p, e)
      BY <1>3, <2>4 DEF Lacks, Matches, SameARN
    <2>6. Append(p, e) \in Seq(Entry) /\ Single(Append(p, e))
      BY <1>3, <2>4, <2>5, AppendSingle
    <2>7. ASSUME NEW i \in DOMAIN q, q[i].id # s.id PROVE \E k \in DOMAIN Append(p, e) : Append(p, e)[k] = q[i]
      BY <1>4, <2>3, <2>4, <2>7
    <2>8. QED
      BY <2>1, <2>6, <2>7
  <1>7. CASE pc[w] = "delete2"
    <2> DEFINE K == {i \in DOMAIN q : ~Matches(q[i], s)}
    <2>1. Written(w) = Select(q, K)
      BY <1>7 DEF Written, Remaining
    <2>2. K \in SUBSET (DOMAIN q) /\ \A i \in DOMAIN q : q[i].id # s.id => i \in K
      BY DEF Matches, SameARN
    <2> HIDE DEF K
    <2>3. QED
      BY <1>1, <2>1, <2>2, SelectFacts, SelectSingle
  <1>8. QED
    BY <1>5, <1>6, <1>7

(* A worker in Create has read the bucket without the spec's webhook.       *)
LEMMA CreateStage ==
  ASSUME NotificationInv, NEW w \in Workers, WorkerStep(w), pc'[w] = "create2"
  PROVE  Lacks(held'[w], mem'[w].spec)
  <1>1. /\ ReconcilerInv /\ pc \in [Workers -> Stages] /\ held \in [Workers -> Seq(Entry)]
        /\ pc[w] = "create2" => Lacks(held[w], mem[w].spec)
    BY DEF NotificationInv, ConfigsInv, NotificationTypes, ReconcilerInv, ReconcilerTypeOK
  <1>2. ASSUME Observe(w) \/ ObserveFails(w) PROVE FALSE
    <2>1. ASSUME NEW m, AfterObserveError(w, m) PROVE FALSE
      BY <1>1, <2>1 DEF AfterObserveError
    <2>2. ASSUME NEW m, NEW outcome \in Observed, AfterObserve(w, m, outcome) PROVE FALSE
      BY <1>1, <2>2 DEF AfterObserve, AfterFinalizer, Observed
    <2>3. {"absent", "upToDate", "outdated"} \subseteq Observed
      BY DEF Observed
    <2>4. QED
      BY <1>2, <2>1, <2>2, <2>3, ObserveCases DEF ObserveFails
  <1>3. ASSUME \/ SetForCreate(w) \/ GetForUpdate(w) \/ SetForUpdate(w) \/ GetForDelete(w) \/ SetForDelete(w)
        PROVE  FALSE
    BY <1>1, <1>3 DEF SetForCreate, GetForUpdate, SetForUpdate, GetForDelete, SetForDelete, Call, Deleting,
                      ExternalCall
  <1>4. ASSUME RuntimeStep(w) PROVE FALSE
    BY <1>1, <1>4 DEF RuntimeStep, AddFinalizer, MarkPending, ClientUpdate, AfterFinalizer, Observed,
                      RecordCreation, RecordFailure, WriteStatus, Finalize, Conflict, Return
  <1>5. ASSUME Stop(w) \/ \E r \in Resources : StartReconcile(w, r) PROVE FALSE
    BY <1>1, <1>5 DEF Stop, Crash, Return, StartReconcile, Load
  <1>6. CASE SyncCache(w)
    BY <1>1, <1>6 DEF SyncCache, CacheSync, minio
  <1>7. CASE GetForCreate(w)
    <2>1. mem'[w].spec = mem[w].spec /\ pc[w] # "idle"
      BY <1>1, <1>7, CallKeepsSpec DEF CallStep
    <2>2. \/ held'[w] = <<>>
          \/ /\ mem[w].spec.hook /\ FindWebhookConfiguration(mem[w].spec, BucketOf(w).entries) = <<>>
             /\ held'[w] = BucketOf(w).entries
      BY <1>1, <1>7 DEF GetForCreate, Call, ExternalCall, Keep
    <2>3. Lacks(<<>>, mem[w].spec)
      BY DEF Lacks
    <2>4. BucketOf(w).entries \in Seq(Entry)
      BY <2>1, WorkerFacts
         DEF NotificationInv, BucketsNamed, NamesBucket, ConfigsInv, NotificationTypes, Bucket, BucketOf
    <2>5. QED
      BY <2>1, <2>2, <2>3, <2>4, FindFacts
  <1>8. QED
    BY <1>2, <1>3, <1>4, <1>5, <1>6, <1>7 DEF WorkerStep, Step

LEMMA NoBucketFacts ==
  /\ NoBucket \in Bucket /\ [NoBucket EXCEPT !.exists = TRUE] \in Bucket
  /\ NoBucket.entries = <<>> /\ [NoBucket EXCEPT !.exists = TRUE].entries = <<>>
  <1>1. <<>> \in Seq(Entry)
    OBVIOUS
  <1>2. ASSUME NEW b \in BOOLEAN, NEW S, NEW q \in S
        PROVE  [exists |-> b, entries |-> q] \in [exists : BOOLEAN, entries : S]
    BY Zenon
  <1>3. ASSUME NEW b, NEW q PROVE [exists |-> b, entries |-> q].entries = q
    OBVIOUS
  <1>4. NoBucket \in Bucket /\ NoBucket.entries = <<>>
    BY <1>1, <1>2, <1>3, Zenon DEF NoBucket, Bucket
  <1>5. ASSUME NEW b \in Bucket
        PROVE  [b EXCEPT !.exists = TRUE] \in Bucket /\ [b EXCEPT !.exists = TRUE].entries = b.entries
    BY DEF Bucket
  <1>6. QED
    BY <1>4, <1>5

(* What other clients do to a bucket.                                       *)
LEMMA ForeignFacts ==
  ASSUME ConfigsInv, NEW n \in Names, ForeignClient(n)
  PROVE  \E b \in Bucket :
            /\ buckets' = [buckets EXCEPT ![n] = b]
            /\ Single(b.entries)
            /\ \A k \in DOMAIN b.entries :
                 \/ b.entries[k].maker = NoResource
                 \/ \E i \in DOMAIN buckets[n].entries : buckets[n].entries[i] = b.entries[k]
  <1> DEFINE q == buckets[n].entries
  <1>1. buckets[n] \in Bucket /\ q \in Seq(Entry) /\ Single(q)
    BY DEF ConfigsInv, NotificationTypes, Bucket
  <1>2. Single(<<>>) /\ DOMAIN <<>> = {}
    BY DEF Single
  <1>3. ASSUME NEW b \in Bucket, b.entries = <<>>, buckets' = [buckets EXCEPT ![n] = b]
        PROVE  \E c \in Bucket :
                  /\ buckets' = [buckets EXCEPT ![n] = c]
                  /\ Single(c.entries)
                  /\ \A k \in DOMAIN c.entries :
                       c.entries[k].maker = NoResource \/ \E i \in DOMAIN q : q[i] = c.entries[k]
    BY <1>2, <1>3
  <1>4. CASE buckets' = [buckets EXCEPT ![n] = NoBucket]
             \/ buckets' = [buckets EXCEPT ![n] = [NoBucket EXCEPT !.exists = TRUE]]
    BY <1>3, <1>4, NoBucketFacts
  <1>5. ASSUME NEW p \in Seq(Entry), Single(p),
               \A k \in DOMAIN p : p[k].maker = NoResource \/ \E i \in DOMAIN q : q[i] = p[k],
               buckets' = [buckets EXCEPT ![n] = [buckets[n] EXCEPT !.entries = p]]
        PROVE  \E b \in Bucket :
                  /\ buckets' = [buckets EXCEPT ![n] = b]
                  /\ Single(b.entries)
                  /\ \A k \in DOMAIN b.entries :
                       b.entries[k].maker = NoResource \/ \E i \in DOMAIN q : q[i] = b.entries[k]
    <2> DEFINE b == [buckets[n] EXCEPT !.entries = p]
    <2>1. b \in Bucket /\ b.entries = p
      BY <1>1, <1>5 DEF Bucket
    <2> HIDE DEF b
    <2>2. QED
      BY <1>5, <2>1 DEF b
  <1>6. ASSUME NEW id \in Ids, NEW endpoint \in Endpoints, NEW l \in EventLists,
               \A i \in DOMAIN q : q[i].id # id,
               buckets' = [buckets EXCEPT ![n] = [buckets[n] EXCEPT !.entries =
                              Append(@, [id |-> id, endpoint |-> endpoint, events |-> l,
                                         filter |-> "none", maker |-> NoResource])]]
        PROVE  \E p \in Seq(Entry) :
                  /\ Single(p)
                  /\ \A k \in DOMAIN p : p[k].maker = NoResource \/ \E i \in DOMAIN q : q[i] = p[k]
                  /\ buckets' = [buckets EXCEPT ![n] = [buckets[n] EXCEPT !.entries = p]]
    <2> DEFINE e == [id |-> id, endpoint |-> endpoint, events |-> l, filter |-> "none", maker |-> NoResource]
    <2>1. e \in Entry /\ e.id = id /\ e.maker = NoResource
      BY NotificationAssumption DEF Entry
    <2>2. buckets' = [buckets EXCEPT ![n] = [buckets[n] EXCEPT !.entries = Append(q, e)]]
      BY <1>6
    <2> HIDE DEF e
    <2>3. Lacks(q, e)
      BY <1>6, <2>1 DEF Lacks, Matches, SameARN
    <2>4. Append(q, e) \in Seq(Entry) /\ Single(Append(q, e))
      BY <1>1, <2>1, <2>3, AppendSingle
    <2>5. \A k \in DOMAIN Append(q, e) : Append(q, e)[k] = e \/ (k \in DOMAIN q /\ Append(q, e)[k] = q[k])
      BY <1>1
    <2>6. QED
      BY <2>1, <2>2, <2>4, <2>5
  <1>7. ASSUME NEW i \in DOMAIN q,
               buckets' = [buckets EXCEPT ![n] = [buckets[n] EXCEPT !.entries = RemoveAt(@, i)]]
        PROVE  \E p \in Seq(Entry) :
                  /\ Single(p)
                  /\ \A k \in DOMAIN p : p[k].maker = NoResource \/ \E j \in DOMAIN q : q[j] = p[k]
                  /\ buckets' = [buckets EXCEPT ![n] = [buckets[n] EXCEPT !.entries = p]]
    <2>1. RemoveAt(q, i) \in Seq(Entry) /\ Single(RemoveAt(q, i))
      BY <1>1, RemoveSingle
    <2>2. \A k \in DOMAIN RemoveAt(q, i) : \E j \in DOMAIN q : q[j] = RemoveAt(q, i)[k]
      <3>1. /\ DOMAIN RemoveAt(q, i) = 1..(Len(q) - 1) /\ Len(q) \in Nat /\ DOMAIN q = 1..Len(q)
            /\ \A k \in DOMAIN RemoveAt(q, i) : RemoveAt(q, i)[k] = IF k < i THEN q[k] ELSE q[k + 1]
        BY <1>1, RemoveAtFacts
      <3>2. \A k \in DOMAIN RemoveAt(q, i) : k \in DOMAIN q /\ k + 1 \in DOMAIN q
        BY <3>1
      <3>3. QED
        BY <3>1, <3>2
    <2>3. buckets' = [buckets EXCEPT ![n] = [buckets[n] EXCEPT !.entries = RemoveAt(q, i)]]
      BY <1>7
    <2>4. QED
      BY <2>1, <2>2, <2>3
  <1> HIDE DEF q
  <1>8. QED
    BY <1>4, <1>5, <1>6, <1>7 DEF ForeignClient, q

LEMMA ConfigsStep ==
  ASSUME NotificationInv, [Next]_vars
  PROVE  ConfigsInv'
  <1>1. /\ ReconcilerInv /\ ConfigsInv
        /\ buckets \in [Names -> Bucket] /\ held \in [Workers -> Seq(Entry)]
        /\ \A n \in Names : buckets[n].entries \in Seq(Entry) /\ Single(buckets[n].entries)
        /\ \A w \in Workers : Single(held[w])
    BY DEF NotificationInv, ConfigsInv, NotificationTypes, Bucket
  <1>2. <<>> \in Seq(Entry) /\ Single(<<>>)
    BY DEF Single
  <1>3. ASSUME NEW w \in Workers, pc[w] # "idle" PROVE mem[w].spec.bucket \in Names
    BY <1>1, <1>3, WorkerFacts DEF NotificationInv, BucketsNamed, NamesBucket
  <1>4. ASSUME NEW w \in Workers, WorkerStep(w)
        PROVE  /\ NotificationTypes'
               /\ \A n \in Names : Single(buckets'[n].entries)
               /\ \A v \in Workers : Single(held'[v])
    <2>1. CASE /\ buckets' = buckets
               /\ \/ held' = held
                  \/ held' = [held EXCEPT ![w] = <<>>]
                  \/ pc[w] # "idle" /\ held' = [held EXCEPT ![w] = BucketOf(w).entries]
      <3>1. pc[w] # "idle" => BucketOf(w).entries \in Seq(Entry) /\ Single(BucketOf(w).entries)
        BY <1>1, <1>3 DEF BucketOf
      <3>2. held' \in [Workers -> Seq(Entry)] /\ \A v \in Workers : Single(held'[v])
        BY <1>1, <1>2, <2>1, <3>1
      <3>3. QED
        BY <1>1, <2>1, <3>2 DEF NotificationTypes
    <2>2. CASE /\ pc[w] \in {"create2", "update2", "delete2"}
               /\ buckets' = [buckets EXCEPT ![mem[w].spec.bucket].entries = Written(w)]
               /\ held' = [held EXCEPT ![w] = <<>>]
      <3> DEFINE n == mem[w].spec.bucket
                 q == Written(w)
                 b == [buckets[n] EXCEPT !.entries = q]
      <3>1. n \in Names /\ q \in Seq(Entry) /\ Single(q)
        BY <1>3, <2>2, WrittenFacts
      <3>2. b \in Bucket /\ b.entries = q
        BY <1>1, <3>1 DEF Bucket
      <3>3. buckets' = [buckets EXCEPT ![n] = b]
        BY <2>2
      <3> HIDE DEF b, q, n
      <3>4. buckets' \in [Names -> Bucket] /\ \A k \in Names : Single(buckets'[k].entries)
        BY <1>1, <3>1, <3>2, <3>3
      <3>5. held' \in [Workers -> Seq(Entry)] /\ \A v \in Workers : Single(held'[v])
        BY <1>1, <1>2, <2>2
      <3>6. QED
        BY <3>4, <3>5 DEF NotificationTypes
    <2>3. QED
      BY <1>4, <2>1, <2>2, WorkerStepConfigs
  <1>5. ASSUME NEW n \in Names, ForeignClient(n)
        PROVE  /\ NotificationTypes'
               /\ \A k \in Names : Single(buckets'[k].entries)
               /\ \A v \in Workers : Single(held'[v])
    <2>1. PICK b \in Bucket : buckets' = [buckets EXCEPT ![n] = b] /\ Single(b.entries)
      BY <1>1, <1>5, ForeignFacts
    <2>2. held' = held
      BY <1>5, ForeignLeaves
    <2>3. QED
      BY <1>1, <2>1, <2>2 DEF NotificationTypes
  <1>6. /\ NotificationTypes'
        /\ \A n \in Names : Single(buckets'[n].entries)
        /\ \A v \in Workers : Single(held'[v])
    BY <1>1, <1>4, <1>5, NextCases, UserStepIsStepOfUser DEF vars, NotificationTypes
  <1>7. ASSUME NEW w \in Workers, pc'[w] = "create2" PROVE Lacks(held'[w], mem'[w].spec)
    <2>1. CASE WorkerStep(w)
      BY <1>7, <2>1, CreateStage
    <2>2. CASE ~WorkerStep(w)
      <3>1. pc'[w] = pc[w] /\ mem'[w] = mem[w]
        BY <1>1, <2>2, OthersWait DEF Bystander
      <3>2. held'[w] = held[w]
        <4>1. ASSUME NEW v \in Workers, WorkerStep(v) PROVE held'[w] = held[w]
          BY <1>1, <2>2, <4>1, WorkerStepConfigs
        <4>2. QED
          BY <4>1, NextCases, UserStepIsStepOfUser, ForeignLeaves DEF vars
      <3>3. QED
        BY <1>1, <1>7, <3>1, <3>2 DEF ConfigsInv
    <2>3. QED
      BY <2>1, <2>2
  <1>8. QED
    BY <1>6, <1>7 DEF ConfigsInv

LEMMA NotificationInvariant == Spec => []NotificationInv
  <1>1. Init => NotificationInv
    <2> SUFFICES ASSUME Init PROVE NotificationInv
      OBVIOUS
    <2>1. ReconcilerInv
      BY InitInv DEF Init
    <2>2. /\ \A r \in Resources : api[r] = Gone
          /\ \A w \in Workers : /\ pc[w] = "idle" /\ held[w] = <<>>
                                /\ \A r \in Resources : cache[w][r] = Gone
      BY DEF Init, ReconcilerInit
    <2>3. BucketsNamed
      BY <2>2, GoneFacts DEF BucketsNamed, NamesBucket
    <2>4. buckets \in [Names -> {NoBucket, [NoBucket EXCEPT !.exists = TRUE]}]
      BY DEF Init
    <2>5. buckets \in [Names -> Bucket] /\ \A n \in Names : buckets[n].entries = <<>>
      BY <2>4, NoBucketFacts
    <2>6. held \in [Workers -> Seq(Entry)]
      BY DEF Init
    <2>7. Single(<<>>)
      BY DEF Single
    <2>8. QED
      BY <2>1, <2>2, <2>3, <2>5, <2>6, <2>7 DEF NotificationInv, ConfigsInv, NotificationTypes
  <1>2. NotificationInv /\ [Next]_vars => NotificationInv'
    BY NotificationStepSim, StepInv, BucketsNamedStep, ConfigsStep DEF NotificationInv
  <1>3. QED
    BY <1>1, <1>2, PTL DEF Spec

(* The types: no resource without a bucket gets past the webhook, and a     *)
(* configuration keeps its shape through every read, edit and write.        *)
THEOREM NotificationTypesOK == Spec => []TypeOK
  <1>1. NotificationInv => TypeOK
    BY DEF NotificationInv, ConfigsInv, NotificationTypes, ReconcilerInv, TypeOK, Bucket
  <1>2. QED
    BY <1>1, NotificationInvariant, PTL

(* However many replicas, resources and other clients read and write the    *)
(* configuration of a bucket as a whole, and whichever of them write back   *)
(* what is no longer so, it never has two entries for one webhook           *)
(* (create.go Create, "idempotency").                                       *)
THEOREM NotificationSingle == Spec => []NoDuplicates
  <1>1. NotificationInv => NoDuplicates
    BY DEF NotificationInv, ConfigsInv, Single, NoDuplicates
  <1>2. QED
    BY <1>1, NotificationInvariant, PTL


(* What others have in a bucket stays: only a write can take an entry away, *)
(* and it keeps every entry with another ID that the worker has read,       *)
(* however many replicas read and write the same bucket (update.go,         *)
(* delete.go).                                                              *)
THEOREM NotificationKeepsOthers == Spec => KeepsOthers
  <1> DEFINE A == \A n \in Names : \A e \in ToSet(buckets[n].entries) : Vanishes(n, e) /\ ops' = ops =>
                    \E w \in Workers : /\ pc[w] \in {"create2", "update2", "delete2"}
                                       /\ mem[w].spec.id = e.id \/ e \notin ToSet(held[w])
  <1>1. NotificationInv /\ [Next]_vars => A
    <2> SUFFICES ASSUME NotificationInv, [Next]_vars, NEW n \in Names, NEW e \in ToSet(buckets[n].entries),
                        Vanishes(n, e), ops' = ops
                 PROVE  \E w \in Workers : /\ pc[w] \in {"create2", "update2", "delete2"}
                                           /\ mem[w].spec.id = e.id \/ e \notin ToSet(held[w])
      OBVIOUS
    <2>1. ReconcilerInv /\ buckets \in [Names -> Bucket] /\ ops \in Nat
      BY DEF NotificationInv, ConfigsInv, NotificationTypes, ReconcilerInv, ReconcilerTypeOK
    <2>2. e \notin ToSet(buckets'[n].entries)
      BY DEF Vanishes, Matches, SameARN
    <2>3. PICK w \in Workers : WorkerStep(w)
      BY <2>1, <2>2, NextCases, UserStepIsStepOfUser, ForeignLeaves DEF vars
    <2> DEFINE k == mem[w].spec.bucket
    <2>4. /\ pc[w] \in {"create2", "update2", "delete2"}
          /\ buckets' = [buckets EXCEPT ![k].entries = Written(w)]
      BY <2>2, <2>3, WorkerStepConfigs
    <2> HIDE DEF k
    <2>5. k = n /\ buckets'[n].entries = Written(w)
      BY <2>1, <2>2, <2>4 DEF Bucket
    <2>6. ASSUME mem[w].spec.id # e.id, e \in ToSet(held[w]) PROVE FALSE
      <3>1. PICK i \in DOMAIN held[w] : held[w][i] = e
        BY <2>6 DEF ToSet
      <3>2. PICK j \in DOMAIN Written(w) : Written(w)[j] = e
        BY <2>4, <2>6, <3>1, WrittenFacts
      <3>3. e \in ToSet(Written(w))
        BY <3>2 DEF ToSet
      <3>4. QED
        BY <2>2, <2>5, <3>3
    <2>7. QED
      BY <2>4, <2>6
  <1>2. QED
    BY <1>1, NotificationInvariant, PTL DEF Spec, KeepsOthers

-----------------------------------------------------------------------------
(* With one replica.                                                        *)

OneReplica == \A v, w \in Workers : v = w

(* A worker that lets its resource go has the latest spec and has seen that *)
(* the bucket has no entry for it; what appears since then is not its own.  *)
NoneOfIts(w) ==
    \A i \in DOMAIN BucketOf(w).entries :
        ~(Matches(BucketOf(w).entries[i], mem[w].spec) /\ BucketOf(w).entries[i].maker = cur[w])

KnowsEntry(w) ==
    /\ KnowsCopy(w)
    /\ pc[w] = "finalize" /\ mem[w].spec.hook => NoneOfIts(w)

EntriesKnown == NotificationInv /\ HeldIsThere /\ \A w \in Workers : KnowsEntry(w)

(* A worker's steps from Observe.                                           *)
LEMMA LookingAtObserve ==
  ASSUME ReconcilerInv, NEW w \in Workers, WorkerStep(w), pc[w] = "observe", pc'[w] = "observe"
  PROVE  UNCHANGED <<api, mem>>
  <1>1. pc \in [Workers -> Stages]
    BY DEF ReconcilerInv, ReconcilerTypeOK
  <1>2. ASSUME Observe(w) \/ ObserveFails(w) PROVE FALSE
    <2>1. ASSUME NEW m, AfterObserveError(w, m) PROVE FALSE
      BY <1>1, <2>1 DEF AfterObserveError
    <2>2. ASSUME NEW m, NEW outcome \in Observed, AfterObserve(w, m, outcome) PROVE FALSE
      BY <1>1, <2>2 DEF AfterObserve, AfterFinalizer, Observed
    <2>3. {"absent", "upToDate", "outdated"} \subseteq Observed
      BY DEF Observed
    <2>4. QED
      BY <1>2, <2>1, <2>2, <2>3, ObserveCases DEF ObserveFails
  <1>3. ASSUME RuntimeStep(w) PROVE FALSE
    BY <1>3 DEF RuntimeStep, AddFinalizer, MarkPending, Observed, RecordCreation, RecordFailure,
                WriteStatus, Finalize, Conflict
  <1>4. ASSUME CallStep(w) PROVE FALSE
    BY <1>4 DEF CallStep, GetForCreate, SetForCreate, GetForUpdate, SetForUpdate, GetForDelete, SetForDelete
  <1>5. ASSUME Stop(w) \/ \E r \in Resources : StartReconcile(w, r) PROVE FALSE
    BY <1>1, <1>5 DEF Stop, Crash, Return, StartReconcile, Load
  <1>6. SyncCache(w)
    BY <1>2, <1>3, <1>4, <1>5 DEF WorkerStep, Step, CallStep
  <1>7. QED
    BY <1>6 DEF SyncCache, CacheSync

(* What it saw when it lets the resource go.                                *)
LEMMA FinalizeStage ==
  ASSUME NotificationInv, NEW w \in Workers, WorkerStep(w), pc'[w] = "finalize"
  PROVE  /\ cur'[w] = cur[w] /\ buckets' = buckets
         /\ mem'[w].ann = mem[w].ann /\ mem'[w].spec = mem[w].spec
         /\ \/ pc[w] = "finalize"
            \/ pc[w] = "observe" /\ (mem[w].spec.hook => Lacks(BucketOf(w).entries, mem[w].spec))
  <1>1. ReconcilerInv /\ pc \in [Workers -> Stages] /\ mem \in [Workers -> Object]
    BY DEF NotificationInv, ReconcilerInv, ReconcilerTypeOK
  <1>2. ASSUME NEW m, AfterObserveError(w, m) PROVE FALSE
    BY <1>1, <1>2 DEF AfterObserveError
  <1>3. ASSUME NEW m, AfterObserve(w, m, "upToDate") \/ AfterObserve(w, m, "outdated") PROVE FALSE
    BY <1>1, <1>3 DEF AfterObserve, AfterFinalizer
  <1>4. CASE Observe(w)
    <2>1. /\ AfterObserve(w, [mem[w] EXCEPT !.ready = "Creating"], "absent")
          /\ FindWebhookConfiguration(mem[w].spec, BucketOf(w).entries) = <<>>
      BY <1>3, <1>4, ObserveCases
    <2>2. /\ pc[w] = "observe" /\ cur' = cur
          /\ mem' = [mem EXCEPT ![w] = [mem[w] EXCEPT !.ready = "Creating"]]
      BY <2>1 DEF AfterObserve
    <2>3. mem'[w].ann = mem[w].ann /\ mem'[w].spec = mem[w].spec
      BY <1>1, <2>2 DEF Object
    <2>4. BucketOf(w).entries \in Seq(Entry)
      BY <1>1, <2>2, WorkerFacts
         DEF NotificationInv, BucketsNamed, NamesBucket, ConfigsInv, NotificationTypes, Bucket, BucketOf
    <2>5. QED
      BY <1>4, <2>1, <2>2, <2>3, <2>4, FindFacts DEF Observe, minio
  <1>5. ~ObserveFails(w)
    BY <1>2 DEF ObserveFails
  <1>6. CASE SyncCache(w)
    BY <1>6 DEF SyncCache, CacheSync, minio
  <1>7. ASSUME CallStep(w) PROVE FALSE
    BY <1>1, <1>7, CallCases DEF ExternalCall
  <1>8. ASSUME RuntimeStep(w) \/ Stop(w) \/ \E r \in Resources : StartReconcile(w, r) PROVE FALSE
    BY <1>1, <1>8 DEF RuntimeStep, AddFinalizer, MarkPending, ClientUpdate, AfterFinalizer, Observed,
                      RecordCreation, RecordFailure, WriteStatus, Finalize, Conflict, Return, Stop, Crash,
                      StartReconcile, Load
  <1>9. QED
    BY <1>4, <1>5, <1>6, <1>7, <1>8 DEF WorkerStep, Step, CallStep

(* The worker that takes the step.                                          *)
LEMMA EntryActor ==
  ASSUME EntriesKnown, NEW w \in Workers, WorkerStep(w)
  PROVE  KnowsEntry(w)'
  <1>1. NotificationInv /\ ReconcilerInv /\ KnowsEntry(w)
    BY DEF EntriesKnown, NotificationInv
  <1>2. KnowsCopy(w)'
    BY <1>1, LookingAtObserve, FinalizeStage, KnowsCopyStep, WorkerStepIsStepOf DEF KnowsEntry
  <1>3. ASSUME pc'[w] = "finalize", mem'[w].spec.hook PROVE NoneOfIts(w)'
    <2>1. /\ cur'[w] = cur[w] /\ mem'[w].spec = mem[w].spec /\ BucketOf(w)' = BucketOf(w)
          /\ \/ pc[w] = "finalize"
             \/ Lacks(BucketOf(w).entries, mem[w].spec)
      BY <1>1, <1>3, FinalizeStage DEF BucketOf
    <2>2. NoneOfIts(w)
      BY <1>1, <1>3, <2>1 DEF KnowsEntry, NoneOfIts, Lacks
    <2>3. QED
      BY <2>1, <2>2 DEF NoneOfIts
  <1>4. QED
    BY <1>2, <1>3 DEF KnowsEntry

(* The entries that other clients add are nobody's.                         *)
LEMMA EntryAside ==
  ASSUME EntriesKnown, NEW w \in Workers,
         \/ \E r \in Resources : UserStep(r)
         \/ \E n \in Names : ForeignClient(n)
  PROVE  KnowsEntry(w)'
  <1>1. /\ NotificationInv /\ ReconcilerInv /\ ConfigsInv /\ KnowsEntry(w)
        /\ buckets \in [Names -> Bucket]
    BY DEF EntriesKnown, NotificationInv, ConfigsInv, NotificationTypes
  <1>2. ASSUME NEW r \in Resources, UserStep(r) PROVE KnowsEntry(w)'
    <2>1. Bystander(w) /\ buckets' = buckets
      BY <1>1, <1>2, StepOfUserAside, UserStepIsStepOfUser
    <2>2. KnowsCopy(w)'
      BY <1>1, <2>1, KnowsCopyAside DEF KnowsEntry
    <2>3. QED
      BY <1>1, <2>1, <2>2 DEF KnowsEntry, NoneOfIts, BucketOf, Bystander
  <1>3. ASSUME NEW n \in Names, ForeignClient(n) PROVE KnowsEntry(w)'
    <2>1. UNCHANGED <<api, fresh, pc, cur, mem>>
      BY <1>3, ForeignLeaves
    <2>2. PICK b \in Bucket :
            /\ buckets' = [buckets EXCEPT ![n] = b]
            /\ \A k \in DOMAIN b.entries :
                 \/ b.entries[k].maker = NoResource
                 \/ \E i \in DOMAIN buckets[n].entries : buckets[n].entries[i] = b.entries[k]
      BY <1>1, <1>3, ForeignFacts
    <2>3. ASSUME pc[w] = "finalize", mem[w].spec.hook PROVE NoneOfIts(w)'
      <3>1. cur[w] \in Resources /\ cur[w] # NoResource /\ mem[w].spec.bucket \in Names
        BY <1>1, <2>3, WorkerFacts, ReconcilerAssumption DEF NotificationInv, BucketsNamed, NamesBucket
      <3>2. NoneOfIts(w)
        BY <1>1, <2>3 DEF KnowsEntry
      <3>3. CASE mem[w].spec.bucket = n
        <4>1. BucketOf(w) = buckets[n] /\ BucketOf(w)' = b
          BY <1>1, <2>1, <2>2, <3>3 DEF BucketOf
        <4>2. ASSUME NEW k \in DOMAIN b.entries
              PROVE  ~(Matches(b.entries[k], mem[w].spec) /\ b.entries[k].maker = cur[w])
          BY <2>2, <3>1, <3>2, <4>1, <4>2 DEF NoneOfIts
        <4>3. QED
          BY <2>1, <4>1, <4>2 DEF NoneOfIts
      <3>4. CASE mem[w].spec.bucket # n
        <4>1. BucketOf(w)' = BucketOf(w)
          BY <1>1, <2>1, <2>2, <3>1, <3>4 DEF BucketOf
        <4>2. QED
          BY <2>1, <3>2, <4>1 DEF NoneOfIts
      <3>5. QED
        BY <3>3, <3>4
    <2>4. QED
      BY <1>1, <2>1, <2>3 DEF KnowsEntry, KnowsCopy
  <1>4. QED
    BY <1>2, <1>3

LEMMA EntriesKnownInv == ASSUME OneReplica PROVE Spec => []EntriesKnown
  <1>1. Init => HeldIsThere /\ \A w \in Workers : KnowsEntry(w)
    BY HeldInit DEF Init, ReconcilerInit, KnowsEntry, KnowsCopy
  <1>2. NotificationInv /\ NotificationInv' /\ HeldIsThere /\ (\A w \in Workers : KnowsEntry(w)) /\ [Next]_vars
          => HeldIsThere' /\ (\A w \in Workers : KnowsEntry(w))'
    <2> SUFFICES ASSUME EntriesKnown, [Next]_vars
                 PROVE  HeldIsThere' /\ \A w \in Workers : KnowsEntry(w)'
      BY DEF EntriesKnown
    <2>1. HeldIsThere'
      BY NextIsSomeStep, HeldStep DEF EntriesKnown, NotificationInv
    <2>2. ASSUME NEW w \in Workers PROVE KnowsEntry(w)'
      <3>1. ASSUME NEW v \in Workers, WorkerStep(v) PROVE KnowsEntry(w)'
        BY <3>1, EntryActor DEF OneReplica
      <3>2. CASE UNCHANGED vars
        BY <3>2 DEF vars, reconcilerVars, EntriesKnown, KnowsEntry, KnowsCopy, NoneOfIts, BucketOf
      <3>3. QED
        BY <3>1, <3>2, NextCases, EntryAside
    <2>3. QED
      BY <2>1, <2>2
  <1>3. QED
    BY <1>1, <1>2, NotificationInvariant, PTL DEF Spec, EntriesKnown

(* With one replica, a resource disappears only after the entry it made for *)
(* the webhook of its spec: the finalizer goes first neither for an error   *)
(* nor for a copy that lags (observe.go, delete.go).                        *)
THEOREM NotificationLeavesFirst == ASSUME OneReplica PROVE Spec => EntryGoesFirst
  <1> DEFINE A == \A r \in Resources : api[r].finalizer /\ ~api'[r].present /\ api[r].spec.hook =>
                    \A e \in Entries(r) : ~(Matches(e, api[r].spec) /\ e.maker = r)
  <1>1. EntriesKnown /\ [Next]_vars => A
    <2> SUFFICES ASSUME EntriesKnown, [Next]_vars, NEW r \in Resources,
                        api[r].finalizer, ~api'[r].present, api[r].spec.hook
                 PROVE  \A e \in Entries(r) : ~(Matches(e, api[r].spec) /\ e.maker = r)
      OBVIOUS
    <2>1. api[r].present /\ ReconcilerInv
      BY DEF EntriesKnown, HeldIsThere, NotificationInv
    <2>2. Finalized(r)
      BY <2>1, NextIsSomeStep, ResourceChanges DEF Stays, Named, Recorded, Dropped, Applied
    <2>3. PICK w \in Workers : cur[w] = r /\ w \in fresh /\ pc[w] = "finalize"
      BY <2>2 DEF Finalized
    <2>4. mem[w].spec = api[r].spec /\ NoneOfIts(w)
      BY <2>3 DEF EntriesKnown, KnowsEntry, KnowsCopy
    <2>5. QED
      BY <2>3, <2>4 DEF NoneOfIts, BucketOf, Entries, ToSet
  <1>2. QED
    BY <1>1, EntriesKnownInv, PTL DEF Spec, EntryGoesFirst

=============================================================================
