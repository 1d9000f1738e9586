-------------------------- MODULE LifecycleProofs --------------------------
(***************************************************************************)
(* Every controller built on the managed reconciler implements Lifecycle,  *)
(* for any number of replicas, resources and faults.  The reconciler       *)
(* decides by copies that may be old; what it needs to know besides        *)
(* ReconcilerInv is on which side of a deletion a worker's copy is.        *)
(***************************************************************************)
EXTENDS ReconcilerProofs

(* A worker that may add the finalizer or announce a creation has a copy    *)
(* that is not being deleted; one that lets go has a copy that is.          *)
KnowsDeletion ==
    \A w \in Workers :
        /\ pc[w] \in Observed => ~mem[w].deleting
        /\ pc[w] = "finalize" => mem[w].deleting

LifeInv == ReconcilerInv /\ KnowsDeletion

(* A worker's step keeps it if the worker's own copy does.                  *)
LEMMA KnowsLocal ==
  ASSUME LifeInv, NEW w \in Workers, NEW m, NEW stage,
         pc' = [pc EXCEPT ![w] = stage],
         mem' = [mem EXCEPT ![w] = m],
         stage \in Observed => ~m.deleting,
         stage = "finalize" => m.deleting
  PROVE  KnowsDeletion'
  <1>1. pc \in [Workers -> Stages] /\ mem \in [Workers -> Object]
    BY DEF LifeInv, ReconcilerInv, ReconcilerTypeOK
  <1>2. SUFFICES ASSUME NEW v \in Workers
                 PROVE  /\ pc'[v] \in Observed => ~mem'[v].deleting
                        /\ pc'[v] = "finalize" => mem'[v].deleting
    BY DEF KnowsDeletion
  <1>3. CASE v = w
    BY <1>1, <1>3
  <1>4. CASE v # w
    BY <1>1, <1>4 DEF LifeInv, KnowsDeletion
  <1>5. QED
    BY <1>3, <1>4

(* So does a step after which the worker is not at one of these stages.     *)
LEMMA KnowsElsewhere ==
  ASSUME LifeInv, NEW w \in Workers, NEW m, NEW stage,
         pc' = [pc EXCEPT ![w] = stage],
         mem' = [mem EXCEPT ![w] = m],
         stage \notin Observed \cup {"finalize"}
  PROVE  KnowsDeletion'
  BY KnowsLocal

(* After Observe, the copy's deletion decides where the worker goes.        *)
LEMMA KnowsObserve ==
  ASSUME LifeInv, NEW w \in Workers, NEW at \in Ats, NEW ready \in Readiness,
         NEW outcome \in Observed,
         AfterObserve(w, [mem[w] EXCEPT !.at = at, !.ready = ready], outcome)
  PROVE  KnowsDeletion'
  <1> DEFINE m == [mem[w] EXCEPT !.at = at, !.ready = ready]
             stage == IF mem[w].deleting
                        THEN IF outcome = "absent" THEN "finalize" ELSE "delete"
                        ELSE IF mem[w].finalizer THEN AfterFinalizer(outcome) ELSE outcome
  <1>1. mem[w] \in Object
    BY DEF LifeInv, ReconcilerInv, ReconcilerTypeOK
  <1>2. m.deleting = mem[w].deleting
    BY <1>1 DEF Object
  <1>3. pc' = [pc EXCEPT ![w] = stage] /\ mem' = [mem EXCEPT ![w] = m]
    BY DEF AfterObserve
  <1>4. mem[w].deleting => stage \in {"finalize", "delete"}
    OBVIOUS
  <1>5. ~mem[w].deleting => stage # "finalize"
    BY DEF AfterFinalizer, Observed
  <1>6. (stage \in Observed => ~m.deleting) /\ (stage = "finalize" => m.deleting)
    BY <1>2, <1>4, <1>5 DEF Observed
  <1>7. QED
    BY <1>3, <1>6, KnowsLocal

(* A copy that was written is the API server's: the finalizer is added only *)
(* to a resource that is not being deleted.                                 *)
LEMMA KnowsUpdate ==
  ASSUME LifeInv, NEW w \in Workers, NEW s \in Specs, NEW name \in Anns,
         Initialize(w, name, s) \/ AddFinalizer(w, s) \/ MarkPending(w, s)
  PROVE  KnowsDeletion'
  <1>1. CASE Initialize(w, name, s)
    BY <1>1, KnowsElsewhere DEF Initialize, ClientUpdate, Observed
  <1>2. CASE MarkPending(w, s)
    BY <1>2, KnowsElsewhere DEF MarkPending, ClientUpdate, Observed
  <1>3. CASE AddFinalizer(w, s)
    <2> DEFINE o == [api[cur[w]] EXCEPT !.finalizer = TRUE, !.spec = s]
               m == [o EXCEPT !.spec = mem[w].spec,
                              !.at = IF o.at = "" THEN mem[w].at ELSE o.at,
                              !.ready = IF o.ready = "" THEN mem[w].ready ELSE o.ready]
    <2>1. /\ pc[w] \in Observed /\ w \in fresh
          /\ mem' = [mem EXCEPT ![w] = m]
          /\ pc' = [pc EXCEPT ![w] = AfterFinalizer(pc[w])]
      BY <1>3 DEF AddFinalizer, ClientUpdate
    <2>2. pc[w] # "idle"
      BY <2>1 DEF Observed
    <2>3. api[cur[w]] \in Object /\ mem[w].deleting = api[cur[w]].deleting
      BY <2>1, <2>2 DEF LifeInv, ReconcilerInv, ReconcilerTypeOK, BusyHasResource, FreshAgrees
    <2>4. ~mem[w].deleting
      BY <2>1 DEF LifeInv, KnowsDeletion
    <2>5. m.deleting = api[cur[w]].deleting
      BY <2>3 DEF Object
    <2>6. AfterFinalizer(pc[w]) # "finalize"
      BY <2>1 DEF AfterFinalizer, Observed
    <2>7. QED
      BY <2>1, <2>3, <2>4, <2>5, <2>6, KnowsLocal
  <1>4. QED
    BY <1>1, <1>2, <1>3

(* Every step keeps both invariants.                                        *)
LEMMA LifeStepInv == LifeInv /\ [ReconcilerNext]_reconcilerVars => LifeInv'
  <1> SUFFICES ASSUME LifeInv, [ReconcilerNext]_reconcilerVars PROVE KnowsDeletion'
    BY StepInv DEF LifeInv
  <1>1. ASSUME NEW w \in Workers, CacheSync(w) PROVE KnowsDeletion'
    BY <1>1 DEF CacheSync, LifeInv, KnowsDeletion
  <1>2. ASSUME NEW w \in Workers, NEW r \in Resources, Load(w, r) PROVE KnowsDeletion'
    BY <1>2, KnowsElsewhere DEF Load, Observed
  <1>3. ASSUME NEW w \in Workers, NEW at \in Ats, NEW ready \in Readiness,
               LET m == [mem[w] EXCEPT !.at = at, !.ready = ready]
               IN  \/ AfterObserveError(w, m)
                   \/ \E outcome \in Observed : AfterObserve(w, m, outcome)
        PROVE  KnowsDeletion'
    <2>1. CASE AfterObserveError(w, [mem[w] EXCEPT !.at = at, !.ready = ready])
      BY <2>1, KnowsElsewhere DEF AfterObserveError, Observed
    <2>2. ASSUME NEW outcome \in Observed,
                 AfterObserve(w, [mem[w] EXCEPT !.at = at, !.ready = ready], outcome)
          PROVE  KnowsDeletion'
      BY <2>2, KnowsObserve
    <2>3. QED
      BY <1>3, <2>1, <2>2
  <1>4. ASSUME NEW w \in Workers, NEW s \in Specs, NEW name \in Anns,
               Initialize(w, name, s) \/ AddFinalizer(w, s) \/ MarkPending(w, s)
        PROVE  KnowsDeletion'
    BY <1>4, KnowsUpdate
  <1>5. ASSUME NEW w \in Workers, NEW s \in Specs, NEW stage \in {"publish", "status"},
               RecordCreation(w, s, stage) \/ RecordFailure(w, s)
        PROVE  KnowsDeletion'
    BY <1>5, KnowsElsewhere DEF RecordCreation, RecordFailure, Observed
  <1>6. ASSUME NEW w \in Workers, NEW stage \in Stages, NEW ann \in Anns, NEW at \in Ats,
               NEW ready \in {mem[w].ready, "Available", "Deleting"},
               ExternalCall(w, stage, ann, at, ready)
        PROVE  KnowsDeletion'
    <2>1. stage \notin Observed \cup {"finalize"}
      BY <1>6 DEF ExternalCall, CreateStages, UpdateStages, DeleteStages, Observed
    <2>2. QED
      BY <1>6, <2>1, KnowsElsewhere DEF ExternalCall
  <1>7. ASSUME NEW w \in Workers, \/ WriteStatus(w) \/ Finalize(w) \/ Conflict(w)
                                  \/ InitializeConflict(w) \/ Crash(w)
        PROVE  KnowsDeletion'
    BY <1>7, KnowsElsewhere
       DEF WriteStatus, Finalize, Conflict, InitializeConflict, Crash, Return, Observed
  <1>8. ASSUME NEW w \in Workers, WriteRefused(w) PROVE KnowsDeletion'
    <2>1. PICK ready : mem' = [mem EXCEPT ![w] = [mem[w] EXCEPT !.ready = ready]]
      BY <1>8 DEF WriteRefused
    <2>2. QED
      BY <1>8, <2>1, KnowsElsewhere DEF WriteRefused, Observed
  <1>9. ASSUME NEW r \in Resources, NEW s \in Specs,
               UserApply(r, s) \/ UserEdit(r, s) \/ UserDelete(r)
        PROVE  KnowsDeletion'
    BY <1>9 DEF UserApply, UserEdit, UserDelete, UserWrite, LifeInv, KnowsDeletion
  <1>10. CASE UNCHANGED <<pc, mem>>
    BY <1>10 DEF LifeInv, KnowsDeletion
  <1>11. "" \in Anns /\ Specs # {} /\ "status" \in {"publish", "status"}
    BY ReconcilerAssumption
  <1>12. QED
    BY <1>1, <1>2, <1>3, <1>4, <1>5, <1>6, <1>7, <1>8, <1>9, <1>10, <1>11
       DEF ReconcilerNext, reconcilerVars

-----------------------------------------------------------------------------
(* The refinement mapping.  A write of resource r turns its phase and       *)
(* creation into those of the record written.                               *)

Phase == [r \in Resources |-> PhaseOf(api[r])]
Creation == [r \in Resources |-> CreationOf(api[r])]

LEMMA WriteBecomes ==
  ASSUME api \in [Resources -> Object], NEW r \in Resources, NEW o \in Object,
         api' = [api EXCEPT ![r] = o]
  PROVE  Life!Become(r, PhaseOf(o), CreationOf(o))
  <1>1. \A q \in Resources : api'[q] = IF q = r THEN o ELSE api[q]
    OBVIOUS
  <1>2. Phase' = [Phase EXCEPT ![r] = PhaseOf(o)]
    <2>1. Phase' = [q \in Resources |-> PhaseOf(api'[q])]
      BY DEF Phase, PhaseOf
    <2>2. [Phase EXCEPT ![r] = PhaseOf(o)] =
             [q \in Resources |-> IF q = r THEN PhaseOf(o) ELSE PhaseOf(api[q])]
      BY DEF Phase
    <2>3. \A q \in Resources : PhaseOf(api'[q]) = IF q = r THEN PhaseOf(o) ELSE PhaseOf(api[q])
      BY <1>1
    <2>4. QED
      BY <2>1, <2>2, <2>3
  <1>3. Creation' = [Creation EXCEPT ![r] = CreationOf(o)]
    <2>1. Creation' = [q \in Resources |-> CreationOf(api'[q])]
      BY DEF Creation, CreationOf
    <2>2. [Creation EXCEPT ![r] = CreationOf(o)] =
             [q \in Resources |-> IF q = r THEN CreationOf(o) ELSE CreationOf(api[q])]
      BY DEF Creation
    <2>3. \A q \in Resources :
             CreationOf(api'[q]) = IF q = r THEN CreationOf(o) ELSE CreationOf(api[q])
      BY <1>1
    <2>4. QED
      BY <2>1, <2>2, <2>3
  <1>4. QED
    BY <1>2, <1>3 DEF Life!Become, Phase, Creation

(* A write that changes neither is a stutter of Lifecycle.                  *)
LEMMA WriteStutters ==
  ASSUME api \in [Resources -> Object], NEW r \in Resources, NEW o \in Object,
         api' = [api EXCEPT ![r] = o],
         SameMeta(o, api[r])
  PROVE  UNCHANGED Life!vars
  <1>1. \A q \in Resources : /\ PhaseOf(api'[q]) = PhaseOf(api[q])
                            /\ CreationOf(api'[q]) = CreationOf(api[q])
    BY DEF PhaseOf, CreationOf, SameMeta
  <1>2. QED
    BY <1>1 DEF Life!vars, PhaseOf, CreationOf

(* What a record of Lifecycle says of the record of the API server.         *)
LEMMA LifeOf ==
  ASSUME NEW r \in Resources
  PROVE  /\ Phase[r] = PhaseOf(api[r])
         /\ Creation[r] = CreationOf(api[r])
  BY DEF Phase, Creation

(* A worker's own write: the finalizer and the announcement.                *)
LEMMA UpdateRefines ==
  ASSUME LifeInv, NEW w \in Workers, NEW s \in Specs, NEW name \in Anns,
         Initialize(w, name, s) \/ AddFinalizer(w, s) \/ MarkPending(w, s)
  PROVE  [Life!Next]_(Life!vars)
  <1> DEFINE r == cur[w]
  <1>1. /\ w \in fresh
        /\ pc[w] # "idle"
    BY DEF Initialize, AddFinalizer, MarkPending, ClientUpdate, Observed
  <1>2. /\ r \in Resources
        /\ api \in [Resources -> Object] /\ api[r] \in Object /\ mem[w] \in Object
        /\ api[r].present
        /\ api[r].deleting = mem[w].deleting
        /\ api[r].finalizer = mem[w].finalizer
        /\ api[r].create = mem[w].create
    BY <1>1 DEF LifeInv, ReconcilerInv, ReconcilerTypeOK, BusyHasResource, FreshAgrees
  <1>3. CASE Initialize(w, name, s)
    <2> DEFINE o == [api[r] EXCEPT !.ann = name, !.spec = s]
    <2>1. api' = [api EXCEPT ![r] = o]
      BY <1>3 DEF Initialize, ClientUpdate, Store
    <2>2. o \in Object /\ SameMeta(o, api[r])
      BY <1>2 DEF Object, SameMeta
    <2>3. QED
      BY <1>2, <2>1, <2>2, WriteStutters
  <1>4. CASE AddFinalizer(w, s)
    <2> DEFINE o == [api[r] EXCEPT !.finalizer = TRUE, !.spec = s]
    <2>1. /\ api' = [api EXCEPT ![r] = o]
          /\ ~mem[w].finalizer /\ ~mem[w].deleting
      BY <1>4 DEF AddFinalizer, ClientUpdate, Store, LifeInv, KnowsDeletion
    <2>2. /\ o \in Object
          /\ o.present /\ ~o.deleting /\ o.finalizer /\ o.create = api[r].create
      BY <1>2, <2>1 DEF Object
    <2>3. /\ PhaseOf(api[r]) = "new" /\ PhaseOf(o) = "held"
          /\ CreationOf(o) = CreationOf(api[r])
      BY <1>2, <2>1, <2>2 DEF PhaseOf, CreationOf
    <2>4. Life!Become(r, "held", CreationOf(api[r]))
      BY <1>2, <2>1, <2>2, <2>3, WriteBecomes
    <2>5. Life!Hold(r)
      BY <1>2, <2>3, <2>4, LifeOf DEF Life!Hold, Phase, Creation
    <2>6. QED
      BY <1>2, <2>5 DEF Life!Next
  <1>5. CASE MarkPending(w, s)
    <2> DEFINE o == [api[r] EXCEPT !.create = "pending", !.spec = s]
    <2>1. /\ api' = [api EXCEPT ![r] = o]
          /\ pc[w] = "absent" /\ mem[w].finalizer
      BY <1>5 DEF MarkPending, ClientUpdate, Store
    <2>2. ~mem[w].deleting /\ mem[w].create # "pending"
      BY <2>1 DEF LifeInv, KnowsDeletion, ReconcilerInv, NothingAnnounced, Observed
    <2>3. /\ o \in Object
          /\ o.present /\ ~o.deleting /\ o.finalizer /\ o.create = "pending"
      BY <1>2, <2>1, <2>2 DEF Object
    <2>4. /\ PhaseOf(api[r]) = "held" /\ PhaseOf(o) = "held"
          /\ CreationOf(api[r]) # "pending" /\ CreationOf(o) = "pending"
      BY <1>2, <2>1, <2>2, <2>3 DEF PhaseOf, CreationOf
    <2>5. Life!Become(r, "held", "pending")
      BY <1>2, <2>1, <2>3, <2>4, WriteBecomes
    <2>6. Life!Announce(r)
      BY <1>2, <2>4, <2>5 DEF Life!Announce
    <2>7. QED
      BY <1>2, <2>6 DEF Life!Next
  <1>6. QED
    BY <1>3, <1>4, <1>5

(* The record of a Create's outcome.                                        *)
LEMMA RecordRefines ==
  ASSUME LifeInv, NEW w \in Workers, NEW s \in Specs, NEW stage \in {"publish", "status"},
         RecordCreation(w, s, stage) \/ RecordFailure(w, s)
  PROVE  [Life!Next]_(Life!vars)
  <1> DEFINE r == cur[w]
  <1>1. Creating(w) /\ pc[w] # "idle"
    BY DEF RecordCreation, RecordFailure, Creating, CreateStages
  <1>2. /\ r \in Resources
        /\ api \in [Resources -> Object] /\ api[r] \in Object /\ mem[w] \in Object
        /\ api[r].present /\ api[r].finalizer /\ api[r].create = "pending"
    BY <1>1 DEF LifeInv, ReconcilerInv, ReconcilerTypeOK, BusyHasResource, CreateAnnounced
  <1>3. PICK o \in Object : /\ api' = [api EXCEPT ![r] = o]
                            /\ o.present /\ o.finalizer /\ o.deleting = api[r].deleting
                            /\ o.create \in {"succeeded", "failed"}
    <2>1. CASE RecordCreation(w, s, stage)
      <3> DEFINE o == [api[r] EXCEPT !.create = "succeeded", !.ann = mem[w].ann, !.spec = s]
      <3>1. api' = [api EXCEPT ![r] = o]
        BY <2>1 DEF RecordCreation, Store
      <3>2. /\ o \in Object /\ o.present /\ o.finalizer /\ o.deleting = api[r].deleting
            /\ o.create = "succeeded"
        BY <1>2 DEF Object
      <3>3. QED
        BY <3>1, <3>2
    <2>2. CASE RecordFailure(w, s)
      <3> DEFINE o == [api[r] EXCEPT !.create = "failed", !.spec = s]
      <3>1. api' = [api EXCEPT ![r] = o]
        BY <2>2 DEF RecordFailure, Store
      <3>2. /\ o \in Object /\ o.present /\ o.finalizer /\ o.deleting = api[r].deleting
            /\ o.create = "failed"
        BY <1>2 DEF Object
      <3>3. QED
        BY <3>1, <3>2
    <2>3. QED
      BY <2>1, <2>2
  <1>4. /\ PhaseOf(o) = PhaseOf(api[r]) /\ PhaseOf(o) \in {"held", "ending"}
        /\ CreationOf(api[r]) = "pending" /\ CreationOf(o) \in {"succeeded", "failed"}
    BY <1>2, <1>3 DEF PhaseOf, CreationOf
  <1>5. Life!Become(r, PhaseOf(api[r]), CreationOf(o))
    BY <1>2, <1>3, <1>4, WriteBecomes
  <1>6. Life!Record(r)
    BY <1>2, <1>4, <1>5 DEF Life!Record
  <1>7. QED
    BY <1>2, <1>6 DEF Life!Next

(* The end of a reconcile: a status write, or the removal of the finalizer. *)
LEMMA EndRefines ==
  ASSUME LifeInv, NEW w \in Workers, WriteStatus(w) \/ Finalize(w)
  PROVE  [Life!Next]_(Life!vars)
  <1> DEFINE r == cur[w]
  <1>1. w \in fresh /\ pc[w] # "idle"
    BY DEF WriteStatus, Finalize
  <1>2. /\ r \in Resources
        /\ api \in [Resources -> Object] /\ api[r] \in Object /\ mem[w] \in Object
        /\ api[r].present
        /\ api[r].deleting = mem[w].deleting
        /\ api[r].create = mem[w].create
    BY <1>1 DEF LifeInv, ReconcilerInv, ReconcilerTypeOK, BusyHasResource, FreshAgrees
  <1>3. CASE WriteStatus(w)
    <2> DEFINE o == [api[r] EXCEPT !.ready = mem[w].ready, !.at = mem[w].at]
    <2>1. o \in Object /\ SameMeta(o, api[r])
      BY <1>2 DEF Object, SameMeta
    <2>2. api' = [api EXCEPT ![r] = o] \/ UNCHANGED api
      BY <1>3 DEF WriteStatus, Store
    <2>3. CASE api' = [api EXCEPT ![r] = o]
      BY <1>2, <2>1, <2>3, WriteStutters
    <2>4. CASE UNCHANGED api
      BY <2>4 DEF Life!vars, PhaseOf, CreationOf
    <2>5. QED
      BY <2>2, <2>3, <2>4
  <1>4. CASE Finalize(w)
    <2>1. api' = [api EXCEPT ![r] = Gone] /\ pc[w] = "finalize"
      BY <1>4 DEF Finalize, Store
    <2>2. mem[w].deleting /\ mem[w].create # "pending"
      BY <2>1 DEF LifeInv, KnowsDeletion, ReconcilerInv, NothingAnnounced
    <2>3. /\ PhaseOf(api[r]) = "ending" /\ CreationOf(api[r]) # "pending"
          /\ PhaseOf(Gone) = "gone" /\ CreationOf(Gone) = "none"
      BY <1>2, <2>2 DEF PhaseOf, CreationOf, Gone
    <2>4. Life!Become(r, "gone", "none")
      BY <1>2, <2>1, <2>3, GoneIsObject, WriteBecomes
    <2>5. Life!LetGo(r)
      BY <1>2, <2>3, <2>4 DEF Life!LetGo
    <2>6. QED
      BY <1>2, <2>5 DEF Life!Next
  <1>5. QED
    BY <1>3, <1>4

(* Users admit, withdraw and end resources; an edit of a spec is no step of *)
(* Lifecycle.                                                               *)
LEMMA UserRefines ==
  ASSUME LifeInv, NEW r \in Resources, NEW s \in Specs,
         UserApply(r, s) \/ UserEdit(r, s) \/ UserDelete(r)
  PROVE  [Life!Next]_(Life!vars)
  <1>1. api \in [Resources -> Object] /\ api[r] \in Object
    BY DEF LifeInv, ReconcilerInv, ReconcilerTypeOK
  <1>2. CASE UserApply(r, s)
    <2> DEFINE o == [Gone EXCEPT !.present = TRUE, !.spec = s]
    <2>1. api' = [api EXCEPT ![r] = o] /\ ~api[r].present
      BY <1>2 DEF UserApply, UserWrite, Store
    <2>2. o \in Object
      BY GoneIsObject DEF Object
    <2>3. o.present /\ ~o.deleting /\ ~o.finalizer /\ o.create = ""
      BY DEF Gone
    <2>4. PhaseOf(api[r]) = "gone" /\ PhaseOf(o) = "new" /\ CreationOf(o) = "none"
      BY <2>1, <2>3 DEF PhaseOf, CreationOf
    <2>5. Life!Become(r, "new", "none")
      BY <1>1, <2>1, <2>2, <2>4, WriteBecomes
    <2>6. QED
      BY <2>4, <2>5 DEF Life!Admit, Life!Next
  <1>3. CASE UserEdit(r, s)
    <2> DEFINE o == [api[r] EXCEPT !.spec = s]
    <2>1. api' = [api EXCEPT ![r] = o]
      BY <1>3 DEF UserEdit, UserWrite, Store
    <2>2. o \in Object /\ SameMeta(o, api[r])
      BY <1>1 DEF Object, SameMeta
    <2>3. QED
      BY <1>1, <2>1, <2>2, WriteStutters
  <1>4. CASE UserDelete(r) /\ api[r].finalizer
    <2> DEFINE o == [api[r] EXCEPT !.deleting = TRUE]
    <2>1. api' = [api EXCEPT ![r] = o] /\ api[r].present /\ ~api[r].deleting
      BY <1>4 DEF UserDelete, UserWrite, Store
    <2>2. /\ o \in Object
          /\ o.present /\ o.deleting /\ o.create = api[r].create
      BY <1>1, <2>1 DEF Object
    <2>3. /\ PhaseOf(api[r]) = "held" /\ PhaseOf(o) = "ending"
          /\ CreationOf(o) = CreationOf(api[r])
      BY <1>4, <2>1, <2>2 DEF PhaseOf, CreationOf
    <2>4. Life!Become(r, "ending", CreationOf(api[r]))
      BY <1>1, <2>1, <2>2, <2>3, WriteBecomes
    <2>5. QED
      BY <2>3, <2>4 DEF Life!End, Life!Next
  <1>5. CASE UserDelete(r) /\ ~api[r].finalizer
    <2>1. api' = [api EXCEPT ![r] = Gone] /\ api[r].present /\ ~api[r].deleting
      BY <1>5 DEF UserDelete, UserWrite, Store
    <2>2. /\ PhaseOf(api[r]) = "new"
          /\ PhaseOf(Gone) = "gone" /\ CreationOf(Gone) = "none"
      BY <1>5, <2>1 DEF PhaseOf, CreationOf, Gone
    <2>3. Life!Become(r, "gone", "none")
      BY <1>1, <2>1, <2>2, GoneIsObject, WriteBecomes
    <2>4. QED
      BY <2>2, <2>3 DEF Life!Withdraw, Life!Next
  <1>6. QED
    BY <1>2, <1>3, <1>4, <1>5

(* Every step of the reconciler is a step of Lifecycle or none.             *)
LEMMA StepRefines == LifeInv /\ [ReconcilerNext]_reconcilerVars => [Life!Next]_(Life!vars)
  <1> SUFFICES ASSUME LifeInv, [ReconcilerNext]_reconcilerVars PROVE [Life!Next]_(Life!vars)
    OBVIOUS
  <1>1. ASSUME UNCHANGED api PROVE [Life!Next]_(Life!vars)
    BY <1>1 DEF Life!vars, PhaseOf, CreationOf
  <1>2. ASSUME NEW w \in Workers, NEW s \in Specs, NEW name \in Anns,
               Initialize(w, name, s) \/ AddFinalizer(w, s) \/ MarkPending(w, s)
        PROVE  [Life!Next]_(Life!vars)
    BY <1>2, UpdateRefines
  <1>3. ASSUME NEW w \in Workers, NEW s \in Specs, NEW stage \in {"publish", "status"},
               RecordCreation(w, s, stage) \/ RecordFailure(w, s)
        PROVE  [Life!Next]_(Life!vars)
    BY <1>3, RecordRefines
  <1>4. ASSUME NEW w \in Workers, WriteStatus(w) \/ Finalize(w) PROVE [Life!Next]_(Life!vars)
    BY <1>4, EndRefines
  <1>5. ASSUME NEW r \in Resources, NEW s \in Specs,
               UserApply(r, s) \/ UserEdit(r, s) \/ UserDelete(r)
        PROVE  [Life!Next]_(Life!vars)
    BY <1>5, UserRefines
  <1>6. ASSUME NEW w \in Workers,
               \/ CacheSync(w) \/ Conflict(w) \/ InitializeConflict(w)
               \/ WriteRefused(w) \/ Crash(w)
               \/ \E r \in Resources : Load(w, r)
        PROVE  UNCHANGED api
    BY <1>6 DEF CacheSync, Conflict, InitializeConflict, WriteRefused, Crash, Load
  <1>7. ASSUME NEW w \in Workers, NEW at \in Ats, NEW ready \in Readiness,
               LET m == [mem[w] EXCEPT !.at = at, !.ready = ready]
               IN  \/ AfterObserveError(w, m)
                   \/ \E outcome \in Observed : AfterObserve(w, m, outcome)
        PROVE  UNCHANGED api
    BY <1>7 DEF AfterObserve, AfterObserveError
  <1>8. ASSUME NEW w \in Workers, NEW stage \in Stages, NEW ann \in Anns, NEW at \in Ats,
               NEW ready \in {mem[w].ready, "Available", "Deleting"},
               ExternalCall(w, stage, ann, at, ready)
        PROVE  UNCHANGED api
    BY <1>8 DEF ExternalCall
  <1>9. "" \in Anns /\ Specs # {} /\ "status" \in {"publish", "status"}
    BY ReconcilerAssumption
  <1>10. QED
    BY <1>1, <1>2, <1>3, <1>4, <1>5, <1>6, <1>7, <1>8, <1>9 DEF ReconcilerNext, reconcilerVars

(* The managed reconciler implements Lifecycle: for every number of         *)
(* replicas, however old their caches, whatever crashes and conflicts, a    *)
(* Create begins only for a resource that is held and not being deleted,    *)
(* one at a time, and no resource disappears while the outcome of a Create  *)
(* is unknown.                                                              *)
THEOREM ReconcilerImplementsLifecycle == ReconcilerSpec => LifecycleSpec
  <1>1. ReconcilerInit => Life!Init
    <2>1. PhaseOf(Gone) = "gone" /\ CreationOf(Gone) = "none"
      BY DEF PhaseOf, CreationOf, Gone
    <2>2. ReconcilerInit => \A r \in Resources : api[r] = Gone
      BY DEF ReconcilerInit
    <2>3. QED
      BY <2>1, <2>2 DEF Life!Init
  <1>2. ReconcilerInit => LifeInv
    BY InitInv DEF LifeInv, KnowsDeletion, ReconcilerInit, Observed
  <1>3. QED
    BY <1>1, <1>2, LifeStepInv, StepRefines, PTL DEF ReconcilerSpec, LifecycleSpec, Life!Spec

=============================================================================
