------------------------ MODULE ServiceAccountProofs ------------------------
(***************************************************************************)
(* The ServiceAccount controller implements the managed reconciler's       *)
(* contract with the API server, and what it promises about the accounts   *)
(* in MinIO: the deletion of a resource does not leave its account behind, *)
(* a resource never has more accounts than one and one for each fault, and *)
(* if all keys are generated an account is removed only for the resource   *)
(* that has it and published only for the one that keeps it.               *)
(***************************************************************************)
EXTENDS ServiceAccountController, LifecycleProofs, FiniteSetTheorems

(* What the assumptions say of a spec.                                      *)
LEMMA SpecFacts ==
  ASSUME NEW s \in Specs
  PROVE  /\ s.key \in (Keys \ Generated) \cup {""}
         /\ s.secret \in Secrets \ {"generated"}
         /\ s.policy \in DOMAIN Canonical \cup {""}
  BY ServiceAccountAssumption DEF ServiceAccountParameters

(* The key of a new account is an access key.                               *)
LEMMA NewKeysFacts ==
  ASSUME NEW s \in Specs, NEW k \in NewKeys(s)
  PROVE  /\ k \in Keys
         /\ s.key = "" => k \in Generated /\ ~accts[k].used
  <1>1. CASE s.key # ""
    BY <1>1, SpecFacts DEF NewKeys
  <1>2. CASE s.key = ""
    BY <1>2, ServiceAccountAssumption DEF NewKeys
  <1>3. QED
    BY <1>1, <1>2

(* What Observe makes of the copy in memory.                                *)
LEMMA ObserveCases ==
  ASSUME NEW w \in Workers, Observe(w)
  PROVE  \/ AfterObserve(w, mem[w], "absent") /\ ~accts[mem[w].ann].live
         \/ \E ready \in {"Updating", "Available", "Disabled"}, outcome \in {"upToDate", "outdated"} :
              AfterObserve(w, [mem[w] EXCEPT !.at = mem[w].ann, !.ready = ready], outcome)
  BY Zenon DEF Observe

(* Observe and its errors.                                                  *)
LEMMA ObserveSim ==
  ASSUME ReconcilerTypeOK, NEW w \in Workers, Observe(w) \/ ObserveFails(w)
  PROVE  ReconcilerNext
  <1> DEFINE m == mem[w]
  <1>1. m \in Object
    BY DEF ReconcilerTypeOK
  <1>2. m.ann \in Ats /\ m.at \in Ats /\ m.ready \in Readiness
    BY <1>1, ServiceAccountAssumption DEF Object
  <1>3. m = [mem[w] EXCEPT !.at = m.at, !.ready = m.ready]
    BY <1>1 DEF Object
  <1>4. MayFault
    BY FaultIsMayFault DEF Observe, ObserveFails
  <1>5. \/ AfterObserveError(w, m)
        \/ AfterObserve(w, m, "absent")
        \/ \E ready \in {"Updating", "Available", "Disabled"}, outcome \in {"upToDate", "outdated"} :
             AfterObserve(w, [m EXCEPT !.at = m.ann, !.ready = ready], outcome)
    BY ObserveCases DEF ObserveFails
  <1>6. \E at \in Ats, ready \in Readiness :
          LET n == [mem[w] EXCEPT !.at = at, !.ready = ready]
          IN  MayFault /\ \/ AfterObserveError(w, n)
                          \/ \E outcome \in Observed : AfterObserve(w, n, outcome)
    <2>1. CASE AfterObserveError(w, m) \/ AfterObserve(w, m, "absent")
      BY <2>1, <1>2, <1>3, <1>4 DEF Observed
    <2>2. ASSUME NEW ready \in {"Updating", "Available", "Disabled"},
                 NEW outcome \in {"upToDate", "outdated"},
                 AfterObserve(w, [m EXCEPT !.at = m.ann, !.ready = ready], outcome)
          PROVE  <1>6
      <3>1. ready \in Readiness /\ outcome \in Observed
        BY DEF Readiness, Observed
      <3>2. QED
        BY <2>2, <3>1, <1>2, <1>4
    <2>3. QED
      BY <1>5, <2>1, <2>2
  <1>7. QED
    BY <1>6 DEF ReconcilerNext

(* The calls of Create, Update and Delete, and the connection secret.       *)
LEMMA CallSim ==
  ASSUME ReconcilerTypeOK, NEW w \in Workers,
         \/ CheckKey(w) \/ AddServiceAccount(w) \/ PublishConnection(w)
         \/ UpdateServiceAccount(w) \/ CheckDelete(w) \/ DeleteServiceAccount(w)
  PROVE  ReconcilerNext
  <1>1. mem[w].ann \in Anns /\ mem[w].at \in Ats /\ mem[w].spec \in Specs
    BY DEF ReconcilerTypeOK, Object
  <1>2. MayFault
    BY FaultIsMayFault DEF CheckKey, AddServiceAccount, PublishConnection, UpdateServiceAccount,
                           CheckDelete, DeleteServiceAccount, Call, DeletingStatus
  <1>3. \E stage \in Stages, ann \in Anns, at \in Ats, ready \in {mem[w].ready, "Available", "Deleting"} :
          ExternalCall(w, stage, ann, at, ready)
    <2>1. \/ \E stage \in {"create2", "createFailed", "delete2", "status"} :
               ExternalCall(w, stage, mem[w].ann, mem[w].at, mem[w].ready)
          \/ ExternalCall(w, "status", mem[w].ann, mem[w].at, "Deleting")
          \/ \E k \in NewKeys(mem[w].spec) : ExternalCall(w, "created", k, k, mem[w].ready)
      BY DEF CheckKey, AddServiceAccount, PublishConnection, UpdateServiceAccount,
             CheckDelete, DeleteServiceAccount, Call, DeletingStatus
    <2>2. {"create2", "createFailed", "delete2", "status", "created"} \subseteq Stages
      BY DEF Stages, CreateStages, DeleteStages
    <2>3. \A k \in NewKeys(mem[w].spec) : k \in Anns /\ k \in Ats
      BY <1>1, NewKeysFacts, ServiceAccountAssumption
    <2>4. QED
      BY <2>1, <2>2, <2>3, <1>1
  <1>4. QED
    BY <1>2, <1>3 DEF ReconcilerNext

(* The runtime's own steps.                                                 *)
LEMMA RuntimeSim ==
  ASSUME ReconcilerInv, NEW w \in Workers, RuntimeStep(w)
  PROVE  ReconcilerNext
  <1>1. mem[w].spec \in Specs
    BY DEF ReconcilerInv, ReconcilerTypeOK, Object
  <1>2. pc[w] # "idle" => cur[w] \in Resources /\ api[cur[w]].spec \in Specs
    BY DEF ReconcilerInv, BusyHasResource, ReconcilerTypeOK, Object
  <1>3. pc[w] # "idle" => NameOf[cur[w]] \in Anns
    BY <1>2, ServiceAccountAssumption
  <1>4. \/ \E s \in Specs : \/ \E name \in Anns : Initialize(w, name, s)
                            \/ AddFinalizer(w, s) \/ MarkPending(w, s)
                            \/ \E stage \in {"publish", "status"} : RecordCreation(w, s, stage)
                            \/ RecordFailure(w, s)
        \/ WriteStatus(w) \/ Conflict(w) \/ InitializeConflict(w)
    BY <1>1, <1>2, <1>3 DEF RuntimeStep
  <1>5. QED
    BY <1>4 DEF ReconcilerNext

(* Every step of the controller is a step of the reconciler or none.        *)
LEMMA ServiceAccountStepSim ==
  ReconcilerInv /\ [Next]_vars => [ReconcilerNext]_reconcilerVars
  <1> SUFFICES ASSUME ReconcilerInv, [Next]_vars PROVE [ReconcilerNext]_reconcilerVars
    OBVIOUS
  <1>1. ASSUME NEW w \in Workers, Step(w) \/ ObserveFails(w) PROVE ReconcilerNext
    <2>1. CASE Observe(w) \/ ObserveFails(w)
      BY <2>1, ObserveSim DEF ReconcilerInv
    <2>2. CASE \/ CheckKey(w) \/ AddServiceAccount(w) \/ PublishConnection(w)
               \/ UpdateServiceAccount(w) \/ CheckDelete(w) \/ DeleteServiceAccount(w)
      BY <2>2, CallSim DEF ReconcilerInv
    <2>3. CASE RuntimeStep(w)
      BY <2>3, RuntimeSim
    <2>4. CASE RemoveFinalizer(w)
      BY <2>4 DEF RemoveFinalizer, ReconcilerNext
    <2>5. QED
      BY <1>1, <2>1, <2>2, <2>3, <2>4 DEF Step
  <1>2. ASSUME NEW w \in Workers, \/ Stop(w) \/ SyncCache(w)
                                  \/ \E r \in Resources : StartReconcile(w, r)
        PROVE  ReconcilerNext
    BY <1>2 DEF Stop, SyncCache, StartReconcile, ReconcilerNext
  <1>3. ASSUME NEW r \in Resources, \/ Delete(r)
                                    \/ \E s \in Specs : Apply(r, s) \/ Edit(r, s)
        PROVE  ReconcilerNext
    BY <1>3 DEF Delete, Apply, Edit, ReconcilerNext
  <1>4. ASSUME NEW k \in Keys, ForeignClient(k) PROVE ReconcilerNext
    BY <1>4 DEF ForeignClient, ReconcilerNext
  <1>5. ASSUME UNCHANGED vars PROVE UNCHANGED reconcilerVars
    BY <1>5 DEF vars
  <1>6. QED
    BY <1>1, <1>2, <1>3, <1>4, <1>5 DEF Next

(* The reconciler's inductive invariant holds of the controller.            *)
LEMMA ServiceAccountReconcilerInv == Spec => []ReconcilerInv
  <1>1. Init => ReconcilerInv
    BY InitInv DEF Init
  <1>2. ReconcilerInv /\ [Next]_vars => ReconcilerInv'
    BY ServiceAccountStepSim, StepInv
  <1>3. QED
    BY <1>1, <1>2, PTL DEF Spec

(* The ServiceAccount controller, whatever it does to MinIO, is a managed   *)
(* reconciler to the API server (operator/serviceaccount/setup.go).         *)
THEOREM ServiceAccountImplementsReconciler == Spec => ReconcilerSpec
  <1>1. Init => ReconcilerInit
    BY DEF Init
  <1>2. QED
    BY <1>1, ServiceAccountReconcilerInv, ServiceAccountStepSim, PTL DEF Spec, ReconcilerSpec

(* So ServiceAccounts live as Lifecycle says: none begins to be created     *)
(* before it is held or after it is deleted, and none disappears while its  *)
(* creation is under way (operator/serviceaccount/setup.go, delete.go).     *)
THEOREM ServiceAccountImplementsLifecycle == Spec => LifecycleSpec
  <1>1. QED
    BY ServiceAccountImplementsReconciler, ReconcilerImplementsLifecycle

(* However many replicas of the provider run, at most one is between the    *)
(* announcement and the record of a ServiceAccount's Create.                *)
THEOREM ServiceAccountOneCreate == Spec => []OneCreateInFlight
  <1>1. ReconcilerInv => OneCreateInFlight
    BY DEF ReconcilerInv
  <1>2. QED
    BY <1>1, ServiceAccountReconcilerInv, PTL

-----------------------------------------------------------------------------
(* Types.                                                                   *)

Account == [live : BOOLEAN, used : BOOLEAN, maker : Resources \cup {NoResource},
            parent : {""} \cup {s.target : s \in Specs}, secret : Secrets,
            policy : {""} \cup {Stored(s.policy) : s \in Specs},
            exp : {""} \cup {s.exp : s \in Specs}, enabled : BOOLEAN]

Details == [key : Anns, secret : Secrets \cup {"none"}]

ServiceTypes ==
    /\ accts \in [Keys -> Account]
    /\ conn \in [Resources -> Details]
    /\ reply \in [Workers -> Secrets]

(* A worker at work has a resource, and the account it would make.          *)
LEMMA WorkerFacts ==
  ASSUME ReconcilerInv, NEW w \in Workers, pc[w] # "idle"
  PROVE  /\ cur[w] \in Resources
         /\ api[cur[w]] \in Object
         /\ mem[w] \in Object
         /\ mem[w].spec \in Specs
         /\ mem[w].ann \in Anns
         /\ NewAccount(w) \in Account
         /\ NewAccount(w).live /\ NewAccount(w).used
         /\ NewAccount(w).maker = cur[w]
  <1>1. cur[w] \in Resources /\ mem[w] \in Object /\ api[cur[w]] \in Object
    BY DEF ReconcilerInv, ReconcilerTypeOK, BusyHasResource
  <1>2. mem[w].spec \in Specs /\ mem[w].ann \in Anns
    BY <1>1 DEF Object
  <1>3. NewAccount(w) \in Account
    BY <1>1, <1>2, SpecFacts DEF NewAccount, Account, Secrets
  <1>4. QED
    BY <1>1, <1>2, <1>3 DEF NewAccount

(* One account changes, if any.                                             *)
LEMMA TypesOneAccount ==
  ASSUME ServiceTypes, NEW k \in Keys, NEW a \in Account,
         accts' = [accts EXCEPT ![k] = a] \/ accts' = accts,
         conn' \in [Resources -> Details],
         reply' \in [Workers -> Secrets]
  PROVE  ServiceTypes'
  BY DEF ServiceTypes

LEMMA NoAccountIsAccount ==
  /\ NoAccount \in Account
  /\ [NoAccount EXCEPT !.used = TRUE] \in Account
  /\ [NoAccount EXCEPT !.live = TRUE, !.used = TRUE] \in Account
  BY DEF NoAccount, Account, Secrets

(* The controller's steps keep the types of what they change in MinIO and   *)
(* in the connection secret.                                                *)
LEMMA TypesStep == ReconcilerInv /\ ServiceTypes /\ [Next]_vars => ServiceTypes'
  <1> SUFFICES ASSUME ReconcilerInv, ServiceTypes, [Next]_vars PROVE ServiceTypes'
    OBVIOUS
  <1>1. ASSUME NEW w \in Workers, AddServiceAccount(w) PROVE ServiceTypes'
    <2>1. pc[w] # "idle"
      BY <1>1 DEF AddServiceAccount
    <2>2. PICK k \in NewKeys(mem[w].spec) :
            /\ accts' = [accts EXCEPT ![k] = NewAccount(w)] \/ accts' = accts
            /\ reply' = reply \/ reply' = [reply EXCEPT ![w] = NewAccount(w).secret]
            /\ conn' = conn
      BY <1>1 DEF AddServiceAccount
    <2>3. k \in Keys /\ NewAccount(w) \in Account
      BY <2>1, WorkerFacts, NewKeysFacts
    <2>4. NewAccount(w).secret \in Secrets
      BY <2>3 DEF Account
    <2>5. QED
      BY <2>2, <2>3, <2>4, TypesOneAccount DEF ServiceTypes
  <1>2. ASSUME NEW w \in Workers, UpdateServiceAccount(w) PROVE ServiceTypes'
    <2> DEFINE s == mem[w].spec
               a == accts[mem[w].ann]
               updated == [a EXCEPT !.policy = IF s.policy = "" THEN @ ELSE Stored(s.policy),
                                    !.exp = IF s.exp = "" THEN @ ELSE s.exp,
                                    !.secret = IF s.secret = "" THEN @ ELSE s.secret]
    <2>1. pc[w] # "idle"
      BY <1>2 DEF UpdateServiceAccount
    <2>2. s \in Specs /\ mem[w].ann \in Anns
      BY <2>1, WorkerFacts
    <2>3. /\ accts' = [accts EXCEPT ![mem[w].ann] = updated] \/ accts' = accts
          /\ reply' = reply /\ conn' = conn
      BY <1>2 DEF UpdateServiceAccount
    <2>4. CASE mem[w].ann \in Keys
      <3>1. a \in Account
        BY <2>4 DEF ServiceTypes
      <3>2. updated \in Account
        BY <3>1, <2>2, SpecFacts DEF Account
      <3> HIDE DEF updated
      <3>3. QED
        BY <2>3, <2>4, <3>2, TypesOneAccount DEF ServiceTypes
    <2>5. CASE mem[w].ann \notin Keys
      <3>1. accts' = accts
        BY <2>3, <2>5 DEF ServiceTypes
      <3>2. QED
        BY <2>3, <3>1 DEF ServiceTypes
    <2>6. QED
      BY <2>4, <2>5
  <1>3. ASSUME NEW w \in Workers, DeleteServiceAccount(w) PROVE ServiceTypes'
    BY <1>3, NoAccountIsAccount DEF DeleteServiceAccount, ServiceTypes
  <1>4. ASSUME NEW k \in Keys, ForeignClient(k) PROVE ServiceTypes'
    <2>1. [accts[k] EXCEPT !.enabled = FALSE] \in Account
      BY DEF ServiceTypes, Account
    <2>2. /\ \E a \in Account : accts' = [accts EXCEPT ![k] = a]
          /\ conn' = conn /\ reply' = reply
      BY <1>4, <2>1, NoAccountIsAccount DEF ForeignClient
    <2>3. QED
      BY <2>2, TypesOneAccount DEF ServiceTypes
  <1>5. ASSUME NEW w \in Workers, PublishConnection(w) PROVE ServiceTypes'
    <2>1. mem[w].ann \in Anns
      BY <1>5, WorkerFacts DEF PublishConnection
    <2>2. [key |-> mem[w].ann, secret |-> reply[w]] \in Details
      BY <2>1 DEF ServiceTypes, Details
    <2>3. conn' \in [Resources -> Details]
      BY <1>5, <2>2 DEF PublishConnection, ServiceTypes
    <2>4. "" \in Secrets
      BY DEF Secrets
    <2>5. QED
      BY <1>5, <2>3, <2>4 DEF PublishConnection, ServiceTypes
  <1>6. ASSUME NEW r \in Resources,
               /\ accts' = accts
               /\ reply' = reply \/ \E w \in Workers : reply' = [reply EXCEPT ![w] = ""]
               /\ conn' \in {conn, [conn EXCEPT ![r] = NoSecret], [conn EXCEPT ![r] = EmptySecret]}
        PROVE  ServiceTypes'
    <2>1. /\ NoSecret \in Details
          /\ EmptySecret \in Details
          /\ "" \in Secrets
      BY ReconcilerAssumption DEF NoSecret, EmptySecret, Secrets, Details
    <2>2. QED
      BY <1>6, <2>1 DEF ServiceTypes
  <1>7. ASSUME NEW w \in Workers, Observe(w) \/ RemoveFinalizer(w) PROVE ServiceTypes'
    <2>1. cur[w] \in Resources
      BY <1>7, WorkerFacts DEF Observe, AfterObserve, RemoveFinalizer, Finalize
    <2>2. QED
      BY <1>7, <2>1, <1>6 DEF Observe, RemoveFinalizer
  <1>8. ASSUME UNCHANGED <<accts, conn>>,
               reply' = reply \/ \E w \in Workers : reply' = [reply EXCEPT ![w] = ""]
        PROVE  ServiceTypes'
    BY <1>8 DEF ServiceTypes, Secrets
  <1>9. ASSUME NEW r \in Resources, Delete(r) PROVE ServiceTypes'
    BY <1>9, <1>6 DEF Delete
  <1>10. ASSUME NEW w \in Workers,
                \/ ObserveFails(w) \/ CheckKey(w) \/ CheckDelete(w) \/ RuntimeStep(w)
                \/ Stop(w) \/ SyncCache(w) \/ \E r \in Resources : StartReconcile(w, r)
         PROVE  ServiceTypes'
    BY <1>10, <1>8 DEF ObserveFails, CheckKey, CheckDelete, RuntimeStep, Stop, SyncCache, StartReconcile
  <1>11. ASSUME NEW r \in Resources, NEW s \in Specs, Apply(r, s) \/ Edit(r, s)
         PROVE  ServiceTypes'
    BY <1>11, <1>8 DEF Apply, Edit
  <1>12. CASE UNCHANGED vars
    BY <1>12 DEF vars, ServiceTypes
  <1>13. QED
    BY <1>1, <1>2, <1>3, <1>4, <1>5, <1>7, <1>9, <1>10, <1>11, <1>12 DEF Next, Step

(* The types of the reconciler's and of the controller's own state.         *)
LEMMA ServiceTypesInv == Spec => []ServiceTypes
  <1>1. Init => ServiceTypes
    <2>1. NoSecret \in Details /\ "" \in Secrets
      BY ReconcilerAssumption DEF NoSecret, Secrets, Details
    <2>2. QED
      BY <2>1, NoAccountIsAccount DEF Init, ServiceTypes
  <1>2. QED
    BY <1>1, TypesStep, ServiceAccountReconcilerInv, PTL DEF Spec

THEOREM ServiceAccountTypes == Spec => []TypeOK
  <1>1. ReconcilerInv /\ ServiceTypes => TypeOK
    BY DEF ReconcilerInv, ServiceTypes, TypeOK, Account, Details
  <1>2. QED
    BY <1>1, ServiceTypesInv, ServiceAccountReconcilerInv, PTL

-----------------------------------------------------------------------------
(* What a worker knows of its resource's account.                           *)

(* A copy with the latest resourceVersion has the latest external-name,     *)
(* except between an account's creation and its record; what was absent     *)
(* stays so while the copy is the latest; and Create runs only for a        *)
(* resource whose account is gone.                                          *)
KnowsAccount(w) ==
    /\ w \in fresh /\ pc[w] \notin {"idle", "created"} => mem[w].ann = api[cur[w]].ann
    /\ w \in fresh /\ pc[w] \in {"absent", "finalize"} => mem[w].ann \notin Made(cur[w])
    /\ pc[w] \in {"create", "create2"} => api[cur[w]].ann \notin Made(cur[w])
    /\ pc[w] = "created" /\ api[cur[w]].ann \in Made(cur[w]) => api[cur[w]].ann = mem[w].ann

AllKnow == \A w \in Workers : KnowsAccount(w)

(* A resource's accounts when one account changes.                          *)
LEMMA MadeOneAccount ==
  ASSUME ServiceTypes, NEW k \in Keys, NEW a, accts' = [accts EXCEPT ![k] = a], NEW r \in Resources
  PROVE  Made(r)' = IF a.live /\ a.maker = r THEN Made(r) \cup {k} ELSE Made(r) \ {k}
  BY DEF ServiceTypes, Made

(* Only AddServiceAccount gives a resource another account.                 *)
LEMMA MadeShrinks ==
  ASSUME ReconcilerInv, ServiceTypes, NEW r \in Resources,
         \/ accts' = accts
         \/ \E w \in Workers : UpdateServiceAccount(w) \/ DeleteServiceAccount(w)
         \/ \E k \in Keys : ForeignClient(k)
  PROVE  Made(r)' = Made(r) \/ \E k \in Made(r) : Made(r)' = Made(r) \ {k}
  <1>1. ASSUME NEW k \in Keys, NEW a, accts' = [accts EXCEPT ![k] = a],
               a.live /\ a.maker = r => k \in Made(r)
        PROVE  Made(r)' = Made(r) \/ \E q \in Made(r) : Made(r)' = Made(r) \ {q}
    <2>1. Made(r)' = IF a.live /\ a.maker = r THEN Made(r) \cup {k} ELSE Made(r) \ {k}
      BY <1>1, MadeOneAccount
    <2>2. k \in Made(r) => Made(r) \cup {k} = Made(r)
      OBVIOUS
    <2>3. k \notin Made(r) => Made(r) \ {k} = Made(r)
      OBVIOUS
    <2>4. QED
      BY <1>1, <2>1, <2>2, <2>3
  <1>2. CASE accts' = accts
    BY <1>2 DEF Made
  <1>3. ASSUME NEW w \in Workers, UpdateServiceAccount(w), accts' # accts
        PROVE  \E k \in Keys : \E a : /\ accts' = [accts EXCEPT ![k] = a]
                                      /\ a.live /\ a.maker = r => k \in Made(r)
    <2> DEFINE s == mem[w].spec
               k == mem[w].ann
               a == accts[k]
               updated == [a EXCEPT !.policy = IF s.policy = "" THEN @ ELSE Stored(s.policy),
                                    !.exp = IF s.exp = "" THEN @ ELSE s.exp,
                                    !.secret = IF s.secret = "" THEN @ ELSE s.secret]
    <2>1. accts' = [accts EXCEPT ![k] = updated]
      BY <1>3 DEF UpdateServiceAccount
    <2>2. k \in Keys
      BY <1>3, <2>1 DEF ServiceTypes
    <2>3. a \in Account
      BY <2>2 DEF ServiceTypes
    <2>4. updated.live = a.live /\ updated.maker = a.maker
      BY <2>3 DEF Account
    <2>5. updated.live /\ updated.maker = r => k \in Made(r)
      BY <2>2, <2>4 DEF Made
    <2> HIDE DEF updated
    <2>6. QED
      BY <2>1, <2>2, <2>5
  <1>4. ASSUME NEW w \in Workers, DeleteServiceAccount(w), accts' # accts
        PROVE  \E k \in Keys : \E a : /\ accts' = [accts EXCEPT ![k] = a]
                                      /\ a.live /\ a.maker = r => k \in Made(r)
    <2>1. accts' = [accts EXCEPT ![mem[w].ann] = [NoAccount EXCEPT !.used = TRUE]]
      BY <1>4 DEF DeleteServiceAccount
    <2>2. mem[w].ann \in Keys
      BY <1>4, <2>1 DEF ServiceTypes
    <2>3. [NoAccount EXCEPT !.used = TRUE].live = FALSE
      BY DEF NoAccount
    <2>4. QED
      BY <2>1, <2>2, <2>3
  <1>5. ASSUME NEW k \in Keys, ForeignClient(k)
        PROVE  \E a : /\ accts' = [accts EXCEPT ![k] = a]
                      /\ a.live /\ a.maker = r => k \in Made(r)
    <2>1. [NoAccount EXCEPT !.live = TRUE, !.used = TRUE].maker # r
      BY ReconcilerAssumption DEF NoAccount
    <2>2. [NoAccount EXCEPT !.used = TRUE].live = FALSE
      BY DEF NoAccount
    <2>3. accts[k] \in Account
      BY DEF ServiceTypes
    <2>4. /\ [accts[k] EXCEPT !.enabled = FALSE].live = accts[k].live
          /\ [accts[k] EXCEPT !.enabled = FALSE].maker = accts[k].maker
      BY <2>3 DEF Account
    <2>5. \/ accts' = [accts EXCEPT ![k] = [NoAccount EXCEPT !.live = TRUE, !.used = TRUE]]
          \/ accts' = [accts EXCEPT ![k] = [NoAccount EXCEPT !.used = TRUE]]
          \/ accts' = [accts EXCEPT ![k] = [accts[k] EXCEPT !.enabled = FALSE]]
      BY <1>5, Zenon DEF ForeignClient
    <2>6. accts[k].live /\ accts[k].maker = r => k \in Made(r)
      BY DEF Made
    <2>7. QED
      BY <2>1, <2>2, <2>4, <2>5, <2>6
  <1>6. QED
    BY <1>1, <1>2, <1>3, <1>4, <1>5

(* AddServiceAccount makes one account, or none.                            *)
LEMMA AddFacts ==
  ASSUME ReconcilerInv, ServiceTypes, NEW w \in Workers, AddServiceAccount(w)
  PROVE  \/ /\ accts' = accts
            /\ Call(w, "createFailed")
         \/ \E k \in NewKeys(mem[w].spec) :
              /\ k \in Keys /\ ~accts[k].live
              /\ accts' = [accts EXCEPT ![k] = NewAccount(w)]
              /\ Made(cur[w])' = Made(cur[w]) \cup {k}
              /\ \A r \in Resources \ {cur[w]} : Made(r)' = Made(r)
              /\ \/ ExternalCall(w, "created", k, k, mem[w].ready) /\ UNCHANGED faults
                 \/ Call(w, "createFailed") /\ Fault("partial")
  <1>1. pc[w] # "idle"
    BY DEF AddServiceAccount
  <1>2. ASSUME NEW k \in NewKeys(mem[w].spec), ~accts[k].live,
               accts' = [accts EXCEPT ![k] = NewAccount(w)],
               cur'[w] = cur[w]
        PROVE  /\ k \in Keys
               /\ Made(cur[w])' = Made(cur[w]) \cup {k}
               /\ \A r \in Resources \ {cur[w]} : Made(r)' = Made(r)
    <2>1. k \in Keys /\ NewAccount(w).live /\ NewAccount(w).maker = cur[w]
      BY <1>1, NewKeysFacts, WorkerFacts
    <2>2. accts'[k] = NewAccount(w) /\ \A q \in Keys : q # k => accts'[q] = accts[q]
      BY <1>2, <2>1 DEF ServiceTypes
    <2>3. QED
      BY <1>2, <2>1, <2>2 DEF Made
  <1>3. cur' = cur
    BY DEF AddServiceAccount, Call, ExternalCall
  <1>4. QED
    BY <1>2, <1>3 DEF AddServiceAccount

(* A worker that looks on knows what it knew.                               *)
LEMMA AccountBystander ==
  ASSUME ReconcilerInv, NEW v \in Workers, KnowsAccount(v), Bystander(v),
         \A r \in Resources :
            r = cur[v] /\ (Creating(v) \/ (v \in fresh /\ pc[v] \in {"absent", "finalize"}))
               => Made(r)' \subseteq Made(r)
  PROVE  KnowsAccount(v)'
  <1>1. pc[v] # "idle" => cur[v] \in Resources
    BY DEF ReconcilerInv, BusyHasResource
  <1>2. pc[v] \in {"create", "create2", "created"} => Creating(v)
    BY DEF Creating, CreateStages
  <1>3. ASSUME pc[v] \in {"create", "create2", "created"} \/ (v \in fresh /\ pc[v] \in {"absent", "finalize"})
        PROVE  Made(cur[v])' \subseteq Made(cur[v])
    <2>1. cur[v] \in Resources /\ cur'[v] = cur[v]
      BY <1>1, <1>3 DEF Bystander
    <2>2. \E r \in Resources : r = cur[v] /\ Made(r)' \subseteq Made(r)
      BY <1>2, <1>3, <2>1
    <2>3. QED
      BY <2>1, <2>2 DEF Made
  <1>4. QED
    BY <1>2, <1>3 DEF KnowsAccount, Bystander

(* A step that ends where the account is of no concern.                     *)
LEMMA AccountElsewhere ==
  ASSUME NEW w \in Workers,
         pc'[w] \notin {"absent", "finalize", "create", "create2", "created"},
         w \in fresh' /\ pc'[w] # "idle" => mem'[w].ann = api'[cur'[w]].ann
  PROVE  KnowsAccount(w)'
  BY DEF KnowsAccount

(* A worker's look at its resource, and the end of its work.                *)
LEMMA AccountLook ==
  ASSUME ReconcilerInv, NEW w \in Workers, KnowsAccount(w),
         \/ \E r \in Resources : Load(w, r)
         \/ Observe(w) \/ ObserveFails(w)
         \/ WriteStatus(w) \/ Finalize(w) \/ Conflict(w) \/ InitializeConflict(w) \/ Crash(w)
  PROVE  KnowsAccount(w)'
  <1>1. /\ pc \in [Workers -> Stages] /\ cur \in [Workers -> Resources \cup {NoResource}]
        /\ mem \in [Workers -> Object]
    BY DEF ReconcilerInv, ReconcilerTypeOK
  <1>2. ASSUME NEW r \in Resources, Load(w, r) PROVE KnowsAccount(w)'
    <2> DEFINE o == cache[w][r]
    <2>1. o \in Object
      BY DEF ReconcilerInv, ReconcilerTypeOK
    <2>2. [o EXCEPT !.ready = "Creating"].ann = o.ann
      BY <2>1 DEF Object
    <2>3. mem'[w].ann = o.ann /\ cur'[w] = r /\ pc'[w] \in {"status", "observe"} /\ api' = api
      BY <1>1, <1>2, <2>2 DEF Load
    <2>4. w \in fresh' => o = api[r]
      BY <1>2 DEF Load, ReconcilerInv, SyncedAgrees
    <2>5. QED
      BY <2>3, <2>4, AccountElsewhere
  <1>3. CASE ObserveFails(w)
    <2>1. mem'[w] = mem[w] /\ pc'[w] = "status" /\ UNCHANGED <<api, fresh, cur>> /\ pc[w] = "observe"
      BY <1>1, <1>3 DEF ObserveFails, AfterObserveError
    <2>2. QED
      BY <2>1, AccountElsewhere DEF KnowsAccount
  <1>4. CASE Observe(w)
    <2>1. PICK m, outcome :
            /\ AfterObserve(w, m, outcome)
            /\ m.ann = mem[w].ann
            /\ outcome \in {"upToDate", "outdated"} \/ (outcome = "absent" /\ ~accts[mem[w].ann].live)
      <3>1. \A at, ready : [mem[w] EXCEPT !.at = at, !.ready = ready].ann = mem[w].ann
        <4>1. mem[w] \in Object
          BY <1>1
        <4>2. QED
          BY <4>1 DEF Object
      <3>2. QED
        BY <1>4, <3>1, ObserveCases
    <2>2. /\ pc[w] = "observe" /\ UNCHANGED <<api, fresh, cur>> /\ mem'[w] = m
      BY <1>1, <2>1 DEF AfterObserve
    <2>3. accts' = accts
      BY <1>4 DEF Observe
    <2>4. \/ ~accts[mem[w].ann].live /\ pc'[w] \in {"absent", "finalize"}
          \/ pc'[w] \in {"outdated", "upToDate", "update", "status", "delete"}
      <3>1. pc'[w] = IF mem[w].deleting
                       THEN IF outcome = "absent" THEN "finalize" ELSE "delete"
                       ELSE IF mem[w].finalizer THEN AfterFinalizer(outcome) ELSE outcome
        BY <1>1, <2>1 DEF AfterObserve
      <3>2. QED
        BY <2>1, <3>1 DEF AfterFinalizer
    <2>5. QED
      BY <2>1, <2>2, <2>3, <2>4 DEF KnowsAccount, Made
  <1>5. CASE WriteStatus(w) \/ Finalize(w) \/ Conflict(w) \/ InitializeConflict(w) \/ Crash(w)
    <2>1. pc'[w] = "idle"
      BY <1>1, <1>5 DEF WriteStatus, Finalize, Conflict, InitializeConflict, Crash, Return
    <2>2. QED
      BY <2>1, AccountElsewhere
  <1>6. QED
    BY <1>2, <1>3, <1>4, <1>5

(* The calls of Create, Update and Delete.                                  *)
LEMMA AccountCall ==
  ASSUME ReconcilerInv, ServiceTypes, NEW w \in Workers, KnowsAccount(w),
         \/ CheckKey(w) \/ AddServiceAccount(w) \/ PublishConnection(w)
         \/ UpdateServiceAccount(w) \/ CheckDelete(w) \/ DeleteServiceAccount(w)
  PROVE  KnowsAccount(w)'
  <1>1. pc \in [Workers -> Stages] /\ mem \in [Workers -> Object] /\ mem[w] \in Object
    BY DEF ReconcilerInv, ReconcilerTypeOK
  <1>2. ASSUME NEW stage, NEW ready, ExternalCall(w, stage, mem[w].ann, mem[w].at, ready)
        PROVE  mem'[w].ann = mem[w].ann /\ pc'[w] = stage /\ UNCHANGED <<api, fresh, cur>>
    BY <1>1, <1>2 DEF ExternalCall, Object
  <1>3. ASSUME NEW stage \in {"createFailed", "delete2", "status"}, NEW ready,
               ExternalCall(w, stage, mem[w].ann, mem[w].at, ready),
               pc[w] # "created"
        PROVE  KnowsAccount(w)'
    <2>1. pc[w] # "idle"
      BY <1>3 DEF ExternalCall, UpdateStages, DeleteStages
    <2>2. mem'[w].ann = mem[w].ann /\ pc'[w] = stage /\ UNCHANGED <<api, fresh, cur>>
      BY <1>2, <1>3
    <2>3. QED
      BY <1>3, <2>1, <2>2, AccountElsewhere DEF KnowsAccount
  <1>4. CASE CheckKey(w) /\ Call(w, "create2")
    <2>1. mem'[w].ann = mem[w].ann /\ pc'[w] = "create2" /\ UNCHANGED <<api, fresh, cur, accts>>
          /\ pc[w] = "create"
      BY <1>2, <1>4 DEF CheckKey, Call
    <2>2. QED
      BY <2>1 DEF KnowsAccount, Made
  <1>5. ASSUME NEW k \in NewKeys(mem[w].spec), AddServiceAccount(w),
               Made(cur[w])' = Made(cur[w]) \cup {k},
               ExternalCall(w, "created", k, k, mem[w].ready)
        PROVE  KnowsAccount(w)'
    <2>1. pc[w] = "create2" /\ pc'[w] = "created" /\ mem'[w].ann = k /\ UNCHANGED <<api, fresh, cur>>
      BY <1>1, <1>5 DEF AddServiceAccount, ExternalCall, Object
    <2>2. api[cur[w]].ann \notin Made(cur[w])
      BY <2>1 DEF KnowsAccount
    <2>3. api'[cur'[w]].ann \in Made(cur[w])' => api'[cur'[w]].ann = mem'[w].ann
      BY <1>5, <2>1, <2>2
    <2>4. QED
      BY <2>1, <2>3 DEF KnowsAccount, Made
  <1>6. CASE AddServiceAccount(w)
    <2>1. pc[w] = "create2"
      BY <1>6 DEF AddServiceAccount
    <2>2. CASE Call(w, "createFailed")
      BY <2>1, <2>2, <1>3 DEF Call
    <2>3. QED
      BY <1>5, <1>6, <2>2, AddFacts
  <1>7. CASE CheckKey(w) /\ ~Call(w, "create2")
    <2>1. pc[w] = "create" /\ Call(w, "createFailed")
      BY <1>7 DEF CheckKey
    <2>2. QED
      BY <2>1, <1>3 DEF Call
  <1>8. CASE PublishConnection(w) \/ UpdateServiceAccount(w) \/ CheckDelete(w) \/ DeleteServiceAccount(w)
    <2>1. /\ pc[w] # "created"
          /\ \/ Call(w, "status") \/ Call(w, "delete2") \/ DeletingStatus(w)
      BY <1>8 DEF PublishConnection, UpdateServiceAccount, CheckDelete, DeleteServiceAccount
    <2>2. QED
      BY <2>1, <1>3 DEF Call, DeletingStatus
  <1>9. QED
    BY <1>4, <1>6, <1>7, <1>8

(* The runtime's writes.                                                    *)
LEMMA AccountWrite ==
  ASSUME ReconcilerInv, NEW w \in Workers, KnowsAccount(w), RuntimeStep(w), accts' = accts
  PROVE  KnowsAccount(w)'
  <1>1. /\ pc \in [Workers -> Stages] /\ mem \in [Workers -> Object]
        /\ api \in [Resources -> Object] /\ (pc[w] # "idle" => cur[w] \in Resources)
    BY DEF ReconcilerInv, ReconcilerTypeOK, BusyHasResource
  <1> DEFINE r == cur[w]
  <1>2. ASSUME NEW o \in Object, NEW stage, ClientUpdate(w, o, stage), pc[w] # "idle"
        PROVE  /\ api'[r].ann = o.ann /\ mem'[w].ann = o.ann /\ cur' = cur /\ pc'[w] = stage
               /\ w \in fresh
    <2>1. [o EXCEPT !.spec = mem[w].spec,
                    !.at = IF o.at = "" THEN mem[w].at ELSE o.at,
                    !.ready = IF o.ready = "" THEN mem[w].ready ELSE o.ready].ann = o.ann
      BY DEF Object
    <2>2. api'[r] = o
      BY <1>1, <1>2 DEF ClientUpdate, Store
    <2>3. QED
      BY <1>1, <1>2, <2>1, <2>2 DEF ClientUpdate
  <1>3. CASE pc[w] # "idle" /\ Initialize(w, NameOf[r], mem[w].spec)
    <2> DEFINE o == [api[r] EXCEPT !.ann = NameOf[r], !.spec = mem[w].spec]
    <2>1. o \in Object
      <3>1. api[r] \in Object /\ mem[w].spec \in Specs /\ r \in Resources
        BY <1>3, WorkerFacts
      <3>2. NameOf[r] \in Anns
        BY <3>1, ServiceAccountAssumption
      <3>3. QED
        BY <3>1, <3>2 DEF Object
    <2>2. ClientUpdate(w, o, "observe")
      BY <1>3 DEF Initialize
    <2> HIDE DEF o
    <2>3. QED
      BY <1>2, <1>3, <2>1, <2>2, AccountElsewhere
  <1>4. CASE AddFinalizer(w, mem[w].spec)
    <2> DEFINE o == [api[r] EXCEPT !.finalizer = TRUE, !.spec = mem[w].spec]
    <2>1. pc[w] \in Observed /\ pc[w] # "idle"
      BY <1>4 DEF AddFinalizer, Observed
    <2>2. api[r] \in Object /\ mem[w].spec \in Specs
      BY <2>1, WorkerFacts
    <2>3. o \in Object /\ o.ann = api[r].ann
      BY <2>2 DEF Object
    <2>4. ClientUpdate(w, o, AfterFinalizer(pc[w]))
      BY <1>4 DEF AddFinalizer
    <2> HIDE DEF o
    <2>5. /\ api'[r].ann = api[r].ann /\ mem'[w].ann = api[r].ann /\ cur' = cur
          /\ pc'[w] = AfterFinalizer(pc[w]) /\ w \in fresh
      BY <1>2, <2>1, <2>3, <2>4
    <2>6. pc'[w] \in {"update", "status"} \/ (pc'[w] = "absent" /\ pc[w] = "absent")
      BY <2>1, <2>5 DEF AfterFinalizer, Observed
    <2>7. QED
      BY <2>5, <2>6, <1>4 DEF KnowsAccount, Made
  <1>5. CASE MarkPending(w, mem[w].spec)
    <2> DEFINE o == [api[r] EXCEPT !.create = "pending", !.spec = mem[w].spec]
    <2>1. pc[w] = "absent"
      BY <1>5 DEF MarkPending
    <2>2. api[r] \in Object /\ mem[w].spec \in Specs
      BY <2>1, WorkerFacts
    <2>3. o \in Object /\ o.ann = api[r].ann
      BY <2>2 DEF Object
    <2>4. ClientUpdate(w, o, "create")
      BY <1>5 DEF MarkPending
    <2> HIDE DEF o
    <2>5. /\ api'[r].ann = api[r].ann /\ mem'[w].ann = api[r].ann /\ cur' = cur
          /\ pc'[w] = "create" /\ w \in fresh
      BY <1>2, <2>1, <2>3, <2>4
    <2>6. QED
      BY <2>1, <2>5 DEF KnowsAccount, Made
  <1>6. CASE RecordCreation(w, api[r].spec, "publish") \/ RecordFailure(w, api[r].spec)
    <2>1. pc[w] # "idle"
      BY <1>6 DEF RecordCreation, RecordFailure
    <2>2. api[r] \in Object /\ mem[w].ann \in Anns
      BY <2>1, WorkerFacts
    <2>3. /\ api'[r].ann = mem'[w].ann /\ cur' = cur /\ pc'[w] \in {"publish", "status"}
      <3>1. CASE RecordCreation(w, api[r].spec, "publish")
        <4> DEFINE o == [api[r] EXCEPT !.create = "succeeded", !.ann = mem[w].ann, !.spec = api[r].spec]
        <4>1. o.ann = mem[w].ann /\ \A at : [o EXCEPT !.at = at, !.ready = "Creating"].ann = mem[w].ann
          BY <2>2 DEF Object
        <4>2. /\ api'[r] = o /\ cur' = cur /\ pc'[w] = "publish"
              /\ \E at : mem'[w] = [o EXCEPT !.at = at, !.ready = "Creating"]
          BY <1>1, <2>1, <3>1 DEF RecordCreation, Store
        <4> HIDE DEF o
        <4>3. QED
          BY <4>1, <4>2
      <3>2. CASE RecordFailure(w, api[r].spec)
        <4> DEFINE o == [api[r] EXCEPT !.create = "failed", !.spec = api[r].spec]
        <4>1. o.ann = [o EXCEPT !.ready = "Creating"].ann
          BY <2>2 DEF Object
        <4>2. /\ api'[r] = o /\ cur' = cur /\ pc'[w] = "status"
              /\ mem'[w] = [o EXCEPT !.ready = "Creating"]
          BY <1>1, <2>1, <3>2 DEF RecordFailure, Store
        <4> HIDE DEF o
        <4>3. QED
          BY <4>1, <4>2
      <3>3. QED
        BY <1>6, <3>1, <3>2
    <2>4. QED
      BY <2>3, AccountElsewhere
  <1>7. QED
    BY <1>3, <1>4, <1>5, <1>6, AccountLook DEF RuntimeStep

(* What the controller's steps are to the reconciler's workers and users.   *)
WorkerStep(w) ==
    \/ Step(w) \/ ObserveFails(w) \/ Stop(w) \/ SyncCache(w)
    \/ \E r \in Resources : StartReconcile(w, r)

UserStep(r) == Delete(r) \/ \E s \in Specs : Apply(r, s) \/ Edit(r, s)

LEMMA WorkerStepIsStepOf ==
  ASSUME NEW w \in Workers, WorkerStep(w)
  PROVE  StepOf(w)
  <1>1. CASE Observe(w) \/ ObserveFails(w)
    BY <1>1, ObserveCases DEF ObserveFails, StepOf
  <1>2. CASE \/ CheckKey(w) \/ AddServiceAccount(w) \/ PublishConnection(w)
             \/ UpdateServiceAccount(w) \/ CheckDelete(w) \/ DeleteServiceAccount(w)
    BY <1>2 DEF CheckKey, AddServiceAccount, PublishConnection, UpdateServiceAccount, CheckDelete,
                DeleteServiceAccount, Call, DeletingStatus, StepOf
  <1>3. CASE RuntimeStep(w)
    BY <1>3 DEF RuntimeStep, StepOf
  <1>4. CASE \/ RemoveFinalizer(w) \/ Stop(w) \/ SyncCache(w)
             \/ \E r \in Resources : StartReconcile(w, r)
    BY <1>4 DEF RemoveFinalizer, Stop, SyncCache, StartReconcile, StepOf
  <1>5. QED
    BY <1>1, <1>2, <1>3, <1>4 DEF WorkerStep, Step

LEMMA UserStepIsStepOfUser ==
  ASSUME NEW r \in Resources, UserStep(r)
  PROVE  StepOfUser(r) /\ accts' = accts
  BY DEF UserStep, Delete, Apply, Edit, StepOfUser

(* Which steps touch the accounts.                                          *)
LEMMA WorkerStepAccounts ==
  ASSUME NEW w \in Workers, WorkerStep(w)
  PROVE  accts' = accts \/ AddServiceAccount(w) \/ UpdateServiceAccount(w) \/ DeleteServiceAccount(w)
  BY DEF WorkerStep, Step, Observe, ObserveFails, CheckKey, PublishConnection, CheckDelete,
         RuntimeStep, RemoveFinalizer, Stop, SyncCache, StartReconcile

(* The worker that takes the step.                                          *)
LEMMA AccountActor ==
  ASSUME ReconcilerInv, ServiceTypes, NEW w \in Workers, KnowsAccount(w), WorkerStep(w)
  PROVE  KnowsAccount(w)'
  <1>1. CASE \/ Observe(w) \/ ObserveFails(w) \/ RemoveFinalizer(w) \/ Stop(w)
             \/ \E r \in Resources : StartReconcile(w, r)
    BY <1>1, AccountLook DEF RemoveFinalizer, Stop, StartReconcile
  <1>2. CASE \/ CheckKey(w) \/ AddServiceAccount(w) \/ PublishConnection(w)
             \/ UpdateServiceAccount(w) \/ CheckDelete(w) \/ DeleteServiceAccount(w)
    BY <1>2, AccountCall
  <1>3. CASE RuntimeStep(w)
    BY <1>3, AccountWrite DEF RuntimeStep
  <1>4. CASE SyncCache(w)
    BY <1>4 DEF SyncCache, CacheSync, KnowsAccount, Made
  <1>5. QED
    BY <1>1, <1>2, <1>3, <1>4 DEF WorkerStep, Step

(* A worker that looks on: only the creator of a resource makes accounts    *)
(* for it.                                                                  *)
LEMMA AccountAside ==
  ASSUME ReconcilerInv, ServiceTypes, NEW v \in Workers, KnowsAccount(v),
         \/ \E w \in Workers \ {v} : WorkerStep(w)
         \/ \E r \in Resources : UserStep(r)
         \/ \E k \in Keys : ForeignClient(k)
  PROVE  KnowsAccount(v)'
  <1>1. ASSUME NEW w \in Workers \ {v}, WorkerStep(w) PROVE KnowsAccount(v)'
    <2>1. Bystander(v)
      BY <1>1, StepOfOther, WorkerStepIsStepOf
    <2>2. ASSUME NEW r \in Resources, r = cur[v],
                 Creating(v) \/ (v \in fresh /\ pc[v] \in {"absent", "finalize"})
          PROVE  Made(r)' \subseteq Made(r)
      <3>1. CASE AddServiceAccount(w)
        <4>1. Creating(w) /\ pc[w] # "idle"
          BY <3>1 DEF AddServiceAccount, Creating, CreateStages
        <4>2. cur[v] # cur[w]
          <5>1. CASE Creating(v)
            BY <4>1, <5>1, OnlyCreator
          <5>2. CASE v \in fresh /\ pc[v] \in {"absent", "finalize"}
            <6>1. pc[v] \in Observed \cup {"observe", "finalize"} /\ pc[v] # "idle"
              BY <5>2 DEF Observed
            <6>2. QED
              BY <4>1, <5>2, <6>1, OnlyCreator
          <5>3. QED
            BY <2>2, <5>1, <5>2
        <4>3. accts' = accts \/ Made(r)' = Made(r)
          BY <2>2, <3>1, <4>2, AddFacts
        <4>4. QED
          BY <4>3, MadeShrinks
      <3>2. CASE accts' = accts \/ UpdateServiceAccount(w) \/ DeleteServiceAccount(w)
        BY <3>2, MadeShrinks
      <3>3. QED
        BY <1>1, <3>1, <3>2, WorkerStepAccounts
    <2>3. QED
      BY <2>1, <2>2, AccountBystander
  <1>2. ASSUME NEW r \in Resources, UserStep(r) PROVE KnowsAccount(v)'
    <2>1. Bystander(v) /\ accts' = accts
      BY <1>2, StepOfUserAside, UserStepIsStepOfUser
    <2>2. QED
      BY <2>1, AccountBystander, MadeShrinks
  <1>3. ASSUME NEW k \in Keys, ForeignClient(k) PROVE KnowsAccount(v)'
    <2>1. Bystander(v)
      BY <1>3 DEF ForeignClient, Bystander
    <2>2. QED
      BY <1>3, <2>1, AccountBystander, MadeShrinks
  <1>4. QED
    BY <1>1, <1>2, <1>3

(* Who takes a step.                                                        *)
LEMMA NextCases ==
  ASSUME [Next]_vars
  PROVE  \/ \E w \in Workers : WorkerStep(w)
         \/ \E r \in Resources : UserStep(r)
         \/ \E k \in Keys : ForeignClient(k)
         \/ UNCHANGED vars
  BY DEF Next, WorkerStep, UserStep

LEMMA AccountStep == ReconcilerInv /\ ServiceTypes /\ AllKnow /\ [Next]_vars => AllKnow'
  <1> SUFFICES ASSUME ReconcilerInv, ServiceTypes, AllKnow, [Next]_vars, NEW v \in Workers
               PROVE  KnowsAccount(v)'
    BY DEF AllKnow
  <1>1. KnowsAccount(v)
    BY DEF AllKnow
  <1>2. CASE UNCHANGED vars
    BY <1>1, <1>2 DEF vars, reconcilerVars, KnowsAccount, Made
  <1>3. QED
    BY <1>1, <1>2, NextCases, AccountActor, AccountAside

LEMMA NextIsSomeStep ==
  ASSUME [Next]_vars
  PROVE  SomeStep
  BY NextCases, WorkerStepIsStepOf, UserStepIsStepOfUser DEF ForeignClient, vars, reconcilerVars, SomeStep

AccountsKnown == ReconcilerInv /\ ServiceTypes /\ HeldIsThere /\ AllKnow

LEMMA AccountInv == Spec => []AccountsKnown
  <1>1. Init => HeldIsThere /\ AllKnow
    BY HeldInit DEF Init, ReconcilerInit, AllKnow, KnowsAccount
  <1>2. AccountsKnown /\ [Next]_vars => HeldIsThere' /\ AllKnow'
    BY HeldStep, AccountStep, NextIsSomeStep DEF AccountsKnown
  <1>3. AccountsKnown <=> ReconcilerInv /\ ServiceTypes /\ HeldIsThere /\ AllKnow
    BY DEF AccountsKnown
  <1>4. QED
    BY <1>1, <1>2, <1>3, ServiceTypesInv, ServiceAccountReconcilerInv, PTL DEF Spec

(* However many replicas run and however old their copies are, a resource   *)
(* with a finalizer disappears only when the account that its external-name *)
(* has is gone: the worker saw it gone in a copy that is still the latest,  *)
(* and nobody can have begun a creation since (observe.go, delete.go).      *)
THEOREM ServiceAccountGoesFirst == Spec => AccountGoesFirst
  <1> DEFINE A == \A r \in Resources : api[r].finalizer /\ ~api'[r].present => api[r].ann \notin Made(r)
  <1>1. AccountsKnown /\ [Next]_vars => A
    <2> SUFFICES ASSUME AccountsKnown, [Next]_vars, NEW r \in Resources,
                        api[r].finalizer, ~api'[r].present
                 PROVE  api[r].ann \notin Made(r)
      OBVIOUS
    <2>1. api[r].present
      BY DEF AccountsKnown, HeldIsThere
    <2>2. Finalized(r)
      BY <2>1, NextIsSomeStep, ResourceChanges
         DEF AccountsKnown, Stays, Named, Recorded, Dropped, Applied
    <2>3. QED
      BY <2>2 DEF Finalized, AccountsKnown, AllKnow, KnowsAccount
  <1>2. QED
    BY <1>1, AccountInv, PTL DEF Spec, AccountGoesFirst

-----------------------------------------------------------------------------
(* No runaway accounts.  A resource knows an account of its own when its    *)
(* external-name is that account's key, or a Create is about to record it;  *)
(* it has at most one more than the faults that made it forget one.         *)

Kept(r) ==
    \/ api[r].finalizer /\ api[r].ann \in Made(r)
    \/ \E w \in Workers : pc[w] = "created" /\ cur[w] = r /\ mem[w].ann \in Made(r)

Forgotten == IF FaultKinds \subseteq {"refused"} THEN 0 ELSE faults

FewAccounts ==
    \A r \in Resources :
        /\ IsFiniteSet(Made(r))
        /\ Cardinality(Made(r)) <= Forgotten + (IF Kept(r) THEN 1 ELSE 0)

(* What a step makes of the accounts of a resource.                         *)
LEMMA MadeChanges ==
  ASSUME AccountsKnown, [Next]_vars, NEW r \in Resources
  PROVE  \/ Made(r)' = Made(r)
         \/ \E k \in Made(r) : Made(r)' = Made(r) \ {k}
         \/ \E w \in Workers : \E k \in Keys :
              /\ pc[w] = "create2" /\ cur[w] = r /\ ~accts[k].live
              /\ Made(r)' = Made(r) \cup {k}
              /\ \/ ExternalCall(w, "created", k, k, mem[w].ready)
                 \/ Fault("partial")
  <1>1. ReconcilerInv /\ ServiceTypes
    BY DEF AccountsKnown
  <1>2. ASSUME NEW w \in Workers, WorkerStep(w), ~AddServiceAccount(w)
        PROVE  Made(r)' = Made(r) \/ \E k \in Made(r) : Made(r)' = Made(r) \ {k}
    BY <1>1, <1>2, WorkerStepAccounts, MadeShrinks
  <1>3. ASSUME NEW w \in Workers, AddServiceAccount(w), accts' # accts
        PROVE  \/ Made(r)' = Made(r)
               \/ \E k \in Keys :
                    /\ pc[w] = "create2" /\ cur[w] = r /\ ~accts[k].live
                    /\ Made(r)' = Made(r) \cup {k}
                    /\ \/ ExternalCall(w, "created", k, k, mem[w].ready)
                       \/ Fault("partial")
    <2>1. pc[w] = "create2"
      BY <1>3 DEF AddServiceAccount
    <2>2. PICK k \in NewKeys(mem[w].spec) :
            /\ k \in Keys /\ ~accts[k].live
            /\ accts' = [accts EXCEPT ![k] = NewAccount(w)]
            /\ Made(cur[w])' = Made(cur[w]) \cup {k}
            /\ \A q \in Resources \ {cur[w]} : Made(q)' = Made(q)
            /\ \/ ExternalCall(w, "created", k, k, mem[w].ready) /\ UNCHANGED faults
               \/ Call(w, "createFailed") /\ Fault("partial")
      BY <1>1, <1>3, AddFacts
    <2>3. CASE r = cur[w]
      <3>1. cur' = cur
        BY <2>2 DEF ExternalCall, Call
      <3>2. Made(r)' = Made(r) \cup {k}
        BY <2>2, <2>3, <3>1 DEF Made
      <3>3. QED
        BY <2>1, <2>2, <2>3, <3>2
    <2>4. CASE r # cur[w]
      BY <2>2, <2>4
    <2>5. QED
      BY <2>3, <2>4
  <1>4. ASSUME NEW k \in Keys, ForeignClient(k)
        PROVE  Made(r)' = Made(r) \/ \E q \in Made(r) : Made(r)' = Made(r) \ {q}
    BY <1>1, <1>4, MadeShrinks
  <1>5. CASE accts' = accts
    BY <1>5 DEF Made
  <1>6. CASE \E q \in Resources : UserStep(q)
    BY <1>5, <1>6, UserStepIsStepOfUser
  <1>7. CASE UNCHANGED vars
    BY <1>5, <1>7 DEF vars
  <1>8. QED
    BY <1>2, <1>3, <1>4, <1>5, <1>6, <1>7, NextCases

(* While its accounts stay, only a crash makes a resource forget one.       *)
LEMMA KeptStep ==
  ASSUME AccountsKnown, [Next]_vars, NEW r \in Resources, Kept(r), Made(r)' = Made(r)
  PROVE  Kept(r)' \/ Fault("crash")
  <1>1. ReconcilerInv /\ HeldIsThere /\ AllKnow /\ SomeStep
    BY NextIsSomeStep DEF AccountsKnown
  <1>2. CASE api[r].finalizer /\ api[r].ann \in Made(r)
    <2>1. CASE api'[r] = api[r] \/ Stays(r)
      BY <1>2, <2>1 DEF Stays, Kept
    <2>2. ASSUME Named(r) PROVE FALSE
      <3>1. api[r].ann = ""
        BY <1>1, <2>2 DEF Named, AllKnow, KnowsAccount
      <3>2. QED
        BY <1>2, <3>1, ServiceAccountAssumption DEF Made
    <2>3. CASE Recorded(r)
      <3>1. PICK w \in Workers : /\ cur[w] = r /\ pc[w] = "created"
                                 /\ api'[r].finalizer /\ api'[r].ann = mem[w].ann
        BY <2>3 DEF Recorded
      <3>2. mem[w].ann = api[r].ann
        BY <1>1, <1>2, <3>1 DEF AllKnow, KnowsAccount
      <3>3. QED
        BY <1>2, <3>1, <3>2 DEF Kept
    <2>4. ASSUME Finalized(r) PROVE FALSE
      BY <1>1, <1>2, <2>4 DEF Finalized, AllKnow, KnowsAccount
    <2>5. ~Dropped(r) /\ ~Applied(r)
      BY <1>1, <1>2 DEF Dropped, Applied, HeldIsThere
    <2>6. QED
      BY <1>1, <2>1, <2>2, <2>3, <2>4, <2>5, ResourceChanges
  <1>3. ASSUME NEW w \in Workers, pc[w] = "created", cur[w] = r, mem[w].ann \in Made(r)
        PROVE  Kept(r)' \/ Fault("crash")
    <2>1. ASSUME pc'[w] = pc[w], cur'[w] = cur[w], mem'[w] = mem[w] PROVE Kept(r)'
      BY <1>3, <2>1 DEF Kept
    <2>2. ASSUME NEW v \in Workers, v # w, WorkerStep(v) PROVE Kept(r)'
      <3>1. Bystander(w)
        BY <1>1, <2>2, StepOfOther, WorkerStepIsStepOf
      <3>2. QED
        BY <2>1, <3>1 DEF Bystander
    <2>3. ASSUME NEW q \in Resources, UserStep(q) PROVE Kept(r)'
      <3>1. Bystander(w)
        BY <1>1, <2>3, StepOfUserAside, UserStepIsStepOfUser
      <3>2. QED
        BY <2>1, <3>1 DEF Bystander
    <2>4. CASE (\E k \in Keys : ForeignClient(k)) \/ UNCHANGED vars
      BY <2>1, <2>4 DEF ForeignClient, vars, reconcilerVars
    <2>5. ASSUME WorkerStep(w) PROVE Kept(r)' \/ Fault("crash")
      <3>1. ~Observe(w) /\ ~ObserveFails(w)
        <4>1. \A m : ~AfterObserveError(w, m) /\ \A outcome : ~AfterObserve(w, m, outcome)
          BY <1>3 DEF AfterObserve, AfterObserveError
        <4>2. QED
          BY <4>1, ObserveCases DEF ObserveFails
      <3>2. \/ SyncCache(w) \/ Stop(w) \/ RecordCreation(w, api[cur[w]].spec, "publish")
        BY <1>3, <2>5, <3>1
           DEF WorkerStep, Step, CheckKey, AddServiceAccount, PublishConnection, UpdateServiceAccount,
               CheckDelete, DeleteServiceAccount, RuntimeStep, RemoveFinalizer, StartReconcile, Load,
               Initialize, AddFinalizer, MarkPending, Observed, RecordFailure, WriteStatus, Finalize,
               Conflict, InitializeConflict
      <3>3. CASE SyncCache(w)
        BY <2>1, <3>3 DEF SyncCache, CacheSync
      <3>4. CASE Stop(w)
        BY <3>4 DEF Stop, Crash
      <3>5. CASE RecordCreation(w, api[cur[w]].spec, "publish")
        <4> DEFINE o == [api[r] EXCEPT !.create = "succeeded", !.ann = mem[w].ann, !.spec = api[cur[w]].spec]
        <4>1. Creating(w)
          BY <1>3 DEF Creating, CreateStages
        <4>2. api[r] \in Object /\ api[r].finalizer
          BY <1>1, <1>3, <4>1 DEF ReconcilerInv, ReconcilerTypeOK, CreateAnnounced
        <4>3. o.finalizer /\ o.ann = mem[w].ann
          BY <4>2 DEF Object
        <4>4. Store(r, o)
          BY <1>3, <3>5 DEF RecordCreation
        <4> HIDE DEF o
        <4>5. api'[r] = o
          BY <1>1, <4>4 DEF Store, ReconcilerInv, ReconcilerTypeOK
        <4>6. QED
          BY <1>3, <4>3, <4>5 DEF Kept
      <3>6. QED
        BY <3>2, <3>3, <3>4, <3>5
    <2>6. QED
      BY <2>2, <2>3, <2>4, <2>5, NextCases
  <1>4. QED
    BY <1>2, <1>3 DEF Kept

LEMMA ForgottenGrows ==
  ASSUME AccountsKnown, [Next]_vars
  PROVE  /\ Forgotten \in Nat /\ Forgotten' \in Nat /\ Forgotten' >= Forgotten
         /\ Fault("crash") \/ Fault("partial") => Forgotten' = Forgotten + 1
  <1>1. MayFault
    <2>1. [ReconcilerNext]_reconcilerVars
      BY ServiceAccountStepSim DEF AccountsKnown, ReconcilerInv
    <2>2. QED
      BY <2>1, FaultsCount
  <1>2. faults \in Nat /\ faults' \in Nat /\ faults' >= faults
    <2>1. faults \in 0..MaxFaults
      BY DEF AccountsKnown, ReconcilerInv, ReconcilerTypeOK
    <2>2. MaxFaults \in Nat
      BY ReconcilerAssumption
    <2>3. faults \in Nat
      BY <2>1, <2>2
    <2>4. QED
      BY <1>1, <2>3 DEF MayFault
  <1>3. ASSUME Fault("crash") \/ Fault("partial")
        PROVE  faults' = faults + 1 /\ ~(FaultKinds \subseteq {"refused"})
    BY <1>3 DEF Fault
  <1>4. QED
    BY <1>2, <1>3 DEF Forgotten

LEMMA FewStep ==
  ASSUME AccountsKnown, FewAccounts, [Next]_vars
  PROVE  FewAccounts'
  <1> SUFFICES ASSUME NEW r \in Resources
               PROVE  /\ IsFiniteSet(Made(r)')
                      /\ Cardinality(Made(r)') <= Forgotten' + (IF Kept(r)' THEN 1 ELSE 0)
    BY DEF FewAccounts
  <1>1. IsFiniteSet(Made(r)) /\ Cardinality(Made(r)) \in Nat
        /\ Cardinality(Made(r)) <= Forgotten + (IF Kept(r) THEN 1 ELSE 0)
    BY FS_CardinalityType DEF FewAccounts
  <1>2. /\ Forgotten \in Nat /\ Forgotten' \in Nat /\ Forgotten' >= Forgotten
        /\ Fault("crash") \/ Fault("partial") => Forgotten' = Forgotten + 1
    BY ForgottenGrows
  <1>3. CASE Made(r)' = Made(r)
    <2>1. Kept(r) => Kept(r)' \/ Fault("crash")
      BY <1>3, KeptStep
    <2>2. QED
      BY <1>1, <1>2, <1>3, <2>1
  <1>4. ASSUME NEW k \in Made(r), Made(r)' = Made(r) \ {k}
        PROVE  /\ IsFiniteSet(Made(r)')
               /\ Cardinality(Made(r)') <= Forgotten' + (IF Kept(r)' THEN 1 ELSE 0)
    <2>1. IsFiniteSet(Made(r)') /\ Cardinality(Made(r)') = Cardinality(Made(r)) - 1
      BY <1>1, <1>4, FS_RemoveElement
    <2>2. QED
      BY <1>1, <1>2, <2>1
  <1>5. ASSUME NEW w \in Workers, NEW k \in Keys,
               pc[w] = "create2", cur[w] = r, ~accts[k].live, Made(r)' = Made(r) \cup {k},
               \/ ExternalCall(w, "created", k, k, mem[w].ready)
               \/ Fault("partial")
        PROVE  /\ IsFiniteSet(Made(r)')
               /\ Cardinality(Made(r)') <= Forgotten' + (IF Kept(r)' THEN 1 ELSE 0)
    <2>1. ~Kept(r)
      <3>1. api[r].ann \notin Made(r)
        BY <1>5 DEF AccountsKnown, AllKnow, KnowsAccount
      <3>2. ASSUME NEW v \in Workers, pc[v] = "created", cur[v] = r PROVE FALSE
        BY <1>5, <3>2 DEF AccountsKnown, ReconcilerInv, OneCreateInFlight, Creating, CreateStages
      <3>3. QED
        BY <3>1, <3>2 DEF Kept
    <2>2. IsFiniteSet(Made(r)') /\ Cardinality(Made(r)') = Cardinality(Made(r)) + 1
      <3>1. k \notin Made(r)
        BY <1>5 DEF Made
      <3>2. QED
        BY <1>1, <1>5, <3>1, FS_AddElement
    <2>3. ExternalCall(w, "created", k, k, mem[w].ready) => Kept(r)'
      <3> SUFFICES ASSUME ExternalCall(w, "created", k, k, mem[w].ready) PROVE Kept(r)'
        OBVIOUS
      <3>1. pc \in [Workers -> Stages] /\ mem \in [Workers -> Object] /\ mem[w] \in Object
        BY DEF AccountsKnown, ReconcilerInv, ReconcilerTypeOK
      <3>2. pc'[w] = "created" /\ cur'[w] = r /\ mem'[w].ann = k
        BY <1>5, <3>1 DEF ExternalCall, Object
      <3>3. QED
        BY <1>5, <3>2 DEF Kept
    <2>4. QED
      BY <1>1, <1>2, <1>5, <2>1, <2>2, <2>3
  <1>6. QED
    BY <1>3, <1>4, <1>5, MadeChanges

(* However stale the caches and however many the replicas, a resource has   *)
(* one account, plus at most one for each fault, or one in all where every  *)
(* fault is a refused call (create.go, observe.go; external_name_test.go).  *)
THEOREM ServiceAccountNoRunaway == Spec => []NoRunaway
  <1>1. Init => FewAccounts
    <2> SUFFICES ASSUME Init, NEW r \in Resources
                 PROVE  /\ IsFiniteSet(Made(r))
                        /\ Cardinality(Made(r)) <= Forgotten + (IF Kept(r) THEN 1 ELSE 0)
      BY DEF FewAccounts
    <2>1. Made(r) = {}
      BY DEF Init, Made, NoAccount
    <2>2. Forgotten = 0
      BY DEF Init, ReconcilerInit, Forgotten
    <2>3. QED
      BY <2>1, <2>2, FS_EmptySet
  <1>2. AccountsKnown /\ FewAccounts /\ [Next]_vars => FewAccounts'
    BY FewStep
  <1>3. AccountsKnown /\ FewAccounts => NoRunaway
    <2> SUFFICES ASSUME AccountsKnown, FewAccounts, NEW r \in Resources
                 PROVE  Cardinality(Made(r)) <= 1 + Forgotten
      BY DEF NoRunaway, Forgotten
    <2>1. faults \in 0..MaxFaults
      BY DEF AccountsKnown, ReconcilerInv, ReconcilerTypeOK
    <2>2. Forgotten \in Nat
      <3>1. MaxFaults \in Nat
        BY ReconcilerAssumption
      <3>2. QED
        BY <2>1, <3>1 DEF Forgotten
    <2>3. Cardinality(Made(r)) \in Nat /\ Cardinality(Made(r)) <= Forgotten + (IF Kept(r) THEN 1 ELSE 0)
      BY FS_CardinalityType DEF FewAccounts
    <2>4. QED
      BY <2>2, <2>3
  <1>4. QED
    BY <1>1, <1>2, <1>3, AccountInv, PTL DEF Spec

-----------------------------------------------------------------------------
(* Deletions, when every key is used once.                                  *)

(* No spec asks for a key, and no other client adds an account.             *)
GeneratedOnly == (\A s \in Specs : s.key = "") /\ "add" \notin Foreign

(* Among the accounts f, the key that o names is used, and its account is   *)
(* r's if it is live.                                                       *)
Live(f, k) == k \in Keys /\ f[k].live

Owns(f, r, o) ==
    /\ o.ann \in Generated => f[o.ann].used
    /\ Live(f, o.ann) => f[o.ann].maker = r

(* A copy o that names a live account is of the resource as it is now: the  *)
(* latest copy x names it too, and is being deleted if o is.                *)
Agrees(f, x, o) == Live(f, o.ann) => x.ann = o.ann /\ (o.deleting => x.deleting)

Held(f, o) == Live(f, o.ann) => o.present /\ o.finalizer

KeysInv ==
    /\ \A k \in Keys : accts[k].live => accts[k].used /\ k \in Generated
    /\ \A r \in Resources : Owns(accts, r, api[r]) /\ Held(accts, api[r])
    /\ \A w \in Workers, r \in Resources :
          Owns(accts, r, cache[w][r]) /\ Agrees(accts, api[r], cache[w][r])
    /\ \A w \in Workers : pc[w] # "idle" =>
          /\ Owns(accts, cur[w], mem[w])
          /\ pc[w] # "created" => Agrees(accts, api[cur[w]], mem[w])
          /\ pc[w] \in DeleteStages => mem[w].deleting

(* A key stays used, and an account comes to life only with an unused one.  *)
Onward ==
    \A k \in Keys :
        /\ accts[k].used => accts'[k].used
        /\ accts'[k].live =>
             \/ accts[k].live /\ accts'[k].maker = accts[k].maker
             \/ k \in Generated /\ ~accts[k].used /\ accts'[k].used

(* Create makes an account with a key that was never used, or none.         *)
LEMMA AddGenerated ==
  ASSUME GeneratedOnly, ReconcilerInv, ServiceTypes, NEW w \in Workers, AddServiceAccount(w)
  PROVE  \/ accts' = accts /\ Call(w, "createFailed")
         \/ \E k \in Generated :
              /\ k \in Keys /\ ~accts[k].used /\ ~accts[k].live
              /\ accts' = [accts EXCEPT ![k] = NewAccount(w)]
              /\ \/ ExternalCall(w, "created", k, k, mem[w].ready)
                 \/ Call(w, "createFailed")
  <1>1. pc[w] # "idle"
    BY DEF AddServiceAccount
  <1>2. mem[w].spec \in Specs /\ mem[w].spec.key = ""
    BY <1>1, WorkerFacts DEF GeneratedOnly
  <1>3. \A k \in NewKeys(mem[w].spec) : k \in Generated /\ ~accts[k].used
    BY <1>2, NewKeysFacts
  <1>4. QED
    BY <1>3, AddFacts

(* No call of the controller, and no other client, does otherwise.          *)
LEMMA OnwardStep ==
  ASSUME GeneratedOnly, ReconcilerInv, ServiceTypes, [Next]_vars
  PROVE  Onward
  <1>1. CASE accts' = accts
    BY <1>1 DEF Onward
  <1>2. ASSUME NEW q \in Keys, NEW a, accts' = [accts EXCEPT ![q] = a],
               accts[q].used => a.used,
               a.live => \/ accts[q].live /\ a.maker = accts[q].maker
                         \/ q \in Generated /\ ~accts[q].used /\ a.used
        PROVE  Onward
    <2>1. \A k \in Keys : accts'[k] = IF k = q THEN a ELSE accts[k]
      BY <1>2 DEF ServiceTypes
    <2>2. QED
      BY <1>2, <2>1 DEF Onward
  <1>3. ASSUME NEW w \in Workers, AddServiceAccount(w) PROVE Onward
    <2>1. pc[w] # "idle" /\ Generated \subseteq Keys
      BY <1>3, ServiceAccountAssumption DEF AddServiceAccount
    <2>2. NewAccount(w).used
      BY <2>1, WorkerFacts
    <2>3. QED
      BY <1>1, <1>2, <1>3, <2>1, <2>2, AddGenerated
  <1>4. ASSUME NEW k \in Keys
        PROVE  /\ ~[NoAccount EXCEPT !.used = TRUE].live
               /\ [NoAccount EXCEPT !.used = TRUE].used
    BY DEF NoAccount
  <1>5. ASSUME NEW w \in Workers, DeleteServiceAccount(w) PROVE Onward
    <2>1. CASE mem[w].ann \in Keys
      <3> DEFINE a == [NoAccount EXCEPT !.used = TRUE]
      <3>1. accts' = accts \/ accts' = [accts EXCEPT ![mem[w].ann] = a]
        BY <1>5 DEF DeleteServiceAccount
      <3>2. ~a.live /\ a.used
        BY <1>4, <2>1
      <3> HIDE DEF a
      <3>3. QED
        BY <1>1, <1>2, <2>1, <3>1, <3>2
    <2>2. CASE mem[w].ann \notin Keys
      <3>1. accts' = accts
        BY <1>5, <2>2 DEF DeleteServiceAccount, ServiceTypes
      <3>2. QED
        BY <1>1, <3>1
    <2>3. QED
      BY <2>1, <2>2
  <1>6. ASSUME NEW w \in Workers, UpdateServiceAccount(w) PROVE Onward
    <2> DEFINE s == mem[w].spec
               b == accts[mem[w].ann]
               a == [b EXCEPT !.policy = IF s.policy = "" THEN @ ELSE Stored(s.policy),
                              !.exp = IF s.exp = "" THEN @ ELSE s.exp,
                              !.secret = IF s.secret = "" THEN @ ELSE s.secret]
    <2>1. CASE mem[w].ann \in Keys
      <3>1. accts' = accts \/ (accts' = [accts EXCEPT ![mem[w].ann] = a] /\ b.live)
        BY <1>6 DEF UpdateServiceAccount
      <3>2. a.live = b.live /\ a.used = b.used /\ a.maker = b.maker
        <4>1. b \in Account
          BY <2>1 DEF ServiceTypes
        <4>2. QED
          BY <4>1 DEF Account
      <3> HIDE DEF a
      <3>3. QED
        BY <1>1, <1>2, <2>1, <3>1, <3>2
    <2>2. CASE mem[w].ann \notin Keys
      <3>1. accts' = accts
        BY <1>6, <2>2 DEF UpdateServiceAccount, ServiceTypes
      <3>2. QED
        BY <1>1, <3>1
    <2>3. QED
      BY <2>1, <2>2
  <1>7. ASSUME NEW k \in Keys, ForeignClient(k) PROVE Onward
    <2>1. CASE accts' = [accts EXCEPT ![k] = [NoAccount EXCEPT !.used = TRUE]]
      <3> DEFINE a == [NoAccount EXCEPT !.used = TRUE]
      <3>1. ~a.live /\ a.used
        BY <1>4
      <3>2. accts' = [accts EXCEPT ![k] = a]
        BY <2>1
      <3> HIDE DEF a
      <3>3. QED
        BY <1>2, <3>1, <3>2
    <2>2. CASE accts' = [accts EXCEPT ![k].enabled = FALSE] /\ accts[k].live
      <3> DEFINE a == [accts[k] EXCEPT !.enabled = FALSE]
      <3>1. a.live = accts[k].live /\ a.used = accts[k].used /\ a.maker = accts[k].maker
        <4>1. accts[k] \in Account
          BY DEF ServiceTypes
        <4>2. QED
          BY <4>1 DEF Account
      <3>2. accts' = [accts EXCEPT ![k] = a]
        BY <2>2
      <3> HIDE DEF a
      <3>3. QED
        BY <1>2, <2>2, <3>1, <3>2
    <2>3. QED
      BY <1>7, <2>1, <2>2 DEF ForeignClient, GeneratedOnly
  <1>8. ASSUME NEW r \in Resources, UserStep(r) PROVE Onward
    BY <1>1, <1>8, UserStepIsStepOfUser
  <1>9. ASSUME NEW w \in Workers, WorkerStep(w) PROVE Onward
    BY <1>1, <1>3, <1>5, <1>6, <1>9, WorkerStepAccounts
  <1>10. CASE UNCHANGED vars
    BY <1>1, <1>10 DEF vars
  <1>11. QED
    BY <1>7, <1>8, <1>9, <1>10, NextCases

(* A copy made before the step has no account that came to life in it.      *)
LEMMA OldKey ==
  ASSUME Onward, NEW r, NEW o, Owns(accts, r, o)
  PROVE  /\ Owns(accts', r, o)
         /\ Live(accts', o.ann) => Live(accts, o.ann)
  <1>1. o.ann \in Generated => o.ann \in Keys
    BY ServiceAccountAssumption
  <1>2. QED
    BY <1>1 DEF Onward, Owns, Live

(* The initializer gives a resource its own name, which MinIO does not      *)
(* generate.                                                                *)
LEMMA NamedByInitializer ==
  ASSUME ReconcilerInv, [Next]_vars, NEW r \in Resources, Named(r)
  PROVE  api'[r].ann \in {api[r].ann, NameOf[r]}
  <1>1. PICK w \in Workers : cur[w] = r /\ pc[w] = "observe" /\ pc'[w] = "observe" /\ w \in fresh'
    BY DEF Named
  <1>2. CASE Bystander(w)
    BY <1>1, <1>2 DEF Bystander
  <1>3. CASE UNCHANGED api
    BY <1>3
  <1>4. CASE WorkerStep(w)
    <2>1. /\ pc \in [Workers -> Stages] /\ api \in [Resources -> Object] /\ api[r] \in Object
      BY DEF ReconcilerInv, ReconcilerTypeOK
    <2>2. CASE Initialize(w, NameOf[r], mem[w].spec)
      <3>1. api'[r] = [api[r] EXCEPT !.ann = NameOf[r], !.spec = mem[w].spec]
        BY <1>1, <2>1, <2>2 DEF Initialize, ClientUpdate, Store
      <3>2. QED
        BY <2>1, <3>1 DEF Object
    <2>3. CASE RuntimeStep(w) /\ ~Initialize(w, NameOf[r], mem[w].spec)
      <3>1. QED
        BY <1>1, <2>3 DEF RuntimeStep, AddFinalizer, MarkPending, Observed, RecordCreation, RecordFailure,
                          WriteStatus, Conflict, InitializeConflict
    <2>4. CASE ~RuntimeStep(w)
      <3>1. UNCHANGED api
        BY <1>1, <1>4, <2>4
           DEF WorkerStep, Step, Observe, ObserveFails, AfterObserve, AfterObserveError, CheckKey,
               AddServiceAccount, PublishConnection, UpdateServiceAccount, CheckDelete, DeleteServiceAccount,
               RemoveFinalizer, Finalize, Stop, Crash, SyncCache, CacheSync, StartReconcile, Load
      <3>2. QED
        BY <3>1
    <2>5. QED
      BY <2>2, <2>3, <2>4
  <1>5. ASSUME NEW v \in Workers, v # w, WorkerStep(v) PROVE Bystander(w)
    BY <1>5, StepOfOther, WorkerStepIsStepOf
  <1>6. ASSUME NEW q \in Resources, UserStep(q) PROVE Bystander(w)
    BY <1>6, StepOfUserAside, UserStepIsStepOfUser
  <1>7. (\E k \in Keys : ForeignClient(k)) \/ UNCHANGED vars => UNCHANGED api
    BY DEF ForeignClient, vars, reconcilerVars
  <1>8. QED
    BY <1>2, <1>3, <1>4, <1>5, <1>6, <1>7, NextCases

(* A resource whose account is live keeps it, and stays.                    *)
LEMMA HolderStays ==
  ASSUME AccountsKnown, KeysInv, [Next]_vars, NEW r \in Resources, Live(accts, api[r].ann)
  PROVE  /\ api'[r].ann = api[r].ann
         /\ api'[r].present /\ api'[r].finalizer
         /\ api[r].deleting => api'[r].deleting
  <1>1. /\ api[r].present /\ api[r].finalizer
        /\ api[r].ann \in Made(r) /\ api[r].ann # ""
    BY ServiceAccountAssumption DEF KeysInv, Held, Owns, Live, Made
  <1>2. CASE api'[r] = api[r] \/ Stays(r)
    BY <1>1, <1>2 DEF Stays
  <1>3. CASE Named(r)
    <2>1. PICK w \in Workers : cur[w] = r /\ w \in fresh /\ pc[w] = "observe" /\ mem[w].ann = ""
      BY <1>3 DEF Named
    <2>2. mem[w].ann = api[r].ann
      BY <2>1 DEF AccountsKnown, AllKnow, KnowsAccount
    <2>3. QED
      BY <1>1, <2>1, <2>2
  <1>4. CASE Recorded(r)
    <2>1. PICK w \in Workers : /\ cur[w] = r /\ pc[w] = "created"
                               /\ api'[r].present /\ api'[r].finalizer
                               /\ api'[r].ann = mem[w].ann /\ api'[r].deleting = api[r].deleting
      BY <1>4 DEF Recorded
    <2>2. api[r].ann = mem[w].ann
      BY <1>1, <2>1 DEF AccountsKnown, AllKnow, KnowsAccount
    <2>3. QED
      BY <2>1, <2>2
  <1>5. CASE Finalized(r)
    <2>1. PICK w \in Workers : cur[w] = r /\ w \in fresh /\ pc[w] = "finalize"
      BY <1>5 DEF Finalized
    <2>2. mem[w].ann = api[r].ann /\ mem[w].ann \notin Made(r)
      BY <2>1 DEF AccountsKnown, AllKnow, KnowsAccount
    <2>3. QED
      BY <1>1, <2>2
  <1>6. CASE Dropped(r) \/ Applied(r)
    BY <1>1, <1>6 DEF Dropped, Applied
  <1>7. QED
    BY <1>2, <1>3, <1>4, <1>5, <1>6, NextIsSomeStep, ResourceChanges DEF AccountsKnown

(* The API server's copy.                                                   *)
LEMMA OwnsStep ==
  ASSUME AccountsKnown, KeysInv, Onward, [Next]_vars, NEW r \in Resources
  PROVE  Owns(accts', r, api'[r]) /\ Held(accts', api'[r])
  <1>1. /\ Owns(accts, r, api[r])
        /\ \A w \in Workers : pc[w] # "idle" => Owns(accts, cur[w], mem[w])
    BY DEF KeysInv
  <1>2. ASSUME api'[r].ann \notin Generated PROVE Owns(accts', r, api'[r]) /\ Held(accts', api'[r])
    <2>1. \A k \in Keys : accts'[k].live => k \in Generated
      BY DEF KeysInv, Onward
    <2>2. QED
      BY <1>2, <2>1 DEF Owns, Held, Live
  <1>3. ASSUME api'[r].ann = api[r].ann PROVE Owns(accts', r, api'[r]) /\ Held(accts', api'[r])
    <2>1. Owns(accts', r, api[r]) /\ (Live(accts', api[r].ann) => Live(accts, api[r].ann))
      BY <1>1, OldKey
    <2>2. QED
      BY <1>3, <2>1, HolderStays DEF Owns, Held
  <1>4. CASE Recorded(r)
    <2>1. PICK w \in Workers : /\ cur[w] = r /\ pc[w] = "created"
                               /\ api'[r].present /\ api'[r].finalizer
                               /\ api'[r].ann = mem[w].ann
      BY <1>4 DEF Recorded
    <2>2. Owns(accts', r, mem[w])
      BY <1>1, <2>1, OldKey
    <2>3. QED
      BY <2>1, <2>2 DEF Owns, Held
  <1>5. "" \notin Generated /\ NameOf[r] \notin Generated
    BY ServiceAccountAssumption
  <1>6. CASE Named(r)
    BY <1>2, <1>3, <1>5, <1>6, NamedByInitializer DEF AccountsKnown
  <1>7. CASE Finalized(r) \/ Dropped(r) \/ Applied(r)
    BY <1>2, <1>5, <1>7, GoneFacts DEF Finalized, Dropped, Applied
  <1>8. QED
    BY <1>3, <1>4, <1>6, <1>7, NextIsSomeStep, ResourceChanges DEF AccountsKnown, Stays

(* A copy that was made before the step.                                    *)
LEMMA OldCopy ==
  ASSUME AccountsKnown, KeysInv, Onward, [Next]_vars, NEW r \in Resources, NEW o, Owns(accts, r, o)
  PROVE  /\ Owns(accts', r, o)
         /\ Agrees(accts, api[r], o) => Agrees(accts', api'[r], o)
  <1>1. Owns(accts', r, o) /\ (Live(accts', o.ann) => Live(accts, o.ann))
    BY OldKey
  <1>2. QED
    BY <1>1, HolderStays DEF Agrees

(* What a worker's copy has, by the stage it is at.                         *)
Copied(w) ==
    pc[w] # "idle" =>
        /\ Owns(accts, cur[w], mem[w])
        /\ pc[w] # "created" => Agrees(accts, api[cur[w]], mem[w])
        /\ pc[w] \in DeleteStages => mem[w].deleting

(* A worker that keeps the key and the deletion of its copy.                *)
LEMMA CopyKept ==
  ASSUME AccountsKnown, KeysInv, Onward, [Next]_vars, NEW w \in Workers, pc[w] # "idle",
         cur'[w] = cur[w], mem'[w].ann = mem[w].ann, mem'[w].deleting = mem[w].deleting,
         pc[w] = "created" => pc'[w] = "created",
         pc'[w] \in DeleteStages => pc[w] \in DeleteStages \/ mem[w].deleting
  PROVE  Copied(w)'
  <1>1. cur[w] \in Resources /\ Copied(w)
    BY DEF AccountsKnown, ReconcilerInv, BusyHasResource, KeysInv, Copied
  <1>2. /\ Owns(accts', cur[w], mem[w])
        /\ pc[w] # "created" => Agrees(accts', api'[cur[w]], mem[w])
    BY <1>1, OldCopy DEF Copied
  <1>3. QED
    BY <1>1, <1>2 DEF Copied, Owns, Agrees

(* One whose copy is what it has just written.                              *)
LEMMA CopyWritten ==
  ASSUME AccountsKnown, KeysInv, Onward, [Next]_vars, NEW w \in Workers, pc[w] # "idle",
         cur'[w] = cur[w], mem'[w].ann = api'[cur[w]].ann, mem'[w].deleting = api'[cur[w]].deleting,
         pc'[w] \notin DeleteStages
  PROVE  Copied(w)'
  <1>1. cur[w] \in Resources
    BY DEF AccountsKnown, ReconcilerInv, BusyHasResource
  <1>2. Owns(accts', cur[w], api'[cur[w]])
    BY <1>1, OwnsStep
  <1>3. QED
    BY <1>2 DEF Copied, Owns, Agrees

(* The runtime's writes leave the copy as the API server has it.            *)
LEMMA CopyRuntime ==
  ASSUME AccountsKnown, KeysInv, Onward, [Next]_vars, NEW w \in Workers, RuntimeStep(w)
  PROVE  Copied(w)'
  <1>1. /\ pc \in [Workers -> Stages] /\ mem \in [Workers -> Object] /\ api \in [Resources -> Object]
        /\ (pc[w] # "idle" => cur[w] \in Resources)
    BY DEF AccountsKnown, ReconcilerInv, ReconcilerTypeOK, BusyHasResource
  <1> DEFINE r == cur[w]
  <1>2. ASSUME NEW o \in Object, NEW stage, pc[w] # "idle", ClientUpdate(w, o, stage), stage \notin DeleteStages
        PROVE  Copied(w)'
    <2> DEFINE m == [o EXCEPT !.spec = mem[w].spec,
                              !.at = IF o.at = "" THEN mem[w].at ELSE o.at,
                              !.ready = IF o.ready = "" THEN mem[w].ready ELSE o.ready]
    <2>1. m.ann = o.ann /\ m.deleting = o.deleting
      BY DEF Object
    <2>2. api'[r] = o /\ mem'[w] = m /\ cur' = cur /\ pc'[w] = stage
      BY <1>1, <1>2 DEF ClientUpdate, Store
    <2> HIDE DEF m
    <2>3. QED
      BY <1>2, <2>1, <2>2, CopyWritten
  <1>3. /\ "observe" \notin DeleteStages /\ "create" \notin DeleteStages
        /\ \A outcome \in Observed : AfterFinalizer(outcome) \notin DeleteStages
    BY DEF DeleteStages, Observed, AfterFinalizer
  <1>4. CASE pc[w] # "idle" /\ Initialize(w, NameOf[r], mem[w].spec)
    <2> DEFINE o == [api[r] EXCEPT !.ann = NameOf[r], !.spec = mem[w].spec]
    <2>1. api[r] \in Object /\ mem[w].spec \in Specs /\ NameOf[r] \in Anns
      BY <1>1, <1>4, ServiceAccountAssumption DEF Object
    <2>2. o \in Object
      BY <2>1 DEF Object
    <2>3. ClientUpdate(w, o, "observe")
      BY <1>4 DEF Initialize
    <2> HIDE DEF o
    <2>4. QED
      BY <1>2, <1>3, <1>4, <2>2, <2>3
  <1>5. CASE AddFinalizer(w, mem[w].spec)
    <2> DEFINE o == [api[r] EXCEPT !.finalizer = TRUE, !.spec = mem[w].spec]
    <2>1. pc[w] \in Observed /\ pc[w] # "idle"
      BY <1>5 DEF AddFinalizer, Observed
    <2>2. api[r] \in Object /\ mem[w].spec \in Specs
      BY <1>1, <2>1 DEF Object
    <2>3. o \in Object
      BY <2>2 DEF Object
    <2>4. ClientUpdate(w, o, AfterFinalizer(pc[w]))
      BY <1>5 DEF AddFinalizer
    <2> HIDE DEF o
    <2>5. QED
      BY <1>2, <1>3, <2>1, <2>3, <2>4
  <1>6. CASE MarkPending(w, mem[w].spec)
    <2> DEFINE o == [api[r] EXCEPT !.create = "pending", !.spec = mem[w].spec]
    <2>1. pc[w] # "idle"
      BY <1>6 DEF MarkPending
    <2>2. api[r] \in Object /\ mem[w].spec \in Specs
      BY <1>1, <2>1 DEF Object
    <2>3. o \in Object
      BY <2>2 DEF Object
    <2>4. ClientUpdate(w, o, "create")
      BY <1>6 DEF MarkPending
    <2> HIDE DEF o
    <2>5. QED
      BY <1>2, <1>3, <2>1, <2>3, <2>4
  <1>7. CASE RecordCreation(w, api[r].spec, "publish") \/ RecordFailure(w, api[r].spec)
    <2>1. pc[w] # "idle"
      BY <1>7 DEF RecordCreation, RecordFailure
    <2>2. api[r] \in Object
      BY <1>1, <2>1
    <2>3. /\ api'[r].ann = mem'[w].ann /\ api'[r].deleting = mem'[w].deleting
          /\ cur' = cur /\ pc'[w] \in {"publish", "status"}
      <3>1. CASE RecordCreation(w, api[r].spec, "publish")
        <4> DEFINE o == [api[r] EXCEPT !.create = "succeeded", !.ann = mem[w].ann, !.spec = api[r].spec]
        <4>1. \A at : /\ [o EXCEPT !.at = at, !.ready = "Creating"].ann = o.ann
                      /\ [o EXCEPT !.at = at, !.ready = "Creating"].deleting = o.deleting
          BY <2>2 DEF Object
        <4>2. /\ api'[r] = o /\ cur' = cur /\ pc'[w] = "publish"
              /\ \E at : mem'[w] = [o EXCEPT !.at = at, !.ready = "Creating"]
          BY <1>1, <2>1, <3>1 DEF RecordCreation, Store
        <4> HIDE DEF o
        <4>3. QED
          BY <4>1, <4>2
      <3>2. CASE RecordFailure(w, api[r].spec)
        <4> DEFINE o == [api[r] EXCEPT !.create = "failed", !.spec = api[r].spec]
        <4>1. [o EXCEPT !.ready = "Creating"].ann = o.ann /\ [o EXCEPT !.ready = "Creating"].deleting = o.deleting
          BY <2>2 DEF Object
        <4>2. /\ api'[r] = o /\ cur' = cur /\ pc'[w] = "status"
              /\ mem'[w] = [o EXCEPT !.ready = "Creating"]
          BY <1>1, <2>1, <3>2 DEF RecordFailure, Store
        <4> HIDE DEF o
        <4>3. QED
          BY <4>1, <4>2
      <3>3. QED
        BY <1>7, <3>1, <3>2
    <2>4. "publish" \notin DeleteStages /\ "status" \notin DeleteStages
      BY DEF DeleteStages
    <2>5. QED
      BY <2>1, <2>3, <2>4, CopyWritten
  <1>8. CASE WriteStatus(w) \/ Conflict(w) \/ InitializeConflict(w)
    BY <1>1, <1>8 DEF WriteStatus, Conflict, InitializeConflict, Return, Copied
  <1>9. QED
    BY <1>4, <1>5, <1>6, <1>7, <1>8 DEF RuntimeStep

(* A look at the resource or at MinIO, and the end of a reconcile: only     *)
(* Observe of a resource that is being deleted leads to Delete.             *)
LEMMA CopyLook ==
  ASSUME AccountsKnown, KeysInv, Onward, [Next]_vars, NEW w \in Workers,
         \/ Observe(w) \/ ObserveFails(w) \/ RemoveFinalizer(w) \/ Stop(w) \/ SyncCache(w)
         \/ \E r \in Resources : StartReconcile(w, r)
  PROVE  Copied(w)'
  <1>1. /\ pc \in [Workers -> Stages] /\ mem \in [Workers -> Object] /\ mem[w] \in Object
        /\ cur \in [Workers -> Resources \cup {NoResource}]
    BY DEF AccountsKnown, ReconcilerInv, ReconcilerTypeOK
  <1>2. ASSUME NEW m, m.ann = mem[w].ann, m.deleting = mem[w].deleting,
               \/ AfterObserveError(w, m)
               \/ \E outcome \in {"absent", "upToDate", "outdated"} : AfterObserve(w, m, outcome)
        PROVE  Copied(w)'
    <2>1. pc[w] = "observe" /\ cur' = cur /\ mem'[w] = m
      BY <1>1, <1>2 DEF AfterObserve, AfterObserveError
    <2>2. pc'[w] \in DeleteStages => mem[w].deleting
      BY <1>1, <1>2 DEF AfterObserve, AfterObserveError, AfterFinalizer, DeleteStages
    <2>3. QED
      BY <1>2, <2>1, <2>2, CopyKept
  <1>3. CASE Observe(w) \/ ObserveFails(w)
    <2>1. \A at, ready : /\ [mem[w] EXCEPT !.at = at, !.ready = ready].ann = mem[w].ann
                         /\ [mem[w] EXCEPT !.at = at, !.ready = ready].deleting = mem[w].deleting
      BY <1>1 DEF Object
    <2>2. CASE ObserveFails(w)
      BY <1>2, <2>2 DEF ObserveFails
    <2>3. CASE AfterObserve(w, mem[w], "absent")
      BY <1>2, <2>3
    <2>4. ASSUME NEW at, NEW ready, NEW outcome \in {"upToDate", "outdated"},
                 AfterObserve(w, [mem[w] EXCEPT !.at = at, !.ready = ready], outcome)
          PROVE  Copied(w)'
      <3> DEFINE m == [mem[w] EXCEPT !.at = at, !.ready = ready]
      <3>1. m.ann = mem[w].ann /\ m.deleting = mem[w].deleting
        BY <2>1
      <3>2. AfterObserve(w, m, outcome) /\ outcome \in {"absent", "upToDate", "outdated"}
        BY <2>4
      <3> HIDE DEF m
      <3>3. QED
        BY <1>2, <3>1, <3>2
    <2>5. QED
      BY <1>3, <2>2, <2>3, <2>4, ObserveCases
  <1>4. CASE RemoveFinalizer(w) \/ Stop(w)
    BY <1>1, <1>4 DEF RemoveFinalizer, Finalize, Stop, Crash, Return, Copied
  <1>5. CASE SyncCache(w)
    <2>1. UNCHANGED <<pc, cur, mem>>
      BY <1>5 DEF SyncCache, CacheSync
    <2>2. QED
      BY <2>1, CopyKept DEF Copied
  <1>6. ASSUME NEW r \in Resources, StartReconcile(w, r) PROVE Copied(w)'
    <2> DEFINE o == cache[w][r]
    <2>1. o \in Object
      BY DEF AccountsKnown, ReconcilerInv, ReconcilerTypeOK
    <2>2. [o EXCEPT !.ready = "Creating"].ann = o.ann /\ [o EXCEPT !.ready = "Creating"].deleting = o.deleting
      BY <2>1 DEF Object
    <2>3. /\ mem'[w].ann = o.ann /\ mem'[w].deleting = o.deleting
          /\ cur'[w] = r /\ pc'[w] \in {"status", "observe"}
      BY <1>1, <1>6, <2>2 DEF StartReconcile, Load
    <2>4. Owns(accts, r, o) /\ Agrees(accts, api[r], o)
      BY DEF KeysInv
    <2> HIDE DEF o
    <2>5. Owns(accts', r, o) /\ Agrees(accts', api'[r], o)
      BY <2>4, OldCopy
    <2>6. pc'[w] \notin DeleteStages
      BY <2>3 DEF DeleteStages
    <2>7. QED
      BY <2>3, <2>5, <2>6 DEF Copied, Owns, Agrees
  <1>7. QED
    BY <1>3, <1>4, <1>5, <1>6

(* The calls of Create, Update and Delete: Create puts the new key into the *)
(* copy, the others keep what is there.                                     *)
LEMMA CopyCall ==
  ASSUME GeneratedOnly, AccountsKnown, KeysInv, Onward, [Next]_vars, NEW w \in Workers,
         \/ CheckKey(w) \/ AddServiceAccount(w) \/ PublishConnection(w)
         \/ UpdateServiceAccount(w) \/ CheckDelete(w) \/ DeleteServiceAccount(w)
  PROVE  Copied(w)'
  <1>1. /\ pc \in [Workers -> Stages] /\ mem \in [Workers -> Object] /\ mem[w] \in Object
        /\ accts \in [Keys -> Account]
    BY DEF AccountsKnown, ReconcilerInv, ReconcilerTypeOK, ServiceTypes
  <1>2. \A ann, at, ready : /\ [mem[w] EXCEPT !.ann = ann, !.at = at, !.ready = ready].ann = ann
                            /\ [mem[w] EXCEPT !.ann = ann, !.at = at, !.ready = ready].deleting = mem[w].deleting
    BY <1>1 DEF Object
  <1>3. ASSUME NEW stage, NEW ann, NEW at, NEW ready, ExternalCall(w, stage, ann, at, ready)
        PROVE  /\ pc[w] \notin {"idle", "created"} /\ cur' = cur /\ pc'[w] = stage
               /\ mem'[w].ann = ann /\ mem'[w].deleting = mem[w].deleting
               /\ stage \in DeleteStages => pc[w] \in DeleteStages
    <2>1. mem'[w] = [mem[w] EXCEPT !.ann = ann, !.at = at, !.ready = ready]
      BY <1>1, <1>3 DEF ExternalCall
    <2>2. QED
      BY <1>1, <1>2, <1>3, <2>1 DEF ExternalCall, CreateStages, UpdateStages, DeleteStages
  <1>4. ASSUME NEW stage, NEW at, NEW ready, ExternalCall(w, stage, mem[w].ann, at, ready) PROVE Copied(w)'
    BY <1>3, <1>4, CopyKept
  <1>5. ASSUME NEW k \in Generated, k \in Keys, accts' = [accts EXCEPT ![k] = NewAccount(w)],
               ExternalCall(w, "created", k, k, mem[w].ready)
        PROVE  Copied(w)'
    <2>1. pc[w] # "idle" /\ cur' = cur /\ pc'[w] = "created" /\ mem'[w].ann = k
      BY <1>3, <1>5
    <2>2. accts'[k] = NewAccount(w)
      BY <1>1, <1>5
    <2>3. NewAccount(w).used /\ NewAccount(w).maker = cur[w]
      BY <2>1, WorkerFacts DEF AccountsKnown
    <2>4. QED
      BY <2>1, <2>2, <2>3 DEF Copied, Owns, DeleteStages
  <1>6. CASE AddServiceAccount(w)
    BY <1>4, <1>5, <1>6, AddGenerated DEF AccountsKnown, Call
  <1>7. CASE \/ CheckKey(w) \/ PublishConnection(w) \/ UpdateServiceAccount(w)
             \/ CheckDelete(w) \/ DeleteServiceAccount(w)
    BY <1>4, <1>7 DEF CheckKey, PublishConnection, UpdateServiceAccount, CheckDelete, DeleteServiceAccount,
                      Call, DeletingStatus
  <1>8. QED
    BY <1>6, <1>7

(* A worker that looks on.                                                  *)
LEMMA CopyAside ==
  ASSUME AccountsKnown, KeysInv, Onward, [Next]_vars, NEW w \in Workers, Bystander(w)
  PROVE  Copied(w)'
  <1>1. CASE pc[w] = "idle"
    BY <1>1 DEF Bystander, Copied
  <1>2. CASE pc[w] # "idle"
    <2>1. Copied(w)
      BY DEF KeysInv, Copied
    <2>2. QED
      BY <1>2, <2>1, CopyKept DEF Bystander, Copied
  <1>3. QED
    BY <1>1, <1>2

(* Whoever takes the step.                                                  *)
LEMMA CopyStep ==
  ASSUME GeneratedOnly, AccountsKnown, KeysInv, Onward, [Next]_vars, NEW w \in Workers
  PROVE  Copied(w)'
  <1>1. CASE WorkerStep(w)
    BY <1>1, CopyRuntime, CopyLook, CopyCall DEF WorkerStep, Step
  <1>2. ASSUME NEW v \in Workers, v # w, WorkerStep(v) PROVE Bystander(w)
    BY <1>2, StepOfOther, WorkerStepIsStepOf DEF AccountsKnown
  <1>3. ASSUME NEW r \in Resources, UserStep(r) PROVE Bystander(w)
    BY <1>3, UserStepIsStepOfUser, StepOfUserAside DEF AccountsKnown
  <1>4. (\E k \in Keys : ForeignClient(k)) \/ UNCHANGED vars => Bystander(w)
    BY DEF ForeignClient, vars, reconcilerVars, Bystander
  <1>5. QED
    BY <1>1, <1>2, <1>3, <1>4, NextCases, CopyAside

(* What is in the caches is old, or the API server's copy.                  *)
LEMMA CacheStep ==
  ASSUME ReconcilerInv, [Next]_vars, NEW w \in Workers, NEW r \in Resources
  PROVE  cache'[w][r] = cache[w][r] \/ cache'[w][r] = api'[r]
  <1>1. cache \in [Workers -> [Resources -> Object]]
    BY DEF ReconcilerInv, ReconcilerTypeOK
  <1>2. ASSUME NEW v \in Workers, StepOf(v) PROVE cache' = cache \/ CacheSync(v)
    BY <1>2 DEF StepOf, Load, AfterObserve, AfterObserveError, Initialize, AddFinalizer, MarkPending,
                ClientUpdate, RecordCreation, RecordFailure, ExternalCall, WriteStatus, Finalize, Conflict,
                InitializeConflict, WriteRefused, Crash
  <1>3. ASSUME NEW v \in Workers, CacheSync(v)
        PROVE  cache'[w][r] = cache[w][r] \/ cache'[w][r] = api'[r]
    BY <1>1, <1>3 DEF CacheSync
  <1>4. ASSUME NEW q \in Resources, StepOfUser(q) PROVE cache' = cache
    BY <1>4 DEF StepOfUser, UserApply, UserEdit, UserDelete, UserWrite
  <1>5. QED
    BY <1>2, <1>3, <1>4, NextCases, WorkerStepIsStepOf, UserStepIsStepOfUser
       DEF ForeignClient, vars, reconcilerVars

(* Every step keeps the invariant.                                          *)
LEMMA KeysStep == GeneratedOnly /\ AccountsKnown /\ KeysInv /\ [Next]_vars => KeysInv'
  <1> SUFFICES ASSUME GeneratedOnly, AccountsKnown, KeysInv, [Next]_vars PROVE KeysInv'
    OBVIOUS
  <1>1. Onward
    BY OnwardStep DEF AccountsKnown
  <1>2. ASSUME NEW k \in Keys, accts'[k].live PROVE accts'[k].used /\ k \in Generated
    BY <1>1, <1>2 DEF Onward, KeysInv
  <1>3. \A r \in Resources : Owns(accts', r, api'[r]) /\ Held(accts', api'[r])
    BY <1>1, OwnsStep
  <1>4. ASSUME NEW w \in Workers, NEW r \in Resources
        PROVE  Owns(accts', r, cache'[w][r]) /\ Agrees(accts', api'[r], cache'[w][r])
    <2>1. CASE cache'[w][r] = api'[r]
      BY <1>3, <2>1 DEF Agrees
    <2>2. CASE cache'[w][r] = cache[w][r]
      <3>1. Owns(accts, r, cache[w][r]) /\ Agrees(accts, api[r], cache[w][r])
        BY DEF KeysInv
      <3>2. Owns(accts', r, cache[w][r]) /\ Agrees(accts', api'[r], cache[w][r])
        BY <1>1, <3>1, OldCopy
      <3>3. QED
        BY <2>2, <3>2
    <2>3. QED
      BY <2>1, <2>2, CacheStep DEF AccountsKnown
  <1>5. \A w \in Workers : Copied(w)'
    BY <1>1, CopyStep
  <1>6. QED
    BY <1>2, <1>3, <1>4, <1>5 DEF KeysInv, Copied

(* So it holds of every behaviour in which keys are generated.              *)
LEMMA KeysInvariant == ASSUME GeneratedOnly PROVE Spec => []KeysInv
  <1>1. Init => KeysInv
    <2> SUFFICES ASSUME Init PROVE KeysInv
      OBVIOUS
    <2>1. /\ \A k \in Keys : ~accts[k].live
          /\ \A r \in Resources : api[r] = Gone
          /\ \A w \in Workers : pc[w] = "idle" /\ \A r \in Resources : cache[w][r] = Gone
      BY DEF Init, ReconcilerInit, NoAccount
    <2>2. Gone.ann = "" /\ "" \notin Keys /\ "" \notin Generated
      BY GoneFacts, ServiceAccountAssumption
    <2>3. "idle" \notin DeleteStages
      BY DEF DeleteStages
    <2>4. QED
      BY <2>1, <2>2, <2>3 DEF KeysInv, Owns, Agrees, Held, Live
  <1>2. GeneratedOnly
    OBVIOUS
  <1>3. AccountsKnown /\ KeysInv /\ [Next]_vars => KeysInv'
    BY <1>2, KeysStep
  <1>4. QED
    BY <1>1, <1>3, AccountInv, PTL DEF Spec

(* However many replicas run and however old the copy is that a worker      *)
(* decided by, the controller removes an account only for a resource that   *)
(* is being deleted and has it: keys that MinIO generates are used once, so *)
(* a copy that has a live account is of its resource (delete.go).           *)
THEOREM ServiceAccountDeletesOwn == ASSUME GeneratedOnly PROVE Spec => DeletesOwn
  <1> DEFINE A == \A k \in Keys : accts[k].live /\ ~accts'[k].live /\ ops' = ops =>
                     \E r \in Resources : api[r].deleting /\ api[r].ann = k
  <1>1. AccountsKnown /\ KeysInv /\ [Next]_vars => A
    <2> SUFFICES ASSUME AccountsKnown, KeysInv, [Next]_vars, NEW k \in Keys,
                        accts[k].live, ~accts'[k].live, ops' = ops
                 PROVE  \E r \in Resources : api[r].deleting /\ api[r].ann = k
      OBVIOUS
    <2>1. /\ accts \in [Keys -> Account] /\ ReconcilerInv /\ ServiceTypes
          /\ ops \in 0..MaxOps
      BY DEF AccountsKnown, ServiceTypes, ReconcilerInv, ReconcilerTypeOK
    <2>2. ASSUME NEW w \in Workers, DeleteServiceAccount(w)
          PROVE  \E r \in Resources : api[r].deleting /\ api[r].ann = k
      <3>1. pc[w] = "delete2" /\ mem[w].ann = k
        BY <2>1, <2>2 DEF DeleteServiceAccount
      <3>2. cur[w] \in Resources /\ mem[w].deleting /\ Agrees(accts, api[cur[w]], mem[w])
        BY <2>1, <3>1 DEF KeysInv, DeleteStages, ReconcilerInv, BusyHasResource
      <3>3. QED
        BY <3>1, <3>2 DEF Agrees, Live
    <2>3. ASSUME NEW w \in Workers, UpdateServiceAccount(w) PROVE FALSE
      <3> DEFINE s == mem[w].spec
                 b == accts[mem[w].ann]
                 a == [b EXCEPT !.policy = IF s.policy = "" THEN @ ELSE Stored(s.policy),
                                !.exp = IF s.exp = "" THEN @ ELSE s.exp,
                                !.secret = IF s.secret = "" THEN @ ELSE s.secret]
      <3>1. accts' = [accts EXCEPT ![mem[w].ann] = a] /\ mem[w].ann = k
        BY <2>1, <2>3 DEF UpdateServiceAccount
      <3>2. a.live = b.live
        BY <2>1, <3>1 DEF Account
      <3> HIDE DEF a
      <3>3. QED
        BY <2>1, <3>1, <3>2
    <2>4. ASSUME NEW w \in Workers, AddServiceAccount(w) PROVE FALSE
      <3>1. NewAccount(w).live
        BY <2>1, <2>4, WorkerFacts DEF AddServiceAccount
      <3>2. QED
        BY <2>1, <2>4, <3>1, AddFacts
    <2>5. ASSUME NEW q \in Keys, ForeignClient(q) PROVE FALSE
      <3>1. ops' = ops + 1
        BY <2>5 DEF ForeignClient, Operation
      <3>2. ops + 1 # ops
        <4>1. ops \in 0..MaxOps /\ MaxOps \in Nat
          BY <2>1, ReconcilerAssumption
        <4>2. QED
          BY <4>1
      <3>3. QED
        BY <2>5, <3>1, <3>2
    <2>6. QED
      BY <2>2, <2>3, <2>4, <2>5, NextCases, WorkerStepAccounts, UserStepIsStepOfUser DEF vars
  <1>2. QED
    BY <1>1, AccountInv, KeysInvariant, PTL DEF Spec, DeletesOwn

-----------------------------------------------------------------------------
(* What the connection secret gives away.                                   *)

(* The key in the connection secret is used, and an account that has it and *)
(* is live is the one the resource names.                                   *)
Published(r) ==
    /\ conn[r].key \in Generated => accts[conn[r].key].used
    /\ Live(accts, conn[r].key) => api[r].ann = conn[r].key

(* It is emptied, or a worker publishes the key of its copy.                *)
LEMMA ConnStep ==
  ASSUME ReconcilerInv, ServiceTypes, [Next]_vars, NEW r \in Resources
  PROVE  \/ conn'[r].key \in {conn[r].key, ""}
         \/ \E w \in Workers : pc[w] = "publish" /\ cur[w] = r /\ conn'[r].key = mem[w].ann
  <1>1. conn \in [Resources -> [key : Anns, secret : Secrets \cup {"none"}]]
    BY DEF ServiceTypes, Details
  <1>2. NoSecret.key = "" /\ EmptySecret.key = ""
    BY DEF NoSecret, EmptySecret
  <1>3. ASSUME NEW w \in Workers, PublishConnection(w)
        PROVE  \/ conn'[r].key = conn[r].key
               \/ pc[w] = "publish" /\ cur[w] = r /\ conn'[r].key = mem[w].ann
    <2> DEFINE c == [key |-> mem[w].ann, secret |-> reply[w]]
    <2>1. c.key = mem[w].ann
      OBVIOUS
    <2>2. pc[w] = "publish" /\ (conn' = conn \/ conn' = [conn EXCEPT ![cur[w]] = c])
      BY <1>3 DEF PublishConnection
    <2> HIDE DEF c
    <2>3. QED
      BY <1>1, <2>1, <2>2
  <1>4. ASSUME NEW w \in Workers, WorkerStep(w), ~PublishConnection(w)
        PROVE  conn'[r].key \in {conn[r].key, ""}
    <2>1. \/ conn' = conn
          \/ conn' = [conn EXCEPT ![cur[w]] = EmptySecret]
          \/ conn' = [conn EXCEPT ![cur[w]] = NoSecret]
      BY <1>4 DEF WorkerStep, Step, Observe, ObserveFails, CheckKey, AddServiceAccount, UpdateServiceAccount,
                  CheckDelete, DeleteServiceAccount, RuntimeStep, RemoveFinalizer, Stop, SyncCache, StartReconcile
    <2>2. QED
      BY <1>1, <1>2, <2>1
  <1>5. ASSUME NEW q \in Resources, UserStep(q) PROVE conn'[r].key \in {conn[r].key, ""}
    <2>1. conn' = conn \/ conn' = [conn EXCEPT ![q] = NoSecret]
      BY <1>5 DEF UserStep, Apply, Edit, Delete
    <2>2. QED
      BY <1>1, <1>2, <2>1
  <1>6. (\E k \in Keys : ForeignClient(k)) \/ UNCHANGED vars => conn' = conn
    BY DEF ForeignClient, vars
  <1>7. QED
    BY <1>3, <1>4, <1>5, <1>6, NextCases

(* A key that is published late, or stays published, has a live account     *)
(* only if it had one before, and then the resource keeps it.               *)
LEMMA PublishedStep ==
  ASSUME GeneratedOnly, AccountsKnown, KeysInv, [Next]_vars, NEW r \in Resources, Published(r)
  PROVE  Published(r)'
  <1>1. Onward /\ ReconcilerInv /\ ServiceTypes
    BY OnwardStep DEF AccountsKnown
  <1>2. "" \notin Keys /\ Generated \subseteq Keys
    BY ServiceAccountAssumption
  <1>3. ASSUME NEW k, k \in Generated => accts[k].used, Live(accts, k) => api[r].ann = k
        PROVE  /\ k \in Generated => accts'[k].used
               /\ Live(accts', k) => api'[r].ann = k
    <2>1. (k \in Generated => accts'[k].used) /\ (Live(accts', k) => Live(accts, k))
      BY <1>1, <1>2, <1>3 DEF Onward, Live
    <2>2. QED
      BY <1>3, <2>1, HolderStays
  <1>4. CASE conn'[r].key = conn[r].key
    BY <1>3, <1>4 DEF Published
  <1>5. CASE conn'[r].key = ""
    BY <1>2, <1>5 DEF Published, Live
  <1>6. ASSUME NEW w \in Workers, pc[w] = "publish", cur[w] = r, conn'[r].key = mem[w].ann
        PROVE  Published(r)'
    <2>1. Owns(accts, r, mem[w]) /\ Agrees(accts, api[r], mem[w])
      BY <1>6 DEF KeysInv
    <2>2. QED
      BY <1>3, <1>6, <2>1 DEF Owns, Agrees, Published
  <1>7. QED
    BY <1>1, <1>4, <1>5, <1>6, ConnStep

(* Credentials that were handed out are never orphaned, however late a      *)
(* replica publishes them, if keys are generated: while the account is      *)
(* live, its resource is held and has it by its external-name, so the       *)
(* deletion of the resource removes it (create.go, delete.go).              *)
THEOREM ServiceAccountSecretOfHolder == ASSUME GeneratedOnly PROVE Spec => []SecretOfHolder
  <1> DEFINE P == \A r \in Resources : Published(r)
  <1>1. Init => P
    <2>1. NoSecret.key = ""
      BY DEF NoSecret
    <2>2. "" \notin Keys /\ "" \notin Generated
      BY ServiceAccountAssumption
    <2>3. Init => \A r \in Resources : conn[r] = NoSecret
      BY DEF Init
    <2>4. QED
      BY <2>1, <2>2, <2>3 DEF Published, Live
  <1>2. AccountsKnown /\ KeysInv /\ P /\ [Next]_vars => P'
    BY PublishedStep
  <1>3. AccountsKnown /\ KeysInv /\ P => SecretOfHolder
    BY DEF KeysInv, Held, Published, SecretOfHolder, Made, Live
  <1>4. QED
    BY <1>1, <1>2, <1>3, AccountInv, KeysInvariant, PTL DEF Spec

=============================================================================
