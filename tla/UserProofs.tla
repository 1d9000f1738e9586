----------------------------- MODULE UserProofs -----------------------------
(***************************************************************************)
(* The User controller implements the managed reconciler's contract with   *)
(* the API server, and what it promises about users in MinIO when one      *)
(* replica runs: a Create that succeeds has made the user, and a resource  *)
(* that has a user does not leave it behind.                               *)
(***************************************************************************)
EXTENDS UserController, LifecycleProofs

(* The elements of a sequence over S are in S.                              *)
LEMMA RangeOfSeq ==
  ASSUME NEW S, NEW q \in Seq(S)
  PROVE  {q[i] : i \in DOMAIN q} \subseteq S
  <1>1. DOMAIN q = 1..Len(q)
    OBVIOUS
  <1>2. \A i \in 1..Len(q) : q[i] \in S
    OBVIOUS
  <1>3. QED
    BY <1>1, <1>2

(* What the assumptions say of a spec.                                      *)
LEMMA SpecFacts ==
  ASSUME NEW s \in Specs
  PROVE  /\ Encode(s) \in Specs
         /\ Listed(s) \subseteq Policies
         /\ \A r \in Resources : GetUserName(r, s) \in Names
  <1>1. s \in UserParameters
    BY UserAssumption
  <1>2. s.name \in Names \cup {""} /\ s.policies \in Seq(Policies)
    BY <1>1 DEF UserParameters
  <1>3. Listed(s) \subseteq Policies
    BY <1>2, RangeOfSeq DEF Listed
  <1>4. QED
    BY <1>2, <1>3, UserAssumption, EncodeAssumption DEF GetUserName

-----------------------------------------------------------------------------
(* The types of what the controller has in MinIO and in the secrets.        *)

Account == [exists : BOOLEAN, maker : Resources \cup {NoResource},
            password : Passwords \cup {""}, policies : SUBSET Policies, enabled : BOOLEAN]

UserTypes ==
    /\ users \in [Names -> Account]
    /\ canned \in SUBSET Policies
    /\ conn \in [Resources -> Passwords \cup {"", "none"}]
    /\ reply \in [Workers -> Passwords \cup {""}]

(* A worker at work has a resource, a copy of it, and a user of that name.  *)
LEMMA WorkerFacts ==
  ASSUME ReconcilerInv, NEW w \in Workers, pc[w] # "idle"
  PROVE  /\ cur[w] \in Resources /\ UserOf(w) \in Names
         /\ mem[w] \in Object /\ mem[w].spec \in Specs
         /\ api[cur[w]] \in Object /\ api[cur[w]].spec \in Specs
  <1>1. cur[w] \in Resources /\ mem[w] \in Object /\ api[cur[w]] \in Object
    BY DEF ReconcilerInv, ReconcilerTypeOK, BusyHasResource
  <1>2. mem[w].spec \in Specs /\ api[cur[w]].spec \in Specs
    BY <1>1 DEF Object
  <1>3. QED
    BY <1>1, <1>2, SpecFacts DEF UserOf

(* What Observe makes of the copy in memory.                                *)
LEMMA ObserveCases ==
  ASSUME ReconcilerInv, NEW w \in Workers, Observe(w) \/ ObserveFails(w)
  PROVE  \E at \in Ats, ready \in Readiness :
            LET m == [mem[w] EXCEPT !.at = at, !.ready = ready]
            IN  \/ AfterObserveError(w, m)
                \/ /\ AfterObserve(w, m, "absent")
                   /\ mem[w].ann = "" \/ ~users[UserOf(w)].exists
                \/ AfterObserve(w, m, "upToDate")
                \/ AfterObserve(w, m, "outdated")
  <1> DEFINE m == mem[w]
             u == users[UserOf(w)]
             named == [m EXCEPT !.at = UserOf(w)]
             seen == [named EXCEPT !.ready = IF u.enabled THEN "Available" ELSE "Disabled"]
             C(n) == \/ AfterObserveError(w, n)
                     \/ AfterObserve(w, n, "absent") /\ (m.ann = "" \/ ~u.exists)
                     \/ AfterObserve(w, n, "upToDate")
                     \/ AfterObserve(w, n, "outdated")
  <1>1. pc[w] # "idle"
    BY DEF Observe, ObserveFails, AfterObserve, AfterObserveError
  <1>2. m \in Object /\ UserOf(w) \in Ats
    BY <1>1, WorkerFacts, UserAssumption
  <1>3. m.at \in Ats /\ m.ready \in Readiness /\ "" \in Ats
    BY <1>2, ReconcilerAssumption DEF Object
  <1>4. /\ m = [mem[w] EXCEPT !.at = m.at, !.ready = m.ready]
        /\ \A x : [m EXCEPT !.at = x] = [mem[w] EXCEPT !.at = x, !.ready = m.ready]
        /\ \A x, y : [[m EXCEPT !.at = x] EXCEPT !.ready = y] = [mem[w] EXCEPT !.at = x, !.ready = y]
    BY <1>2 DEF Object
  <1>5. \/ C(m) \/ C([m EXCEPT !.at = ""]) \/ C(named)
        \/ \E ready \in {"Available", "Disabled", "Updating"} : C([named EXCEPT !.ready = ready])
    <2>1. CASE ObserveFails(w)
      BY <2>1 DEF ObserveFails
    <2>2. CASE Observe(w)
      <3>1. C(m) \/ C([m EXCEPT !.at = ""]) \/ C([named EXCEPT !.ready = "Updating"]) \/ C(seen)
        BY <2>2, Zenon DEF Observe
      <3>2. QED
        BY <3>1
    <2>3. QED
      BY <2>1, <2>2
  <1>6. {"Available", "Disabled", "Updating"} \subseteq Readiness
    BY DEF Readiness
  <1> HIDE DEF C, m
  <1>7. \E at \in Ats, ready \in Readiness : C([mem[w] EXCEPT !.at = at, !.ready = ready])
    <2>1. CASE C(m)
      <3>1. C([mem[w] EXCEPT !.at = m.at, !.ready = m.ready])
        BY <2>1, <1>4, Zenon
      <3>2. QED
        BY <3>1, <1>3
    <2>2. CASE C([m EXCEPT !.at = ""]) \/ C(named)
      BY <2>2, <1>2, <1>3, <1>4
    <2>3. ASSUME NEW ready \in {"Available", "Disabled", "Updating"}, C([named EXCEPT !.ready = ready])
          PROVE  \E at \in Ats, r \in Readiness : C([mem[w] EXCEPT !.at = at, !.ready = r])
      <3>1. [named EXCEPT !.ready = ready] = [mem[w] EXCEPT !.at = UserOf(w), !.ready = ready]
        BY <1>4
      <3>2. QED
        BY <2>3, <3>1, <1>2, <1>6
    <2>4. QED
      BY <1>5, <2>1, <2>2, <2>3
  <1>8. QED
    BY <1>7 DEF C, m

(* Observe and its errors.                                                  *)
LEMMA ObserveSim ==
  ASSUME ReconcilerInv, NEW w \in Workers, Observe(w) \/ ObserveFails(w)
  PROVE  ReconcilerNext
  <1>1. MayFault
    BY FaultIsMayFault DEF Observe, ObserveFails
  <1>2. {"absent", "upToDate", "outdated"} \subseteq Observed
    BY DEF Observed
  <1>3. PICK at \in Ats, ready \in Readiness :
          LET m == [mem[w] EXCEPT !.at = at, !.ready = ready]
          IN  AfterObserveError(w, m) \/ \E outcome \in Observed : AfterObserve(w, m, outcome)
    BY <1>2, ObserveCases
  <1>4. QED
    BY <1>1, <1>3, ObservedStep

(* The calls of Create, Update and Delete, and the connection secret.       *)
MinIOCall(w) ==
    \/ UserExists(w) \/ AddUser(w) \/ SetUserPolicies(w) \/ PublishConnection(w)
    \/ DetachPolicies(w) \/ AttachPolicies(w) \/ SetUser(w) \/ RemoveUser(w)

LEMMA CallFacts ==
  ASSUME ReconcilerInv, NEW w \in Workers, MinIOCall(w)
  PROVE  /\ MayFault
         /\ \E stage \in {"create2", "create3", "created", "createFailed", "update2", "update3", "status"} :
            \E ann \in Anns, at \in Ats, ready \in {mem[w].ready, "Available", "Deleting"} :
               ExternalCall(w, stage, ann, at, ready)
  <1>1. mem[w].ann \in Anns /\ mem[w].at \in Ats /\ "true" \in Anns
    BY UserAssumption DEF ReconcilerInv, ReconcilerTypeOK, Object
  <1>2. MayFault
    BY FaultIsMayFault DEF MinIOCall, UserExists, AddUser, SetUserPolicies, PublishConnection, DetachPolicies,
                           AttachPolicies, SetUser, RemoveUser
  <1>3. \/ \E stage \in {"create2", "create3", "createFailed", "update2", "update3", "status"} :
             ExternalCall(w, stage, mem[w].ann, mem[w].at, mem[w].ready)
        \/ ExternalCall(w, "status", mem[w].ann, mem[w].at, "Deleting")
        \/ ExternalCall(w, "created", "true", mem[w].at, mem[w].ready)
    BY DEF MinIOCall, UserExists, AddUser, SetUserPolicies, PublishConnection, DetachPolicies,
           AttachPolicies, SetUser, RemoveUser, Call
  <1>4. QED
    BY <1>1, <1>2, <1>3

LEMMA CallSim ==
  ASSUME ReconcilerInv, NEW w \in Workers, MinIOCall(w)
  PROVE  ReconcilerNext
  <1>1. {"create2", "create3", "created", "createFailed", "update2", "update3", "status"} \subseteq Stages
    BY DEF Stages, CreateStages, UpdateStages
  <1>2. PICK stage \in Stages, ann \in Anns, at \in Ats, ready \in {mem[w].ready, "Available", "Deleting"} :
          MayFault /\ ExternalCall(w, stage, ann, at, ready)
    BY <1>1, CallFacts
  <1>3. QED
    BY <1>2 DEF ReconcilerNext

(* The runtime's own steps.                                                 *)
LEMMA RuntimeSim ==
  ASSUME ReconcilerInv, NEW w \in Workers, RuntimeStep(w)
  PROVE  ReconcilerNext
  <1>1. pc[w] # "idle" => Encode(mem[w].spec) \in Specs /\ Encode(api[cur[w]].spec) \in Specs
    BY WorkerFacts, SpecFacts
  <1>2. pc[w] # "idle"
    BY DEF RuntimeStep, Observed, AddFinalizer, MarkPending, WriteStatus, Conflict
  <1>3. \/ \E s \in Specs : \/ AddFinalizer(w, s) \/ MarkPending(w, s)
                            \/ \E stage \in {"publish", "status"} : RecordCreation(w, s, stage)
                            \/ RecordFailure(w, s)
        \/ WriteStatus(w) \/ Conflict(w) \/ WriteRefused(w)
    BY <1>1, <1>2 DEF RuntimeStep
  <1>4. QED
    BY <1>3 DEF ReconcilerNext

(* Every step of the controller is a step of the reconciler or none.        *)
LEMMA UserStepSim ==
  ReconcilerInv /\ [Next]_vars => [ReconcilerNext]_reconcilerVars
  <1> SUFFICES ASSUME ReconcilerInv, [Next]_vars PROVE [ReconcilerNext]_reconcilerVars
    OBVIOUS
  <1>1. ASSUME NEW w \in Workers, Step(w) \/ ObserveFails(w) PROVE ReconcilerNext
    <2>1. CASE RemoveFinalizer(w)
      BY <2>1 DEF RemoveFinalizer, ReconcilerNext
    <2>2. QED
      BY <1>1, <2>1, ObserveSim, CallSim, RuntimeSim DEF Step, MinIOCall
  <1>2. ASSUME NEW w \in Workers, \/ Stop(w) \/ SyncCache(w)
                                  \/ \E r \in Resources : StartReconcile(w, r)
        PROVE  ReconcilerNext
    BY <1>2 DEF Stop, SyncCache, StartReconcile, ReconcilerNext
  <1>3. ASSUME NEW r \in Resources, \/ Delete(r)
                                    \/ \E s \in Specs : Apply(r, s) \/ Edit(r, s)
        PROVE  ReconcilerNext
    BY <1>3 DEF Delete, Apply, Edit, ReconcilerNext
  <1>4. ASSUME ForeignClient PROVE ReconcilerNext
    BY <1>4 DEF ForeignClient, ReconcilerNext
  <1>5. ASSUME UNCHANGED vars PROVE UNCHANGED reconcilerVars
    BY <1>5 DEF vars
  <1>6. QED
    BY <1>1, <1>2, <1>3, <1>4, <1>5 DEF Next

(* The reconciler's inductive invariant holds of the controller.            *)
LEMMA UserReconcilerInv == Spec => []ReconcilerInv
  <1>1. Init => ReconcilerInv
    BY InitInv DEF Init
  <1>2. ReconcilerInv /\ [Next]_vars => ReconcilerInv'
    BY UserStepSim, StepInv
  <1>3. QED
    BY <1>1, <1>2, PTL DEF Spec

(* The User controller, whatever it does to MinIO and however its webhook   *)
(* refuses the runtime's writes, is a managed reconciler to the API server  *)
(* (operator/user/setup.go, webhook.go).                                    *)
THEOREM UserImplementsReconciler == Spec => ReconcilerSpec
  <1>1. Init => ReconcilerInit
    BY DEF Init
  <1>2. QED
    BY <1>1, UserReconcilerInv, UserStepSim, PTL DEF Spec, ReconcilerSpec

(* So Users live as Lifecycle says: none begins to be created before it is  *)
(* held or after it is deleted, and none disappears while its creation is   *)
(* under way.                                                               *)
THEOREM UserImplementsLifecycle == Spec => LifecycleSpec
  <1>1. QED
    BY UserImplementsReconciler, ReconcilerImplementsLifecycle

(* However many replicas of the provider run, at most one is between the    *)
(* announcement and the record of a User's Create.                          *)
THEOREM UserOneCreate == Spec => []OneCreateInFlight
  <1>1. ReconcilerInv => OneCreateInFlight
    BY DEF ReconcilerInv
  <1>2. QED
    BY <1>1, UserReconcilerInv, PTL

-----------------------------------------------------------------------------
(* What the steps do to users, policies and secrets.                        *)

WorkerStep(w) ==
    \/ Step(w) \/ ObserveFails(w) \/ Stop(w) \/ SyncCache(w)
    \/ \E r \in Resources : StartReconcile(w, r)

UserStep(r) == Delete(r) \/ \E s \in Specs : Apply(r, s) \/ Edit(r, s)

LEMMA NextCases ==
  ASSUME [Next]_vars
  PROVE  \/ \E w \in Workers : WorkerStep(w)
         \/ \E r \in Resources : UserStep(r)
         \/ ForeignClient
         \/ UNCHANGED vars
  BY DEF Next, WorkerStep, UserStep

LEMMA WorkerStepIsStepOf ==
  ASSUME ReconcilerInv, NEW w \in Workers, WorkerStep(w)
  PROVE  StepOf(w)
  <1>1. CASE Observe(w) \/ ObserveFails(w)
    BY <1>1, ObserveCases DEF StepOf
  <1>2. CASE MinIOCall(w)
    BY <1>2, CallFacts DEF StepOf
  <1>3. CASE RuntimeStep(w)
    BY <1>3 DEF RuntimeStep, StepOf
  <1>4. CASE RemoveFinalizer(w) \/ Stop(w) \/ SyncCache(w) \/ \E r \in Resources : StartReconcile(w, r)
    BY <1>4 DEF RemoveFinalizer, Stop, SyncCache, StartReconcile, StepOf
  <1>5. QED
    BY <1>1, <1>2, <1>3, <1>4 DEF WorkerStep, Step, MinIOCall

LEMMA UserStepIsStepOfUser ==
  ASSUME NEW r \in Resources, UserStep(r)
  PROVE  StepOfUser(r) /\ users' = users
  BY DEF UserStep, Delete, Apply, Edit, StepOfUser

LEMMA NextIsSomeStep ==
  ASSUME ReconcilerInv, [Next]_vars
  PROVE  SomeStep
  BY NextCases, WorkerStepIsStepOf, UserStepIsStepOfUser DEF ForeignClient, vars, reconcilerVars, SomeStep

LEMMA NoUserFacts ==
  NoUser \in Account /\ ~NoUser.exists /\ NoUser.maker = NoResource
  BY DEF NoUser, Account

(* What the controller makes of the user of the resource it works on.       *)
LEMMA WorkerStepUsers ==
  ASSUME ReconcilerInv, UserTypes, NEW w \in Workers, WorkerStep(w)
  PROVE  \/ users' = users
         \/ /\ pc[w] \notin {"idle", "observe", "finalize", "create"}
            /\ UserOf(w) \in Names
            /\ \E a \in Account :
                  /\ users' = [users EXCEPT ![UserOf(w)] = a]
                  /\ \/ a.exists = users[UserOf(w)].exists /\ a.maker = users[UserOf(w)].maker
                     \/ a.exists /\ a.maker = IF users[UserOf(w)].exists THEN users[UserOf(w)].maker ELSE cur[w]
                     \/ a = NoUser
  <1> DEFINE n == UserOf(w)
             Changed(a) == /\ users' = [users EXCEPT ![n] = a]
                           /\ \/ a.exists = users[n].exists /\ a.maker = users[n].maker
                              \/ a.exists /\ a.maker = IF users[n].exists THEN users[n].maker ELSE cur[w]
                              \/ a = NoUser
  <1> SUFFICES ASSUME users' # users
               PROVE  /\ pc[w] \notin {"idle", "observe", "finalize", "create"}
                      /\ n \in Names
                      /\ \E a \in Account : Changed(a)
    OBVIOUS
  <1>1. \/ AddUser(w) \/ SetUserPolicies(w) \/ DetachPolicies(w) \/ AttachPolicies(w) \/ SetUser(w)
        \/ RemoveUser(w)
    BY DEF WorkerStep, Step, Observe, ObserveFails, UserExists, PublishConnection, RuntimeStep,
           RemoveFinalizer, Stop, SyncCache, StartReconcile
  <1>2. pc[w] \notin {"idle", "observe", "finalize", "create"}
    BY <1>1 DEF AddUser, SetUserPolicies, DetachPolicies, AttachPolicies, SetUser, RemoveUser
  <1>3. /\ n \in Names /\ cur[w] \in Resources /\ Listed(mem[w].spec) \subseteq Policies
        /\ users[n] \in Account
    BY <1>2, WorkerFacts, SpecFacts DEF UserTypes
  <1>4. ASSUME NEW password \in Passwords,
               users' = [users EXCEPT ![n] = [users[n] EXCEPT !.exists = TRUE, !.enabled = TRUE,
                           !.maker = IF users[n].exists THEN users[n].maker ELSE cur[w], !.password = password]]
        PROVE  \E a \in Account : Changed(a)
    <2> DEFINE a == [users[n] EXCEPT !.exists = TRUE, !.enabled = TRUE,
                       !.maker = IF users[n].exists THEN users[n].maker ELSE cur[w], !.password = password]
    <2>1. a \in Account /\ a.exists /\ a.maker = IF users[n].exists THEN users[n].maker ELSE cur[w]
      BY <1>3 DEF Account
    <2> HIDE DEF a
    <2>2. users' = [users EXCEPT ![n] = a]
      BY <1>4 DEF a
    <2>3. QED
      BY <2>1, <2>2
  <1>5. ASSUME NEW p \in SUBSET Policies, users' = [users EXCEPT ![n].policies = p]
        PROVE  \E a \in Account : Changed(a)
    <2> DEFINE a == [users[n] EXCEPT !.policies = p]
    <2>1. a \in Account /\ a.exists = users[n].exists /\ a.maker = users[n].maker
      BY <1>3 DEF Account
    <2>2. users' = [users EXCEPT ![n] = a]
      BY <1>5
    <2> HIDE DEF a
    <2>3. QED
      BY <2>1, <2>2
  <1>6. ASSUME users' = [users EXCEPT ![n] = NoUser]
        PROVE  \E a \in Account : Changed(a)
    BY <1>6, NoUserFacts
  <1>7. CASE AddUser(w)
    <2>1. users' = [users EXCEPT ![n] = [users[n] EXCEPT !.exists = TRUE,
                       !.maker = IF users[n].exists THEN users[n].maker ELSE cur[w],
                       !.password = Password(w), !.enabled = TRUE]]
      BY <1>7 DEF AddUser
    <2>2. [users[n] EXCEPT !.exists = TRUE, !.maker = IF users[n].exists THEN users[n].maker ELSE cur[w],
                           !.password = Password(w), !.enabled = TRUE]
          = [users[n] EXCEPT !.exists = TRUE, !.enabled = TRUE,
                !.maker = IF users[n].exists THEN users[n].maker ELSE cur[w], !.password = Password(w)]
      BY <1>3 DEF Account
    <2>3. Password(w) \in Passwords
      BY DEF Password, Passwords
    <2>4. QED
      BY <1>2, <1>3, <1>4, <2>1, <2>2, <2>3
  <1>8. CASE SetUser(w)
    <2>1. conn[cur[w]] \notin {"none", ""} /\
          users' = [users EXCEPT ![n] = [users[n] EXCEPT !.exists = TRUE,
                       !.maker = IF users[n].exists THEN users[n].maker ELSE cur[w],
                       !.enabled = TRUE, !.password = conn[cur[w]]]]
      BY <1>8 DEF SetUser
    <2>2. conn[cur[w]] \in Passwords
      BY <1>3, <2>1 DEF UserTypes
    <2>3. [users[n] EXCEPT !.exists = TRUE, !.maker = IF users[n].exists THEN users[n].maker ELSE cur[w],
                           !.enabled = TRUE, !.password = conn[cur[w]]]
          = [users[n] EXCEPT !.exists = TRUE, !.enabled = TRUE,
                !.maker = IF users[n].exists THEN users[n].maker ELSE cur[w], !.password = conn[cur[w]]]
      BY <1>3 DEF Account
    <2>4. QED
      BY <1>2, <1>3, <1>4, <2>1, <2>2, <2>3
  <1>9. CASE SetUserPolicies(w) \/ AttachPolicies(w)
    <2>1. users' = [users EXCEPT ![n].policies = users[n].policies \cup Listed(mem[w].spec)]
      BY <1>9 DEF SetUserPolicies, AttachPolicies, Attach
    <2>2. users[n].policies \cup Listed(mem[w].spec) \in SUBSET Policies
      BY <1>3 DEF Account
    <2>3. QED
      BY <1>2, <1>3, <1>5, <2>1, <2>2
  <1>10. CASE DetachPolicies(w)
    BY <1>2, <1>3, <1>5, <1>10 DEF DetachPolicies
  <1>11. CASE RemoveUser(w)
    BY <1>2, <1>3, <1>6, <1>11 DEF RemoveUser
  <1>12. QED
    BY <1>1, <1>7, <1>8, <1>9, <1>10, <1>11

(* What other clients make of one.                                          *)
LEMMA ForeignFacts ==
  ASSUME ReconcilerInv, UserTypes, ForeignClient
  PROVE  /\ UNCHANGED <<api, fresh, pc, cur, mem, reply>>
         /\ canned' \in SUBSET Policies
         /\ conn' \in [Resources -> Passwords \cup {"", "none"}]
         /\ \/ users' = users
            \/ \E n \in Names : \E a \in Account :
                  /\ users' = [users EXCEPT ![n] = a]
                  /\ \/ a.exists = users[n].exists /\ a.maker = users[n].maker
                     \/ a = NoUser
                     \/ a.exists /\ ~users[n].exists /\ a.maker = MakerOf(n)
  <1>1. ASSUME NEW n \in Names, ~users[n].exists,
               users' = [users EXCEPT ![n] = [NoUser EXCEPT !.exists = TRUE, !.maker = MakerOf(n),
                                                            !.password = "foreign"]]
        PROVE  \E a \in Account : /\ users' = [users EXCEPT ![n] = a]
                                  /\ a.exists /\ ~users[n].exists /\ a.maker = MakerOf(n)
    <2> DEFINE a == [NoUser EXCEPT !.exists = TRUE, !.maker = MakerOf(n), !.password = "foreign"]
    <2>1. MakerOf(n) \in Resources \cup {NoResource}
      BY DEF MakerOf, Adding, ReconcilerInv, ReconcilerTypeOK
    <2>2. a \in Account /\ a.exists /\ a.maker = MakerOf(n)
      BY <2>1 DEF NoUser, Account, Passwords
    <2> HIDE DEF a
    <2>3. QED
      BY <1>1, <2>2 DEF a
  <1>2. ASSUME NEW n \in Names,
               \/ users' = [users EXCEPT ![n].enabled = FALSE]
               \/ users' = [users EXCEPT ![n].password = "foreign"]
        PROVE  \E a \in Account : /\ users' = [users EXCEPT ![n] = a]
                                  /\ a.exists = users[n].exists /\ a.maker = users[n].maker
    <2> DEFINE a == [users[n] EXCEPT !.enabled = FALSE]
               b == [users[n] EXCEPT !.password = "foreign"]
    <2>1. users[n] \in Account
      BY DEF UserTypes
    <2>2. a \in Account /\ a.exists = users[n].exists /\ a.maker = users[n].maker
      BY <2>1 DEF Account
    <2>3. b \in Account /\ b.exists = users[n].exists /\ b.maker = users[n].maker
      BY <2>1 DEF Account, Passwords
    <2>4. users' = [users EXCEPT ![n] = a] \/ users' = [users EXCEPT ![n] = b]
      BY <1>2
    <2> HIDE DEF a, b
    <2>5. QED
      BY <2>2, <2>3, <2>4
  <1>3. UNCHANGED <<api, fresh, pc, cur, mem, reply>>
    BY DEF ForeignClient
  <1>4. canned' \in SUBSET Policies /\ conn' \in [Resources -> Passwords \cup {"", "none"}]
    BY DEF ForeignClient, UserTypes
  <1>5. \/ users' = users
        \/ \E n \in Names :
             \/ ~users[n].exists /\ users' = [users EXCEPT ![n] =
                   [NoUser EXCEPT !.exists = TRUE, !.maker = MakerOf(n), !.password = "foreign"]]
             \/ users' = [users EXCEPT ![n] = NoUser]
             \/ users' = [users EXCEPT ![n].enabled = FALSE]
             \/ users' = [users EXCEPT ![n].password = "foreign"]
    BY DEF ForeignClient
  <1>6. QED
    BY <1>1, <1>2, <1>3, <1>4, <1>5, NoUserFacts

LEMMA UserTypesStep ==
  ASSUME ReconcilerInv, UserTypes, [Next]_vars
  PROVE  UserTypes'
  <1>1. users' \in [Names -> Account]
    <2>1. ASSUME NEW w \in Workers, WorkerStep(w) PROVE users' \in [Names -> Account]
      BY <2>1, WorkerStepUsers DEF UserTypes
    <2>2. ASSUME ForeignClient PROVE users' \in [Names -> Account]
      BY <2>2, ForeignFacts DEF UserTypes
    <2>3. QED
      BY <2>1, <2>2, NextCases, UserStepIsStepOfUser DEF UserTypes, vars
  <1>2. ASSUME NEW w \in Workers, WorkerStep(w)
        PROVE  /\ canned' \in SUBSET Policies
               /\ conn' \in [Resources -> Passwords \cup {"", "none"}]
               /\ reply' \in [Workers -> Passwords \cup {""}]
    <2>1. canned' = canned
      BY <1>2 DEF WorkerStep, Step, Observe, ObserveFails, UserExists, AddUser, SetUserPolicies,
                  PublishConnection, DetachPolicies, AttachPolicies, SetUser, RemoveUser, RuntimeStep,
                  RemoveFinalizer, Stop, SyncCache, StartReconcile
    <2>2. \/ conn' = conn
          \/ conn' = [conn EXCEPT ![cur[w]] = ""]
          \/ conn' = [conn EXCEPT ![cur[w]] = "none"]
          \/ conn' = [conn EXCEPT ![cur[w]] = reply[w]]
      BY <1>2 DEF WorkerStep, Step, Observe, ObserveFails, UserExists, AddUser, SetUserPolicies,
                  PublishConnection, DetachPolicies, AttachPolicies, SetUser, RemoveUser, RuntimeStep,
                  RemoveFinalizer, Stop, SyncCache, StartReconcile
    <2>3. \/ reply' = reply
          \/ reply' = [reply EXCEPT ![w] = Password(w)]
          \/ reply' = [reply EXCEPT ![w] = ""]
      BY <1>2 DEF WorkerStep, Step, Observe, ObserveFails, UserExists, AddUser, SetUserPolicies,
                  PublishConnection, DetachPolicies, AttachPolicies, SetUser, RemoveUser, RuntimeStep,
                  RemoveFinalizer, Stop, SyncCache, StartReconcile
    <2>4. Password(w) \in Passwords
      BY DEF Password, Passwords
    <2>5. QED
      BY <2>1, <2>2, <2>3, <2>4 DEF UserTypes
  <1>3. ASSUME NEW r \in Resources, UserStep(r)
        PROVE  /\ canned' \in SUBSET Policies
               /\ conn' \in [Resources -> Passwords \cup {"", "none"}]
               /\ reply' \in [Workers -> Passwords \cup {""}]
    BY <1>3 DEF UserStep, Delete, Apply, Edit, UserTypes
  <1>4. QED
    BY <1>1, <1>2, <1>3, NextCases, ForeignFacts DEF UserTypes, vars

LEMMA UserTypesInv == Spec => []UserTypes
  <1>1. Init => UserTypes
    BY NoUserFacts DEF Init, UserTypes
  <1>2. ReconcilerInv /\ UserTypes /\ [Next]_vars => UserTypes'
    BY UserTypesStep
  <1>3. QED
    BY <1>1, <1>2, UserReconcilerInv, PTL DEF Spec

(* Type correctness of the User controller.                                 *)
THEOREM UserTypesOK == Spec => []TypeOK
  <1>1. ReconcilerInv /\ UserTypes => TypeOK
    BY DEF ReconcilerInv, UserTypes, TypeOK, Account
  <1>2. QED
    BY <1>1, UserTypesInv, UserReconcilerInv, PTL

-----------------------------------------------------------------------------
(* What one replica knows of its resource's user.                           *)

OneReplica == \A v, w \in Workers : v = w

(* From AddUser to the end of Create, a user that exists counts as its own; *)
(* and a resource whose creation is recorded goes when its user is not      *)
(* there, or is one that somebody else made since.                          *)
KnowsUser(w) ==
    /\ KnowsCopy(w)
    /\ pc[w] \in {"create2", "create3"} /\ users[UserOf(w)].exists => users[UserOf(w)].maker = cur[w]
    /\ pc[w] = "finalize" /\ mem[w].ann = "true" => users[UserOf(w)].maker # cur[w]

UsersKnown ==
    /\ ReconcilerInv
    /\ UserTypes
    /\ \A n \in Names : ~users[n].exists => users[n].maker = NoResource
    /\ \A r \in Resources : Claimed(r) => api[r].finalizer
    /\ \A w \in Workers : KnowsUser(w)

(* A worker that is about to observe leaves the API server alone, and, but  *)
(* for a crash, does not come back to that stage.                           *)
LEMMA LookingAtObserve ==
  ASSUME ReconcilerInv, NEW w \in Workers, WorkerStep(w), pc[w] = "observe"
  PROVE  UNCHANGED api /\ (pc'[w] = "observe" => UNCHANGED mem)
  <1>1. pc \in [Workers -> Stages]
    BY DEF ReconcilerInv, ReconcilerTypeOK
  <1>2. ~RuntimeStep(w) /\ ~RemoveFinalizer(w)
    BY DEF RuntimeStep, AddFinalizer, MarkPending, Observed, RecordCreation, RecordFailure, WriteStatus,
           WriteRefused, Conflict, RemoveFinalizer, Finalize
  <1>3. Observe(w) \/ ObserveFails(w) \/ SyncCache(w) \/ Stop(w)
    BY <1>2 DEF WorkerStep, Step, UserExists, AddUser, SetUserPolicies, PublishConnection, DetachPolicies,
                AttachPolicies, SetUser, RemoveUser, StartReconcile, Load
  <1>4. Observe(w) \/ ObserveFails(w) => UNCHANGED api /\ pc'[w] # "observe"
    <2>1. \A m : AfterObserveError(w, m) => UNCHANGED api /\ pc'[w] # "observe"
      BY <1>1 DEF AfterObserveError
    <2>2. \A m : \A outcome \in {"absent", "upToDate", "outdated"} :
             AfterObserve(w, m, outcome) => UNCHANGED api /\ pc'[w] # "observe"
      BY <1>1 DEF AfterObserve, AfterFinalizer
    <2>3. QED
      BY <2>1, <2>2, ObserveCases
  <1>5. SyncCache(w) => UNCHANGED <<api, mem>>
    BY DEF SyncCache, CacheSync
  <1>6. Stop(w) => UNCHANGED api /\ pc'[w] # "observe"
    BY <1>1 DEF Stop, Crash, Return
  <1>7. QED
    BY <1>3, <1>4, <1>5, <1>6

(* What it saw when it lets the resource go.                                *)
LEMMA FinalizeStage ==
  ASSUME ReconcilerInv, NEW w \in Workers, WorkerStep(w), pc'[w] = "finalize"
  PROVE  /\ cur'[w] = cur[w] /\ users' = users
         /\ mem'[w].ann = mem[w].ann /\ mem'[w].spec = mem[w].spec
         /\ \/ pc[w] = "finalize"
            \/ pc[w] = "observe" /\ (mem[w].ann = "" \/ ~users[UserOf(w)].exists)
  <1>1. /\ pc \in [Workers -> Stages] /\ mem \in [Workers -> Object] /\ mem[w] \in Object
    BY DEF ReconcilerInv, ReconcilerTypeOK
  <1>2. ASSUME NEW m, AfterObserveError(w, m) PROVE FALSE
    BY <1>1, <1>2 DEF AfterObserveError
  <1>3. ASSUME NEW m, AfterObserve(w, m, "upToDate") \/ AfterObserve(w, m, "outdated") PROVE FALSE
    BY <1>1, <1>3 DEF AfterObserve, AfterFinalizer
  <1>4. CASE Observe(w) \/ ObserveFails(w)
    <2>1. PICK at \in Ats, ready \in Readiness :
            /\ AfterObserve(w, [mem[w] EXCEPT !.at = at, !.ready = ready], "absent")
            /\ mem[w].ann = "" \/ ~users[UserOf(w)].exists
      BY <1>2, <1>3, <1>4, ObserveCases
    <2>2. pc[w] = "observe" /\ mem'[w] = [mem[w] EXCEPT !.at = at, !.ready = ready] /\ cur' = cur
      BY <1>1, <2>1 DEF AfterObserve
    <2>3. mem'[w].ann = mem[w].ann /\ mem'[w].spec = mem[w].spec
      BY <1>1, <2>2 DEF Object
    <2>4. users' = users
      BY <1>4 DEF Observe, ObserveFails
    <2>5. QED
      BY <2>1, <2>2, <2>3, <2>4
  <1>5. CASE SyncCache(w)
    <2>1. UNCHANGED <<pc, cur, mem, users>>
      BY <1>5 DEF SyncCache, CacheSync
    <2>2. QED
      BY <2>1
  <1>6. ASSUME MinIOCall(w) PROVE FALSE
    <2>1. PICK stage \in {"create2", "create3", "created", "createFailed", "update2", "update3", "status"} :
          \E ann, at, ready : ExternalCall(w, stage, ann, at, ready)
      BY <1>6, CallFacts
    <2>2. pc'[w] = stage
      BY <1>1, <2>1 DEF ExternalCall
    <2>3. QED
      BY <2>2
  <1>7. ASSUME \/ RuntimeStep(w) \/ RemoveFinalizer(w) \/ Stop(w)
               \/ \E r \in Resources : StartReconcile(w, r)
        PROVE  FALSE
    BY <1>1, <1>7 DEF RuntimeStep, AddFinalizer, MarkPending, ClientUpdate, AfterFinalizer, Observed,
                      RecordCreation, RecordFailure, WriteStatus, WriteRefused, RemoveFinalizer, Finalize,
                      Conflict, Return, Stop, Crash, StartReconcile, Load
  <1>8. QED
    BY <1>4, <1>5, <1>6, <1>7 DEF WorkerStep, Step, MinIOCall

(* How it came to make a user.                                              *)
LEMMA MakingStages ==
  ASSUME ReconcilerInv, NEW w \in Workers, WorkerStep(w), pc'[w] \in {"create2", "create3", "created"}
  PROVE  \/ pc'[w] = pc[w] /\ mem'[w] = mem[w] /\ cur'[w] = cur[w] /\ users' = users
         \/ /\ mem'[w].spec = mem[w].spec /\ cur'[w] = cur[w]
            /\ \/ UserExists(w) /\ ~users[UserOf(w)].exists
               \/ AddUser(w) \/ SetUserPolicies(w)
  <1>1. /\ pc \in [Workers -> Stages] /\ mem \in [Workers -> Object] /\ mem[w] \in Object
    BY DEF ReconcilerInv, ReconcilerTypeOK
  <1>2. ASSUME Observe(w) \/ ObserveFails(w) PROVE FALSE
    <2>1. \A m : AfterObserveError(w, m) => pc'[w] \notin CreateStages
      BY <1>1 DEF AfterObserveError, CreateStages
    <2>2. \A m : \A outcome \in {"absent", "upToDate", "outdated"} :
             AfterObserve(w, m, outcome) => pc'[w] \notin CreateStages
      BY <1>1 DEF AfterObserve, AfterFinalizer, CreateStages
    <2>3. pc'[w] \in CreateStages
      BY DEF CreateStages
    <2>4. QED
      BY <1>2, <2>1, <2>2, <2>3, ObserveCases
  <1>3. CASE SyncCache(w)
    <2>1. UNCHANGED <<pc, cur, mem, users>>
      BY <1>3 DEF SyncCache, CacheSync
    <2>2. QED
      BY <2>1
  <1>4. ASSUME \/ PublishConnection(w) \/ DetachPolicies(w) \/ AttachPolicies(w) \/ SetUser(w) \/ RemoveUser(w)
        PROVE  FALSE
    BY <1>1, <1>4 DEF PublishConnection, DetachPolicies, AttachPolicies, SetUser, RemoveUser, Call, ExternalCall
  <1>5. ASSUME \/ RuntimeStep(w) \/ RemoveFinalizer(w) \/ Stop(w)
               \/ \E r \in Resources : StartReconcile(w, r)
        PROVE  FALSE
    BY <1>1, <1>5 DEF RuntimeStep, AddFinalizer, MarkPending, ClientUpdate, AfterFinalizer, Observed,
                      RecordCreation, RecordFailure, WriteStatus, WriteRefused, RemoveFinalizer, Finalize,
                      Conflict, Return, Stop, Crash, StartReconcile, Load
  <1>6. CASE UserExists(w) \/ AddUser(w) \/ SetUserPolicies(w)
    <2>1. PICK stage, ann, at, ready : ExternalCall(w, stage, ann, at, ready)
      BY <1>6, CallFacts DEF MinIOCall
    <2>2. /\ mem' = [mem EXCEPT ![w].ann = ann, ![w].at = at, ![w].ready = ready]
          /\ cur' = cur
      BY <2>1 DEF ExternalCall
    <2>3. mem'[w].spec = mem[w].spec
      BY <1>1, <2>2 DEF Object
    <2>4. UserExists(w) => ~users[UserOf(w)].exists
      BY <1>1 DEF UserExists, Call, ExternalCall
    <2>5. QED
      BY <1>6, <2>2, <2>3, <2>4
  <1>7. QED
    BY <1>2, <1>3, <1>4, <1>5, <1>6 DEF WorkerStep, Step

(* A user that a Create has looked for is its own, or none.                 *)
LEMMA OwnUser ==
  ASSUME UsersKnown, NEW w \in Workers, WorkerStep(w), pc'[w] \in {"create2", "create3", "created"},
         pc[w] # "created"
  PROVE  /\ cur'[w] = cur[w] /\ UserOf(w)' = UserOf(w)
         /\ users'[UserOf(w)].exists => users'[UserOf(w)].maker = cur[w]
  <1>1. ReconcilerInv /\ UserTypes /\ KnowsUser(w)
    BY DEF UsersKnown
  <1>2. cur'[w] = cur[w] /\ UserOf(w)' = UserOf(w)
    BY <1>1, MakingStages DEF UserOf
  <1> SUFFICES ASSUME users'[UserOf(w)].exists PROVE users'[UserOf(w)].maker = cur[w]
    BY <1>2
  <1>3. CASE pc'[w] = pc[w] /\ users' = users
    BY <1>1, <1>2, <1>3 DEF KnowsUser
  <1>4. CASE UserExists(w) /\ ~users[UserOf(w)].exists
    BY <1>4 DEF UserExists
  <1>5. CASE AddUser(w) \/ SetUserPolicies(w)
    <2>1. pc[w] \in {"create2", "create3"}
      BY <1>5 DEF AddUser, SetUserPolicies
    <2>2. users[UserOf(w)].exists => users[UserOf(w)].maker = cur[w]
      BY <1>1, <2>1 DEF KnowsUser
    <2>3. CASE users' = users
      BY <2>2, <2>3
    <2>4. CASE users' # users
      <3>1. PICK a \in Account :
              /\ UserOf(w) \in Names
              /\ users' = [users EXCEPT ![UserOf(w)] = a]
              /\ \/ a.exists = users[UserOf(w)].exists /\ a.maker = users[UserOf(w)].maker
                 \/ a.exists /\ a.maker = IF users[UserOf(w)].exists THEN users[UserOf(w)].maker ELSE cur[w]
                 \/ a = NoUser
        BY <1>1, <2>4, WorkerStepUsers
      <3>2. users'[UserOf(w)] = a
        BY <1>1, <3>1 DEF UserTypes
      <3>3. QED
        BY <2>2, <3>1, <3>2, NoUserFacts
    <2>5. QED
      BY <2>3, <2>4
  <1>6. QED
    BY <1>1, <1>3, <1>4, <1>5, MakingStages

(* The worker that takes the step.                                          *)
LEMMA UserActor ==
  ASSUME UsersKnown, NEW w \in Workers, WorkerStep(w)
  PROVE  KnowsUser(w)'
  <1>1. ReconcilerInv /\ UserTypes /\ KnowsUser(w)
    BY DEF UsersKnown
  <1>2. KnowsCopy(w)'
    BY <1>1, LookingAtObserve, FinalizeStage, KnowsCopyStep, WorkerStepIsStepOf DEF KnowsUser
  <1>3. ASSUME pc'[w] \in {"create2", "create3"}, users'[UserOf(w)'].exists
        PROVE  users'[UserOf(w)'].maker = cur'[w]
    <2>1. pc[w] # "created"
      <3>1. ASSUME pc[w] = "created" PROVE FALSE
        BY <1>1, <1>3, <3>1, MakingStages DEF UserExists, AddUser, SetUserPolicies
      <3>2. QED
        BY <3>1
    <2>2. QED
      BY <1>3, <2>1, OwnUser
  <1>4. ASSUME pc'[w] = "finalize", mem'[w].ann = "true" PROVE users'[UserOf(w)'].maker # cur'[w]
    <2>1. /\ cur'[w] = cur[w] /\ users' = users /\ UserOf(w)' = UserOf(w) /\ mem[w].ann = "true"
          /\ pc[w] = "finalize" \/ (pc[w] = "observe" /\ ~users[UserOf(w)].exists)
      BY <1>1, <1>4, FinalizeStage DEF UserOf
    <2>2. CASE pc[w] = "finalize"
      BY <1>1, <2>1, <2>2 DEF KnowsUser
    <2>3. CASE pc[w] = "observe" /\ ~users[UserOf(w)].exists
      <3>1. cur[w] \in Resources /\ UserOf(w) \in Names
        BY <1>1, <2>3, WorkerFacts
      <3>2. users[UserOf(w)].maker # cur[w]
        BY <2>3, <3>1, ReconcilerAssumption DEF UsersKnown
      <3>3. QED
        BY <2>1, <3>2
    <2>4. QED
      BY <2>1, <2>2, <2>3
  <1>5. QED
    BY <1>2, <1>3, <1>4 DEF KnowsUser

(* What other clients make while the only worker is not making a user is    *)
(* nobody's.                                                                *)
LEMMA UserAside ==
  ASSUME OneReplica, UsersKnown, NEW w \in Workers, ForeignClient \/ \E r \in Resources : UserStep(r)
  PROVE  KnowsUser(w)'
  <1>1. ReconcilerInv /\ UserTypes /\ KnowsUser(w)
    BY DEF UsersKnown
  <1>2. ASSUME NEW r \in Resources, UserStep(r) PROVE KnowsUser(w)'
    <2>1. Bystander(w) /\ users' = users
      BY <1>1, <1>2, StepOfUserAside, UserStepIsStepOfUser
    <2>2. QED
      BY <1>1, <2>1, KnowsCopyAside DEF KnowsUser, Bystander, UserOf
  <1>3. CASE ForeignClient
    <2>1. UNCHANGED <<api, fresh, pc, cur, mem>> /\ UserOf(w)' = UserOf(w)
      BY <1>1, <1>3, ForeignFacts DEF UserOf
    <2>2. ASSUME pc[w] \in {"create2", "create3", "finalize"} PROVE cur[w] \in Resources /\ UserOf(w) \in Names
      BY <1>1, <2>2, WorkerFacts
    <2>3. CASE users' = users
      BY <1>1, <2>1, <2>3 DEF KnowsUser, KnowsCopy
    <2>4. ASSUME NEW n \in Names, NEW a \in Account,
                 users' = [users EXCEPT ![n] = a],
                 \/ a.exists = users[n].exists /\ a.maker = users[n].maker
                 \/ a = NoUser
                 \/ a.exists /\ ~users[n].exists /\ a.maker = MakerOf(n)
          PROVE  KnowsUser(w)'
      <3>1. users'[n] = a /\ \A q \in Names : q # n => users'[q] = users[q]
        BY <1>1, <2>4 DEF UserTypes
      <3>2. ASSUME pc[w] \in {"create2", "create3"}, users'[UserOf(w)].exists
            PROVE  users'[UserOf(w)].maker = cur[w]
        <4>1. CASE UserOf(w) = n
          <5>1. Adding(n) = {w}
            BY <3>2, <4>1 DEF Adding, OneReplica
          <5>2. MakerOf(n) = cur[w]
            BY <5>1 DEF MakerOf
          <5>3. users[n].exists => users[n].maker = cur[w]
            BY <1>1, <3>2, <4>1 DEF KnowsUser
          <5>4. QED
            BY <2>4, <3>1, <3>2, <4>1, <5>2, <5>3, NoUserFacts
        <4>2. CASE UserOf(w) # n
          BY <1>1, <2>2, <3>1, <3>2, <4>2 DEF KnowsUser
        <4>3. QED
          BY <4>1, <4>2
      <3>3. ASSUME pc[w] = "finalize", mem[w].ann = "true" PROVE users'[UserOf(w)].maker # cur[w]
        <4>1. CASE UserOf(w) = n
          <5>1. Adding(n) = {}
            BY <3>3 DEF Adding, OneReplica
          <5>2. MakerOf(n) = NoResource
            BY <5>1 DEF MakerOf
          <5>3. users[n].maker # cur[w]
            BY <1>1, <3>3, <4>1 DEF KnowsUser
          <5>4. cur[w] # NoResource
            BY <2>2, <3>3, ReconcilerAssumption
          <5>5. QED
            BY <2>4, <3>1, <4>1, <5>2, <5>3, <5>4, NoUserFacts
        <4>2. CASE UserOf(w) # n
          BY <1>1, <2>2, <3>1, <3>3, <4>2 DEF KnowsUser
        <4>3. QED
          BY <4>1, <4>2
      <3>4. QED
        BY <1>1, <2>1, <3>2, <3>3 DEF KnowsUser, KnowsCopy
    <2>5. QED
      BY <1>1, <1>3, <2>3, <2>4, ForeignFacts
  <1>4. QED
    BY <1>2, <1>3

(* A user that is not there is nobody's.                                    *)
LEMMA NobodysStep ==
  ASSUME UsersKnown, [Next]_vars, NEW n \in Names, ~users'[n].exists
  PROVE  users'[n].maker = NoResource
  <1>1. ReconcilerInv /\ UserTypes /\ (~users[n].exists => users[n].maker = NoResource)
    BY DEF UsersKnown
  <1>2. CASE users' = users
    BY <1>1, <1>2
  <1>3. ASSUME NEW q \in Names, NEW a \in Account, users' = [users EXCEPT ![q] = a],
               \/ a.exists = users[q].exists /\ a.maker = users[q].maker
               \/ a = NoUser
               \/ a.exists
        PROVE  users'[n].maker = NoResource
    BY <1>1, <1>3, NoUserFacts DEF UserTypes
  <1>4. ASSUME NEW w \in Workers, WorkerStep(w) PROVE users'[n].maker = NoResource
    BY <1>1, <1>2, <1>3, <1>4, WorkerStepUsers
  <1>5. ASSUME ForeignClient PROVE users'[n].maker = NoResource
    BY <1>1, <1>2, <1>3, <1>5, ForeignFacts
  <1>6. QED
    BY <1>2, <1>4, <1>5, NextCases, UserStepIsStepOfUser DEF vars

(* The annotation is there only under the finalizer: only Create sets it.   *)
LEMMA ClaimHeldStep ==
  ASSUME UsersKnown, [Next]_vars, NEW r \in Resources, Claimed(r)'
  PROVE  api'[r].finalizer
  <1>1. ReconcilerInv /\ SomeStep /\ (Claimed(r) => api[r].finalizer)
    BY NextIsSomeStep DEF UsersKnown
  <1>2. api'[r].present /\ api'[r].ann = "true"
    BY DEF Claimed
  <1>3. ASSUME Named(r) PROVE api'[r] = api[r]
    <2>1. ASSUME NEW w \in Workers
          PROVE  Bystander(w) \/ (pc[w] = "observe" => UNCHANGED api)
      <3>1. ASSUME NEW v \in Workers, WorkerStep(v)
            PROVE  Bystander(w) \/ (pc[w] = "observe" => UNCHANGED api)
        BY <1>1, <3>1, StepOfOther, WorkerStepIsStepOf, LookingAtObserve
      <3>2. ASSUME NEW q \in Resources, UserStep(q) PROVE Bystander(w)
        BY <1>1, <3>2, StepOfUserAside, UserStepIsStepOfUser
      <3>3. CASE ForeignClient \/ UNCHANGED vars
        BY <3>3 DEF ForeignClient, vars, reconcilerVars
      <3>4. QED
        BY <3>1, <3>2, <3>3, NextCases
    <2>2. QED
      BY <1>1, <1>3, <2>1, NotNamed
  <1>4. CASE api'[r] = api[r] \/ Stays(r)
    BY <1>1, <1>2, <1>4 DEF Stays, Claimed
  <1>5. CASE Recorded(r)
    BY <1>5 DEF Recorded
  <1>6. ~Finalized(r) /\ ~Dropped(r) /\ ~Applied(r)
    BY <1>2, GoneFacts DEF Finalized, Dropped, Applied
  <1>7. QED
    BY <1>1, <1>3, <1>4, <1>5, <1>6, ResourceChanges

LEMMA UsersKnownStep ==
  ASSUME OneReplica, UsersKnown, [Next]_vars
  PROVE  UsersKnown'
  <1>1. ReconcilerInv' /\ UserTypes'
    BY UserStepSim, StepInv, UserTypesStep DEF UsersKnown
  <1>2. ASSUME NEW w \in Workers PROVE KnowsUser(w)'
    <2>1. ASSUME NEW v \in Workers, WorkerStep(v) PROVE KnowsUser(w)'
      BY <2>1, UserActor DEF OneReplica
    <2>2. CASE UNCHANGED vars
      BY <2>2 DEF vars, reconcilerVars, UsersKnown, KnowsUser, KnowsCopy, UserOf
    <2>3. QED
      BY <2>1, <2>2, NextCases, UserAside
  <1>3. QED
    BY <1>1, <1>2, NobodysStep, ClaimHeldStep DEF UsersKnown, Claimed

LEMMA UsersKnownInv == ASSUME OneReplica PROVE Spec => []UsersKnown
  <1>1. Init => UsersKnown
    <2> SUFFICES ASSUME Init PROVE UsersKnown
      OBVIOUS
    <2>1. ReconcilerInv /\ UserTypes
      BY InitInv, NoUserFacts DEF Init, UserTypes
    <2>2. \A n \in Names : users[n] = NoUser
      BY DEF Init
    <2>3. \A r \in Resources : api[r] = Gone
      BY DEF Init, ReconcilerInit
    <2>4. \A w \in Workers : pc[w] = "idle"
      BY DEF Init, ReconcilerInit
    <2>5. QED
      BY <2>1, <2>2, <2>3, <2>4, NoUserFacts, GoneFacts DEF UsersKnown, Claimed, KnowsUser, KnowsCopy
  <1>2. UsersKnown /\ [Next]_vars => UsersKnown'
    BY UsersKnownStep
  <1>3. QED
    BY <1>1, <1>2, PTL DEF Spec

(* With one replica, a Create that succeeds has made the user itself,       *)
(* though AddUser would override any: whoever makes or removes users        *)
(* between its calls (create.go userExists).                                *)
THEOREM UserClaimsOwn == ASSUME OneReplica PROVE Spec => ClaimsOwnUser
  <1> DEFINE A == \A w \in Workers : pc[w] # "created" /\ pc'[w] = "created" =>
                     LET u == users'[UserOf(w)] IN u.exists => u.maker = cur[w]
  <1>1. UsersKnown /\ [Next]_vars => A
    <2> SUFFICES ASSUME UsersKnown, [Next]_vars, NEW w \in Workers,
                        pc[w] # "created", pc'[w] = "created"
                 PROVE  users'[UserOf(w)].exists => users'[UserOf(w)].maker = cur[w]
      OBVIOUS
    <2>1. ReconcilerInv
      BY DEF UsersKnown
    <2>2. WorkerStep(w)
      <3>1. ASSUME Bystander(w) PROVE FALSE
        BY <3>1 DEF Bystander
      <3>2. ASSUME ForeignClient \/ UNCHANGED vars PROVE FALSE
        BY <3>2 DEF ForeignClient, vars, reconcilerVars
      <3>3. QED
        BY <2>1, <3>1, <3>2, NextCases, StepOfOther, StepOfUserAside, WorkerStepIsStepOf, UserStepIsStepOfUser
    <2>3. QED
      BY <2>2, OwnUser
  <1>2. QED
    BY <1>1, UsersKnownInv, PTL DEF Spec, ClaimsOwnUser

(* With one replica, a resource that has a user disappears only after it:   *)
(* the copy that was finalized is the latest, so it names the resource's    *)
(* user, and Observe saw none of that name (delete.go, observe.go).         *)
THEOREM UserLeavesFirst == ASSUME OneReplica PROVE Spec => UserGoesFirst
  <1> DEFINE A == \A r \in Resources : Claimed(r) /\ ~api'[r].present => User(r).maker # r
  <1>1. UsersKnown /\ [Next]_vars => A
    <2> SUFFICES ASSUME UsersKnown, [Next]_vars, NEW r \in Resources, Claimed(r), ~api'[r].present
                 PROVE  User(r).maker # r
      OBVIOUS
    <2>1. api[r].present /\ api[r].ann = "true" /\ api[r].finalizer /\ ReconcilerInv
      BY DEF UsersKnown, Claimed
    <2>2. Finalized(r)
      BY <2>1, NextIsSomeStep, ResourceChanges DEF Stays, Named, Recorded, Dropped, Applied
    <2>3. PICK w \in Workers : cur[w] = r /\ w \in fresh /\ pc[w] = "finalize"
      BY <2>2 DEF Finalized
    <2>4. mem[w].ann = "true" /\ mem[w].spec = api[r].spec
      BY <2>1, <2>3 DEF UsersKnown, KnowsUser, KnowsCopy
    <2>5. QED
      BY <2>3, <2>4 DEF UsersKnown, KnowsUser, UserOf, User
  <1>2. QED
    BY <1>1, UsersKnownInv, PTL DEF Spec, UserGoesFirst

=============================================================================
