--------------------------- MODULE UserController ---------------------------
(***************************************************************************)
(* The User controller (operator/user): its webhook, which asks MinIO      *)
(* whether the policies exist, and the Observe, Create, Update and Delete  *)
(* it gives to the managed reconciler.  Observe logs in with the           *)
(* credentials of the connection secret; Update resets the password in     *)
(* MinIO to the one in the secret.                                         *)
(***************************************************************************)
EXTENDS ManagedReconciler, Sequences

CONSTANTS
    Names,        \* user names
    NameOf,       \* NameOf[r]: metadata.name
    PolicyOrder,  \* the canned policies, in the order in which MinIO lists them
    Foreign       \* what other clients do: subset of {"make", "remove", "disable",
                  \* "rekey", "removePolicy", "dropSecret"}

Policies == {PolicyOrder[i] : i \in DOMAIN PolicyOrder}
Passwords == {"a", "b", "foreign"}   \* those that two Creates generate, and another

(* spec.forProvider; given: the field policies is there; ref: the spec has  *)
(* a providerConfigRef.                                                     *)
UserParameters ==
    [name : Names \cup {""}, policies : Seq(Policies), given : BOOLEAN, ref : BOOLEAN]

ASSUME UserAssumption ==
    /\ Specs \subseteq UserParameters
    /\ Anns = {"", "true"}
    /\ Ats = Names \cup {""}
    /\ "" \notin Names
    /\ NameOf \in [Resources -> Names]

VARIABLES
    users,   \* users[n]: the user in MinIO
    canned,  \* the policies that exist in MinIO
    conn,    \* conn[r]: the password in the connection secret, "" if it has none
    reply    \* reply[w]: the password w's Create generated

vars == <<reconcilerVars, users, canned, conn, reply>>

NoUser == [exists |-> FALSE, maker |-> NoResource, password |-> "", policies |-> {},
           enabled |-> TRUE]

Init ==
    /\ ReconcilerInit
    /\ users = [n \in Names |-> NoUser]
    /\ canned = Policies
    /\ conn = [r \in Resources |-> "none"]
    /\ reply = [w \in Workers |-> ""]

-----------------------------------------------------------------------------
(* Types and webhook.                                                       *)

GetUserName(r, s) == IF s.name = "" THEN NameOf[r] ELSE s.name
UserOf(w) == GetUserName(cur[w], mem[w].spec)
Listed(s) == {s.policies[i] : i \in DOMAIN s.policies}

(* policies is omitempty: an empty list does not survive a write by the     *)
(* controller.                                                              *)
Encode(s) == IF s.policies = <<>> THEN [s EXCEPT !.given = FALSE] ELSE s

(* What the controller writes back is a spec like those users write.        *)
ASSUME EncodeAssumption == \A s \in Specs : Encode(s) \in Specs

DoesPolicyExist(s) == Listed(s) \subseteq canned

ValidateCreate(s) == s.ref /\ DoesPolicyExist(s)

ValidateUpdate(r, old, s) ==
    /\ GetUserName(r, s) = GetUserName(r, old.spec)
    /\ s.ref
    /\ old.deleting \/ DoesPolicyExist(s)

Apply(r, s) == ValidateCreate(s) /\ UserApply(r, s) /\ UNCHANGED <<users, canned, conn, reply>>

Edit(r, s) ==
    /\ ValidateUpdate(r, api[r], s)
    /\ UserEdit(r, s)
    /\ UNCHANGED <<users, canned, conn, reply>>

Delete(r) ==
    /\ UserDelete(r)
    /\ conn' = IF api[r].finalizer THEN conn ELSE [conn EXCEPT ![r] = "none"]
    /\ UNCHANGED <<users, canned, reply>>

-----------------------------------------------------------------------------
(* Observe.                                                                 *)

(* MinIO lists a user's policies in its own order, each once; no policy is  *)
(* the nil slice.                                                           *)
EqualPolicies(u, s) ==
    LET attached(p) == p \in u.policies
    IN  /\ s.policies = SelectSeq(PolicyOrder, attached)
        /\ u.policies = {} => ~s.given

(* Mutant of LogsIn: the credentials are not tried.                         *)
LogsInAlways(u, password) == TRUE

(* ListBuckets with the credentials of the secret: without credentials the  *)
(* request is anonymous, and its "Access Denied." counts as a success.      *)
LogsIn(u, password) == password = "" \/ (u.enabled /\ u.password = password)

Observe(w) ==
    LET r == cur[w]
        m == mem[w]
        u == users[UserOf(w)]
        named == [m EXCEPT !.at = UserOf(w)]
        seen == [named EXCEPT !.ready = IF u.enabled THEN "Available" ELSE "Disabled"]
        publishes == ~m.deleting /\ conn[r] = "none" /\ api[r].present
    IN  /\ \/ /\ m.ann = "" /\ m.at = ""
              /\ AfterObserve(w, m, "absent")
              /\ conn' = IF publishes THEN [conn EXCEPT ![r] = ""] ELSE conn
           \/ /\ m.ann # "" \/ m.at # ""
              /\ ~u.exists
              /\ AfterObserve(w, [m EXCEPT !.at = ""], "absent")
              /\ conn' = IF publishes THEN [conn EXCEPT ![r] = ""] ELSE conn
           \/ /\ m.ann # "" \/ m.at # ""
              /\ u.exists
              /\ IF ~EqualPolicies(u, m.spec)
                   THEN /\ AfterObserve(w, [named EXCEPT !.ready = "Updating"], "outdated")
                        /\ conn' = IF publishes THEN [conn EXCEPT ![r] = ""] ELSE conn
                   ELSE /\ conn' = conn
                        /\ IF m.deleting THEN AfterObserve(w, seen, "upToDate")
                           ELSE IF conn[r] = "none" THEN AfterObserveError(w, seen)
                           ELSE AfterObserve(w, seen, IF LogsIn(u, conn[r]) THEN "upToDate"
                                                                             ELSE "outdated")
        /\ UNCHANGED <<faults, users, canned, reply>>

(* Mutant of ObserveFails: a list that cannot be read is empty.             *)
ObserveErrorAsAbsent(w) ==
    /\ pc[w] = "observe"
    /\ Fault("refused")
    /\ AfterObserve(w, mem[w], "absent")
    /\ UNCHANGED <<users, canned, conn, reply>>

(* Connect fails, ListUsers, or the read of the secret.                     *)
ObserveFails(w) ==
    LET m == mem[w]
        named == [m EXCEPT !.at = UserOf(w)]
    IN  /\ pc[w] = "observe"
        /\ Fault("refused")
        /\ \/ AfterObserveError(w, m)
           \/ (m.ann # "" \/ m.at # "") /\ AfterObserveError(w, named)
        /\ UNCHANGED <<users, canned, conn, reply>>

-----------------------------------------------------------------------------
(* Create: userExists, AddUser, AttachPolicy.                               *)

Call(w, stage) == ExternalCall(w, stage, mem[w].ann, mem[w].at, mem[w].ready)

(* Mutant of UserExists: nobody asks.                                       *)
UserExistsUnasked(w) ==
    /\ pc[w] = "create"
    /\ Call(w, "create2")
    /\ UNCHANGED <<faults, users, canned, conn, reply>>

UserExists(w) ==
    /\ pc[w] = "create"
    /\ \/ Call(w, IF users[UserOf(w)].exists THEN "createFailed" ELSE "create2") /\ UNCHANGED faults
       \/ Call(w, "createFailed") /\ Fault("refused")
    /\ UNCHANGED <<users, canned, conn, reply>>

(* AddUser overrides a user that exists, and keeps its policies.            *)
Password(w) == IF conn[cur[w]] = "a" THEN "b" ELSE "a"

AddUser(w) ==
    LET n == UserOf(w)
        maker == IF users[n].exists THEN users[n].maker ELSE cur[w]
        added == [users EXCEPT ![n] = [@ EXCEPT !.exists = TRUE, !.maker = maker,
                                                !.password = Password(w), !.enabled = TRUE]]
    IN  /\ pc[w] = "create2"
        /\ \/ users' = added /\ Call(w, "create3") /\ UNCHANGED faults
           \/ users' = users /\ Call(w, "createFailed") /\ Fault("refused")
           \/ users' = added /\ Call(w, "createFailed") /\ Fault("partial")
        /\ reply' = [reply EXCEPT ![w] = Password(w)]
        /\ UNCHANGED <<canned, conn>>

(* AttachPolicy fails for a policy that does not exist, for a user that     *)
(* does not, and when there is nothing left to attach.                      *)
Attachable(n, s) ==
    users[n].exists /\ Listed(s) \subseteq canned /\ ~(Listed(s) \subseteq users[n].policies)

Attach(n, s) == [users EXCEPT ![n].policies = @ \cup Listed(s)]

(* Mutant of SetUserPolicies: Create itself writes the annotation.          *)
SetUserPoliciesPersists(w) ==
    /\ pc[w] = "create3"
    /\ users' = Attach(UserOf(w), mem[w].spec)
    /\ Store(cur[w], [api[cur[w]] EXCEPT !.ann = "true"])
    /\ mem' = [mem EXCEPT ![w].ann = "true"]
    /\ pc' = [pc EXCEPT ![w] = "created"]
    /\ UNCHANGED <<cache, fresh, cur, faults, ops, canned, conn, reply>>

SetUserPolicies(w) ==
    LET s == mem[w].spec
        n == UserOf(w)
        done == ExternalCall(w, "created", "true", mem[w].at, mem[w].ready)
    IN  /\ pc[w] = "create3"
        /\ \/ s.policies = <<>> /\ done /\ UNCHANGED <<faults, users>>
           \/ /\ s.policies # <<>> /\ Attachable(n, s)
              /\ users' = Attach(n, s) /\ done /\ UNCHANGED faults
           \/ /\ s.policies # <<>> /\ ~Attachable(n, s)
              /\ Call(w, "createFailed") /\ UNCHANGED <<faults, users>>
           \/ /\ s.policies # <<>>
              /\ Call(w, "createFailed") /\ Fault("partial") /\ UNCHANGED users
        /\ UNCHANGED <<canned, conn, reply>>

(* The runtime publishes the details that Create returned.                  *)
PublishConnection(w) ==
    LET r == cur[w]
    IN  /\ pc[w] = "publish"
        /\ Call(w, "status")
        /\ \/ /\ conn' = IF api[r].present THEN [conn EXCEPT ![r] = reply[w]] ELSE conn
              /\ UNCHANGED faults
           \/ conn' = conn /\ Fault("partial")
        /\ reply' = [reply EXCEPT ![w] = ""]
        /\ UNCHANGED <<users, canned>>

-----------------------------------------------------------------------------
(* Update: GetUserInfo and DetachPolicy, AttachPolicy, SetUser.  Nobody     *)
(* else changes attachments, so the first two are one step.                 *)

DetachPolicies(w) ==
    LET n == UserOf(w)
    IN  /\ pc[w] = "update"
        /\ \/ /\ users[n].exists
              /\ users' = [users EXCEPT ![n].policies = {}]
              /\ Call(w, "update2") /\ UNCHANGED faults
           \/ ~users[n].exists /\ Call(w, "status") /\ UNCHANGED <<faults, users>>
           \/ Call(w, "status") /\ Fault("refused") /\ UNCHANGED users
        /\ UNCHANGED <<canned, conn, reply>>

AttachPolicies(w) ==
    LET s == mem[w].spec
        n == UserOf(w)
        next == IF mem[w].deleting THEN "status" ELSE "update3"
    IN  /\ pc[w] = "update2"
        /\ \/ s.policies = <<>> /\ Call(w, next) /\ UNCHANGED <<faults, users>>
           \/ /\ s.policies # <<>> /\ Attachable(n, s)
              /\ users' = Attach(n, s) /\ Call(w, next) /\ UNCHANGED faults
           \/ /\ s.policies # <<>> /\ ~Attachable(n, s)
              /\ Call(w, "status") /\ UNCHANGED <<faults, users>>
           \/ s.policies # <<>> /\ Call(w, "status") /\ Fault("refused") /\ UNCHANGED users
        /\ UNCHANGED <<canned, conn, reply>>

(* Mutant of SetUser: a secret without credentials is used all the same.    *)
SetUserUnchecked(w) ==
    /\ pc[w] = "update3"
    /\ users' = [users EXCEPT ![UserOf(w)].password = conn[cur[w]]]
    /\ Call(w, "status")
    /\ UNCHANGED <<faults, canned, conn, reply>>

(* SetUser gives the user of the secret the password of the secret, enables *)
(* it, and makes it if it is not there; without credentials it fails.       *)
SetUser(w) ==
    LET n == UserOf(w)
        password == conn[cur[w]]
        maker == IF users[n].exists THEN users[n].maker ELSE cur[w]
    IN  /\ pc[w] = "update3"
        /\ Call(w, "status")
        /\ \/ /\ users' = IF password \in {"none", ""} THEN users
                          ELSE [users EXCEPT ![n] = [@ EXCEPT !.exists = TRUE, !.maker = maker,
                                                              !.enabled = TRUE, !.password = password]]
              /\ UNCHANGED faults
           \/ users' = users /\ Fault("refused")
        /\ UNCHANGED <<canned, conn, reply>>

(* Mutant of RemoveUser: a user with policies is kept.                      *)
RemoveUserUnattached(w) ==
    /\ pc[w] = "delete"
    /\ users' = IF users[UserOf(w)].policies = {} THEN [users EXCEPT ![UserOf(w)] = NoUser] ELSE users
    /\ ExternalCall(w, "status", mem[w].ann, mem[w].at, "Deleting")
    /\ UNCHANGED <<faults, canned, conn, reply>>

(* Delete: RemoveUser takes the user's attachments with it.                 *)
RemoveUser(w) ==
    /\ pc[w] = "delete"
    /\ \/ users' = [users EXCEPT ![UserOf(w)] = NoUser] /\ UNCHANGED faults
       \/ users' = users /\ Fault("refused")
    /\ ExternalCall(w, "status", mem[w].ann, mem[w].at, "Deleting")
    /\ UNCHANGED <<canned, conn, reply>>

-----------------------------------------------------------------------------
(* The runtime's own steps.  Its writes pass through the webhook, which     *)
(* refuses them while a policy of the spec does not exist.                  *)

Admitted(w) ==
    LET r == cur[w]
        s == IF w \in fresh THEN mem[w].spec ELSE api[r].spec
    IN  ValidateUpdate(r, api[r], s)

RuntimeStep(w) ==
    /\ \/ pc[w] \in Observed /\ Admitted(w) /\ AddFinalizer(w, Encode(mem[w].spec))
       \/ pc[w] \in Observed /\ Admitted(w) /\ MarkPending(w, Encode(mem[w].spec))
       \/ pc[w] = "created" /\ Admitted(w) /\ RecordCreation(w, Encode(api[cur[w]].spec), "publish")
       \/ pc[w] = "createFailed" /\ Admitted(w) /\ RecordFailure(w, Encode(api[cur[w]].spec))
       \/ pc[w] # "idle" /\ ~Admitted(w) /\ (pc[w] \in Observed => w \in fresh) /\ WriteRefused(w)
       \/ WriteStatus(w)
       \/ Conflict(w)
    /\ UNCHANGED <<users, canned, conn, reply>>

RemoveFinalizer(w) ==
    /\ Finalize(w)
    /\ conn' = [conn EXCEPT ![cur[w]] = "none"]
    /\ UNCHANGED <<users, canned, reply>>

Step(w) ==
    \/ Observe(w)
    \/ UserExists(w) \/ AddUser(w) \/ SetUserPolicies(w) \/ PublishConnection(w)
    \/ DetachPolicies(w) \/ AttachPolicies(w) \/ SetUser(w)
    \/ RemoveUser(w)
    \/ RuntimeStep(w) \/ RemoveFinalizer(w)

StartReconcile(w, r) == Load(w, r) /\ UNCHANGED <<users, canned, conn, reply>>
SyncCache(w) == CacheSync(w) /\ UNCHANGED <<users, canned, conn, reply>>
Stop(w) == Crash(w) /\ reply' = [reply EXCEPT ![w] = ""] /\ UNCHANGED <<users, canned, conn>>

(* A user that another client makes after a Create has asked counts as made *)
(* by that Create, which takes it for its own.                              *)
Adding(n) == {w \in Workers : pc[w] \in {"create2", "create3"} /\ UserOf(w) = n}

MakerOf(n) == IF Adding(n) = {} THEN NoResource ELSE cur[CHOOSE w \in Adding(n) : TRUE]

(* Other clients of MinIO and of the API server.  A policy that is attached *)
(* to a user cannot be removed.                                             *)
ForeignClient ==
    /\ Operation
    /\ \/ \E n \in Names :
            /\ "make" \in Foreign /\ ~users[n].exists
            /\ users' = [users EXCEPT ![n] = [NoUser EXCEPT !.exists = TRUE, !.maker = MakerOf(n),
                                                            !.password = "foreign"]]
            /\ UNCHANGED <<canned, conn>>
       \/ \E n \in Names :
            /\ users[n].exists
            /\ \/ "remove" \in Foreign /\ users' = [users EXCEPT ![n] = NoUser]
               \/ "disable" \in Foreign /\ users' = [users EXCEPT ![n].enabled = FALSE]
               \/ "rekey" \in Foreign /\ users' = [users EXCEPT ![n].password = "foreign"]
            /\ UNCHANGED <<canned, conn>>
       \/ \E p \in canned :
            /\ "removePolicy" \in Foreign
            /\ \A n \in Names : p \notin users[n].policies
            /\ canned' = canned \ {p}
            /\ UNCHANGED <<users, conn>>
       \/ \E r \in Resources :
            /\ "dropSecret" \in Foreign /\ conn[r] # "none"
            /\ conn' = [conn EXCEPT ![r] = "none"]
            /\ UNCHANGED <<users, canned>>
    /\ UNCHANGED <<api, cache, synced, fresh, pc, cur, mem, faults, reply>>

Next ==
    \/ \E w \in Workers :
         \/ Step(w) \/ ObserveFails(w) \/ Stop(w) \/ SyncCache(w)
         \/ \E r \in Resources : StartReconcile(w, r)
    \/ \E r \in Resources :
         \/ Delete(r)
         \/ \E s \in Specs : Apply(r, s) \/ Edit(r, s)
    \/ ForeignClient

Spec == Init /\ [][Next]_vars

(* The queue and the poll bring every resource back, the watch delivers     *)
(* every change, and a running worker goes on.                              *)
Fairness ==
    /\ \A w \in Workers : WF_vars(Step(w)) /\ WF_vars(SyncCache(w))
    /\ \A w \in Workers, r \in Resources : SF_vars(StartReconcile(w, r))

FairSpec == Spec /\ Fairness

-----------------------------------------------------------------------------
(* Properties.                                                              *)

TypeOK ==
    /\ ReconcilerTypeOK
    /\ users \in [Names -> [exists : BOOLEAN, maker : Resources \cup {NoResource},
                            password : Passwords \cup {""}, policies : SUBSET Policies,
                            enabled : BOOLEAN]]
    /\ canned \in SUBSET Policies
    /\ conn \in [Resources -> Passwords \cup {"", "none"}]
    /\ reply \in [Workers -> Passwords \cup {""}]

Claimed(r) == api[r].present /\ api[r].ann = "true"
User(r) == users[GetUserName(r, api[r].spec)]

(* With one replica, a Create that succeeds has made the user itself, though*)
(* AddUser would override any: not one that another client made, and not    *)
(* one that a Create left behind whose reply was lost and that somebody     *)
(* replaced since (create.go userExists).                                   *)
ClaimsOwnUser ==
    [][\A w \in Workers : pc[w] # "created" /\ pc'[w] = "created" =>
          LET u == users'[UserOf(w)] IN u.exists => u.maker = cur[w]]_vars

(* With one replica, a resource that has a user disappears only after the   *)
(* user: no error, crash, stale cache or removed secret makes the finalizer *)
(* go first (delete.go, observe.go).  A second replica that is slow in      *)
(* Update would bring the user back: SetUser also makes one.                *)
UserGoesFirst ==
    [][\A r \in Resources : Claimed(r) /\ ~api'[r].present => User(r).maker # r]_vars

(* Whatever other clients did to the user and whichever calls were refused, *)
(* the user ends with the policies of the spec, enabled, and with the       *)
(* password in the connection secret (observe.go, update.go): the status    *)
(* says so, if the policies are listed in MinIO's order.  What the          *)
(* controller does not get over: a user it did not make, a Create that was  *)
(* interrupted, a connection secret that is gone or has no password, and a  *)
(* policy that is gone.                                                     *)
Served(r) ==
    LET s == api[r].spec
        u == User(r)
    IN  /\ Claimed(r) /\ u.exists /\ u.enabled
        /\ u.policies = Listed(s)
        /\ conn[r] = u.password
        /\ api[r].ready = "Available"

Impeded(r) ==
    \/ User(r).exists /\ ~Claimed(r)
    \/ api[r].create = "pending"
    \/ conn[r] \in {"", "none"}
    \/ ~DoesPolicyExist(api[r].spec)

Heals ==
    \A r \in Resources :
        <>[](api[r].present /\ ~api[r].deleting) => <>[]Served(r) \/ <>[]Impeded(r)

(* A deletion ends, unless a Create was interrupted (delete.go).            *)
DeletionCompletes ==
    \A r \in Resources : api[r].deleting ~> ~api[r].present \/ api[r].create = "pending"

-----------------------------------------------------------------------------
(* What the comments and docs say and the code does not do.                 *)

(* policies "should get assigned to this user": they are, and stay, once    *)
(* nobody changes anything, in whatever order they are listed.              *)
PoliciesStay ==
    \A r \in Resources :
        <>[](api[r].present /\ ~api[r].deleting)
        => <>[](Listed(api[r].spec) \subseteq User(r).policies)

=============================================================================
