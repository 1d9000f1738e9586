---------------------- MODULE ServiceAccountController ----------------------
(***************************************************************************)
(* The ServiceAccount controller (operator/serviceaccount): its webhook,   *)
(* and the Observe, Create, Update and Delete it gives to the managed      *)
(* reconciler.  The external-name annotation (ann) is the access key of    *)
(* the account in MinIO; Create's reply is the only place where the secret *)
(* key is ever seen, and the connection secret the only place it is kept.  *)
(***************************************************************************)
EXTENDS ManagedReconciler, FiniteSets

CONSTANTS
    Keys,         \* access keys
    Generated,    \* those that MinIO generates: enough for every Create of an instance
    NameOf,       \* NameOf[r]: metadata.name, which the initializer makes the external-name
    Canonical,    \* Canonical[p]: the text in which MinIO returns policy p
    BadPolicies,  \* policies MinIO refuses
    NotJSON,      \* those that are not even JSON
    Foreign       \* what other MinIO clients do: subset of {"add", "remove", "disable"}

Secrets == {"", "s1", "s2", "short", "generated"}

(* spec.forProvider, and whether the spec has a providerConfigRef.          *)
ServiceAccountParameters ==
    [key : (Keys \ Generated) \cup {""}, secret : Secrets \ {"generated"},
     policy : DOMAIN Canonical \cup {""}, exp : STRING, target : STRING, ref : BOOLEAN]

ASSUME ServiceAccountAssumption ==
    /\ Specs \subseteq ServiceAccountParameters
    /\ Anns = Keys \cup {""}
    /\ Ats = Keys \cup {""}
    /\ "" \notin Keys
    /\ Generated \subseteq Keys
    /\ NameOf \in [Resources -> Keys \ Generated]
    /\ NotJSON \subseteq BadPolicies

VARIABLES
    accts,  \* accts[k]: the service account with access key k in MinIO
    conn,   \* conn[r]: the connection secret of r
    reply   \* reply[w]: the secret key in the reply to w's AddServiceAccount

vars == <<reconcilerVars, accts, conn, reply>>

NoAccount == [live |-> FALSE, used |-> FALSE, maker |-> NoResource, parent |-> "",
              secret |-> "", policy |-> "", exp |-> "", enabled |-> TRUE]
NoSecret == [key |-> "", secret |-> "none"]
EmptySecret == [key |-> "", secret |-> ""]

Init ==
    /\ ReconcilerInit
    /\ accts = [k \in Keys |-> NoAccount]
    /\ conn = [r \in Resources |-> NoSecret]
    /\ reply = [w \in Workers |-> ""]

-----------------------------------------------------------------------------
(* Webhook.                                                                 *)

GetAccessKey(r, s) == IF s.key = "" THEN NameOf[r] ELSE s.key

ValidateCreate(s) == s.ref /\ s.policy \notin NotJSON /\ s.secret # "short"

ValidateUpdate(r, old, s) ==
    /\ GetAccessKey(r, s) = GetAccessKey(r, old.spec)
    /\ s.target = old.spec.target
    /\ old.deleting \/ (s.ref /\ s.policy \notin NotJSON)

Apply(r, s) == ValidateCreate(s) /\ UserApply(r, s) /\ UNCHANGED <<accts, conn, reply>>

Edit(r, s) ==
    /\ ValidateUpdate(r, api[r], s)
    /\ UserEdit(r, s)
    /\ UNCHANGED <<accts, conn, reply>>

(* The connection secret belongs to the resource and goes with it.          *)
Delete(r) ==
    /\ UserDelete(r)
    /\ conn' = IF api[r].finalizer THEN conn ELSE [conn EXCEPT ![r] = NoSecret]
    /\ UNCHANGED <<accts, reply>>

-----------------------------------------------------------------------------
(* Observe: the account the external-name annotation names.                 *)

IsUpToDate(s, a) ==
    /\ s.policy # "" => s.policy = a.policy
    /\ s.exp = a.exp

(* Mutant of Observe: the status is MinIO's own word.                       *)
ObserveRawStatus(w) ==
    LET m == mem[w]
        a == accts[m.ann]
        status == IF a.enabled THEN "on" ELSE "off"
    IN  /\ m.ann # ""
        /\ IF a.live
             THEN AfterObserve(w, [m EXCEPT !.at = m.ann, !.ready = status],
                               IF IsUpToDate(m.spec, a) THEN "upToDate" ELSE "outdated")
             ELSE AfterObserve(w, m, "absent")
        /\ UNCHANGED <<faults, accts, conn, reply>>

(* The runtime publishes the (empty) details of an observation: the secret  *)
(* comes into being before the account.                                     *)
Observe(w) ==
    LET m == mem[w]
        a == accts[m.ann]
        current == IsUpToDate(m.spec, a)
        ready == IF ~current THEN "Updating" ELSE IF a.enabled THEN "Available" ELSE "Disabled"
    IN  /\ m.ann # ""
        /\ IF a.live
             THEN AfterObserve(w, [m EXCEPT !.at = m.ann, !.ready = ready],
                               IF current THEN "upToDate" ELSE "outdated")
             ELSE AfterObserve(w, m, "absent")
        /\ conn' = IF ~m.deleting /\ conn[cur[w]] = NoSecret /\ api[cur[w]].present
                     THEN [conn EXCEPT ![cur[w]] = EmptySecret] ELSE conn
        /\ UNCHANGED <<faults, accts, reply>>

(* Mutant of ObserveFails: every error means "does not exist".              *)
ObserveErrorAsAbsent(w) ==
    /\ Fault("refused")
    /\ mem[w].ann # ""
    /\ AfterObserve(w, mem[w], "absent")
    /\ UNCHANGED <<accts, conn, reply>>

(* Connect fails, or InfoServiceAccount with anything but "does not exist". *)
ObserveFails(w) ==
    /\ Fault("refused")
    /\ mem[w].ann # ""
    /\ AfterObserveError(w, mem[w])
    /\ UNCHANGED <<accts, conn, reply>>

-----------------------------------------------------------------------------
(* Create.                                                                  *)

Call(w, stage) == ExternalCall(w, stage, mem[w].ann, mem[w].at, mem[w].ready)

(* serviceAccountExists: asked only for a key from the spec.                *)
CheckKey(w) ==
    LET s == mem[w].spec
        refused == IF s.key = "" THEN s.secret # "" ELSE accts[s.key].live
    IN  /\ pc[w] = "create"
        /\ \/ Call(w, IF refused THEN "createFailed" ELSE "create2") /\ UNCHANGED faults
           \/ s.key # "" /\ Call(w, "createFailed") /\ Fault("refused")
        /\ UNCHANGED <<accts, conn, reply>>

Acceptable(s) == s.policy \notin BadPolicies /\ s.secret # "short"

Stored(p) == IF p = "" THEN "" ELSE Canonical[p]

NewAccount(w) ==
    LET s == mem[w].spec
    IN  [live |-> TRUE, used |-> TRUE, maker |-> cur[w], parent |-> s.target,
         secret |-> IF s.secret = "" THEN "generated" ELSE s.secret,
         policy |-> Stored(s.policy), exp |-> s.exp, enabled |-> TRUE]

(* Which unused key MinIO generates makes no difference.                    *)
NewKeys(s) ==
    LET unused == {g \in Generated : ~accts[g].used}
    IN  IF s.key # "" THEN {s.key}
        ELSE {k \in unused : k = CHOOSE g \in unused : TRUE}

(* Mutants of AddServiceAccount: the external-name is not set, Create       *)
(* itself publishes the secret, and Create itself writes the external-name. *)
AddServiceAccountUnnamed(w) ==
    /\ pc[w] = "create2"
    /\ \E k \in NewKeys(mem[w].spec) :
         /\ accts' = [accts EXCEPT ![k] = NewAccount(w)]
         /\ ExternalCall(w, "created", mem[w].ann, k, mem[w].ready)
    /\ UNCHANGED <<faults, conn, reply>>

AddServiceAccountPublishes(w) ==
    /\ pc[w] = "create2"
    /\ \E k \in NewKeys(mem[w].spec) :
         /\ accts' = [accts EXCEPT ![k] = NewAccount(w)]
         /\ conn' = [conn EXCEPT ![cur[w]] = [key |-> k, secret |-> "generated"]]
         /\ ExternalCall(w, "created", k, k, mem[w].ready)
    /\ UNCHANGED <<faults, reply>>

AddServiceAccountPersists(w) ==
    /\ pc[w] = "create2"
    /\ \E k \in NewKeys(mem[w].spec) :
         /\ accts' = [accts EXCEPT ![k] = NewAccount(w)]
         /\ Store(cur[w], [api[cur[w]] EXCEPT !.ann = k])
         /\ mem' = [mem EXCEPT ![w].ann = k]
    /\ pc' = [pc EXCEPT ![w] = "created"]
    /\ UNCHANGED <<cache, fresh, cur, faults, ops, conn, reply>>

AddServiceAccount(w) ==
    LET s == mem[w].spec
        a == NewAccount(w)
    IN  /\ pc[w] = "create2"
        /\ \E k \in NewKeys(s) :
             \/ /\ Acceptable(s) /\ ~accts[k].live
                /\ accts' = [accts EXCEPT ![k] = a]
                /\ reply' = [reply EXCEPT ![w] = a.secret]
                /\ ExternalCall(w, "created", k, k, mem[w].ready)
                /\ UNCHANGED faults
             \/ /\ ~Acceptable(s) \/ accts[k].live
                /\ Call(w, "createFailed") /\ UNCHANGED <<faults, accts, reply>>
             \/ Call(w, "createFailed") /\ Fault("refused") /\ UNCHANGED <<accts, reply>>
             \/ /\ Acceptable(s) /\ ~accts[k].live   \* the reply is lost
                /\ accts' = [accts EXCEPT ![k] = a]
                /\ Call(w, "createFailed") /\ Fault("partial") /\ UNCHANGED reply
        /\ UNCHANGED conn

(* The runtime publishes the details that Create returned.                  *)
PublishConnection(w) ==
    LET r == cur[w]
    IN  /\ pc[w] = "publish"
        /\ Call(w, "status")
        /\ \/ /\ conn' = IF api[r].present
                           THEN [conn EXCEPT ![r] = [key |-> mem[w].ann, secret |-> reply[w]]]
                           ELSE conn
              /\ UNCHANGED faults
           \/ conn' = conn /\ Fault("refused")
        /\ reply' = [reply EXCEPT ![w] = ""]
        /\ UNCHANGED accts

-----------------------------------------------------------------------------
(* Update and Delete.                                                       *)

(* Mutant of UpdateServiceAccount: the expiration is not sent.              *)
UpdateWithoutExpiration(w) ==
    LET s == mem[w].spec
        k == mem[w].ann
    IN  /\ pc[w] = "update"
        /\ accts' = IF accts[k].live /\ Acceptable(s)
                       THEN [accts EXCEPT ![k].policy = IF s.policy = "" THEN @ ELSE Stored(s.policy)]
                       ELSE accts
        /\ Call(w, "status")
        /\ UNCHANGED <<faults, conn, reply>>

(* Only what the spec gives is sent: nothing is ever reset.                 *)
UpdateServiceAccount(w) ==
    LET s == mem[w].spec
        k == mem[w].ann
        a == accts[k]
        updated == [a EXCEPT !.policy = IF s.policy = "" THEN @ ELSE Stored(s.policy),
                             !.exp = IF s.exp = "" THEN @ ELSE s.exp,
                             !.secret = IF s.secret = "" THEN @ ELSE s.secret]
    IN  /\ pc[w] = "update"
        /\ \/ /\ accts' = IF a.live /\ Acceptable(s) THEN [accts EXCEPT ![k] = updated] ELSE accts
              /\ UNCHANGED faults
           \/ accts' = accts /\ Fault("refused")
        /\ Call(w, "status")
        /\ UNCHANGED <<conn, reply>>

DeletingStatus(w) == ExternalCall(w, "status", mem[w].ann, mem[w].at, "Deleting")

(* Mutant of CheckDelete: a disabled account counts as deleted.             *)
CheckDeleteEnabled(w) ==
    /\ pc[w] = "delete"
    /\ IF accts[mem[w].ann].live /\ accts[mem[w].ann].enabled
         THEN Call(w, "delete2") ELSE DeletingStatus(w)
    /\ UNCHANGED <<faults, accts, conn, reply>>

(* An error of the check is logged and counts as "does not exist".          *)
CheckDelete(w) ==
    /\ pc[w] = "delete"
    /\ \/ accts[mem[w].ann].live /\ Call(w, "delete2") /\ UNCHANGED faults
       \/ ~accts[mem[w].ann].live /\ DeletingStatus(w) /\ UNCHANGED faults
       \/ DeletingStatus(w) /\ Fault("refused")
    /\ UNCHANGED <<accts, conn, reply>>

(* Mutant of DeleteServiceAccount: it removes every account that was made   *)
(* for a resource of this name.                                             *)
DeleteByOwner(w) ==
    /\ pc[w] = "delete2"
    /\ accts' = [k \in Keys |-> IF accts[k].maker = cur[w]
                                  THEN [NoAccount EXCEPT !.used = TRUE] ELSE accts[k]]
    /\ DeletingStatus(w)
    /\ UNCHANGED <<faults, conn, reply>>

DeleteServiceAccount(w) ==
    /\ pc[w] = "delete2"
    /\ \/ accts' = [accts EXCEPT ![mem[w].ann] = [NoAccount EXCEPT !.used = TRUE]] /\ UNCHANGED faults
       \/ accts' = accts /\ Fault("refused")
    /\ DeletingStatus(w)
    /\ UNCHANGED <<conn, reply>>

-----------------------------------------------------------------------------
(* The runtime's own steps.  The webhook sees writes of the spec the API    *)
(* server has, which it accepted before.                                    *)

RuntimeStep(w) ==
    /\ \/ pc[w] # "idle" /\ Initialize(w, NameOf[cur[w]], mem[w].spec)
       \/ AddFinalizer(w, mem[w].spec)
       \/ MarkPending(w, mem[w].spec)
       \/ pc[w] = "created" /\ RecordCreation(w, api[cur[w]].spec, "publish")
       \/ pc[w] = "createFailed" /\ RecordFailure(w, api[cur[w]].spec)
       \/ WriteStatus(w)
       \/ Conflict(w)
       \/ InitializeConflict(w)
    /\ UNCHANGED <<accts, conn, reply>>

RemoveFinalizer(w) ==
    /\ Finalize(w)
    /\ conn' = [conn EXCEPT ![cur[w]] = NoSecret]
    /\ UNCHANGED <<accts, reply>>

Step(w) ==
    \/ Observe(w)
    \/ CheckKey(w) \/ AddServiceAccount(w) \/ PublishConnection(w)
    \/ UpdateServiceAccount(w)
    \/ CheckDelete(w) \/ DeleteServiceAccount(w)
    \/ RuntimeStep(w) \/ RemoveFinalizer(w)

StartReconcile(w, r) == Load(w, r) /\ UNCHANGED <<accts, conn, reply>>
SyncCache(w) == CacheSync(w) /\ UNCHANGED <<accts, conn, reply>>
Stop(w) == Crash(w) /\ reply' = [reply EXCEPT ![w] = ""] /\ UNCHANGED <<accts, conn>>

(* Other MinIO clients add, remove and disable accounts.                    *)
ForeignClient(k) ==
    /\ Operation
    /\ \/ /\ "add" \in Foreign /\ k \notin Generated /\ ~accts[k].live
          /\ accts' = [accts EXCEPT ![k] = [NoAccount EXCEPT !.live = TRUE, !.used = TRUE]]
       \/ /\ "remove" \in Foreign /\ accts[k].live
          /\ accts' = [accts EXCEPT ![k] = [NoAccount EXCEPT !.used = TRUE]]
       \/ /\ "disable" \in Foreign /\ accts[k].live /\ accts[k].enabled
          /\ accts' = [accts EXCEPT ![k].enabled = FALSE]
    /\ UNCHANGED <<api, cache, synced, fresh, pc, cur, mem, faults, conn, reply>>

Next ==
    \/ \E w \in Workers :
         \/ Step(w) \/ ObserveFails(w) \/ Stop(w) \/ SyncCache(w)
         \/ \E r \in Resources : StartReconcile(w, r)
    \/ \E r \in Resources :
         \/ Delete(r)
         \/ \E s \in Specs : Apply(r, s) \/ Edit(r, s)
    \/ \E k \in Keys : ForeignClient(k)

Spec == Init /\ [][Next]_vars

(* The queue and the poll bring every resource back, the watch delivers     *)
(* every change, and a running worker goes on.                              *)
Fairness ==
    /\ \A w \in Workers : WF_vars(Step(w)) /\ WF_vars(SyncCache(w))
    /\ \A w \in Workers, r \in Resources : SF_vars(StartReconcile(w, r))

FairSpec == Spec /\ Fairness

-----------------------------------------------------------------------------
(* Properties.                                                              *)

(* What an account has of a spec is "" or what some spec asks for.          *)
TypeOK ==
    /\ ReconcilerTypeOK
    /\ accts \in [Keys -> [live : BOOLEAN, used : BOOLEAN, maker : Resources \cup {NoResource},
                           parent : {""} \cup {s.target : s \in Specs}, secret : Secrets,
                           policy : {""} \cup {Stored(s.policy) : s \in Specs},
                           exp : {""} \cup {s.exp : s \in Specs}, enabled : BOOLEAN]]
    /\ conn \in [Resources -> [key : Anns, secret : Secrets \cup {"none"}]]
    /\ reply \in [Workers -> Secrets]

Made(r) == {k \in Keys : accts[k].live /\ accts[k].maker = r}

(* A resource has one account, plus at most one for each fault; and one in  *)
(* all where every fault is a refused call.  A failed status write, a stale *)
(* cache, a second replica or a client that removes the account never makes *)
(* Create run again for an account that exists (the "million service        *)
(* accounts" of external_name_test.go).                                     *)
NoRunaway ==
    \A r \in Resources :
        Cardinality(Made(r)) <= 1 + (IF FaultKinds \subseteq {"refused"} THEN 0 ELSE faults)

(* The controller removes an account only for a resource that is being      *)
(* deleted and has this account, however old the copy is that the worker    *)
(* decided by; keys are generated, so none is used twice (delete.go).       *)
DeletesOwn ==
    [][\A k \in Keys : accts[k].live /\ ~accts'[k].live /\ ops' = ops =>
          \E r \in Resources : api[r].deleting /\ api[r].ann = k]_vars

(* A resource with a finalizer disappears only after its account, although  *)
(* Delete takes an error of its own check for "does not exist" (delete.go). *)
AccountGoesFirst ==
    [][\A r \in Resources : api[r].finalizer /\ ~api'[r].present =>
          api[r].ann \notin Made(r)]_vars

(* Credentials that were handed out are never orphaned: while the account   *)
(* that the connection secret names is there, the resource has it by its    *)
(* external-name and holds its finalizer, however late a worker publishes,  *)
(* so that its deletion removes the account; keys are generated (create.go, *)
(* delete.go).                                                              *)
SecretOfHolder ==
    \A r \in Resources : conn[r].key \in Made(r) =>
        api[r].finalizer /\ api[r].ann = conn[r].key

(* A resource that is left alone, with a spec that MinIO accepts, ends with *)
(* an account that has the policy and the expiration of the spec, and is    *)
(* Ready if MinIO returns the policy as it was written, whatever calls were *)
(* refused and however the spec was before, unless the key of its spec      *)
(* belongs to somebody else (observe.go, create.go, update.go).             *)
Served(r) ==
    LET s == api[r].spec
        a == accts[api[r].ann]
    IN  /\ api[r].ann # "" /\ a.live
        /\ s.policy # "" => a.policy = Stored(s.policy)
        /\ s.exp # "" => a.exp = s.exp
        /\ IsUpToDate(s, a) => api[r].ready = IF a.enabled THEN "Available" ELSE "Disabled"

Taken(r) ==
    LET k == api[r].spec.key
    IN  k \notin {"", api[r].ann} /\ accts[k].live /\ accts[k].maker # r

Converges ==
    \A r \in Resources :
        <>[](api[r].present /\ ~api[r].deleting /\ Acceptable(api[r].spec)) =>
            <>[]Served(r) \/ <>[]Taken(r)

(* A deletion ends, and a deletion while Create runs does too (delete.go).  *)
DeletionCompletes == \A r \in Resources : api[r].deleting ~> ~api[r].present

=============================================================================
