# provider-minio in TLA+

A verification project for the Crossplane provider for MinIO: the controllers
that keep buckets, users, policies and service accounts of a MinIO server in
step with Kubernetes custom resources. It models the controllers at the level
of single remote calls, with several replicas, lagging informer caches,
crashes, refused calls, lost replies, users who edit and delete, and other
clients of MinIO. A second part models how a controller gets its MinIO clients
from ProviderConfigs and Secrets that are rotated meanwhile.

`PROJECT.json` lists the components, the runs with their properties, a mutant
of the code for every property of every passing run, the source lines behind
every definition, the findings and the hazards.

## The system

| Component | State | Operations | Talks to |
|---|---|---|---|
| managed reconciler (crossplane-runtime, external) | in-memory copy of one resource per worker; finalizer, `external-create-*` annotations and conditions in the API server | load from cache, observe, add finalizer, announce and record a creation, update, delete, write status, remove finalizer | API server, informer cache, one controller |
| Bucket (`operator/bucket`) | lock annotation, `status.atProvider.bucketName`; buckets with policy, tags, objects in MinIO | Observe, Create (3 calls), Update (2), Delete (2), webhook | MinIO S3 |
| ServiceAccount (`operator/serviceaccount`) | external-name annotation = access key, connection secret; accounts in MinIO | Observe, Create (2 calls), publish, Update, Delete (2), webhook | MinIO admin |
| User (`operator/user`) | created annotation, status, connection secret; users, attachments in MinIO | Observe with login probe, Create (3), publish, Update (3), Delete, webhook that asks MinIO | MinIO admin and S3, secrets |
| Policy (`operator/policy`) | lock annotation, status; canned policies in MinIO | Observe, Create (2), Update (2), Delete, webhook | MinIO admin |
| NotificationConfiguration (`operator/notificationconfiguration`) | none of its own: the bucket's whole notification configuration is read and written | Observe, Create, Update, Delete, webhook, event validation | MinIO S3 |
| MinIO clients and TLS (`operator/minioutil`, `Connect` of each kind) | none: ProviderConfig, credentials and TLS material are read at every reconcile | Get of each part, building one or two clients; the User's login probe builds its own | API server's caches |
| ProviderConfig (`operator/config`) | usages of a config | usage tracking by crossplane-runtime | API server |
| startup (`cmd/provider`), tracing, generated code, unwired `internal/clients` and `internal/controller` | | | |

What is hard here, and where (the hazards in `PROJECT.json` name the lines):

* One worker per kind and replica, but leader election is off by default and a
  rolling update overlaps pods: two workers may hold copies of one resource.
  The only guard is the version check on the write that announces a creation.
* Workers decide from a cache that lags, and from copies taken before remote
  calls. MinIO's own operations have no version check.
* Create, Update and Delete are sequences of calls, each of which can be
  refused, succeed without a reply, or be the last one before a crash.
* Ownership of a MinIO object is an annotation that is written after the fact.
* Some secrets exist only in the reply of Create.
* A bucket's notification configuration is shared by all its resources and
  clients, and every change of it is a read, an edit in memory and a write.
* The parts of a client (credentials, CA, certificate, key) are read one by one,
  from caches of different kinds, while somebody rotates them.

What makes each part correct: never two Creates of a resource at once; a
resource owns only what its own Create made; nothing is deleted but what a
resource that is being deleted owns, and data only when asked for; a resource
disappears only after what it owns; others keep what is theirs; left alone, MinIO
ends as the spec says and deletions end; a client is never weaker than the
ProviderConfig asks for.

## Modules

`ManagedReconciler` is the base. `api[r]` is the API server's copy of resource
`r`, `cache[w][r]` the copy in the cache of worker `w`'s replica, `mem[w]` the
copy in memory. Versions are not counted: `synced` and `fresh` say which caches
and copies have the latest resourceVersion, which is all a version is compared
for. `pc[w]` is the next call; `create` summarises the `external-create-*`
annotations. `ann` and `at` are the annotation and the `status.atProvider` field
that the kind at hand uses. `ReconcilerSpec` is the abstract specification:
what any controller under this runtime may do to the API server, whatever it
does to MinIO.

`Lifecycle` is more abstract still: what a user of the API server sees of a
resource, in two variables and seven actions, without workers, caches or
versions. `LifecycleSpec` is its specification under the mapping of
`ManagedReconciler`: `PhaseOf` (gone, new, held by the finalizer, ending) and
`CreationOf` (none, pending, succeeded, failed).

Each controller module EXTENDS it and adds MinIO's state and one action per
remote call:

| Module | Adds | Actions that stand for code |
|---|---|---|
| `BucketController` | `buckets`, `consent` and `left` (history) | `Observe`, `ObserveFails`; `MakeBucket`, `CreatePolicy`, `CreateTags`; `UpdatePolicy`, `UpdateTags`; `DeleteAllObjects`, `RemoveBucket`; `Apply`, `Edit`, `Delete` (webhook and user) |
| `ServiceAccountController` | `accts`, `conn`, `reply` | `Observe`, `ObserveFails`; `CheckKey`, `AddServiceAccount`, `PublishConnection`; `UpdateServiceAccount`; `CheckDelete`, `DeleteServiceAccount`; webhook |
| `UserController` | `users`, `canned`, `conn`, `reply` | `Observe`, `ObserveFails`; `UserExists`, `AddUser`, `SetUserPolicies`, `PublishConnection`; `DetachPolicies`, `AttachPolicies`, `SetUser`; `RemoveUser`; webhook |
| `PolicyController` | `canned` | `Observe`, `ObserveFails`; `CheckPolicy`, `CreatePolicy`; `CheckUpdate`, `UpdatePolicy`; `RemovePolicy`; webhook |
| `NotificationController` | `buckets`, `held` (what a worker has read) | `Observe`, `ObserveFails`; `GetForCreate`, `SetForCreate`; `GetForUpdate`, `SetForUpdate`; `GetForDelete`, `SetForDelete`; webhook |

`maker` fields are history: who made the object. So are `consent` (the buckets whose
deletion with DeleteAll a user asked for), `left` (the names that users' edits of a
spec have changed away from) and, in `MCNotificationWiped`, `atRead` (what a bucket had
when Create read it, also when the read failed). No guard looks at them. `RuntimeStep` composes the
runtime's own writes with the controller: which spec is serialised (`Encode`
drops empty `omitempty` fields, as a write by the controller does) and whether
the webhook admits it. `ForeignClient` is everybody else who uses MinIO.

`MinioClient` stands alone: `store` holds the ProviderConfig, Secrets and
ConfigMaps, `cache` their copies (one informer per kind, so changes of two
Secrets arrive in order and a Secret and a ConfigMap do not), `conn` the Connect
under way, `clients` what the latest one returned. `GetConfig`, `GetCredentials`,
`GetCA`, `GetCert` and `GetKey` are one Get each, with what the code does with its
result; `Probe` is the client that a User's Observe makes. `Write` is a rotation,
edit or deletion by a user.

The proof modules (`ReconcilerProofs`, `LifecycleProofs`, `BucketProofs`,
`ServiceAccountProofs`, `UserProofs`, `PolicyProofs`, `NotificationProofs`,
`ClientProofs`) hold the theorems; see "Proofs".

The `MC` modules give the constants their values. Definitions whose comment starts
with "Mutant of" are the changed code that the properties must detect; nothing else
uses them.

Abstractions: policies, tags, passwords and keys are small sets of values; what
matters of a policy is whether MinIO accepts it, whether it parses, and in what
form MinIO returns it (`Canonical`, `Meaning`). Events, logging, names and
descriptions, access key lengths, object lock, and a bucket policy that is the
empty string rather than absent are left out, and so are queue and topic targets
of notifications, which the code ignores. The ARN of a notification entry is its
ID: MinIO is assumed to return ARNs, events and filters as they were written.
Inline TLS data, certificates and keys are names; what parses and what belongs
together are the constants `Certificates` and `Pairs`. A ProviderConfig that
exists stays, as usage tracking is to ensure. A webhook that cannot reach MinIO
is not modelled. "Refused" is a call that fails without effect, "partial" one
that fails after it took effect, "crash" a stop of the process anywhere (also a
write of the runtime that fails for good).

## Runs

| Run | Instance | Shows |
|---|---|---|
| `bucket_owner` | 1 worker, 2 resources, 2 names, clients that make buckets, 1 fault of any kind, 4 operations | `TypeOK`, `StatusNamesSpec`, `LockOnlyToMaker`, `DeletedMeansRemoved` |
| `bucket_converges` | fair, 1 worker, 1 resource, 1 fault of any kind, 4 operations | `Converges`, `DeletionCompletes`, `DataSafety`, `ReconcilerSpec` |
| `sa_replicas` | 2 workers, 1 resource, generated keys, 1 fault of any kind, 3 operations | `TypeOK`, `NoRunaway`, `OneCreateInFlight`, `DeletesOwn`, `AccountGoesFirst`, `SecretOfHolder` |
| `sa_converges` | fair, 1 worker, 1 resource and clients over one key, 1 refused call, 3 operations | `Converges`, `DeletionCompletes`, `ReconcilerSpec` |
| `user_heals` | fair, 1 worker, 1 resource, 2 policies, 1 fault of any kind, 3 operations | `TypeOK`, `ClaimsOwnUser`, `UserGoesFirst`, `Heals`, `DeletionCompletes`, `ReconcilerSpec` |
| `policy_converges` | fair, 1 worker, 1 resource, every kind of spec, 1 fault of any kind, 3 operations | `TypeOK`, `ClaimsOwnPolicy`, `PolicyGoesFirst`, `Converges`, `DeletionCompletes`, `ReconcilerSpec`, `LifecycleSpec` |
| `notif_converges` | fair, 1 worker, 1 resource and clients over one bucket, 2 IDs, 2 endpoints, 1 fault of any kind, 3 operations | `TypeOK`, `NoDuplicates`, `KeepsOthers`, `EntryGoesFirst`, `Converges`, `DeletionCompletes`, `ReconcilerSpec` |
| `client_connects` | fair, User (admin client and probe) and NotificationConfiguration (admin and S3 client), 6 ProviderConfigs, 2 changes from any initial state | `PairBelongs`, `NoDowngrade`, `PicksUp`, no deadlock |

An operation is something a user or another client does. The bounds are chosen
so that the interesting case fits: create, edit, delete and create again of one
resource, or two resources, one of them deleted or renamed, with a client's
bucket between (4); a create, an edit and a deletion or interference (3). One
fault is enough to end any call in any way; "any kind" is a crash, a refused call
or a lost reply. Two workers are enough for the races: each is between one that
acts and one that is late. `client_connects` starts from every combination of
what the objects may hold, so 2 changes are enough to tear any pair of reads.
Symmetry is used only in runs without liveness. The runs of controllers turn the
deadlock check off: when the operations are used up and no resource is left, the
system rests.

Four runs end in a violation: a document says something the code does not do, and
a finding in `PROJECT.json` quotes the line.

* `bucket_two_owners` (`OneOwner`): the lock is to prevent "2 resources managing 1
  bucket". A resource that is being deleted holds it until its finalizer goes;
  after its RemoveBucket a second resource of the same name makes and claims the
  bucket, and the first one's next reconcile deletes it.
* `user_order` (`PoliciesStay`, fair): policies that are listed in another order
  than MinIO's are detached and attached again at every reconcile.
* `notif_wiped` (`StartsFresh`): Create starts with an empty configuration "if no
  configuration exists yet". It does so after any error of the read, and its
  write then removes everybody else's entries. The property looks only at entries that
  were there when Create read and still are when it writes, so a client's entry
  that comes between, which MinIO's interface cannot protect, does not violate it:
  with the error returned instead (create.go:35) TLC finds it to hold.
* `client_probe` (`OneTrust`): `spec.tls` lets the provider connect with an internal
  CA. The login probe of a User does not use it.

### What the properties do not promise

The models also have these behaviours. The properties above are stated so as not
to deny them; the hazards name the lines.

* A Create of a Bucket that fails after MakeBucket, be it by one refused
  SetBucketPolicy or SetBucketTagging, leaves a bucket that Observe refuses for
  ever: the resource neither becomes available nor can it be deleted. Bucket's
  `Converges` and `DeletionCompletes` name this obstacle (`Wedged`), with an announced
  creation that was never recorded, and show that there is no other.
* A Create that fails after AddUser or AddCannedPolicy leaves a user or policy that
  stays behind when the resource is deleted. `Heals` (`Impeded`) and Policy's
  `Converges` (`Obstructed`) name these as what the controller does not get over,
  and with them an announced creation that was never recorded; for a User also a
  missing or empty connection secret and a policy that is gone. ServiceAccount's
  `Converges` (`Taken`) names a key that somebody else has.
* A bucket that another client makes between Observe and MakeBucket gets the lock:
  `LockOnlyToMaker` is about buckets that resources made. A user or policy that
  another client makes between a Create's check and its call is replaced by that
  call, and counts as made by it in `ClaimsOwnUser` and `ClaimsOwnPolicy`.
* A bucket that another client makes again after the finalizer was added can keep
  a deletion from ending, and one that is made again after a deletion can be
  removed by a worker with an old copy. `DeletionCompletes` and `DataSafety` of
  Bucket are checked without clients that make buckets.
* Until the first status write, the name of a created bucket can be edited, and the
  bucket of the old name stays behind when the resource is deleted.
  `DeletedMeansRemoved` speaks of every bucket the resource made and excepts the
  names in `left`.
* A crash between the record of a creation and the publication of its secret loses
  the password or secret key; the resource is Available all the same.
* A policy that is removed from a ServiceAccount's spec stays on the account, its
  secret key can be edited, and an account that is named like the resource is
  taken over.
* With two replicas, two Users of one name can both pass the check for an existing
  user, and a slow Update can bring back a Policy that was just deleted.
  `ClaimsOwnUser`, `ClaimsOwnPolicy`, `PolicyGoesFirst`, `EntryGoesFirst` and
  `LockOnlyToMaker` are stated for one replica.
* An entry that is added to a bucket's notifications between a worker's read and
  its write is lost; `KeepsOthers` allows exactly this, and what Create wipes after
  a failed read. Two resources with one webhook ID take turns in removing each
  other's entry; an edit of the endpoint or the ID leaves the old entry behind, and
  one that drops the webhook leaves it behind at deletion.
* A list of events that MinIO refuses, or that repeats one, and a filter without
  rules, are admitted by an edit and never up to date; `Converges` of
  NotificationConfiguration is about the others.
* Errors are told apart by "does not exist" in their text, which MinIO's answer to
  unknown credentials contains too. The models have no false "not found".
* A key of a Secret that is there but empty counts as a source that is not given.
  `NoDowngrade` is checked with non-empty values.

### Fairness

`FairSpec` asks weak fairness of a worker's own steps and of its cache, and
strong fairness of starting a reconcile of each resource: the workqueue keeps a
request until it is served, failed ones are queued again, and every resource is
polled each minute (`createReconciler`, `WithPollInterval`). Strong fairness is
needed because a worker that is busy with another resource disables the start.
Nothing is asked of users, other clients or faults, and their number is bounded.
The liveness run of ServiceAccount has refused calls but neither crashes nor lost
replies; the others have all of them. A crash inside Create
leaves the creation pending, and the runtime then waits for a human by design:
their properties name `create = "pending"` as an obstacle. In `MinioClient` a
reconcile goes on and is repeated, and every informer delivers.

## Proofs

| Module | About | Theorems |
|---|---|---|
| `ReconcilerProofs` | `ManagedReconciler` | `ReconcilerTypes`, `ReconcilerInvariant`, `OneCreate` |
| `LifecycleProofs` | `ManagedReconciler`, `Lifecycle` | `ReconcilerImplementsLifecycle` |
| `BucketProofs` | `BucketController` | `BucketTypesOK`, `BucketStatusNamesSpec`, `BucketLockOnlyToMaker`*, `BucketRemovedFirst`* |
| `ServiceAccountProofs` | `ServiceAccountController` | `ServiceAccountTypes`, `ServiceAccountNoRunaway`, `ServiceAccountGoesFirst`, `ServiceAccountDeletesOwn`***, `ServiceAccountSecretOfHolder`*** |
| `UserProofs` | `UserController` | `UserTypesOK`, `UserClaimsOwn`*, `UserLeavesFirst`* |
| `PolicyProofs` | `PolicyController` | `PolicyTypesOK`, `PolicyClaimsOwn`*, `PolicyLeavesFirst`* |
| `NotificationProofs` | `NotificationController` | `NotificationTypesOK`, `NotificationSingle`, `NotificationKeepsOthers`, `NotificationLeavesFirst`* |
| `ClientProofs` | `MinioClient` | `ClientPairBelongs`, `ClientNoDowngrade`** |

and for each of the five controllers `<Kind>ImplementsReconciler`
(`Spec => ReconcilerSpec`), `<Kind>ImplementsLifecycle` (`Spec => LifecycleSpec`) and
`<Kind>OneCreate` (`Spec => []OneCreateInFlight`).

The theorems hold for all constants: any number of replicas, resources, names, keys,
specs, faults and operations, and other clients of MinIO that do anything the models let
them do. They rest on the named assumptions of the modules only: the types of the constants,
that "" is no name and no key, that a spec is still one of `Specs` when its empty
`omitempty` fields are dropped (`EncodeAssumption`), and that no key belongs to an empty
certificate or is empty (`ClientAssumption`). TLC evaluates them in every run. A theorem marked * has the
hypothesis `OneReplica` (at most one worker): with two replicas the property is false, as
"What the properties do not promise" says. `ClientNoDowngrade` (**) has the hypothesis
`NoEmptyText` (no key of a Secret or ConfigMap is there with an empty text): the code takes
an empty text for a source that is not given. `ServiceAccountDeletesOwn` and
`ServiceAccountSecretOfHolder` (***) have the hypothesis `GeneratedOnly`: no spec asks for a key and no other client adds an account, so
that no key is used twice, as in `sa_replicas`. With a key that is used again a copy that
lags can name an account that somebody else has by now.

### The reconciler

* `ReconcilerInvariant`: `ReconcilerSpec => []ReconcilerInv`. `OneCreateInFlight`
  is not inductive: a worker that is about to announce a creation must be known
  to be refused when another one is in Create. The invariant adds why. A copy with
  the latest version agrees with the API server (`FreshAgrees`), which rests on
  caches that caught up agreeing with it (`SyncedAgrees`); no worker passes `Load`
  with a copy that has an announced creation (`NothingAnnounced`); and while a
  worker is in Create the API server has its announcement (`CreateAnnounced`). So
  a copy that is fresh has seen the announcement, and one that has not is not
  fresh. `ReconcilerTypes` and `OneCreate` follow.
* `ReconcilerImplementsLifecycle`: `ReconcilerSpec => LifecycleSpec`, by the mapping
  above. Most steps of a worker are stutters; what has to be shown is that those
  which are not find the API server's copy as `Lifecycle` asks. `LifeInv` adds to
  `ReconcilerInv` what a worker knows of a deletion (`KnowsDeletion`): one on its way
  to add the finalizer or announce a creation has a copy that nobody deleted, one
  that is about to remove the finalizer a deleted copy. Both write only fresh
  copies, so the API server agrees; `NothingAnnounced` excludes a pending creation,
  and `CreateAnnounced` gives one to the record of an outcome, which is written
  whatever the version is. One lemma for each group of actions of `ReconcilerNext`
  says which Lifecycle action or stutter they are.
* `<Kind>ImplementsReconciler`: one simulation lemma for Observe, one for the calls of
  Create, Update and Delete, one for the runtime's steps and one for the users'. What
  each needs of its controller is small: that `Encode` and the webhook give specs, and
  that annotation and status get values of their types. For Policy and Notification
  that already needs an invariant (a worker about to write a policy has one to write; no
  resource without a bucket gets past the webhook). `<Kind>OneCreate` and
  `<Kind>ImplementsLifecycle` follow without looking at the controller again.

### The controllers

What a controller promises about MinIO relates the annotation or status in the API
server, the copy a worker decided by, and MinIO's object. `ReconcilerProofs` has the part
that is the same for all kinds. `StepOf(w)` says what a step of worker `w` may change,
`Bystander` what it leaves to the others. `KnowsCopy(w)` says that a worker which looks
at MinIO or lets a resource go has the API server's annotation and spec as long as its copy
is fresh. `HeldIsThere` says that only a resource which is
there has a finalizer. Each controller adds what a worker has learnt at the stage it is
at:

* `BucketStatusNamesSpec`: a fresh copy has the API server's spec, and a status name in
  memory is the name of the copy's spec (`NamesInv`); the webhook's guard on the name
  does the rest.
* `BucketLockOnlyToMaker`, `BucketRemovedFirst`: `KnowsBucket`. From the Observe that saw
  no bucket to the record of the creation, the bucket is the resource's own or nobody's
  here; with one worker nobody else can make it for a resource meanwhile. A worker that
  lets go (`finalize`) has seen that the bucket of the spec's name is not there, so it is
  not one the resource made. For the buckets of other names `BucketRemovedFirst` needs
  `LeftInv`: a bucket that a resource made has the name in its spec, and the finalizer
  holds it, unless the name is in `left` (`Kept`); a Create that is under way will make a
  bucket of the spec's name or of one in `left` (`CreatesNamed`).
* `ServiceAccountNoRunaway`: counting. `FewAccounts` says that the accounts made for a
  resource are finitely many and at most the number of faults (if they can be more than
  refusals) plus one if `Kept`: the external-name has one, or a worker is about to record
  one. It is inductive with `KnowsAccount`: a fresh copy has the latest external-name,
  what was absent stays so while the copy is fresh, Create runs only for a resource whose
  account is gone. A step that makes an account either keeps it or uses up a fault.
  `ServiceAccountGoesFirst` follows from the same invariant, for any number of replicas.
* `ServiceAccountDeletesOwn`: `KeysInv`, over every copy there is, in the API server, the
  caches and memory. An account comes to life only with a key that was never used
  (`Onward`), and no copy made before names that. So a copy of a resource that names a live
  account is of the resource that made it (`Owns`), the API server's copy names it too and
  is being deleted if this one is (`Agrees`), and the finalizer holds it (`Held`): it can
  neither be given another name nor go, which is where `KnowsAccount` comes in.
* `ServiceAccountSecretOfHolder`: `Published` adds the connection secret to these copies. A
  key in it has been used, so its account does not come to life again, and while it lives
  the API server's copy names it; a key that is published late comes from a copy of which
  `KeysInv` says the same.
* `UserClaimsOwn`, `UserLeavesFirst`, `PolicyClaimsOwn`, `PolicyLeavesFirst`:
  `KnowsUser` and `KnowsPolicy`. Between the check and the end of Create an object that
  exists counts as the worker's own (AddUser and AddCannedPolicy override), and a worker
  that lets a claimed resource go knows that what there is now is somebody else's.
* `NotificationSingle`, `NotificationKeepsOthers`: with any number of replicas.
  `ConfigsInv` says that neither a bucket's configuration nor one that a worker has
  read has two entries of one webhook (`Single`), and that a worker about to add an entry
  has read a configuration without it (`Lacks`). It needs lemmas about `Select`, the
  positions a loop keeps: what it returns, that it keeps order and adds nothing. They
  rest on `LeastNatural` (a set of numbers has a least one) and the library's theorems on
  cardinality. `NotificationLeavesFirst` adds `KnowsEntry`: the worker that lets go has
  the latest spec and saw no entry of its own for it.
* `ClientPairBelongs`, `ClientNoDowngrade`: `ClientsKnown` follows a Connect from Get to
  Get. What has been read so far is a text of some object or none, `Building` says what
  the client that is being built already has of what its ProviderConfig asks for, and
  each finished client has a pair that belongs together and all of it.

### Only model-checked

* Liveness (`Converges`, `Heals`, `DeletionCompletes`, `PicksUp`): fairness and `ENABLED`
  are outside the prover.
* `DataSafety` of Bucket. It is false where other clients make buckets, or where a worker
  loads a resource once more that is already gone and whose bucket is there again. In
  `bucket_converges` neither can do harm; a theorem would have to exclude both.
* The properties that the code violates, and the absence of deadlock in `MinioClient`.

## Not modelled, and the plan

1. `IAM`: Policy and User composed over MinIO's canned policies and attachments
   (deletion order, the webhook's question to MinIO). Each module now has the other
   as an outside client.
2. Proofs: `DataSafety` for one resource and one replica, where its caches cannot bring a
   resource back whose bucket somebody made again; what two replicas can and cannot do to
   each other's objects, stated so that it is true of them.
3. The goroutines and channels of `deleteAllObjects`; a false "not found" from a
   proxy or for unknown credentials; `spec.deletionPolicy: Orphan`, which the docs
   describe and the CRDs do not have.
4. Usages of ProviderConfigs. The controller is crossplane-runtime's
   `providerconfig.Reconciler`; the repository only configures it and calls
   `usage.Track`, so there is little to translate.

Left out for good: tracing, version, sample generator and generated code (no
behaviour of their own), the unwired `internal/clients` and `internal/controller`,
the RBAC objects written at startup, and `ValidateFilterRules`, which nothing calls.
