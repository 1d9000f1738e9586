---------------------------- MODULE MinioClient ----------------------------
(***************************************************************************)
(* How a controller gets its MinIO clients (Connect of                     *)
(* operator/<kind>/connector.go, NewMinioAdmin, NewMinioClient and         *)
(* buildTLSConfig of operator/minioutil).  Every reconcile reads the       *)
(* ProviderConfig, the credentials and each part of the TLS material with  *)
(* a Get of its own, from informer caches that lag, while users rotate     *)
(* them.                                                                   *)
(***************************************************************************)
EXTENDS Naturals, Sequences

CONSTANTS
    Controllers,   \* the kinds of managed resources whose Connect is modelled
    Configs,       \* the specs that users give the ProviderConfig
    Secrets, Maps, \* names of Secrets and ConfigMaps
    Keys,          \* keys of their data
    Contents,      \* Contents[o]: the data they are given, functions from some of the keys to texts
    Certificates,  \* texts that AppendCertsFromPEM takes
    Pairs,         \* the <<certificate, key>> that X509KeyPair takes
    MaxOps         \* bound on what users change

(* Where a part of the TLS material comes from: TLSConfig's Data, SecretRef *)
(* and ConfigMapRef; a reference is <<name, key>>, or <<>> for nil.  Only   *)
(* the CA has a ConfigMapRef.                                               *)
Source == [inline : STRING, secret : {<<>>} \cup (Secrets \X Keys),
           map : {<<>>} \cup (Maps \X Keys)]
SecretSource == [inline : STRING, secret : {<<>>} \cup (Secrets \X Keys), map : {<<>>}]

(* spec of a ProviderConfig; tls is whether spec.tls is given.  The URL is  *)
(* known by what url.Parse makes of it.                                     *)
ProviderConfigSpec ==
    [url : {"http", "https", "nohost", "unparsable"}, creds : Secrets, tls : BOOLEAN,
     ca : Source, cert : SecretSource, key : SecretSource, insecure : BOOLEAN]

ASSUME ClientAssumption ==
    /\ Configs \subseteq ProviderConfigSpec
    /\ Controllers \subseteq {"bucket", "user", "serviceaccount", "policy", "notification"}
    /\ \A o \in Secrets \cup Maps : \A c \in Contents[o] : DOMAIN c \subseteq Keys
    /\ Secrets \cap Maps = {}
    /\ "config" \notin Secrets \cup Maps
    /\ \A p \in Pairs : p[1] # "" /\ p[2] # ""
    /\ MaxOps \in Nat

Missing == [exists |-> FALSE]
Is(x) == [exists |-> TRUE, is |-> x]

(* The kinds of object that have an informer of their own.                  *)
Config == "config"
Objects == Secrets \cup Maps \cup {Config}
Informer(o) == CASE o = Config -> {Config} [] o \in Secrets -> Secrets [] o \in Maps -> Maps

VARIABLES
    store,    \* store[o]: the object in the API server
    cache,    \* cache[o]: its copy in the informer's cache
    kind,     \* the kind of the managed resource that is reconciled
    conn,     \* its Connect that is under way
    clients,  \* the clients of its latest reconcile
    ops       \* what users have changed so far

vars == <<store, cache, kind, conn, clients, ops>>

(* The clients that Connect builds, in this order.                          *)
Wanted == CASE kind = "bucket" -> <<"s3">>
            [] kind = "notification" -> <<"admin", "s3">>
            [] OTHER -> <<"admin">>

(* A client: its credentials, whether it uses TLS, and the parts of its TLS *)
(* configuration ("" for Go's default).                                     *)
NewClient(name) == [name |-> name, creds |-> <<>>, secure |-> FALSE, ca |-> "", cert |-> "",
                    key |-> "", insecure |-> FALSE]

(* stage is the next Get; made are the clients that are finished.           *)
Idle == [stage |-> "idle", spec |-> Missing, made |-> <<>>, client |-> NewClient("")]

(* What users may give an object.                                           *)
States(o) == {Missing} \cup {Is(x) : x \in IF o = Config THEN Configs ELSE Contents[o]}

Init ==
    /\ store \in [Objects -> UNION {States(o) : o \in Objects}]
    /\ \A o \in Objects : store[o] \in States(o)
    /\ cache = store
    /\ kind \in Controllers
    /\ conn = Idle
    /\ clients = <<>>
    /\ ops = 0

-----------------------------------------------------------------------------
(* What the code reads.                                                     *)

(* url.Parse, then minio.New or madmin.NewWithOptions with the host.        *)
Reachable(url) == url \notin {"nohost", "unparsable"}

IsTLSEnabled(url) == url # "http"

(* A key that the Secret of the credentials does not have reads as "".      *)
Value(objs, o, key) == IF key \in DOMAIN objs[o].is THEN objs[o].is[key] ELSE ""
Credentials(objs, o) == <<Value(objs, o, "id"), Value(objs, o, "secret")>>

(* Mutant of Resolve: a key that is not there reads as "".                  *)
ResolveLeniently(objs, ref) ==
    IF objs[ref[1]].exists THEN [ok |-> TRUE, text |-> Value(objs, ref[1], ref[2])]
                           ELSE [ok |-> FALSE, text |-> ""]

Resolve(objs, ref) ==
    IF objs[ref[1]].exists /\ ref[2] \in DOMAIN objs[ref[1]].is
      THEN [ok |-> TRUE, text |-> objs[ref[1]].is[ref[2]]]
      ELSE [ok |-> FALSE, text |-> ""]

(* Inline text goes before the Secret, the Secret before the ConfigMap.     *)
GetTLSData(objs, src) ==
    IF src.inline # "" THEN [ok |-> TRUE, text |-> src.inline]
    ELSE IF src.secret # <<>> THEN Resolve(objs, src.secret)
    ELSE IF src.map # <<>> THEN Resolve(objs, src.map)
    ELSE [ok |-> TRUE, text |-> ""]

-----------------------------------------------------------------------------
(* Connect.                                                                 *)

(* Connect returns an error: no client, and the reconcile is queued again.  *)
Fail ==
    /\ conn' = Idle
    /\ clients' = <<>>

Goto(stage, client) ==
    /\ conn' = [conn EXCEPT !.stage = stage, !.client = client]
    /\ UNCHANGED clients

(* getProviderConfig.                                                       *)
GetConfig ==
    /\ conn.stage = "idle"
    /\ IF cache[Config].exists
         THEN /\ conn' = [Idle EXCEPT !.stage = "creds", !.spec = cache[Config],
                                      !.client = NewClient(Wanted[1])]
              /\ UNCHANGED clients
         ELSE Fail
    /\ UNCHANGED <<store, cache, kind, ops>>

(* The client is finished: the next one, or Connect returns.                *)
Finish(client) ==
    LET made == Append(conn.made, client)
    IN  IF Len(made) < Len(Wanted)
          THEN /\ conn' = [conn EXCEPT !.made = made, !.stage = "creds",
                                       !.client = NewClient(Wanted[Len(made) + 1])]
               /\ UNCHANGED clients
          ELSE /\ conn' = Idle
               /\ clients' = made

(* Mutant of GetCredentials: those of the latest reconcile are kept.        *)
GetCredentialsOnce ==
    LET s == conn.spec.is
        client == [conn.client EXCEPT !.creds = IF clients # <<>> THEN clients[1].creds
                                                ELSE Credentials(cache, s.creds),
                                      !.secure = IsTLSEnabled(s.url)]
    IN  /\ conn.stage = "creds"
        /\ IF ~cache[s.creds].exists \/ ~Reachable(s.url) THEN Fail
           ELSE IF s.tls THEN Goto("ca", client)
           ELSE Finish(client)
        /\ UNCHANGED <<store, cache, kind, ops>>

(* NewMinioAdmin and NewMinioClient, up to the TLS configuration.           *)
GetCredentials ==
    LET s == conn.spec.is
        client == [conn.client EXCEPT !.creds = Credentials(cache, s.creds),
                                      !.secure = IsTLSEnabled(s.url)]
    IN  /\ conn.stage = "creds"
        /\ IF ~cache[s.creds].exists \/ ~Reachable(s.url) THEN Fail
           ELSE IF s.tls THEN Goto("ca", client)
           ELSE Finish(client)
        /\ UNCHANGED <<store, cache, kind, ops>>

(* buildTLSConfig: the CA, the client's certificate and its key.            *)
GetCA ==
    LET ca == GetTLSData(cache, conn.spec.is.ca)
    IN  /\ conn.stage = "ca"
        /\ IF ~ca.ok \/ (ca.text \notin Certificates \cup {""}) THEN Fail
           ELSE Goto("cert", [conn.client EXCEPT !.ca = ca.text])
        /\ UNCHANGED <<store, cache, kind, ops>>

GetCert ==
    LET cert == GetTLSData(cache, conn.spec.is.cert)
    IN  /\ conn.stage = "cert"
        /\ IF cert.ok THEN Goto("key", [conn.client EXCEPT !.cert = cert.text])
                      ELSE Fail
        /\ UNCHANGED <<store, cache, kind, ops>>

(* Mutant of ValidPair: certificate and key are taken as they are.          *)
AnyPair(cert, key) == (cert = "") <=> (key = "")

(* Both or neither, and they belong together.                               *)
ValidPair(cert, key) == (cert = "" /\ key = "") \/ <<cert, key>> \in Pairs

GetKey ==
    LET key == GetTLSData(cache, conn.spec.is.key)
    IN  /\ conn.stage = "key"
        /\ IF key.ok /\ ValidPair(conn.client.cert, key.text)
             THEN Finish([conn.client EXCEPT !.key = key.text,
                                                !.insecure = conn.spec.is.insecure])
             ELSE Fail
        /\ UNCHANGED <<store, cache, kind, ops>>

(* Observe of a User makes a client of its own, from the URL and the user's *)
(* password: it has Go's default TLS configuration.                         *)
Probe ==
    /\ kind = "user" /\ conn.stage = "idle" /\ Len(clients) = 1
    /\ clients' = Append(clients, [NewClient("probe") EXCEPT !.secure = clients[1].secure])
    /\ UNCHANGED <<store, cache, kind, conn, ops>>

Step == GetConfig \/ GetCredentials \/ GetCA \/ GetCert \/ GetKey

-----------------------------------------------------------------------------
(* Users and caches.                                                        *)

(* An object is created, changed, rotated or deleted; the usage that        *)
(* Connect tracks keeps the ProviderConfig.                                 *)
Write(o, x) ==
    /\ ops < MaxOps /\ ops' = ops + 1
    /\ store[o] # x
    /\ ~(o = Config /\ x = Missing)
    /\ store' = [store EXCEPT ![o] = x]
    /\ UNCHANGED <<cache, kind, conn, clients>>

(* An informer delivers the changes of its kind in their order.             *)
SyncCache(o) ==
    /\ cache[o] # store[o]
    /\ cache' = [q \in Objects |-> IF q \in Informer(o) THEN store[q] ELSE cache[q]]
    /\ UNCHANGED <<store, kind, conn, clients, ops>>

Next ==
    \/ Step \/ Probe
    \/ \E o \in Objects :
         \/ SyncCache(o)
         \/ \E x \in States(o) : Write(o, x)

(* Every resource is reconciled again and again, and the watches deliver.   *)
Fairness ==
    /\ WF_vars(Step)
    /\ \A o \in Objects : WF_vars(SyncCache(o))

Spec == Init /\ [][Next]_vars
FairSpec == Spec /\ Fairness

-----------------------------------------------------------------------------
(* Properties.                                                              *)

Given(src) == src.inline # "" \/ src.secret # <<>> \/ src.map # <<>>

(* However secrets, config maps and the ProviderConfig change between the   *)
(* Gets, Connect never returns a client that is weaker than the             *)
(* ProviderConfig it read asks for: without TLS, without the CA or without  *)
(* the client certificate.  It returns an error instead (client.go          *)
(* buildTLSConfig, getTLSData, IsTLSEnabled).                               *)
NoDowngrade ==
    [][conn.stage # "idle" /\ conn'.stage = "idle" =>
        LET s == conn.spec.is
        IN  \A i \in DOMAIN clients' :
              LET c == clients'[i]
              IN  /\ s.url = "https" => c.secure
                  /\ s.tls /\ Given(s.ca) => c.ca # ""
                  /\ s.tls /\ Given(s.cert) => c.cert # "" /\ c.key # ""
                  /\ c.insecure => s.insecure]_vars

(* A client has a certificate only with the key that belongs to it,         *)
(* although a Secret may be rotated between the Get for the certificate and *)
(* the Get for the key (client.go buildTLSConfig).                          *)
PairBelongs ==
    \A i \in DOMAIN clients :
        LET c == clients[i] IN c.cert # "" \/ c.key # "" => <<c.cert, c.key>> \in Pairs

(* "Rotate Secrets in place; provider picks up changes on next reconcile"   *)
(* (docs/TLS_CONFIGURATION.md): once the ProviderConfig and what it refers  *)
(* to are valid and stay as they are, every reconcile has clients with      *)
(* exactly these credentials and certificates.                              *)
Text(src) == GetTLSData(store, src).text
Available(src) == GetTLSData(store, src).ok

Usable ==
    /\ store[Config].exists
    /\ LET s == store[Config].is
       IN  /\ Reachable(s.url) /\ store[s.creds].exists
           /\ s.tls => /\ Available(s.ca) /\ Available(s.cert) /\ Available(s.key)
                       /\ Text(s.ca) \in Certificates \cup {""}
                       /\ ValidPair(Text(s.cert), Text(s.key))

Current(c) ==
    LET s == store[Config].is
    IN  /\ c.creds = Credentials(store, s.creds)
        /\ c.secure = IsTLSEnabled(s.url) /\ c.insecure = (s.tls /\ s.insecure)
        /\ IF s.tls THEN c.ca = Text(s.ca) /\ c.cert = Text(s.cert) /\ c.key = Text(s.key)
                    ELSE c.ca = "" /\ c.cert = "" /\ c.key = ""

UpToDate ==
    /\ Len(clients) >= Len(Wanted)
    /\ \A i \in DOMAIN Wanted : clients[i].name = Wanted[i] /\ Current(clients[i])

PicksUp == <>[]Usable => <>[](Usable /\ UpToDate)

(* A ProviderConfig's CA is for the connections to MinIO                    *)
(* (docs/TLS_CONFIGURATION.md): if one client of a reconcile has it, all    *)
(* have.                                                                    *)
OneTrust ==
    \A i, j \in DOMAIN clients : clients[i].ca # "" => clients[j].ca # ""

=============================================================================
