---------------------------- MODULE ClientProofs ----------------------------
(***************************************************************************)
(* What holds of every client that a Connect returns (MinioClient),        *)
(* whatever Secrets, ConfigMaps and the ProviderConfig become between its  *)
(* Gets: a certificate comes with its own key, and no part of the TLS      *)
(* material that the ProviderConfig asks for is missing.                   *)
(***************************************************************************)
EXTENDS MinioClient, TLAPS

-----------------------------------------------------------------------------
(* What the variables hold.  A text is "" or what some object or some       *)
(* ProviderConfig gives.                                                    *)

Sources == UNION {{s.ca, s.cert, s.key} : s \in Configs}
Data == UNION {Contents[o] : o \in Secrets \cup Maps}
Texts == {""} \cup {src.inline : src \in Sources}
              \cup UNION {{d[k] : k \in DOMAIN d} : d \in Data}

Client == [name : {"s3", "admin", "probe", ""}, creds : {<<>>} \cup (Texts \X Texts),
           secure : BOOLEAN, ca : Texts, cert : Texts, key : Texts, insecure : BOOLEAN]

Connections == [stage : {"idle", "creds", "ca", "cert", "key"},
                spec : {Missing} \cup {Is(s) : s \in Configs},
                made : Seq(Client), client : Client]

ObjectsOK(objs) == \A o \in Objects : objs[o] \in States(o)

ClientTypes ==
    /\ DOMAIN store = Objects /\ ObjectsOK(store)
    /\ ObjectsOK(cache)
    /\ conn \in Connections
    /\ clients \in Seq(Client)
    /\ conn.stage # "idle" => conn.spec \in {Is(s) : s \in Configs}

(* The parts of a ProviderConfig.                                           *)
LEMMA ConfigParts ==
  ASSUME NEW s \in Configs
  PROVE  /\ s.creds \in Secrets /\ s.tls \in BOOLEAN /\ s.insecure \in BOOLEAN
         /\ s.ca \in Sources /\ s.cert \in Sources /\ s.key \in Sources
         /\ s.cert.map = <<>> /\ s.key.map = <<>>
         /\ \A src \in {s.ca, s.cert, s.key} :
              /\ src.secret \in {<<>>} \cup (Secrets \X Keys)
              /\ src.map \in {<<>>} \cup (Maps \X Keys)
  <1>1. s \in ProviderConfigSpec
    BY ClientAssumption
  <1>2. s.creds \in Secrets /\ s.tls \in BOOLEAN /\ s.insecure \in BOOLEAN
        /\ s.ca \in Source /\ s.cert \in SecretSource /\ s.key \in SecretSource
    BY <1>1 DEF ProviderConfigSpec
  <1>3. s.ca \in Sources /\ s.cert \in Sources /\ s.key \in Sources
    BY DEF Sources
  <1>4. QED
    BY <1>2, <1>3 DEF Source, SecretSource

(* The text of an object that is there.                                     *)
LEMMA TextOfObject ==
  ASSUME NEW objs, ObjectsOK(objs), NEW o \in Secrets \cup Maps, NEW k \in Keys,
         objs[o].exists, k \in DOMAIN objs[o].is
  PROVE  objs[o].is \in Data /\ objs[o].is[k] \in Texts
  <1>1. o \in Objects /\ o # Config
    BY ClientAssumption DEF Objects, Config
  <1>2. objs[o] \in {Missing} \cup {Is(x) : x \in Contents[o]}
    BY <1>1 DEF ObjectsOK, States
  <1>3. objs[o] # Missing
    BY DEF Missing
  <1>4. objs[o].is \in Contents[o]
    BY <1>2, <1>3 DEF Is
  <1>5. objs[o].is \in Data
    BY <1>4 DEF Data
  <1>6. objs[o].is[k] \in {objs[o].is[j] : j \in DOMAIN objs[o].is}
    OBVIOUS
  <1>7. QED
    BY <1>5, <1>6 DEF Texts

(* No object is given an empty text.                                        *)
NoEmptyText == \A d \in Data : \A k \in DOMAIN d : d[k] # ""

LEMMA ResolvedText ==
  ASSUME NEW objs, ObjectsOK(objs), NEW ref \in (Secrets \X Keys) \cup (Maps \X Keys)
  PROVE  /\ Resolve(objs, ref).ok \in BOOLEAN
         /\ Resolve(objs, ref).text \in Texts
         /\ NoEmptyText /\ Resolve(objs, ref).ok => Resolve(objs, ref).text # ""
  <1>1. ref[1] \in Secrets \cup Maps /\ ref[2] \in Keys
    OBVIOUS
  <1>2. CASE objs[ref[1]].exists /\ ref[2] \in DOMAIN objs[ref[1]].is
    <2>1. objs[ref[1]].is \in Data /\ objs[ref[1]].is[ref[2]] \in Texts
      BY <1>1, <1>2, TextOfObject
    <2>2. QED
      BY <1>2, <2>1 DEF Resolve, NoEmptyText
  <1>3. CASE ~(objs[ref[1]].exists /\ ref[2] \in DOMAIN objs[ref[1]].is)
    BY <1>3 DEF Resolve, Texts
  <1>4. QED
    BY <1>2, <1>3

(* What getTLSData returns; a source that is given has a text, if there are *)
(* no empty ones.                                                           *)
LEMMA SourceText ==
  ASSUME NEW objs, ObjectsOK(objs), NEW s \in Configs, NEW src \in {s.ca, s.cert, s.key}
  PROVE  /\ GetTLSData(objs, src).ok \in BOOLEAN
         /\ GetTLSData(objs, src).text \in Texts
         /\ NoEmptyText /\ Given(src) /\ GetTLSData(objs, src).ok =>
              GetTLSData(objs, src).text # ""
  <1>1. /\ src \in Sources
        /\ src.secret \in {<<>>} \cup (Secrets \X Keys)
        /\ src.map \in {<<>>} \cup (Maps \X Keys)
    BY ConfigParts
  <1>2. CASE src.inline # ""
    BY <1>1, <1>2 DEF GetTLSData, Texts
  <1>3. CASE src.inline = "" /\ src.secret # <<>>
    <2>1. GetTLSData(objs, src) = Resolve(objs, src.secret)
      BY <1>3 DEF GetTLSData
    <2>2. src.secret \in (Secrets \X Keys) \cup (Maps \X Keys)
      BY <1>1, <1>3
    <2>3. QED
      BY <2>1, <2>2, ResolvedText
  <1>4. CASE src.inline = "" /\ src.secret = <<>> /\ src.map # <<>>
    <2>1. GetTLSData(objs, src) = Resolve(objs, src.map)
      BY <1>4 DEF GetTLSData
    <2>2. src.map \in (Secrets \X Keys) \cup (Maps \X Keys)
      BY <1>1, <1>4
    <2>3. QED
      BY <2>1, <2>2, ResolvedText
  <1>5. CASE src.inline = "" /\ src.secret = <<>> /\ src.map = <<>>
    BY <1>5 DEF GetTLSData, Texts, Given
  <1>6. QED
    BY <1>2, <1>3, <1>4, <1>5

LEMMA CredentialTexts ==
  ASSUME NEW objs, ObjectsOK(objs), NEW o \in Secrets, objs[o].exists
  PROVE  Credentials(objs, o) \in Texts \X Texts
  <1>1. ASSUME NEW k, k \in DOMAIN objs[o].is PROVE objs[o].is[k] \in Texts
    <2>1. o \in Objects /\ o # Config
      BY ClientAssumption DEF Objects, Config
    <2>2. objs[o] \in {Missing} \cup {Is(x) : x \in Contents[o]}
      BY <2>1 DEF ObjectsOK, States
    <2>3. objs[o].is \in Contents[o]
      BY <2>2 DEF Is, Missing
    <2>4. k \in Keys
      BY <1>1, <2>3, ClientAssumption
    <2>5. QED
      BY <1>1, <2>4, TextOfObject
  <1>2. \A k : Value(objs, o, k) \in Texts
    BY <1>1 DEF Value, Texts
  <1>3. QED
    BY <1>2 DEF Credentials

-----------------------------------------------------------------------------
(* The types are kept.                                                      *)

LEMMA NewClientType ==
  ASSUME NEW name \in {"s3", "admin", "probe", ""}
  PROVE  NewClient(name) \in Client
  <1>1. "" \in Texts
    BY DEF Texts
  <1>2. QED
    BY <1>1 DEF NewClient, Client

LEMMA IdleType == Idle \in Connections /\ Idle.stage = "idle"
  <1>1. <<>> \in Seq(Client)
    OBVIOUS
  <1>2. NewClient("") \in Client
    BY NewClientType
  <1>3. QED
    BY <1>1, <1>2 DEF Idle, Connections

LEMMA FailTypes ==
  ASSUME Fail
  PROVE  conn' \in Connections /\ clients' \in Seq(Client) /\ conn'.stage = "idle"
  <1>1. <<>> \in Seq(Client)
    OBVIOUS
  <1>2. QED
    BY <1>1, IdleType DEF Fail

LEMMA FinishTypes ==
  ASSUME conn \in Connections, clients \in Seq(Client),
         conn.spec \in {Is(s) : s \in Configs}, NEW c \in Client, Finish(c)
  PROVE  /\ conn' \in Connections /\ clients' \in Seq(Client)
         /\ conn'.stage # "idle" => conn'.spec \in {Is(s) : s \in Configs}
  <1> DEFINE made == Append(conn.made, c)
  <1>1. conn.made \in Seq(Client) /\ made \in Seq(Client) /\ Len(made) \in Nat
    BY DEF Connections
  <1>2. CASE Len(made) < Len(Wanted)
    <2>1. Wanted[Len(made) + 1] \in {"s3", "admin"}
      BY <1>1, <1>2 DEF Wanted
    <2>2. NewClient(Wanted[Len(made) + 1]) \in Client
      BY <2>1, NewClientType
    <2>3. /\ conn' = [conn EXCEPT !.made = made, !.stage = "creds",
                                  !.client = NewClient(Wanted[Len(made) + 1])]
          /\ clients' = clients
      BY <1>2 DEF Finish
    <2> HIDE DEF made
    <2>4. QED
      BY <1>1, <2>2, <2>3 DEF Connections
  <1>3. CASE ~(Len(made) < Len(Wanted))
    <2>1. conn' = Idle /\ clients' = made
      BY <1>3 DEF Finish
    <2>2. QED
      BY <1>1, <2>1, IdleType
  <1>4. QED
    BY <1>2, <1>3

LEMMA GotoTypes ==
  ASSUME conn \in Connections, conn.spec \in {Is(s) : s \in Configs},
         NEW c \in Client, NEW stage \in {"ca", "cert", "key"}, Goto(stage, c)
  PROVE  /\ conn' \in Connections /\ clients' = clients
         /\ conn'.spec \in {Is(s) : s \in Configs}
  BY DEF Goto, Connections

(* What each Get makes of the client that is being built.                   *)
LEMMA GetConfigCases ==
  ASSUME ClientTypes, GetConfig, ~Fail
  PROVE  /\ clients' = clients
         /\ \E s \in Configs : conn' = [Idle EXCEPT !.stage = "creds", !.spec = Is(s),
                                                  !.client = NewClient(Wanted[1])]
  <1>1. cache[Config] \in {Missing} \cup {Is(s) : s \in Configs} /\ cache[Config].exists
    BY DEF GetConfig, ClientTypes, ObjectsOK, Objects, States
  <1>2. \E s \in Configs : cache[Config] = Is(s)
    BY <1>1 DEF Missing
  <1>3. QED
    BY <1>2 DEF GetConfig

Reading == {"creds", "ca", "cert", "key"}

LEMMA ReadingFacts ==
  ASSUME ClientTypes, conn.stage \in Reading
  PROVE  /\ conn.spec \in {Is(s) : s \in Configs} /\ conn.spec.is \in Configs
         /\ conn.client \in Client /\ conn.made \in Seq(Client)
         /\ conn \in Connections /\ clients \in Seq(Client)
  BY DEF ClientTypes, Reading, Connections, Is

LEMMA GetCredentialsCases ==
  ASSUME ClientTypes, GetCredentials
  PROVE  \/ Fail
         \/ \E c \in Client :
              /\ c.secure = IsTLSEnabled(conn.spec.is.url)
              /\ c.ca = conn.client.ca /\ c.cert = conn.client.cert /\ c.key = conn.client.key
              /\ c.insecure = conn.client.insecure
              /\ IF conn.spec.is.tls THEN Goto("ca", c) ELSE Finish(c)
  <1> DEFINE s == conn.spec.is
             c == [conn.client EXCEPT !.creds = Credentials(cache, s.creds),
                                      !.secure = IsTLSEnabled(s.url)]
  <1> SUFFICES ASSUME ~Fail PROVE \E d \in Client :
              /\ d.secure = IsTLSEnabled(conn.spec.is.url)
              /\ d.ca = conn.client.ca /\ d.cert = conn.client.cert /\ d.key = conn.client.key
              /\ d.insecure = conn.client.insecure
              /\ IF conn.spec.is.tls THEN Goto("ca", d) ELSE Finish(d)
    OBVIOUS
  <1>1. s \in Configs /\ s.creds \in Secrets /\ conn.client \in Client
    BY ReadingFacts, ConfigParts DEF GetCredentials, Reading
  <1>2. cache[s.creds].exists /\ IF s.tls THEN Goto("ca", c) ELSE Finish(c)
    BY DEF GetCredentials
  <1>3. Credentials(cache, s.creds) \in Texts \X Texts
    BY <1>1, <1>2, CredentialTexts DEF ClientTypes
  <1>4. IsTLSEnabled(s.url) \in BOOLEAN
    BY DEF IsTLSEnabled
  <1>5. /\ c \in Client /\ c.secure = IsTLSEnabled(s.url)
        /\ c.ca = conn.client.ca /\ c.cert = conn.client.cert /\ c.key = conn.client.key
        /\ c.insecure = conn.client.insecure
    BY <1>1, <1>3, <1>4 DEF Client
  <1> HIDE DEF c
  <1>6. QED
    BY <1>2, <1>5

LEMMA GetCACases ==
  ASSUME ClientTypes, GetCA
  PROVE  \/ Fail
         \/ \E c \in Client :
              /\ Goto("cert", c)
              /\ NoEmptyText /\ Given(conn.spec.is.ca) => c.ca # ""
              /\ c.secure = conn.client.secure /\ c.cert = conn.client.cert /\ c.key = conn.client.key
              /\ c.insecure = conn.client.insecure
  <1> DEFINE ca == GetTLSData(cache, conn.spec.is.ca)
             c == [conn.client EXCEPT !.ca = ca.text]
  <1>1. conn.spec.is \in Configs /\ conn.client \in Client
    BY ReadingFacts DEF GetCA, Reading
  <1>2. ca.text \in Texts /\ (NoEmptyText /\ Given(conn.spec.is.ca) /\ ca.ok => ca.text # "")
    BY <1>1, SourceText DEF ClientTypes
  <1>3. Fail \/ (ca.ok /\ Goto("cert", c))
    BY DEF GetCA
  <1> HIDE DEF ca
  <1>4. /\ c \in Client /\ c.ca = ca.text
        /\ c.secure = conn.client.secure /\ c.cert = conn.client.cert /\ c.key = conn.client.key
        /\ c.insecure = conn.client.insecure
    BY <1>1, <1>2 DEF Client
  <1> HIDE DEF c
  <1>5. QED
    BY <1>2, <1>3, <1>4

LEMMA GetCertCases ==
  ASSUME ClientTypes, GetCert
  PROVE  \/ Fail
         \/ \E c \in Client :
              /\ Goto("key", c)
              /\ NoEmptyText /\ Given(conn.spec.is.cert) => c.cert # ""
              /\ c.secure = conn.client.secure /\ c.ca = conn.client.ca /\ c.key = conn.client.key
              /\ c.insecure = conn.client.insecure
  <1> DEFINE cert == GetTLSData(cache, conn.spec.is.cert)
             c == [conn.client EXCEPT !.cert = cert.text]
  <1>1. conn.spec.is \in Configs /\ conn.client \in Client
    BY ReadingFacts DEF GetCert, Reading
  <1>2. cert.text \in Texts /\ (NoEmptyText /\ Given(conn.spec.is.cert) /\ cert.ok => cert.text # "")
    BY <1>1, SourceText DEF ClientTypes
  <1>3. Fail \/ (cert.ok /\ Goto("key", c))
    BY DEF GetCert
  <1> HIDE DEF cert
  <1>4. /\ c \in Client /\ c.cert = cert.text
        /\ c.secure = conn.client.secure /\ c.ca = conn.client.ca /\ c.key = conn.client.key
        /\ c.insecure = conn.client.insecure
    BY <1>1, <1>2 DEF Client
  <1> HIDE DEF c
  <1>5. QED
    BY <1>2, <1>3, <1>4

LEMMA GetKeyCases ==
  ASSUME ClientTypes, GetKey
  PROVE  \/ Fail
         \/ \E c \in Client :
              /\ Finish(c)
              /\ ValidPair(c.cert, c.key)
              /\ c.secure = conn.client.secure /\ c.ca = conn.client.ca /\ c.cert = conn.client.cert
              /\ c.insecure = conn.spec.is.insecure
  <1> DEFINE key == GetTLSData(cache, conn.spec.is.key)
             c == [conn.client EXCEPT !.key = key.text, !.insecure = conn.spec.is.insecure]
  <1>1. conn.spec.is \in Configs /\ conn.client \in Client /\ conn.spec.is.insecure \in BOOLEAN
    BY ReadingFacts, ConfigParts DEF GetKey, Reading
  <1>2. key.text \in Texts
    BY <1>1, SourceText DEF ClientTypes
  <1>3. Fail \/ (ValidPair(conn.client.cert, key.text) /\ Finish(c))
    BY DEF GetKey
  <1> HIDE DEF key
  <1>4. /\ c \in Client /\ c.key = key.text
        /\ c.secure = conn.client.secure /\ c.ca = conn.client.ca /\ c.cert = conn.client.cert
        /\ c.insecure = conn.spec.is.insecure
    BY <1>1, <1>2 DEF Client
  <1> HIDE DEF c
  <1>5. QED
    BY <1>3, <1>4

-----------------------------------------------------------------------------
(* The types are kept.                                                      *)

LEMMA StepTypes ==
  ASSUME ClientTypes, Step
  PROVE  /\ conn' \in Connections /\ clients' \in Seq(Client)
         /\ conn'.stage # "idle" => conn'.spec \in {Is(s) : s \in Configs}
         /\ store' = store /\ cache' = cache
  <1>1. store' = store /\ cache' = cache
    BY DEF Step, GetConfig, GetCredentials, GetCA, GetCert, GetKey
  <1>2. CASE Fail
    BY <1>1, <1>2, FailTypes
  <1>3. CASE GetConfig /\ ~Fail
    <2>1. PICK s \in Configs : conn' = [Idle EXCEPT !.stage = "creds", !.spec = Is(s),
                                                    !.client = NewClient(Wanted[1])]
      BY <1>3, GetConfigCases
    <2>2. Wanted[1] \in {"s3", "admin"}
      BY DEF Wanted
    <2>3. NewClient(Wanted[1]) \in Client
      BY <2>2, NewClientType
    <2>4. conn' \in Connections /\ conn'.spec = Is(s)
      BY <2>1, <2>3, IdleType DEF Connections
    <2>5. QED
      BY <1>1, <1>3, <2>4, GetConfigCases DEF ClientTypes
  <1>4. CASE GetCredentials \/ GetCA \/ GetCert \/ GetKey
    <2>1. conn.stage \in Reading
      BY <1>4 DEF GetCredentials, GetCA, GetCert, GetKey, Reading
    <2>2. \/ Fail
          \/ \E c \in Client : Finish(c) \/ \E stage \in {"ca", "cert", "key"} : Goto(stage, c)
      <3>1. CASE GetCredentials
        <4>1. Fail \/ \E c \in Client : IF conn.spec.is.tls THEN Goto("ca", c) ELSE Finish(c)
          BY <3>1, GetCredentialsCases
        <4>2. QED
          BY <4>1
      <3>2. QED
        BY <1>4, <3>1, GetCACases, GetCertCases, GetKeyCases
    <2>3. QED
      BY <1>1, <1>2, <2>1, <2>2, ReadingFacts, FinishTypes, GotoTypes
  <1>5. QED
    BY <1>2, <1>3, <1>4 DEF Step

LEMMA ClientTypesStep == ClientTypes /\ [Next]_vars => ClientTypes'
  <1> SUFFICES ASSUME ClientTypes, [Next]_vars PROVE ClientTypes'
    OBVIOUS
  <1>1. CASE Step
    BY <1>1, StepTypes DEF ClientTypes, ObjectsOK, States, Objects
  <1>2. CASE Probe
    <2>1. clients \in Seq(Client) /\ Len(clients) = 1 /\ clients[1] \in Client
      BY <1>2 DEF Probe, ClientTypes
    <2>2. [NewClient("probe") EXCEPT !.secure = clients[1].secure] \in Client
      BY <2>1, NewClientType DEF Client
    <2>3. clients' \in Seq(Client)
      BY <1>2, <2>1, <2>2 DEF Probe
    <2>4. QED
      BY <1>2, <2>3 DEF Probe, ClientTypes, ObjectsOK, States
  <1>3. ASSUME NEW o \in Objects, SyncCache(o) PROVE ClientTypes'
    <2>1. ObjectsOK(cache)'
      BY <1>3 DEF SyncCache, ClientTypes, ObjectsOK, States
    <2>2. QED
      BY <1>3, <2>1 DEF SyncCache, ClientTypes, ObjectsOK, States
  <1>4. ASSUME NEW o \in Objects, NEW x \in States(o), Write(o, x) PROVE ClientTypes'
    <2>1. DOMAIN store' = Objects /\ ObjectsOK(store)'
      BY <1>4 DEF Write, ClientTypes, ObjectsOK, States
    <2>2. QED
      BY <1>4, <2>1 DEF Write, ClientTypes, ObjectsOK, States
  <1>5. CASE UNCHANGED vars
    BY <1>5 DEF vars, ClientTypes, ObjectsOK, States
  <1>6. QED
    BY <1>1, <1>2, <1>3, <1>4, <1>5 DEF Next

LEMMA ClientTypesInv == Spec => []ClientTypes
  <1>1. Init => ClientTypes
    <2> SUFFICES ASSUME Init PROVE ClientTypes
      OBVIOUS
    <2>1. DOMAIN store = Objects /\ ObjectsOK(store) /\ ObjectsOK(cache)
      BY DEF Init, ObjectsOK
    <2>2. conn \in Connections /\ conn.stage = "idle"
      BY IdleType DEF Init
    <2>3. clients \in Seq(Client)
      BY DEF Init
    <2>4. QED
      BY <2>1, <2>2, <2>3 DEF ClientTypes
  <1>2. QED
    BY <1>1, ClientTypesStep, PTL DEF Spec

-----------------------------------------------------------------------------
(* What is known of finished clients, and of the one that is being built.   *)

Belongs(c) == c.cert # "" \/ c.key # "" => <<c.cert, c.key>> \in Pairs

Meets(c, s) ==
    /\ s.url = "https" => c.secure
    /\ NoEmptyText /\ s.tls /\ Given(s.ca) => c.ca # ""
    /\ NoEmptyText /\ s.tls /\ Given(s.cert) => c.cert # "" /\ c.key # ""
    /\ c.insecure => s.insecure

Building ==
    LET s == conn.spec.is
        c == conn.client
    IN  /\ conn.stage \in Reading => c.key = "" /\ ~c.insecure
        /\ conn.stage \in {"creds", "ca", "cert"} => c.cert = ""
        /\ conn.stage \in {"ca", "cert", "key"} => s.tls /\ c.secure = IsTLSEnabled(s.url)
        /\ conn.stage \in {"cert", "key"} /\ NoEmptyText /\ Given(s.ca) => c.ca # ""
        /\ conn.stage = "key" /\ NoEmptyText /\ Given(s.cert) => c.cert # ""

ClientsKnown ==
    /\ Building
    /\ \A i \in DOMAIN clients : Belongs(clients[i])
    /\ conn.stage \in Reading =>
         \A i \in DOMAIN conn.made : Belongs(conn.made[i]) /\ Meets(conn.made[i], conn.spec.is)

(* A client is finished only when it is as good as its ProviderConfig says. *)
LEMMA FinishedClient ==
  ASSUME ClientTypes, ClientsKnown, NEW c \in Client, Finish(c), conn.stage \in Reading,
         Belongs(c), Meets(c, conn.spec.is)
  PROVE  /\ ClientsKnown'
         /\ \A i \in DOMAIN clients' : conn'.stage = "idle" =>
              Belongs(clients'[i]) /\ Meets(clients'[i], conn.spec.is)
  <1> DEFINE made == Append(conn.made, c)
  <1>1. /\ conn \in Connections /\ conn.made \in Seq(Client) /\ conn.client \in Client
        /\ clients \in Seq(Client)
    BY ReadingFacts
  <1>2. \A i \in DOMAIN made : Belongs(made[i]) /\ Meets(made[i], conn.spec.is)
    <2> SUFFICES ASSUME NEW i \in DOMAIN made PROVE Belongs(made[i]) /\ Meets(made[i], conn.spec.is)
      OBVIOUS
    <2>1. (i \in DOMAIN conn.made /\ made[i] = conn.made[i]) \/ made[i] = c
      BY <1>1
    <2>2. QED
      BY <2>1 DEF ClientsKnown
  <1>3. CASE Len(made) < Len(Wanted)
    <2>1. /\ conn' = [conn EXCEPT !.made = made, !.stage = "creds",
                                  !.client = NewClient(Wanted[Len(made) + 1])]
          /\ clients' = clients
      BY <1>3 DEF Finish
    <2> HIDE DEF made
    <2>2. conn'.made = made /\ conn'.stage = "creds" /\ conn'.spec = conn.spec
          /\ conn'.client.cert = "" /\ conn'.client.key = "" /\ conn'.client.insecure = FALSE
      BY <1>1, <2>1 DEF Connections, NewClient
    <2>3. Building'
      BY <2>2 DEF Building
    <2>4. conn'.made = made /\ conn'.spec.is = conn.spec.is /\ clients' = clients
          /\ conn'.stage # "idle"
      BY <2>1, <2>2
    <2>5. QED
      BY <1>2, <2>3, <2>4 DEF ClientsKnown
  <1>4. CASE ~(Len(made) < Len(Wanted))
    <2>1. conn' = Idle /\ clients' = made
      BY <1>4 DEF Finish
    <2> HIDE DEF made
    <2>2. conn'.stage = "idle"
      BY <2>1, IdleType
    <2>3. Building'
      BY <2>2 DEF Building, Reading
    <2>4. QED
      BY <1>2, <2>1, <2>2, <2>3 DEF ClientsKnown, Reading, Belongs
  <1>5. QED
    BY <1>3, <1>4

LEMMA NoClient ==
  ASSUME Fail
  PROVE  ClientsKnown' /\ DOMAIN clients' = {}
  <1>1. conn'.stage = "idle" /\ clients' = <<>>
    BY IdleType DEF Fail
  <1>2. DOMAIN clients' = {}
    BY <1>1
  <1>3. QED
    BY <1>1, <1>2 DEF ClientsKnown, Building, Reading

(* The Get of a part leaves the finished clients.                           *)
LEMMA NextPart ==
  ASSUME ClientTypes, ClientsKnown, conn.stage \in Reading,
         NEW c \in Client, NEW stage \in Reading, Goto(stage, c), Building'
  PROVE  ClientsKnown' /\ conn'.stage # "idle"
  <1>1. conn \in Connections /\ stage # "idle"
    BY DEF ClientTypes, Reading
  <1>2. conn'.made = conn.made /\ conn'.spec = conn.spec /\ conn'.stage = stage /\ clients' = clients
    BY <1>1 DEF Goto, Connections
  <1>3. QED
    BY <1>1, <1>2 DEF ClientsKnown, Belongs, Meets, Given

(* A Get: the clients with which Connect returns are finished.              *)
LEMMA GetStep ==
  ASSUME ClientTypes, ClientsKnown, Step
  PROVE  /\ ClientsKnown'
         /\ conn'.stage = "idle" /\ conn.stage # "idle" =>
              \A i \in DOMAIN clients' : Meets(clients'[i], conn.spec.is)
  <1> DEFINE s == conn.spec.is
  <1>1. CASE Fail
    BY <1>1, NoClient
  <1>2. CASE GetConfig /\ ~Fail
    <2>1. PICK t \in Configs : conn' = [Idle EXCEPT !.stage = "creds", !.spec = Is(t),
                                                    !.client = NewClient(Wanted[1])]
      BY <1>2, GetConfigCases
    <2>2. conn'.stage = "creds" /\ conn'.made = <<>> /\ conn'.client = NewClient(Wanted[1])
      BY <2>1 DEF Idle
    <2>3. conn'.client.cert = "" /\ conn'.client.key = "" /\ conn'.client.insecure = FALSE
      <3>1. \A name : NewClient(name).cert = "" /\ NewClient(name).key = ""
                      /\ NewClient(name).insecure = FALSE
        BY DEF NewClient
      <3>2. QED
        BY <2>2, <3>1
    <2>4. Building'
      BY <2>2, <2>3 DEF Building
    <2>5. \A seq : seq = <<>> => DOMAIN seq = {}
      OBVIOUS
    <2>6. clients' = clients /\ DOMAIN conn'.made = {}
      BY <1>2, <2>2, <2>5, GetConfigCases
    <2>7. conn.stage = "idle"
      BY <1>2 DEF GetConfig
    <2>8. QED
      BY <2>4, <2>6, <2>7 DEF ClientsKnown
  <1>3. CASE GetCredentials /\ ~Fail
    <2>1. conn.stage = "creds" /\ conn.stage \in Reading
      BY <1>3 DEF GetCredentials, Reading
    <2>2. PICK c \in Client :
            /\ c.secure = IsTLSEnabled(s.url)
            /\ c.ca = conn.client.ca /\ c.cert = conn.client.cert /\ c.key = conn.client.key
            /\ c.insecure = conn.client.insecure
            /\ IF s.tls THEN Goto("ca", c) ELSE Finish(c)
      BY <1>3, GetCredentialsCases
    <2>3. c.cert = "" /\ c.key = "" /\ ~c.insecure
      BY <2>1, <2>2 DEF ClientsKnown, Building
    <2>4. CASE s.tls
      <3>1. conn'.stage = "ca" /\ conn'.spec = conn.spec /\ conn'.client = c
        BY <2>1, <2>2, <2>4, ReadingFacts DEF Goto, Connections
      <3>2. Building'
        BY <2>2, <2>3, <2>4, <3>1 DEF Building
      <3>3. QED
        BY <2>1, <2>2, <2>4, <3>2, NextPart DEF Reading
    <2>5. CASE ~s.tls
      <3>1. Belongs(c) /\ Meets(c, s)
        BY <2>2, <2>3, <2>5 DEF Belongs, Meets, IsTLSEnabled
      <3>2. QED
        BY <2>1, <2>2, <2>5, <3>1, FinishedClient
    <2>6. QED
      BY <2>4, <2>5
  <1>4. CASE GetCA /\ ~Fail
    <2>1. conn.stage = "ca" /\ conn.stage \in Reading
      BY <1>4 DEF GetCA, Reading
    <2>2. PICK c \in Client :
            /\ Goto("cert", c)
            /\ NoEmptyText /\ Given(s.ca) => c.ca # ""
            /\ c.secure = conn.client.secure /\ c.cert = conn.client.cert /\ c.key = conn.client.key
            /\ c.insecure = conn.client.insecure
      BY <1>4, GetCACases
    <2>3. conn'.stage = "cert" /\ conn'.spec = conn.spec /\ conn'.client = c
      BY <2>1, <2>2, ReadingFacts DEF Goto, Connections
    <2>4. Building'
      BY <2>1, <2>2, <2>3 DEF Building, ClientsKnown
    <2>5. QED
      BY <2>1, <2>2, <2>4, NextPart DEF Reading
  <1>5. CASE GetCert /\ ~Fail
    <2>1. conn.stage = "cert" /\ conn.stage \in Reading
      BY <1>5 DEF GetCert, Reading
    <2>2. PICK c \in Client :
            /\ Goto("key", c)
            /\ NoEmptyText /\ Given(s.cert) => c.cert # ""
            /\ c.secure = conn.client.secure /\ c.ca = conn.client.ca /\ c.key = conn.client.key
            /\ c.insecure = conn.client.insecure
      BY <1>5, GetCertCases
    <2>3. conn'.stage = "key" /\ conn'.spec = conn.spec /\ conn'.client = c
      BY <2>1, <2>2, ReadingFacts DEF Goto, Connections
    <2>4. Building'
      BY <2>1, <2>2, <2>3 DEF Building, ClientsKnown
    <2>5. QED
      BY <2>1, <2>2, <2>4, NextPart DEF Reading
  <1>6. CASE GetKey /\ ~Fail
    <2>1. conn.stage = "key" /\ conn.stage \in Reading
      BY <1>6 DEF GetKey, Reading
    <2>2. PICK c \in Client :
            /\ Finish(c)
            /\ ValidPair(c.cert, c.key)
            /\ c.secure = conn.client.secure /\ c.ca = conn.client.ca /\ c.cert = conn.client.cert
            /\ c.insecure = s.insecure
      BY <1>6, GetKeyCases
    <2>3. Belongs(c)
      BY <2>2 DEF Belongs, ValidPair
    <2>4. c.cert # "" => c.key # ""
      <3>1. c.cert # "" => <<c.cert, c.key>> \in Pairs
        BY <2>2 DEF ValidPair
      <3>2. <<c.cert, c.key>> \in Pairs => <<c.cert, c.key>>[2] # ""
        BY ClientAssumption
      <3>3. QED
        BY <3>1, <3>2
    <2>5. Meets(c, s)
      BY <2>1, <2>2, <2>4 DEF Meets, ClientsKnown, Building, IsTLSEnabled
    <2>6. QED
      BY <2>1, <2>2, <2>3, <2>5, FinishedClient
  <1>7. QED
    BY <1>1, <1>2, <1>3, <1>4, <1>5, <1>6 DEF Step

LEMMA ClientsKnownStep == ClientTypes /\ ClientsKnown /\ [Next]_vars => ClientsKnown'
  <1> SUFFICES ASSUME ClientTypes, ClientsKnown, [Next]_vars PROVE ClientsKnown'
    OBVIOUS
  <1>1. CASE Step
    BY <1>1, GetStep
  <1>2. CASE Probe
    <2> DEFINE c == [NewClient("probe") EXCEPT !.secure = clients[1].secure]
    <2>1. clients \in Seq(Client) /\ clients' = Append(clients, c) /\ conn' = conn
      BY <1>2 DEF Probe, ClientTypes
    <2>2. Belongs(c)
      BY DEF Belongs, NewClient
    <2> HIDE DEF c
    <2>3. \A i \in DOMAIN clients' : Belongs(clients'[i])
      <3> SUFFICES ASSUME NEW i \in DOMAIN clients' PROVE Belongs(clients'[i])
        OBVIOUS
      <3>1. (i \in DOMAIN clients /\ clients'[i] = clients[i]) \/ clients'[i] = c
        BY <2>1
      <3>2. QED
        BY <2>2, <3>1 DEF ClientsKnown
    <2>4. QED
      BY <2>1, <2>3 DEF ClientsKnown, Building
  <1>3. CASE conn' = conn /\ clients' = clients
    BY <1>3 DEF ClientsKnown, Building
  <1>4. QED
    BY <1>1, <1>2, <1>3 DEF Next, SyncCache, Write, vars

LEMMA ClientsKnownInv == Spec => [](ClientTypes /\ ClientsKnown)
  <1>1. Init => ClientsKnown
    <2> SUFFICES ASSUME Init PROVE ClientsKnown
      OBVIOUS
    <2>1. conn.stage = "idle" /\ clients = <<>>
      BY IdleType DEF Init
    <2>2. DOMAIN clients = {}
      BY <2>1
    <2>3. QED
      BY <2>1, <2>2 DEF ClientsKnown, Building, Reading
  <1>2. QED
    BY <1>1, ClientsKnownStep, ClientTypesInv, PTL DEF Spec

(* Whatever is rotated between the Get for the certificate and the Get for  *)
(* the key, a client has a certificate only with its own key (client.go     *)
(* buildTLSConfig).                                                         *)
THEOREM ClientPairBelongs == Spec => []PairBelongs
  <1>1. ClientsKnown => PairBelongs
    BY DEF ClientsKnown, PairBelongs, Belongs
  <1>2. QED
    BY <1>1, ClientsKnownInv, PTL

(* Connect returns no client that is weaker than the ProviderConfig it read *)
(* asks for, if no Secret or ConfigMap gives an empty text: an empty one    *)
(* counts as not given (client.go buildTLSConfig, getTLSData).              *)
THEOREM ClientNoDowngrade ==
  ASSUME NoEmptyText
  PROVE  Spec => NoDowngrade
  <1> DEFINE A == conn.stage # "idle" /\ conn'.stage = "idle" =>
                    \A i \in DOMAIN clients' : Meets(clients'[i], conn.spec.is)
  <1>1. ClientTypes /\ ClientsKnown /\ [Next]_vars => A
    BY GetStep DEF Next, Probe, SyncCache, Write, vars
  <1>2. A => (conn.stage # "idle" /\ conn'.stage = "idle" =>
                LET s == conn.spec.is
                IN  \A i \in DOMAIN clients' :
                      LET c == clients'[i]
                      IN  /\ s.url = "https" => c.secure
                          /\ s.tls /\ Given(s.ca) => c.ca # ""
                          /\ s.tls /\ Given(s.cert) => c.cert # "" /\ c.key # ""
                          /\ c.insecure => s.insecure)
    BY DEF Meets
  <1> HIDE DEF A
  <1>3. QED
    BY <1>1, <1>2, ClientsKnownInv, PTL DEF Spec, NoDowngrade

=============================================================================
