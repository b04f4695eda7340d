---------------------------- MODULE ConnectionProofs ----------------------------
(***************************************************************************)
(* What holds of Connection for every configuration, Secret, lifetime and  *)
(* number of objects.                                                      *)
(***************************************************************************)
EXTENDS Connection, FiniteSetTheorems, TLAPS

(* A client has no token and has sent nothing before it is connected.      *)
Placed(o) ==
  /\ conn[o].pc \notin {"idle", "config"} => conn[o].config # None
  /\ conn[o].pc \notin {"call", "exchange"} => conn[o].token = None /\ conn[o].sent = None
  /\ At(o, "exchange") => NeedsToken(o) /\ conn[o].waiting < TimeoutOf(o)
  /\ ~At(o, "exchange") => conn[o].waiting = 0
  /\ conn[o].token # None => NeedsToken(o)

(* The stored expiry is ahead of the real one by less than an exchange     *)
(* may last.                                                               *)
Timed(o) ==
  Announced(conn[o].token) => conn[o].token.cached < conn[o].token.left + Timeout

(* A client whose certificate is unusable never sent anything.             *)
Presentable(o) ==
  conn[o].sent # None => (HasCertificate(o) => X509KeyPair(conn[o].cert, conn[o].key))

Alive(o) == (Sent(o) /\ Announced(conn[o].token)) => conn[o].sent.alive

Sound(o) == Placed(o) /\ Timed(o) /\ Presentable(o) /\ Alive(o)

Inv == TypeOK /\ \A o \in Objects : Sound(o)

UsersType ==
  /\ configs' \in [ConfigIds -> ProviderConfigs \cup {None}]
  /\ data' \in [SecretKeys -> Contents]
  /\ events' \in 0 .. MaxEvents

-----------------------------------------------------------------------------
(***************************************************************************)
(* Merged blocks are blocks.                                               *)
(***************************************************************************)
LEMMA MergeTLSType ==
  ASSUME NEW r \in TLSConfig \cup {None}, NEW p \in TLSConfig \cup {None}
  PROVE  MergeTLSConfigs(r, p) \in TLSConfig \cup {None}
<1>1. CASE r = None \/ p = None
  BY <1>1 DEF MergeTLSConfigs, Or
<1>2. CASE r # None /\ p # None
  <2>1. r \in TLSConfig /\ p \in TLSConfig
    BY <1>2
  <2>2. MergeTLSConfigs(r, p) = [f \in DOMAIN r |-> Or(r[f], p[f])]
    BY <1>2 DEF MergeTLSConfigs
  <2>3. DOMAIN r = {"caBundle", "caCertSecretRef", "clientCertSecretRef", "clientKeySecretRef"}
    BY <2>1 DEF TLSConfig
  <2>4. /\ Or(r["caBundle"], p["caBundle"]) \in Versions \cup {None}
        /\ \A f \in {"caCertSecretRef", "clientCertSecretRef", "clientKeySecretRef"} :
             Or(r[f], p[f]) \in SecretKeys \cup {None}
    BY <2>1 DEF TLSConfig, Or
  <2>5. QED
    BY <2>2, <2>3, <2>4 DEF TLSConfig
<1>3. QED
  BY <1>1, <1>2

LEMMA EffectiveType ==
  ASSUME TypeOK, NEW o \in Objects, conn[o].config # None
  PROVE  /\ conn[o].config \in ProviderConfigSpec
         /\ EffectiveOIDC(o) \in OIDCConfig \cup {None}
         /\ EffectiveGCP(o) \in GCPAuth \cup {None}
         /\ EffectiveTLS(o) \in TLSConfig \cup {None}
<1>1. conn[o].config \in ProviderConfigSpec
  BY DEF TypeOK, Connections
<1>2. Resource(o) \in ForProvider
  BY ConnectionConstants DEF Resource, TypeOK, CustomResources
<1>3. /\ Resource(o).oidc \in OIDCConfig \cup {None}
      /\ Resource(o).gcp \in GCPAuth \cup {None}
      /\ Resource(o).tls \in TLSConfig \cup {None}
      /\ conn[o].config.oidc \in OIDCConfig \cup {None}
      /\ conn[o].config.gcp \in GCPAuth \cup {None}
      /\ conn[o].config.tls \in TLSConfig \cup {None}
  BY <1>1, <1>2 DEF ForProvider, ProviderConfigSpec
<1>4. EffectiveOIDC(o) \in OIDCConfig \cup {None}
  BY <1>3 DEF EffectiveOIDC, MergeOIDCConfigs, Or, OIDCConfig
<1>5. EffectiveGCP(o) \in GCPAuth \cup {None}
  BY <1>3 DEF EffectiveGCP, MergeGCPConfigs, Or, GCPAuth
<1>6. QED
  BY <1>1, <1>3, <1>4, <1>5, MergeTLSType DEF EffectiveTLS

LEMMA DisconnectedType == Disconnected \in Connections
BY DEF Disconnected, Connections, PCs, Half

-----------------------------------------------------------------------------
(***************************************************************************)
(* A step of one object leaves the others as they are.                     *)
(***************************************************************************)
LEMMA StepInv ==
  ASSUME Inv, NEW o \in Objects, conn' \in [Objects -> Connections],
         \A p \in Objects \ {o} : conn'[p] = conn[p],
         UNCHANGED object, UsersType, Sound(o)'
  PROVE  Inv'
<1>1. TypeOK'
  BY DEF Inv, TypeOK, UsersType
<1>2. ASSUME NEW p \in Objects \ {o} PROVE Sound(p)'
  <2>1. Sound(p) /\ conn'[p] = conn[p] /\ object' = object
    BY <1>2 DEF Inv
  <2>2. NeedsToken(p)' = NeedsToken(p) /\ TimeoutOf(p)' = TimeoutOf(p)
    BY <2>1 DEF NeedsToken, TimeoutOf, FetchedBySDK, EffectiveGCP, EffectiveOIDC, Resource
  <2>3. Placed(p)'
    BY <2>1, <2>2 DEF Sound, Placed, At
  <2>4. Timed(p)' /\ Presentable(p)' /\ Alive(p)'
    BY <2>1 DEF Sound, Timed, Presentable, Alive, HasCertificate, Sent, Announced
  <2>5. QED
    BY <2>3, <2>4 DEF Sound
<1>3. QED
  BY <1>1, <1>2 DEF Inv

(* A reconcile that is over.                                               *)
LEMMA FailInv ==
  ASSUME Inv, NEW o \in Objects, Fail(o), UNCHANGED object, UsersType
  PROVE  Inv'
<1>1. conn' = [conn EXCEPT ![o] = Disconnected] /\ conn \in [Objects -> Connections]
  BY DEF Fail, Inv, TypeOK
<1>2. conn'[o] = Disconnected /\ conn' \in [Objects -> Connections]
  BY <1>1, DisconnectedType
<1>3. Sound(o)'
  BY <1>2, ConnectionConstants
     DEF Sound, Placed, Timed, Presentable, Alive, At, Sent, Announced, Disconnected
<1>4. QED
  BY <1>1, <1>2, <1>3, StepInv

(* A step before the client is connected, or that connects it.             *)
LEMMA ConnectingInv ==
  ASSUME Inv, NEW o \in Objects, conn[o].pc \notin {"call", "exchange"},
         NEW c \in Connections, conn' = [conn EXCEPT ![o] = c],
         c.pc # "exchange", c.pc \notin {"idle", "config"} => c.config # None,
         c.token = conn[o].token, c.sent = conn[o].sent, c.waiting = conn[o].waiting,
         UNCHANGED object, UsersType
  PROVE  Inv'
<1>1. conn' \in [Objects -> Connections] /\ conn'[o] = c
  BY DEF Inv, TypeOK
<1>2. c.token = None /\ c.sent = None
  BY DEF Inv, Sound, Placed
<1>3. conn[o].waiting = 0
  BY DEF Inv, Sound, Placed, At
<1>4. Sound(o)'
  BY <1>1, <1>2, <1>3 DEF Sound, Placed, Timed, Presentable, Alive, At, Sent, Announced
<1>5. QED
  BY <1>1, <1>4, StepInv DEF Inv, TypeOK

-----------------------------------------------------------------------------
(***************************************************************************)
(* The steps of Connect.                                                   *)
(***************************************************************************)
LEMMA Unmoved ==
  ASSUME Inv, UNCHANGED <<object, configs, data, events>>
  PROVE  UsersType /\ UNCHANGED object
BY DEF Inv, TypeOK, UsersType

(* Users and failures, as often as they may.                               *)
LEMMA SpentType ==
  ASSUME Inv, Spent
  PROVE  events' \in 0 .. MaxEvents
BY ConnectionConstants DEF Spent, Inv, TypeOK

LEMMA TrackInv ==
  ASSUME Inv, NEW o \in Objects, Track(o)
  PROVE  Inv'
<1> DEFINE c == [conn[o] EXCEPT !.pc = "config"]
<1>1. conn[o] \in Connections /\ conn[o].pc = "idle" /\ UsersType /\ UNCHANGED object
  BY Unmoved DEF Track, At, Inv, TypeOK
<1>2. /\ c \in Connections /\ c.pc = "config"
      /\ c.token = conn[o].token /\ c.sent = conn[o].sent /\ c.waiting = conn[o].waiting
  BY <1>1 DEF Connections, PCs
<1>3. conn' = [conn EXCEPT ![o] = c]
  BY DEF Track
<1> HIDE DEF c
<1>4. QED
  BY <1>1, <1>2, <1>3, ConnectingInv

LEMMA GetConfigInv ==
  ASSUME Inv, NEW o \in Objects, NEW id, GetConfig(o, id)
  PROVE  Inv'
<1> DEFINE c == [conn[o] EXCEPT !.config = configs[id], !.pc = "build"]
<1>1. conn[o] \in Connections /\ conn[o].pc = "config" /\ UsersType /\ UNCHANGED object
  BY Unmoved DEF GetConfig, At, Inv, TypeOK
<1>2. CASE id \in ConfigIds /\ configs[id] # None
  <2>1. configs[id] \in ProviderConfigSpec
    BY <1>2, ConnectionConstants DEF Inv, TypeOK
  <2>2. /\ c \in Connections /\ c.pc = "build" /\ c.config = configs[id]
        /\ c.token = conn[o].token /\ c.sent = conn[o].sent /\ c.waiting = conn[o].waiting
    BY <1>1, <2>1 DEF Connections, PCs
  <2>3. conn' = [conn EXCEPT ![o] = c]
    BY <1>2 DEF GetConfig
  <2> HIDE DEF c
  <2>4. QED
    BY <1>1, <1>2, <2>2, <2>3, ConnectingInv
<1>3. CASE ~(id \in ConfigIds /\ configs[id] # None)
  BY <1>1, <1>3, FailInv DEF GetConfig
<1>4. QED
  BY <1>2, <1>3

LEMMA CredentialsType ==
  ASSUME TypeOK, NEW credentials \in ProviderCredentials \cup {None}, NEW sources,
         ExtractedCredentials(credentials, sources) # Missing
  PROVE  ExtractedCredentials(credentials, sources) \in Versions \cup {Ambient, Empty}
<1>1. CASE credentials = None
  BY <1>1 DEF ExtractedCredentials
<1>2. CASE credentials # None
  <2>1. credentials.key \in SecretKeys \cup {None}
    BY <1>2 DEF ProviderCredentials
  <2>2. credentials.key # None => data[credentials.key] \in Contents
    BY <2>1 DEF TypeOK
  <2>3. QED
    BY <1>2, <2>2 DEF ExtractedCredentials, Contents
<1>3. QED
  BY <1>1, <1>2

(* The credentials are extracted; nothing else changes.                    *)
WithCreds(c, v) == [c EXCEPT !.creds = v, !.pc = "ca"]

LEMMA CredsKept ==
  ASSUME NEW c \in Connections, NEW v \in Versions \cup {Ambient, Empty}
  PROVE  LET d == WithCreds(c, v)
         IN  /\ d \in Connections /\ d.pc = "ca" /\ d.config = c.config
             /\ d.token = c.token /\ d.sent = c.sent /\ d.waiting = c.waiting
BY DEF Connections, PCs, WithCreds

LEMMA BuildInv ==
  ASSUME Inv, NEW o \in Objects, NEW sources, BuildHTTPClient(o, sources)
  PROVE  Inv'
<1> DEFINE credentials == conn[o].config.credentials
           creds       == ExtractedCredentials(credentials, sources)
           c           == WithCreds(conn[o], creds)
<1>1. conn[o] \in Connections /\ conn[o].pc = "build" /\ UsersType /\ UNCHANGED object
  BY Unmoved DEF BuildHTTPClient, At, Inv, TypeOK
<1>2. conn[o].config # None /\ conn[o].config \in ProviderConfigSpec
  BY <1>1, EffectiveType DEF Inv, Sound, Placed
<1>3. CASE creds # Missing /\ conn' = [conn EXCEPT ![o].creds = creds, ![o].pc = "ca"]
  <2>1. credentials \in ProviderCredentials \cup {None}
    BY <1>2 DEF ProviderConfigSpec
  <2>2. creds \in Versions \cup {Ambient, Empty}
    BY <1>3, <2>1, CredentialsType DEF Inv
  <2> HIDE DEF creds
  <2>3. /\ c \in Connections /\ c.pc = "ca" /\ c.config = conn[o].config
        /\ c.token = conn[o].token /\ c.sent = conn[o].sent /\ c.waiting = conn[o].waiting
    BY <1>1, <2>2, CredsKept
  <2>4. conn' = [conn EXCEPT ![o] = c]
    BY <1>3 DEF WithCreds
  <2> HIDE DEF c
  <2>5. QED
    BY <1>1, <1>2, <2>3, <2>4, ConnectingInv
<1>4. CASE Fail(o)
  BY <1>1, <1>4, FailInv
<1>5. QED
  BY <1>3, <1>4 DEF BuildHTTPClient

LEMMA InlineInv ==
  ASSUME Inv, NEW o \in Objects, InlineCA(o)
  PROVE  Inv'
<1> DEFINE c == [conn[o] EXCEPT !.ca = EffectiveTLS(o).caBundle, !.pc = "cert"]
<1>1. conn[o] \in Connections /\ conn[o].pc = "ca" /\ UsersType /\ UNCHANGED object
  BY Unmoved DEF InlineCA, At, Inv, TypeOK
<1>2. conn[o].config # None
  BY <1>1 DEF Inv, Sound, Placed
<1>3. EffectiveTLS(o) \in TLSConfig \cup {None} /\ Ref(EffectiveTLS(o), "caBundle") # None
  BY <1>2, EffectiveType DEF InlineCA, Inv
<1>4. EffectiveTLS(o).caBundle \in Versions \cup {None}
  BY <1>3 DEF Ref, TLSConfig
<1>5. /\ c \in Connections /\ c.pc = "cert" /\ c.config = conn[o].config
      /\ c.token = conn[o].token /\ c.sent = conn[o].sent /\ c.waiting = conn[o].waiting
  BY <1>1, <1>4 DEF Connections, PCs, Half
<1>6. conn' = [conn EXCEPT ![o] = c]
  BY DEF InlineCA
<1> HIDE DEF c
<1>7. QED
  BY <1>1, <1>2, <1>5, <1>6, ConnectingInv

(* A part of the TLS material is read; nothing else changes.               *)
WithPart(c, part, v, next) == [c EXCEPT ![part] = v, !.pc = next]

LEMMA PartType ==
  ASSUME NEW c \in Connections, NEW v \in Half, NEW next \in PCs,
         NEW part \in {"ca", "cert", "key"}
  PROVE  LET d == WithPart(c, part, v, next)
         IN  /\ d \in Connections /\ d.pc = next /\ d.config = c.config
             /\ d.token = c.token /\ d.sent = c.sent /\ d.waiting = c.waiting
<1>1. CASE part = "ca"
  BY <1>1 DEF Connections, WithPart
<1>2. CASE part = "cert"
  BY <1>2 DEF Connections, WithPart
<1>3. CASE part = "key"
  BY <1>3 DEF Connections, WithPart
<1>4. QED
  BY <1>1, <1>2, <1>3

(* What is loaded of a Secret is material, or empty.                       *)
FromRef(v, ref) ==
  IF ref = None THEN v = None ELSE v = Empty \/ v \in {SecretOf(ref)} \X Versions

LEMMA FromRefType ==
  ASSUME NEW ref \in SecretKeys \cup {None}, NEW v, FromRef(v, ref)
  PROVE  v \in Half /\ (v = None <=> ref = None)
<1>1. CASE ref = None
  BY <1>1 DEF FromRef, Half
<1>2. CASE ref # None
  <2>1. PICK s \in Secrets : ref \in s
    BY <1>2 DEF SecretKeys
  <2>2. SecretOf(ref) \in Secrets
    BY <2>1 DEF SecretOf
  <2>3. v = Empty \/ v \in Material
    BY <1>2, <2>2 DEF FromRef, Material
  <2>4. QED
    BY <1>2, <2>3, ConnectionConstants DEF Half
<1>3. QED
  BY <1>1, <1>2

LEMMA LoadSecretDataType ==
  ASSUME TypeOK, NEW ref \in SecretKeys \cup {None}, Loadable(ref)
  PROVE  FromRef(LoadSecretData(ref), ref)
<1>1. CASE ref = None
  BY <1>1 DEF FromRef, LoadSecretData
<1>2. CASE ref # None
  <2>1. data[ref] \in Versions \cup {Empty}
    BY <1>2 DEF TypeOK, Contents, Loadable
  <2>2. QED
    BY <1>2, <2>1 DEF FromRef, LoadSecretData
<1>3. QED
  BY <1>1, <1>2

LEMMA LoadInv ==
  ASSUME Inv, NEW o \in Objects, NEW part \in {"ca", "cert", "key"},
         NEW field \in {"caCertSecretRef", "clientCertSecretRef", "clientKeySecretRef"},
         NEW next \in {"cert", "key", "call"}, Load(o, part, field, next)
  PROVE  Inv'
<1> DEFINE ref == Ref(EffectiveTLS(o), field)
           v   == LoadSecretData(ref)
           c   == WithPart(conn[o], part, v, next)
<1>1. conn[o] \in Connections /\ conn[o].pc = part /\ UsersType /\ UNCHANGED object
  BY Unmoved DEF Load, At, Inv, TypeOK
<1>2. conn[o].config # None
  BY <1>1 DEF Inv, Sound, Placed
<1>3. CASE Loadable(ref)
  <2>1. EffectiveTLS(o) \in TLSConfig \cup {None}
    BY <1>2, EffectiveType DEF Inv
  <2>2. ref \in SecretKeys \cup {None}
    BY <2>1 DEF Ref, TLSConfig
  <2> HIDE DEF ref
  <2>3. v \in Half
    BY <1>3, <2>2, FromRefType, LoadSecretDataType DEF Inv
  <2>4. /\ c \in Connections /\ c.pc = next /\ c.config = conn[o].config
        /\ c.token = conn[o].token /\ c.sent = conn[o].sent /\ c.waiting = conn[o].waiting
    <3>1. v \in Half /\ next \in PCs /\ conn[o] \in Connections
      BY <1>1, <2>3 DEF PCs
    <3> HIDE DEF v
    <3>2. QED
      BY <3>1, PartType
  <2>5. conn' = [conn EXCEPT ![o] = c]
    BY <1>3 DEF Load, ref, WithPart
  <2> HIDE DEF c
  <2>6. QED
    BY <1>1, <1>2, <2>4, <2>5, ConnectingInv
<1>4. CASE ~Loadable(ref)
  BY <1>1, <1>4, FailInv DEF Load
<1>5. QED
  BY <1>3, <1>4

LEMMA ConnectInv ==
  ASSUME Inv, NEW o \in Objects, Connect(o)
  PROVE  Inv'
<1>1. ASSUME LoadTLSConfig(o) PROVE Inv'
  BY <1>1, InlineInv, LoadInv DEF LoadTLSConfig
<1>2. ASSUME NoDefaultCredentials(o) PROVE Inv'
  BY <1>2, SpentType, FailInv DEF NoDefaultCredentials, Inv, TypeOK, UsersType
<1>3. QED
  BY <1>1, <1>2, TrackInv, GetConfigInv, BuildInv
     DEF Connect, ConnectNamespacedRequest, ConnectNamespacedDisposable,
         ConnectClusterRequest, ConnectClusterDisposable

-----------------------------------------------------------------------------
(***************************************************************************)
(* Sending: the headers, the token and the certificate.                    *)
(***************************************************************************)
LEMMA HeadersType ==
  ASSUME Inv, NEW o \in Objects, conn[o].config # None
  PROVE  HeadersOf(o) \in [HeaderNames -> HeaderValues \cup {None}]
<1> DEFINE Headers == [HeaderNames -> HeaderValues \cup {None}]
<1>1. ASSUME NEW h \in Headers, NEW n, NEW v \in HeaderValues
      PROVE  AddIfAbsent(h, n, v) \in Headers
  BY <1>1 DEF AddIfAbsent
<1>2. {"caller", "gcp", "oidc", "credentials"} = HeaderValues
  BY DEF HeaderValues
<1>3. Given(o) \in Headers
  BY <1>2 DEF Given
<1> HIDE DEF Headers
<1>4. GCPClientHeaders(Given(o)) \in Headers
  BY <1>1, <1>2, <1>3 DEF GCPClientHeaders
<1>5. OIDCClientHeaders(Given(o), EffectiveOIDC(o)) \in Headers
  BY <1>1, <1>2, <1>3 DEF OIDCClientHeaders
<1>6. \A h \in Headers : ClientHeaders(h, conn[o].creds) \in Headers
  BY <1>1, <1>2 DEF ClientHeaders
<1>7. HeadersOf(o) \in Headers
  BY <1>3, <1>4, <1>5, <1>6 DEF HeadersOf
<1>8. QED
  BY <1>7 DEF Headers

LEMMA SendInv ==
  ASSUME Inv, NEW o \in Objects, conn[o].pc \in {"call", "exchange"},
         NEW token \in Tokens \cup {None}, Send(o, token), UNCHANGED object, UsersType,
         token # None => NeedsToken(o),
         Announced(token) => token.cached < token.left + Timeout /\ token.left > 0
  PROVE  Inv'
<1> DEFINE headers == HeadersOf(o)
           carries == \E n \in HeaderNames : headers[n] \in {"gcp", "oidc"}
           call    == [ headers     |-> headers,
                        alive       |-> carries => token.left > 0,
                        certificate |-> IF HasCertificate(o)
                                        THEN <<conn[o].cert, conn[o].key>> ELSE None ]
           refused == HasCertificate(o) /\ ~X509KeyPair(conn[o].cert, conn[o].key)
           sent    == IF refused THEN conn[o].sent ELSE call
           c       == [conn[o] EXCEPT !.pc = "call", !.waiting = 0, !.token = token, !.sent = sent]
<1>1. conn[o] \in Connections /\ Sound(o) /\ conn[o].config # None
  BY DEF Inv, TypeOK, Sound, Placed
<1>2. conn' = [conn EXCEPT ![o] = c]
  BY DEF Send
<1>3. /\ call \in Calls
      /\ Announced(token) => call.alive
  <2>1. headers \in [HeaderNames -> HeaderValues \cup {None}]
    BY <1>1, HeadersType
  <2>2. HasCertificate(o) => conn[o].cert \in Material /\ conn[o].key \in Material
    BY <1>1 DEF HasCertificate, Connections, Half
  <2>3. (IF HasCertificate(o) THEN <<conn[o].cert, conn[o].key>> ELSE None)
          \in (Material \X Material) \cup {None}
    BY <2>2
  <2>4. (carries => token.left > 0) \in BOOLEAN
    OBVIOUS
  <2> HIDE DEF headers, carries
  <2>5. QED
    BY <2>1, <2>3, <2>4 DEF Calls
<1>4. refused => conn[o].sent = None
  BY <1>1 DEF Sound, Presentable
<1>5. sent \in Calls \cup {None}
  BY <1>3, <1>4
<1>6. sent # None => ~refused /\ sent = call
  BY <1>4
<1> HIDE DEF call, refused, sent
<1>7. /\ c \in Connections /\ c.pc = "call" /\ c.token = token /\ c.sent = sent
      /\ c.config = conn[o].config /\ c.cert = conn[o].cert /\ c.key = conn[o].key
      /\ c.waiting = 0
  BY <1>1, <1>5 DEF Connections, PCs
<1> HIDE DEF c
<1>8. conn'[o] = c /\ conn' \in [Objects -> Connections]
  BY <1>2, <1>7 DEF Inv, TypeOK
<1>9. NeedsToken(o)' = NeedsToken(o) /\ HasCertificate(o)' = HasCertificate(o)
  BY <1>7, <1>8 DEF NeedsToken, EffectiveGCP, EffectiveOIDC, Resource, HasCertificate
<1>10. Placed(o)' /\ Timed(o)'
  BY <1>1, <1>7, <1>8, <1>9 DEF Placed, Timed, At, Announced
<1>11. Presentable(o)'
  BY <1>6, <1>7, <1>8, <1>9 DEF Presentable, refused
<1>12. Alive(o)'
  BY <1>3, <1>6, <1>7, <1>8 DEF Alive, Sent, Announced
<1>13. QED
  BY <1>2, <1>8, <1>10, <1>11, <1>12, StepInv DEF Sound, Inv, TypeOK

(***************************************************************************)
(* A call with the token of the call before.                               *)
(***************************************************************************)
LEMMA SendRequestInv ==
  ASSUME Inv, NEW o \in Objects, SendRequest(o)
  PROVE  Inv'
<1> DEFINE token == conn[o].token
<1>1. /\ conn[o].pc = "call" /\ token \in Tokens \cup {None} /\ Sound(o)
      /\ UsersType /\ UNCHANGED object /\ Send(o, token)
      /\ NeedsToken(o) => Reusable(token)
  BY Unmoved DEF SendRequest, At, Inv, TypeOK, Connections
<1>2. token # None => NeedsToken(o)
  BY <1>1 DEF Sound, Placed
<1>3. Announced(token) => token.cached < token.left + Timeout /\ token.left > 0
  <2> SUFFICES ASSUME Announced(token)
               PROVE  token.cached < token.left + Timeout /\ token.left > 0
    OBVIOUS
  <2>1. token # None /\ token.cached \in Nat /\ token.left \in Nat
    BY <1>1 DEF Tokens, Announced
  <2>2. token.cached >= ExpiryDelta /\ token.cached < token.left + Timeout
    BY <1>1, <1>2, <2>1 DEF Sound, Timed, Reusable
  <2>3. ExpiryDelta \in Nat /\ Timeout \in Nat /\ Timeout <= ExpiryDelta
    BY ConnectionConstants
  <2>4. QED
    BY <2>1, <2>2, <2>3
<1> HIDE DEF token
<1>4. QED
  BY <1>1, <1>2, <1>3, SendInv

LEMMA RequestTokenInv ==
  ASSUME Inv, NEW o \in Objects, RequestToken(o)
  PROVE  Inv'
<1> DEFINE c == [conn[o] EXCEPT !.pc = "exchange", !.token = None]
<1>1. /\ conn[o].pc = "call" /\ conn[o] \in Connections /\ Sound(o) /\ NeedsToken(o)
      /\ UsersType /\ UNCHANGED object
  BY Unmoved DEF RequestToken, At, Inv, TypeOK
<1>2. CASE conn' = [conn EXCEPT ![o] = c]
  <2>1. /\ c \in Connections /\ c.pc = "exchange" /\ c.token = None /\ c.sent = conn[o].sent
        /\ c.config = conn[o].config /\ c.cert = conn[o].cert /\ c.key = conn[o].key
        /\ c.waiting = conn[o].waiting
    BY <1>1 DEF Connections, PCs
  <2> HIDE DEF c
  <2>2. conn'[o] = c /\ conn' \in [Objects -> Connections]
    BY <1>2, <2>1 DEF Inv, TypeOK
  <2>3. NeedsToken(o)' = NeedsToken(o) /\ HasCertificate(o)' = HasCertificate(o)
    BY <1>1, <2>1, <2>2 DEF NeedsToken, EffectiveGCP, EffectiveOIDC, Resource, HasCertificate
  <2>4. conn[o].waiting = 0 /\ 0 < TimeoutOf(o)'
    BY <1>1, ConnectionConstants DEF Sound, Placed, At, TimeoutOf
  <2>5. Sound(o)'
    BY <1>1, <2>1, <2>2, <2>3, <2>4 DEF Sound, Placed, Timed, Presentable, Alive, At, Announced
  <2>6. QED
    BY <1>1, <1>2, <2>2, <2>5, StepInv DEF Inv, TypeOK
<1>3. CASE Fail(o)
  BY <1>1, <1>3, FailInv
<1>4. QED
  BY <1>2, <1>3 DEF RequestToken

(***************************************************************************)
(* Tokens: the stored expiry of one that just arrived (exchange, parseExp, *)
(* generateAccessTokenAt).                                                 *)
(***************************************************************************)
LEMMA ExpiryType ==
  ASSUME Inv, NEW o \in Objects, conn[o].config # None, NeedsToken(o),
         NEW a \in AnnouncedBy(o), NEW left \in Nat,
         left <= Lifetime, ~FetchedBySDK(o) => Lifetime < left + Timeout
  PROVE  /\ ExpiryOf(o, a, left) \in Nat /\ a \in Announcements
         /\ FetchedBySDK(o) => a = "sdk"
         /\ a \notin {"none", "sdk"} => ExpiryOf(o, a, left) < left + Timeout
<1>1. /\ Lifetime \in Nat /\ Timeout \in Nat \ {0}
      /\ RefreshBefore \in Nat /\ RefreshSlack \in Nat /\ Fallback \in Nat
  BY ConnectionConstants
<1>2. \A n, m \in Nat : Minus(n, m) \in Nat /\ Minus(n, m) <= n
  BY DEF Minus
<1>3. CASE EffectiveGCP(o) = None
  <2>1. EffectiveOIDC(o) \in OIDCConfig /\ ~FetchedBySDK(o)
    BY <1>3, EffectiveType DEF NeedsToken, Inv, FetchedBySDK
  <2>2. RefreshTime(o) \in Nat
    BY <1>1, <2>1 DEF RefreshTime, Or, OIDCConfig
  <2>3. a \in {"expires_in", "exp", "none"}
    BY <1>3 DEF AnnouncedBy
  <2>4. ExpiryOf(o, a, left) = ExchangedTokenExpiry(o, a, left)
    BY <1>3 DEF ExpiryOf
  <2>5. CASE a = "expires_in"
    BY <1>1, <1>2, <2>1, <2>2, <2>4, <2>5 DEF ExchangedTokenExpiry, Announcements
  <2>6. CASE a = "exp"
    BY <1>1, <1>2, <2>1, <2>2, <2>4, <2>6 DEF ExchangedTokenExpiry, Announcements
  <2>7. CASE a = "none"
    BY <2>1, <2>2, <2>4, <2>7 DEF ExchangedTokenExpiry, Announcements
  <2>8. QED
    BY <2>3, <2>5, <2>6, <2>7
<1>4. CASE EffectiveGCP(o) # None /\ EffectiveGCP(o).serviceAccount
  <2>1. /\ a \in {"expireTime", "none"} /\ ~FetchedBySDK(o)
        /\ ExpiryOf(o, a, left) = ImpersonatedTokenExpiry(a, left)
    BY <1>4 DEF AnnouncedBy, ExpiryOf, FetchedBySDK
  <2>2. QED
    BY <1>1, <1>2, <2>1 DEF ImpersonatedTokenExpiry, Announcements
<1>5. CASE EffectiveGCP(o) # None /\ ~EffectiveGCP(o).serviceAccount
  BY <1>1, <1>5 DEF AnnouncedBy, ExpiryOf, Announcements
<1>6. QED
  BY <1>3, <1>4, <1>5

LEMMA ReceiveTokenInv ==
  ASSUME Inv, NEW o \in Objects, ReceiveToken(o)
  PROVE  Inv'
<1> DEFINE left == Minus(Lifetime, conn[o].waiting)
<1>1. PICK a \in AnnouncedBy(o) :
        Send(o, [left |-> left, cached |-> ExpiryOf(o, a, left), announced |-> a])
  BY DEF ReceiveToken
<1>2. conn[o].pc = "exchange" /\ Sound(o) /\ conn[o].waiting \in Nat
      /\ UsersType /\ UNCHANGED object
  BY Unmoved DEF ReceiveToken, At, Inv, TypeOK, Connections
<1>3. conn[o].config # None /\ NeedsToken(o) /\ conn[o].waiting < TimeoutOf(o)
  BY <1>2 DEF Sound, Placed, At
<1>4. /\ left \in Nat /\ left <= Lifetime
      /\ ~FetchedBySDK(o) => Lifetime < left + Timeout /\ left > 0
  BY <1>2, <1>3, ConnectionConstants DEF TimeoutOf, Minus
<1> HIDE DEF left
<1> DEFINE expiry == ExpiryOf(o, a, left)
           token  == [left |-> left, cached |-> expiry, announced |-> a]
<1>5. /\ expiry \in Nat /\ a \in Announcements
      /\ a \notin {"none", "sdk"} => expiry < left + Timeout /\ left > 0
  BY <1>3, <1>4, ExpiryType
<1> HIDE DEF expiry
<1>6. /\ token \in Tokens /\ token.left = left /\ token.cached = expiry /\ token.announced = a
  BY <1>4, <1>5 DEF Tokens
<1>7. Send(o, token)
  BY <1>1 DEF expiry
<1> HIDE DEF token
<1>8. Announced(token) => token.cached < token.left + Timeout /\ token.left > 0
  BY <1>5, <1>6 DEF Announced
<1>9. QED
  BY <1>2, <1>3, <1>6, <1>7, <1>8, SendInv

(***************************************************************************)
(* Time takes as much from what is stored as from what is left.            *)
(***************************************************************************)
LEMMA TickInv ==
  ASSUME Inv, Tick
  PROVE  Inv'
<1>1. UsersType /\ UNCHANGED object /\ conn \in [Objects -> Connections]
  BY Unmoved DEF Tick, Inv, TypeOK
<1>2. ASSUME NEW o \in Objects PROVE conn'[o] \in Connections /\ Sound(o)'
  <2> DEFINE w == IF At(o, "exchange") THEN conn[o].waiting + 1 ELSE conn[o].waiting
             t == Aged(conn[o].token)
  <2>1. conn[o] \in Connections /\ Sound(o) /\ Timeout \in Nat \ {0}
    BY ConnectionConstants DEF Inv, TypeOK
  <2>2. conn'[o] = [conn[o] EXCEPT !.token = t, !.waiting = w]
    BY DEF Tick
  <2>3. /\ w \in Nat /\ (At(o, "exchange") => w < TimeoutOf(o))
        /\ ~At(o, "exchange") => w = 0
    <3>1. conn[o].waiting \in Nat /\ (~At(o, "exchange") => conn[o].waiting = 0)
      BY <2>1 DEF Connections, Sound, Placed
    <3>2. At(o, "exchange") => conn[o].waiting + 1 < TimeoutOf(o)
      BY DEF Tick
    <3>3. QED
      BY <3>1, <3>2
  <2>4. \A n \in Nat : Minus(n, 1) \in Nat /\ Minus(n, 1) = (IF n > 1 THEN n - 1 ELSE 0)
    BY DEF Minus
  <2>5. CASE conn[o].token = None
    <3>1. t = None
      BY <2>5 DEF Aged
    <3> HIDE DEF t, w
    <3>2. /\ conn'[o] \in Connections /\ conn'[o].token = None /\ conn'[o].waiting = w
          /\ conn'[o].pc = conn[o].pc /\ conn'[o].config = conn[o].config
          /\ conn'[o].cert = conn[o].cert /\ conn'[o].key = conn[o].key
          /\ conn'[o].sent = conn[o].sent
      BY <2>1, <2>2, <2>3, <3>1 DEF Connections
    <3>3. /\ NeedsToken(o)' = NeedsToken(o) /\ HasCertificate(o)' = HasCertificate(o)
          /\ TimeoutOf(o)' = TimeoutOf(o)
      BY <1>1, <3>2 DEF NeedsToken, TimeoutOf, FetchedBySDK, EffectiveGCP, EffectiveOIDC,
                        Resource, HasCertificate
    <3>4. QED
      BY <2>1, <2>3, <3>2, <3>3
         DEF Sound, Placed, Timed, Presentable, Alive, At, Sent, Announced
  <2>6. CASE conn[o].token # None
    <3>1. /\ conn[o].token \in Tokens /\ conn[o].token.left \in Nat /\ conn[o].token.cached \in Nat
      BY <2>1, <2>6 DEF Connections, Tokens
    <3>2. /\ t \in Tokens /\ t.left = Minus(conn[o].token.left, 1)
          /\ t.cached = Minus(conn[o].token.cached, 1)
          /\ t.announced = conn[o].token.announced
      BY <2>4, <2>6, <3>1 DEF Aged, Tokens
    <3> HIDE DEF t, w
    <3>3. /\ conn'[o] \in Connections /\ conn'[o].token = t /\ conn'[o].waiting = w
          /\ conn'[o].pc = conn[o].pc /\ conn'[o].config = conn[o].config
          /\ conn'[o].cert = conn[o].cert /\ conn'[o].key = conn[o].key
          /\ conn'[o].sent = conn[o].sent
      BY <2>1, <2>2, <2>3, <3>2 DEF Connections
    <3>4. /\ NeedsToken(o)' = NeedsToken(o) /\ HasCertificate(o)' = HasCertificate(o)
          /\ TimeoutOf(o)' = TimeoutOf(o)
      BY <1>1, <3>3 DEF NeedsToken, TimeoutOf, FetchedBySDK, EffectiveGCP, EffectiveOIDC,
                        Resource, HasCertificate
    <3>5. Timed(o)'
      BY <2>1, <2>4, <2>6, <3>1, <3>2, <3>3 DEF Sound, Timed, Announced
    <3>6. Placed(o)'
      BY <2>1, <2>3, <2>6, <3>3, <3>4 DEF Sound, Placed, At
    <3>7. Presentable(o)' /\ Alive(o)'
      BY <2>1, <2>6, <3>2, <3>3, <3>4 DEF Sound, Presentable, Alive, Sent, Announced
    <3>8. QED
      BY <3>3, <3>5, <3>6, <3>7 DEF Sound
  <2>7. QED
    BY <2>5, <2>6
<1>3. conn' \in [Objects -> Connections]
  BY <1>2 DEF Tick
<1>4. QED
  BY <1>1, <1>2, <1>3 DEF Inv, TypeOK, UsersType

-----------------------------------------------------------------------------
(***************************************************************************)
(* What users do changes no client.                                        *)
(***************************************************************************)
LEMMA UsersInv ==
  ASSUME Inv, UNCHANGED <<object, conn>>, UsersType
  PROVE  Inv'
BY DEF Inv, TypeOK, UsersType, Sound, Placed, Timed, Presentable, Alive, At, Sent, Announced,
       NeedsToken, TimeoutOf, FetchedBySDK, EffectiveGCP, EffectiveOIDC, Resource, HasCertificate

LEMMA EditConfigInv ==
  ASSUME Inv, NEW o \in Objects, EditConfig(o)
  PROVE  Inv'
<1>1. configs' \in [ConfigIds -> ProviderConfigs \cup {None}]
  BY DEF EditConfig, Inv, TypeOK
<1>2. UsersType /\ UNCHANGED <<object, conn>>
  BY <1>1, SpentType DEF EditConfig, Inv, TypeOK, UsersType
<1>3. QED
  BY <1>2, UsersInv

LEMMA EditSecretsInv ==
  ASSUME Inv, EditSecrets
  PROVE  Inv'
<1>1. data' \in [SecretKeys -> Contents]
  BY DEF EditSecrets, Inv, TypeOK
<1>2. UsersType /\ UNCHANGED <<object, conn>>
  BY <1>1, SpentType DEF EditSecrets, Inv, TypeOK, UsersType
<1>3. QED
  BY <1>2, UsersInv

LEMMA InitInv == Init => Inv
<1> SUFFICES ASSUME Init PROVE Inv
  OBVIOUS
<1>1. conn \in [Objects -> Connections] /\ events \in 0 .. MaxEvents
  BY DisconnectedType, ConnectionConstants DEF Init
<1>2. TypeOK
  BY <1>1 DEF Init, TypeOK, Contents
<1>3. \A o \in Objects : Sound(o)
  BY ConnectionConstants
     DEF Init, Sound, Placed, Timed, Presentable, Alive, At, Sent, Announced, Disconnected
<1>4. QED
  BY <1>2, <1>3 DEF Inv

LEMMA NextInv == Inv /\ [Next]_vars => Inv'
<1> SUFFICES ASSUME Inv, [Next]_vars PROVE Inv'
  OBVIOUS
<1>1. CASE UNCHANGED vars
  BY <1>1, Unmoved, UsersInv DEF vars
<1>2. ASSUME NEW o \in Objects, ExchangeFails(o) \/ Finish(o) PROVE Inv'
  <2>1. UsersType /\ UNCHANGED object /\ Fail(o)
    BY <1>2, SpentType, Unmoved DEF ExchangeFails, Finish, Fail, Inv, TypeOK, UsersType
  <2>2. QED
    BY <2>1, FailInv
<1>3. ASSUME NEW o \in Objects, Reconcile(o) \/ EditConfig(o) PROVE Inv'
  BY <1>2, <1>3, ConnectInv, SendRequestInv, RequestTokenInv, ReceiveTokenInv, EditConfigInv
     DEF Reconcile
<1>4. QED
  BY <1>1, <1>3, EditSecretsInv, TickInv DEF Next

LEMMA Invariance == Spec => []Inv
BY InitInv, NextInv, PTL DEF Spec

(***************************************************************************)
(* Clients, tokens and calls keep their shape; what is loaded or merged is *)
(* what the API allows (Connect, LoadTLSConfig, the Merge functions).      *)
(***************************************************************************)
THEOREM TypeCorrect == Spec => []TypeOK
<1>1. Inv => TypeOK
  BY DEF Inv
<1>2. QED
  BY <1>1, Invariance, PTL

(***************************************************************************)
(* Whatever lifetimes, slacks and overrides of refreshBefore are: a token  *)
(* whose issuer says when it expires is never sent expired, as long as no  *)
(* exchange lasts longer than oauth2 keeps a token from being reused       *)
(* (exchange, generateAccessTokenAt and oauth2.ReuseTokenSource).          *)
(***************************************************************************)
THEOREM TokenAliveHolds == Spec => []TokenAlive
<1>1. Inv => TokenAlive
  BY DEF Inv, Sound, Alive, TokenAlive, Announced
<1>2. QED
  BY <1>1, Invariance, PTL
-----------------------------------------------------------------------------
(* Connected: what a client was built from stays what it is built from,    *)
(* and its last call carries what that says.                               *)
Building(o) == conn[o].pc \in {"idle", "config", "build"}

Validated(o) ==
  LET credentials == conn[o].config.credentials IN
  /\ ValidateAuthSelection(credentials, EffectiveGCP(o), EffectiveOIDC(o))
  /\ credentials = None => conn[o].creds = Empty
  /\ credentials # None /\ conn[o].creds = Empty => WithoutCredentials(o)

LoadedCA(o) ==
  conn[o].ca = None => Named(o, "caBundle") = None /\ Named(o, "caCertSecretRef") = None

LoadedPair(o, part, field) == FromRef(conn[o][part], Named(o, field))

Loaded(o) ==
  /\ conn[o].pc \in {"cert", "key", "call", "exchange"} => LoadedCA(o)
  /\ conn[o].pc \in {"key", "call", "exchange"} => LoadedPair(o, "cert", "clientCertSecretRef")
  /\ conn[o].pc \in {"call", "exchange"} => LoadedPair(o, "key", "clientKeySecretRef")

Carried(o) ==
  /\ conn[o].sent.headers = HeadersOf(o)
  /\ conn[o].sent.certificate = IF HasCertificate(o) THEN <<conn[o].cert, conn[o].key>> ELSE None

Connected(o) == (~Building(o) => Validated(o)) /\ Loaded(o) /\ (Sent(o) => Carried(o))

AllConnected == Inv /\ \A o \in Objects : Connected(o)

(***************************************************************************)
(* A step that builds no client, loads nothing and sends nothing.          *)
(***************************************************************************)
SameClient(c, d) ==
  c.config = d.config /\ c.creds = d.creds /\ c.ca = d.ca /\ c.cert = d.cert /\ c.key = d.key

LEMMA ValidatedKept ==
  ASSUME NEW o \in Objects, UNCHANGED object, conn'[o].config = conn[o].config,
         conn'[o].creds = conn[o].creds
  PROVE  Validated(o)' = Validated(o) /\ HeadersOf(o)' = HeadersOf(o)
<1>1. /\ EffectiveGCP(o)' = EffectiveGCP(o) /\ EffectiveOIDC(o)' = EffectiveOIDC(o)
      /\ Given(o)' = Given(o)
  BY DEF EffectiveGCP, EffectiveOIDC, Given, Resource
<1>2. HeadersOf(o)' = HeadersOf(o)
  BY <1>1 DEF HeadersOf
<1>3. WithoutCredentials(o)' = WithoutCredentials(o)
  BY DEF WithoutCredentials, SourcesOf
<1>4. Validated(o)' = Validated(o)
  BY <1>1, <1>3 DEF Validated
<1>5. QED
  BY <1>2, <1>4

LEMMA NamedKept ==
  ASSUME NEW o \in Objects, UNCHANGED object, conn'[o].config = conn[o].config
  PROVE  \A f : Named(o, f)' = Named(o, f)
BY DEF Named, Resource, Ref

LEMMA ConnectedKept ==
  ASSUME NEW o \in Objects, Connected(o), UNCHANGED object, SameClient(conn'[o], conn[o]),
         \/ conn'[o].pc = conn[o].pc
         \/ conn[o].pc \in {"call", "exchange"} /\ conn'[o].pc \in {"call", "exchange"},
         conn'[o].sent = conn[o].sent
  PROVE  Connected(o)'
<1>1. Validated(o)' = Validated(o) /\ HeadersOf(o)' = HeadersOf(o)
  BY ValidatedKept DEF SameClient
<1>2. \A f : Named(o, f)' = Named(o, f)
  BY NamedKept DEF SameClient
<1>3. Loaded(o)'
  BY <1>2 DEF Connected, Loaded, LoadedCA, LoadedPair, SameClient
<1>4. HasCertificate(o)' = HasCertificate(o)
  BY DEF HasCertificate, SameClient
<1>5. Sent(o)' => Carried(o)'
  BY <1>1, <1>4 DEF Connected, Carried, Sent, SameClient
<1>6. ~Building(o)' => Validated(o)'
  BY <1>1 DEF Connected, Building
<1>7. QED
  BY <1>3, <1>5, <1>6 DEF Connected

LEMMA NotConnected ==
  ASSUME NEW o \in Objects, Building(o)', conn'[o].sent = None
  PROVE  Connected(o)'
BY DEF Connected, Building, Loaded, Sent

(* A step of one object is none of the others.                             *)
LEMMA OthersConnected ==
  ASSUME AllConnected, NEW o \in Objects, NEW c, conn' = [conn EXCEPT ![o] = c],
         UNCHANGED object, Connected(o)', Inv'
  PROVE  AllConnected'
<1>1. ASSUME NEW p \in Objects \ {o} PROVE Connected(p)'
  <2>1. conn'[p] = conn[p]
    BY <1>1 DEF AllConnected, Inv, TypeOK
  <2>2. QED
    BY <2>1, ConnectedKept DEF AllConnected, SameClient
<1>2. QED
  BY <1>1 DEF AllConnected

LEMMA FailConnected ==
  ASSUME AllConnected, NEW o \in Objects, Fail(o), UNCHANGED object, Inv'
  PROVE  AllConnected'
<1>1. conn' = [conn EXCEPT ![o] = Disconnected] /\ conn'[o] = Disconnected
  BY DEF Fail, AllConnected, Inv, TypeOK
<1>2. Connected(o)'
  BY <1>1, NotConnected DEF Building, Disconnected
<1>3. QED
  BY <1>1, <1>2, OthersConnected

(***************************************************************************)
(* Nothing is extracted without an error only where there is nothing.      *)
(***************************************************************************)
LEMMA NothingExtracted ==
  ASSUME NEW credentials, credentials # None, NEW sources,
         ExtractedCredentials(credentials, sources) = Empty
  PROVE  credentials.source \in {"None", "Secret"} \/ credentials.source \notin sources
BY ConnectionConstants DEF ExtractedCredentials

(***************************************************************************)
(* A client is built from one mechanism, and without credentials there are *)
(* none to send (ValidateAuthSelection, extractCredentials).               *)
(***************************************************************************)
LEMMA BuildConnected ==
  ASSUME AllConnected, NEW o \in Objects, BuildHTTPClient(o, SourcesOf(o)), Inv'
  PROVE  AllConnected'
<1> DEFINE credentials == conn[o].config.credentials
           creds       == ExtractedCredentials(credentials, SourcesOf(o))
           c           == WithCreds(conn[o], creds)
<1>1. /\ conn[o] \in Connections /\ conn[o].pc = "build" /\ UNCHANGED object
      /\ conn \in [Objects -> Connections] /\ conn[o].sent = None
  BY DEF BuildHTTPClient, At, AllConnected, Inv, TypeOK, Sound, Placed
<1>2. CASE /\ ValidateAuthSelection(credentials, EffectiveGCP(o), EffectiveOIDC(o))
           /\ conn' = [conn EXCEPT ![o].creds = creds, ![o].pc = "ca"]
  <2>1. credentials = None => creds = Empty
    BY DEF ExtractedCredentials
  <2>2. (credentials # None /\ creds = Empty) =>
           credentials.source \in {"None", "Secret"} \/ credentials.source \notin SourcesOf(o)
    BY NothingExtracted
  <2> HIDE DEF creds
  <2>3. c.config = conn[o].config /\ c.creds = creds /\ c.pc = "ca" /\ c.sent = None
    BY <1>1 DEF WithCreds, Connections
  <2>4. conn' = [conn EXCEPT ![o] = c]
    BY <1>2 DEF WithCreds
  <2> HIDE DEF c
  <2>5. conn'[o] = c
    BY <1>1, <2>4
  <2>6. EffectiveGCP(o)' = EffectiveGCP(o) /\ EffectiveOIDC(o)' = EffectiveOIDC(o)
    BY <1>1, <2>3, <2>5 DEF EffectiveGCP, EffectiveOIDC, Resource
  <2>7. SourcesOf(o)' = SourcesOf(o)
    BY <1>1 DEF SourcesOf
  <2>8. Validated(o)'
    BY <1>2, <2>1, <2>2, <2>3, <2>5, <2>6, <2>7 DEF Validated, WithoutCredentials
  <2>9. Connected(o)'
    BY <2>3, <2>5, <2>8 DEF Connected, Loaded, Sent
  <2>10. QED
    BY <1>1, <2>4, <2>9, OthersConnected
<1>3. CASE Fail(o)
  BY <1>1, <1>3, FailConnected
<1>4. QED
  BY <1>2, <1>3 DEF BuildHTTPClient

(***************************************************************************)
(* A call carries the headers and the certificate of its client            *)
(* (SendRequest, buildTLSConfig).                                          *)
(***************************************************************************)
LEMMA SendConnected ==
  ASSUME AllConnected, NEW o \in Objects, conn[o].pc \in {"call", "exchange"}, NEW token,
         Send(o, token), UNCHANGED object, Inv'
  PROVE  AllConnected'
<1>1. conn[o] \in Connections /\ conn \in [Objects -> Connections]
  BY DEF AllConnected, Inv, TypeOK
<1> DEFINE refused == HasCertificate(o) /\ ~X509KeyPair(conn[o].cert, conn[o].key)
<1> DEFINE headers == HeadersOf(o)
           carries == \E n \in HeaderNames : headers[n] \in {"gcp", "oidc"}
           call    == [ headers     |-> headers,
                        alive       |-> carries => token.left > 0,
                        certificate |-> IF HasCertificate(o)
                                        THEN <<conn[o].cert, conn[o].key>> ELSE None ]
<1>2. /\ call.headers = HeadersOf(o)
      /\ call.certificate = IF HasCertificate(o) THEN <<conn[o].cert, conn[o].key>> ELSE None
      /\ conn' = [conn EXCEPT ![o].pc = "call", ![o].waiting = 0, ![o].token = token,
                    ![o].sent = IF refused THEN conn[o].sent ELSE call]
  BY DEF Send
<1> HIDE DEF call
<1>3. conn' = [conn EXCEPT ![o] = conn'[o]]
  BY <1>1, <1>2
<1>4. /\ SameClient(conn'[o], conn[o])
      /\ conn'[o].pc = "call" /\ conn'[o].sent = IF refused THEN conn[o].sent ELSE call
  BY <1>1, <1>2 DEF Connections, SameClient
<1> HIDE DEF refused
<1>5. CASE refused
  BY <1>3, <1>4, <1>5, ConnectedKept, OthersConnected DEF AllConnected
<1>6. CASE ~refused
  <2>1. /\ Validated(o)' = Validated(o) /\ HeadersOf(o)' = HeadersOf(o)
        /\ \A f : Named(o, f)' = Named(o, f)
    BY <1>4, ValidatedKept, NamedKept DEF SameClient
  <2>2. Validated(o)'
    BY <2>1 DEF AllConnected, Connected, Building
  <2>3. Loaded(o)'
    BY <1>4, <2>1 DEF AllConnected, Connected, Loaded, LoadedCA, LoadedPair, SameClient
  <2>4. HasCertificate(o)' = HasCertificate(o)
    BY <1>4 DEF HasCertificate, SameClient
  <2>5. Carried(o)'
    BY <1>2, <1>4, <1>6, <2>1, <2>4 DEF Carried, SameClient
  <2>6. QED
    BY <1>3, <2>2, <2>3, <2>5, OthersConnected DEF Connected
<1>7. QED
  BY <1>5, <1>6

(***************************************************************************)
(* The merged blocks name what the resource, or else the configuration,    *)
(* names (mergeSecretRefs).                                                *)
(***************************************************************************)
TLSFields == {"caBundle", "caCertSecretRef", "clientCertSecretRef", "clientKeySecretRef"}

LEMMA MergedNames ==
  ASSUME NEW r \in TLSConfig \cup {None}, NEW p \in TLSConfig \cup {None},
         NEW f \in TLSFields
  PROVE  Ref(MergeTLSConfigs(r, p), f) = IF Ref(r, f) # None THEN Ref(r, f) ELSE Ref(p, f)
<1>1. CASE r = None \/ p = None
  BY <1>1 DEF MergeTLSConfigs, Or, Ref
<1>2. CASE r # None /\ p # None
  <2>1. r \in TLSConfig /\ DOMAIN r = TLSFields
    BY <1>2 DEF TLSConfig, TLSFields
  <2>2. MergeTLSConfigs(r, p) = [g \in TLSFields |-> Or(r[g], p[g])]
    BY <1>2, <2>1 DEF MergeTLSConfigs
  <2>3. MergeTLSConfigs(r, p) # None
    <3>1. MergeTLSConfigs(r, p) \in TLSConfig
      <4>1. /\ Or(r["caBundle"], p["caBundle"]) \in Versions \cup {None}
            /\ \A g \in TLSFields \ {"caBundle"} :
                 Or(r[g], p[g]) \in SecretKeys \cup {None}
        BY <1>2, <2>1 DEF TLSConfig, TLSFields, Or
      <4>2. QED
        BY <2>2, <4>1 DEF TLSConfig, TLSFields
    <3>2. None \notin TLSConfig
      BY ConnectionConstants
    <3>3. QED
      BY <3>1, <3>2
  <2>4. Ref(MergeTLSConfigs(r, p), f) = Or(r[f], p[f])
    BY <2>2, <2>3 DEF Ref
  <2>5. QED
    BY <1>2, <2>4 DEF Ref, Or
<1>3. QED
  BY <1>1, <1>2

LEMMA EffectiveNames ==
  ASSUME TypeOK, NEW o \in Objects, conn[o].config # None, NEW f \in TLSFields
  PROVE  /\ Ref(EffectiveTLS(o), f) = Named(o, f)
         /\ f # "caBundle" => Named(o, f) \in SecretKeys \cup {None}
<1>1. /\ Resource(o).tls \in TLSConfig \cup {None}
      /\ conn[o].config.tls \in TLSConfig \cup {None}
  <2>1. Resource(o) \in ForProvider /\ conn[o].config \in ProviderConfigSpec
    BY ConnectionConstants DEF Resource, TypeOK, CustomResources, Connections
  <2>2. QED
    BY <2>1 DEF ForProvider, ProviderConfigSpec
<1>2. Ref(EffectiveTLS(o), f) = Named(o, f)
  BY <1>1, MergedNames DEF EffectiveTLS, Named
<1>3. f # "caBundle" => Named(o, f) \in SecretKeys \cup {None}
  BY <1>1 DEF Named, Ref, TLSConfig, TLSFields
<1>4. QED
  BY <1>2, <1>3

(***************************************************************************)
(* Of the TLS material one part is read after the other, and each is what  *)
(* is named (LoadTLSConfig).                                               *)
(***************************************************************************)
LEMMA PartKept ==
  ASSUME NEW c \in Connections, NEW v, NEW next, NEW part \in {"ca", "cert", "key"}
  PROVE  LET d == WithPart(c, part, v, next)
         IN  /\ d.pc = next /\ d.config = c.config /\ d.creds = c.creds /\ d.sent = c.sent
             /\ d[part] = v
             /\ \A other \in {"ca", "cert", "key"} \ {part} : d[other] = c[other]
<1>1. CASE part = "ca"
  BY <1>1 DEF Connections, WithPart
<1>2. CASE part = "cert"
  BY <1>2 DEF Connections, WithPart
<1>3. CASE part = "key"
  BY <1>3 DEF Connections, WithPart
<1>4. QED
  BY <1>1, <1>2, <1>3

LEMMA PartConnected ==
  ASSUME AllConnected, NEW o \in Objects, NEW part \in {"ca", "cert", "key"}, NEW next, NEW v,
         At(o, part), conn' = [conn EXCEPT ![o] = WithPart(conn[o], part, v, next)],
         UNCHANGED object, Inv',
         \/ part = "ca"   /\ next = "cert"
              /\ (v = None => Named(o, "caBundle") = None /\ Named(o, "caCertSecretRef") = None)
         \/ part = "cert" /\ next = "key"  /\ FromRef(v, Named(o, "clientCertSecretRef"))
         \/ part = "key"  /\ next = "call" /\ FromRef(v, Named(o, "clientKeySecretRef"))
  PROVE  AllConnected'
<1> DEFINE c == WithPart(conn[o], part, v, next)
<1>1. /\ conn \in [Objects -> Connections] /\ conn[o] \in Connections
      /\ conn[o].sent = None /\ Connected(o)
  BY DEF AllConnected, Inv, TypeOK, Sound, Placed, At
<1>2. /\ c.config = conn[o].config /\ c.creds = conn[o].creds /\ c.sent = None
      /\ c.pc = next /\ c[part] = v
      /\ \A other \in {"ca", "cert", "key"} \ {part} : c[other] = conn[o][other]
  BY <1>1, PartKept
<1> HIDE DEF c
<1>3. conn' = [conn EXCEPT ![o] = c] /\ conn'[o] = c
  BY <1>1 DEF c
<1>4. Validated(o)' = Validated(o) /\ \A f : Named(o, f)' = Named(o, f)
  BY <1>2, <1>3, ValidatedKept, NamedKept
<1>5. Validated(o)'
  <2>1. conn[o].pc = part /\ ~Building(o)
    BY DEF At, Building
  <2>2. QED
    BY <1>1, <1>4, <2>1 DEF Connected
<1>6. ASSUME part = "ca" PROVE Loaded(o)'
  <2>1. conn'[o].pc = "cert" /\ conn'[o].ca = v
    BY <1>2, <1>3, <1>6
  <2>2. v = None => Named(o, "caBundle")' = None /\ Named(o, "caCertSecretRef")' = None
    BY <1>4, <1>6
  <2>3. QED
    BY <2>1, <2>2 DEF Loaded, LoadedCA
<1>7. ASSUME part = "cert" PROVE Loaded(o)'
  <2>1. conn'[o].pc = "key" /\ conn'[o].cert = v /\ conn'[o].ca = conn[o].ca
    BY <1>2, <1>3, <1>7
  <2>2. LoadedCA(o) /\ FromRef(v, Named(o, "clientCertSecretRef"))
    BY <1>1, <1>7 DEF Connected, Loaded, At
  <2>3. LoadedCA(o)' /\ LoadedPair(o, "cert", "clientCertSecretRef")'
    BY <1>4, <2>1, <2>2 DEF LoadedCA, LoadedPair
  <2>4. QED
    BY <2>1, <2>3 DEF Loaded
<1>8. ASSUME part = "key" PROVE Loaded(o)'
  <2>1. /\ conn'[o].pc = "call" /\ conn'[o].key = v
        /\ conn'[o].ca = conn[o].ca /\ conn'[o].cert = conn[o].cert
    BY <1>2, <1>3, <1>8
  <2>2. /\ LoadedCA(o) /\ LoadedPair(o, "cert", "clientCertSecretRef")
        /\ FromRef(v, Named(o, "clientKeySecretRef"))
    BY <1>1, <1>8 DEF Connected, Loaded, At
  <2>3. /\ LoadedCA(o)' /\ LoadedPair(o, "cert", "clientCertSecretRef")'
        /\ LoadedPair(o, "key", "clientKeySecretRef")'
    BY <1>4, <2>1, <2>2 DEF LoadedCA, LoadedPair
  <2>4. QED
    BY <2>1, <2>3 DEF Loaded
<1>9. Connected(o)'
  BY <1>2, <1>3, <1>5, <1>6, <1>7, <1>8 DEF Connected, Sent
<1>10. QED
  BY <1>3, <1>9, OthersConnected

LEMMA LoadConnected ==
  ASSUME AllConnected, NEW o \in Objects, LoadTLSConfig(o), Inv'
  PROVE  AllConnected'
<1>1. /\ UNCHANGED object /\ conn \in [Objects -> Connections] /\ TypeOK
      /\ conn[o].config # None
  BY DEF LoadTLSConfig, InlineCA, Load, At, AllConnected, Inv, TypeOK, Sound, Placed
<1>2. \A f \in TLSFields : /\ Ref(EffectiveTLS(o), f) = Named(o, f)
                           /\ f # "caBundle" => Named(o, f) \in SecretKeys \cup {None}
  BY <1>1, EffectiveNames
<1>3. CASE InlineCA(o)
  <2> DEFINE v == EffectiveTLS(o).caBundle
  <2>1. v # None
    BY <1>3 DEF InlineCA, Ref
  <2>2. At(o, "ca") /\ conn' = [conn EXCEPT ![o] = WithPart(conn[o], "ca", v, "cert")]
    BY <1>3 DEF InlineCA, WithPart
  <2> HIDE DEF v
  <2>3. QED
    BY <1>1, <2>1, <2>2, PartConnected
<1>4. ASSUME NEW part \in {"ca", "cert", "key"}, NEW next \in {"cert", "key", "call"},
             NEW field \in TLSFields \ {"caBundle"}, Load(o, part, field, next),
             \/ part = "ca"   /\ next = "cert" /\ field = "caCertSecretRef"
                  /\ Ref(EffectiveTLS(o), "caBundle") = None
             \/ part = "cert" /\ next = "key"  /\ field = "clientCertSecretRef"
             \/ part = "key"  /\ next = "call" /\ field = "clientKeySecretRef"
      PROVE  AllConnected'
  <2> DEFINE ref == Ref(EffectiveTLS(o), field)
             v   == LoadSecretData(ref)
  <2>1. ref = Named(o, field) /\ ref \in SecretKeys \cup {None}
    BY <1>2
  <2>2. CASE Loadable(ref)
    <3>1. At(o, part) /\ conn' = [conn EXCEPT ![o] = WithPart(conn[o], part, v, next)]
      BY <1>4, <2>2 DEF Load, WithPart
    <3>2. Ref(EffectiveTLS(o), "caBundle") = Named(o, "caBundle")
      BY <1>2 DEF TLSFields
    <3> HIDE DEF ref
    <3>3. FromRef(v, ref) /\ (v = None <=> ref = None)
      BY <1>1, <2>1, <2>2, LoadSecretDataType, FromRefType
    <3> HIDE DEF v
    <3>4. QED
      BY <1>1, <1>4, <2>1, <3>1, <3>2, <3>3, PartConnected
  <2>3. CASE ~Loadable(ref)
    BY <1>1, <1>4, <2>3, FailConnected DEF Load
  <2>4. QED
    BY <2>2, <2>3
<1>5. QED
  BY <1>3, <1>4 DEF LoadTLSConfig, TLSFields

(***************************************************************************)
(* The other steps of a reconcile leave a client as it was built.          *)
(***************************************************************************)
LEMMA BeforeConnected ==
  ASSUME AllConnected, NEW o \in Objects, NEW id, Track(o) \/ GetConfig(o, id), Inv'
  PROVE  AllConnected'
<1>1. /\ conn \in [Objects -> Connections] /\ conn[o].sent = None /\ UNCHANGED object
  BY DEF Track, GetConfig, At, AllConnected, Inv, TypeOK, Sound, Placed
<1>2. ASSUME conn' = [conn EXCEPT ![o] = conn'[o]], conn'[o].pc \in {"config", "build"},
             conn'[o].sent = None
      PROVE  AllConnected'
  BY <1>1, <1>2, NotConnected, OthersConnected DEF Building
<1>3. CASE Track(o)
  BY <1>1, <1>2, <1>3 DEF Track, Connections
<1>4. CASE conn' = [conn EXCEPT ![o].config = configs[id], ![o].pc = "build"]
  <2>1. conn'[o].pc = "build" /\ conn'[o].sent = None
    BY <1>1, <1>4 DEF Connections
  <2>2. conn' = [conn EXCEPT ![o] = conn'[o]]
    BY <1>1, <1>4
  <2>3. QED
    BY <1>2, <2>1, <2>2
<1>5. QED
  BY <1>1, <1>3, <1>4, FailConnected DEF GetConfig

LEMMA ConnectConnected ==
  ASSUME AllConnected, NEW o \in Objects, Connect(o), Inv'
  PROVE  AllConnected'
<1>1. NoDefaultCredentials(o) => AllConnected'
  BY FailConnected DEF NoDefaultCredentials
<1>2. QED
  BY <1>1, BeforeConnected, BuildConnected, LoadConnected
     DEF Connect, ConnectNamespacedRequest, ConnectNamespacedDisposable,
         ConnectClusterRequest, ConnectClusterDisposable, SourcesOf

LEMMA CallsConnected ==
  ASSUME AllConnected, NEW o \in Objects,
         SendRequest(o) \/ RequestToken(o) \/ ReceiveToken(o) \/ ExchangeFails(o) \/ Finish(o),
         Inv'
  PROVE  AllConnected'
<1>1. conn \in [Objects -> Connections] /\ conn[o] \in Connections
  BY DEF AllConnected, Inv, TypeOK
<1>2. CASE SendRequest(o)
  BY <1>2, SendConnected DEF SendRequest, At
<1>3. CASE ReceiveToken(o)
  BY <1>3, SendConnected DEF ReceiveToken, At
<1>4. CASE RequestToken(o)
  <2>1. UNCHANGED object /\ conn[o].pc = "call"
    BY <1>4 DEF RequestToken, At
  <2>2. CASE conn' = [conn EXCEPT ![o].pc = "exchange", ![o].token = None]
    <3>1. /\ SameClient(conn'[o], conn[o]) /\ conn'[o].pc = "exchange"
          /\ conn'[o].sent = conn[o].sent /\ conn' = [conn EXCEPT ![o] = conn'[o]]
      BY <1>1, <2>2 DEF Connections, SameClient
    <3>2. QED
      BY <2>1, <3>1, ConnectedKept, OthersConnected DEF AllConnected
  <2>3. CASE Fail(o)
    BY <2>1, <2>3, FailConnected
  <2>4. QED
    BY <1>4, <2>2, <2>3 DEF RequestToken
<1>5. CASE ExchangeFails(o) \/ Finish(o)
  BY <1>5, FailConnected DEF ExchangeFails, Finish, Fail
<1>6. QED
  BY <1>2, <1>3, <1>4, <1>5

LEMMA TickConnected ==
  ASSUME AllConnected, Tick, Inv'
  PROVE  AllConnected'
<1>1. ASSUME NEW o \in Objects PROVE Connected(o)'
  <2>1. conn[o] \in Connections /\ UNCHANGED object
    BY DEF AllConnected, Inv, TypeOK, Tick
  <2>2. /\ SameClient(conn'[o], conn[o])
        /\ conn'[o].sent = conn[o].sent /\ conn'[o].pc = conn[o].pc
    BY <2>1 DEF Tick, Connections, SameClient
  <2>3. QED
    BY <2>1, <2>2, ConnectedKept DEF AllConnected
<1>2. QED
  BY <1>1 DEF AllConnected

LEMMA ConnectedInvariance == Spec => []AllConnected
<1>1. Init => AllConnected
  <2> SUFFICES ASSUME Init PROVE AllConnected
    OBVIOUS
  <2>1. \A o \in Objects : Connected(o)
    BY DEF Init, Disconnected, Connected, Building, Loaded, Sent
  <2>2. QED
    BY <2>1, InitInv DEF AllConnected
<1>2. AllConnected /\ [Next]_vars => AllConnected'
  <2> SUFFICES ASSUME AllConnected, [Next]_vars PROVE AllConnected'
    OBVIOUS
  <2>1. Inv'
    BY NextInv DEF AllConnected
  <2>2. ASSUME UNCHANGED <<object, conn>> PROVE AllConnected'
    BY <2>1, <2>2, ConnectedKept DEF AllConnected, SameClient
  <2>3. CASE UNCHANGED vars
    BY <2>2, <2>3 DEF vars
  <2>4. ASSUME NEW o \in Objects, Reconcile(o) \/ EditConfig(o) PROVE AllConnected'
    BY <2>1, <2>2, <2>4, ConnectConnected, CallsConnected DEF Reconcile, EditConfig
  <2>5. QED
    BY <2>1, <2>2, <2>3, <2>4, TickConnected DEF Next, EditSecrets
<1>3. QED
  BY <1>1, <1>2, PTL DEF Spec

(***************************************************************************)
(* Whatever the TLS blocks of a resource and of its configuration name,    *)
(* whichever of them names it, and however their Secrets change between    *)
(* the reads: a call goes with the client certificate whose two halves are *)
(* named, each from the Secret its own reference names, and never without  *)
(* a CA that is named (MergeTLSConfigs, LoadTLSConfig, buildTLSConfig).    *)
(***************************************************************************)
THEOREM TLSAsNamedHolds == Spec => []TLSAsNamed
<1>1. AllConnected => TLSAsNamed
  <2> SUFFICES ASSUME AllConnected, NEW o \in Objects, Sent(o)
               PROVE  LET cert == Named(o, "clientCertSecretRef")
                          key  == Named(o, "clientKeySecretRef")
                          sent == conn[o].sent.certificate
                      IN
                      /\ (cert # None /\ key # None /\ Empty \notin {conn[o].cert, conn[o].key})
                           => sent # None
                      /\ sent # None => /\ cert # None /\ sent[1][1] = SecretOf(cert)
                                        /\ key # None /\ sent[2][1] = SecretOf(key)
                      /\ conn[o].ca = None
                           => Named(o, "caBundle") = None /\ Named(o, "caCertSecretRef") = None
    BY DEF TLSAsNamed
  <2> DEFINE cert == Named(o, "clientCertSecretRef")
             key  == Named(o, "clientKeySecretRef")
             sent == conn[o].sent.certificate
  <2>1. conn[o].pc \in {"call", "exchange"} /\ conn[o].config # None
    BY DEF AllConnected, Inv, Sound, Placed, Sent
  <2>2. /\ LoadedCA(o) /\ FromRef(conn[o].cert, cert) /\ FromRef(conn[o].key, key)
        /\ sent = IF HasCertificate(o) THEN <<conn[o].cert, conn[o].key>> ELSE None
    BY <2>1 DEF AllConnected, Connected, Loaded, LoadedPair, Carried
  <2>3. cert \in SecretKeys \cup {None} /\ key \in SecretKeys \cup {None}
    BY <2>1, EffectiveNames DEF AllConnected, Inv, TLSFields
  <2> HIDE DEF cert, key
  <2>4. /\ conn[o].cert \in Half /\ (conn[o].cert = None <=> cert = None)
        /\ conn[o].key \in Half /\ (conn[o].key = None <=> key = None)
    BY <2>2, <2>3, FromRefType
  <2>5. ASSUME cert # None, key # None, Empty \notin {conn[o].cert, conn[o].key}
        PROVE  sent # None
    <3>1. HasCertificate(o) /\ conn[o].cert \in Material /\ conn[o].key \in Material
      BY <2>4, <2>5 DEF HasCertificate, Half
    <3>2. sent \in Material \X Material
      BY <2>2, <3>1
    <3>3. QED
      BY <3>2, ConnectionConstants
  <2>6. ASSUME sent # None
        PROVE  /\ cert # None /\ sent[1][1] = SecretOf(cert)
               /\ key # None /\ sent[2][1] = SecretOf(key)
    <3>1. /\ HasCertificate(o) /\ sent = <<conn[o].cert, conn[o].key>>
          /\ conn[o].cert \notin {None, Empty} /\ conn[o].key \notin {None, Empty}
      BY <2>2, <2>6 DEF HasCertificate
    <3>2. /\ conn[o].cert \in {SecretOf(cert)} \X Versions
          /\ conn[o].key \in {SecretOf(key)} \X Versions
      BY <2>2, <2>4, <3>1 DEF FromRef
    <3>3. conn[o].cert[1] = SecretOf(cert) /\ conn[o].key[1] = SecretOf(key)
      BY <3>2
    <3>4. QED
      BY <2>4, <3>1, <3>3
  <2>7. QED
    BY <2>2, <2>5, <2>6 DEF LoadedCA, cert, key
<1>2. QED
  BY <1>1, ConnectedInvariance, PTL

-----------------------------------------------------------------------------
(***************************************************************************)
(* Two of three mechanisms would be two elements of the set that           *)
(* ValidateAuthSelection counts.                                           *)
(***************************************************************************)
LEMMA OneSelected ==
  ASSUME NEW credentials, NEW gcp, NEW oidc, ValidateAuthSelection(credentials, gcp, oidc)
  PROVE  \/ credentials # None /\ gcp = None /\ oidc = None
         \/ credentials = None /\ gcp # None /\ oidc = None
         \/ credentials = None /\ gcp = None /\ oidc # None
<1> DEFINE M == {m \in {"credentials", "gcp", "oidc"} :
                   \/ m = "credentials" /\ credentials # None
                   \/ m = "gcp" /\ gcp # None
                   \/ m = "oidc" /\ oidc # None}
<1>1. Cardinality(M) = 1
  BY DEF ValidateAuthSelection
<1>2. IsFiniteSet({"credentials", "gcp", "oidc"})
  <2>1. IsFiniteSet({"credentials"} \cup {"gcp"} \cup {"oidc"})
    BY FS_Singleton, FS_AddElement
  <2>2. {"credentials"} \cup {"gcp"} \cup {"oidc"} = {"credentials", "gcp", "oidc"}
    OBVIOUS
  <2>3. QED
    BY <2>1, <2>2
<1>3. IsFiniteSet(M)
  BY <1>2, FS_Subset
<1>4. PICK x : M = {x}
  <2> HIDE DEF M
  <2>1. QED
    BY <1>1, <1>3, FS_Singleton
<1>5. /\ "credentials" \in M <=> credentials # None
      /\ "gcp" \in M <=> gcp # None
      /\ "oidc" \in M <=> oidc # None
  OBVIOUS
<1> HIDE DEF M
<1>6. \A m, n : m \in M /\ n \in M => m = n
  BY <1>4
<1>7. x \in M /\ x \in {"credentials", "gcp", "oidc"}
  BY <1>4 DEF M
<1>8. QED
  BY <1>5, <1>6, <1>7

(***************************************************************************)
(* Headers with one decorator: none of the values is added twice.          *)
(***************************************************************************)
LEMMA AtMostOneHeader ==
  ASSUME NEW headers, NEW n \in HeaderNames,
         \A m \in HeaderNames \ {n} : headers[m] \notin {"gcp", "oidc", "credentials"}
  PROVE  Cardinality({m \in HeaderNames : headers[m] \in {"gcp", "oidc", "credentials"}}) <= 1
<1> DEFINE H == {m \in HeaderNames : headers[m] \in {"gcp", "oidc", "credentials"}}
<1>1. H \in SUBSET {n}
  OBVIOUS
<1>2. IsFiniteSet({n}) /\ Cardinality({n}) = 1
  BY FS_Singleton
<1> HIDE DEF H
<1>3. Cardinality(H) <= 1
  BY <1>1, <1>2, FS_Subset
<1>4. QED
  BY <1>3 DEF H

LEMMA Decorated ==
  ASSUME NEW o \in Objects, NEW n \in HeaderNames, NEW v \in {"gcp", "oidc", "credentials"},
         conn[o].sent.headers = AddIfAbsent(Given(o), n, v)
  PROVE  Cardinality(ProviderHeaders(o)) <= 1 /\ conn[o].sent.headers[n] # None
<1> DEFINE h == conn[o].sent.headers
<1>1. None \notin {"caller", "gcp", "oidc", "credentials"}
  BY ConnectionConstants DEF HeaderValues
<1>2. Given(o) \in [HeaderNames -> {"caller", None}]
  BY DEF Given
<1>3. \A m \in HeaderNames \ {n} : h[m] \in {"caller", None}
  BY <1>2 DEF AddIfAbsent
<1>4. h[n] # None
  BY <1>1, <1>2 DEF AddIfAbsent
<1> HIDE DEF h
<1>5. \A m \in HeaderNames \ {n} : h[m] \notin {"gcp", "oidc", "credentials"}
  BY <1>1, <1>3
<1>6. QED
  BY <1>4, <1>5, AtMostOneHeader DEF ProviderHeaders, h

LEMMA CarriedSingle ==
  ASSUME Inv, NEW o \in Objects, Validated(o), Carried(o), conn[o].config # None
  PROVE  /\ Cardinality(ProviderHeaders(o)) <= 1
         /\ \/ \E n \in HeaderNames : conn[o].sent.headers[n] # None
            \/ WithoutCredentials(o)
<1> DEFINE credentials == conn[o].config.credentials
           gcp         == EffectiveGCP(o)
           oidc        == EffectiveOIDC(o)
<1>1. /\ conn[o].sent.headers = HeadersOf(o) /\ (credentials = None => conn[o].creds = Empty)
      /\ (credentials # None /\ conn[o].creds = Empty) => WithoutCredentials(o)
  BY DEF Carried, Validated
<1>2. \/ credentials # None /\ gcp = None /\ oidc = None
      \/ credentials = None /\ gcp # None /\ oidc = None
      \/ credentials = None /\ gcp = None /\ oidc # None
  BY OneSelected DEF Validated
<1>3. oidc \in OIDCConfig \cup {None}
  BY EffectiveType DEF Inv
<1>4. CASE credentials # None /\ conn[o].creds = Empty
  <2>1. conn[o].sent.headers = Given(o)
    BY <1>1, <1>2, <1>4 DEF HeadersOf, ClientHeaders
  <2>2. \A m \in HeaderNames : Given(o)[m] \in {"caller", None}
    BY DEF Given
  <2>3. "Authorization" \in HeaderNames /\ None \notin {"gcp", "oidc", "credentials"}
    BY ConnectionConstants DEF HeaderNames, HeaderValues
  <2>4. Cardinality(ProviderHeaders(o)) <= 1
    BY <2>1, <2>2, <2>3, AtMostOneHeader DEF ProviderHeaders
  <2>5. QED
    BY <1>1, <1>4, <2>4
<1>5. CASE credentials # None /\ conn[o].creds # Empty
  <2>1. conn[o].sent.headers = AddIfAbsent(Given(o), "Authorization", "credentials")
    BY <1>1, <1>2, <1>5 DEF HeadersOf, ClientHeaders
  <2>2. QED
    BY <2>1, Decorated DEF HeaderNames
<1>6. CASE credentials = None /\ gcp # None
  <2>1. conn[o].sent.headers = AddIfAbsent(Given(o), "Authorization", "gcp")
    BY <1>1, <1>6 DEF HeadersOf, ClientHeaders, GCPClientHeaders
  <2>2. QED
    BY <2>1, Decorated DEF HeaderNames
<1>7. CASE credentials = None /\ gcp = None
  <2> DEFINE n == IF oidc.inject = None THEN "Authorization" ELSE oidc.inject
  <2>1. oidc # None
    BY <1>2, <1>7
  <2>2. conn[o].sent.headers = AddIfAbsent(Given(o), n, "oidc")
    BY <1>1, <1>7, <2>1 DEF HeadersOf, ClientHeaders, OIDCClientHeaders
  <2>3. n \in HeaderNames
    BY <1>3, <2>1 DEF OIDCConfig, HeaderNames
  <2> HIDE DEF n
  <2>4. QED
    BY <2>2, <2>3, Decorated
<1>8. QED
  BY <1>4, <1>5, <1>6, <1>7

(***************************************************************************)
(* Whatever the blocks of the resource and of its configuration say and    *)
(* however they are merged: no call carries credentials of two mechanisms, *)
(* nor none at all, unless the configuration has source None, its Secret   *)
(* holds nothing under the key, or the controller of the object does not   *)
(* ask for its source (ValidateAuthSelection, extractCredentials and the   *)
(* decorators of the HTTP client).                                         *)
(***************************************************************************)
THEOREM OneMechanismHolds == Spec => []OneMechanism
<1>1. AllConnected => OneMechanism
  <2> SUFFICES ASSUME AllConnected, NEW o \in Objects, Sent(o)
               PROVE  /\ Cardinality(ProviderHeaders(o)) <= 1
                      /\ \/ \E n \in HeaderNames : conn[o].sent.headers[n] # None
                         \/ WithoutCredentials(o)
    BY DEF OneMechanism
  <2>1. conn[o].pc \in {"call", "exchange"} /\ conn[o].config # None
    BY DEF AllConnected, Inv, Sound, Placed, Sent
  <2>2. Validated(o) /\ Carried(o)
    BY <2>1 DEF AllConnected, Connected, Building
  <2>3. QED
    BY <2>1, <2>2, CarriedSingle DEF AllConnected
<1>2. QED
  BY <1>1, ConnectedInvariance, PTL
=============================================================================
