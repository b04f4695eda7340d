------------------------------ MODULE Connection ------------------------------
(***************************************************************************)
(* How a reconcile gets its HTTP client and what its calls carry.          *)
(*                                                                         *)
(* Connect reads the provider configuration, the credentials and the TLS   *)
(* material one after the other from the API server, while users edit      *)
(* them; the calls of the reconcile then use what was read, and a token    *)
(* that is exchanged when it is needed and reused while it lasts.  There   *)
(* are four controllers, for two kinds of object in two scopes.            *)
(*                                                                         *)
(* Time is what is left of the lifetime of each token.                     *)
(***************************************************************************)
EXTENDS Naturals, FiniteSets

CONSTANTS
  Objects,        \* The custom resources.
  Namespace,      \* The namespace of each of them.
  Specs,          \* What a forProvider block may say of the connection.
  ProviderConfigs,\* What the spec of a provider configuration may be.
  Secrets,        \* The Secrets they may refer to, as the sets of their keys.
  Versions,       \* Versions of their contents.
  Ambient,        \* Credentials in the environment or a file of the provider.
  None,           \* Not set.
  Missing, Absent,\* No such Secret; the Secret has no such key.
  Empty,          \* The empty string.
  Lifetime,       \* Of a token, in ticks.
  Timeout,        \* Of an exchange (oidcHTTPTimeout, gcpHTTPTimeout).
  Patience,       \* Bound: how long Google's SDK waits for its own token.
  ExpiryDelta,    \* A token is not reused so shortly before its expiry (oauth2).
  RefreshBefore,  \* DefaultOIDCRefreshBefore.
  RefreshSlack,   \* impersonateRefreshSlack.
  Fallback,       \* Of an impersonated token without expireTime.
  MaxEvents       \* Bound: edits of users and failures.

-----------------------------------------------------------------------------
(* The data.                                                               *)

SecretKeys == UNION Secrets

CredentialsSources == {"None", "Secret", "InjectedIdentity", "Environment", "Filesystem"}

ProviderCredentials == [source : CredentialsSources, key : SecretKeys \cup {None}]

HeaderNames == {"Authorization", "X-Token"}

(* Who set a header.                                                       *)
HeaderValues == {"caller", "gcp", "oidc", "credentials"}

OIDCConfig ==
  [ exchange : BOOLEAN, inject : HeaderNames \cup {None}, refreshBefore : Nat \cup {None} ]

GCPAuth == [serviceAccount : BOOLEAN]

(* What a key of a Secret may hold.                                        *)
Contents == Versions \cup {Missing, Absent, Empty}

(* A half of a key pair: one version of what a Secret holds.               *)
Material == Secrets \X Versions

Half == Material \cup {None, Empty}

(* caBundle is inline; the rest is in Secrets.                             *)
TLSConfig ==
  [ caBundle : Versions \cup {None}, caCertSecretRef : SecretKeys \cup {None},
    clientCertSecretRef : SecretKeys \cup {None}, clientKeySecretRef : SecretKeys \cup {None} ]

ProviderConfigSpec ==
  [ credentials : ProviderCredentials \cup {None}, oidc : OIDCConfig \cup {None},
    gcp : GCPAuth \cup {None}, tls : TLSConfig \cup {None} ]

(* authorization: the headers of the spec contain "Authorization".         *)
ForProvider ==
  [ oidc : OIDCConfig \cup {None}, gcp : GCPAuth \cup {None}, tls : TLSConfig \cup {None},
    authorization : BOOLEAN ]

Kinds == {"NamespacedRequest", "NamespacedDisposable", "ClusterRequest", "ClusterDisposable"}

ClusterKinds == {"ClusterRequest", "ClusterDisposable"}

RefKinds == {"ProviderConfig", "ClusterProviderConfig", "Other"}

(* An object of the cluster scope refers to a ProviderConfig by name.      *)
CustomResources ==
  { r \in [kind : Kinds, ref : RefKinds, spec : Specs] :
      r.kind \in ClusterKinds => r.ref = "ProviderConfig" }

(* Configurations by kind and namespace; names are left out.               *)
ConfigIds ==
  {<<"ProviderConfig", "">>, <<"ClusterProviderConfig", "">>}
    \cup {<<"ProviderConfig", Namespace[o]>> : o \in Objects}

ASSUME ConnectionConstants ==
  /\ Specs \subseteq ForProvider
  /\ ProviderConfigs \subseteq ProviderConfigSpec
  /\ Versions \cap {None, Missing, Absent, Empty, Ambient} = {}
  /\ {None, Empty} \cap (TLSConfig \cup Material \cup (Material \X Material)) = {}
  /\ None \notin {Missing, Absent, Empty, Ambient} /\ Empty \notin {Missing, Absent, Ambient}
  /\ None \notin HeaderValues
  /\ {RefreshBefore, RefreshSlack, Fallback, MaxEvents} \subseteq Nat
  /\ Timeout \in Nat \ {0} /\ Patience \in Nat \ {0}
  /\ Lifetime \in Nat /\ Timeout < Lifetime
  /\ ExpiryDelta \in Nat /\ Timeout <= ExpiryDelta

VARIABLES
  object,   \* Kind, reference and forProvider block of each object.
  configs,  \* The provider configurations; None: there is no such one.
  data,     \* The contents of Secrets.
  conn,     \* The reconcile of each object, its client and its last call.
  events    \* History: edits and failures so far.

vars == <<object, configs, data, conn, events>>

PCs == {"idle", "config", "build", "ca", "cert", "key", "call", "exchange"}

(* "sdk": of the SDK's own tokens, which it caches and renews by itself.   *)
Announcements == {"expires_in", "exp", "expireTime", "sdk", "none"}

(* left: until it expires at its issuer; cached: until its stored Expiry.  *)
Tokens == [left : Nat, cached : Nat, announced : Announcements]

(* What a call carried; alive: no token in it had expired.                 *)
Calls ==
  [ headers : [HeaderNames -> HeaderValues \cup {None}], alive : BOOLEAN,
    certificate : (Material \X Material) \cup {None} ]

Connections ==
  [ pc : PCs, config : ProviderConfigSpec \cup {None},
    creds : Versions \cup {Ambient, Empty},
    ca : Versions \cup Half, cert : Half, key : Half,
    waiting : Nat, token : Tokens \cup {None}, sent : Calls \cup {None} ]

Disconnected ==
  [ pc |-> "idle", config |-> None, creds |-> Empty, ca |-> None, cert |-> None, key |-> None,
    waiting |-> 0, token |-> None, sent |-> None ]

TypeOK ==
  /\ object \in [Objects -> CustomResources]
  /\ configs \in [ConfigIds -> ProviderConfigs \cup {None}]
  /\ data \in [SecretKeys -> Contents]
  /\ conn \in [Objects -> Connections]
  /\ events \in 0 .. MaxEvents

(* Initially a configuration is wherever one is referred to.               *)
Init ==
  /\ object \in [Objects -> CustomResources]
  /\ \E c \in ProviderConfigs : configs = [id \in ConfigIds |-> c]
  /\ \E v \in Versions : data = [k \in SecretKeys |-> v]
  /\ conn = [o \in Objects |-> Disconnected]
  /\ events = 0

At(o, pc) == conn[o].pc = pc

Spent == events < MaxEvents /\ events' = events + 1

-----------------------------------------------------------------------------
(* Merging the blocks of the resource over those of its configuration.     *)

Or(override, base) == IF override # None THEN override ELSE base

(* Or, field by field, where both are set.                                 *)
MergeOIDCConfigs(override, base) ==
  IF override = None \/ base = None THEN Or(override, base)
  ELSE [ exchange      |-> override.exchange \/ base.exchange,
         inject        |-> Or(override.inject, base.inject),
         refreshBefore |-> Or(override.refreshBefore, base.refreshBefore) ]

MergeGCPConfigs(override, base) ==
  IF override = None \/ base = None THEN Or(override, base)
  ELSE [serviceAccount |-> override.serviceAccount \/ base.serviceAccount]

(* Mutated: the block of the resource replaces that of the provider.       *)
TLSReplaced(resource, provider) == Or(resource, provider)

(* An inline bundle of the provider stays beside a reference of the        *)
(* resource, and is what is loaded.                                        *)
MergeTLSConfigs(resource, provider) ==
  IF resource = None \/ provider = None THEN Or(resource, provider)
  ELSE [f \in DOMAIN resource |-> Or(resource[f], provider[f])]

Resource(o) == object[o].spec

EffectiveOIDC(o) == MergeOIDCConfigs(Resource(o).oidc, conn[o].config.oidc)

EffectiveGCP(o) == MergeGCPConfigs(Resource(o).gcp, conn[o].config.gcp)

EffectiveTLS(o) == MergeTLSConfigs(Resource(o).tls, conn[o].config.tls)

(* Mutated: credentials may stand beside an identity block, as they once   *)
(* did.                                                                    *)
AnySelection(credentials, gcp, oidc) ==
  (credentials # None \/ gcp # None \/ oidc # None) /\ ~(gcp # None /\ oidc # None)

(* Exactly one mechanism.                                                  *)
ValidateAuthSelection(credentials, gcp, oidc) ==
  Cardinality({m \in {"credentials", "gcp", "oidc"} :
    \/ m = "credentials" /\ credentials # None
    \/ m = "gcp" /\ gcp # None
    \/ m = "oidc" /\ oidc # None}) = 1

-----------------------------------------------------------------------------
(* Connect.                                                                *)

(* Mutated: the next reconcile goes on with the configuration it has.      *)
KeepConfig(o) ==
  conn' = [conn EXCEPT ![o] = [Disconnected EXCEPT !.config = conn[o].config,
             !.pc = IF conn[o].config = None THEN "idle" ELSE "build"]]

(* An error ends the reconcile; the object is queued again.                *)
Fail(o) == conn' = [conn EXCEPT ![o] = Disconnected]

(* The usage is recorded before anything is read.                          *)
Track(o) ==
  /\ At(o, "idle")
  /\ conn' = [conn EXCEPT ![o].pc = "config"]
  /\ UNCHANGED <<object, configs, data, events>>

GetConfig(o, id) ==
  /\ At(o, "config")
  /\ IF id \in ConfigIds /\ configs[id] # None
     THEN conn' = [conn EXCEPT ![o].config = configs[id], ![o].pc = "build"]
     ELSE Fail(o)
  /\ UNCHANGED <<object, configs, data, events>>

(* A namespaced object refers to a kind, and in its own namespace.         *)
ResolveProviderConfig(o) ==
  <<object[o].ref, IF object[o].ref = "ProviderConfig" THEN Namespace[o] ELSE "">>

ClusterScopedConfig == <<"ProviderConfig", "">>

(* CommonCredentialExtractor; Missing is an error, a key that the Secret   *)
(* does not have is not.  Only the namespaced AsyncRequest controller asks *)
(* it for sources other than a Secret.                                     *)
ExtractedCredentials(credentials, sources) ==
  IF credentials = None THEN Empty
  ELSE IF credentials.source \notin sources THEN Empty
  ELSE IF credentials.source = "Secret"
  THEN IF credentials.key = None THEN Missing
       ELSE IF data[credentials.key] = Absent THEN Empty ELSE data[credentials.key]
  ELSE IF credentials.source \in {"Environment", "Filesystem"} THEN Ambient
  ELSE IF credentials.source = "None" THEN Empty
  ELSE Missing

BuildHTTPClient(o, sources) ==
  /\ At(o, "build")
  /\ LET credentials == conn[o].config.credentials
         creds       == ExtractedCredentials(credentials, sources)
     IN IF /\ ValidateAuthSelection(credentials, EffectiveGCP(o), EffectiveOIDC(o))
           /\ creds # Missing
        THEN conn' = [conn EXCEPT ![o].creds = creds, ![o].pc = "ca"]
        ELSE Fail(o)
  /\ UNCHANGED <<object, configs, data, events>>

(* Google finds no application default credentials.                        *)
NoDefaultCredentials(o) ==
  /\ At(o, "build") /\ EffectiveGCP(o) # None
  /\ Spent
  /\ Fail(o)
  /\ UNCHANGED <<object, configs, data>>

(* Mutated: a key that is not in its Secret goes unnoticed.                *)
LoadUnchecked(ref) == TRUE

Loadable(ref) == ref = None \/ data[ref] \notin {Missing, Absent}

SecretOf(key) == CHOOSE s \in Secrets : key \in s

LoadSecretData(ref) ==
  IF ref = None THEN None
  ELSE IF data[ref] = Empty THEN Empty ELSE <<SecretOf(ref), data[ref]>>

Ref(tls, field) == IF tls = None THEN None ELSE tls[field]

(* One read after the other.                                               *)
Load(o, part, field, next) ==
  /\ At(o, part)
  /\ LET ref == Ref(EffectiveTLS(o), field) IN
       IF Loadable(ref)
       THEN conn' = [conn EXCEPT ![o][part] = LoadSecretData(ref), ![o].pc = next]
       ELSE Fail(o)
  /\ UNCHANGED <<object, configs, data, events>>

InlineCA(o) ==
  /\ At(o, "ca") /\ Ref(EffectiveTLS(o), "caBundle") # None
  /\ conn' = [conn EXCEPT ![o].ca = EffectiveTLS(o).caBundle, ![o].pc = "cert"]
  /\ UNCHANGED <<object, configs, data, events>>

LoadTLSConfig(o) ==
  \/ InlineCA(o)
  \/ /\ At(o, "ca") /\ Ref(EffectiveTLS(o), "caBundle") = None
     /\ Load(o, "ca", "caCertSecretRef", "cert")
  \/ Load(o, "cert", "clientCertSecretRef", "key")
  \/ Load(o, "key", "clientKeySecretRef", "call")

(* The four controllers.                                                   *)
ConnectNamespacedRequest(o) ==
  \/ Track(o)
  \/ GetConfig(o, ResolveProviderConfig(o))
  \/ BuildHTTPClient(o, CredentialsSources) \/ NoDefaultCredentials(o)
  \/ LoadTLSConfig(o)

ConnectNamespacedDisposable(o) ==
  \/ Track(o)
  \/ GetConfig(o, ResolveProviderConfig(o))
  \/ BuildHTTPClient(o, {"Secret"}) \/ NoDefaultCredentials(o)
  \/ LoadTLSConfig(o)

ConnectClusterRequest(o) ==
  \/ Track(o)
  \/ GetConfig(o, ClusterScopedConfig)
  \/ BuildHTTPClient(o, {"Secret"}) \/ NoDefaultCredentials(o)
  \/ LoadTLSConfig(o)

ConnectClusterDisposable(o) ==
  \/ Track(o)
  \/ GetConfig(o, ClusterScopedConfig)
  \/ BuildHTTPClient(o, {"Secret"}) \/ NoDefaultCredentials(o)
  \/ LoadTLSConfig(o)

Connect(o) ==
  \/ object[o].kind = "NamespacedRequest"    /\ ConnectNamespacedRequest(o)
  \/ object[o].kind = "NamespacedDisposable" /\ ConnectNamespacedDisposable(o)
  \/ object[o].kind = "ClusterRequest"       /\ ConnectClusterRequest(o)
  \/ object[o].kind = "ClusterDisposable"    /\ ConnectClusterDisposable(o)

-----------------------------------------------------------------------------
(* What a call carries: each decorator adds its header if it is absent.    *)

Given(o) == [n \in HeaderNames |->
  IF n = "Authorization" /\ Resource(o).authorization THEN "caller" ELSE None]

AddIfAbsent(headers, name, value) ==
  IF headers[name] = None THEN [headers EXCEPT ![name] = value] ELSE headers

GCPClientHeaders(headers) == AddIfAbsent(headers, "Authorization", "gcp")

OIDCClientHeaders(headers, oidc) ==
  AddIfAbsent(headers, IF oidc.inject = None THEN "Authorization" ELSE oidc.inject, "oidc")

ClientHeaders(headers, creds) ==
  IF creds = Empty THEN headers ELSE AddIfAbsent(headers, "Authorization", "credentials")

HeadersOf(o) ==
  ClientHeaders(
    IF EffectiveGCP(o) # None THEN GCPClientHeaders(Given(o))
    ELSE IF EffectiveOIDC(o) # None THEN OIDCClientHeaders(Given(o), EffectiveOIDC(o))
    ELSE Given(o),
    conn[o].creds)

(* The certificate and the key that a user put into one Secret together.   *)
X509KeyPair(cert, key) == cert = key

(* Half a pair, or an empty half, is no certificate, and no error.         *)
HasCertificate(o) == {conn[o].cert, conn[o].key} \cap {None, Empty} = {}

(* A certificate that does not belong to its key fails the call.           *)
Send(o, token) ==
  LET headers == HeadersOf(o)
      carries == \E n \in HeaderNames : headers[n] \in {"gcp", "oidc"}
      call    == [ headers     |-> headers,
                   alive       |-> carries => token.left > 0,
                   certificate |-> IF HasCertificate(o) THEN <<conn[o].cert, conn[o].key>> ELSE None ]
  IN conn' = [conn EXCEPT ![o].pc = "call", ![o].waiting = 0, ![o].token = token,
                ![o].sent = IF HasCertificate(o) /\ ~X509KeyPair(conn[o].cert, conn[o].key)
                            THEN @ ELSE call]

-----------------------------------------------------------------------------
(* Tokens.                                                                 *)

NeedsToken(o) == EffectiveGCP(o) # None \/ EffectiveOIDC(o) # None

(* oauth2.ReuseTokenSource: a token that was just fetched is not asked.    *)
Reusable(token) == token # None /\ token.cached >= ExpiryDelta

(* The default credentials of Google, without impersonation; the package   *)
(* gives that fetch no timeout.                                            *)
FetchedBySDK(o) == EffectiveGCP(o) # None /\ ~EffectiveGCP(o).serviceAccount

TimeoutOf(o) == IF FetchedBySDK(o) THEN Patience ELSE Timeout

AnnouncedBy(o) ==
  IF EffectiveGCP(o) = None THEN {"expires_in", "exp", "none"}
  ELSE IF EffectiveGCP(o).serviceAccount THEN {"expireTime", "none"}
  ELSE {"sdk"}

Minus(n, m) == IF n > m THEN n - m ELSE 0

RefreshTime(o) == Or(EffectiveOIDC(o).refreshBefore, RefreshBefore)

(* Mutated: the token is kept beyond its expiry instead of renewed before. *)
ExchangedTokenKeptLonger(o, announced, left) == left + RefreshTime(o)

(* expires_in counts from the answer, exp is a time; without either the    *)
(* token is kept for refreshBefore.                                        *)
ExchangedTokenExpiry(o, announced, left) ==
  CASE announced = "expires_in" -> Minus(Lifetime, RefreshTime(o))
    [] announced = "exp"        -> Minus(left, RefreshTime(o))
    [] announced = "none"       -> RefreshTime(o)

ImpersonatedTokenExpiry(announced, left) ==
  IF announced = "expireTime" THEN Minus(left, RefreshSlack) ELSE Fallback

ExpiryOf(o, announced, left) ==
  IF EffectiveGCP(o) = None THEN ExchangedTokenExpiry(o, announced, left)
  ELSE IF EffectiveGCP(o).serviceAccount THEN ImpersonatedTokenExpiry(announced, left)
  ELSE Lifetime

(* A call without a token, or with the one of the call before.             *)
SendRequest(o) ==
  /\ At(o, "call")
  /\ NeedsToken(o) => Reusable(conn[o].token)
  /\ Send(o, conn[o].token)
  /\ UNCHANGED <<object, configs, data, events>>

(* The token that is asked for is issued at once, but arrives later.       *)
RequestToken(o) ==
  /\ At(o, "call") /\ NeedsToken(o) /\ ~Reusable(conn[o].token)
  /\ IF EffectiveOIDC(o) # None /\ ~EffectiveOIDC(o).exchange
     THEN Fail(o)
     ELSE conn' = [conn EXCEPT ![o].pc = "exchange", ![o].token = None]
  /\ UNCHANGED <<object, configs, data, events>>

ReceiveToken(o) ==
  LET left == Minus(Lifetime, conn[o].waiting) IN
  /\ At(o, "exchange")
  /\ \E a \in AnnouncedBy(o) :
       Send(o, [left |-> left, cached |-> ExpiryOf(o, a, left), announced |-> a])
  /\ UNCHANGED <<object, configs, data, events>>

(* A refusal, an unreadable answer, or none in time.                       *)
ExchangeFails(o) ==
  /\ At(o, "exchange")
  /\ Spent
  /\ Fail(o)
  /\ UNCHANGED <<object, configs, data>>

(* The reconcile is over, or it fails or dies; tokens go with the client.  *)
Finish(o) ==
  /\ At(o, "call")
  /\ conn' = [conn EXCEPT ![o] = Disconnected]
  /\ UNCHANGED <<object, configs, data, events>>

-----------------------------------------------------------------------------
(* Users and time.                                                         *)

ConfigOf(o) ==
  IF object[o].kind \in ClusterKinds THEN ClusterScopedConfig
  ELSE ResolveProviderConfig(o)

EditConfig(o) ==
  /\ ConfigOf(o) \in ConfigIds
  /\ Spent
  /\ \E c \in (ProviderConfigs \cup {None}) \ {configs[ConfigOf(o)]} :
       configs' = [configs EXCEPT ![ConfigOf(o)] = c]
  /\ UNCHANGED <<object, data, conn>>

(* The keys of a Secret change at once: they get another content or none,  *)
(* or go, alone or with the Secret.                                        *)
EditSecrets ==
  /\ Spent
  /\ \E s \in Secrets, v \in Contents :
       data' = [k \in SecretKeys |-> IF k \in s THEN v ELSE data[k]]
  /\ data' # data
  /\ UNCHANGED <<object, configs, conn>>

Aged(token) ==
  IF token = None THEN None
  ELSE [token EXCEPT !.left = Minus(@, 1), !.cached = Minus(@, 1)]

(* No exchange lasts longer than its timeout.                              *)
Tick ==
  /\ \A o \in Objects : At(o, "exchange") => conn[o].waiting + 1 < TimeoutOf(o)
  /\ conn' = [o \in Objects |->
       [conn[o] EXCEPT !.token = Aged(@), !.waiting = IF At(o, "exchange") THEN @ + 1 ELSE @]]
  /\ UNCHANGED <<object, configs, data, events>>

Reconcile(o) ==
  \/ Connect(o)
  \/ SendRequest(o) \/ RequestToken(o) \/ ReceiveToken(o) \/ ExchangeFails(o)
  \/ Finish(o)

Next ==
  \/ \E o \in Objects : Reconcile(o) \/ EditConfig(o)
  \/ EditSecrets \/ Tick

Spec == Init /\ [][Next]_vars

(* Errors are queued again, exchanges are answered, and a reconcile ends   *)
(* after finitely many calls.                                              *)
FairSpec ==
  Spec /\ \A o \in Objects : WF_vars(Connect(o)) /\ WF_vars(ReceiveToken(o)) /\ SF_vars(Finish(o))

-----------------------------------------------------------------------------
(* Properties.                                                             *)

Sent(o) == conn[o].sent # None

(* No call carries a token that has expired, however long the exchange     *)
(* took and however often the token was reused since, if its issuer says   *)
(* how long it lasts (exchange, generateAccessTokenAt).                    *)
Announced(token) == token # None /\ token.announced \notin {"none", "sdk"}

TokenAlive ==
  \A o \in Objects : (Sent(o) /\ Announced(conn[o].token)) => conn[o].sent.alive

(* What the resource names in a TLS block, or else the configuration.      *)
Named(o, field) ==
  IF Ref(Resource(o).tls, field) # None THEN Ref(Resource(o).tls, field)
  ELSE Ref(conn[o].config.tls, field)

(* A call is made with the TLS that resource and configuration name        *)
(* between them, half by half: it never goes without the certificate, with *)
(* a half of another level, or without the CA, because a block hid what    *)
(* the other one names or because a Secret went between two reads.  Only   *)
(* an empty half, or an empty CA, is as good as none (LoadTLSConfig,       *)
(* mergeSecretRefs, buildTLSConfig).                                       *)
TLSAsNamed ==
  \A o \in Objects : Sent(o) =>
    LET cert == Named(o, "clientCertSecretRef")
        key  == Named(o, "clientKeySecretRef")
        sent == conn[o].sent.certificate
    IN
    /\ (cert # None /\ key # None /\ Empty \notin {conn[o].cert, conn[o].key}) => sent # None
    /\ sent # None => /\ cert # None /\ sent[1][1] = SecretOf(cert)
                      /\ key # None /\ sent[2][1] = SecretOf(key)
    /\ conn[o].ca = None
         => Named(o, "caBundle") = None /\ Named(o, "caCertSecretRef") = None

ProviderHeaders(o) ==
  {n \in HeaderNames : conn[o].sent.headers[n] \in {"gcp", "oidc", "credentials"}}

(* What the controller of an object asks the extractor for.                *)
SourcesOf(o) ==
  IF object[o].kind = "NamespacedRequest" THEN CredentialsSources ELSE {"Secret"}

(* No credentials by choice; none in the Secret; or those that three of    *)
(* the four controllers pass over in silence, although the configuration   *)
(* may name them (providerconfig_types.go:36, 71).                         *)
WithoutCredentials(o) ==
  LET credentials == conn[o].config.credentials IN
  /\ credentials # None /\ conn[o].creds = Empty
  /\ credentials.source \in {"None", "Secret"} \/ credentials.source \notin SourcesOf(o)

(* A call carries a credential of one mechanism at most, next to the       *)
(* caller's own header or instead of it; and one at least, except where    *)
(* the configuration has source None, its Secret is without the key or     *)
(* empty there, or its source is one that the controller of the object     *)
(* does not ask for (ValidateAuthSelection together with the decorators).  *)
OneMechanism ==
  \A o \in Objects : Sent(o) =>
    /\ Cardinality(ProviderHeaders(o)) <= 1
    /\ \/ \E n \in HeaderNames : conn[o].sent.headers[n] # None
       \/ WithoutCredentials(o)

(* Whatever was wrong with a configuration or a Secret, once it is put     *)
(* right the object connects again and again with exactly what is there    *)
(* now: neither an error nor an old value sticks (Connect).                *)
Usable(o) ==
  /\ ConfigOf(o) \in ConfigIds /\ configs[ConfigOf(o)] # None
  /\ LET c   == configs[ConfigOf(o)]
         tls == MergeTLSConfigs(Resource(o).tls, c.tls)
     IN
     /\ ValidateAuthSelection(c.credentials, MergeGCPConfigs(Resource(o).gcp, c.gcp),
                              MergeOIDCConfigs(Resource(o).oidc, c.oidc))
     /\ ExtractedCredentials(c.credentials, SourcesOf(o)) # Missing
     /\ tls # None => \A f \in DOMAIN tls \ {"caBundle"} :
          tls[f] # None => data[tls[f]] \notin {Missing, Absent}

ConnectedAsConfigured(o) ==
  /\ At(o, "call") /\ conn[o].config = configs[ConfigOf(o)]
  /\ LET tls    == EffectiveTLS(o)
         bundle == Ref(tls, "caBundle")
     IN
     /\ conn[o].creds = ExtractedCredentials(conn[o].config.credentials, SourcesOf(o))
     /\ conn[o].ca   = Or(bundle, LoadSecretData(Ref(tls, "caCertSecretRef")))
     /\ conn[o].cert = LoadSecretData(Ref(tls, "clientCertSecretRef"))
     /\ conn[o].key  = LoadSecretData(Ref(tls, "clientKeySecretRef"))

Reconnects ==
  \A o \in Objects : <>[]Usable(o) => []<>ConnectedAsConfigured(o)
=============================================================================
