----------------------- MODULE SecretInjectionContents -----------------------
(***************************************************************************)
(* What Secrets, labels and stored answers contain, for every number of    *)
(* objects, Secrets and configs, and every answer: SecretInjectionProofs   *)
(* has who writes where, this module has what.                             *)
(***************************************************************************)
EXTENDS SecretInjectionProofs

(* The key that a worker is at.                                            *)
Written(o) == <<Target(o), Mapping(o).key>>

-----------------------------------------------------------------------------
(***************************************************************************)
(* What a step makes of a Secret that is there afterwards: it is new, its  *)
(* data and labels stay, a key is patched, or the labels are synced.       *)
(***************************************************************************)
SameContents(s) ==
  /\ secrets[s] # None /\ secrets'[s] # None
  /\ secrets'[s].data = secrets[s].data /\ secrets'[s].labels = secrets[s].labels

NewContents(s) ==
  /\ secrets[s] = None
  /\ secrets'[s].data = [k \in Keys |-> Missing]
  /\ secrets'[s].labels = [l \in Labels |-> Missing]

PatchedBy(o, s) ==
  /\ At(o, "patch") /\ s = Target(o) /\ secrets[s] # None /\ secrets'[s] # None
  /\ Extracted(o) # Written(o)
  /\ secrets'[s].data = UpdatedData(secrets[s].data, Mapping(o), Extracted(o))
  /\ secrets'[s].labels = secrets[s].labels

LabelledBy(o, s) ==
  /\ At(o, "metadata") /\ s = Target(o) /\ secrets[s] # None /\ secrets'[s] # None
  /\ secrets'[s].data = secrets[s].data
  /\ secrets'[s].labels = SyncedLabels(secrets[s].labels, Config(o), worker[o].data)

(* What a step makes of a pass: nothing, or it begins, ends or loses a     *)
(* value.                                                                  *)
SamePass(o) ==
  /\ worker'[o].kind = worker[o].kind /\ worker'[o].original = worker[o].original
  /\ worker'[o].data = worker[o].data

Begun(o) ==
  /\ worker'[o].data = worker'[o].original
  /\ \/ worker'[o].kind = "answer" /\ worker'[o].original = remote[o]
     \/ worker'[o].kind \in {"error", "lost"} /\ worker'[o].original = NoAnswer
     \/ /\ worker'[o].kind = "replay" /\ o \in Replays /\ Resolvable(stored[o], BodyFields)
        /\ worker'[o].original = Resolved(stored[o], BodyFields)

Replaced(o) ==
  /\ At(o, "patch") /\ Extracted(o) # Written(o)
  /\ worker'[o].kind = worker[o].kind /\ worker'[o].original = worker[o].original
  /\ worker'[o].data \in Replacements(worker[o].data, Extracted(o), Written(o))

-----------------------------------------------------------------------------
(***************************************************************************)
(* Moving on within a pass or to the next config changes no more of it     *)
(* than the data that is given.                                            *)
(***************************************************************************)
LEMMA GoToPass ==
  ASSUME Inv, NEW o \in Objects, NEW pc, GoTo(o, pc)
  PROVE  SamePass(o) /\ \A q \in Objects \ {o} : worker'[q] = worker[q]
<1>1. worker \in [Objects -> Workers] /\ worker[o] \in Workers
  BY DEF Inv, TypeOK
<1>2. QED
  BY <1>1 DEF GoTo, SamePass, Workers

LEMMA NextPass ==
  ASSUME Inv, NEW o \in Objects, NEW data, NextMapping(o, data) \/ NextConfig(o, data)
  PROVE  /\ worker'[o].kind = worker[o].kind /\ worker'[o].original = worker[o].original
         /\ worker'[o].data = data
         /\ \A q \in Objects \ {o} : worker'[q] = worker[q]
<1>1. worker \in [Objects -> Workers] /\ worker[o] \in Workers
  BY DEF Inv, TypeOK
<1>2. CASE NextMapping(o, data)
  BY <1>1, <1>2 DEF NextMapping, Workers
<1>3. CASE NextConfig(o, data)
  BY <1>1, <1>3 DEF NextConfig, Workers
<1>4. QED
  BY <1>2, <1>3

(***************************************************************************)
(* The mapping a worker is at is an injection of its object.               *)
(***************************************************************************)
LEMMA MappingInjected ==
  ASSUME Inv, NEW o \in Objects, At(o, "patch")
  PROVE  /\ [secret |-> Target(o), mapping |-> Mapping(o)] \in Injections(o)
         /\ Mapping(o) \in KeyInjections /\ Extracted(o) \in Contents
         /\ Written(o) \in Placeholders
<1>1. ~At(o, "idle") /\ ~At(o, "store")
  BY DEF At
<1>2. worker[o].config \in DOMAIN Configs[o] /\ worker[o].mapping \in DOMAIN Config(o).keyMappings
  BY <1>1, PlaceType DEF Inv, WorkersPlaced
<1>3. [secret |-> Target(o), mapping |-> Mapping(o)] \in Injections(o)
  BY <1>2 DEF Injections, Target, Mapping, Config
<1>4. QED
  BY <1>3, PatchType DEF Written

-----------------------------------------------------------------------------
(***************************************************************************)
(* What is written is a Secret.                                            *)
(***************************************************************************)
LEMMA WrittenRecord ==
  ASSUME NEW r \in SecretRecords, NEW v
  PROVE  /\ [r EXCEPT !.data = v] # None /\ [r EXCEPT !.labels = v] # None
         /\ [r EXCEPT !.owners = v] # None
<1>1. DOMAIN r = {"data", "labels", "owners"} /\ DOMAIN None = {"none"}
  BY DEF SecretRecords, None
<1>2. "data" \notin DOMAIN None
  BY <1>1
<1>3. QED
  BY <1>1, <1>2

(***************************************************************************)
(* Patching a key: the value goes from the response to the Secret, unless  *)
(* the Secret refuses it (updateSecretWithPatchedValue).                   *)
(***************************************************************************)
Patched(o) ==
  /\ Writable(o)
  /\ \A s \in Secrets : IF s = Target(o) THEN PatchedBy(o, s) ELSE secrets'[s] = secrets[s]
  /\ dropped' = IF Extracted(o) \in Values THEN dropped \ {Written(o)} ELSE dropped

Refused(o) ==
  /\ UNCHANGED secrets
  /\ dropped' = IF Extracted(o) \in Values THEN dropped \cup {Written(o)} ELSE dropped

LEMMA PatchMoves ==
  ASSUME Inv, NEW o \in Objects, PatchKey(o)
  PROVE  /\ Replaced(o) /\ \A q \in Objects \ {o} : worker'[q] = worker[q]
         /\ UNCHANGED Answered
         /\ Patched(o) \/ Refused(o)
<1> DEFINE m     == Mapping(o)
           value == Extracted(o)
           p     == Written(o)
           new   == [held[o] EXCEPT !.data = UpdatedData(@, m, value)]
<1>1. At(o, "patch") /\ ~At(o, "idle") /\ ~At(o, "store") /\ UNCHANGED Answered /\ value # p
  BY DEF PatchKey, At, Written
<1>2. PICK data \in Replacements(worker[o].data, value, p) :
        IF Writable(o)
        THEN /\ Write(o, new) /\ NextMapping(o, data)
             /\ dropped' = IF value \in Values THEN dropped \ {p} ELSE dropped
        ELSE /\ GiveUp(o, data)
             /\ dropped' = IF value \in Values THEN dropped \cup {p} ELSE dropped
  BY DEF PatchKey, Written
<1>3. NextMapping(o, data) \/ NextConfig(o, data)
  BY <1>2 DEF GiveUp
<1>4. Replaced(o) /\ \A q \in Objects \ {o} : worker'[q] = worker[q]
  BY <1>1, <1>2, <1>3, NextPass DEF Replaced
<1>5. CASE Writable(o)
  <2>1. held[o] = secrets[Target(o)] /\ Target(o) \in Secrets
        /\ held[o] \in SecretRecords /\ held[o] # None /\ secrets \in [Secrets -> SecretRecords \cup {None}]
    BY <1>1, <1>5, PlaceType, HeldRecord DEF Writable, Inv, FreshIsLatest, TypeOK
  <2>2. secrets' = [secrets EXCEPT ![Target(o)] = new]
    BY <1>2, <1>5 DEF Write
  <2>3. /\ new.data = UpdatedData(held[o].data, m, value) /\ new.labels = held[o].labels
        /\ new # None
    BY <2>1, WrittenRecord DEF SecretRecords
  <2> HIDE DEF new, m, value, p
  <2>4. \A s \in Secrets : s # Target(o) => secrets'[s] = secrets[s]
    BY <2>1, <2>2
  <2>5. PatchedBy(o, Target(o))
    <3>1. secrets'[Target(o)] = new
      BY <2>1, <2>2
    <3>2. QED
      BY <1>1, <2>1, <2>3, <3>1 DEF PatchedBy, m, value, p
  <2>6. QED
    BY <1>1, <1>2, <1>4, <1>5, <2>4, <2>5 DEF Patched, value, p
<1>6. CASE ~Writable(o)
  BY <1>1, <1>2, <1>4, <1>6 DEF Refused, GiveUp
<1>7. QED
  BY <1>5, <1>6

(***************************************************************************)
(* The other writes: a new Secret, an owner reference, labels.             *)
(***************************************************************************)
LEMMA CreateMoves ==
  ASSUME Inv, NEW o \in Objects, Create(o)
  PROVE  /\ \A s \in Secrets : secrets'[s] = secrets[s] \/ NewContents(s)
         /\ \A q \in Objects : SamePass(q)
<1>1. secrets \in [Secrets -> SecretRecords \cup {None}]
  BY DEF Inv, TypeOK
<1>2. CASE Write(o, NewSecret(o)) /\ GoTo(o, FirstMapping(o)) /\ secrets[Target(o)] = None
  <2>1. \A s \in Secrets : secrets'[s] = secrets[s] \/ NewContents(s)
    BY <1>1, <1>2 DEF Write, NewSecret, NewContents
  <2>2. QED
    BY <1>2, <2>1, GoToPass DEF SamePass
<1>3. CASE GiveUp(o, worker[o].data)
  BY <1>3, NextPass DEF GiveUp, SamePass
<1>4. QED
  BY <1>2, <1>3 DEF Create

LEMMA OwnMoves ==
  ASSUME Inv, NEW o \in Objects, SetOwnerReference(o)
  PROVE  /\ \A s \in Secrets : secrets'[s] = secrets[s] \/ SameContents(s)
         /\ \A q \in Objects : SamePass(q)
<1> DEFINE new == [held[o] EXCEPT !.owners = @ \cup Owner(o)]
<1>1. secrets \in [Secrets -> SecretRecords \cup {None}] /\ At(o, "own")
  BY DEF Inv, TypeOK, SetOwnerReference
<1>2. CASE Writable(o) /\ Write(o, new) /\ GoTo(o, FirstMapping(o))
  <2>1. held[o] = secrets[Target(o)] /\ held[o] \in SecretRecords /\ held[o] # None
    BY <1>1, <1>2, HeldRecord DEF Writable, Inv, FreshIsLatest
  <2>2. new.data = held[o].data /\ new.labels = held[o].labels /\ new # None
    BY <2>1, WrittenRecord DEF SecretRecords
  <2> HIDE DEF new
  <2>3. \A s \in Secrets : secrets'[s] = secrets[s] \/ SameContents(s)
    BY <1>1, <1>2, <2>1, <2>2 DEF Write, SameContents
  <2>4. QED
    BY <1>2, <2>3, GoToPass DEF SamePass
<1>3. CASE GiveUp(o, worker[o].data)
  BY <1>3, NextPass DEF GiveUp, SamePass
<1>4. QED
  BY <1>2, <1>3 DEF SetOwnerReference

LEMMA SyncMoves ==
  ASSUME Inv, NEW o \in Objects, SyncLabels(o)
  PROVE  /\ \A s \in Secrets : secrets'[s] = secrets[s] \/ LabelledBy(o, s)
         /\ \A q \in Objects : SamePass(q)
<1> DEFINE new == [held[o] EXCEPT !.labels = SyncedLabels(@, Config(o), worker[o].data)]
<1>1. secrets \in [Secrets -> SecretRecords \cup {None}] /\ At(o, "metadata")
  BY DEF Inv, TypeOK, SyncLabels
<1>2. \A q \in Objects : SamePass(q)
  BY NextPass DEF SyncLabels, SamePass
<1>3. CASE Writable(o) /\ secrets' = [secrets EXCEPT ![Target(o)] = new]
  <2>1. held[o] = secrets[Target(o)] /\ held[o] \in SecretRecords /\ held[o] # None
    BY <1>1, <1>3, HeldRecord DEF Writable, Inv, FreshIsLatest
  <2>2. new.data = held[o].data
        /\ new.labels = SyncedLabels(held[o].labels, Config(o), worker[o].data) /\ new # None
    BY <2>1, WrittenRecord DEF SecretRecords
  <2> HIDE DEF new
  <2>3. \A s \in Secrets : secrets'[s] = secrets[s] \/ LabelledBy(o, s)
    BY <1>1, <1>3, <2>1, <2>2 DEF LabelledBy
  <2>4. QED
    BY <1>2, <2>3
<1>4. CASE UNCHANGED secrets
  BY <1>2, <1>4
<1>5. QED
  BY <1>3, <1>4 DEF SyncLabels

-----------------------------------------------------------------------------
(***************************************************************************)
(* Every step, part by part.                                               *)
(***************************************************************************)
LEMMA BeginMoves ==
  ASSUME Inv, NEW o \in Objects, NEW body, NEW kind, Begin(o, body, kind)
  PROVE  /\ worker'[o].kind = kind /\ worker'[o].original = body /\ worker'[o].data = body
         /\ \A q \in Objects \ {o} : worker'[q] = worker[q]
BY DEF Begin, Inv, TypeOK

Begins(o) == ReceiveAnswer(o) \/ ReceiveFailure(o) \/ Replay(o)

LEMMA BegunMoves ==
  ASSUME Inv, NEW o \in Objects, Begins(o)
  PROVE  /\ Begun(o) /\ \A q \in Objects \ {o} : worker'[q] = worker[q]
         /\ UNCHANGED <<secrets, Answered, dropped>>
<1>1. CASE ReceiveAnswer(o)
  BY <1>1, BeginMoves DEF ReceiveAnswer, Begun
<1>2. CASE ReceiveFailure(o)
  <2>1. PICK kind \in {"error", "lost"} : Begin(o, NoAnswer, kind)
    BY <1>2 DEF ReceiveFailure
  <2>2. QED
    BY <1>2, <2>1, BeginMoves DEF ReceiveFailure, Begun
<1>3. CASE Replay(o)
  BY <1>3, BeginMoves DEF Replay, Begun
<1>4. QED
  BY <1>1, <1>2, <1>3 DEF Begins

LEMMA EndMoves ==
  ASSUME Inv, NEW o \in Objects, StoreAnswer(o) \/ Abort(o)
  PROVE  /\ Begun(o) /\ \A q \in Objects \ {o} : worker'[q] = worker[q]
         /\ UNCHANGED <<secrets, remote, dropped>>
<1>1. worker' = [worker EXCEPT ![o] = Idle] /\ UNCHANGED <<secrets, remote, dropped>>
  BY DEF StoreAnswer, Abort, Answered
<1>2. worker'[o] = Idle /\ \A q \in Objects \ {o} : worker'[q] = worker[q]
  BY <1>1 DEF Inv, TypeOK
<1>3. QED
  BY <1>1, <1>2 DEF Begun, Idle

LEMMA ReadMoves ==
  ASSUME Inv, NEW o \in Objects, Get(o) \/ GetFromCache(o) \/ AlreadyReplaced(o)
  PROVE  /\ \A q \in Objects : SamePass(q)
         /\ UNCHANGED <<secrets, Answered, dropped>>
<1>1. CASE AlreadyReplaced(o)
  BY <1>1, NextPass DEF AlreadyReplaced, SamePass
<1>2. CASE ReadSecret(o)
  BY <1>2, GoToPass DEF ReadSecret, SamePass
<1>3. QED
  BY <1>1, <1>2 DEF Get, GetFromCache

LEMMA SecretStep ==
  ASSUME Inv, [Next]_vars, NEW s \in Secrets, secrets'[s] # None
  PROVE  \/ SameContents(s) \/ NewContents(s)
         \/ \E o \in Objects : PatchedBy(o, s) \/ LabelledBy(o, s)
<1>1. secrets'[s] = secrets[s] => SameContents(s)
  BY DEF SameContents
<1>2. CASE UNCHANGED vars
  BY <1>1, <1>2 DEF vars
<1>3. ASSUME NEW o \in Objects, Begins(o) \/ StoreAnswer(o) \/ Abort(o) \/ ChangeAnswer(o)
             \/ Get(o) \/ GetFromCache(o) \/ AlreadyReplaced(o)
      PROVE  SameContents(s)
  BY <1>1, <1>3, BegunMoves, EndMoves, ReadMoves DEF ChangeAnswer
<1>4. ASSUME NEW o \in Objects, PatchKey(o) PROVE SameContents(s) \/ PatchedBy(o, s)
  BY <1>1, <1>4, PatchMoves DEF Patched, Refused
<1>5. ASSUME NEW r \in Secrets, RemoveSecret(r) PROVE SameContents(s)
  BY <1>1, <1>5 DEF RemoveSecret, Inv, TypeOK
<1>6. QED
  BY <1>1, <1>2, <1>3, <1>4, <1>5, CreateMoves, OwnMoves, SyncMoves DEF Next, Reconcile, Begins

LEMMA PassStep ==
  ASSUME Inv, [Next]_vars, NEW o \in Objects
  PROVE  SamePass(o) \/ Begun(o) \/ (PatchKey(o) /\ Replaced(o))
<1>1. worker'[o] = worker[o] => SamePass(o)
  BY DEF SamePass
<1>2. CASE UNCHANGED vars
  BY <1>1, <1>2 DEF vars
<1>3. ASSUME NEW q \in Objects, Begins(q) \/ StoreAnswer(q) \/ Abort(q) \/ ChangeAnswer(q)
      PROVE  SamePass(o) \/ Begun(o)
  BY <1>1, <1>3, BegunMoves, EndMoves DEF ChangeAnswer
<1>4. ASSUME NEW q \in Objects, PatchKey(q) PROVE SamePass(o) \/ (PatchKey(o) /\ Replaced(o))
  BY <1>1, <1>4, PatchMoves
<1>5. ASSUME NEW r \in Secrets, RemoveSecret(r) PROVE SamePass(o)
  BY <1>1, <1>5 DEF RemoveSecret
<1>6. QED
  BY <1>1, <1>2, <1>3, <1>4, <1>5, ReadMoves, CreateMoves, OwnMoves, SyncMoves
     DEF Next, Reconcile, Begins

LEMMA RemoteStep ==
  ASSUME Inv, [Next]_vars, NEW o \in Objects
  PROVE  remote'[o] = remote[o] \/ \E n \in DOMAIN Answers[o] : remote'[o] = Answers[o][n]
<1>1. CASE UNCHANGED remote
  BY <1>1
<1>2. CASE \E q \in Objects : ChangeAnswer(q)
  BY <1>2 DEF ChangeAnswer, Inv, TypeOK
<1>3. ASSUME NEW q \in Objects, Reconcile(q) \/ Abort(q) PROVE UNCHANGED remote
  BY <1>3, BegunMoves, EndMoves, ReadMoves, PatchMoves
     DEF Reconcile, Begins, Create, SetOwnerReference, SyncLabels, Answered
<1>4. QED
  BY <1>1, <1>2, <1>3 DEF Next, vars, RemoveSecret, Answered

(***************************************************************************)
(* What is stored is, field by field, what is left of an answer or of a    *)
(* failed call; what is cached is an answer that fits (StoreAnswer).       *)
(***************************************************************************)
LEMMA StoredStep ==
  ASSUME Inv, [Next]_vars, NEW o \in Objects
  PROVE  /\ \A f \in Fields :
              \/ stored'[o][f] = stored[o][f]
              \/ worker[o].kind \in {"answer", "error"} /\ stored'[o][f] = worker[o].data[f]
         /\ \/ cached'[o] = cached[o]
            \/ worker[o].kind = "answer" /\ cached'[o] = worker[o].data
         /\ o \in fitted' =>
              \/ o \in fitted
              \/ Templates(o, worker[o].data) /\ worker[o].kind = "error"
              \/ Templates(o, worker[o].data) /\ cached'[o] = worker[o].data
         /\ o \in fitted /\ cached'[o] # cached[o] => Templates(o, cached'[o])
<1>1. CASE UNCHANGED <<stored, cached, fitted>>
  BY <1>1
<1>2. ASSUME NEW q \in Objects, StoreAnswer(q), q # o
      PROVE  stored'[o] = stored[o] /\ cached'[o] = cached[o] /\ (o \in fitted' => o \in fitted)
  BY <1>2 DEF StoreAnswer, Inv, TypeOK
<1>3. CASE StoreAnswer(o)
  <2>1. worker[o].kind \in Kinds /\ stored \in [Objects -> Bodies] /\ cached \in [Objects -> Bodies]
    BY DEF Inv, TypeOK, Workers
  <2>2. \/ stored' = stored
        \/ /\ ~Keeps(worker[o].kind)
           /\ \E new \in Overwritten(stored[o], worker[o].data) : stored' = [stored EXCEPT ![o] = new]
    BY <1>3 DEF StoreAnswer
  <2>3. \/ cached' = cached
        \/ ShouldSetCache(o, worker[o].data) /\ cached' = [cached EXCEPT ![o] = worker[o].data]
    BY <1>3 DEF StoreAnswer
  <2>4. o \in fitted' /\ o \notin fitted =>
          /\ Templates(o, worker[o].data) /\ ~Keeps(worker[o].kind)
          /\ worker[o].kind = "answer" => cached' = [cached EXCEPT ![o] = worker[o].data]
    BY <1>3 DEF StoreAnswer, ShouldSetCache, IsRequestValid
  <2>5. Keeps(worker[o].kind) \/ worker[o].kind \in {"answer", "error"}
    BY <2>1 DEF Keeps, Kinds
  <2>6. ASSUME NEW f \in Fields
        PROVE  \/ stored'[o][f] = stored[o][f]
               \/ worker[o].kind \in {"answer", "error"} /\ stored'[o][f] = worker[o].data[f]
    BY <2>1, <2>2, <2>5 DEF Overwritten
  <2>7. QED
    BY <2>1, <2>3, <2>4, <2>5, <2>6 DEF ShouldSetCache, IsRequestValid
<1>4. ASSUME NEW q \in Objects, Reconcile(q) \/ Abort(q) \/ ChangeAnswer(q), ~StoreAnswer(q)
      PROVE  UNCHANGED <<stored, cached, fitted>>
  BY <1>4, BegunMoves, ReadMoves, PatchMoves
     DEF Reconcile, Begins, Create, SetOwnerReference, SyncLabels, Answered, Abort, ChangeAnswer
<1>5. QED
  BY <1>1, <1>2, <1>3, <1>4 DEF Next, vars, RemoveSecret, Answered, Reconcile

-----------------------------------------------------------------------------
(***************************************************************************)
(* An object that once stored an answer it can be templated from has a     *)
(* cached answer with every field it needs, whatever Secrets hold now.     *)
(***************************************************************************)
Addressable == \A o \in fitted : Fits(o, cached[o])

(* Resolving placeholders never finds a field that is not there.           *)
LEMMA ResolvedFits ==
  ASSUME NEW o \in Objects, NEW body \in Bodies, Fits(o, Resolved(body, Fields))
  PROVE  Fits(o, body)
<1> SUFFICES ASSUME NEW f \in Needs[o], body[f] = Missing PROVE FALSE
  BY DEF Fits
<1>1. f \in Fields /\ Missing \notin Placeholders
  BY SecretConstants
<1>2. Resolved(body, Fields)[f] = Missing
  BY <1>1 DEF Resolved
<1>3. QED
  BY <1>2 DEF Fits

LEMMA FitsResolved ==
  ASSUME NEW o \in Objects, NEW body \in Bodies, Fits(o, body), ~Unreadable(body)
  PROVE  Fits(o, Resolved(body, Fields))
<1> SUFFICES ASSUME NEW f \in Needs[o] PROVE Resolved(body, Fields)[f] # Missing
  BY DEF Fits
<1>1. f \in Fields /\ body[f] # Missing /\ Empty # Missing
  BY SecretConstants DEF Fits
<1>2. \A p : Lookup(p) # Missing
  BY <1>1 DEF Lookup
<1>3. QED
  BY <1>1, <1>2 DEF Resolved

(***************************************************************************)
(* A failed call shows no field, and loses none.                           *)
(***************************************************************************)
FailedEmpty ==
  \A o \in Objects :
    worker[o].kind \in {"error", "lost"} => worker[o].original = NoAnswer /\ worker[o].data = NoAnswer

LEMMA FailedNext ==
  ASSUME Inv, FailedEmpty, [Next]_vars
  PROVE  FailedEmpty'
<1> SUFFICES ASSUME NEW o \in Objects, worker'[o].kind \in {"error", "lost"}
             PROVE  worker'[o].original = NoAnswer /\ worker'[o].data = NoAnswer
  BY DEF FailedEmpty
<1>1. CASE SamePass(o)
  BY <1>1 DEF SamePass, FailedEmpty
<1>2. CASE Begun(o)
  BY <1>2 DEF Begun
<1>3. CASE Replaced(o)
  <2>1. worker[o].original = NoAnswer /\ worker[o].data = NoAnswer
    BY <1>3 DEF Replaced, FailedEmpty
  <2>2. Mapping(o) \in KeyInjections
    BY <1>3, MappingInjected DEF Replaced
  <2>3. Extracted(o) = Missing
    BY <2>1, <2>2 DEF Extracted, NoAnswer, KeyInjections
  <2>4. QED
    BY <1>3, <2>1, <2>3 DEF Replaced, Replacements
<1>4. QED
  BY <1>1, <1>2, <1>3, PassStep

LEMMA AddressableNext ==
  ASSUME Inv, FailedEmpty, Addressable, [Next]_vars
  PROVE  Addressable'
<1> SUFFICES ASSUME NEW o \in fitted' PROVE Fits(o, cached'[o])
  BY DEF Addressable, Fits
<1>1. Inv'
  BY NextInv
<1>2. /\ o \in Objects /\ worker[o].data \in Bodies /\ worker[o].kind \in Kinds
      /\ cached'[o] \in Bodies
  BY <1>1 DEF Inv, TypeOK, Workers
<1>3. ASSUME NEW body \in Bodies, Templates(o, body) PROVE Fits(o, body)
  BY <1>2, <1>3, ResolvedFits DEF Templates
<1>4. CASE o \in fitted
  BY <1>2, <1>3, <1>4, StoredStep DEF Addressable
<1>5. CASE cached'[o] = worker[o].data /\ Templates(o, worker[o].data)
  BY <1>2, <1>3, <1>5
<1>6. CASE Templates(o, worker[o].data) /\ worker[o].kind = "error"
  <2>1. Fits(o, NoAnswer)
    BY <1>2, <1>3, <1>6 DEF FailedEmpty
  <2>2. Needs[o] \subseteq Fields
    BY <1>2, SecretConstants
  <2>3. Needs[o] = {}
    BY <2>1, <2>2 DEF Fits, NoAnswer
  <2>4. QED
    BY <2>3 DEF Fits
<1>7. QED
  BY <1>2, <1>4, <1>5, <1>6, StoredStep

LEMMA AddressableInvariance == Spec => []Addressable
<1>1. Init => FailedEmpty /\ Addressable
  BY DEF Init, FailedEmpty, Addressable, Idle
<1>2. Inv /\ FailedEmpty /\ Addressable /\ [Next]_vars => FailedEmpty' /\ Addressable'
  BY FailedNext, AddressableNext
<1>3. QED
  BY <1>1, <1>2, Invariance, PTL DEF Spec

(***************************************************************************)
(* Whatever is answered later, or fails: an object that was addressable    *)
(* once stays so, by the answer in its cache (GenerateValidRequestDetails, *)
(* shouldSetCache), as long as the Secrets of that answer are there and    *)
(* readable.                                                               *)
(***************************************************************************)
THEOREM StaysAddressableHolds == Spec => []StaysAddressable
<1>1. Inv /\ Addressable => StaysAddressable
  <2> SUFFICES ASSUME Inv, Addressable, NEW o \in fitted \ Replays,
                      Resolvable(cached[o], Fields), ~Unreadable(cached[o])
               PROVE  CanCall(o)
    BY DEF StaysAddressable
  <2>1. o \in Objects /\ cached[o] \in Bodies /\ Fits(o, cached[o])
    BY DEF Inv, TypeOK, Addressable
  <2>2. Templates(o, cached[o])
    BY <2>1, FitsResolved DEF Templates
  <2>3. QED
    BY <2>2 DEF CanCall, Source, IsRequestValid
<1>2. QED
  BY <1>1, AddressableInvariance, Invariance, PTL

-----------------------------------------------------------------------------
(***************************************************************************)
(* What a pass over an answer works on is an answer of the remote API.     *)
(***************************************************************************)
AnswersOf(o) == {Answers[o][n] : n \in DOMAIN Answers[o]}

AnswersKnown ==
  \A o \in Objects :
    /\ remote[o] \in AnswersOf(o)
    /\ worker[o].kind = "answer" => worker[o].original \in AnswersOf(o)

LEMMA AnswerType ==
  ASSUME NEW o \in Objects, NEW body \in AnswersOf(o)
  PROVE  body \in [Fields -> Values \cup {Missing}] /\ \A f \in Fields : body[f] \in CarriedBy(o, f)
BY SecretConstants DEF AnswersOf, CarriedBy

LEMMA AnswersNext ==
  ASSUME Inv, AnswersKnown, [Next]_vars
  PROVE  AnswersKnown'
<1> SUFFICES ASSUME NEW o \in Objects
             PROVE  /\ remote'[o] \in AnswersOf(o)
                    /\ worker'[o].kind = "answer" => worker'[o].original \in AnswersOf(o)
  BY DEF AnswersKnown, AnswersOf
<1>1. remote'[o] \in AnswersOf(o)
  BY RemoteStep DEF AnswersKnown, AnswersOf
<1>2. worker'[o].kind = "answer" => worker'[o].original \in AnswersOf(o)
  BY PassStep DEF AnswersKnown, SamePass, Begun, Replaced
<1>3. QED
  BY <1>1, <1>2

LEMMA AnswersInit == Init => AnswersKnown /\ FailedEmpty
<1>1. \A o \in Objects : 1 \in DOMAIN Answers[o]
  BY SecretConstants
<1>2. QED
  BY <1>1 DEF Init, AnswersKnown, AnswersOf, FailedEmpty, Idle

-----------------------------------------------------------------------------
(***************************************************************************)
(* Captured.  Every placeholder that is stored, cached or about to be      *)
(* stored is backed by its key.                                            *)
(***************************************************************************)
Backed(p) ==
  (Preserved(p) /\ p \notin dropped) =>
    secrets[p[1]] # None /\ secrets[p[1]].data[p[2]] # Missing

Shows(o, p) ==
  \E f \in Fields :
    \/ stored[o][f] = p \/ cached[o][f] = p
    \/ worker[o].kind = "answer" /\ worker[o].data[f] = p

AllBacked == \A o \in Objects : \A p \in Placeholders : Shows(o, p) => Backed(p)

(* A key that is to be preserved outlives every injection.                 *)
LEMMA PatchKeeps ==
  ASSUME Inv, NEW o \in Objects, NEW p \in Placeholders, PatchedBy(o, p[1]), Preserved(p),
         secrets[p[1]].data[p[2]] # Missing \/ (p = Written(o) /\ Extracted(o) # Missing)
  PROVE  secrets'[p[1]].data[p[2]] # Missing
<1> DEFINE s == p[1]
           k == p[2]
           m == Mapping(o)
<1>1. s \in Secrets /\ k \in Keys /\ p = <<s, k>>
  BY DEF Placeholders
<1>2. secrets[s].data \in [Keys -> Contents]
  BY <1>1 DEF PatchedBy, Inv, TypeOK, SecretRecords
<1>3. m \in KeyInjections /\ Written(o) = <<Target(o), m.key>> /\ s = Target(o)
  BY MappingInjected DEF PatchedBy, Written
<1>4. secrets'[s].data = UpdatedData(secrets[s].data, m, Extracted(o))
  BY DEF PatchedBy
<1>5. m.key = k => m.missing = "preserve"
  BY <1>1, <1>3, MappingInjected DEF PatchedBy, Preserved
<1>6. CASE m.key = k
  <2>1. m.missing # "delete" /\ m.missing # "setEmpty"
    BY <1>5, <1>6
  <2>2. p = Written(o)
    BY <1>1, <1>3, <1>6
  <2>3. UpdatedData(secrets[s].data, m, Extracted(o))
          = IF Extracted(o) # Missing THEN [secrets[s].data EXCEPT ![k] = Extracted(o)]
            ELSE secrets[s].data
    BY <1>6, <2>1 DEF UpdatedData
  <2> HIDE DEF s, k, m
  <2>4. QED
    BY <1>1, <1>2, <1>4, <2>3 DEF s, k
<1>7. CASE m.key # k
  <2>1. p # Written(o)
    BY <1>1, <1>3, <1>7
  <2>2. UpdatedData(secrets[s].data, m, Extracted(o))[k] = secrets[s].data[k]
    BY <1>1, <1>2, <1>7 DEF UpdatedData
  <2>3. QED
    BY <1>4, <2>1, <2>2
<1>8. QED
  BY <1>6, <1>7

(***************************************************************************)
(* What a step takes from dropped is in its Secret, and what it adds is    *)
(* not.                                                                    *)
(***************************************************************************)
LEMMA DroppedStep ==
  ASSUME Inv, [Next]_vars, NEW p \in Placeholders
  PROVE  /\ p \in dropped /\ p \notin dropped' =>
              \E o \in Objects : PatchedBy(o, p[1]) /\ p = Written(o) /\ Extracted(o) # Missing
         /\ secrets[p[1]] # None /\ secrets'[p[1]] = None => p \in dropped'
<1>1. p[1] \in Secrets /\ p[2] \in Keys /\ p = <<p[1], p[2]>>
  BY DEF Placeholders
<1>3. CASE UNCHANGED <<secrets, dropped>>
  BY <1>3
<1>4. ASSUME NEW o \in Objects, Reconcile(o), ~PatchKey(o), ~Create(o), ~SetOwnerReference(o),
             ~SyncLabels(o)
      PROVE  UNCHANGED <<secrets, dropped>>
  BY <1>4, BegunMoves, EndMoves, ReadMoves DEF Reconcile, Begins
<1>5. ASSUME NEW o \in Objects, Create(o) \/ SetOwnerReference(o) \/ SyncLabels(o)
      PROVE  UNCHANGED dropped /\ (secrets[p[1]] # None => secrets'[p[1]] # None)
  <2>1. UNCHANGED dropped
    BY <1>5 DEF Create, SetOwnerReference, SyncLabels
  <2>2. CASE Create(o)
    BY <1>1, <2>1, <2>2, CreateMoves DEF NewContents
  <2>3. CASE SetOwnerReference(o)
    BY <1>1, <2>1, <2>3, OwnMoves DEF SameContents
  <2>4. CASE SyncLabels(o)
    BY <1>1, <2>1, <2>4, SyncMoves DEF LabelledBy
  <2>5. QED
    BY <1>5, <2>2, <2>3, <2>4
<1>6. ASSUME NEW o \in Objects, PatchKey(o)
      PROVE  /\ p \in dropped /\ p \notin dropped' =>
                  PatchedBy(o, p[1]) /\ p = Written(o) /\ Extracted(o) # Missing
             /\ secrets[p[1]] # None => secrets'[p[1]] # None
  <2>1. CASE Refused(o)
    BY <1>6, <2>1 DEF Refused
  <2>2. CASE Patched(o)
    <3>1. \A s \in Secrets : secrets[s] # None => secrets'[s] # None
      BY <2>2 DEF Patched, PatchedBy
    <3>2. ASSUME p \in dropped, p \notin dropped'
          PROVE  Extracted(o) \in Values /\ p = Written(o)
      BY <2>2, <3>2 DEF Patched
    <3>3. Target(o) \in Secrets /\ Missing \notin Values
      BY <1>6, PlaceType, SecretConstants DEF PatchKey, At
    <3>4. PatchedBy(o, Target(o))
      BY <2>2, <3>3 DEF Patched
    <3>5. QED
      BY <1>1, <3>1, <3>2, <3>3, <3>4 DEF Written
  <2>3. QED
    BY <1>6, <2>1, <2>2, PatchMoves
<1>7. ASSUME NEW s \in Secrets, RemoveSecret(s)
      PROVE  /\ p \in dropped => p \in dropped'
             /\ secrets[p[1]] # None /\ secrets'[p[1]] = None => p \in dropped'
  BY <1>1, <1>7 DEF RemoveSecret, Inv, TypeOK
<1>8. QED
  BY <1>3, <1>4, <1>5, <1>6, <1>7, EndMoves DEF Next, vars, Reconcile, ChangeAnswer

LEMMA BackedNext ==
  ASSUME Inv, [Next]_vars, NEW p \in Placeholders, Backed(p)
  PROVE  Backed(p)'
<1> SUFFICES ASSUME Preserved(p), p \notin dropped'
             PROVE  secrets'[p[1]] # None /\ secrets'[p[1]].data[p[2]] # Missing
  BY DEF Backed, Preserved, Injections
<1>1. p[1] \in Secrets /\ p[2] \in Keys
  BY DEF Placeholders
<1>2. CASE p \in dropped
  <2>1. PICK o \in Objects : PatchedBy(o, p[1]) /\ p = Written(o) /\ Extracted(o) # Missing
    BY <1>2, DroppedStep
  <2>2. QED
    BY <2>1, PatchKeeps DEF PatchedBy
<1>3. CASE p \notin dropped
  <2>1. secrets[p[1]] # None /\ secrets[p[1]].data[p[2]] # Missing
    BY <1>3 DEF Backed
  <2>2. secrets'[p[1]] # None
    BY <2>1, DroppedStep
  <2>3. CASE \E o \in Objects : PatchedBy(o, p[1])
    BY <2>1, <2>2, <2>3, PatchKeeps
  <2>4. CASE secrets'[p[1]].data = secrets[p[1]].data
    BY <2>1, <2>2, <2>4
  <2>5. QED
    BY <1>1, <2>1, <2>2, <2>3, <2>4, SecretStep DEF SameContents, NewContents, LabelledBy
<1>4. QED
  BY <1>2, <1>3

(***************************************************************************)
(* A value is replaced by the placeholder or stays.                        *)
(***************************************************************************)
LEMMA ReplacementsAt ==
  ASSUME NEW body \in Bodies, NEW value, NEW p, NEW data \in Replacements(body, value, p),
         NEW f \in Fields, data[f] # body[f]
  PROVE  data[f] = p /\ body[f] = value /\ value \notin {Missing, Empty}
<1>1. /\ value \notin {Missing, Empty}
      /\ \E places \in SUBSET {g \in Fields : body[g] = value} : data = ReplaceAt(body, places, p)
  BY DEF Replacements
<1>2. QED
  BY <1>1 DEF ReplaceAt

(***************************************************************************)
(* The value that an answer loses goes to its key, or is dropped with it.  *)
(***************************************************************************)
LEMMA CapturedNow ==
  ASSUME Inv, NEW o \in Objects, PatchKey(o), Extracted(o) \in Values,
         NEW p \in Placeholders, p = Written(o)
  PROVE  Backed(p)'
<1>1. At(o, "patch") /\ ~At(o, "idle") /\ ~At(o, "store")
  BY DEF PatchKey, At
<1>2. Extracted(o) # Missing /\ Target(o) \in Secrets /\ p[1] = Target(o)
  BY <1>1, PlaceType, SecretConstants DEF Written
<1> SUFFICES ASSUME Preserved(p), p \notin dropped'
             PROVE  secrets'[p[1]] # None /\ secrets'[p[1]].data[p[2]] # Missing
  BY DEF Backed, Preserved, Injections
<1>3. ~Refused(o)
  BY DEF Refused
<1>4. PatchedBy(o, p[1])
  BY <1>2, <1>3, PatchMoves DEF Patched
<1>5. QED
  BY <1>2, <1>4, PatchKeeps DEF PatchedBy

LEMMA AllBackedNext ==
  ASSUME Inv, AnswersKnown, FailedEmpty, AllBacked, [Next]_vars
  PROVE  AllBacked'
<1> SUFFICES ASSUME NEW o \in Objects, NEW p \in Placeholders, Shows(o, p)' PROVE Backed(p)'
  BY DEF AllBacked
<1>1. CASE Shows(o, p)
  BY <1>1, BackedNext DEF AllBacked
<1>2. CASE ~Shows(o, p)
  <2>1. PICK f \in Fields :
          \/ stored'[o][f] = p \/ cached'[o][f] = p
          \/ worker'[o].kind = "answer" /\ worker'[o].data[f] = p
    BY DEF Shows
  <2>2. /\ stored[o][f] # p /\ cached[o][f] # p
        /\ worker[o].kind = "answer" => worker[o].data[f] # p
    BY <1>2 DEF Shows
  <2>3. Missing \notin Placeholders /\ Values \cap Placeholders = {}
    BY SecretConstants
  <2>4. worker[o].kind = "error" => worker[o].data[f] # p
    BY <2>3 DEF FailedEmpty, NoAnswer
  <2>5. stored'[o][f] # p /\ cached'[o][f] # p
    BY <2>2, <2>4, StoredStep
  <2>6. worker'[o].kind = "answer" /\ worker'[o].data[f] = p
    BY <2>1, <2>5
  <2>7. ~SamePass(o)
    BY <2>2, <2>6 DEF SamePass
  <2>8. ~Begun(o)
    BY <2>3, <2>6, AnswerType DEF Begun, AnswersKnown
  <2>9. PatchKey(o) /\ Replaced(o)
    BY <2>7, <2>8, PassStep
  <2>10. /\ worker[o].kind = "answer" /\ worker[o].data \in Bodies
         /\ worker'[o].data \in Replacements(worker[o].data, Extracted(o), Written(o))
    BY <2>6, <2>9 DEF Replaced, Inv, TypeOK, Workers
  <2>11. p = Written(o) /\ Extracted(o) \notin {Missing, Empty}
    BY <2>2, <2>6, <2>10, ReplacementsAt
  <2>12. Extracted(o) \in Values \cup {Missing}
    <3>1. Mapping(o).field \in Fields
      BY <2>9, MappingInjected DEF Replaced, KeyInjections
    <3>2. QED
      BY <2>10, <3>1, AnswerType DEF AnswersKnown, Extracted
  <2>13. QED
    BY <2>9, <2>11, <2>12, CapturedNow
<1>3. QED
  BY <1>1, <1>2

LEMMA AllBackedInvariance == Spec => [](Inv /\ AnswersKnown /\ FailedEmpty /\ AllBacked)
<1>1. Init => AllBacked
  <2> SUFFICES ASSUME Init, NEW o \in Objects, NEW p \in Placeholders, Shows(o, p) PROVE FALSE
    BY DEF AllBacked
  <2>1. stored[o] = NoAnswer /\ cached[o] = NoAnswer /\ worker[o].kind = "lost"
    BY DEF Init, Idle
  <2>2. QED
    BY <2>1, SecretConstants DEF Shows, NoAnswer
<1>2. Inv /\ AnswersKnown /\ FailedEmpty /\ AllBacked /\ [Next]_vars
        => AnswersKnown' /\ FailedEmpty' /\ AllBacked'
  BY AnswersNext, FailedNext, AllBackedNext
<1>3. QED
  BY <1>1, <1>2, AnswersInit, Invariance, PTL DEF Spec

(***************************************************************************)
(* Whatever answers hide later, calls fail or other objects write: what a  *)
(* stored or cached answer holds a placeholder for, by a strategy that     *)
(* preserves it, is in the Secret, unless an update of it was refused or a *)
(* user removed it (updateSecretWithPatchedValue, which patches the        *)
(* response before the Secret).                                            *)
(***************************************************************************)
THEOREM CapturedHolds == Spec => []Captured
<1>1. AllBacked => Captured
  BY DEF AllBacked, Captured, Shows, Backed
<1>2. QED
  BY <1>1, AllBackedInvariance, PTL

-----------------------------------------------------------------------------
(***************************************************************************)
(* FromItsField.  A pass over an answer works on what is answered and on   *)
(* placeholders that stand for it; so does what is stored of it, and, if   *)
(* the configs are separate, what is read back from the Secrets.           *)
(***************************************************************************)
KeyValue(s, k, v) ==
  \/ v \in {Missing, Empty}
  \/ \E o \in Objects : \E i \in Injections(o) :
       i.secret = s /\ i.mapping.key = k /\ v \in CarriedBy(o, i.mapping.field)

LabelValue(l, v) ==
  \/ v = Missing
  \/ \E o \in Objects : \E n \in DOMAIN Configs[o] :
       Configs[o][n].labels[l] # Missing /\ v \in CarriedBy(o, Configs[o][n].labels[l])

Carries(o, f) == CarriedBy(o, f) \cup {Missing}

Remembered(o) ==
  \A f \in Fields : stored[o][f] \in Carries(o, f) \/ StandsFor(o, f, stored[o][f])

Replayed(o, f, v) ==
  \/ v \in Carries(o, f)
  \/ f \in BodyFields /\ f \notin Labelled(o) /\ v = Empty
  \/ f \in HeaderFields /\ StandsFor(o, f, v)

PassOfAnswer(o) ==
  worker[o].kind = "answer" =>
    \A f \in Fields :
      worker[o].data[f] = worker[o].original[f] \/ StandsFor(o, f, worker[o].data[f])

PassOfReplay(o) ==
  worker[o].kind = "replay" =>
    /\ o \in Replays
    /\ \A f \in Fields :
         /\ Replayed(o, f, worker[o].original[f])
         /\ \/ worker[o].data[f] = worker[o].original[f]
            \/ worker[o].data[f] \in Placeholders

FieldsKnown == \A o \in Objects : Remembered(o) /\ PassOfAnswer(o) /\ PassOfReplay(o)

FieldsInv == Inv /\ AnswersKnown /\ FailedEmpty /\ FieldsKnown /\ FromItsField

(***************************************************************************)
(* A placeholder that stands for a field is none of its values.            *)
(***************************************************************************)
LEMMA InjectionType ==
  ASSUME NEW o \in Objects, NEW i \in Injections(o)
  PROVE  i.secret \in Secrets /\ i.mapping \in KeyInjections
<1>1. PICK n \in DOMAIN Configs[o] : \E m \in DOMAIN Configs[o][n].keyMappings :
        i = [secret |-> Configs[o][n].secret, mapping |-> Configs[o][n].keyMappings[m]]
  BY DEF Injections
<1>2. Configs[o][n].secret \in Secrets /\ Configs[o][n].keyMappings \in Seq(KeyInjections)
  BY ConfigType
<1>3. QED
  BY <1>1, <1>2

LEMMA StandsForType ==
  ASSUME NEW o \in Objects, NEW f \in Fields, NEW p, StandsFor(o, f, p)
  PROVE  p \in Placeholders /\ p \notin Values \cup {Missing, Empty}
<1>1. PICK i \in Injections(o) : p = <<i.secret, i.mapping.key>>
  BY DEF StandsFor
<1>2. i.secret \in Secrets /\ i.mapping.key \in Keys
  BY InjectionType DEF KeyInjections
<1>3. p \in Placeholders
  BY <1>1, <1>2 DEF Placeholders
<1>4. QED
  BY <1>3, SecretConstants

LEMMA CarriedType ==
  ASSUME NEW o \in Objects, NEW f \in Fields, NEW v \in Carries(o, f)
  PROVE  v \in Values \cup {Missing} /\ v \notin Placeholders /\ v # Empty
<1>1. v \in Values \cup {Missing}
  BY SecretConstants DEF Carries, CarriedBy
<1>2. QED
  BY <1>1, SecretConstants

(***************************************************************************)
(* What is stored of an answer (StoreAnswer).                              *)
(***************************************************************************)
LEMMA RememberedNext ==
  ASSUME FieldsInv, [Next]_vars, NEW o \in Objects
  PROVE  Remembered(o)'
<1> SUFFICES ASSUME NEW f \in Fields
             PROVE  stored'[o][f] \in Carries(o, f) \/ StandsFor(o, f, stored'[o][f])
  BY DEF Remembered, Carries, CarriedBy, StandsFor, Injections
<1>1. CASE stored'[o][f] = stored[o][f]
  BY <1>1 DEF FieldsInv, FieldsKnown, Remembered
<1>2. CASE worker[o].kind = "error" /\ stored'[o][f] = worker[o].data[f]
  BY <1>2 DEF FieldsInv, FailedEmpty, NoAnswer, Carries
<1>3. CASE worker[o].kind = "answer" /\ stored'[o][f] = worker[o].data[f]
  <2>1. worker[o].original[f] \in CarriedBy(o, f)
    BY <1>3, AnswerType DEF FieldsInv, AnswersKnown
  <2>2. QED
    BY <1>3, <2>1 DEF FieldsInv, FieldsKnown, PassOfAnswer, Carries
<1>4. QED
  BY <1>1, <1>2, <1>3, StoredStep DEF FieldsInv

(***************************************************************************)
(* A stored answer is injected again: what its placeholders are resolved   *)
(* to is what their fields carried, or nothing (Replay).                   *)
(***************************************************************************)
LEMMA LookedUp ==
  ASSUME FieldsInv, Separate, NEW o \in Replays, NEW f \in BodyFields, NEW p,
         StandsFor(o, f, p), secrets[p[1]] # None
  PROVE  Replayed(o, f, Lookup(p))
<1>1. o \in Objects /\ f \in Fields /\ f \notin HeaderFields /\ p \in Placeholders
  BY StandsForType, SecretConstants DEF BodyFields
<1>2. /\ f \notin Labelled(o)
      /\ \A q \in Objects : \A i \in Injections(q) : <<i.secret, i.mapping.key>> = p =>
           CarriedBy(q, i.mapping.field) \subseteq Carries(o, f)
  BY <1>1 DEF Separate, Carries
<1>3. p[1] \in Secrets /\ p[2] \in Keys /\ p = <<p[1], p[2]>>
  BY <1>1 DEF Placeholders
<1> DEFINE v == secrets[p[1]].data[p[2]]
<1>4. KeyValue(p[1], p[2], v)
  BY <1>3 DEF FieldsInv, FromItsField, KeyValue
<1>5. CASE v \in {Missing, Empty}
  BY <1>2, <1>5 DEF Lookup, Replayed
<1>6. CASE v \notin {Missing, Empty}
  <2>1. v \in Carries(o, f)
    BY <1>2, <1>3, <1>4, <1>6 DEF KeyValue
  <2>2. QED
    BY <1>6, <2>1 DEF Lookup, Replayed
<1>7. QED
  BY <1>5, <1>6

LEMMA ReplayedNext ==
  ASSUME FieldsInv, Separate, NEW o \in Replays, Resolvable(stored[o], BodyFields),
         NEW f \in Fields
  PROVE  Replayed(o, f, Resolved(stored[o], BodyFields)[f])
<1> DEFINE v == stored[o][f]
<1>1. o \in Objects /\ (v \in Carries(o, f) \/ StandsFor(o, f, v))
  BY SecretConstants DEF FieldsInv, FieldsKnown, Remembered
<1>2. CASE f \in BodyFields /\ Unreadable(stored[o])
  BY <1>2 DEF Resolved, Replayed, Carries
<1>3. CASE ~(f \in BodyFields /\ Unreadable(stored[o])) /\ v \in Carries(o, f)
  <2>1. v \notin Placeholders
    BY <1>1, <1>3, CarriedType
  <2>2. Resolved(stored[o], BodyFields)[f] = v
    BY <1>3, <2>1 DEF Resolved
  <2>3. QED
    BY <1>3, <2>2 DEF Replayed
<1>4. CASE ~(f \in BodyFields /\ Unreadable(stored[o])) /\ StandsFor(o, f, v)
  <2>1. v \in Placeholders
    BY <1>1, <1>4, StandsForType
  <2>2. CASE f \in BodyFields
    <3>1. secrets[v[1]] # None
      BY <2>1, <2>2 DEF Resolvable
    <3>2. Resolved(stored[o], BodyFields)[f] = Lookup(v)
      BY <1>4, <2>1, <2>2 DEF Resolved
    <3> HIDE DEF v
    <3>3. QED
      BY <1>4, <2>2, <3>1, <3>2, LookedUp
  <2>3. CASE f \notin BodyFields
    <3>1. Resolved(stored[o], BodyFields)[f] = v /\ f \in HeaderFields
      BY <2>3 DEF Resolved, BodyFields
    <3>2. QED
      BY <1>4, <3>1 DEF Replayed
  <2>4. QED
    BY <2>2, <2>3
<1>5. QED
  BY <1>1, <1>2, <1>3, <1>4

(***************************************************************************)
(* A pass: what is replaced is replaced by the placeholder of a key that   *)
(* carries the same value.                                                 *)
(***************************************************************************)
LEMMA PassOfAnswerNext ==
  ASSUME FieldsInv, [Next]_vars, NEW o \in Objects
  PROVE  PassOfAnswer(o)'
<1> SUFFICES ASSUME worker'[o].kind = "answer", NEW f \in Fields,
                    worker'[o].data[f] # worker'[o].original[f]
             PROVE  StandsFor(o, f, worker'[o].data[f])
  BY DEF PassOfAnswer, StandsFor, Injections
<1>1. CASE SamePass(o)
  BY <1>1 DEF SamePass, FieldsInv, FieldsKnown, PassOfAnswer
<1>2. CASE Begun(o)
  BY <1>2 DEF Begun
<1>3. CASE PatchKey(o) /\ Replaced(o)
  <2> DEFINE body  == worker[o].data
             value == Extracted(o)
             m     == Mapping(o)
  <2>1. /\ worker[o].kind = "answer" /\ worker'[o].original = worker[o].original
        /\ worker'[o].data \in Replacements(body, value, Written(o)) /\ body \in Bodies
    BY <1>3 DEF Replaced, FieldsInv, Inv, TypeOK, Workers
  <2>2. CASE worker'[o].data[f] = body[f]
    BY <2>1, <2>2 DEF FieldsInv, FieldsKnown, PassOfAnswer
  <2>3. CASE worker'[o].data[f] # body[f]
    <3>1. worker'[o].data[f] = Written(o) /\ body[f] = value /\ value \notin {Missing, Empty}
      BY <2>1, <2>3, ReplacementsAt
    <3>2. /\ [secret |-> Target(o), mapping |-> m] \in Injections(o) /\ m.field \in Fields
      BY <1>3, MappingInjected DEF Replaced, KeyInjections, FieldsInv
    <3>3. PICK n \in DOMAIN Answers[o] : worker[o].original = Answers[o][n]
      BY <2>1 DEF FieldsInv, AnswersKnown, AnswersOf
    <3>4. value = Answers[o][n][m.field] /\ value \in Values
      <4>1. worker[o].original \in AnswersOf(o)
        BY <3>3 DEF AnswersOf
      <4>2. worker[o].original \in [Fields -> Values \cup {Missing}]
        BY <4>1, AnswerType
      <4>3. QED
        BY <3>1, <3>2, <3>3, <4>2 DEF Extracted
    <3>5. body[f] = worker[o].original[f]
      BY <2>1, <3>1, <3>4, StandsForType DEF FieldsInv, FieldsKnown, PassOfAnswer
    <3>6. Answers[o][n][f] \in Values /\ Answers[o][n][f] = Answers[o][n][m.field]
      BY <3>1, <3>3, <3>4, <3>5
    <3> HIDE DEF m, value, body
    <3>7. StandsFor(o, f, Written(o))
      BY <3>2, <3>6 DEF StandsFor, Written, m
    <3>8. QED
      BY <3>1, <3>7
  <2>4. QED
    BY <2>2, <2>3
<1>4. QED
  BY <1>1, <1>2, <1>3, PassStep DEF FieldsInv

LEMMA PassOfReplayNext ==
  ASSUME FieldsInv, Separate, [Next]_vars, NEW o \in Objects
  PROVE  PassOfReplay(o)'
<1> SUFFICES ASSUME worker'[o].kind = "replay"
             PROVE  /\ o \in Replays
                    /\ \A f \in Fields :
                         /\ Replayed(o, f, worker'[o].original[f])
                         /\ \/ worker'[o].data[f] = worker'[o].original[f]
                            \/ worker'[o].data[f] \in Placeholders
  BY DEF PassOfReplay, Replayed, StandsFor, Carries, CarriedBy, Labelled, Injections
<1>1. CASE SamePass(o)
  BY <1>1 DEF SamePass, FieldsInv, FieldsKnown, PassOfReplay
<1>2. CASE Begun(o)
  BY <1>2, ReplayedNext DEF Begun
<1>3. CASE PatchKey(o) /\ Replaced(o)
  <2>1. /\ worker[o].kind = "replay" /\ worker'[o].original = worker[o].original
        /\ worker'[o].data \in Replacements(worker[o].data, Extracted(o), Written(o))
        /\ worker[o].data \in Bodies
    BY <1>3 DEF Replaced, FieldsInv, Inv, TypeOK, Workers
  <2>2. Written(o) \in Placeholders
    BY <1>3, MappingInjected DEF Replaced, FieldsInv
  <2>3. \A f \in Fields :
          worker'[o].data[f] = worker[o].data[f] \/ worker'[o].data[f] = Written(o)
    BY <2>1, ReplacementsAt
  <2>4. QED
    BY <2>1, <2>2, <2>3 DEF FieldsInv, FieldsKnown, PassOfReplay
<1>4. QED
  BY <1>1, <1>2, <1>3, PassStep DEF FieldsInv

(***************************************************************************)
(* What a key gets: of an answer a value of its field, of a replay as much *)
(* or nothing.                                                             *)
(***************************************************************************)
LEMMA ExtractedRight ==
  ASSUME FieldsInv, Separate, NEW o \in Objects, At(o, "patch"), Extracted(o) # Written(o)
  PROVE  Extracted(o) \in CarriedBy(o, Mapping(o).field) \cup {Missing, Empty}
<1> DEFINE f == Mapping(o).field
           i == [secret |-> Target(o), mapping |-> Mapping(o)]
<1>1. i \in Injections(o) /\ f \in Fields /\ Extracted(o) = worker[o].original[f]
  BY MappingInjected DEF KeyInjections, Extracted, FieldsInv
<1>2. worker[o].kind \in Kinds
  BY DEF FieldsInv, Inv, TypeOK, Workers
<1>3. CASE worker[o].kind = "answer"
  BY <1>1, <1>3, AnswerType DEF FieldsInv, AnswersKnown
<1>4. CASE worker[o].kind \in {"error", "lost"}
  BY <1>1, <1>4 DEF FieldsInv, FailedEmpty, NoAnswer
<1>5. CASE worker[o].kind = "replay"
  <2>1. o \in Replays /\ Replayed(o, f, Extracted(o))
    BY <1>1, <1>5 DEF FieldsInv, FieldsKnown, PassOfReplay
  <2>2. ASSUME f \in HeaderFields, StandsFor(o, f, Extracted(o)) PROVE FALSE
    <3>1. Extracted(o) \in Placeholders
      BY <1>1, <2>2, StandsForType
    <3>2. \A j \in Injections(o) : j.mapping.field = f => <<j.secret, j.mapping.key>> = Extracted(o)
      BY <1>1, <2>1, <2>2, <3>1 DEF Separate
    <3>3. <<i.secret, i.mapping.key>> = Extracted(o)
      BY <1>1, <3>2
    <3>4. QED
      BY <3>3 DEF Written
  <2> HIDE DEF f
  <2>3. QED
    BY <2>1, <2>2 DEF Replayed, Carries, f
<1>6. QED
  BY <1>2, <1>3, <1>4, <1>5 DEF Kinds

(***************************************************************************)
(* What a label gets: a value of its field, or none (syncMap).             *)
(***************************************************************************)
LEMMA LabelRight ==
  ASSUME FieldsInv, NEW o \in Objects, At(o, "metadata"), NEW l \in Labels,
         Config(o).labels[l] # Missing, IsValidLabel(worker[o].data[Config(o).labels[l]])
  PROVE  LabelValue(l, worker[o].data[Config(o).labels[l]])
<1> DEFINE n == worker[o].config
           f == Config(o).labels[l]
           v == worker[o].data[f]
<1>1. ~At(o, "idle") /\ ~At(o, "store") /\ worker[o].kind \in Kinds
  BY DEF At, FieldsInv, Inv, TypeOK, Workers
<1>2. n \in DOMAIN Configs[o] /\ f = Configs[o][n].labels[l] /\ f \in Fields
  BY <1>1, PlaceType DEF Config, FieldsInv
<1>3. f \in Labelled(o)
  <2>1. f \in {Configs[o][n].labels[k] : k \in Labels}
    BY <1>2
  <2>2. {Configs[o][n].labels[k] : k \in Labels}
          \in {{Configs[o][c].labels[k] : k \in Labels} : c \in DOMAIN Configs[o]}
    BY <1>2
  <2> HIDE DEF f, n
  <2>3. QED
    BY <2>1, <2>2 DEF Labelled
<1>4. v \in LabelValues \cup {Empty} /\ v \notin Placeholders /\ v # Missing
  BY SecretConstants DEF IsValidLabel
<1>5. v \in CarriedBy(o, f)
  <2> HIDE DEF v, f, n
  <2>1. CASE worker[o].kind = "answer"
    <3>1. v = worker[o].original[f]
      BY <1>2, <1>4, <2>1, StandsForType DEF FieldsInv, FieldsKnown, PassOfAnswer, v
    <3>2. QED
      BY <1>2, <2>1, <3>1, AnswerType DEF FieldsInv, AnswersKnown
  <2>2. CASE worker[o].kind \in {"error", "lost"}
    BY <1>2, <1>4, <2>2 DEF FieldsInv, FailedEmpty, NoAnswer, v
  <2>3. CASE worker[o].kind = "replay"
    <3>1. v = worker[o].original[f] /\ Replayed(o, f, v)
      BY <1>2, <1>4, <2>3 DEF FieldsInv, FieldsKnown, PassOfReplay, v
    <3>2. ~StandsFor(o, f, v)
      BY <1>2, <1>4, StandsForType
    <3>3. QED
      BY <1>3, <1>4, <3>1, <3>2 DEF Replayed, Carries
  <2>4. QED
    BY <1>1, <2>1, <2>2, <2>3 DEF Kinds
<1> HIDE DEF v
<1>6. LabelValue(l, v)
  BY <1>2, <1>3, <1>5 DEF LabelValue
<1>7. QED
  BY <1>6 DEF v

LEMMA FromItsFieldNext ==
  ASSUME FieldsInv, Separate, [Next]_vars
  PROVE  FromItsField'
<1> SUFFICES ASSUME NEW s \in Secrets, secrets'[s] # None
             PROVE  /\ \A k \in Keys : KeyValue(s, k, secrets'[s].data[k])
                    /\ \A l \in Labels : LabelValue(l, secrets'[s].labels[l])
  BY DEF FromItsField, KeyValue, LabelValue, CarriedBy, Injections
<1>1. secrets[s] # None =>
        /\ \A k \in Keys : KeyValue(s, k, secrets[s].data[k])
        /\ \A l \in Labels : LabelValue(l, secrets[s].labels[l])
  BY DEF FieldsInv, FromItsField, KeyValue, LabelValue
<1>2. CASE SameContents(s)
  BY <1>1, <1>2 DEF SameContents
<1>3. CASE NewContents(s)
  BY <1>3 DEF NewContents, KeyValue, LabelValue
<1>4. ASSUME NEW o \in Objects, PatchedBy(o, s)
      PROVE  /\ \A k \in Keys : KeyValue(s, k, secrets'[s].data[k])
             /\ \A l \in Labels : LabelValue(l, secrets'[s].labels[l])
  <2> DEFINE m     == Mapping(o)
             value == Extracted(o)
             old   == secrets[s].data
  <2>1. /\ [secret |-> s, mapping |-> m] \in Injections(o)
        /\ secrets'[s].data = UpdatedData(old, m, value)
        /\ secrets'[s].labels = secrets[s].labels /\ secrets[s] # None
    BY <1>4, MappingInjected DEF PatchedBy, FieldsInv
  <2>2. old \in [Keys -> Contents]
    BY <2>1 DEF FieldsInv, Inv, TypeOK, SecretRecords
  <2>3. value \in CarriedBy(o, m.field) \cup {Missing, Empty}
    BY <1>4, ExtractedRight DEF PatchedBy
  <2>4. KeyValue(s, m.key, value)
    BY <2>1, <2>3 DEF KeyValue
  <2>5. \A k \in Keys :
          \/ UpdatedData(old, m, value)[k] = old[k]
          \/ k = m.key /\ UpdatedData(old, m, value)[k] \in {value, Empty}
    BY <2>2 DEF UpdatedData
  <2>6. \A k \in Keys : KeyValue(s, k, Empty)
    BY DEF KeyValue
  <2> HIDE DEF m, value, old
  <2>7. \A k \in Keys : KeyValue(s, k, old[k])
    BY <1>1, <2>1 DEF old
  <2>8. ASSUME NEW k \in Keys PROVE KeyValue(s, k, UpdatedData(old, m, value)[k])
    BY <2>4, <2>5, <2>6, <2>7
  <2>9. QED
    BY <1>1, <2>1, <2>8
<1>5. ASSUME NEW o \in Objects, LabelledBy(o, s)
      PROVE  /\ \A k \in Keys : KeyValue(s, k, secrets'[s].data[k])
             /\ \A l \in Labels : LabelValue(l, secrets'[s].labels[l])
  <2>1. /\ At(o, "metadata") /\ secrets[s] # None /\ secrets'[s].data = secrets[s].data
        /\ secrets'[s].labels = SyncedLabels(secrets[s].labels, Config(o), worker[o].data)
    BY <1>5 DEF LabelledBy
  <2>2. ASSUME NEW l \in Labels PROVE LabelValue(l, secrets'[s].labels[l])
    <3>1. CASE Config(o).labels[l] = Missing
      BY <2>1, <3>1 DEF SyncedLabels, LabelValue
    <3>2. CASE Config(o).labels[l] # Missing /\ IsValidLabel(worker[o].data[Config(o).labels[l]])
      BY <2>1, <3>2, LabelRight DEF SyncedLabels
    <3>3. CASE Config(o).labels[l] # Missing /\ ~IsValidLabel(worker[o].data[Config(o).labels[l]])
      BY <1>1, <2>1, <3>3 DEF SyncedLabels
    <3>4. QED
      BY <3>1, <3>2, <3>3
  <2>3. QED
    BY <1>1, <2>1, <2>2
<1>6. QED
  BY <1>2, <1>3, <1>4, <1>5, SecretStep DEF FieldsInv

(***************************************************************************)
(* Whoever writes in which order and whatever is answered: a Secret holds  *)
(* under each key a value that one of the fields mapped to it carried, and *)
(* under each label a value of its field; never a placeholder, never the   *)
(* value of a field that is mapped elsewhere (updateSecretWithPatchedValue *)
(* with its originalData, syncMap).  Without objects that inject their     *)
(* stored answer again Separate asks nothing.                              *)
(***************************************************************************)
THEOREM FromItsFieldHolds ==
  ASSUME Separate
  PROVE  Spec => []FromItsField
<1>1. Init => FieldsInv
  <2> SUFFICES ASSUME Init PROVE FieldsInv
    OBVIOUS
  <2>1. FromItsField
    BY DEF Init, FromItsField
  <2>2. FieldsKnown
    BY DEF Init, FieldsKnown, Remembered, PassOfAnswer, PassOfReplay, Idle, NoAnswer, Carries
  <2>3. QED
    BY <2>1, <2>2, InitInv, AnswersInit DEF FieldsInv
<1>2. FieldsInv /\ [Next]_vars => FieldsInv'
  <2> SUFFICES ASSUME FieldsInv, [Next]_vars PROVE FieldsInv'
    OBVIOUS
  <2>1. Inv' /\ AnswersKnown' /\ FailedEmpty'
    BY NextInv, AnswersNext, FailedNext DEF FieldsInv
  <2>2. FieldsKnown'
    BY RememberedNext, PassOfAnswerNext, PassOfReplayNext DEF FieldsKnown
  <2>3. QED
    BY <2>1, <2>2, FromItsFieldNext DEF FieldsInv
<1>3. FieldsInv => FromItsField
  BY DEF FieldsInv
<1>4. QED
  BY <1>1, <1>2, <1>3, PTL DEF Spec
=============================================================================
