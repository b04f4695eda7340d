------------------------ MODULE SecretInjectionProofs ------------------------
(***************************************************************************)
(* What holds of SecretInjection for every number of objects, Secrets and  *)
(* configs, and every answer.                                              *)
(***************************************************************************)
EXTENDS SecretInjection, TLAPS

(* A worker within a pass is at a config and a mapping that exist.         *)
WorkersPlaced ==
  \A o \in Objects :
    /\ ~At(o, "idle") /\ ~At(o, "store") => worker[o].config \in DOMAIN Configs[o]
    /\ At(o, "get") \/ At(o, "create") \/ At(o, "own") => worker[o].mapping = 1
    /\ At(o, "patch") => worker[o].mapping \in DOMAIN Config(o).keyMappings
    /\ At(o, "own") \/ At(o, "patch") \/ At(o, "metadata") => held[o] # None

(* The copy that a write may be made from is the Secret itself.            *)
FreshIsLatest ==
  \A o \in fresh : ~At(o, "idle") /\ ~At(o, "store") /\ held[o] = secrets[Target(o)]

Inv == TypeOK /\ WorkersPlaced /\ FreshIsLatest

-----------------------------------------------------------------------------
(* The data.                                                               *)

(***************************************************************************)
(* The parts of a config that exists.                                      *)
(***************************************************************************)
LEMMA ConfigType ==
  ASSUME NEW o \in Objects, NEW n \in DOMAIN Configs[o]
  PROVE  /\ Configs[o][n].secret \in Secrets
         /\ Configs[o][n].labels \in [Labels -> Fields \cup {Missing}]
         /\ Configs[o][n].keyMappings \in Seq(KeyInjections)
         /\ n \in Nat \ {0} /\ n <= Len(Configs[o])
<1>1. Configs[o] \in Seq(SecretInjectionConfigs)
  BY SecretConstants
<1>2. Configs[o][n] \in SecretInjectionConfigs /\ n \in Nat \ {0} /\ n <= Len(Configs[o])
  BY <1>1
<1>3. QED
  BY <1>2 DEF SecretInjectionConfigs

(***************************************************************************)
(* What a field may hold.                                                  *)
(***************************************************************************)
LEMMA ContentType ==
  /\ Missing \in Contents /\ Empty \in Contents /\ Placeholders \subseteq Contents
  /\ [Fields -> Values \cup {Missing}] \subseteq Bodies
  /\ NoAnswer \in Bodies
BY DEF Contents, Bodies, NoAnswer

(***************************************************************************)
(* Replacing a value leaves a response.                                    *)
(***************************************************************************)
LEMMA ReplacementsType ==
  ASSUME NEW body \in Bodies, NEW value, NEW p \in Placeholders,
         NEW data \in Replacements(body, value, p)
  PROVE  data \in Bodies
<1>1. \A places : ReplaceAt(body, places, p) \in Bodies
  BY ContentType DEF ReplaceAt, Bodies
<1>2. \/ data = body
      \/ \E places : data = ReplaceAt(body, places, p)
  BY DEF Replacements
<1>3. QED
  BY <1>1, <1>2

(***************************************************************************)
(* Resolving the placeholders of a body whose Secrets are there leaves a   *)
(* response.                                                               *)
(***************************************************************************)
LEMMA ResolvedType ==
  ASSUME TypeOK, NEW body \in Bodies, Resolvable(body, BodyFields)
  PROVE  Resolved(body, BodyFields) \in Bodies
<1>1. ASSUME NEW f \in BodyFields, body[f] \in Placeholders PROVE Lookup(body[f]) \in Contents
  <2>1. body[f][1] \in Secrets /\ body[f][2] \in Keys
    BY <1>1 DEF Placeholders
  <2>2. secrets[body[f][1]] \in SecretRecords
    BY <1>1, <2>1 DEF Resolvable, TypeOK
  <2>3. secrets[body[f][1]].data[body[f][2]] \in Contents
    BY <2>1, <2>2 DEF SecretRecords
  <2>4. QED
    BY <2>3, ContentType DEF Lookup
<1>2. QED
  BY <1>1, ContentType DEF Resolved, Bodies

(***************************************************************************)
(* Within a config: its Secret, and its mapping while a key is patched.    *)
(***************************************************************************)
LEMMA PlaceType ==
  ASSUME Inv, NEW o \in Objects, ~At(o, "idle"), ~At(o, "store")
  PROVE  /\ Target(o) \in Secrets
         /\ Config(o).labels \in [Labels -> Fields \cup {Missing}]
         /\ Config(o).keyMappings \in Seq(KeyInjections)
         /\ worker[o].config \in Nat /\ worker[o].config <= Len(Configs[o])
         /\ worker[o].config \in DOMAIN Configs[o]
         /\ At(o, "patch") => /\ Mapping(o) \in KeyInjections
                              /\ worker[o].mapping <= Len(Config(o).keyMappings)
<1>1. worker[o].config \in DOMAIN Configs[o]
  BY DEF Inv, WorkersPlaced
<1>2. /\ Target(o) \in Secrets
      /\ Config(o).labels \in [Labels -> Fields \cup {Missing}]
      /\ Config(o).keyMappings \in Seq(KeyInjections)
      /\ worker[o].config \in Nat /\ worker[o].config <= Len(Configs[o])
  BY <1>1, ConfigType DEF Target, Config
<1>3. ASSUME At(o, "patch")
      PROVE  /\ Mapping(o) \in KeyInjections
             /\ worker[o].mapping <= Len(Config(o).keyMappings)
  BY <1>2, <1>3 DEF Mapping, Inv, WorkersPlaced
<1>4. QED
  BY <1>1, <1>2, <1>3

-----------------------------------------------------------------------------
(***************************************************************************)
(* The steps of one worker: what each leaves in the invariant.             *)
(***************************************************************************)
OnlyWorker(o) ==
  \A p \in Objects \ {o} : worker'[p] = worker[p] /\ held'[p] = held[p]

PlacedNext(o) ==
  /\ worker'[o].pc \notin {"idle", "store"} => worker'[o].config \in DOMAIN Configs[o]
  /\ worker'[o].pc \in {"get", "create", "own"} => worker'[o].mapping = 1
  /\ worker'[o].pc = "patch"
       => worker'[o].mapping \in DOMAIN Configs[o][worker'[o].config].keyMappings
  /\ worker'[o].pc \in {"own", "patch", "metadata"} => held'[o] # None

HeldType == held' \in [Objects -> SecretRecords \cup {None}]

LEMMA WorkersPlacedNext ==
  ASSUME Inv, NEW o \in Objects, OnlyWorker(o), PlacedNext(o)
  PROVE  WorkersPlaced'
<1> SUFFICES ASSUME NEW p \in Objects
             PROVE  /\ ~At(p, "idle")' /\ ~At(p, "store")' => worker'[p].config \in DOMAIN Configs[p]
                    /\ At(p, "get")' \/ At(p, "create")' \/ At(p, "own")' => worker'[p].mapping = 1
                    /\ At(p, "patch")' => worker'[p].mapping \in DOMAIN Config(p)'.keyMappings
                    /\ At(p, "own")' \/ At(p, "patch")' \/ At(p, "metadata")' => held'[p] # None
  BY DEF WorkersPlaced
<1>1. CASE p = o
  BY <1>1 DEF PlacedNext, At, Config
<1>2. CASE p # o
  BY <1>2 DEF OnlyWorker, At, Config, Inv, WorkersPlaced
<1>3. QED
  BY <1>1, <1>2

LEMMA FreshNext ==
  ASSUME Inv, NEW o \in Objects, OnlyWorker(o), fresh' \subseteq fresh \cup {o},
         \A p \in fresh' \ {o} : secrets'[Target(p)] = secrets[Target(p)],
         o \in fresh' => /\ worker'[o].pc \notin {"idle", "store"}
                         /\ held'[o] = secrets'[Configs[o][worker'[o].config].secret]
  PROVE  FreshIsLatest'
<1>1. fresh \subseteq Objects
  BY DEF Inv, TypeOK
<1> SUFFICES ASSUME NEW p \in fresh'
             PROVE  ~At(p, "idle")' /\ ~At(p, "store")' /\ held'[p] = secrets'[Target(p)']
  BY DEF FreshIsLatest
<1>2. CASE p = o
  BY <1>2 DEF At, Target, Config
<1>3. CASE p # o
  <2>1. p \in fresh /\ worker'[p] = worker[p] /\ held'[p] = held[p]
    BY <1>1, <1>3 DEF OnlyWorker
  <2>2. Target(p)' = Target(p)
    BY <2>1 DEF Target, Config
  <2>3. QED
    BY <1>3, <2>1, <2>2 DEF At, Inv, FreshIsLatest
<1>4. QED
  BY <1>2, <1>3

(***************************************************************************)
(* Three ways to go on: to the next config, to the first mapping of this   *)
(* one, to the next mapping.                                               *)
(***************************************************************************)
LEMMA NextConfigMoves ==
  ASSUME Inv, NEW o \in Objects, ~At(o, "idle"), ~At(o, "store"), NEW data \in Bodies,
         NextConfig(o, data)
  PROVE  /\ OnlyWorker(o) /\ PlacedNext(o) /\ HeldType
         /\ worker' \in [Objects -> Workers]
<1>1. worker \in [Objects -> Workers] /\ held \in [Objects -> SecretRecords \cup {None}]
  BY DEF Inv, TypeOK
<1>2. /\ worker'[o].config = worker[o].config + 1 /\ worker'[o].mapping = 1
      /\ worker'[o].pc = IF worker[o].config < Len(Configs[o]) THEN "get" ELSE "store"
  BY <1>1 DEF NextConfig, Workers
<1>3. worker[o].config < Len(Configs[o]) => worker[o].config + 1 \in DOMAIN Configs[o]
  BY PlaceType, SecretConstants
<1>4. worker' \in [Objects -> Workers]
  BY <1>1 DEF NextConfig, Workers, PCs
<1>5. QED
  BY <1>1, <1>2, <1>3, <1>4 DEF NextConfig, OnlyWorker, PlacedNext, HeldType

LEMMA FirstMappingMoves ==
  ASSUME Inv, NEW o \in Objects, At(o, "get") \/ At(o, "create") \/ At(o, "own"),
         GoTo(o, FirstMapping(o)), HeldType, held'[o] # None,
         \A p \in Objects \ {o} : held'[p] = held[p]
  PROVE  /\ OnlyWorker(o) /\ PlacedNext(o) /\ worker' \in [Objects -> Workers]
         /\ worker'[o].config = worker[o].config /\ worker'[o].pc \in {"patch", "metadata"}
<1>1. worker \in [Objects -> Workers]
  BY DEF Inv, TypeOK
<1>2. /\ worker'[o].config = worker[o].config /\ worker'[o].mapping = worker[o].mapping
      /\ worker'[o].pc = FirstMapping(o) /\ FirstMapping(o) \in {"patch", "metadata"}
      /\ worker' \in [Objects -> Workers]
  BY <1>1 DEF GoTo, FirstMapping, Workers, PCs
<1>3. ~At(o, "idle") /\ ~At(o, "store")
  BY DEF At
<1>4. worker[o].config \in DOMAIN Configs[o] /\ worker[o].mapping = 1
  BY <1>3 DEF Inv, WorkersPlaced
<1>5. FirstMapping(o) = "patch" => 1 \in DOMAIN Configs[o][worker[o].config].keyMappings
  <2>1. Configs[o][worker[o].config].keyMappings \in Seq(KeyInjections)
    BY <1>4, ConfigType
  <2>2. QED
    BY <2>1 DEF FirstMapping, Config
<1>6. QED
  BY <1>1, <1>2, <1>4, <1>5 DEF OnlyWorker, PlacedNext, GoTo

LEMMA NextMappingMoves ==
  ASSUME Inv, NEW o \in Objects, At(o, "patch"), NEW data \in Bodies,
         NextMapping(o, data), HeldType, held'[o] # None,
         \A p \in Objects \ {o} : held'[p] = held[p]
  PROVE  /\ OnlyWorker(o) /\ PlacedNext(o) /\ worker' \in [Objects -> Workers]
         /\ worker'[o].config = worker[o].config /\ worker'[o].pc \in {"patch", "metadata"}
<1>1. worker \in [Objects -> Workers] /\ ~At(o, "idle") /\ ~At(o, "store")
  BY DEF Inv, TypeOK, At
<1>2. /\ worker'[o].config = worker[o].config /\ worker'[o].mapping = worker[o].mapping + 1
      /\ worker'[o].pc = IF worker[o].mapping < Len(Config(o).keyMappings)
                         THEN "patch" ELSE "metadata"
      /\ worker' \in [Objects -> Workers]
  BY <1>1 DEF NextMapping, Workers, PCs
<1>3. /\ worker[o].config \in DOMAIN Configs[o]
      /\ worker[o].mapping < Len(Config(o).keyMappings)
           => worker[o].mapping + 1 \in DOMAIN Config(o).keyMappings
  <2>1. worker[o].mapping \in Nat
    BY <1>1 DEF Workers
  <2>2. QED
    BY <1>1, <2>1, PlaceType
<1>4. QED
  BY <1>1, <1>2, <1>3 DEF OnlyWorker, PlacedNext, NextMapping, Config

(***************************************************************************)
(* A write leaves the writer with the latest version, and nobody with an   *)
(* earlier one.                                                            *)
(***************************************************************************)
LEMMA WriteMoves ==
  ASSUME Inv, NEW o \in Objects, ~At(o, "idle"), ~At(o, "store"), NEW new \in SecretRecords,
         Write(o, new)
  PROVE  /\ secrets' \in [Secrets -> SecretRecords \cup {None}] /\ HeldType
         /\ fresh' \in SUBSET Objects /\ fresh' \subseteq fresh \cup {o}
         /\ \A p \in fresh' \ {o} : secrets'[Target(p)] = secrets[Target(p)]
         /\ held'[o] = new /\ secrets'[Target(o)] = new
         /\ \A p \in Objects \ {o} : held'[p] = held[p]
<1>1. /\ secrets \in [Secrets -> SecretRecords \cup {None}] /\ fresh \in SUBSET Objects
      /\ held \in [Objects -> SecretRecords \cup {None}] /\ Target(o) \in Secrets
  BY PlaceType DEF Inv, TypeOK
<1>2. \A p \in fresh' \ {o} : secrets'[Target(p)] = secrets[Target(p)]
  <2> SUFFICES ASSUME NEW p \in fresh' \ {o} PROVE secrets'[Target(p)] = secrets[Target(p)]
    OBVIOUS
  <2>1. p \in fresh /\ p \notin Outdated(o, new)
    BY DEF Write
  <2>2. ~At(p, "idle") /\ ~At(p, "store")
    BY <2>1 DEF Inv, FreshIsLatest
  <2>3. Target(p) \in Secrets
    BY <1>1, <2>1, <2>2, PlaceType
  <2>4. QED
    BY <1>1, <2>1, <2>3 DEF Write, Outdated
<1>3. QED
  BY <1>1, <1>2 DEF Write, HeldType

-----------------------------------------------------------------------------
(***************************************************************************)
(* Reading and creating the Secret (GetOrCreateSecret).                    *)
(***************************************************************************)
LEMMA ReadInv ==
  ASSUME Inv, NEW o \in Objects, ReadSecret(o), fresh' \in {fresh \cup {o}, fresh \ {o}},
         faults' \in Nat
  PROVE  Inv'
<1>1. /\ TypeOK /\ At(o, "get") /\ ~At(o, "idle") /\ ~At(o, "store")
      /\ UNCHANGED <<secrets, Answered, dropped>>
      /\ Target(o) \in Secrets
  BY PlaceType DEF Inv, ReadSecret, At
<1>2. /\ HeldType /\ held'[o] = secrets[Target(o)]
      /\ \A p \in Objects \ {o} : held'[p] = held[p]
  BY <1>1 DEF ReadSecret, TypeOK, HeldType
<1>3. /\ OnlyWorker(o) /\ PlacedNext(o) /\ worker' \in [Objects -> Workers]
      /\ worker'[o].config = worker[o].config /\ worker'[o].pc \notin {"idle", "store"}
  <2>1. CASE secrets[Target(o)] # None /\ Owner(o) \subseteq secrets[Target(o)].owners
    <3>1. GoTo(o, FirstMapping(o))
      BY <2>1 DEF ReadSecret
    <3>2. QED
      BY <1>1, <1>2, <2>1, <3>1, FirstMappingMoves
  <2>2. CASE ~(secrets[Target(o)] # None /\ Owner(o) \subseteq secrets[Target(o)].owners)
    <3>1. PICK pc \in {"create", "own"} :
            GoTo(o, pc) /\ (pc = "own" => secrets[Target(o)] # None)
      BY <2>2 DEF ReadSecret
    <3>2. /\ worker'[o].pc = pc /\ worker'[o].config = worker[o].config
          /\ worker'[o].mapping = worker[o].mapping /\ worker' \in [Objects -> Workers]
      BY <1>1, <3>1 DEF GoTo, TypeOK, Workers, PCs
    <3>3. worker[o].mapping = 1 /\ worker[o].config \in DOMAIN Configs[o]
      BY <1>1 DEF Inv, WorkersPlaced
    <3>4. QED
      BY <1>2, <3>1, <3>2, <3>3 DEF OnlyWorker, PlacedNext, GoTo
  <2>3. QED
    BY <2>1, <2>2
<1>4. TypeOK'
  BY <1>1, <1>2, <1>3 DEF TypeOK, Answered, HeldType
<1>5. FreshIsLatest'
  BY <1>1, <1>2, <1>3, FreshNext DEF Target, Config
<1>6. QED
  BY <1>3, <1>4, <1>5, WorkersPlacedNext DEF Inv

(* An error ends the config.                                               *)
LEMMA GiveUpInv ==
  ASSUME Inv, NEW o \in Objects, ~At(o, "idle"), ~At(o, "store"), NEW data \in Bodies,
         GiveUp(o, data), UNCHANGED <<Answered, faults>>, dropped' \in SUBSET Placeholders
  PROVE  Inv'
<1>1. /\ OnlyWorker(o) /\ PlacedNext(o) /\ HeldType /\ worker' \in [Objects -> Workers]
  BY NextConfigMoves DEF GiveUp
<1>2. TypeOK'
  BY <1>1 DEF GiveUp, Inv, TypeOK, Answered, HeldType
<1>3. FreshIsLatest'
  BY <1>1, FreshNext DEF GiveUp
<1>4. QED
  BY <1>1, <1>2, <1>3, WorkersPlacedNext DEF Inv

(* A write within a config, after which the worker goes on in it.          *)
LEMMA WriteInv ==
  ASSUME Inv, NEW o \in Objects, ~At(o, "idle"), ~At(o, "store"), NEW new \in SecretRecords,
         Write(o, new), OnlyWorker(o), PlacedNext(o), worker' \in [Objects -> Workers],
         worker'[o].config = worker[o].config, worker'[o].pc \in {"patch", "metadata"},
         UNCHANGED <<Answered, faults>>, dropped' \in SUBSET Placeholders
  PROVE  Inv'
<1>1. TypeOK'
  BY WriteMoves DEF Inv, TypeOK, Answered, HeldType
<1>2. /\ fresh' \subseteq fresh \cup {o}
      /\ \A p \in fresh' \ {o} : secrets'[Target(p)] = secrets[Target(p)]
      /\ held'[o] = new /\ secrets'[Target(o)] = new
  BY WriteMoves
<1>3. held'[o] = secrets'[Configs[o][worker'[o].config].secret]
  BY <1>2 DEF Target, Config
<1>4. FreshIsLatest'
  BY <1>2, <1>3, FreshNext
<1>5. QED
  BY <1>1, <1>4, WorkersPlacedNext DEF Inv

(* What a write is made from.                                              *)
LEMMA HeldRecord ==
  ASSUME Inv, NEW o \in Objects, At(o, "own") \/ At(o, "patch") \/ At(o, "metadata")
  PROVE  /\ held[o] \in SecretRecords /\ held[o] # None
         /\ ~At(o, "idle") /\ ~At(o, "store") /\ worker[o].data \in Bodies
BY DEF Inv, TypeOK, WorkersPlaced, At, Workers

LEMMA CreateInv ==
  ASSUME Inv, NEW o \in Objects, Create(o)
  PROVE  Inv'
<1>1. /\ At(o, "create") /\ ~At(o, "idle") /\ ~At(o, "store") /\ worker[o].data \in Bodies
      /\ UNCHANGED <<Answered, dropped, faults>> /\ dropped \in SUBSET Placeholders
  BY DEF Create, At, Inv, TypeOK, Workers
<1>2. CASE secrets[Target(o)] = None
  <2>1. Write(o, NewSecret(o)) /\ GoTo(o, FirstMapping(o))
    BY <1>2 DEF Create
  <2>2. NewSecret(o) \in SecretRecords /\ NewSecret(o) # None
    BY ContentType DEF NewSecret, SecretRecords, Owner, None
  <2>3. /\ HeldType /\ held'[o] # None /\ \A p \in Objects \ {o} : held'[p] = held[p]
    BY <1>1, <2>1, <2>2, WriteMoves
  <2>4. QED
    BY <1>1, <2>1, <2>2, <2>3, FirstMappingMoves, WriteInv
<1>3. CASE secrets[Target(o)] # None
  BY <1>1, <1>3, GiveUpInv DEF Create
<1>4. QED
  BY <1>2, <1>3

LEMMA OwnInv ==
  ASSUME Inv, NEW o \in Objects, SetOwnerReference(o)
  PROVE  Inv'
<1>1. /\ At(o, "own") /\ UNCHANGED <<Answered, dropped, faults>>
      /\ dropped \in SUBSET Placeholders
  BY DEF SetOwnerReference, Inv, TypeOK
<1>2. CASE Writable(o)
  <2> DEFINE new == [held[o] EXCEPT !.owners = @ \cup Owner(o)]
  <2>1. Write(o, new) /\ GoTo(o, FirstMapping(o))
    BY <1>2 DEF SetOwnerReference
  <2>2. new \in SecretRecords /\ new # None
    BY <1>1, HeldRecord DEF SecretRecords, Owner, None
  <2>3. /\ HeldType /\ held'[o] # None /\ \A p \in Objects \ {o} : held'[p] = held[p]
    BY <1>1, <2>1, <2>2, HeldRecord, WriteMoves
  <2> HIDE DEF new
  <2>4. QED
    BY <1>1, <2>1, <2>2, <2>3, HeldRecord, FirstMappingMoves, WriteInv
<1>3. CASE ~Writable(o)
  BY <1>1, <1>3, HeldRecord, GiveUpInv DEF SetOwnerReference
<1>4. QED
  BY <1>2, <1>3

-----------------------------------------------------------------------------
(***************************************************************************)
(* Patching a key (updateSecretWithPatchedValue).                          *)
(***************************************************************************)
LEMMA UpdatedDataType ==
  ASSUME NEW data \in [Keys -> Contents], NEW m \in KeyInjections, NEW value \in Contents
  PROVE  UpdatedData(data, m, value) \in [Keys -> Contents]
BY ContentType DEF UpdatedData, KeyInjections

LEMMA PatchType ==
  ASSUME Inv, NEW o \in Objects, At(o, "patch")
  PROVE  /\ Mapping(o) \in KeyInjections /\ Extracted(o) \in Contents
         /\ <<Target(o), Mapping(o).key>> \in Placeholders
<1>1. ~At(o, "idle") /\ ~At(o, "store")
  BY DEF At
<1>2. Mapping(o) \in KeyInjections /\ Target(o) \in Secrets
  BY <1>1, PlaceType
<1>3. worker[o].original \in Bodies
  BY DEF Inv, TypeOK, Workers
<1>4. QED
  BY <1>2, <1>3 DEF Extracted, KeyInjections, Placeholders, Bodies

LEMMA AlreadyInv ==
  ASSUME Inv, NEW o \in Objects, AlreadyReplaced(o)
  PROVE  Inv'
<1>1. /\ At(o, "patch") /\ NextMapping(o, worker[o].data)
      /\ UNCHANGED <<secrets, held, fresh, Answered, dropped, faults>>
  BY DEF AlreadyReplaced
<1>2. HeldType /\ held'[o] # None /\ worker[o].data \in Bodies
  BY <1>1, HeldRecord DEF HeldType, Inv, TypeOK
<1>3. /\ OnlyWorker(o) /\ PlacedNext(o) /\ worker' \in [Objects -> Workers]
      /\ worker'[o].config = worker[o].config /\ worker'[o].pc \in {"patch", "metadata"}
  BY <1>1, <1>2, NextMappingMoves
<1>4. TypeOK'
  BY <1>1, <1>3 DEF Inv, TypeOK, Answered
<1>5. FreshIsLatest'
  BY <1>1, <1>3, FreshNext DEF Inv, FreshIsLatest, Target, Config
<1>6. QED
  BY <1>3, <1>4, <1>5, WorkersPlacedNext DEF Inv

LEMMA PatchInv ==
  ASSUME Inv, NEW o \in Objects, PatchKey(o)
  PROVE  Inv'
<1> DEFINE m     == Mapping(o)
           value == Extracted(o)
           p     == <<Target(o), m.key>>
           new   == [held[o] EXCEPT !.data = UpdatedData(@, m, value)]
<1>1. At(o, "patch") /\ UNCHANGED <<Answered, faults>>
  BY DEF PatchKey
<1>2. m \in KeyInjections /\ value \in Contents /\ p \in Placeholders
  BY <1>1, PatchType
<1>3. PICK data \in Replacements(worker[o].data, value, p) :
        IF Writable(o)
        THEN /\ Write(o, new) /\ NextMapping(o, data)
             /\ dropped' = IF value \in Values THEN dropped \ {p} ELSE dropped
        ELSE /\ GiveUp(o, data)
             /\ dropped' = IF value \in Values THEN dropped \cup {p} ELSE dropped
  BY DEF PatchKey
<1>4. data \in Bodies
  BY <1>1, <1>2, <1>3, HeldRecord, ReplacementsType
<1>5. dropped' \in SUBSET Placeholders
  BY <1>2, <1>3 DEF Inv, TypeOK
<1>6. CASE Writable(o)
  <2>1. held[o].data \in [Keys -> Contents]
    BY <1>1, HeldRecord DEF SecretRecords
  <2>2. new \in SecretRecords
    BY <1>1, <1>2, <2>1, HeldRecord, UpdatedDataType DEF SecretRecords
  <2>3. new # None
    BY <2>2 DEF SecretRecords, None
  <2> HIDE DEF new, m, value, p
  <2>4. Write(o, new) /\ NextMapping(o, data)
    BY <1>3, <1>6
  <2>5. /\ HeldType /\ held'[o] # None /\ \A q \in Objects \ {o} : held'[q] = held[q]
    BY <1>1, <2>2, <2>3, <2>4, HeldRecord, WriteMoves
  <2>6. QED
    BY <1>1, <1>4, <1>5, <2>2, <2>4, <2>5, HeldRecord, NextMappingMoves, WriteInv
<1>7. CASE ~Writable(o)
  BY <1>1, <1>3, <1>4, <1>5, <1>7, HeldRecord, GiveUpInv
<1>8. QED
  BY <1>6, <1>7

(***************************************************************************)
(* Labels (updateSecretLabelsAndAnnotations) are the last write.           *)
(***************************************************************************)
LEMMA SyncedLabelsType ==
  ASSUME Inv, NEW o \in Objects, At(o, "metadata")
  PROVE  SyncedLabels(held[o].labels, Config(o), worker[o].data) \in [Labels -> Contents]
<1>1. ~At(o, "idle") /\ ~At(o, "store")
  BY DEF At
<1>2. Config(o).labels \in [Labels -> Fields \cup {Missing}]
  BY <1>1, PlaceType
<1>3. held[o].labels \in [Labels -> Contents] /\ worker[o].data \in [Fields -> Contents]
  BY HeldRecord DEF SecretRecords, Bodies
<1>4. QED
  BY <1>2, <1>3, ContentType DEF SyncedLabels

LEMMA SyncInv ==
  ASSUME Inv, NEW o \in Objects, SyncLabels(o)
  PROVE  Inv'
<1> DEFINE new == [held[o] EXCEPT !.labels = SyncedLabels(@, Config(o), worker[o].data)]
<1>1. /\ At(o, "metadata") /\ ~At(o, "idle") /\ ~At(o, "store")
      /\ UNCHANGED <<Answered, dropped, faults>> /\ NextConfig(o, worker[o].data)
      /\ TypeOK /\ Target(o) \in Secrets
  BY PlaceType DEF SyncLabels, At, Inv
<1>2. new \in SecretRecords
  BY <1>1, HeldRecord, SyncedLabelsType DEF SecretRecords
<1>3. /\ OnlyWorker(o) /\ PlacedNext(o) /\ HeldType /\ worker' \in [Objects -> Workers]
  BY <1>1, HeldRecord, NextConfigMoves
<1> HIDE DEF new
<1>4. \/ /\ secrets' = [secrets EXCEPT ![Target(o)] = new]
         /\ fresh' = fresh \ (Outdated(o, new) \cup {o})
      \/ fresh' = fresh \ {o} /\ UNCHANGED secrets
  BY DEF SyncLabels, new
<1>5. \A p \in fresh' \ {o} : secrets'[Target(p)] = secrets[Target(p)]
  <2> SUFFICES ASSUME NEW p \in fresh' \ {o} PROVE secrets'[Target(p)] = secrets[Target(p)]
    OBVIOUS
  <2>1. p \in fresh
    BY <1>4
  <2>2. p \in Objects /\ ~At(p, "idle") /\ ~At(p, "store")
    BY <1>1, <2>1 DEF Inv, FreshIsLatest, TypeOK
  <2>3. Target(p) \in Secrets
    BY <2>2, PlaceType
  <2>4. QED
    BY <1>1, <1>4, <2>1, <2>3 DEF Outdated, TypeOK
<1>6. TypeOK'
  BY <1>1, <1>2, <1>3, <1>4 DEF TypeOK, Answered, HeldType
<1>7. FreshIsLatest'
  BY <1>3, <1>4, <1>5, FreshNext
<1>8. QED
  BY <1>3, <1>6, <1>7, WorkersPlacedNext DEF Inv

-----------------------------------------------------------------------------
(***************************************************************************)
(* Before and after a pass.                                                *)
(***************************************************************************)
LEMMA BeginInv ==
  ASSUME Inv, NEW o \in Objects, At(o, "idle"), NEW body \in Bodies, NEW kind \in Kinds,
         Begin(o, body, kind), UNCHANGED <<secrets, held, fresh, Answered, dropped>>,
         faults' \in Nat
  PROVE  Inv'
<1> DEFINE w == [pc |-> IF Configs[o] = <<>> THEN "store" ELSE "get", config |-> 1,
                 mapping |-> 1, kind |-> kind, original |-> body, data |-> body]
<1>1. worker' = [worker EXCEPT ![o] = w] /\ w \in Workers
  BY DEF Begin, Workers, PCs
<1>2. Configs[o] # <<>> => 1 \in DOMAIN Configs[o]
  BY SecretConstants
<1>3. OnlyWorker(o) /\ PlacedNext(o) /\ worker' \in [Objects -> Workers]
  BY <1>1, <1>2 DEF OnlyWorker, PlacedNext, Inv, TypeOK
<1>4. TypeOK'
  BY <1>3 DEF Inv, TypeOK, Answered
<1>5. o \notin fresh
  BY DEF Inv, FreshIsLatest
<1>6. FreshIsLatest'
  BY <1>3, <1>5, FreshNext
<1>7. QED
  BY <1>3, <1>4, <1>6, WorkersPlacedNext DEF Inv

(* A pass that is over, or cut off.                                        *)
LEMMA IdleInv ==
  ASSUME Inv, NEW o \in Objects, worker' = [worker EXCEPT ![o] = Idle], HeldType,
         \A p \in Objects \ {o} : held'[p] = held[p],
         fresh' = fresh \ {o}, UNCHANGED <<secrets, remote, dropped>>,
         stored' \in [Objects -> Bodies], cached' \in [Objects -> Bodies],
         fitted' \in SUBSET Objects, faults' \in Nat
  PROVE  Inv'
<1>1. OnlyWorker(o) /\ PlacedNext(o) /\ worker' \in [Objects -> Workers]
  BY ContentType DEF Idle, OnlyWorker, PlacedNext, Workers, PCs, Kinds, Inv, TypeOK
<1>2. TypeOK'
  BY <1>1 DEF Inv, TypeOK, HeldType
<1>3. FreshIsLatest'
  BY <1>1, FreshNext
<1>4. QED
  BY <1>1, <1>2, <1>3, WorkersPlacedNext DEF Inv

LEMMA StoreInv ==
  ASSUME Inv, NEW o \in Objects, StoreAnswer(o)
  PROVE  Inv'
<1>1. worker[o].data \in Bodies /\ o \notin fresh /\ held' = held /\ HeldType
  BY DEF StoreAnswer, At, Inv, TypeOK, Workers, FreshIsLatest, HeldType
<1>2. stored' \in [Objects -> Bodies] /\ cached' \in [Objects -> Bodies] /\ fitted' \in SUBSET Objects
  <2>1. stored[o] \in Bodies /\ stored \in [Objects -> Bodies] /\ cached \in [Objects -> Bodies]
    BY DEF Inv, TypeOK
  <2>2. \A new \in Overwritten(stored[o], worker[o].data) : new \in Bodies
    BY <1>1, <2>1 DEF Overwritten, Bodies
  <2>3. stored' \in [Objects -> Bodies]
    BY <2>1, <2>2 DEF StoreAnswer
  <2>4. QED
    BY <1>1, <2>1, <2>3 DEF StoreAnswer, Inv, TypeOK
<1>3. /\ worker' = [worker EXCEPT ![o] = Idle] /\ fresh' = fresh \ {o}
      /\ \A p \in Objects \ {o} : held'[p] = held[p]
      /\ UNCHANGED <<secrets, remote, dropped>> /\ faults' \in Nat
  BY <1>1 DEF StoreAnswer, Inv, TypeOK
<1>4. QED
  BY <1>1, <1>2, <1>3, IdleInv

LEMMA AbortInv ==
  ASSUME Inv, NEW o \in Objects, Abort(o)
  PROVE  Inv'
<1>1. HeldType /\ \A p \in Objects \ {o} : held'[p] = held[p]
  BY DEF Abort, HeldType, Inv, TypeOK
<1>2. faults' \in Nat
  BY DEF Abort, Fault, Inv, TypeOK
<1>3. QED
  BY <1>1, <1>2, IdleInv DEF Abort, Answered, Inv, TypeOK

(* Steps that leave the workers alone.                                     *)
LEMMA OthersInv ==
  ASSUME Inv, UNCHANGED <<worker, held>>, TypeOK', fresh' \subseteq fresh,
         \A o \in fresh' : secrets'[Target(o)] = secrets[Target(o)]
  PROVE  Inv'
<1>1. WorkersPlaced'
  BY DEF Inv, WorkersPlaced, At, Config
<1>2. FreshIsLatest'
  BY DEF Inv, FreshIsLatest, At, Target, Config
<1>3. QED
  BY <1>1, <1>2 DEF Inv

LEMMA ChangeInv ==
  ASSUME Inv, NEW o \in Objects, ChangeAnswer(o)
  PROVE  Inv'
<1>1. UNCHANGED <<secrets, held, fresh, worker, stored, cached, dropped, fitted>>
  BY DEF ChangeAnswer
<1>2. PICK j \in DOMAIN Answers[o] : remote' = [remote EXCEPT ![o] = Answers[o][j]]
  BY DEF ChangeAnswer
<1>3. Answers[o][j] \in Bodies
  BY SecretConstants, ContentType
<1>4. faults' \in Nat
  BY DEF ChangeAnswer, Fault, Inv, TypeOK
<1>5. TypeOK'
  BY <1>1, <1>2, <1>3, <1>4 DEF Inv, TypeOK
<1>6. QED
  BY <1>1, <1>5, OthersInv

LEMMA RemoveInv ==
  ASSUME Inv, NEW s \in Secrets, RemoveSecret(s)
  PROVE  Inv'
<1>1. /\ UNCHANGED <<held, worker, stored, cached, remote, fitted>>
      /\ secrets' = [secrets EXCEPT ![s] = None]
      /\ fresh' = {o \in fresh : Target(o) # s}
      /\ dropped' = dropped \cup ({s} \X Keys) /\ faults' \in Nat
  BY DEF RemoveSecret, Fault, Answered, Inv, TypeOK
<1>2. TypeOK'
  BY <1>1 DEF Inv, TypeOK, Placeholders
<1>3. \A o \in fresh' : secrets'[Target(o)] = secrets[Target(o)]
  <2> SUFFICES ASSUME NEW o \in fresh' PROVE secrets'[Target(o)] = secrets[Target(o)]
    OBVIOUS
  <2>1. o \in Objects /\ ~At(o, "idle") /\ ~At(o, "store") /\ Target(o) # s
    BY <1>1 DEF Inv, TypeOK, FreshIsLatest
  <2>2. QED
    BY <1>1, <2>1, PlaceType DEF Inv, TypeOK
<1>4. QED
  BY <1>1, <1>2, <1>3, OthersInv

-----------------------------------------------------------------------------
LEMMA InitInv == Init => Inv
<1> SUFFICES ASSUME Init PROVE Inv
  OBVIOUS
<1>1. \A o \in Objects : Answers[o][1] \in Bodies
  BY SecretConstants, ContentType
<1>2. Idle \in Workers
  BY ContentType DEF Idle, Workers, PCs, Kinds
<1>3. TypeOK
  BY <1>1, <1>2, ContentType DEF Init, TypeOK
<1>4. QED
  BY <1>3 DEF Inv, WorkersPlaced, FreshIsLatest, At, Idle, Init

LEMMA NextInv == Inv /\ [Next]_vars => Inv'
<1> SUFFICES ASSUME Inv, [Next]_vars PROVE Inv'
  OBVIOUS
<1>1. CASE UNCHANGED vars
  BY <1>1 DEF vars, Inv, TypeOK, WorkersPlaced, FreshIsLatest, At, Target, Config
<1>2. ASSUME NEW o \in Objects, ReceiveAnswer(o) PROVE Inv'
  BY <1>2, BeginInv DEF ReceiveAnswer, Call, Inv, TypeOK, Kinds
<1>3. ASSUME NEW o \in Objects, ReceiveFailure(o) PROVE Inv'
  <2>1. faults' \in Nat
    BY <1>3 DEF ReceiveFailure, Fault, Inv, TypeOK
  <2>2. QED
    BY <1>3, <2>1, BeginInv, ContentType DEF ReceiveFailure, Call, Kinds
<1>4. ASSUME NEW o \in Objects, Replay(o) PROVE Inv'
  <2>1. Resolved(stored[o], BodyFields) \in Bodies
    BY <1>4, ResolvedType DEF Replay, Inv, TypeOK
  <2>2. QED
    BY <1>4, <2>1, BeginInv DEF Replay, Kinds, Inv, TypeOK
<1>5. ASSUME NEW o \in Objects, Get(o) \/ GetFromCache(o) PROVE Inv'
  BY <1>5, ReadInv DEF Get, GetFromCache, Fault, Inv, TypeOK
<1>6. ASSUME NEW o \in Objects,
             Create(o) \/ SetOwnerReference(o) \/ AlreadyReplaced(o) \/ PatchKey(o)
               \/ SyncLabels(o) \/ StoreAnswer(o) \/ Abort(o) \/ ChangeAnswer(o)
      PROVE  Inv'
  BY <1>6, CreateInv, OwnInv, AlreadyInv, PatchInv, SyncInv, StoreInv, AbortInv, ChangeInv
<1>7. ASSUME NEW s \in Secrets, RemoveSecret(s) PROVE Inv'
  BY <1>7, RemoveInv
<1>8. QED
  BY <1>1, <1>2, <1>3, <1>4, <1>5, <1>6, <1>7 DEF Next, Reconcile

LEMMA Invariance == Spec => []Inv
BY InitInv, NextInv, PTL DEF Spec

(***************************************************************************)
(* Secrets, copies, passes and stored answers keep their shape, and no     *)
(* worker steps outside its configs, whatever is answered and whoever      *)
(* writes meanwhile (ApplyResponseDataToSecrets and all that it calls).    *)
(***************************************************************************)
THEOREM TypeCorrect == Spec => []TypeOK
<1>1. Inv => TypeOK
  BY DEF Inv
<1>2. QED
  BY <1>1, Invariance, PTL

-----------------------------------------------------------------------------
(***************************************************************************)
(* Isolation, step by step: only a worker with the latest copy writes to a *)
(* Secret that is there, and what it writes differs from the copy in what  *)
(* its config maps.                                                        *)
(***************************************************************************)
LEMMA WrittenSecret ==
  ASSUME Inv, NEW o \in Objects, ~At(o, "idle"), ~At(o, "store"), NEW new \in SecretRecords,
         secrets' = [secrets EXCEPT ![Target(o)] = new], Writable(o), worker'[o] # worker[o],
         NEW s \in Secrets, secrets'[s] # secrets[s],
         \A k \in Keys :
           \/ new.data[k] = held[o].data[k]
           \/ \E i \in Injections(o) : i.secret = Target(o) /\ i.mapping.key = k,
         held[o].owners \subseteq new.owners, new.owners \subseteq held[o].owners \cup {o}
  PROVE  InjectedBy(o, s)
<1>1. Target(o) \in Secrets /\ secrets \in [Secrets -> SecretRecords \cup {None}]
  BY PlaceType DEF Inv, TypeOK
<1>2. s = Target(o) /\ secrets'[s] = new
  BY <1>1
<1>3. held[o] = secrets[s]
  BY <1>2 DEF Writable, Inv, FreshIsLatest
<1>4. QED
  BY <1>2, <1>3 DEF InjectedBy

LEMMA OwnIsolated ==
  ASSUME Inv, NEW o \in Objects, SetOwnerReference(o), NEW s \in Secrets,
         secrets'[s] # secrets[s]
  PROVE  InjectedBy(o, s)
<1> DEFINE new == [held[o] EXCEPT !.owners = @ \cup Owner(o)]
<1>1. At(o, "own") /\ ~At(o, "idle") /\ ~At(o, "store") /\ held[o] \in SecretRecords
  BY HeldRecord DEF SetOwnerReference
<1>2. Writable(o) /\ secrets' = [secrets EXCEPT ![Target(o)] = new] /\ GoTo(o, FirstMapping(o))
  BY DEF SetOwnerReference, GiveUp, Write
<1>3. new \in SecretRecords /\ new.data = held[o].data /\ new.owners = held[o].owners \cup Owner(o)
  BY <1>1 DEF SecretRecords, Owner
<1>4. worker'[o] # worker[o]
  BY <1>1, <1>2 DEF GoTo, FirstMapping, At, Inv, TypeOK, Workers
<1>5. Owner(o) \subseteq {o}
  BY DEF Owner
<1> HIDE DEF new
<1>6. QED
  BY <1>1, <1>2, <1>3, <1>4, <1>5, WrittenSecret

LEMMA PatchIsolated ==
  ASSUME Inv, NEW o \in Objects, PatchKey(o), NEW s \in Secrets, secrets'[s] # secrets[s]
  PROVE  InjectedBy(o, s)
<1> DEFINE m     == Mapping(o)
           value == Extracted(o)
           new   == [held[o] EXCEPT !.data = UpdatedData(@, m, value)]
<1>1. At(o, "patch") /\ ~At(o, "idle") /\ ~At(o, "store") /\ held[o] \in SecretRecords
  BY HeldRecord DEF PatchKey
<1>2. m \in KeyInjections /\ value \in Contents
  BY <1>1, PatchType
<1>3. PICK data : /\ Writable(o) /\ secrets' = [secrets EXCEPT ![Target(o)] = new]
                  /\ NextMapping(o, data)
  BY DEF PatchKey, GiveUp, Write
<1>4. held[o].data \in [Keys -> Contents]
  BY <1>1 DEF SecretRecords
<1>5. /\ new \in SecretRecords /\ new.owners = held[o].owners
      /\ new.data = UpdatedData(held[o].data, m, value)
  BY <1>1, <1>2, <1>4, UpdatedDataType DEF SecretRecords
<1>6. \A k \in Keys : k # m.key => new.data[k] = held[o].data[k]
  BY <1>4, <1>5 DEF UpdatedData
<1>7. \E i \in Injections(o) : i.secret = Target(o) /\ i.mapping.key = m.key
  <2>1. worker[o].config \in DOMAIN Configs[o] /\ worker[o].mapping \in DOMAIN Config(o).keyMappings
    BY <1>1, PlaceType DEF Inv, WorkersPlaced
  <2>2. [secret |-> Target(o), mapping |-> m] \in Injections(o)
    BY <2>1 DEF Injections, Target, Mapping, Config
  <2>3. QED
    BY <2>2
<1>8. worker'[o] # worker[o]
  <2>1. worker \in [Objects -> Workers] /\ worker[o].mapping \in Nat
    BY DEF Inv, TypeOK, Workers
  <2>2. worker'[o].mapping = worker[o].mapping + 1
    BY <1>3, <2>1 DEF NextMapping, Workers
  <2>3. QED
    BY <2>1, <2>2
<1>9. \A k \in Keys :
        \/ new.data[k] = held[o].data[k]
        \/ \E i \in Injections(o) : i.secret = Target(o) /\ i.mapping.key = k
  BY <1>6, <1>7
<1>10. /\ new \in SecretRecords /\ held[o].owners \subseteq new.owners
       /\ new.owners \subseteq held[o].owners \cup {o}
  BY <1>5
<1>11. ~At(o, "idle") /\ ~At(o, "store") /\ Writable(o)
       /\ secrets' = [secrets EXCEPT ![Target(o)] = new]
  BY <1>1, <1>3
<1> HIDE DEF new, m, value
<1>12. QED
  BY <1>8, <1>9, <1>10, <1>11, WrittenSecret, ZenonT(60)

LEMMA SyncIsolated ==
  ASSUME Inv, NEW o \in Objects, SyncLabels(o), NEW s \in Secrets, secrets'[s] # secrets[s]
  PROVE  InjectedBy(o, s)
<1> DEFINE new == [held[o] EXCEPT !.labels = SyncedLabels(@, Config(o), worker[o].data)]
<1>1. At(o, "metadata") /\ ~At(o, "idle") /\ ~At(o, "store") /\ held[o] \in SecretRecords
  BY HeldRecord DEF SyncLabels
<1>2. /\ Writable(o) /\ secrets' = [secrets EXCEPT ![Target(o)] = new]
      /\ NextConfig(o, worker[o].data)
  BY DEF SyncLabels
<1>3. new \in SecretRecords /\ new.data = held[o].data /\ new.owners = held[o].owners
  BY <1>1, SyncedLabelsType DEF SecretRecords
<1>4. worker'[o] # worker[o]
  <2>1. worker \in [Objects -> Workers] /\ worker[o].config \in Nat
    BY DEF Inv, TypeOK, Workers
  <2>2. worker'[o].config = worker[o].config + 1
    BY <1>2, <2>1 DEF NextConfig, Workers
  <2>3. QED
    BY <2>1, <2>2
<1> HIDE DEF new
<1>5. QED
  BY <1>1, <1>2, <1>3, <1>4, WrittenSecret

(***************************************************************************)
(* Whatever objects, configs and Secrets there are: a step changes a       *)
(* Secret only as one injection of one object does (UpdateSecret and the   *)
(* version it sends along).                                                *)
(***************************************************************************)
THEOREM IsolationHolds == Spec => Isolation
<1>1. ASSUME Inv, [Next]_vars, NEW s \in Secrets,
             secrets[s] # None, secrets'[s] # None, secrets'[s] # secrets[s]
      PROVE  \E o \in Objects : InjectedBy(o, s)
  <2>1. ASSUME NEW o \in Objects, Create(o) PROVE FALSE
    BY <1>1, <2>1 DEF Create, Write, GiveUp, Inv, TypeOK
  <2>2. ASSUME NEW o \in Objects,
               \/ ReceiveAnswer(o) \/ ReceiveFailure(o) \/ Replay(o) \/ Get(o) \/ GetFromCache(o)
               \/ AlreadyReplaced(o) \/ StoreAnswer(o) \/ Abort(o) \/ ChangeAnswer(o)
        PROVE  FALSE
    BY <1>1, <2>2 DEF ReceiveAnswer, ReceiveFailure, Replay, Get, GetFromCache, ReadSecret,
                      AlreadyReplaced, StoreAnswer, Abort, ChangeAnswer
  <2>3. ASSUME NEW r \in Secrets, RemoveSecret(r) PROVE FALSE
    BY <1>1, <2>3 DEF RemoveSecret, Inv, TypeOK
  <2>4. ~UNCHANGED vars
    BY <1>1 DEF vars
  <2>5. \E o \in Objects : SetOwnerReference(o) \/ PatchKey(o) \/ SyncLabels(o)
    BY <1>1, <2>1, <2>2, <2>3, <2>4 DEF Next, Reconcile
  <2>6. QED
    BY <1>1, <2>5, OwnIsolated, PatchIsolated, SyncIsolated
<1>2. Inv /\ [Next]_vars =>
        [ \A s \in Secrets :
            (secrets[s] # None /\ secrets'[s] # None /\ secrets'[s] # secrets[s])
              => \E o \in Objects : InjectedBy(o, s) ]_vars
  BY <1>1
<1>3. QED
  BY <1>2, Invariance, PTL DEF Spec, Isolation
=============================================================================
