-------------------------- MODULE SecretInjection --------------------------
(***************************************************************************)
(* Objects that inject values of their answers into Kubernetes Secrets,    *)
(* keep the answers in their status with placeholders in place of the      *)
(* values, and template their next calls from them.                        *)
(*                                                                         *)
(* Every object is a worker of its own, and every call to the API server   *)
(* is one step, so that two objects may work on one Secret side by side.   *)
(* An AsyncRequest calls the remote API again and again; an                *)
(* AsyncDisposableRequest (Replays) calls once and from then on injects    *)
(* its stored answer again.                                                *)
(***************************************************************************)
EXTENDS Naturals, Sequences

CONSTANTS
  Objects,       \* The custom resources.
  Replays,       \* Those of them that are disposable requests.
  Secrets,       \* The Secrets they may refer to.
  Keys, Labels,  \* Keys and labels of a Secret.
  Fields,        \* What jq expressions of the specs may select in an answer.
  HeaderFields,  \* The fields that are headers; the others are in the body.
  Values,        \* What a field may carry.
  JSONObjects,   \* The values that are JSON objects.
  Numbers,       \* The values that are numbers or booleans.
  LabelValues,   \* The values that are no valid label are left out here.
  Missing,       \* No such field, key or label.
  Empty,         \* The empty string.
  Namespace,     \* Of each object ("" if cluster-scoped) and each Secret.
  Configs,       \* secretInjectionConfigs of each object, in order.
  Needs,         \* The fields that every mapping of an object templates.
  Nulls,         \* Values, and objects with a payload, that contain the word null.
  Answers,       \* What the remote API answers to an object, in this order.
  MaxFaults      \* Bound: failed calls, crashes, removed Secrets, changed answers.

None == [none |-> TRUE]

Strategies   == {"preserve", "setEmpty", "delete"}
Placeholders == Secrets \X Keys
Contents     == Values \cup {Missing, Empty} \cup Placeholders
Bodies       == [Fields -> Contents]
BodyFields   == Fields \ HeaderFields

KeyInjections == [key : Keys, field : Fields, missing : Strategies]

(* The deprecated fields of a config are one mapping that deletes.         *)
SecretInjectionConfigs ==
  [ secret : Secrets, keyMappings : Seq(KeyInjections),
    labels : [Labels -> Fields \cup {Missing}], setOwnerReference : BOOLEAN ]

ASSUME SecretConstants ==
  /\ Replays \subseteq Objects /\ HeaderFields \subseteq Fields
  /\ JSONObjects \subseteq Values /\ Numbers \subseteq Values /\ LabelValues \subseteq Values
  /\ Missing \notin Values /\ Empty \notin Values /\ Missing # Empty
  /\ Missing \notin Placeholders /\ Empty \notin Placeholders
  /\ Values \cap Placeholders = {} /\ Missing \notin Fields
  /\ Configs \in [Objects -> Seq(SecretInjectionConfigs)]
  /\ Needs \in [Objects -> SUBSET Fields] /\ Nulls \subseteq Values \cup Objects
  /\ Answers \in [Objects -> Seq([Fields -> Values \cup {Missing}]) \ {<<>>}]
  /\ MaxFaults \in Nat

VARIABLES
  secrets,   \* The Secrets in the API server; None: there is no such Secret.
  held,      \* The copy of a Secret that each worker holds.
  fresh,     \* The workers whose copy is the latest version.
  worker,    \* Where each worker is in its pass over the configs.
  stored,    \* status.response of each object.
  cached,    \* status.cache.response of each object.
  remote,    \* What the remote API answers to each object.
  dropped,   \* History: placeholders stored although their value is in no Secret.
  fitted,    \* History: objects that stored an answer which fits their mappings.
  faults     \* History: faults so far.

vars == <<secrets, held, fresh, worker, stored, cached, remote, dropped, fitted, faults>>

SecretRecords ==
  [ data : [Keys -> Contents], labels : [Labels -> Contents], owners : SUBSET Objects ]

PCs == {"idle", "get", "create", "own", "patch", "metadata", "store"}

(* An answer of success, one of failure, no answer, an answer of old.      *)
Kinds == {"answer", "error", "lost", "replay"}

Workers ==
  [ pc : PCs, config : Nat, mapping : Nat, kind : Kinds, original : Bodies, data : Bodies ]

NoAnswer == [f \in Fields |-> Missing]

Idle == [pc |-> "idle", config |-> 1, mapping |-> 1, kind |-> "lost",
         original |-> NoAnswer, data |-> NoAnswer]

TypeOK ==
  /\ secrets \in [Secrets -> SecretRecords \cup {None}]
  /\ held \in [Objects -> SecretRecords \cup {None}]
  /\ fresh \in SUBSET Objects
  /\ worker \in [Objects -> Workers]
  /\ stored \in [Objects -> Bodies]
  /\ cached \in [Objects -> Bodies]
  /\ remote \in [Objects -> Bodies]
  /\ dropped \in SUBSET Placeholders
  /\ fitted \in SUBSET Objects
  /\ faults \in Nat

Init ==
  /\ secrets = [s \in Secrets |-> None]
  /\ held = [o \in Objects |-> None] /\ fresh = {}
  /\ worker = [o \in Objects |-> Idle]
  /\ stored = [o \in Objects |-> NoAnswer] /\ cached = stored
  /\ remote = [o \in Objects |-> Answers[o][1]]
  /\ dropped = {} /\ fitted = {} /\ faults = 0

-----------------------------------------------------------------------------
(* The position of a worker in its pass.                                   *)

Config(o) == Configs[o][worker[o].config]

Mapping(o) == Config(o).keyMappings[worker[o].mapping]

Target(o) == Config(o).secret

At(o, pc) == worker[o].pc = pc

Fault == faults < MaxFaults /\ faults' = faults + 1

Answered == <<stored, cached, remote, fitted>>

NextConfig(o, data) ==
  /\ held' = [held EXCEPT ![o] = None]
  /\ worker' = [worker EXCEPT ![o].data = data, ![o].config = @ + 1, ![o].mapping = 1,
                  ![o].pc = IF worker[o].config < Len(Configs[o]) THEN "get" ELSE "store"]

(* An error ends the config; it is logged, and the pass goes on.           *)
GiveUp(o, data) == NextConfig(o, data) /\ fresh' = fresh \ {o} /\ UNCHANGED secrets

(* Within a config.                                                        *)
GoTo(o, pc) == worker' = [worker EXCEPT ![o].pc = pc]

(* A list of mappings may be empty.                                        *)
FirstMapping(o) == IF Config(o).keyMappings = <<>> THEN "metadata" ELSE "patch"

-----------------------------------------------------------------------------
(* Secrets: optimistic updates.                                            *)

(* Mutated: an update overwrites whatever is there.                        *)
AlwaysWritable(o) == secrets[Target(o)] # None

Writable(o) == o \in fresh

(* A write that changes nothing makes no new version.                      *)
Outdated(o, new) ==
  IF secrets[Target(o)] = new THEN {} ELSE {p \in fresh : Target(p) = Target(o)}

Write(o, new) ==
  /\ secrets' = [secrets EXCEPT ![Target(o)] = new]
  /\ held' = [held EXCEPT ![o] = new]
  /\ fresh' = (fresh \ Outdated(o, new)) \cup {o}

(***************************************************************************)
(* An owner reference needs the owner in the Secret's namespace, or a      *)
(* cluster-scoped owner.                                                   *)
(***************************************************************************)
Owner(o) ==
  IF /\ Config(o).setOwnerReference
     /\ Namespace[o] = "" \/ Namespace[o] = Namespace[Target(o)]
  THEN {o} ELSE {}

ReadSecret(o) ==
  /\ At(o, "get")
  /\ held' = [held EXCEPT ![o] = secrets[Target(o)]]
  /\ GoTo(o, IF secrets[Target(o)] = None THEN "create"
             ELSE IF Owner(o) \subseteq secrets[Target(o)].owners
             THEN FirstMapping(o) ELSE "own")
  /\ UNCHANGED <<secrets, Answered, dropped>>

Get(o) ==
  /\ ReadSecret(o)
  /\ fresh' = fresh \cup {o}
  /\ UNCHANGED faults

(* The client reads from a cache, which may be behind the API server: the  *)
(* first write from this copy is refused.                                  *)
GetFromCache(o) ==
  /\ ReadSecret(o) /\ secrets[Target(o)] # None
  /\ Fault
  /\ fresh' = fresh \ {o}

NewSecret(o) ==
  [data |-> [k \in Keys |-> Missing], labels |-> [l \in Labels |-> Missing],
   owners |-> Owner(o)]

Create(o) ==
  /\ At(o, "create")
  /\ IF secrets[Target(o)] = None
     THEN Write(o, NewSecret(o)) /\ GoTo(o, FirstMapping(o))
     ELSE GiveUp(o, worker[o].data)
  /\ UNCHANGED <<Answered, dropped, faults>>

SetOwnerReference(o) ==
  /\ At(o, "own")
  /\ IF Writable(o)
     THEN /\ Write(o, [held[o] EXCEPT !.owners = @ \cup Owner(o)])
          /\ GoTo(o, FirstMapping(o))
     ELSE GiveUp(o, worker[o].data)
  /\ UNCHANGED <<Answered, dropped, faults>>

-----------------------------------------------------------------------------
(* One key of a Secret.                                                    *)

(* Mutated: a value is looked up in what the earlier configs left of it.   *)
ExtractedFromRemains(o) == worker[o].data[Mapping(o).field]

Extracted(o) == worker[o].original[Mapping(o).field]

(* Mutated: a missing field always deletes the key.                        *)
DataUpdatedOrDeleted(data, m, value) == [data EXCEPT ![m.key] = value]

(* Mutated: a key that is there is left as it is.                          *)
DataFilledOnce(data, m, value) ==
  IF data[m.key] = Missing THEN [data EXCEPT ![m.key] = value] ELSE data

UpdatedData(data, m, value) ==
  IF value # Missing \/ m.missing = "delete" THEN [data EXCEPT ![m.key] = value]
  ELSE IF m.missing = "setEmpty" THEN [data EXCEPT ![m.key] = Empty]
  ELSE data

(***************************************************************************)
(* The value is replaced wherever it stands: a string in the body with its *)
(* quotes, a number not at all, a JSON object where it is found first, and *)
(* anything in a header.                                                   *)
(***************************************************************************)
ReplaceAt(body, places, p) == [f \in Fields |-> IF f \in places THEN p ELSE body[f]]

Replacements(body, value, p) ==
  LET places  == {f \in Fields : body[f] = value}
      headers == places \cap HeaderFields
      inBody  == places \ HeaderFields
  IN IF value \in {Missing, Empty} THEN {body}
     ELSE IF value \in Numbers \/ (value \in JSONObjects /\ inBody = {})
     THEN {ReplaceAt(body, headers, p)}
     ELSE IF value \in JSONObjects
     THEN {ReplaceAt(body, headers \cup {f}, p) : f \in inBody}
     ELSE {ReplaceAt(body, places, p)}

(* After a key: the next one of this config, or the labels.                *)
NextMapping(o, data) ==
  worker' = [worker EXCEPT ![o].data = data, ![o].mapping = @ + 1,
               ![o].pc = IF worker[o].mapping < Len(Config(o).keyMappings)
                         THEN "patch" ELSE "metadata"]

AlreadyReplaced(o) ==
  /\ At(o, "patch") /\ Extracted(o) = <<Target(o), Mapping(o).key>>
  /\ NextMapping(o, worker[o].data)
  /\ UNCHANGED <<secrets, held, fresh, Answered, dropped, faults>>

(* The response loses the value before the Secret gets it.                 *)
PatchKey(o) ==
  LET m     == Mapping(o)
      value == Extracted(o)
      p     == <<Target(o), m.key>>
  IN
  /\ At(o, "patch") /\ value # p
  /\ \E data \in Replacements(worker[o].data, value, p) :
       IF Writable(o)
       THEN /\ Write(o, [held[o] EXCEPT !.data = UpdatedData(@, m, value)])
            /\ NextMapping(o, data)
            /\ dropped' = IF value \in Values THEN dropped \ {p} ELSE dropped
       ELSE /\ GiveUp(o, data)
            /\ dropped' = IF value \in Values THEN dropped \cup {p} ELSE dropped
  /\ UNCHANGED <<Answered, faults>>

(***************************************************************************)
(* Labels and annotations become those of this config: its own are set     *)
(* from what is left of the response, all others are removed.  What is no  *)
(* valid label (a placeholder, an expression that finds nothing) is        *)
(* skipped.                                                                *)
(***************************************************************************)
IsValidLabel(value) == value \in LabelValues \cup {Empty}

(* Mutated: the label is the expression itself.                            *)
LabelsUnevaluated(labels, c, data) == c.labels

SyncedLabels(labels, c, data) ==
  [l \in Labels |->
     IF c.labels[l] = Missing THEN Missing
     ELSE IF IsValidLabel(data[c.labels[l]]) THEN data[c.labels[l]] ELSE labels[l]]

SyncLabels(o) ==
  LET new == [held[o] EXCEPT !.labels = SyncedLabels(@, Config(o), worker[o].data)] IN
  /\ At(o, "metadata")
  /\ NextConfig(o, worker[o].data)
  /\ IF new # held[o] /\ Writable(o)
     THEN /\ secrets' = [secrets EXCEPT ![Target(o)] = new]
          /\ fresh' = fresh \ (Outdated(o, new) \cup {o})
     ELSE fresh' = fresh \ {o} /\ UNCHANGED secrets
  /\ UNCHANGED <<Answered, dropped, faults>>

-----------------------------------------------------------------------------
(***************************************************************************)
(* Placeholders are resolved in the body of a stored answer.  A Secret     *)
(* that is not there is an error, a key that is not there yields nothing,  *)
(* and a JSON object between the quotes of its placeholder makes the body  *)
(* unreadable.                                                             *)
(***************************************************************************)
Resolvable(body, fields) ==
  \A f \in fields : body[f] \in Placeholders => secrets[body[f][1]] # None

Lookup(p) ==
  LET value == secrets[p[1]].data[p[2]] IN IF value = Missing THEN Empty ELSE value

Unreadable(body) ==
  \E f \in BodyFields : body[f] \in Placeholders /\ Lookup(body[f]) \in JSONObjects

Resolved(body, fields) ==
  [f \in Fields |->
     IF f \in BodyFields /\ Unreadable(body) THEN Missing
     ELSE IF f \in fields /\ body[f] \in Placeholders THEN Lookup(body[f])
     ELSE body[f]]

(***************************************************************************)
(* Requests are templated from the stored answer or, if that does not give *)
(* a valid request, from the cached one.  Here placeholders in headers are *)
(* resolved as well.  Where a template finds nothing, or anything in the   *)
(* request contains the word null, the stored answer is not used; with the *)
(* cached one only the first makes the call fail (a text template sends    *)
(* the word null instead).                                                 *)
(***************************************************************************)
Fits(o, body) == \A f \in Needs[o] : body[f] # Missing

Templates(o, body) == Resolvable(body, Fields) /\ Fits(o, Resolved(body, Fields))

IsRequestValid(o, body) ==
  /\ Templates(o, body)
  /\ o \notin Nulls /\ \A f \in Needs[o] : Resolved(body, Fields)[f] \notin Nulls

Source(o) == IF IsRequestValid(o, stored[o]) THEN stored[o] ELSE cached[o]

(* A failed answer is stored too; before any other one the next call       *)
(* creates, and creating needs no answer.                                  *)
Created(o) == stored[o] # NoAnswer \/ cached[o] # NoAnswer

CanCall(o) == Templates(o, Source(o))

-----------------------------------------------------------------------------
(* A pass begins with an answer, or with the stored answer of old.         *)

Begin(o, body, kind) ==
  worker' = [worker EXCEPT ![o] =
    [pc |-> IF Configs[o] = <<>> THEN "store" ELSE "get", config |-> 1, mapping |-> 1,
     kind |-> kind, original |-> body, data |-> body]]

Call(o) == At(o, "idle") /\ (Created(o) => o \notin Replays /\ CanCall(o))

ReceiveAnswer(o) ==
  /\ Call(o)
  /\ Begin(o, remote[o], "answer")
  /\ UNCHANGED <<secrets, held, fresh, Answered, dropped, faults>>

(* A failed call is injected like an answer that carries no field, be it   *)
(* answered or not; of a disposable request only expected answers are.     *)
ReceiveFailure(o) ==
  /\ Call(o) /\ o \notin Replays
  /\ Fault
  /\ \E kind \in {"error", "lost"} : Begin(o, NoAnswer, kind)
  /\ UNCHANGED <<secrets, held, fresh, Answered, dropped>>

(* Placeholders in stored headers are not resolved.                        *)
Replay(o) ==
  /\ At(o, "idle") /\ o \in Replays /\ Created(o)
  /\ Resolvable(stored[o], BodyFields)
  /\ Begin(o, Resolved(stored[o], BodyFields), "replay")
  /\ UNCHANGED <<secrets, held, fresh, Answered, dropped, faults>>

(* Mutated: every answer is cached.                                        *)
CacheAlways(o, body) == TRUE

ShouldSetCache(o, body) == worker[o].kind = "answer" /\ IsRequestValid(o, body)

(* A response without status code, headers and body leaves what is stored; *)
(* what is injected again is not stored again.                             *)
Keeps(kind) == kind \in {"lost", "replay"}

(* A body with none of the fields may be empty; the last one stays then.   *)
Overwritten(last, data) ==
  {data} \cup (IF \A f \in BodyFields : data[f] = Missing
               THEN {[f \in Fields |-> IF f \in BodyFields THEN last[f] ELSE data[f]]} ELSE {})

(***************************************************************************)
(* The status gets what is left of an answer.  The cache takes a success   *)
(* if every mapping templates a valid request from it.                     *)
(***************************************************************************)
StoreAnswer(o) ==
  LET data == worker[o].data
      keep == Keeps(worker[o].kind)
  IN
  /\ At(o, "store")
  /\ worker' = [worker EXCEPT ![o] = Idle]
  /\ IF keep THEN UNCHANGED stored
     ELSE \E new \in Overwritten(stored[o], data) : stored' = [stored EXCEPT ![o] = new]
  /\ cached' = IF keep \/ ~ShouldSetCache(o, data) THEN cached ELSE [cached EXCEPT ![o] = data]
  /\ fitted' = IF keep \/ ~IsRequestValid(o, data) THEN fitted ELSE fitted \cup {o}
  /\ UNCHANGED <<secrets, held, fresh, remote, dropped, faults>>

(* The process dies, or a status write fails.                              *)
Abort(o) ==
  /\ ~At(o, "idle")
  /\ Fault
  /\ worker' = [worker EXCEPT ![o] = Idle]
  /\ held' = [held EXCEPT ![o] = None] /\ fresh' = fresh \ {o}
  /\ UNCHANGED <<secrets, Answered, dropped>>

(* The remote API moves on to a later answer.                              *)
ChangeAnswer(o) ==
  /\ Fault
  /\ \E i, j \in DOMAIN Answers[o] :
       /\ i < j /\ remote[o] = Answers[o][i]
       /\ remote' = [remote EXCEPT ![o] = Answers[o][j]]
  /\ UNCHANGED <<secrets, held, fresh, worker, stored, cached, dropped, fitted>>

(* A user, or the garbage collector, removes a Secret.                     *)
RemoveSecret(s) ==
  /\ secrets[s] # None
  /\ Fault
  /\ secrets' = [secrets EXCEPT ![s] = None]
  /\ fresh' = {o \in fresh : Target(o) # s}
  /\ dropped' = dropped \cup ({s} \X Keys)
  /\ UNCHANGED <<held, worker, Answered>>

-----------------------------------------------------------------------------
Reconcile(o) ==
  \/ ReceiveAnswer(o) \/ ReceiveFailure(o) \/ Replay(o)
  \/ Get(o) \/ GetFromCache(o) \/ Create(o) \/ SetOwnerReference(o)
  \/ AlreadyReplaced(o) \/ PatchKey(o) \/ SyncLabels(o) \/ StoreAnswer(o)

Next ==
  \/ \E o \in Objects : Reconcile(o) \/ Abort(o) \/ ChangeAnswer(o)
  \/ \E s \in Secrets : RemoveSecret(s)

Spec == Init /\ [][Next]_vars

(* An asynchronous request keeps being reconciled; a disposable request    *)
(* may stop anywhere.                                                      *)
FairSpec == Spec /\ \A o \in Objects \ Replays : WF_vars(Reconcile(o))

-----------------------------------------------------------------------------
(* Properties.                                                             *)

Injections(o) ==
  UNION {{[secret |-> Configs[o][n].secret, mapping |-> Configs[o][n].keyMappings[i]] :
            i \in DOMAIN Configs[o][n].keyMappings} : n \in DOMAIN Configs[o]}

(* Between two versions of a Secret lies one injection of one object: it   *)
(* changes only keys that its own configs map, and adds at most its owner  *)
(* reference.  What others wrote, or write meanwhile, survives             *)
(* (UpdateSecret, which relies on the version of the copy it was given).   *)
InjectedBy(o, s) ==
  /\ worker'[o] # worker[o]
  /\ \A k \in Keys :
       \/ secrets'[s].data[k] = secrets[s].data[k]
       \/ \E i \in Injections(o) : i.secret = s /\ i.mapping.key = k
  /\ secrets[s].owners \subseteq secrets'[s].owners
  /\ secrets'[s].owners \subseteq secrets[s].owners \cup {o}

Isolation ==
  [][ \A s \in Secrets :
        (secrets[s] # None /\ secrets'[s] # None /\ secrets'[s] # secrets[s])
          => \E o \in Objects : InjectedBy(o, s) ]_vars

(* A key holds a value of a field that is mapped to it, whatever the       *)
(* configs before it made of the answer and however often the stored       *)
(* answer is injected again; never a placeholder, never another's value    *)
(* (updateSecretWithPatchedValue and its originalData).  A label holds     *)
(* what its field answered (syncMap).                                      *)
CarriedBy(o, field) == {Answers[o][i][field] : i \in DOMAIN Answers[o]}

FromItsField ==
  \A s \in Secrets : secrets[s] # None =>
    /\ \A k \in Keys :
         \/ secrets[s].data[k] \in {Missing, Empty}
         \/ \E o \in Objects : \E i \in Injections(o) :
              /\ i.secret = s /\ i.mapping.key = k
              /\ secrets[s].data[k] \in CarriedBy(o, i.mapping.field)
    /\ \A l \in Labels :
         \/ secrets[s].labels[l] = Missing
         \/ \E o \in Objects : \E n \in DOMAIN Configs[o] :
              /\ Configs[o][n].labels[l] # Missing
              /\ secrets[s].labels[l] \in CarriedBy(o, Configs[o][n].labels[l])

(***************************************************************************)
(* What FromItsField needs of objects that inject their stored answer      *)
(* again: p may have come to stand for field f in it.  A header is not     *)
(* resolved, so it goes to no other key; a field of the body comes back as *)
(* what is in the Secret, so nothing else is injected there, and as an     *)
(* empty string if the key is gone, so it is no label.                     *)
(***************************************************************************)
StandsFor(o, f, p) ==
  \E i \in Injections(o) : \E n \in DOMAIN Answers[o] :
    /\ p = <<i.secret, i.mapping.key>>
    /\ Answers[o][n][f] \in Values /\ Answers[o][n][f] = Answers[o][n][i.mapping.field]

Labelled(o) == UNION {{Configs[o][n].labels[l] : l \in Labels} : n \in DOMAIN Configs[o]}

Separate ==
  \A o \in Replays : \A f \in Fields : \A p \in Placeholders : StandsFor(o, f, p) =>
    IF f \in HeaderFields
    THEN \A i \in Injections(o) : i.mapping.field = f => <<i.secret, i.mapping.key>> = p
    ELSE /\ f \notin Labelled(o)
         /\ \A q \in Objects : \A i \in Injections(q) : <<i.secret, i.mapping.key>> = p =>
              CarriedBy(q, i.mapping.field) \subseteq CarriedBy(o, f) \cup {Missing}

(* The placeholder of a key with the strategy "preserve" stands for a      *)
(* value in the Secret, also after answers that show the value no more and *)
(* after failed calls; except when the Secret refused it or was removed    *)
(* (the placeholder is stored all the same).                               *)
Preserved(p) ==
  \A o \in Objects : \A i \in Injections(o) :
    <<i.secret, i.mapping.key>> = p => i.mapping.missing = "preserve"

Captured ==
  \A o \in Objects : \A f \in Fields : \A p \in {stored[o][f], cached[o][f]} \cap Placeholders :
    (Preserved(p) /\ p \notin dropped) =>
      secrets[p[1]] # None /\ secrets[p[1]].data[p[2]] # Missing

(* An object that once stored an answer its mappings can be templated from *)
(* can always template its next call, whatever it is answered later        *)
(* (GenerateValidRequestDetails and shouldSetCache); unless the Secret of  *)
(* a placeholder is gone or a JSON object stands for one.                  *)
StaysAddressable ==
  \A o \in fitted \ Replays :
    CanCall(o) \/ ~Resolvable(cached[o], Fields) \/ Unreadable(cached[o])

(* Every value that the remote API goes on answering is in its key for     *)
(* good, however often updates are refused on the way; unless the object   *)
(* cannot template its calls any more (ApplyResponseDataToSecrets runs     *)
(* with every observation).                                                *)
Injected(o) ==
  \A i \in Injections(o) : remote[o][i.mapping.field] # Missing =>
    secrets[i.secret] # None /\ secrets[i.secret].data[i.mapping.key] = remote[o][i.mapping.field]

Blocked(o) == Created(o) /\ ~CanCall(o)

Converges == \A o \in Objects \ Replays : <>[](Injected(o) \/ Blocked(o))
=============================================================================
