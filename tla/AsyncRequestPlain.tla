------------------------- MODULE AsyncRequestPlain -------------------------
(***************************************************************************)
(* One remote resource per object, for an API that answers synchronously:  *)
(* AsyncRequestIdentity has the polled mappings, this module the plain     *)
(* ones, for every set of such specs and every bound.                      *)
(***************************************************************************)
EXTENDS AsyncRequestProofs, WellFoundedInduction

(* What the properties need of the specs: no mapping polled, an id that    *)
(* can be extracted, whatever the URLs are keyed by, and no CUSTOM check   *)
(* that decides existence from an answer without a body.                   *)
PlainOnly == \A s \in Specs, a \in Actions : s.mapping[a] # "poll"

Extracted ==
  /\ PlainOnly
  /\ \A s \in Specs : s.externalRef /\ s.custom \subseteq {"upToDate"}

(* Without a polling block nothing is in flight, at the API or here.       *)
Synchronous ==
  /\ Running = {} /\ ~InFlight
  /\ pc \notin {"anchor", "restart", "poll", "wait", "finish", "failed", "release"}
  /\ pc \in {"fire", "externalRef", "response"} => job.kind # "poll"

(* The URLs stay keyed as they were, in the copy in memory too.            *)
SameKey == pc # "idle" => seen.spec.url = cr.spec.url

(* The annotation names a resource that Observe has not seeded yet.        *)
Pending == cr.name # None /\ ~Identified

(* The worker holds the answer of the CREATE that made r.                  *)
Bearing(r) == pc \in {"externalRef", "response"} /\ job.act = "CREATE" /\ job.op = r

(* The URLs address r, or the object is imported and they cannot be built. *)
Addressed(r) ==
  /\ cr.spec.url = "externalRef" => st.externalRef = r
  /\ cr.spec.url = "response" => st.response \in {r, None}

(* Every resource not lost is known to the controller, in one of 3 places. *)
Traced ==
  \A r \in Live \ lost : Bearing(r) \/ (Pending /\ r = cr.name) \/ (Identified /\ Addressed(r))

(* A response names nothing but what externalRef was extracted for, or     *)
(* what was lost when that failed.                                         *)
Recorded ==
  cr.spec.url = "response" /\ st.response # None => Identified \/ st.response \in lost

(* What the answer in the worker's hand is about.                          *)
HandSound ==
  /\ pc \in {"externalRef", "response"} =>
       LET target == ops[job.op].target IN
       /\ target \in Ids
       /\ job.act = "CREATE" => target = job.op /\ Live \subseteq lost \cup {job.op}
       /\ job.act # "CREATE" =>
            /\ cr.spec.url = "externalRef" => target = st.externalRef
            /\ cr.spec.url = "response" => target = st.response
  /\ pc = "response" /\ job.act = "CREATE" => st.externalRef = job.op \/ job.op \in lost
  /\ pc = "report" /\ cr.spec.url = "response" => job.op \in {st.response, None}

(* Nothing is there when the worker lets go or creates, nor afterwards.    *)
NothingThere ==
  pc = "absent" \/ (pc \in {"deploy", "fire"} /\ job.act = "CREATE") \/ cr.gone
    => Live \subseteq lost

AtRest ==
  /\ Pending \/ cr.gone => pc = "idle"
  /\ Pending => st.response = None

Owning == Traced /\ Recorded /\ HandSound /\ NothingThere /\ AtRest /\ NoDuplicate

PlainInv == Inv /\ Synchronous /\ SameKey /\ Owning

-----------------------------------------------------------------------------
LEMMA OwnedIsLive == Running = {} => Owned = Live \ lost
BY DEF Owned, Live

LEMMA NoneIsNoResource == None \notin Live /\ None \notin Ids
BY DEF Live, Ids, None

(***************************************************************************)
(* The resource that a constant URL addresses is there if any is: a        *)
(* nonempty set of numbered resources has a last one.                      *)
(***************************************************************************)
LEMMA LastOne ==
  ASSUME NEW n \in Nat, NEW S \in SUBSET (1..n), S # {}
  PROVE  \E r \in S : \A q \in S : q <= r
<1> DEFINE R == {p \in Nat \X Nat : p[1] < p[2]}
           T == {n - r : r \in S}
<1>1. IsWellFoundedOn(R, Nat)
  <2>1. OpToRel(<, Nat) = R
    BY DEF OpToRel
  <2>2. QED
    BY <2>1, NatLessThanWellFounded
<1>2. T \subseteq Nat /\ T # {}
  <2>1. \A r \in S : n - r \in Nat
    OBVIOUS
  <2>2. QED
    BY <2>1, Zenon
<1> HIDE DEF T
<1>3. PICK x \in T : \A y \in T : ~ (<<y, x>> \in R)
  BY <1>1, <1>2, WFMin
<1>4. \A y \in T : x <= y
  <2>1. \A y \in T : ~(y < x)
    BY <1>2, <1>3
  <2>2. QED
    BY <1>2, <2>1
<1>5. PICK r \in S : x = n - r
  BY DEF T
<1>6. \A q \in S : n - r <= n - q
  BY <1>4, <1>5 DEF T
<1>7. QED
  BY <1>5, <1>6

LEMMA ConstantTarget ==
  ASSUME NEW s, s.url = "constant", Live # {}
  PROVE  IsLive(Target(s))
<1>1. \E r \in Live : \A q \in Live : q <= r
  BY LastOne, ConstantsAssumption DEF Live, Ids
<1>2. QED
  BY <1>1 DEF Target, IsLive

-----------------------------------------------------------------------------
(***************************************************************************)
(* A mapping without a polling block starts nothing that goes on, and the  *)
(* steps of the poll loop are those of a resumed operation.                *)
(***************************************************************************)
LEMMA SynchronousNext ==
  ASSUME PlainOnly, PlainInv, [Next]_vars
  PROVE  Synchronous'
<1>1. /\ st \in Statuses /\ job \in Jobs /\ ops \in [Ids -> Ops]
      /\ pc # "idle" => seen.spec \in Specs
      /\ cr.spec \in Specs
  BY DEF PlainInv, Inv, TypeOK, CRs
<1>2. CASE Observe
  <2>1. UNCHANGED ops /\ st'.anchor = st.anchor /\ pc' \in
          {"idle", "observe", "absent", "present", "report", "terminal"}
    <3>1. CASE ObserveUnidentified
      BY <3>1, Zenon DEF ObserveUnidentified, GoTo, Return, Remote
    <3>2. CASE ObserveCall
      BY <3>2 DEF ObserveCall, GoTo, Return, Convict, Remote, Settled
    <3>3. QED
      BY <1>1, <1>2, <3>1, <3>2 DEF Observe, StartReconcile, Seeded, ObserveAbandons,
         ObserveStalls, ClearTerminalError, ObserveResumesCreate, ObserveInFlight,
         ObserveRejectsIdentity, ObserveReport, GoTo, Return, Convict, Remote, Statuses,
         PlainInv, Synchronous, Settled
  <2>2. QED
    BY <2>1 DEF PlainInv, Synchronous, Running, InFlight
<1>3. CASE Manage
  <2>1. /\ UNCHANGED <<ops, st>> /\ pc' \in {"idle", "deploy", "fire"}
        /\ pc' = "fire" => job'.kind # "poll"
    <3>1. CASE EnterDeploy
      <4>1. DeployedAction \in Actions
        BY <3>1 DEF EnterDeploy, DeployedAction, Actions, PlainInv, Inv, AnchorAtStep
      <4>2. QED
        BY <1>1, <3>1, <4>1, ZenonT(60) DEF EnterDeploy, DeployStep, Return, Remote, NoJob,
           PlainOnly, PlainInv, Synchronous
    <3>2. QED
      BY <1>3, <3>1 DEF Manage, DropFinalizer, MarkCreatePending, Conflict, ActOnPresent,
         Return, Remote
  <2>2. QED
    BY <2>1 DEF PlainInv, Synchronous, Running, InFlight
<1>4. CASE Mutate
  <2>1. ASSUME NEW o \in Ids, Accept(o) PROVE Running' = {} /\ UNCHANGED st /\ job.kind # "poll"
    <3>1. job.kind # "poll"
      BY <2>1 DEF Accept, PlainInv, Synchronous
    <3>2. ops' = [ops EXCEPT ![o] =
                    [act |-> job.act, target |-> TargetOf(job.act, o),
                     payload |-> seen.spec.payload, end |-> "succeeded"]]
      BY <2>1, <3>1 DEF Accept, Asynchronous
    <3>3. /\ ops'[o].end = "succeeded"
          /\ \A q \in Ids : q # o => ops'[q] = ops[q]
      BY <1>1, <3>2
    <3>4. QED
      BY <2>1, <3>1, <3>3 DEF Accept, Running, PlainInv, Synchronous
  <2>2. CASE FireAccepted
    BY <1>1, <2>1, <2>2 DEF FireAccepted, Jobs, Synchronous, PlainInv, InFlight
  <2>3. CASE FireAnswerLost
    BY <2>1, <2>3 DEF FireAnswerLost, Return, Synchronous, PlainInv, InFlight
  <2>4. CASE \/ FireRefused \/ RecordRefusal
             \/ ExtractExternalRef \/ ExtractionFails \/ RecordResponse
    <3>1. /\ UNCHANGED ops /\ st'.anchor = st.anchor
          /\ pc' \in {"idle", "refused", "terminal", "response"}
          /\ pc' = "response" => job'.kind = job.kind /\ pc = "externalRef"
      BY <1>1, <2>4 DEF FireRefused, RecordRefusal, ExtractExternalRef, ExtractionFails,
         RecordResponse, Classify, Convict, GoTo, Return, Remote, Statuses
    <3>2. QED
      BY <3>1 DEF PlainInv, Synchronous, Running, InFlight
  <2>5. CASE PersistAnchor
    BY <2>5 DEF PersistAnchor, PlainInv, Synchronous
  <2>6. QED
    BY <1>4, <2>2, <2>3, <2>4, <2>5 DEF Mutate
<1>5. CASE Poll
  <2>1. SetTerminalFailure
    BY <1>5 DEF Poll, RestartClock, PollWithoutBlock, PollBadURL, PollTimeout, PollGet, Polling,
       PollBudgetSpent, FinishOperation, RecordOperationFailure, ReleaseAnchor, PlainInv, Synchronous
  <2>2. UNCHANGED ops /\ st'.anchor \in {None, st.anchor} /\ pc' = "idle"
    BY <1>1, <2>1 DEF SetTerminalFailure, Return, Remote, Statuses
  <2>3. QED
    BY <2>2 DEF PlainInv, Synchronous, Running, InFlight
<1>6. CASE Environment
  <2>1. \A o \in Ids : ~OperationSucceeds(o) /\ ~OperationFails(o)
    BY DEF OperationSucceeds, OperationFails, PlainInv, Synchronous, Running
  <2>2. UNCHANGED ops /\ st'.anchor = st.anchor /\ (pc' = "idle" \/ UNCHANGED <<pc, job>>)
    BY <1>1, <1>6, <2>1 DEF Environment, Abort, EditSpec, Delete, DeadlinePasses, Vanishes,
       Return, Remote, Statuses
  <2>3. QED
    BY <2>2 DEF PlainInv, Synchronous, Running, InFlight
<1>7. CASE UNCHANGED vars
  BY <1>7 DEF vars, PlainInv, Synchronous, Running, InFlight
<1>8. QED
  BY <1>2, <1>3, <1>4, <1>5, <1>6, <1>7 DEF Next

(***************************************************************************)
(* An edit leaves the key alone, and every copy is one of the object.      *)
(***************************************************************************)
LEMMA SameKeyNext ==
  ASSUME PlainInv, [Next]_vars
  PROVE  SameKey' /\ cr'.spec.url = cr.spec.url
<1>1. cr \in CRs
  BY DEF PlainInv, Inv, TypeOK
<1>2. cr'.spec.url = cr.spec.url
  <2>1. CASE EditSpec \/ Delete
    BY <1>1, <2>1 DEF EditSpec, Delete, Admitted, CRs
  <2>2. CASE DropFinalizer
    BY <1>1, <2>2 DEF DropFinalizer, CRs
  <2>3. CASE UNCHANGED cr
    BY <2>3
  <2>4. QED
    BY <2>1, <2>2, <2>3 DEF Next, vars, Observe, Manage, Mutate, Poll, Environment,
       StartReconcile, ObserveAbandons, ObserveStalls, ClearTerminalError, ObserveResumesCreate,
       ObserveInFlight, ObserveRejectsIdentity, ObserveUnidentified, ObserveCall, ObserveReport,
       MarkCreatePending, Conflict, ActOnPresent, EnterDeploy, FireAccepted, FireAnswerLost,
       Accept, FireRefused, RecordRefusal, ExtractExternalRef, ExtractionFails, RecordResponse,
       PersistAnchor,
       RestartClock, PollWithoutBlock, PollBadURL, PollTimeout, PollGet, PollBudgetSpent,
       FinishOperation, RecordOperationFailure, ReleaseAnchor, SetTerminalFailure, Abort,
       DeadlinePasses, OperationSucceeds, OperationFails, Vanishes
<1>3. pc' = "idle" \/ seen' = cr \/ (seen' = seen /\ pc # "idle")
  <2>1. CASE Observe \/ Manage
    BY <2>1, Zenon DEF Observe, Manage, StartReconcile, ObserveAbandons, ObserveStalls,
       ClearTerminalError, ObserveResumesCreate, ObserveInFlight, ObserveRejectsIdentity,
       ObserveUnidentified, ObserveCall, ObserveReport, DropFinalizer, MarkCreatePending,
       Conflict, ActOnPresent, EnterDeploy, Settled, Refresh, Return, GoTo, Convict
  <2>2. CASE Mutate
    BY <2>2 DEF Mutate, FireAccepted, FireAnswerLost, Accept, FireRefused, RecordRefusal,
       Classify, ExtractExternalRef, ExtractionFails, RecordResponse, PersistAnchor, Refresh,
       Return, GoTo
  <2>3. CASE Poll
    BY <2>3 DEF Poll, RestartClock, PollWithoutBlock, PollBadURL, PollTimeout, PollGet, Polling,
       PollBudgetSpent, FinishOperation, RecordOperationFailure, Classify, ReleaseAnchor,
       SetTerminalFailure, Refresh, Return
  <2>4. CASE Environment \/ UNCHANGED vars
    BY <2>4 DEF Environment, Abort, EditSpec, Delete, DeadlinePasses, OperationSucceeds,
       OperationFails, Vanishes, Return, vars
  <2>5. QED
    BY <2>1, <2>2, <2>3, <2>4 DEF Next
<1>4. QED
  BY <1>2, <1>3 DEF PlainInv, SameKey

-----------------------------------------------------------------------------
(***************************************************************************)
(* A step that brings nothing into being, leaves identity and response     *)
(* alone and forgets nothing but what is lost.                             *)
(***************************************************************************)
LEMMA OwningKept ==
  ASSUME PlainInv, cr'.spec.url = cr.spec.url, Running' = {},
         UNCHANGED ops, Live' \subseteq Live, lost \subseteq lost',
         st'.externalRef = st.externalRef, st'.response = st.response,
         cr'.name = cr.name, cr'.gone = cr.gone, pc = "idle" => pc' = "idle",
         pc' \in {"externalRef", "response", "report"} => UNCHANGED <<pc, job>>,
         \A r : Bearing(r) => Bearing(r)' \/ r \in lost' \/ (Identified /\ Addressed(r)),
         pc' = "absent" \/ (pc' \in {"deploy", "fire"} /\ job'.act = "CREATE")
           => Live \subseteq lost
  PROVE  Owning'
<1>1. /\ Pending' <=> Pending
      /\ Identified' <=> Identified
      /\ \A r : Addressed(r)' <=> Addressed(r)
  BY DEF Pending, Identified, Addressed
<1>2. Traced'
  BY <1>1 DEF PlainInv, Owning, Traced
<1>3. Recorded' /\ AtRest'
  BY <1>1 DEF PlainInv, Owning, Recorded, AtRest
<1>4. HandSound'
  BY DEF PlainInv, Owning, HandSound
<1>5. NothingThere'
  BY DEF PlainInv, Owning, NothingThere
<1>6. NoDuplicate'
  <2>1. Owned' = Live' \ lost' /\ Owned = Live \ lost
    BY OwnedIsLive DEF PlainInv, Synchronous, Owned, Live
  <2>2. QED
    BY <2>1 DEF PlainInv, Owning, NoDuplicate
<1>7. QED
  BY <1>2, <1>3, <1>4, <1>5, <1>6 DEF Owning

-----------------------------------------------------------------------------
(***************************************************************************)
(* Observe seeds an identity only if there is none (request.go:281-296),   *)
(* and reports the resource as absent only when nothing is there.          *)
(***************************************************************************)
LEMMA SeedingOwning ==
  ASSUME PlainInv, StartReconcile, Running' = {}
  PROVE  Owning'
<1>1. /\ st \in Statuses /\ pc = "idle" /\ pc' = "observe" /\ ~cr.gone
      /\ UNCHANGED <<cr, ops, res, lost>>
  BY DEF StartReconcile, GoTo, Remote, History, PlainInv, Inv, TypeOK
<1>2. /\ st'.response = st.response
      /\ st'.externalRef = IF Identified THEN st.externalRef ELSE cr.name
  BY <1>1 DEF StartReconcile, Seeded, Statuses, Identified
<1>3. Live' = Live /\ Owned' = Owned
  BY <1>1, OwnedIsLive DEF Live, PlainInv, Synchronous, Owned
<1>4. ~Pending' /\ (Identified => Identified') /\ (Pending => Identified')
  BY <1>1, <1>2 DEF Pending, Identified
<1>5. Traced'
  <2> SUFFICES ASSUME NEW r \in Live \ lost PROVE Identified' /\ Addressed(r)'
    BY <1>1, <1>3 DEF Traced
  <2>1. CASE Pending /\ r = cr.name
    BY <1>1, <1>2, <1>4, <2>1 DEF Pending, Addressed, PlainInv, Owning, AtRest
  <2>2. CASE Identified /\ Addressed(r)
    BY <1>1, <1>2, <1>4, <2>2 DEF Addressed
  <2>3. QED
    BY <1>1, <2>1, <2>2 DEF PlainInv, Owning, Traced, Bearing
<1>6. Recorded' /\ AtRest' /\ HandSound' /\ NothingThere'
  BY <1>1, <1>2, <1>4 DEF PlainInv, Owning, Recorded, AtRest, HandSound, NothingThere
<1>7. NoDuplicate'
  BY <1>3 DEF PlainInv, Owning, NoDuplicate
<1>8. QED
  BY <1>5, <1>6, <1>7 DEF Owning

LEMMA ReportOwning ==
  ASSUME PlainInv, ObserveReport, Running' = {}
  PROVE  Owning'
<1>1. /\ st \in Statuses /\ pc = "report" /\ pc' = "present" /\ UNCHANGED <<cr, ops, res, lost>>
      /\ st'.externalRef = st.externalRef
      /\ cr.spec.url = "response" => st'.response = st.response
  BY DEF ObserveReport, Remote, History, PlainInv, Inv, TypeOK, Statuses, Owning, HandSound
<1>2. Live' = Live /\ Owned' = Owned
  BY <1>1, OwnedIsLive DEF Live, PlainInv, Synchronous, Owned
<1>3. /\ Pending' <=> Pending
      /\ Identified' <=> Identified
      /\ \A r : Addressed(r)' <=> Addressed(r)
  BY <1>1 DEF Pending, Identified, Addressed
<1>4. QED
  BY <1>1, <1>2, <1>3 DEF PlainInv, Owning, Traced, Bearing, Recorded, AtRest, HandSound,
     NothingThere, NoDuplicate

LEMMA NothingIdentified ==
  ASSUME PlainInv, pc = "observe", ~Identified
  PROVE  Live \subseteq lost
BY DEF PlainInv, Owning, Traced, Bearing, AtRest

LEMMA AbsentIsAbsent ==
  ASSUME Extracted, PlainInv, ObserveCall, pc' = "absent"
  PROVE  Live \subseteq lost
<1> DEFINE s == seen.spec
<1>1. s \in Specs /\ pc = "observe" /\ s.url = cr.spec.url
  BY DEF ObserveCall, Settled, PlainInv, Inv, TypeOK, CRs, SameKey
<1>2. /\ s.custom \subseteq {"upToDate"}
      /\ s.url \in {"externalRef", "response", "constant"}
  BY <1>1, SpecType DEF Extracted
<1> HIDE DEF s
<1>3. PICK code \in {HealthyCode(s)} \cup Faulty :
        \E removed \in RemovedCheck(s, code), exists \in ExistsCheck(s, code),
           synced \in UpToDateCheck(s, code) : Outcome(s, code, removed, exists, synced) = "absent"
  BY DEF ObserveCall, Return, Convict, s
<1>4. code = "404" \/ ~Identified
  BY <1>2, <1>3 DEF RemovedCheck, ExistsCheck, Outcome
<1>5. CASE code = "404"
  <2>1. ~IsLive(Target(s))
    BY <1>2, <1>3, <1>5 DEF HealthyCode, Faulty
  <2> SUFFICES ASSUME NEW r \in Live \ lost PROVE FALSE
    OBVIOUS
  <2>2. Addressed(r)
    BY <1>1, <2>1 DEF PlainInv, Owning, Traced, Bearing, AtRest
  <2>3. s.url = "response" => st.response # None
    BY DEF ObserveCall, s
  <2>4. CASE s.url = "constant"
    BY <2>1, <2>4, ConstantTarget
  <2>5. CASE s.url \in {"externalRef", "response"}
    BY <1>1, <2>1, <2>2, <2>3, <2>5 DEF Addressed, Target, IsLive
  <2>6. QED
    BY <1>2, <2>4, <2>5
<1>6. QED
  BY <1>1, <1>4, <1>5, NothingIdentified

LEMMA AnsweredIsResponse ==
  ASSUME NEW s, s.url = "response"
  PROVE  Answered(s) \in {st.response, None}
BY DEF Answered, Target

LEMMA ObserveOwning ==
  ASSUME Extracted, PlainInv, Observe, Synchronous', SameKey', cr'.spec.url = cr.spec.url
  PROVE  Owning'
<1>1. st \in Statuses /\ job \in Jobs /\ Running' = {}
  BY DEF PlainInv, Inv, TypeOK, Synchronous
<1>2. CASE StartReconcile \/ ObserveReport
  BY <1>1, <1>2, SeedingOwning, ReportOwning
<1>3. CASE ~StartReconcile /\ ~ObserveReport /\ pc' # "report"
  <2>1. /\ UNCHANGED <<cr, ops, res, lost>> /\ pc = "observe"
        /\ st'.externalRef = st.externalRef /\ st'.response = st.response
    BY <1>1, <1>3 DEF Observe, ObserveAbandons, ObserveStalls, ClearTerminalError,
       ObserveResumesCreate, ObserveInFlight, ObserveRejectsIdentity, ObserveUnidentified,
       ObserveCall, Settled, Remote, History, Statuses
  <2>2. pc' \in {"idle", "observe", "absent", "present", "terminal"}
    <3>1. CASE ObserveUnidentified
      BY <3>1, Zenon DEF ObserveUnidentified, GoTo, Return
    <3>2. CASE ObserveCall
      BY <1>3, <3>2 DEF ObserveCall, GoTo, Return, Convict
    <3>3. QED
      BY <1>1, <1>3, <2>1, <3>1, <3>2 DEF Observe, ObserveAbandons, ObserveStalls,
         ClearTerminalError, ObserveResumesCreate, ObserveInFlight, ObserveRejectsIdentity,
         GoTo, Return, Convict
  <2>3. pc' = "absent" => Live \subseteq lost
    <3>1. CASE ObserveUnidentified
      <4>1. pc' = "absent" => ~Identified
        BY <3>1, Zenon DEF ObserveUnidentified, Return
      <4>2. QED
        BY <2>1, <4>1, NothingIdentified
    <3>2. CASE ObserveCall
      BY <3>2, AbsentIsAbsent
    <3>3. CASE ObserveAbandons
      BY <2>1, <3>3, NothingIdentified DEF ObserveAbandons, Abandonable
    <3>4. QED
      BY <1>3, <2>1, <3>1, <3>2, <3>3 DEF Observe, ObserveStalls, ClearTerminalError,
         ObserveResumesCreate, ObserveInFlight, ObserveRejectsIdentity, Return, Convict, GoTo,
         PlainInv, Synchronous
  <2>4. Live' = Live /\ \A r : ~Bearing(r)
    BY <2>1 DEF Live, Bearing
  <2>5. QED
    BY <1>1, <2>1, <2>2, <2>3, <2>4, OwningKept
<1>4. CASE ObserveCall /\ pc' = "report"
  <2>1. /\ UNCHANGED <<cr, st, ops, res, lost>> /\ pc = "observe" /\ seen.spec.url = cr.spec.url
        /\ job'.op = Answered(seen.spec)
    BY <1>1, <1>4 DEF ObserveCall, Settled, Remote, GoTo, Return, Convict, Jobs, PlainInv, SameKey
  <2>2. cr.spec.url = "response" => job'.op \in {st.response, None}
    BY <2>1, AnsweredIsResponse
  <2>3. Live' = Live /\ Owned' = Owned
    BY <1>1, <2>1, OwnedIsLive DEF Live, PlainInv, Synchronous, Owned
  <2>4. QED
    BY <1>4, <2>1, <2>2, <2>3 DEF PlainInv, Owning, Traced, Bearing, Pending, Identified, Addressed,
       Recorded, AtRest, HandSound, NothingThere, NoDuplicate
<1>5. pc' = "report" => ObserveCall
  <2>1. ~ObserveUnidentified \/ pc' # "report"
    BY Zenon DEF ObserveUnidentified, Return, GoTo
  <2>2. QED
    BY <2>1 DEF Observe, StartReconcile, ObserveAbandons, ObserveStalls, ClearTerminalError,
       ObserveResumesCreate, ObserveInFlight, ObserveRejectsIdentity, ObserveReport, GoTo,
       Return, Convict
<1>6. QED
  BY <1>2, <1>3, <1>4, <1>5

-----------------------------------------------------------------------------
(***************************************************************************)
(* The reconciler lets go, or has Create called, in the same reconcile     *)
(* that found nothing there.                                               *)
(***************************************************************************)
LEMMA ManageOwning ==
  ASSUME PlainInv, Manage, Synchronous', cr'.spec.url = cr.spec.url
  PROVE  Owning'
<1>1. /\ cr \in CRs /\ job \in Jobs /\ Running' = {} /\ ~InFlight
  BY DEF PlainInv, Inv, TypeOK, Synchronous
<1>2. /\ pc \in {"absent", "present", "deploy"} /\ UNCHANGED <<st, ops, res, lost>>
      /\ pc' \in {"idle", "deploy", "fire"}
      /\ pc' \in {"deploy", "fire"} /\ job'.act = "CREATE"
           => pc = "absent" \/ (pc = "deploy" /\ job.act = "CREATE")
  BY <1>1 DEF Manage, DropFinalizer, MarkCreatePending, Conflict, ActOnPresent, EnterDeploy,
     DeployedAction, DeployStep, Return, Remote, History, Jobs, NoJob
<1>3. Live' = Live /\ \A r : ~Bearing(r)
  BY <1>2 DEF Live, Bearing
<1>4. CASE DropFinalizer
  <2>1. /\ pc = "absent" /\ pc' = "idle" /\ cr'.name = cr.name /\ Live \subseteq lost
    BY <1>1, <1>4 DEF DropFinalizer, Return, CRs, PlainInv, Owning, NothingThere
  <2>2. Owned' = Owned
    BY <1>1, <1>2, <1>3, OwnedIsLive DEF PlainInv, Synchronous, Owned
  <2>3. QED
    BY <1>2, <1>3, <2>1, <2>2 DEF PlainInv, Owning, Traced, Recorded, Identified, Pending,
       AtRest, HandSound, NothingThere, NoDuplicate
<1>5. CASE ~DropFinalizer
  <2>1. cr' = cr
    BY <1>5 DEF Manage, MarkCreatePending, Conflict, ActOnPresent, EnterDeploy
  <2>2. QED
    BY <1>1, <1>2, <1>3, <2>1, OwningKept DEF PlainInv, Owning, NothingThere
<1>6. QED
  BY <1>4, <1>5

-----------------------------------------------------------------------------
(***************************************************************************)
(* What an accepted call does: a CREATE, fired with nothing there, leaves  *)
(* its own resource and no other; any other call makes none, and is about  *)
(* what the URLs address.                                                  *)
(***************************************************************************)
LEMMA AcceptOwning ==
  ASSUME PlainInv, NEW o \in Ids, Accept(o)
  PROVE  /\ pc = "fire" /\ job.act \in Actions /\ UNCHANGED <<cr, st>> /\ ~cr.gone /\ ~Pending
         /\ ops'[o].target \in Ids
         /\ job.act = "CREATE" => ops'[o].target = o /\ Live' \subseteq lost \cup {o}
         /\ job.act # "CREATE" =>
              /\ Live' \subseteq Live
              /\ cr.spec.url = "externalRef" => ops'[o].target = st.externalRef
              /\ cr.spec.url = "response" => ops'[o].target = st.response
<1>1. /\ pc = "fire" /\ job.act \in Actions /\ UNCHANGED <<cr, st>> /\ ~cr.gone /\ ~Pending
      /\ seen.spec \in Specs /\ seen.spec.url = cr.spec.url
      /\ res \in [Ids -> Payloads \cup {Absent}] /\ ops \in [Ids -> Ops]
  BY DEF Accept, PlainInv, Inv, TypeOK, AnchorAtStep, CRs, SameKey, Owning, AtRest
<1> DEFINE target == TargetOf(job.act, o)
<1>2. target \in Ids
  BY DEF Accept, CanTarget, TargetOf, IsLive, Live
<1>3. target = IF job.act = "CREATE" THEN o ELSE Target(seen.spec)
  BY DEF TargetOf
<1>4. ops'[o].target = target
  BY <1>1 DEF Accept
<1>5. res' = Effect(job.act, target, seen.spec.payload)
  BY <1>1 DEF Accept, Asynchronous, PlainInv, Synchronous
<1> HIDE DEF target
<1>6. CASE job.act = "CREATE"
  <2>1. Live \subseteq lost
    BY <1>1, <1>6 DEF PlainInv, Owning, NothingThere
  <2>2. Live' \subseteq Live \cup {o}
    BY <1>1, <1>3, <1>5, <1>6 DEF Effect, Live
  <2>3. QED
    BY <1>1, <1>2, <1>3, <1>4, <1>6, <2>1, <2>2
<1>7. CASE job.act # "CREATE"
  <2>1. Live' \subseteq Live
    BY <1>1, <1>2, <1>5, <1>7, SpecType DEF Effect, Live
  <2>2. QED
    BY <1>1, <1>2, <1>3, <1>4, <1>7, <2>1 DEF Target
<1>8. QED
  BY <1>6, <1>7

LEMMA FireOwning ==
  ASSUME PlainInv, Synchronous', FireAccepted \/ FireAnswerLost
  PROVE  Owning'
<1>1. PICK o \in Ids :
        /\ Accept(o)
        /\ \/ pc' = "externalRef" /\ job' = [job EXCEPT !.op = o] /\ lost' = lost
           \/ pc' = "idle" /\ lost' = lost \cup {o}
  BY DEF FireAccepted, FireAnswerLost, Accept, Return, PlainInv, Synchronous
<1>2. pc' = "externalRef" => job'.op = o /\ job'.act = job.act
  BY <1>1 DEF PlainInv, Inv, TypeOK, Jobs
<1>3. Owned' = Live' \ lost' /\ Owned = Live \ lost
  BY OwnedIsLive DEF Synchronous, PlainInv, Owned, Live
<1>4. /\ ~Pending' /\ (Identified' <=> Identified)
      /\ \A r : Addressed(r)' <=> Addressed(r)
  BY <1>1, AcceptOwning DEF Pending, Identified, Addressed
<1>5. \A r \in Live' \ lost' :
        \/ job.act = "CREATE" /\ r = o /\ pc' = "externalRef"
        \/ job.act # "CREATE" /\ r \in Live \ lost /\ Identified /\ Addressed(r)
  BY <1>1, AcceptOwning DEF PlainInv, Owning, Traced, Bearing
<1>6. Traced'
  BY <1>2, <1>4, <1>5 DEF Traced, Bearing
<1>7. NoDuplicate'
  BY <1>3, <1>5 DEF NoDuplicate, PlainInv, Owning
<1>8. HandSound'
  BY <1>1, <1>2, AcceptOwning DEF HandSound
<1>9. Recorded' /\ NothingThere' /\ AtRest'
  BY <1>1, <1>4, AcceptOwning DEF PlainInv, Owning, Recorded, NothingThere, AtRest
<1>10. QED
  BY <1>6, <1>7, <1>8, <1>9 DEF Owning

(***************************************************************************)
(* The answer is stored in two writes: first the identity, then, with the  *)
(* response, what the URLs may be keyed by.  The second one is made even   *)
(* if the first one failed.                                                *)
(***************************************************************************)
LEMMA ExtractOwning ==
  ASSUME Extracted, PlainInv, Synchronous', ExtractExternalRef
  PROVE  Owning'
<1>1. /\ st \in Statuses /\ pc = "externalRef" /\ pc' = "response"
      /\ UNCHANGED <<cr, job, ops, res, lost>> /\ seen.spec.externalRef /\ job.op \in Ids
      /\ ~Pending /\ ~cr.gone
  BY DEF ExtractExternalRef, GoTo, Remote, History, PlainInv, Inv, TypeOK, CRs, Extracted,
     AnchorAtStep, Owning, AtRest
<1>2. /\ st'.response = st.response
      /\ st'.externalRef = IF job.act # "REMOVE" THEN ops[job.op].target ELSE st.externalRef
  BY <1>1 DEF ExtractExternalRef, Statuses
<1>3. Live' = Live /\ Owned' = Owned
  BY <1>1, OwnedIsLive DEF Live, Synchronous, PlainInv, Owned
<1>4. /\ job.act # "REMOVE" => Identified'
      /\ Identified => Identified'
  BY <1>1, <1>2 DEF Identified, Ids, None, PlainInv, Owning, HandSound
<1>5. ~Pending'
  BY <1>1, <1>4 DEF Pending
<1>6. CASE job.act = "CREATE"
  <2>1. /\ st'.externalRef = job.op /\ Live \subseteq lost \cup {job.op}
        /\ ops[job.op].target = job.op
    BY <1>1, <1>2, <1>6 DEF PlainInv, Owning, HandSound
  <2>2. QED
    BY <1>1, <1>2, <1>3, <1>4, <1>5, <1>6, <2>1 DEF PlainInv, Owning, Traced, Bearing, Recorded,
       HandSound, NothingThere, AtRest, NoDuplicate
<1>7. CASE job.act # "CREATE"
  <2>1. /\ cr.spec.url = "externalRef" => ops[job.op].target = st.externalRef
        /\ cr.spec.url = "response" => ops[job.op].target = st.response
        /\ ops[job.op].target \in Ids
    BY <1>1, <1>7 DEF PlainInv, Owning, HandSound
  <2>2. \A r \in Live \ lost : Identified /\ Addressed(r)
    BY <1>1, <1>7 DEF PlainInv, Owning, Traced, Bearing
  <2>3. \A r : Addressed(r) => Addressed(r)'
    BY <1>1, <1>2, <2>1 DEF Addressed
  <2>4. QED
    BY <1>1, <1>2, <1>3, <1>4, <1>5, <1>7, <2>1, <2>2, <2>3 DEF PlainInv, Owning, Traced, Recorded,
       HandSound, NothingThere, AtRest, NoDuplicate
<1>8. QED
  BY <1>6, <1>7

LEMMA ExtractionFailsOwning ==
  ASSUME PlainInv, Synchronous', ExtractionFails
  PROVE  Owning'
<1>1. /\ pc = "externalRef" /\ pc' = "response" /\ UNCHANGED <<cr, st, job, ops, res>>
      /\ lost' = IF job.act = "CREATE" THEN lost \cup {job.op} ELSE lost
      /\ ~Pending /\ ~cr.gone
  BY DEF ExtractionFails, GoTo, Remote, PlainInv, Owning, AtRest
<1>2. /\ Live' = Live /\ lost \subseteq lost'
      /\ ~Pending' /\ (Identified' <=> Identified)
      /\ \A r : Addressed(r)' <=> Addressed(r)
  BY <1>1 DEF Live, Pending, Identified, Addressed
<1>3. Traced'
  BY <1>1, <1>2 DEF PlainInv, Owning, Traced, Bearing
<1>4. Recorded' /\ HandSound' /\ NothingThere' /\ AtRest'
  BY <1>1, <1>2 DEF PlainInv, Owning, Recorded, HandSound, NothingThere, AtRest
<1>5. NoDuplicate'
  <2>1. Owned' = Live' \ lost' /\ Owned = Live \ lost
    BY OwnedIsLive DEF Synchronous, PlainInv, Owned, Live
  <2>2. QED
    BY <1>2, <2>1 DEF PlainInv, Owning, NoDuplicate
<1>6. QED
  BY <1>3, <1>4, <1>5 DEF Owning

LEMMA RecordOwning ==
  ASSUME PlainInv, Synchronous', RecordResponse
  PROVE  Owning'
<1>1. /\ st \in Statuses /\ pc = "response" /\ pc' = "idle" /\ UNCHANGED <<cr, ops, res, lost>>
      /\ job.op \in Ids /\ ~Pending /\ ~cr.gone
  BY DEF RecordResponse, Return, Remote, History, PlainInv, Inv, TypeOK, AnchorAtStep, Owning, AtRest
<1>2. /\ st'.externalRef = st.externalRef
      /\ st'.response = IF job.act = "REMOVE" THEN st.response ELSE ops[job.op].target
  BY <1>1 DEF RecordResponse, Statuses
<1>3. Live' = Live /\ Owned' = Owned
  BY <1>1, OwnedIsLive DEF Live, Synchronous, PlainInv, Owned
<1>4. ~Pending' /\ (Identified' <=> Identified)
  BY <1>1, <1>2 DEF Pending, Identified
<1>5. \A r \in Live \ lost : Identified /\ Addressed(r)'
  <2>1. CASE job.act = "CREATE"
    BY <1>1, <1>2, <2>1 DEF PlainInv, Owning, HandSound, Addressed, Identified, Ids, None
  <2>2. CASE job.act # "CREATE"
    BY <1>1, <1>2, <2>2 DEF PlainInv, Owning, HandSound, Traced, Bearing, Addressed
  <2>3. QED
    BY <2>1, <2>2
<1>6. Recorded'
  BY <1>1, <1>2, <1>4 DEF PlainInv, Owning, Recorded, HandSound, Identified, Ids, None
<1>7. QED
  BY <1>1, <1>3, <1>4, <1>5, <1>6 DEF PlainInv, Owning, Traced, HandSound, NothingThere, AtRest,
     NoDuplicate

LEMMA MutateOwning ==
  ASSUME Extracted, PlainInv, Mutate, Synchronous', cr'.spec.url = cr.spec.url
  PROVE  Owning'
<1>1. CASE FireRefused \/ RecordRefusal
  <2>1. st \in Statuses /\ Running' = {}
    BY DEF PlainInv, Inv, TypeOK, Synchronous
  <2>2. /\ pc \in {"fire", "refused"} /\ UNCHANGED <<cr, ops, res, lost>>
        /\ pc' \in {"idle", "refused", "terminal"}
        /\ st'.externalRef = st.externalRef /\ st'.response = st.response
    BY <1>1, <2>1 DEF FireRefused, RecordRefusal, Classify, Convict, GoTo, Return, Remote,
       History, Statuses
  <2>3. Live' = Live /\ \A r : ~Bearing(r)
    BY <2>2 DEF Live, Bearing
  <2>4. QED
    BY <2>1, <2>2, <2>3, OwningKept
<1>2. ~PersistAnchor
  BY DEF PersistAnchor, PlainInv, Synchronous
<1>3. QED
  BY <1>1, <1>2, FireOwning, ExtractOwning, ExtractionFailsOwning, RecordOwning DEF Mutate

-----------------------------------------------------------------------------
(***************************************************************************)
(* What a dead worker held is lost, unless the write before has named it.  *)
(***************************************************************************)
LEMMA AbortOwning ==
  ASSUME PlainInv, Abort, Synchronous', cr'.spec.url = cr.spec.url
  PROVE  Owning'
<1>1. /\ UNCHANGED <<cr, st, ops, res>> /\ pc # "idle" /\ pc' = "idle"
      /\ lost' = lost \cup InHand /\ seen.spec.url = cr.spec.url
  BY DEF Abort, Return, Remote, PlainInv, SameKey
<1>2. ASSUME NEW r, Bearing(r), r \notin lost'
      PROVE  Identified /\ Addressed(r)
  <2>1. /\ r \in Ids /\ ~Pending
        /\ r = IF cr.spec.url = "response" THEN st.response ELSE st.externalRef
    BY <1>1, <1>2 DEF Bearing, InHand, PlainInv, Inv, AnchorAtStep, Owning, AtRest
  <2>2. QED
    BY <1>1, <1>2, <2>1 DEF Addressed, Identified, Ids, None, PlainInv, Owning, Recorded
<1>3. Live' = Live /\ Running' = {}
  BY <1>1 DEF Live, Synchronous
<1>4. QED
  BY <1>1, <1>2, <1>3, OwningKept

LEMMA EnvironmentOwning ==
  ASSUME PlainInv, Environment \/ UNCHANGED vars, Synchronous', cr'.spec.url = cr.spec.url
  PROVE  Owning'
<1>1. /\ cr \in CRs /\ st \in Statuses /\ res \in [Ids -> Payloads \cup {Absent}]
      /\ Running = {} /\ Running' = {}
  BY DEF PlainInv, Inv, TypeOK, Synchronous
<1>2. CASE ~Abort
  <2>1. \A o \in Ids : ~OperationSucceeds(o) /\ ~OperationFails(o)
    BY <1>1 DEF OperationSucceeds, OperationFails, Running
  <2>2. /\ UNCHANGED <<pc, job, ops, lost>> /\ Live' \subseteq Live
        /\ st'.externalRef = st.externalRef /\ st'.response = st.response
        /\ cr'.name = cr.name /\ cr'.gone = cr.gone
    BY <1>1, <1>2, <2>1 DEF Environment, EditSpec, Delete, DeadlinePasses, Vanishes, Remote,
       History, vars, Live, CRs, Statuses
  <2>3. \A r : Bearing(r) => Bearing(r)'
    BY <2>2 DEF Bearing
  <2>4. QED
    BY <1>1, <2>2, <2>3, OwningKept DEF PlainInv, Owning, NothingThere
<1>3. QED
  BY <1>2, AbortOwning

(***************************************************************************)
(* Of the poll loop, only a verdict is left.                               *)
(***************************************************************************)
LEMMA PollOwning ==
  ASSUME PlainInv, Poll, Synchronous', cr'.spec.url = cr.spec.url
  PROVE  Owning'
<1>1. SetTerminalFailure
  BY DEF Poll, RestartClock, PollWithoutBlock, PollBadURL, PollTimeout, PollGet, Polling,
     PollBudgetSpent, FinishOperation, RecordOperationFailure, ReleaseAnchor, PlainInv, Synchronous
<1>2. /\ UNCHANGED <<cr, ops, res, lost>> /\ pc = "terminal" /\ pc' = "idle"
      /\ st'.externalRef = st.externalRef /\ st'.response = st.response
  BY <1>1 DEF SetTerminalFailure, Return, Remote, Statuses, PlainInv, Inv, TypeOK
<1>3. Live' = Live /\ Running' = {} /\ \A r : ~Bearing(r)
  BY <1>2 DEF Live, Synchronous, Bearing
<1>4. QED
  BY <1>2, <1>3, OwningKept

-----------------------------------------------------------------------------
LEMMA InitPlain == Init => PlainInv
<1> SUFFICES ASSUME Init PROVE PlainInv
  OBVIOUS
<1>1. PICK spec \in Specs, name \in Imports : Init!(spec, name)
  BY DEF Init
<1>2. /\ pc = "idle" /\ cr.name = name /\ cr.gone = FALSE /\ st.externalRef = None
      /\ st.anchor = None /\ st.response = None
  BY <1>1
<1>3. Live \subseteq {name} /\ Running = {}
  BY <1>1 DEF Live, Running, Unused
<1>4. Synchronous /\ SameKey
  BY <1>2, <1>3 DEF Synchronous, SameKey, InFlight
<1>5. Traced
  BY <1>2, <1>3, NoneIsNoResource DEF Traced, Pending, Identified
<1>6. NoDuplicate
  BY <1>3, OwnedIsLive DEF NoDuplicate
<1>7. QED
  BY <1>2, <1>4, <1>5, <1>6, InitInv DEF PlainInv, Owning, Recorded, HandSound, NothingThere, AtRest

LEMMA PlainNext ==
  ASSUME Extracted, PlainInv, [Next]_vars
  PROVE  PlainInv'
<1>1. Inv' /\ Synchronous' /\ SameKey' /\ cr'.spec.url = cr.spec.url
  BY NextInv, SynchronousNext, SameKeyNext DEF PlainInv, Extracted
<1>2. Owning'
  BY <1>1, ObserveOwning, ManageOwning, MutateOwning, PollOwning, EnvironmentOwning DEF Next
<1>3. QED
  BY <1>1, <1>2 DEF PlainInv

LEMMA PlainInvariance == ASSUME Extracted PROVE Spec => []PlainInv
BY InitPlain, PlainNext, PTL DEF Spec

(***************************************************************************)
(* With an API that answers synchronously, too, the controller has one     *)
(* remote resource at most, whether its URLs are keyed by the identity, by *)
(* the stored response or by nothing.  A crash between the two writes      *)
(* after a CREATE, or a failed write of externalRef, loses the answer of   *)
(* that call; no other step makes the worker take what it has for absent   *)
(* (observe.go:164-193, deployaction.go:70-90, 429-449).                   *)
(***************************************************************************)
THEOREM PlainNoDuplicate == ASSUME Extracted PROVE Spec => []NoDuplicate
<1>1. PlainInv => NoDuplicate
  BY DEF PlainInv, Owning
<1>2. QED
  BY <1>1, PlainInvariance, PTL

(***************************************************************************)
(* And when the finalizer is gone, nothing of the object is left, other    *)
(* than through a lost answer (observe.go:122-193).                        *)
(***************************************************************************)
THEOREM PlainNothingOrphaned == ASSUME Extracted PROVE Spec => []NothingOrphaned
<1>1. PlainInv => NothingOrphaned
  BY OwnedIsLive DEF PlainInv, Owning, NothingThere, Synchronous, NothingOrphaned
<1>2. QED
  BY <1>1, PlainInvariance, PTL

-----------------------------------------------------------------------------
(***************************************************************************)
(* Where the URLs are keyed by the identity, it names nothing that is      *)
(* there from the moment the resource is found absent until the answer of  *)
(* CREATE gives it a new one, which is the number of no earlier call.      *)
(***************************************************************************)
KeyedByIdentity == Extracted /\ \A s \in Specs : s.url = "externalRef"

Vacant ==
  pc = "absent" \/ (pc \in {"deploy", "fire", "externalRef"} /\ job.act = "CREATE")
    => st.externalRef \notin Live

Named ==
  /\ \A r \in {st.externalRef, cr.name} : r # None => ops[r].end # "unused"
  /\ pc = "externalRef" => ops[job.op].end # "unused"

IdentityInv == PlainInv /\ Vacant /\ Named

LEMMA IdentityKept ==
  ASSUME IdentityInv, NEW o, \A q \in Ids \ {o} : ops'[q] = ops[q], ops'[o].end # "unused",
         st'.externalRef = st.externalRef, cr'.name = cr.name,
         pc' = "externalRef" => job'.op = o
  PROVE  Named'
BY DEF IdentityInv, Named, PlainInv, Inv, TypeOK, CRs, Statuses

LEMMA ObserveVacates ==
  ASSUME KeyedByIdentity, IdentityInv, Observe
  PROVE  Vacant' /\ Named' /\ (st'.externalRef # st.externalRef => ~Identified)
<1>1. /\ st \in Statuses /\ job \in Jobs /\ UNCHANGED <<cr, ops, res>> /\ Live' = Live
      /\ pc # "idle" => seen.spec \in Specs
  BY DEF IdentityInv, PlainInv, Inv, TypeOK, CRs, Observe, StartReconcile, ObserveAbandons,
     ObserveStalls, ClearTerminalError, ObserveResumesCreate, ObserveInFlight,
     ObserveRejectsIdentity, ObserveUnidentified, ObserveCall, ObserveReport, Remote, Live
<1>2. st'.externalRef = st.externalRef \/ (~Identified /\ st'.externalRef = cr.name)
  BY <1>1 DEF Observe, StartReconcile, Seeded, Identified, ObserveAbandons, ObserveStalls,
     ClearTerminalError, ObserveResumesCreate, ObserveInFlight, ObserveRejectsIdentity,
     ObserveUnidentified, ObserveCall, ObserveReport, Settled, Statuses
<1>3. pc' \in {"idle", "observe", "absent", "present", "report", "terminal"}
  <2>1. CASE ObserveUnidentified
    BY <2>1, Zenon DEF ObserveUnidentified, GoTo, Return
  <2>2. CASE ObserveCall
    BY <2>2 DEF ObserveCall, GoTo, Return, Convict
  <2>3. QED
    BY <2>1, <2>2 DEF Observe, StartReconcile, ObserveAbandons, ObserveStalls, ClearTerminalError,
       ObserveResumesCreate, ObserveInFlight, ObserveRejectsIdentity, ObserveReport, GoTo, Return,
       Convict, Settled, Terminal
<1>4. Named'
  BY <1>1, <1>2, <1>3 DEF IdentityInv, Named
<1>5. pc' = "absent" => st'.externalRef = st.externalRef /\ st.externalRef \notin Live
  <2>1. CASE ObserveUnidentified
    <3>1. pc' = "absent" => seen.spec \in Specs /\ st' = st
      BY <1>1, <2>1 DEF ObserveUnidentified, Settled
    <3>2. pc' = "absent" => ~Identified
      BY <2>1, <3>1, Zenon DEF ObserveUnidentified, KeyedByIdentity
    <3>3. QED
      BY <3>1, <3>2, NoneIsNoResource DEF Identified
  <2>2. CASE ObserveCall /\ pc' = "absent"
    <3> DEFINE s == seen.spec
    <3>1. s \in Specs /\ s.url = "externalRef" /\ s.custom \subseteq {"upToDate"}
      BY <1>1, <2>2 DEF ObserveCall, Settled, KeyedByIdentity, Extracted
    <3> HIDE DEF s
    <3>2. PICK code \in {HealthyCode(s)} \cup Faulty :
            \E removed \in RemovedCheck(s, code), exists \in ExistsCheck(s, code),
               synced \in UpToDateCheck(s, code) :
                 Outcome(s, code, removed, exists, synced) = "absent"
      BY <2>2 DEF ObserveCall, Return, Convict, s
    <3>3. code = "404"
      BY <3>1, <3>2 DEF RemovedCheck, ExistsCheck, Outcome
    <3>4. ~IsLive(st.externalRef)
      BY <3>1, <3>2, <3>3 DEF HealthyCode, Faulty, Target
    <3>5. QED
      BY <2>2, <3>4 DEF ObserveCall, IsLive
  <2>3. CASE ObserveAbandons
    BY <2>3, NoneIsNoResource DEF ObserveAbandons, Abandonable, Identified
  <2>4. CASE ObserveResumesCreate
    BY <2>4, NoneIsNoResource DEF ObserveResumesCreate, Identified
  <2>5. QED
    BY <1>1, <2>1, <2>2, <2>3, <2>4 DEF Observe, StartReconcile, ObserveStalls, ClearTerminalError,
       ObserveInFlight, ObserveRejectsIdentity, ObserveReport, GoTo, Return, Convict
<1>6. QED
  BY <1>1, <1>2, <1>3, <1>4, <1>5 DEF Vacant

LEMMA MutateVacates ==
  ASSUME KeyedByIdentity, IdentityInv, Mutate
  PROVE  Vacant' /\ Named' /\ (st'.externalRef # st.externalRef => st.externalRef \notin Live)
<1>1. /\ st \in Statuses /\ job \in Jobs /\ cr \in CRs /\ ops \in [Ids -> Ops] /\ PlainInv
      /\ cr.spec.url = "externalRef"
  BY DEF IdentityInv, PlainInv, Inv, TypeOK, CRs, KeyedByIdentity
<1>2. CASE FireAccepted \/ FireAnswerLost
  <2>1. PICK o \in Ids : /\ Accept(o)
                         /\ \/ pc' = "idle"
                            \/ /\ pc' \in {"anchor", "externalRef"}
                               /\ job'.act = job.act /\ job'.op = o
    BY <1>1, <1>2 DEF FireAccepted, FireAnswerLost, Return, Jobs
  <2>2. /\ ops[o].end = "unused" /\ ops'[o].end # "unused" /\ UNCHANGED <<cr, st>>
        /\ \A q \in Ids \ {o} : ops'[q] = ops[q]
    BY <1>1, <2>1 DEF Accept, FreeIds
  <2>3. st.externalRef # o
    BY <2>2 DEF IdentityInv, Named, Ids, None
  <2>4. pc = "fire" /\ (job.act = "CREATE" => Live' \subseteq Live \cup {o})
    <3>1. res' = res \/ res' = Effect(job.act, TargetOf(job.act, o), seen.spec.payload)
      BY <2>1 DEF Accept
    <3>2. QED
      BY <1>1, <2>1, <3>1 DEF Accept, Effect, TargetOf, Live, PlainInv, Inv, TypeOK
  <2>5. Vacant'
    BY <2>1, <2>2, <2>3, <2>4 DEF IdentityInv, Vacant
  <2>6. QED
    BY <2>1, <2>2, <2>5, IdentityKept
<1>3. CASE ExtractExternalRef
  <2>1. /\ pc = "externalRef" /\ pc' = "response" /\ UNCHANGED <<cr, ops>> /\ job.op \in Ids
        /\ st'.externalRef \in {st.externalRef, ops[job.op].target}
    BY <1>1, <1>3 DEF ExtractExternalRef, GoTo, Remote, Statuses, PlainInv, Inv, AnchorAtStep
  <2>2. /\ job.act = "CREATE" => ops[job.op].target = job.op
        /\ job.act # "CREATE" => ops[job.op].target = st.externalRef
    BY <1>1, <2>1 DEF PlainInv, Owning, HandSound
  <2>3. job.act = "CREATE" => ops[job.op].end # "unused" /\ st.externalRef \notin Live
    BY <2>1 DEF IdentityInv, Vacant, Named
  <2>4. QED
    BY <2>1, <2>2, <2>3 DEF IdentityInv, Named, Vacant
<1>4. CASE \/ FireRefused \/ RecordRefusal \/ ExtractionFails
           \/ RecordResponse \/ PersistAnchor
  <2>1. /\ UNCHANGED <<cr, ops>> /\ st'.externalRef = st.externalRef
        /\ pc' \notin {"absent", "deploy", "fire", "externalRef"}
    BY <1>1, <1>4 DEF FireRefused, RecordRefusal, ExtractionFails, RecordResponse, PersistAnchor,
       Classify, Convict, GoTo, Return, Remote, Statuses
  <2>2. QED
    BY <2>1 DEF IdentityInv, Named, Vacant
<1>5. QED
  BY <1>2, <1>3, <1>4 DEF Mutate

LEMMA ElseVacates ==
  ASSUME IdentityInv, Manage \/ Poll \/ Environment \/ UNCHANGED vars, Synchronous'
  PROVE  Vacant' /\ Named' /\ st'.externalRef = st.externalRef
<1>1. /\ st \in Statuses /\ job \in Jobs /\ cr \in CRs /\ PlainInv /\ ~InFlight
      /\ res \in [Ids -> Payloads \cup {Absent}]
  BY DEF IdentityInv, PlainInv, Inv, TypeOK, Synchronous
<1>2. CASE Manage
  <2>1. UNCHANGED <<st, ops, res>> /\ cr'.name = cr.name
    BY <1>1, <1>2 DEF Manage, DropFinalizer, MarkCreatePending, Conflict, ActOnPresent,
       EnterDeploy, Remote, CRs
  <2>2. /\ pc' \in {"idle", "deploy", "fire"}
        /\ pc' \in {"deploy", "fire"} /\ job'.act = "CREATE"
             => pc = "absent" \/ (pc = "deploy" /\ job.act = "CREATE")
    BY <1>1, <1>2 DEF Manage, DropFinalizer, MarkCreatePending, Conflict, ActOnPresent,
       EnterDeploy, DeployedAction, DeployStep, Return, Jobs, NoJob
  <2>3. Live' = Live
    BY <2>1 DEF Live
  <2>4. QED
    BY <2>1, <2>2, <2>3 DEF IdentityInv, Named, Vacant
<1>3. CASE Poll
  <2>1. SetTerminalFailure
    BY <1>1, <1>3 DEF Poll, RestartClock, PollWithoutBlock, PollBadURL, PollTimeout, PollGet,
       Polling, PollBudgetSpent, FinishOperation, RecordOperationFailure, ReleaseAnchor, PlainInv,
       Synchronous
  <2>2. UNCHANGED <<cr, ops, res>> /\ pc' = "idle" /\ st'.externalRef = st.externalRef
    BY <1>1, <2>1 DEF SetTerminalFailure, Return, Remote, Statuses
  <2>3. QED
    BY <2>2 DEF IdentityInv, Named, Vacant
<1>4. CASE Environment \/ UNCHANGED vars
  <2>1. \A o \in Ids : ~OperationSucceeds(o) /\ ~OperationFails(o)
    BY <1>1 DEF OperationSucceeds, OperationFails, PlainInv, Synchronous, Running
  <2>2. /\ UNCHANGED ops /\ Live' \subseteq Live
        /\ pc' = "idle" \/ UNCHANGED <<pc, job>>
        /\ st'.externalRef = st.externalRef /\ cr'.name = cr.name
    BY <1>1, <1>4, <2>1 DEF Environment, Abort, EditSpec, Delete, DeadlinePasses, Vanishes, Return,
       Remote, vars, Live, CRs, Statuses
  <2>3. QED
    BY <2>2 DEF IdentityInv, Named, Vacant
<1>5. QED
  BY <1>2, <1>3, <1>4

(***************************************************************************)
(* The identity of such an object changes only when it named nothing, or   *)
(* nothing any more (request.go:281-296, deployaction.go:429-449).         *)
(***************************************************************************)
THEOREM PlainIdentityIsStable == ASSUME KeyedByIdentity PROVE Spec => IdentityStable
<1>1. Init => IdentityInv
  <2> SUFFICES ASSUME Init PROVE Vacant /\ Named
    BY InitPlain DEF IdentityInv
  <2>1. PICK spec \in Specs, name \in Imports : Init!(spec, name)
    BY DEF Init
  <2>2. name # None => name \in Ids
    BY ConstantsAssumption DEF Ids, None
  <2>3. QED
    BY <2>1, <2>2 DEF Vacant, Named
<1>2. IdentityInv /\ [Next]_vars
        => IdentityInv' /\ [st'.externalRef # st.externalRef =>
              (cr.spec.url # "externalRef" \/ st.externalRef \notin Live)]_vars
  <2> SUFFICES ASSUME IdentityInv, [Next]_vars
               PROVE  IdentityInv' /\ (st'.externalRef # st.externalRef => st.externalRef \notin Live)
    OBVIOUS
  <2>1. PlainInv'
    BY PlainNext DEF IdentityInv, KeyedByIdentity
  <2>2. Vacant' /\ Named' /\ (st'.externalRef # st.externalRef => st.externalRef \notin Live)
    <3>1. CASE Observe
      BY <3>1, ObserveVacates, NoneIsNoResource DEF Identified
    <3>2. CASE Mutate
      BY <3>2, MutateVacates
    <3>3. CASE Manage \/ Poll \/ Environment \/ UNCHANGED vars
      BY <2>1, <3>3, ElseVacates DEF PlainInv
    <3>4. QED
      BY <3>1, <3>2, <3>3 DEF Next
  <2>3. QED
    BY <2>1, <2>2 DEF IdentityInv
<1>3. QED
  BY <1>1, <1>2, PTL DEF Spec, IdentityStable
=============================================================================
