------------------------ MODULE AsyncRequestIdentity ------------------------
(***************************************************************************)
(* One remote resource per object: for every set of polled specs keyed by  *)
(* .status.externalRef and every bound, the proof of what the run `polled` *)
(* checks of the resources behind an AsyncRequest.                         *)
(***************************************************************************)
EXTENDS AsyncRequestRefinement

(* What the properties need of the specs: every mapping polled, the URLs   *)
(* built on an externalRef that can be extracted, and no CUSTOM check that *)
(* decides existence from an answer without a body.                        *)
Keyed ==
  /\ PolledOnly
  /\ \A s \in Specs :
       s.url = "externalRef" /\ s.externalRef /\ s.custom \subseteq {"upToDate"}

(* The operation that the status or the worker's hand names.               *)
Hangs(o) == st.anchor = o \/ (pc = "anchor" /\ job.op = o)

Made(r) == r \in Ids /\ ops[r].act = "CREATE" /\ ops[r].end = "succeeded"

(* The annotation names a resource that Observe has not seeded yet.        *)
Importing == cr.name # None /\ ~Identified

(* A resource comes from a CREATE that succeeded, and so does an identity. *)
IdentitySound ==
  /\ \A r \in Live : Made(r)
  /\ \A o \in Ids : ops[o].act = "CREATE" /\ ops[o].end # "unused" => ops[o].target = o
  /\ Identified => Made(st.externalRef)
  /\ cr.name # None => Made(cr.name)
  /\ Importing => pc = "idle" /\ ~InFlight /\ ~cr.gone

(* Every resource not lost is known to the controller, in one of 3 places. *)
Known ==
  \A r \in Live \ lost : r = st.externalRef \/ Hangs(r) \/ (Importing /\ r = cr.name)

(* A CREATE is pending only when the identity names nothing that is there; *)
(* any other operation works on what the identity names.                   *)
PendingSound ==
  \A o \in Ids : Hangs(o) =>
    /\ ops[o].end # "unused"
    /\ ops[o].act = "CREATE" => st.externalRef \notin Live
    /\ ops[o].act # "CREATE" => ops[o].target = st.externalRef

GoneSound == cr.gone => ~InFlight /\ st.externalRef \notin Live

Bound == IdentitySound /\ Known /\ PendingSound /\ GoneSound

(* What the worker found out before it lets go, creates or gives up.       *)
AbsentAtStep ==
  pc = "absent" \/ (pc \in {"deploy", "fire"} /\ job.act = "CREATE" /\ ~InFlight)
    => st.externalRef \notin Live

FailedAtStep ==
  pc \in {"failed", "release"} \/ (pc = "terminal" /\ job.clear)
    => ops[st.anchor].end = "failed"

OwnInv == ContractInv /\ Bound /\ AbsentAtStep /\ FailedAtStep

-----------------------------------------------------------------------------
(***************************************************************************)
(* The mapping URLs of every spec address what externalRef names, and the  *)
(* object has at most one operation pending.                               *)
(***************************************************************************)
LEMMA TargetIsIdentity ==
  ASSUME Keyed, NEW s \in Specs
  PROVE  Target(s) = st.externalRef
BY DEF Keyed, Target

LEMMA OnePending ==
  ASSUME OwnInv, NEW o, NEW q, Hangs(o), Hangs(q), o # None, q # None
  PROVE  o = q
BY DEF OwnInv, ContractInv, TrackInv, Inv, AnchorAtStep, InFlight, Hangs

LEMMA NothingPending ==
  ASSUME OwnInv, pc # "anchor", ~InFlight
  PROVE  \A o \in Ids : ~Hangs(o)
BY DEF Hangs, InFlight, Ids, None

(* No resource has the number 0, so an object without identity names none. *)
LEMMA NoneIsNotLive == None \notin Live /\ None \notin Live'
BY DEF Live, Ids, None

(***************************************************************************)
(* Only a CREATE brings a resource into being, and only its own.           *)
(***************************************************************************)
LEMMA EffectLive ==
  ASSUME OwnInv, NEW act \in Actions, NEW target \in Ids, NEW payload \in Payloads \cup {Absent},
         res' = Effect(act, target, payload)
  PROVE  Live' \subseteq Live \cup {r \in {target} : act = "CREATE"}
BY DEF Effect, Live, OwnInv, ContractInv, TrackInv, Inv, TypeOK

(***************************************************************************)
(* A step that brings nothing into being, leaves the identity alone and    *)
(* forgets only an operation that is lost or made nothing.                 *)
(***************************************************************************)
LEMMA Kept ==
  ASSUME OwnInv, UNCHANGED ops, lost \subseteq lost', Live' \subseteq Live,
         st'.externalRef = st.externalRef, cr'.name = cr.name, cr'.gone = cr.gone,
         pc = "idle" => pc' = "idle" /\ st'.anchor = st.anchor,
         \A o \in Ids : Hangs(o)' => Hangs(o),
         \A o \in Ids : Hangs(o) => Hangs(o)' \/ o \in lost' \/ ~Made(o)
  PROVE  Bound'
<1>1. \A r : Made(r)' <=> Made(r)
  BY DEF Made
<1>2. Importing' <=> Importing
  BY DEF Importing, Identified
<1>3. IdentitySound'
  BY <1>1, <1>2 DEF OwnInv, Bound, IdentitySound, Identified, InFlight
<1>4. Known'
  <2> SUFFICES ASSUME NEW r \in Live', r \notin lost', r # st.externalRef, ~Hangs(r)'
               PROVE  Importing /\ r = cr.name
    BY <1>2 DEF Known
  <2>1. r \in Live \ lost /\ r \in Ids /\ Made(r)
    BY DEF OwnInv, Bound, IdentitySound, Live
  <2>2. QED
    BY <2>1 DEF OwnInv, Bound, Known
<1>5. PendingSound'
  BY DEF OwnInv, Bound, PendingSound
<1>6. GoneSound'
  BY DEF OwnInv, Bound, GoneSound, ContractInv, LetGo, InFlight
<1>7. QED
  BY <1>3, <1>4, <1>5, <1>6 DEF Bound

LEMMA Unmoved ==
  ASSUME OwnInv, UNCHANGED <<ops, res, lost>>, st'.externalRef = st.externalRef,
         st'.anchor = st.anchor, cr'.name = cr.name, cr'.gone = cr.gone,
         pc = "idle" => pc' = "idle", pc # "anchor", pc' # "anchor"
  PROVE  Bound'
<1>1. Live' = Live
  BY DEF Live
<1>2. \A o : Hangs(o)' <=> Hangs(o)
  BY DEF Hangs
<1>3. QED
  BY <1>1, <1>2, Kept

-----------------------------------------------------------------------------
(***************************************************************************)
(* Observe seeds an identity only if there is none (request.go:281-296),   *)
(* and reports the resource as absent only when it is not there.           *)
(***************************************************************************)
LEMMA SeedingOwns ==
  ASSUME OwnInv, StartReconcile
  PROVE  Bound'
<1>1. /\ st \in Statuses /\ pc = "idle" /\ pc' = "observe" /\ ~cr.gone
      /\ UNCHANGED <<cr, ops, res, lost>>
  BY DEF StartReconcile, GoTo, Remote, History, OwnInv, ContractInv, TrackInv, Inv, TypeOK
<1>2. /\ st'.anchor = st.anchor
      /\ st'.externalRef = IF Identified THEN st.externalRef ELSE cr.name
  BY <1>1 DEF StartReconcile, Seeded, Statuses, Identified
<1>3. Live' = Live /\ (\A r : Made(r)' <=> Made(r)) /\ (\A o : Hangs(o)' <=> Hangs(o))
  BY <1>1, <1>2 DEF Live, Made, Hangs
<1>4. ~Importing'
  BY <1>1, <1>2 DEF Importing, Identified
<1>5. Importing => \A o \in Ids : ~Hangs(o)
  BY <1>1, NothingPending DEF OwnInv, Bound, IdentitySound
<1>6. ~Importing => st'.externalRef = st.externalRef
  BY <1>2 DEF Importing, Identified
<1>7. IdentitySound'
  BY <1>1, <1>2, <1>3, <1>4 DEF OwnInv, Bound, IdentitySound, Identified
<1>8. Known'
  <2>1. Importing => st'.externalRef = cr.name /\ st.externalRef \notin Live
    BY <1>2, NoneIsNotLive DEF Importing, Identified
  <2>2. QED
    BY <1>1, <1>3, <1>6, <2>1 DEF OwnInv, Bound, Known
<1>9. PendingSound'
  BY <1>1, <1>3, <1>5, <1>6 DEF OwnInv, Bound, PendingSound
<1>10. QED
  BY <1>1, <1>7, <1>8, <1>9 DEF Bound, GoneSound

LEMMA AbsentIsAbsent ==
  ASSUME Keyed, OwnInv, ObserveCall, pc' = "absent"
  PROVE  st.externalRef \notin Live
<1>1. seen.spec \in Specs
  BY DEF ObserveCall, Settled, OwnInv, ContractInv, TrackInv, Inv, TypeOK, CRs
<1>2. /\ seen.spec.url = "externalRef" /\ "removed" \notin seen.spec.custom
      /\ "exists" \notin seen.spec.custom /\ Target(seen.spec) = st.externalRef
  BY <1>1, TargetIsIdentity DEF Keyed
<1>3. PICK code \in {HealthyCode(seen.spec)} \cup Faulty :
        \E removed \in RemovedCheck(seen.spec, code), exists \in ExistsCheck(seen.spec, code),
           synced \in UpToDateCheck(seen.spec, code) :
             Outcome(seen.spec, code, removed, exists, synced) = "absent"
  BY DEF ObserveCall, Return, Convict
<1>4. code = "404"
  BY <1>2, <1>3 DEF RemovedCheck, ExistsCheck, Outcome
<1>5. QED
  BY <1>2, <1>3, <1>4 DEF HealthyCode, Faulty, IsLive

LEMMA ObserveOwns ==
  ASSUME Keyed, OwnInv, Observe
  PROVE  Bound' /\ AbsentAtStep' /\ FailedAtStep'
<1>1. st \in Statuses /\ job \in Jobs
  BY DEF OwnInv, ContractInv, TrackInv, Inv, TypeOK
<1>2. /\ UNCHANGED <<cr, ops, res, lost>> /\ pc # "anchor" /\ st'.anchor = st.anchor
      /\ ~StartReconcile => pc # "idle" /\ st'.externalRef = st.externalRef
  BY <1>1 DEF Observe, StartReconcile, Seeded, ObserveAbandons, ObserveStalls,
     ClearTerminalError, ObserveResumesCreate, ObserveInFlight, ObserveRejectsIdentity,
     ObserveUnidentified, ObserveCall, ObserveReport, Settled, Remote, History, Statuses
<1>3. \/ pc' \in {"idle", "observe", "absent", "present", "report"}
      \/ pc' = "terminal" /\ job'.clear = FALSE
  <2>1. CASE ObserveCall
    BY <1>1, <2>1, ZenonT(60) DEF ObserveCall, GoTo, Return, Convict, Jobs
  <2>2. CASE ObserveRejectsIdentity
    BY <1>1, <2>2 DEF ObserveRejectsIdentity, Convict, Jobs
  <2>3. CASE ObserveUnidentified
    BY <2>3, Zenon DEF ObserveUnidentified, GoTo, Return
  <2>4. QED
    BY <2>1, <2>2, <2>3 DEF Observe, StartReconcile, ObserveAbandons, ObserveStalls,
       ClearTerminalError, ObserveResumesCreate, ObserveInFlight, ObserveReport, GoTo, Return
<1>4. Bound'
  BY <1>2, <1>3, SeedingOwns, Unmoved
<1>5. pc' = "absent" => st'.externalRef = st.externalRef /\ st.externalRef \notin Live
  <2>1. CASE ObserveCall
    BY <2>1, AbsentIsAbsent DEF ObserveCall
  <2>2. CASE ObserveUnidentified
    <3>1. seen.spec \in Specs /\ st' = st
      BY <2>2 DEF ObserveUnidentified, Settled, OwnInv, ContractInv, TrackInv, Inv, TypeOK, CRs
    <3>2. ~Identified
      BY <2>2, <3>1, Zenon DEF ObserveUnidentified, Keyed
    <3>3. QED
      BY <3>1, <3>2, NoneIsNotLive DEF Identified
  <2>3. CASE ObserveAbandons \/ ObserveResumesCreate
    BY <2>3, NoneIsNotLive DEF ObserveAbandons, ObserveResumesCreate, Abandonable, Identified
  <2>4. QED
    BY <2>1, <2>2, <2>3 DEF Observe, StartReconcile, ObserveStalls, ClearTerminalError,
       ObserveInFlight, ObserveRejectsIdentity, ObserveReport, GoTo, Return, Convict
<1>6. AbsentAtStep'
  BY <1>2, <1>3, <1>5 DEF AbsentAtStep, Live
<1>7. QED
  BY <1>3, <1>4, <1>6 DEF FailedAtStep

-----------------------------------------------------------------------------
(***************************************************************************)
(* The reconciler drops the finalizer, or has Create called, in the same   *)
(* reconcile that found the resource absent; DeployAction comes to the     *)
(* mutate without an anchor.                                               *)
(***************************************************************************)
LEMMA ManageOwns ==
  ASSUME OwnInv, Manage
  PROVE  Bound' /\ AbsentAtStep' /\ FailedAtStep'
<1>1. cr \in CRs /\ job \in Jobs
  BY DEF OwnInv, ContractInv, TrackInv, Inv, TypeOK
<1>2. /\ pc \in {"absent", "present", "deploy"} /\ UNCHANGED <<st, ops, res, lost>>
      /\ pc' \in {"idle", "deploy", "fire", "restart", "poll"}
  BY DEF Manage, DropFinalizer, MarkCreatePending, Conflict, ActOnPresent, EnterDeploy,
     DeployStep, Return, Remote, History
<1>3. Live' = Live /\ (\A r : Made(r)' <=> Made(r)) /\ \A o : Hangs(o)' <=> Hangs(o)
  BY <1>2 DEF Live, Made, Hangs
<1>4. Bound'
  <2>1. CASE DropFinalizer
    <3>1. ~InFlight /\ st.externalRef \notin Live /\ cr'.name = cr.name
      BY <1>1, <2>1 DEF DropFinalizer, OwnInv, ContractInv, LetGo, AbsentAtStep, CRs
    <3>2. ~Importing /\ ~Importing'
      BY <1>2, <3>1 DEF Importing, Identified, OwnInv, Bound, IdentitySound
    <3>3. IdentitySound'
      BY <1>2, <1>3, <3>1, <3>2 DEF OwnInv, Bound, IdentitySound, Identified
    <3>4. Known'
      BY <1>2, <1>3, <3>2 DEF OwnInv, Bound, Known
    <3>5. PendingSound'
      BY <1>2, <1>3 DEF OwnInv, Bound, PendingSound
    <3>6. GoneSound'
      BY <1>2, <1>3, <3>1 DEF GoneSound, InFlight
    <3>7. QED
      BY <3>3, <3>4, <3>5, <3>6 DEF Bound
  <2>2. CASE ~DropFinalizer
    <3>1. cr' = cr
      BY <2>2 DEF Manage, MarkCreatePending, Conflict, ActOnPresent, EnterDeploy
    <3>2. QED
      BY <1>2, <3>1, Unmoved
  <2>3. QED
    BY <2>1, <2>2
<1>5. pc' \in {"deploy", "fire"} /\ job'.act = "CREATE" /\ ~InFlight
        => pc = "absent" \/ (pc = "deploy" /\ job.act = "CREATE")
  BY <1>1 DEF Manage, DropFinalizer, MarkCreatePending, Conflict, ActOnPresent, EnterDeploy,
     DeployedAction, Return, Jobs, NoJob
<1>6. QED
  BY <1>2, <1>3, <1>4, <1>5 DEF OwnInv, AbsentAtStep, FailedAtStep, InFlight

-----------------------------------------------------------------------------
(***************************************************************************)
(* The mutate is fired with nothing pending: a CREATE only while the       *)
(* identity names nothing, any other call on what the identity names.  The *)
(* answer puts the operation into the worker's hand, or it is lost.        *)
(***************************************************************************)
LEMMA FireOwns ==
  ASSUME Keyed, OwnInv, NEW o \in Ids, Accept(o), pc' \in {"anchor", "idle"},
         pc' = "anchor" => job'.op = o /\ lost' = lost,
         pc' = "idle" => lost' = lost \cup {o}
  PROVE  Bound'
<1>1. /\ pc = "fire" /\ ~InFlight /\ ~cr.gone /\ job.act \in Actions /\ seen.spec \in Specs
      /\ ops[o].end = "unused" /\ UNCHANGED <<cr, st>> /\ \A q \in Ids : ~Hangs(q)
  BY NothingPending DEF Accept, FreeIds, OwnInv, ContractInv, LetGo, TrackInv, Inv, TypeOK,
     AnchorAtStep, CRs
<1>2. \E end \in {"running", "succeeded"} :
        /\ ops' = [ops EXCEPT ![o] = [act |-> job.act, target |-> TargetOf(job.act, o),
                                      payload |-> seen.spec.payload, end |-> end]]
        /\ end = "running" => res' = res
        /\ end # "running" => res' = Effect(job.act, TargetOf(job.act, o), seen.spec.payload)
  BY DEF Accept
<1>3. /\ ops'[o].act = job.act /\ ops'[o].target = TargetOf(job.act, o)
      /\ ops'[o].end \in {"running", "succeeded"}
      /\ \A q \in Ids : q # o => ops'[q] = ops[q]
      /\ ops'[o].end = "running" => res' = res
      /\ ops'[o].end # "running"
           => res' = Effect(job.act, TargetOf(job.act, o), seen.spec.payload)
  BY <1>2 DEF OwnInv, ContractInv, TrackInv, Inv, TypeOK
<1>4. TargetOf(job.act, o) = IF job.act = "CREATE" THEN o ELSE st.externalRef
  BY <1>1, TargetIsIdentity DEF TargetOf
<1>5. Live' \subseteq Live \cup {r \in {o} : job.act = "CREATE" /\ ops'[o].end = "succeeded"}
  <2>1. TargetOf(job.act, o) \in Ids
    BY DEF Accept, CanTarget, TargetOf, IsLive, Live
  <2>2. CASE ops'[o].end = "running"
    BY <1>3, <2>2 DEF Live
  <2>3. CASE ops'[o].end # "running"
    BY <1>1, <1>3, <1>4, <2>1, <2>3, SpecType, EffectLive
  <2>4. QED
    BY <2>2, <2>3
<1>6. \A r : Made(r) => r # o /\ Made(r)'
  BY <1>1, <1>3 DEF Made
<1>7. ~Importing /\ ~Importing'
  BY <1>1 DEF Importing, Identified, OwnInv, Bound, IdentitySound
<1>8. st.externalRef # o
  BY <1>6 DEF OwnInv, Bound, IdentitySound, Identified, Ids, None
<1>9. IdentitySound'
  <2>1. \A r \in Live' : Made(r)'
    BY <1>3, <1>5, <1>6 DEF OwnInv, Bound, IdentitySound, Made
  <2>2. \A q \in Ids : ops'[q].act = "CREATE" /\ ops'[q].end # "unused" => ops'[q].target = q
    BY <1>3, <1>4 DEF OwnInv, Bound, IdentitySound
  <2>3. QED
    BY <1>1, <1>6, <1>7, <2>1, <2>2 DEF OwnInv, Bound, IdentitySound, Identified
<1>10. Known'
  <2>1. \A r \in Live \ lost : r = st.externalRef
    BY <1>1, <1>7 DEF OwnInv, Bound, Known, Live
  <2>2. pc' = "anchor" => Hangs(o)'
    BY DEF Hangs
  <2>3. QED
    BY <1>1, <1>5, <2>1, <2>2 DEF Known
<1>11. PendingSound'
  <2> SUFFICES ASSUME NEW q \in Ids, Hangs(q)'
               PROVE  /\ ops'[q].end # "unused"
                      /\ ops'[q].act = "CREATE" => st'.externalRef \notin Live'
                      /\ ops'[q].act # "CREATE" => ops'[q].target = st'.externalRef
    BY DEF PendingSound
  <2>1. q = o
    BY <1>1 DEF Hangs
  <2>2. job.act = "CREATE" => st.externalRef \notin Live
    BY <1>1 DEF OwnInv, AbsentAtStep
  <2>3. QED
    BY <1>1, <1>3, <1>4, <1>5, <1>8, <2>1, <2>2
<1>12. QED
  BY <1>1, <1>9, <1>10, <1>11 DEF Bound, GoneSound

LEMMA MutateOwns ==
  ASSUME Keyed, OwnInv, Mutate
  PROVE  Bound' /\ AbsentAtStep' /\ FailedAtStep'
<1>1. job \in Jobs /\ st \in Statuses
  BY DEF OwnInv, ContractInv, TrackInv, Inv, TypeOK
<1>2. /\ pc \in {"fire", "refused", "anchor"}
      /\ pc' \in {"idle", "anchor", "refused", "poll"} \/ (pc' = "terminal" /\ job'.clear = FALSE)
  BY <1>1 DEF Mutate, FireAccepted, FireAnswerLost, Accept, FireRefused, RecordRefusal,
     Classify, Convict, ExtractExternalRef, ExtractionFails, RecordResponse, PersistAnchor, GoTo,
     Return, Jobs, OwnInv, ContractInv, TrackInv, EndedAtStep
<1>3. Bound'
  <2>1. CASE FireAccepted
    <3>1. PICK o \in Ids : /\ Accept(o) /\ job' = [job EXCEPT !.op = o] /\ lost' = lost
                           /\ pc' = IF job.kind = "poll" THEN "anchor" ELSE "externalRef"
      BY <2>1 DEF FireAccepted
    <3>2. pc' = "anchor" /\ job'.op = o
      BY <1>1, <1>2, <3>1 DEF Jobs
    <3>3. QED
      BY <3>1, <3>2, FireOwns
  <2>2. CASE FireAnswerLost
    <3>1. PICK o \in Ids : Accept(o) /\ lost' = lost \cup {o} /\ pc' = "idle"
      BY <2>2 DEF FireAnswerLost, Return
    <3>2. QED
      BY <3>1, FireOwns
  <2>3. CASE FireRefused \/ RecordRefusal
    <3>1. /\ pc \in {"fire", "refused"} /\ UNCHANGED <<cr, ops, res, lost>> /\ pc' # "anchor"
          /\ st'.anchor = st.anchor /\ st'.externalRef = st.externalRef
      BY <1>1, <1>2, <2>3 DEF FireRefused, RecordRefusal, Classify, Convict, GoTo, Return,
         Remote, History, Statuses
    <3>2. QED
      BY <3>1, Unmoved
  <2>4. CASE PersistAnchor
    <3>1. /\ pc = "anchor" /\ pc' = "poll" /\ ~InFlight /\ UNCHANGED <<cr, ops, res, lost>>
          /\ st'.anchor = job.op /\ st'.externalRef = st.externalRef
      BY <1>1, <2>4 DEF PersistAnchor, Remote, History, Statuses, OwnInv, ContractInv, TrackInv,
         Inv, AnchorAtStep
    <3>2. \A o \in Ids : Hangs(o)' <=> Hangs(o)
      BY <3>1 DEF Hangs, InFlight, Ids, None
    <3>3. Live' = Live
      BY <3>1 DEF Live
    <3>4. QED
      BY <3>1, <3>2, <3>3, Kept
  <2>5. CASE ExtractExternalRef \/ ExtractionFails \/ RecordResponse
    BY <1>2, <2>5 DEF ExtractExternalRef, ExtractionFails, RecordResponse
  <2>6. QED
    BY <2>1, <2>2, <2>3, <2>4, <2>5 DEF Mutate
<1>4. QED
  BY <1>2, <1>3 DEF AbsentAtStep, FailedAtStep

-----------------------------------------------------------------------------
(***************************************************************************)
(* An operation that is settled leaves its resource as the identity        *)
(* (deployaction.go:392-427), or has failed and left none.                 *)
(***************************************************************************)
LEMMA FinishOwns ==
  ASSUME Keyed, OwnInv, FinishOperation
  PROVE  Bound' /\ (st'.externalRef # st.externalRef => st.externalRef \notin Live)
<1>1. /\ st \in Statuses /\ cr.spec \in Specs /\ st.anchor \in Ids
      /\ pc = "finish" /\ pc' = "idle" /\ ~cr.gone /\ UNCHANGED <<cr, ops, res, lost>>
  BY DEF FinishOperation, Return, Remote, History, OwnInv, ContractInv, LetGo, TrackInv, Inv,
     TypeOK, AnchorAtStep, InFlight, CRs, Statuses
<1>2. /\ st'.anchor = None
      /\ st'.externalRef = IF Yields(st.anchor) THEN ops[st.anchor].target ELSE st.externalRef
  BY <1>1 DEF FinishOperation, Statuses
<1>3. /\ Live' = Live /\ (\A r : Made(r)' <=> Made(r))
      /\ (\A o \in Ids : ~Hangs(o)') /\ \A o : Hangs(o) <=> o = st.anchor
  BY <1>1, <1>2 DEF Live, Made, Hangs, Ids, None
<1>4. ~Importing
  BY <1>1 DEF Importing, OwnInv, Bound, IdentitySound
<1>5. ops[st.anchor].end # "running" /\ ops[st.anchor].end # "unused" /\ ops[st.anchor] \in Ops
  BY <1>1, <1>3 DEF OwnInv, ContractInv, TrackInv, EndedAtStep, Bound, PendingSound, Inv, TypeOK
<1>6. CASE Made(st.anchor)
  <2>1. st'.externalRef = st.anchor /\ st.externalRef \notin Live
    BY <1>1, <1>2, <1>3, <1>6 DEF Yields, Keyed, Made, OwnInv, Bound, IdentitySound, PendingSound
  <2>2. ~Importing'
    BY <1>1, <2>1 DEF Importing, Identified, Ids, None
  <2>3. IdentitySound'
    BY <1>1, <1>3, <1>6, <2>1, <2>2 DEF OwnInv, Bound, IdentitySound
  <2>4. Known'
    BY <1>1, <1>3, <1>4, <2>1 DEF OwnInv, Bound, Known
  <2>5. QED
    BY <1>1, <1>3, <2>1, <2>3, <2>4 DEF Bound, PendingSound, GoneSound
<1>7. CASE ~Made(st.anchor)
  <2>1. st'.externalRef = st.externalRef
    BY <1>1, <1>2, <1>3, <1>5, <1>7 DEF Yields, Made, OwnInv, Bound, PendingSound
  <2>2. QED
    BY <1>1, <1>3, <1>7, <2>1, Kept
<1>8. QED
  BY <1>6, <1>7

LEMMA PollOwns ==
  ASSUME Keyed, OwnInv, Poll
  PROVE  Bound' /\ AbsentAtStep' /\ FailedAtStep'
<1>1. job \in Jobs /\ st \in Statuses
  BY DEF OwnInv, ContractInv, TrackInv, Inv, TypeOK
<1>2. /\ UNCHANGED <<cr, ops, res, lost>> /\ pc \notin {"idle", "anchor"}
      /\ pc' \notin {"anchor", "absent", "deploy", "fire"}
      /\ ~FinishOperation => st'.externalRef = st.externalRef
  BY <1>1 DEF Poll, RestartClock, PollWithoutBlock, PollBadURL, PollTimeout, PollGet,
     PollBudgetSpent, FinishOperation, RecordOperationFailure, ReleaseAnchor,
     SetTerminalFailure, Polling, Classify, Convict, GoTo, Return, Remote, History, Statuses
<1>3. Bound'
  <2>1. CASE FinishOperation
    BY <2>1, FinishOwns
  <2>2. CASE ~FinishOperation /\ st'.anchor = st.anchor
    BY <1>2, <2>2, Unmoved
  <2>3. CASE ~FinishOperation /\ st'.anchor # st.anchor
    <3>1. st'.anchor = None /\ ops[st.anchor].end = "failed"
      BY <1>1, <2>3 DEF Poll, RestartClock, PollWithoutBlock, PollBadURL, PollTimeout, PollGet,
         PollBudgetSpent, RecordOperationFailure, ReleaseAnchor, SetTerminalFailure, Statuses,
         OwnInv, FailedAtStep
    <3>2. /\ Live' = Live /\ (\A o \in Ids : ~Hangs(o)')
          /\ \A o \in Ids : Hangs(o) => ~Made(o)
      BY <1>2, <3>1 DEF Live, Hangs, Made, Ids, None
    <3>3. QED
      BY <1>2, <2>3, <3>2, Kept
  <2>4. QED
    BY <2>1, <2>2, <2>3
<1>4. AbsentAtStep'
  BY <1>2 DEF AbsentAtStep
<1>5. FailedAtStep'
  <2>1. CASE pc' \in {"failed", "release"} \/ (pc' = "terminal" /\ job'.clear)
    <3>1. st'.anchor = st.anchor /\ ops[st.anchor].end = "failed"
      BY <1>1, <2>1 DEF Poll, RestartClock, PollWithoutBlock, PollBadURL, PollTimeout, PollGet,
         PollBudgetSpent, FinishOperation, RecordOperationFailure, ReleaseAnchor,
         SetTerminalFailure, Classify, Convict, GoTo, Return, Statuses, Jobs, OwnInv,
         FailedAtStep
    <3>2. QED
      BY <1>2, <3>1 DEF FailedAtStep
  <2>2. QED
    BY <2>1 DEF FailedAtStep
<1>6. QED
  BY <1>3, <1>4, <1>5

-----------------------------------------------------------------------------
(***************************************************************************)
(* An operation that succeeds has its effect: a CREATE makes the one       *)
(* resource that the anchor, or the worker's hand, already stands for.     *)
(***************************************************************************)
LEMMA SuccessOwns ==
  ASSUME OwnInv, NEW o \in Ids, OperationSucceeds(o)
  PROVE  Bound' /\ (st.externalRef \notin Live => st.externalRef \notin Live')
<1>1. /\ ops[o].end = "running" /\ ops[o] \in Ops /\ UNCHANGED <<cr, st, pc, job, lost>>
      /\ ops'[o] = [ops[o] EXCEPT !.end = "succeeded"]
      /\ \A q \in Ids : q # o => ops'[q] = ops[q]
  BY DEF OperationSucceeds, History, OwnInv, ContractInv, TrackInv, Inv, TypeOK
<1>2. /\ \A q \in Ids : ops'[q].act = ops[q].act /\ ops'[q].target = ops[q].target
      /\ \A q \in Ids : ops'[q].end = IF q = o THEN "succeeded" ELSE ops[q].end
      /\ \A q : Hangs(q)' <=> Hangs(q)
  BY <1>1 DEF Ops, Hangs
<1>3. Live' \subseteq Live \cup {r \in {o} : ops[o].act = "CREATE"}
  <2>1. ops[o].act = "CREATE" => ops[o].target = o
    BY <1>1 DEF OwnInv, Bound, IdentitySound
  <2>2. res' = Effect(ops[o].act, ops[o].target, ops[o].payload)
    BY DEF OperationSucceeds
  <2>3. CASE ops[o].target \in Ids
    BY <1>1, <2>1, <2>2, <2>3, EffectLive DEF Ops
  <2>4. CASE ops[o].target \notin Ids
    BY <1>1, <2>1, <2>2, <2>4 DEF Effect, Live, OwnInv, ContractInv, TrackInv, Inv, TypeOK
  <2>5. QED
    BY <2>3, <2>4
<1>4. \A r : Made(r) => r # o /\ Made(r)'
  BY <1>1, <1>2 DEF Made
<1>5. st.externalRef # o
  BY <1>4 DEF OwnInv, Bound, IdentitySound, Identified, Ids, None
<1>6. Importing' <=> Importing
  BY <1>1 DEF Importing, Identified
<1>7. IdentitySound'
  <2>1. \A r \in Live' : Made(r)'
    BY <1>2, <1>3, <1>4 DEF OwnInv, Bound, IdentitySound, Made
  <2>2. \A q \in Ids : ops'[q].act = "CREATE" /\ ops'[q].end # "unused" => ops'[q].target = q
    BY <1>1, <1>2 DEF OwnInv, Bound, IdentitySound
  <2>3. QED
    BY <1>1, <1>4, <1>6, <2>1, <2>2 DEF OwnInv, Bound, IdentitySound, Identified, InFlight
<1>8. Known'
  <2>1. o \notin lost => Hangs(o)
    BY <1>1 DEF OwnInv, ContractInv, TrackInv, OperationsTracked, Running, InHand, EndedAtStep,
       Hangs
  <2>2. QED
    BY <1>1, <1>2, <1>3, <1>6, <2>1 DEF OwnInv, Bound, Known
<1>9. PendingSound' /\ GoneSound'
  BY <1>1, <1>2, <1>3, <1>5 DEF OwnInv, Bound, PendingSound, GoneSound, InFlight
<1>10. QED
  BY <1>3, <1>5, <1>7, <1>8, <1>9 DEF Bound

LEMMA FailureOwns ==
  ASSUME OwnInv, NEW o \in Ids, OperationFails(o)
  PROVE  Bound'
<1>1. /\ ops[o].end = "running" /\ ops[o] \in Ops /\ UNCHANGED <<cr, st, pc, job, lost, res>>
      /\ ops'[o] = [ops[o] EXCEPT !.end = "failed"]
      /\ \A q \in Ids : q # o => ops'[q] = ops[q]
  BY DEF OperationFails, OwnInv, ContractInv, TrackInv, Inv, TypeOK
<1>2. /\ \A q \in Ids : ops'[q].act = ops[q].act /\ ops'[q].target = ops[q].target
      /\ \A q \in Ids : ops'[q].end = IF q = o THEN "failed" ELSE ops[q].end
      /\ Live' = Live /\ \A q : Hangs(q)' <=> Hangs(q)
  BY <1>1 DEF Ops, Hangs, Live
<1>3. \A r : Made(r)' <=> Made(r)
  BY <1>1, <1>2 DEF Made
<1>4. Importing' <=> Importing
  BY <1>1 DEF Importing, Identified
<1>5. IdentitySound'
  BY <1>1, <1>2, <1>3, <1>4 DEF OwnInv, Bound, IdentitySound, Identified, InFlight
<1>6. Known' /\ PendingSound' /\ GoneSound'
  BY <1>1, <1>2, <1>4 DEF OwnInv, Bound, Known, PendingSound, GoneSound, InFlight
<1>7. QED
  BY <1>5, <1>6 DEF Bound

(***************************************************************************)
(* An edit keeps the name and the marks; a vanished resource and a dead    *)
(* worker only leave less to know about.                                   *)
(***************************************************************************)
LEMMA EnvironmentOwns ==
  ASSUME OwnInv, Environment
  PROVE  Bound' /\ AbsentAtStep' /\ FailedAtStep'
<1>1. cr \in CRs /\ st \in Statuses
  BY DEF OwnInv, ContractInv, TrackInv, Inv, TypeOK
<1>2. CASE Abort
  <2>1. /\ UNCHANGED <<cr, st, ops, res>> /\ pc # "idle" /\ pc' = "idle"
        /\ lost' = lost \cup InHand
    BY <1>2 DEF Abort, Return, Remote
  <2>2. Live' = Live /\ \A o \in Ids : Hangs(o)' => Hangs(o)
    BY <2>1 DEF Live, Hangs
  <2>3. \A o \in Ids : Hangs(o) => Hangs(o)' \/ o \in lost'
    BY <2>1 DEF Hangs, InHand
  <2>4. Bound'
    BY <2>1, <2>2, <2>3, Kept
  <2>5. QED
    BY <2>1, <2>4 DEF AbsentAtStep, FailedAtStep
<1>3. CASE EditSpec \/ Delete \/ DeadlinePasses
  <2>1. /\ UNCHANGED <<pc, job, ops, res, lost>> /\ st'.externalRef = st.externalRef
        /\ st'.anchor = st.anchor /\ cr'.name = cr.name /\ cr'.gone = cr.gone
    BY <1>1, <1>3 DEF EditSpec, Delete, DeadlinePasses, Remote, History, CRs, Statuses
  <2>2. Live' = Live /\ \A o : Hangs(o)' <=> Hangs(o)
    BY <2>1 DEF Live, Hangs
  <2>3. Bound'
    BY <2>1, <2>2, Kept
  <2>4. QED
    BY <2>1, <2>2, <2>3 DEF OwnInv, AbsentAtStep, FailedAtStep, InFlight
<1>4. ASSUME NEW o \in Ids, OperationSucceeds(o)
      PROVE  Bound' /\ AbsentAtStep' /\ FailedAtStep'
  <2>1. /\ UNCHANGED <<st, pc, job>> /\ ops[o].end = "running"
        /\ \A q \in Ids : q # o => ops'[q] = ops[q]
        /\ st.anchor \notin Ids => ops'[st.anchor] = ops[st.anchor]
    BY <1>4 DEF OperationSucceeds, History, OwnInv, ContractInv, TrackInv, Inv, TypeOK
  <2>2. AbsentAtStep'
    BY <1>4, <2>1, SuccessOwns DEF OwnInv, AbsentAtStep, InFlight
  <2>3. FailedAtStep'
    BY <1>1, <2>1 DEF OwnInv, FailedAtStep, Statuses
  <2>4. QED
    BY <1>4, <2>2, <2>3, SuccessOwns
<1>5. ASSUME NEW o \in Ids, OperationFails(o)
      PROVE  Bound' /\ AbsentAtStep' /\ FailedAtStep'
  <2>1. /\ UNCHANGED <<st, pc, job, res>> /\ ops[o].end = "running"
        /\ \A q \in Ids : q # o => ops'[q] = ops[q]
        /\ st.anchor \notin Ids => ops'[st.anchor] = ops[st.anchor]
    BY <1>5 DEF OperationFails, OwnInv, ContractInv, TrackInv, Inv, TypeOK
  <2>2. AbsentAtStep'
    BY <2>1 DEF OwnInv, AbsentAtStep, InFlight, Live
  <2>3. FailedAtStep'
    BY <1>1, <2>1 DEF OwnInv, FailedAtStep, Statuses
  <2>4. QED
    BY <1>5, <2>2, <2>3, FailureOwns
<1>6. ASSUME NEW r \in Ids, Vanishes(r)
      PROVE  Bound' /\ AbsentAtStep' /\ FailedAtStep'
  <2>1. UNCHANGED <<cr, st, pc, job, ops, lost>>
    BY <1>6 DEF Vanishes
  <2>2. Live' \subseteq Live /\ \A o : Hangs(o)' <=> Hangs(o)
    BY <1>6, <2>1 DEF Vanishes, Live, Hangs, OwnInv, ContractInv, TrackInv, Inv, TypeOK
  <2>3. Bound'
    BY <2>1, <2>2, Kept
  <2>4. QED
    BY <2>1, <2>2, <2>3 DEF OwnInv, AbsentAtStep, FailedAtStep, InFlight
<1>7. QED
  BY <1>2, <1>3, <1>4, <1>5, <1>6 DEF Environment

-----------------------------------------------------------------------------
LEMMA InitOwns == ASSUME Keyed PROVE Init => Bound /\ AbsentAtStep /\ FailedAtStep
<1> SUFFICES ASSUME Init PROVE Bound /\ AbsentAtStep /\ FailedAtStep
  OBVIOUS
<1>1. PICK spec \in Specs, name \in Imports : Init!(spec, name)
  BY DEF Init
<1>2. /\ name \in Ids \cup {None} /\ cr.name = name /\ cr.gone = FALSE /\ pc = "idle"
      /\ st.anchor = None /\ st.externalRef = None /\ lost = {}
  BY <1>1, ConstantsAssumption DEF Ids, None
<1>3. /\ Live \subseteq {name}
      /\ \A o \in Ids : ops[o].end = IF o = name THEN "succeeded" ELSE "unused"
      /\ name \in Ids => ops[name].act = "CREATE" /\ ops[name].target = name
  BY <1>1 DEF Live, Unused
<1>4. \A o \in Ids : ~Hangs(o)
  BY <1>2 DEF Hangs, Ids, None
<1>5. name # None => name \in Ids /\ Made(name) /\ Importing
  BY <1>2, <1>3 DEF Made, Importing, Identified
<1>6. Live \subseteq Ids
  BY DEF Live
<1>7. IdentitySound
  BY <1>2, <1>3, <1>5, <1>6, NoneIsNotLive DEF IdentitySound, Identified, InFlight
<1>8. Known
  BY <1>2, <1>3, <1>5, NoneIsNotLive DEF Known
<1>9. QED
  BY <1>2, <1>4, <1>7, <1>8 DEF Bound, PendingSound, GoneSound, AbsentAtStep, FailedAtStep

LEMMA OwnInvariance == ASSUME Keyed PROVE Spec => []OwnInv
<1>1. PolledOnly
  BY DEF Keyed
<1>2. OwnInv /\ [Next]_vars => Bound' /\ AbsentAtStep' /\ FailedAtStep'
  <2> SUFFICES ASSUME OwnInv, [Next]_vars PROVE Bound' /\ AbsentAtStep' /\ FailedAtStep'
    OBVIOUS
  <2>1. CASE UNCHANGED vars
    <3>1. Live' = Live /\ (\A o : Hangs(o)' <=> Hangs(o)) /\ (InFlight' <=> InFlight)
      BY <2>1 DEF vars, Live, Hangs, InFlight
    <3>2. Bound'
      BY <2>1, <3>1, Kept DEF vars
    <3>3. QED
      BY <2>1, <3>1, <3>2 DEF vars, OwnInv, AbsentAtStep, FailedAtStep
  <2>2. CASE Next
    BY <2>2, ObserveOwns, ManageOwns, MutateOwns, PollOwns, EnvironmentOwns DEF Next
  <2>3. QED
    BY <2>1, <2>2
<1>3. QED
  BY <1>1, <1>2, InitOwns, ContractInvariance, PTL DEF Spec, OwnInv

(***************************************************************************)
(* The controller has at most one remote resource, existing or on its way: *)
(* whatever crashes, lost writes, edits and resumes come between, Create   *)
(* is not fired while an earlier one left something (observe.go:122-193,   *)
(* deployaction.go:40-49).  A call whose answer was lost is not counted.   *)
(***************************************************************************)
THEOREM NoDuplicateHolds == ASSUME Keyed PROVE Spec => []NoDuplicate
<1>1. OwnInv => NoDuplicate
  <2> SUFFICES ASSUME OwnInv, NEW r \in Owned, NEW q \in Owned PROVE r = q
    BY DEF NoDuplicate
  <2>1. \A o \in Running \ lost : Hangs(o)
    BY DEF OwnInv, ContractInv, TrackInv, OperationsTracked, InHand, EndedAtStep, Hangs
  <2>2. \A o \in Owned :
          /\ o \in Ids /\ ops[o].act = "CREATE"
          /\ Hangs(o) \/ (o \in Live /\ o = st.externalRef)
                      \/ (Importing /\ o = cr.name)
    BY <2>1 DEF Owned, Live, Running, OwnInv, Bound, Known, IdentitySound, Made
  <2>3. \A o \in Owned : Hangs(o) => st.externalRef \notin Live /\ ~Importing
    BY <2>2 DEF OwnInv, Bound, PendingSound, IdentitySound, Hangs, InFlight, Ids, None
  <2>4. Importing => st.externalRef \notin Live
    BY NoneIsNotLive DEF Importing, Identified
  <2>5. CASE Hangs(r) /\ Hangs(q)
    BY <2>2, <2>5, OnePending DEF Ids, None
  <2>6. CASE ~(Hangs(r) /\ Hangs(q))
    BY <2>2, <2>3, <2>4, <2>6
  <2>7. QED
    BY <2>5, <2>6
<1>2. QED
  BY <1>1, OwnInvariance, PTL

(***************************************************************************)
(* When the finalizer is gone, nothing of the object is left at the remote *)
(* API, neither a resource nor an operation that could still make one      *)
(* (observe.go:122-193), other than through a lost answer.                 *)
(***************************************************************************)
THEOREM NothingOrphanedHolds == ASSUME Keyed PROVE Spec => []NothingOrphaned
<1>1. OwnInv => NothingOrphaned
  <2> SUFFICES ASSUME OwnInv, cr.gone PROVE Owned = {} /\ Running \subseteq lost
    BY DEF NothingOrphaned
  <2>1. pc = "idle" /\ ~InFlight /\ st.externalRef \notin Live /\ ~Importing
    BY DEF OwnInv, ContractInv, LetGo, Bound, GoneSound, IdentitySound
  <2>2. \A o \in Ids : ~Hangs(o)
    BY <2>1, NothingPending
  <2>3. Running \subseteq lost
    BY <2>1, <2>2 DEF OwnInv, ContractInv, TrackInv, OperationsTracked, InHand, Hangs, Running
  <2>4. Live \subseteq lost
    BY <2>1, <2>2 DEF OwnInv, Bound, Known, Live
  <2>5. QED
    BY <2>3, <2>4 DEF Owned
<1>2. QED
  BY <1>1, OwnInvariance, PTL

(***************************************************************************)
(* The identity changes only when it named nothing, or nothing any more:   *)
(* when the annotation is seeded and when a CREATE is settled              *)
(* (request.go:281-296, deployaction.go:392-427).                          *)
(***************************************************************************)
THEOREM IdentityIsStable == ASSUME Keyed PROVE Spec => IdentityStable
<1>1. OwnInv /\ [Next]_vars
        => [st'.externalRef # st.externalRef =>
              (cr.spec.url # "externalRef" \/ st.externalRef \notin Live)]_vars
  <2> SUFFICES ASSUME OwnInv, Next, st'.externalRef # st.externalRef
               PROVE  st.externalRef \notin Live
    OBVIOUS
  <2>1. st \in Statuses
    BY DEF OwnInv, ContractInv, TrackInv, Inv, TypeOK
  <2>2. StartReconcile \/ FinishOperation
    <3>1. ~(Manage \/ Environment)
      BY <2>1 DEF Manage, DropFinalizer, MarkCreatePending, Conflict, ActOnPresent,
         EnterDeploy, Environment, Abort, EditSpec, Delete, DeadlinePasses, OperationSucceeds,
         OperationFails, Vanishes, Statuses
    <3>2. ~Mutate
      BY <2>1 DEF Mutate, FireAccepted, FireAnswerLost, Accept, FireRefused, RecordRefusal,
         ExtractExternalRef, ExtractionFails, RecordResponse, PersistAnchor, Statuses, OwnInv,
         ContractInv, TrackInv, EndedAtStep
    <3>3. Observe => StartReconcile
      BY <2>1 DEF Observe, ObserveAbandons, ObserveStalls, ClearTerminalError,
         ObserveResumesCreate, ObserveInFlight, ObserveRejectsIdentity, ObserveUnidentified,
         ObserveCall, ObserveReport, Statuses
    <3>4. Poll => FinishOperation
      BY <2>1 DEF Poll, RestartClock, PollWithoutBlock, PollBadURL, PollTimeout, PollGet,
         PollBudgetSpent, RecordOperationFailure, ReleaseAnchor, SetTerminalFailure, Statuses
    <3>5. QED
      BY <3>1, <3>2, <3>3, <3>4 DEF Next
  <2>3. CASE StartReconcile
    BY <2>1, <2>3, NoneIsNotLive DEF StartReconcile, Seeded, Statuses
  <2>4. QED
    BY <2>2, <2>3, FinishOwns
<1>2. QED
  BY <1>1, OwnInvariance, PTL DEF Spec, IdentityStable
=============================================================================
