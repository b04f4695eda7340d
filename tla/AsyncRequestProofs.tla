------------------------- MODULE AsyncRequestProofs -------------------------
(***************************************************************************)
(* What holds of AsyncRequest for every set of specs and every bound.      *)
(***************************************************************************)
EXTENDS AsyncRequest, TLAPS

(***************************************************************************)
(* The strengthening: what the position of the worker tells of the status  *)
(* it left behind and of the job it carries.                               *)
(***************************************************************************)
AnchorAtStep ==
  /\ pc \in {"deploy", "fire"} => job.act \in Actions
  /\ pc \in {"externalRef", "response", "anchor"} => job.op \in Ids
  /\ pc \in {"fire", "refused", "externalRef", "response", "anchor"} => ~InFlight
  /\ pc \in {"restart", "poll", "wait", "finish", "failed", "release"} => InFlight
  /\ pc \in {"poll", "wait"} => st.started # "nil"

(* A verdict stands only while the worker is at rest, looks at it, or is   *)
(* about to drop the finalizer; one in the making carries its policy.      *)
VerdictAtStep ==
  /\ Terminal => pc \in {"idle", "observe"} \/ (pc = "absent" /\ seen.deleted)
  /\ pc = "terminal" /\ job.cause \in {"timeout", "url"} => ~job.clear /\ InFlight
  /\ pc = "terminal" /\ job.cause = "operation" => job.clear

Inv == TypeOK /\ AnchorAtStep /\ VerdictAtStep /\ AnchorPolicy

(* Every mapping that exists is polled.                                    *)
PolledOnly == \A s \in Specs, a \in Actions : s.mapping[a] # "sync"

(* An anchor is given up only for an operation that has ended.             *)
EndedAtStep ==
  /\ pc \in {"fire", "anchor", "refused"} \cup
            {"restart", "poll", "wait", "finish", "failed", "release"}
       => job.kind = "poll"
  /\ pc \notin {"externalRef", "response"}
  /\ pc \in {"finish", "failed", "release"} => ops[st.anchor].end # "running"
  /\ pc = "terminal" /\ job.clear => InFlight /\ ops[st.anchor].end # "running"

TrackInv == Inv /\ EndedAtStep /\ OperationsTracked

-----------------------------------------------------------------------------
(***************************************************************************)
(* Every spec a user may write is a well-formed record.                    *)
(***************************************************************************)
LEMMA SpecType ==
  ASSUME NEW s \in Specs
  PROVE  /\ s.url \in {"externalRef", "response", "constant"}
         /\ \A a \in Actions : s.mapping[a] \in Kinds
         /\ s.pollURL \in URLs /\ s.pollError \in BOOLEAN
         /\ s.externalRef \in BOOLEAN /\ s.isTerminal \in BOOLEAN
         /\ s.custom \in SUBSET Checks /\ s.payload \in Payloads
BY ConstantsAssumption DEF SpecRecords

(***************************************************************************)
(* The initial states, import included, satisfy the invariant.             *)
(***************************************************************************)
LEMMA InitInv == Init => Inv
<1> SUFFICES ASSUME NEW spec \in Specs, NEW name \in Imports, Init!(spec, name)
             PROVE  Inv
  BY DEF Init
<1>1. name \in Ids \cup {None} /\ spec.payload \in Payloads
  BY ConstantsAssumption, SpecType DEF Ids, None
<1>2. cr \in CRs
  BY <1>1 DEF CRs
<1>3. st \in Statuses
  BY DEF Statuses, Causes, None
<1>4. ops \in [Ids -> Ops] /\ res \in [Ids -> Payloads \cup {Absent}]
  BY <1>1 DEF Ops, Unused, Actions
<1>5. TypeOK
  BY <1>2, <1>3, <1>4 DEF TypeOK, PCs, Unread, Jobs, NoJob, Kinds, URLs, Causes, None
<1>6. QED
  BY <1>5 DEF Inv, AnchorAtStep, VerdictAtStep, AnchorPolicy, Terminal

(***************************************************************************)
(* A check answers yes or no.                                              *)
(***************************************************************************)
LEMMA UpToDateIsBoolean ==
  ASSUME NEW s, NEW code, NEW synced \in UpToDateCheck(s, code)
  PROVE  synced \in BOOLEAN
<1>1. CASE "upToDate" \in s.custom
  BY <1>1 DEF UpToDateCheck, CustomCheck, AsDesired
<1>2. CASE "upToDate" \notin s.custom
  BY <1>2 DEF UpToDateCheck
<1>3. QED
  BY <1>1, <1>2

(***************************************************************************)
(* Observe keeps the invariant.                                            *)
(***************************************************************************)
LEMMA ObserveInv == Inv /\ Observe => Inv'
<1> SUFFICES ASSUME Inv, Observe PROVE Inv'
  OBVIOUS
<1> USE DEF Inv, AnchorAtStep, VerdictAtStep, AnchorPolicy, Terminal, InFlight,
        Identified, GoTo, Return, Refresh, Remote, History, None
<1>1. CASE StartReconcile
  BY <1>1 DEF StartReconcile, Seeded, TypeOK, CRs, Statuses, Causes, PCs
<1>2. CASE ObserveAbandons
  BY <1>2 DEF ObserveAbandons, Abandonable, TypeOK, PCs
<1>3. CASE ObserveStalls
  BY <1>3 DEF ObserveStalls, TypeOK, PCs, Unread, Jobs, NoJob, Kinds, URLs, Causes
<1>4. CASE ClearTerminalError
  BY <1>4 DEF ClearTerminalError, TypeOK, Statuses, Causes
<1>5. CASE ObserveResumesCreate
  BY <1>5 DEF ObserveResumesCreate, TypeOK, PCs
<1>6. CASE ObserveInFlight
  BY <1>6 DEF ObserveInFlight, TypeOK, PCs
<1>7. CASE ObserveRejectsIdentity
  <2>1. /\ pc = "observe" /\ pc' = "terminal" /\ ~Terminal /\ ~InFlight
        /\ job' = [job EXCEPT !.cause = "identity", !.clear = FALSE, !.gen = seen.gen]
        /\ UNCHANGED <<cr, st, seen, ops, res, lost, judged, faults>>
    BY <1>7 DEF ObserveRejectsIdentity, Settled, Convict
  <2>2. job' \in Jobs /\ job'.cause = "identity"
    BY <2>1 DEF TypeOK, CRs, Jobs, Causes
  <2>3. QED
    BY <2>1, <2>2 DEF TypeOK, PCs
<1>8. CASE ObserveUnidentified
  <2>1. /\ pc = "observe" /\ ~Terminal /\ ~InFlight
        /\ UNCHANGED <<cr, st, ops, res, lost, judged, faults>>
        /\ Return \/ (GoTo("absent") /\ UNCHANGED seen)
    BY <1>8, Zenon DEF ObserveUnidentified, Settled
  <2>2. CASE Return
    BY <2>1, <2>2 DEF TypeOK, PCs, Unread, Jobs, NoJob, Kinds, URLs, Causes
  <2>3. CASE GoTo("absent") /\ UNCHANGED seen
    BY <2>1, <2>3 DEF TypeOK, PCs
  <2>4. QED
    BY <2>1, <2>2, <2>3
<1>9. CASE ObserveCall
  <2>1. /\ pc = "observe" /\ ~Terminal /\ ~InFlight
        /\ UNCHANGED <<cr, st, ops, res, lost, judged>>
        /\ faults' = faults \/ Fault
    BY <1>9 DEF ObserveCall, Settled
  <2> DEFINE FailedPost(code) == "OBSERVE" \in seen.spec.posts /\ code # "2xx"
  <2>2. PICK code : \E synced \in UpToDateCheck(seen.spec, code) :
               \/ GoTo("absent") /\ UNCHANGED seen
               \/ Return
               \/ Convict("stuck", FALSE, seen.gen) /\ UNCHANGED seen
               \/ /\ pc' = "report" /\ UNCHANGED seen
                  /\ job' = [job EXCEPT !.synced = synced, !.op = Answered(seen.spec),
                                        !.post = FailedPost(code)]
    BY <1>9, ZenonT(60) DEF ObserveCall
  <2>3. CASE GoTo("absent") /\ UNCHANGED seen
    BY <2>1, <2>3 DEF TypeOK, PCs, Fault
  <2>4. CASE Return
    BY <2>1, <2>4 DEF TypeOK, PCs, Unread, Jobs, NoJob, Kinds, URLs, Causes, Fault
  <2>5. CASE Convict("stuck", FALSE, seen.gen) /\ UNCHANGED seen
    <3>1. seen.gen \in Nat
      BY <2>1 DEF TypeOK, CRs
    <3>2. job' \in Jobs /\ job'.cause = "stuck" /\ pc' = "terminal"
      BY <2>5, <3>1 DEF Convict, TypeOK, Jobs, Causes
    <3>3. QED
      BY <2>1, <2>5, <3>2 DEF TypeOK, PCs, Fault
  <2>6. ASSUME NEW synced \in UpToDateCheck(seen.spec, code),
               pc' = "report", UNCHANGED seen,
               job' = [job EXCEPT !.synced = synced, !.op = Answered(seen.spec),
                                  !.post = FailedPost(code)]
        PROVE  Inv'
    <3>1. synced \in BOOLEAN /\ FailedPost(code) \in BOOLEAN
      BY <2>6, UpToDateIsBoolean
    <3> HIDE DEF FailedPost
    <3>2. job' \in Jobs
      BY <2>6, <3>1 DEF TypeOK, Jobs, Answered, IsLive, Live
    <3>3. QED
      BY <2>1, <2>6, <3>2 DEF TypeOK, PCs, Fault
  <2>7. QED
    BY <2>2, <2>3, <2>4, <2>5, <2>6
<1>10. CASE ObserveReport
  BY <1>10 DEF ObserveReport, TypeOK, PCs, Statuses, Jobs
<1>11. QED
  BY <1>1, <1>2, <1>3, <1>4, <1>5, <1>6, <1>7, <1>8, <1>9, <1>10 DEF Observe

(***************************************************************************)
(* The managed reconciler keeps the invariant.                             *)
(***************************************************************************)
LEMMA ManageInv == Inv /\ Manage => Inv'
<1> SUFFICES ASSUME Inv, Manage PROVE Inv'
  OBVIOUS
<1> USE DEF Inv, AnchorAtStep, VerdictAtStep, AnchorPolicy, Terminal, InFlight,
        Identified, GoTo, Return, Refresh, Remote, History, None
<1>1. CASE DropFinalizer
  BY <1>1 DEF DropFinalizer, TypeOK, CRs, PCs, Unread, Jobs, NoJob, Kinds, URLs, Causes
<1>2. CASE MarkCreatePending
  BY <1>2 DEF MarkCreatePending, TypeOK, PCs, Jobs, Actions
<1>3. CASE Conflict
  BY <1>3 DEF Conflict, TypeOK, PCs, Unread, Jobs, NoJob, Kinds, URLs, Causes
<1>4. CASE ActOnPresent
  <2>1. pc = "present" /\ UNCHANGED <<cr, st, ops, res, lost, judged, faults>>
    BY <1>4 DEF ActOnPresent
  <2>2. CASE Return
    BY <2>1, <2>2 DEF TypeOK, PCs, Unread, Jobs, NoJob, Kinds, URLs, Causes
  <2>3. ASSUME NEW act \in {"REMOVE", "UPDATE"}, pc' = "deploy", UNCHANGED seen,
               job' = [job EXCEPT !.act = act]
        PROVE  Inv'
    BY <2>1, <2>3 DEF TypeOK, PCs, Jobs, Actions
  <2>4. QED
    BY <1>4, <2>2, <2>3 DEF ActOnPresent
<1>5. CASE EnterDeploy
  <2>1. pc = "deploy" /\ UNCHANGED <<cr, st, ops, res, lost, judged, faults>>
    BY <1>5 DEF EnterDeploy
  <2>2. CASE Return
    BY <2>1, <2>2 DEF TypeOK, PCs, Unread, Jobs, NoJob, Kinds, URLs, Causes
  <2>3. CASE /\ Refresh /\ pc' = DeployStep
             /\ job' = [NoJob EXCEPT !.act = DeployedAction,
                                     !.kind = cr.spec.mapping[DeployedAction], !.gen = cr.gen,
                                     !.post = DeployedAction \in cr.spec.posts,
                                     !.pollURL = cr.spec.pollURL,
                                     !.pollError = cr.spec.pollError]
    <3>1. DeployedAction \in Actions
      BY <2>1 DEF DeployedAction, Actions
    <3>2. cr.spec \in Specs /\ cr.gen \in Nat
      BY DEF TypeOK, CRs
    <3>3. /\ cr.spec.mapping[DeployedAction] \in Kinds
          /\ cr.spec.pollURL \in URLs /\ cr.spec.pollError \in BOOLEAN
      BY <3>1, <3>2, SpecType
    <3>4. NoJob \in Jobs
      BY DEF NoJob, Jobs, Kinds, URLs, Causes
    <3>5. ASSUME NEW b \in BOOLEAN
          PROVE  [NoJob EXCEPT !.act = DeployedAction,
                               !.kind = cr.spec.mapping[DeployedAction], !.gen = cr.gen,
                               !.post = b,
                               !.pollURL = cr.spec.pollURL,
                               !.pollError = cr.spec.pollError] \in Jobs
      BY <3>1, <3>2, <3>3, <3>4 DEF Jobs
    <3>6. job' \in Jobs /\ job'.act \in Actions
      <4> DEFINE b == DeployedAction \in cr.spec.posts
      <4>1. b \in BOOLEAN
        OBVIOUS
      <4> HIDE DEF b
      <4>2. job' = [NoJob EXCEPT !.act = DeployedAction,
                                 !.kind = cr.spec.mapping[DeployedAction], !.gen = cr.gen,
                                 !.post = b,
                                 !.pollURL = cr.spec.pollURL,
                                 !.pollError = cr.spec.pollError]
        BY <2>3 DEF b
      <4>3. job' \in Jobs
        BY <3>5, <4>1, <4>2
      <4>4. QED
        BY <3>1, <3>4, <4>2, <4>3 DEF Jobs
    <3>7. QED
      BY <2>1, <2>3, <3>6 DEF DeployStep, TypeOK, PCs
  <2>4. QED
    BY <1>5, <2>2, <2>3 DEF EnterDeploy
<1>6. QED
  BY <1>1, <1>2, <1>3, <1>4, <1>5 DEF Manage

(***************************************************************************)
(* A call that the remote API accepts makes a well-formed operation on a   *)
(* resource it can address (deployaction.go:50-104).                       *)
(***************************************************************************)
LEMMA AcceptType ==
  ASSUME Inv, NEW o \in Ids, Accept(o)
  PROVE  ops' \in [Ids -> Ops] /\ res' \in [Ids -> Payloads \cup {Absent}]
<1>1. TargetOf(job.act, o) \in Ids
  BY DEF Accept, CanTarget, TargetOf, IsLive, Live
<1>2. seen.spec.payload \in Payloads /\ job.act \in Actions
  BY SpecType DEF Accept, Inv, TypeOK, CRs, AnchorAtStep
<1>3. ops' \in [Ids -> Ops]
  BY <1>1, <1>2 DEF Accept, Inv, TypeOK, Ops
<1>4. res' \in [Ids -> Payloads \cup {Absent}]
  BY <1>2 DEF Accept, Effect, Inv, TypeOK
<1>5. QED
  BY <1>3, <1>4

(***************************************************************************)
(* The mutating call and the writes after it keep the invariant.           *)
(***************************************************************************)
LEMMA MutateInv == Inv /\ Mutate => Inv'
<1> SUFFICES ASSUME Inv, Mutate PROVE Inv'
  OBVIOUS
<1> USE DEF Inv, AnchorAtStep, VerdictAtStep, AnchorPolicy, Terminal, InFlight,
        Identified, GoTo, Return, Refresh, Remote, History, None
<1>1. CASE FireAccepted
  <2>1. PICK o \in Ids : /\ Accept(o)
                         /\ pc' = IF job.kind = "poll" THEN "anchor" ELSE "externalRef"
                         /\ job' = [job EXCEPT !.op = o]
                         /\ UNCHANGED <<seen, lost, faults>>
    BY <1>1 DEF FireAccepted
  <2>2. /\ pc = "fire" /\ UNCHANGED <<cr, st, judged>>
        /\ ops' \in [Ids -> Ops] /\ res' \in [Ids -> Payloads \cup {Absent}]
    BY <2>1, AcceptType DEF Accept
  <2>3. QED
    BY <2>1, <2>2 DEF TypeOK, PCs, Jobs
<1>2. CASE FireAnswerLost
  <2>1. PICK o \in Ids : Accept(o) /\ lost' = lost \cup {o} /\ Fault /\ Return
    BY <1>2 DEF FireAnswerLost
  <2>2. /\ pc = "fire" /\ UNCHANGED <<cr, st, judged>>
        /\ ops' \in [Ids -> Ops] /\ res' \in [Ids -> Payloads \cup {Absent}]
    BY <2>1, AcceptType DEF Accept
  <2>3. QED
    BY <2>1, <2>2 DEF TypeOK, PCs, Unread, Jobs, NoJob, Kinds, URLs, Causes, Fault
<1>3. CASE FireRefused
  BY <1>3 DEF FireRefused, TypeOK, PCs, Fault
<1>4. CASE RecordRefusal
  <2>1. /\ pc = "refused" /\ st' = [st EXCEPT !.created = ~job.post]
        /\ UNCHANGED <<cr, ops, res, lost, judged, faults>>
    BY <1>4 DEF RecordRefusal
  <2>2. st' \in Statuses
    BY <2>1 DEF TypeOK, Statuses
  <2>3. CASE Return
    BY <2>1, <2>2, <2>3 DEF TypeOK, PCs, Unread, Jobs, NoJob, Kinds, URLs, Causes, Statuses
  <2>4. CASE Convict("mutate", FALSE, cr.gen) /\ Refresh
    <3>1. job' \in Jobs /\ job'.cause = "mutate" /\ pc' = "terminal"
      BY <2>4 DEF Convict, TypeOK, CRs, Jobs, Causes
    <3>2. QED
      BY <2>1, <2>2, <2>4, <3>1 DEF TypeOK, PCs, Statuses
  <2>5. QED
    BY <1>4, <2>3, <2>4 DEF RecordRefusal, Classify
<1>5. CASE ExtractExternalRef \/ ExtractionFails
  <2>1. CASE ExtractExternalRef
    BY <2>1 DEF ExtractExternalRef, TypeOK, PCs, Statuses, Ops
  <2>2. CASE ExtractionFails
    BY <2>2 DEF ExtractionFails, Fault, TypeOK, PCs
  <2>3. QED
    BY <1>5, <2>1, <2>2
<1>6. CASE RecordResponse
  BY <1>6 DEF RecordResponse, TypeOK, PCs, Statuses, Ops, Unread, Jobs, NoJob, Kinds, URLs, Causes
<1>7. CASE PersistAnchor
  <2>1. /\ pc = "anchor" /\ pc' = "poll" /\ seen' = cr /\ job' = [job EXCEPT !.op = 0]
        /\ UNCHANGED <<cr, ops, res, lost, judged, faults>>
    BY <1>7 DEF PersistAnchor
  <2>2. st' \in Statuses /\ st'.anchor \in Ids /\ st'.started # "nil" /\ st'.terminal = st.terminal
    BY <1>7 DEF PersistAnchor, TypeOK, Statuses
  <2>3. job' \in Jobs
    BY <2>1 DEF TypeOK, Jobs
  <2>4. QED
    BY <2>1, <2>2, <2>3 DEF TypeOK, PCs, Ids
<1>8. QED
  BY <1>1, <1>2, <1>3, <1>4, <1>5, <1>6, <1>7 DEF Mutate

(***************************************************************************)
(* The poll loop and its outcomes keep the invariant.                      *)
(***************************************************************************)
LEMMA PollInv == Inv /\ Poll => Inv'
<1> SUFFICES ASSUME Inv, Poll PROVE Inv'
  OBVIOUS
<1> USE DEF Inv, AnchorAtStep, VerdictAtStep, AnchorPolicy, Terminal, InFlight,
        Identified, GoTo, Return, Refresh, Remote, History, None
<1>1. CASE RestartClock
  BY <1>1 DEF RestartClock, TypeOK, PCs, Statuses
<1>2. CASE PollWithoutBlock
  BY <1>2 DEF PollWithoutBlock, TypeOK, PCs
<1>3. CASE PollBadURL
  <2>1. job' \in Jobs /\ job'.cause = "url" /\ ~job'.clear /\ pc' = "terminal"
    BY <1>3 DEF PollBadURL, Convict, TypeOK, Jobs, Causes
  <2>2. QED
    BY <1>3, <2>1 DEF PollBadURL, TypeOK, PCs
<1>4. CASE PollTimeout
  <2>1. job' \in Jobs /\ job'.cause = "timeout" /\ ~job'.clear /\ pc' = "terminal"
    BY <1>4 DEF PollTimeout, Convict, TypeOK, Jobs, Causes
  <2>2. QED
    BY <1>4, <2>1 DEF PollTimeout, Polling, TypeOK, PCs
<1>5. CASE PollGet
  BY <1>5 DEF PollGet, Polling, TypeOK, PCs
<1>6. CASE PollBudgetSpent
  BY <1>6 DEF PollBudgetSpent, TypeOK, PCs, Unread, Jobs, NoJob, Kinds, URLs, Causes
<1>7. CASE FinishOperation
  <2>1. st' \in Statuses /\ st'.terminal = st.terminal
    BY <1>7 DEF FinishOperation, TypeOK, Statuses, Ops
  <2>2. QED
    BY <1>7, <2>1 DEF FinishOperation, TypeOK, PCs, Unread, Jobs, NoJob, Kinds, URLs, Causes
<1>8. CASE RecordOperationFailure
  <2>1. /\ pc = "failed" /\ UNCHANGED <<cr, ops, res, lost, judged, faults>>
        /\ \E httpError \in BOOLEAN : st' = [st EXCEPT !.created = ~httpError]
    BY <1>8 DEF RecordOperationFailure
  <2>2. /\ st' \in Statuses /\ st'.anchor = st.anchor
        /\ st'.terminal = st.terminal /\ st'.started = st.started
    BY <2>1 DEF TypeOK, Statuses
  <2>3. CASE GoTo("release") /\ Refresh
    BY <2>1, <2>2, <2>3 DEF TypeOK, PCs
  <2>4. CASE Convict("operation", TRUE, cr.gen) /\ Refresh
    <3>1. job' \in Jobs /\ job'.cause = "operation" /\ job'.clear /\ pc' = "terminal"
      BY <2>4 DEF Convict, TypeOK, CRs, Jobs, Causes
    <3>2. QED
      BY <2>1, <2>2, <2>4, <3>1 DEF TypeOK, PCs
  <2>5. QED
    BY <1>8, <2>3, <2>4 DEF RecordOperationFailure, Classify
<1>9. CASE ReleaseAnchor
  BY <1>9 DEF ReleaseAnchor, TypeOK, PCs, Statuses, Unread, Jobs, NoJob, Kinds, URLs, Causes
<1>10. CASE SetTerminalFailure
  <2>1. st' \in Statuses /\ judged' \in Nat
    BY <1>10 DEF SetTerminalFailure, TypeOK, CRs, Statuses, Jobs
  <2>2. AnchorPolicy'
    BY <1>10 DEF SetTerminalFailure, TypeOK, Statuses, Jobs
  <2>3. QED
    BY <1>10, <2>1, <2>2 DEF SetTerminalFailure, TypeOK, PCs, Unread, Jobs, NoJob, Kinds, URLs, Causes
<1>11. QED
  BY <1>1, <1>2, <1>3, <1>4, <1>5, <1>6, <1>7, <1>8, <1>9, <1>10 DEF Poll

(***************************************************************************)
(* An edit and a deletion mark leave a well-formed object.                 *)
(***************************************************************************)
LEMMA ObjectType ==
  ASSUME cr \in CRs
  PROVE  /\ EditSpec => cr' \in CRs
         /\ Delete => cr' \in CRs
<1>1. cr.gen \in Nat
  BY DEF CRs
<1>2. cr.gen + 1 \in Nat
  BY <1>1
<1>3. ASSUME NEW spec \in Specs
      PROVE  [cr EXCEPT !.spec = spec, !.gen = cr.gen + 1] \in CRs
  BY <1>2 DEF CRs
<1>4. [cr EXCEPT !.deleted = TRUE, !.gen = cr.gen + 1] \in CRs
  BY <1>2 DEF CRs
<1>5. QED
  BY <1>3, <1>4 DEF EditSpec, Delete

(***************************************************************************)
(* Nothing the environment does breaks the invariant, at any step of the   *)
(* worker.                                                                 *)
(***************************************************************************)
LEMMA EnvironmentInv == Inv /\ Environment => Inv'
<1> SUFFICES ASSUME Inv, Environment PROVE Inv'
  OBVIOUS
<1> USE DEF Inv, AnchorAtStep, VerdictAtStep, AnchorPolicy, Terminal, InFlight,
        Identified, GoTo, Return, Refresh, Remote, History, None
<1>1. CASE Abort
  <2>1. InHand \subseteq Ids
    BY DEF InHand, TypeOK
  <2>2. QED
    BY <1>1, <2>1 DEF Abort, Fault, TypeOK, PCs, Unread, Jobs, NoJob, Kinds, URLs, Causes
<1>2. CASE EditSpec
  <2>1. cr' \in CRs
    BY <1>2, ObjectType DEF TypeOK
  <2>2. QED
    BY <1>2, <2>1 DEF EditSpec, TypeOK
<1>3. CASE Delete
  <2>1. cr' \in CRs
    BY <1>3, ObjectType DEF TypeOK
  <2>2. QED
    BY <1>3, <2>1 DEF Delete, TypeOK
<1>4. CASE DeadlinePasses
  BY <1>4 DEF DeadlinePasses, TypeOK, Statuses
<1>5. ASSUME NEW o \in Ids, OperationSucceeds(o)
      PROVE  Inv'
  <2>1. ops' \in [Ids -> Ops]
    BY <1>5 DEF OperationSucceeds, TypeOK, Ops
  <2>2. res' \in [Ids -> Payloads \cup {Absent}]
    BY <1>5 DEF OperationSucceeds, Effect, TypeOK, Ops
  <2>3. QED
    BY <1>5, <2>1, <2>2 DEF OperationSucceeds, TypeOK
<1>6. ASSUME NEW o \in Ids, OperationFails(o)
      PROVE  Inv'
  BY <1>6 DEF OperationFails, Fault, TypeOK, Ops
<1>7. ASSUME NEW r \in Ids, Vanishes(r)
      PROVE  Inv'
  BY <1>7 DEF Vanishes, Fault, TypeOK
<1>8. QED
  BY <1>1, <1>2, <1>3, <1>4, <1>5, <1>6, <1>7 DEF Environment

(***************************************************************************)
(* The invariant is inductive.                                             *)
(***************************************************************************)
LEMMA NextInv == Inv /\ [Next]_vars => Inv'
<1>1. Inv /\ UNCHANGED vars => Inv'
  BY DEF vars, Inv, TypeOK, AnchorAtStep, VerdictAtStep, AnchorPolicy, Terminal, InFlight
<1>2. QED
  BY <1>1, ObserveInv, ManageInv, MutateInv, PollInv, EnvironmentInv DEF Next

(***************************************************************************)
(* Type correctness, and with it the four facts of the strengthening, in   *)
(* every reachable state.                                                  *)
(***************************************************************************)
THEOREM Invariance == Spec => []Inv
BY InitInv, NextInv, PTL DEF Spec

(***************************************************************************)
(* TypeOK is an invariant: no step, crash or interleaved edit leaves the   *)
(* stored object, its status or the job of the worker malformed.           *)
(***************************************************************************)
THEOREM TypeCorrect == Spec => []TypeOK
<1>1. Inv => TypeOK
  BY DEF Inv
<1>2. QED
  BY <1>1, Invariance, PTL

(***************************************************************************)
(* SetTerminalFailure keeps its anchor policy (poller.go:339-350) for      *)
(* every set of specs: no later step undoes it while the verdict stands.   *)
(***************************************************************************)
THEOREM AnchorPolicyHolds == Spec => []AnchorPolicy
<1>1. Inv => AnchorPolicy
  BY DEF Inv
<1>2. QED
  BY <1>1, Invariance, PTL

(***************************************************************************)
(* No GET of the poll loop is made without a stored start of the clock     *)
(* (deployaction.go:154-163).                                              *)
(***************************************************************************)
THEOREM ClockRuns == Spec => []PollsAgainstAClock
<1>1. Inv => PollsAgainstAClock
  BY DEF Inv, AnchorAtStep, PollsAgainstAClock, Polling
<1>2. QED
  BY <1>1, Invariance, PTL

(***************************************************************************)
(* A number leaves the pool of unused ones only by a mutating call, which  *)
(* DeployAction makes at one place (deployaction.go:50-104).               *)
(***************************************************************************)
LEMMA FiredAtFire == Inv /\ [Next]_vars /\ Fired => pc = "fire"
<1> SUFFICES ASSUME Inv, [Next]_vars, Fired PROVE pc = "fire"
  OBVIOUS
<1>1. ops' # ops
  BY DEF Fired
<1>2. PICK q \in Ids : ops[q].end = "unused" /\ ops'[q].end # "unused"
  BY DEF Fired
<1>3. CASE Observe
  BY <1>1, <1>3 DEF Observe, StartReconcile, ObserveAbandons, ObserveStalls,
     ClearTerminalError, ObserveResumesCreate, ObserveInFlight, ObserveRejectsIdentity,
     ObserveUnidentified, ObserveCall, ObserveReport, Remote
<1>4. CASE Manage
  BY <1>1, <1>4 DEF Manage, DropFinalizer, MarkCreatePending, Conflict, ActOnPresent,
     EnterDeploy, Remote
<1>5. CASE Mutate
  BY <1>1, <1>5 DEF Mutate, FireAccepted, FireAnswerLost, Accept, FireRefused, RecordRefusal,
     ExtractExternalRef, ExtractionFails, RecordResponse, PersistAnchor, Remote
<1>6. CASE Poll
  BY <1>1, <1>6 DEF Poll, RestartClock, PollWithoutBlock, PollBadURL, PollTimeout, PollGet,
     PollBudgetSpent, FinishOperation, RecordOperationFailure, ReleaseAnchor,
     SetTerminalFailure, Remote
<1>7. CASE Environment
  <2>1. ASSUME NEW o \in Ids, OperationSucceeds(o) \/ OperationFails(o)
        PROVE  FALSE
    BY <1>2, <2>1 DEF OperationSucceeds, OperationFails, Inv, TypeOK, Ops
  <2>2. QED
    BY <1>1, <1>7, <2>1 DEF Environment, Abort, EditSpec, Delete, DeadlinePasses, Vanishes, Remote
<1>8. QED
  BY <1>1, <1>3, <1>4, <1>5, <1>6, <1>7 DEF Next, vars

(***************************************************************************)
(* While a verdict stands for the current generation nothing is fired      *)
(* (observe.go:117-152): every call starts from a status without verdict.  *)
(***************************************************************************)
THEOREM TerminalStaysQuiet == Spec => TerminalIsQuiet
<1>1. Inv /\ [Next]_vars => [Fired => ~Stalled]_vars
  BY FiredAtFire DEF Inv, VerdictAtStep, Stalled
<1>2. QED
  BY <1>1, Invariance, PTL DEF Spec, TerminalIsQuiet

-----------------------------------------------------------------------------
(***************************************************************************)
(* Operations are tracked.  Without a plain mapping the only answer in     *)
(* hand is the anchor about to be stored, so outside that one step a       *)
(* running operation is the anchored one.                                  *)
(***************************************************************************)
LEMMA HeldOrAnchored ==
  ASSUME TrackInv
  PROVE  /\ InHand = IF pc = "anchor" THEN {job.op} ELSE {}
         /\ pc # "anchor" => \A o \in Running \ lost : st.anchor = o
BY DEF TrackInv, EndedAtStep, OperationsTracked, InHand

(* A step that leaves the anchor and the operations alone.                 *)
LEMMA AnchorHeld ==
  ASSUME TrackInv, pc # "anchor", UNCHANGED <<ops, lost>>, st'.anchor = st.anchor
  PROVE  OperationsTracked'
BY HeldOrAnchored DEF OperationsTracked, Running

(* A step that leaves an operation which has ended.                        *)
LEMMA AnchorLeft ==
  ASSUME TrackInv, pc # "anchor", UNCHANGED <<ops, lost>>, ops[st.anchor].end # "running"
  PROVE  OperationsTracked'
BY HeldOrAnchored DEF OperationsTracked, Running

(***************************************************************************)
(* Observe and the managed reconciler decide; neither touches the anchor.  *)
(***************************************************************************)
LEMMA ObserveTracks == TrackInv /\ Observe => EndedAtStep' /\ OperationsTracked'
<1> SUFFICES ASSUME TrackInv, Observe PROVE EndedAtStep' /\ OperationsTracked'
  OBVIOUS
<1>1. pc \in {"idle", "observe", "report"} /\ UNCHANGED <<ops, lost>>
  BY DEF Observe, StartReconcile, ObserveAbandons, ObserveStalls, ClearTerminalError,
     ObserveResumesCreate, ObserveInFlight, ObserveRejectsIdentity, ObserveUnidentified,
     ObserveCall, ObserveReport, Settled, Remote, History
<1>2. st'.anchor = st.anchor
  BY DEF Observe, StartReconcile, Seeded, ObserveAbandons, ObserveStalls, ClearTerminalError,
     ObserveResumesCreate, ObserveInFlight, ObserveRejectsIdentity, ObserveUnidentified,
     ObserveCall, ObserveReport, TrackInv, Inv, TypeOK, Statuses
<1>3. \/ pc' \in {"idle", "observe", "absent", "present", "report"}
      \/ pc' = "terminal" /\ job'.clear = FALSE
  <2>1. job \in Jobs
    BY DEF TrackInv, Inv, TypeOK
  <2>2. CASE ObserveCall
    BY <2>1, <2>2 DEF ObserveCall, GoTo, Return, Convict, Jobs
  <2>3. CASE ObserveRejectsIdentity
    BY <2>1, <2>3 DEF ObserveRejectsIdentity, Convict, Jobs
  <2>4. CASE ObserveUnidentified
    BY <2>4, Zenon DEF ObserveUnidentified, GoTo, Return
  <2>5. QED
    BY <2>2, <2>3, <2>4 DEF Observe, StartReconcile, ObserveAbandons, ObserveStalls,
       ClearTerminalError, ObserveResumesCreate, ObserveInFlight, ObserveReport, GoTo, Return
<1>4. EndedAtStep'
  BY <1>3 DEF EndedAtStep
<1>5. QED
  BY <1>1, <1>2, <1>4, AnchorHeld

(***************************************************************************)
(* The managed reconciler leaves anchor and operations alone; DeployAction *)
(* comes to the poll loop with an anchor, or to the call without one.      *)
(***************************************************************************)
LEMMA ManageTracks ==
  ASSUME PolledOnly
  PROVE  TrackInv /\ Manage => EndedAtStep' /\ OperationsTracked'
<1> SUFFICES ASSUME TrackInv, Manage PROVE EndedAtStep' /\ OperationsTracked'
  OBVIOUS
<1>1. pc \in {"absent", "present", "deploy"} /\ UNCHANGED <<st, ops, lost>>
  BY DEF Manage, DropFinalizer, MarkCreatePending, Conflict, ActOnPresent, EnterDeploy,
     Remote, History
<1>2. EndedAtStep'
  <2>1. CASE pc' \in {"idle", "deploy"}
    BY <2>1 DEF EndedAtStep
  <2>2. CASE EnterDeploy /\ pc' # "idle"
    <3>1. /\ pc = "deploy" /\ cr.spec.mapping[DeployedAction] # "none" /\ pc' = DeployStep
          /\ job' = [NoJob EXCEPT !.act = DeployedAction,
                                  !.kind = cr.spec.mapping[DeployedAction], !.gen = cr.gen,
                                  !.post = DeployedAction \in cr.spec.posts,
                                  !.pollURL = cr.spec.pollURL,
                                  !.pollError = cr.spec.pollError]
      BY <2>2 DEF EnterDeploy, Return
    <3>2. DeployedAction \in Actions /\ cr.spec \in Specs
      BY <3>1 DEF DeployedAction, TrackInv, Inv, TypeOK, CRs, AnchorAtStep, Actions
    <3>3. cr.spec.mapping[DeployedAction] = "poll"
      BY <3>1, <3>2, SpecType DEF PolledOnly, Kinds
    <3>4. job'.kind = "poll" /\ pc' \in {"fire", "restart", "poll"}
      BY <3>1, <3>3 DEF NoJob, DeployStep
    <3>5. QED
      BY <3>4 DEF EndedAtStep
  <2>3. QED
    BY <2>1, <2>2 DEF Manage, DropFinalizer, MarkCreatePending, Conflict, ActOnPresent, Return
<1>3. QED
  BY <1>1, <1>2, AnchorHeld

(***************************************************************************)
(* An accepted call is in hand until PersistAnchor stores it, or lost.     *)
(***************************************************************************)
LEMMA MutateTracks == TrackInv /\ Mutate => EndedAtStep' /\ OperationsTracked'
<1> SUFFICES ASSUME TrackInv, Mutate PROVE EndedAtStep' /\ OperationsTracked'
  OBVIOUS
<1>1. job \in Jobs /\ st \in Statuses /\ ops \in [Ids -> Ops]
  BY DEF TrackInv, Inv, TypeOK
<1>2. pc = "fire" => Running \subseteq lost /\ job.kind = "poll"
  BY HeldOrAnchored DEF TrackInv, Inv, AnchorAtStep, EndedAtStep, InFlight, Running, Ids, None
<1>3. CASE FireAccepted
  <2>1. PICK o \in Ids : /\ Accept(o)
                         /\ pc' = IF job.kind = "poll" THEN "anchor" ELSE "externalRef"
                         /\ job' = [job EXCEPT !.op = o]
                         /\ UNCHANGED <<seen, lost, faults>>
    BY <1>3 DEF FireAccepted
  <2>2. pc = "fire" /\ st' = st /\ \A q \in Ids : q # o => ops'[q] = ops[q]
    BY <1>1, <2>1 DEF Accept
  <2>3. pc' = "anchor" /\ job'.op = o /\ job'.kind = "poll"
    BY <1>1, <1>2, <2>1, <2>2 DEF Jobs
  <2>4. EndedAtStep'
    BY <2>3 DEF EndedAtStep
  <2>5. OperationsTracked'
    BY <1>2, <2>1, <2>2, <2>3 DEF OperationsTracked, Running, InHand
  <2>6. QED
    BY <2>4, <2>5
<1>4. CASE FireAnswerLost
  <2>1. PICK o \in Ids : Accept(o) /\ lost' = lost \cup {o} /\ Return
    BY <1>4 DEF FireAnswerLost
  <2>2. pc = "fire" /\ \A q \in Ids : q # o => ops'[q] = ops[q]
    BY <1>1, <2>1 DEF Accept
  <2>3. Running' \subseteq lost'
    BY <1>2, <2>1, <2>2 DEF Running
  <2>4. QED
    BY <2>1, <2>3 DEF Return, EndedAtStep, OperationsTracked
<1>5. CASE FireRefused
  BY <1>5, <1>2, AnchorHeld DEF FireRefused, GoTo, Remote, EndedAtStep
<1>6. CASE RecordRefusal
  <2>1. pc = "refused" /\ UNCHANGED <<ops, lost>> /\ st'.anchor = st.anchor
    BY <1>1, <1>6 DEF RecordRefusal, Remote, History, Statuses
  <2>2. pc' = "idle" \/ (pc' = "terminal" /\ job'.clear = FALSE)
    BY <1>1, <1>6 DEF RecordRefusal, Classify, Return, Convict, Jobs
  <2>3. QED
    BY <2>1, <2>2, AnchorHeld DEF EndedAtStep
<1>7. CASE ExtractExternalRef \/ ExtractionFails \/ RecordResponse
  BY <1>7 DEF ExtractExternalRef, ExtractionFails, RecordResponse, TrackInv, EndedAtStep
<1>8. CASE PersistAnchor
  <2>1. /\ pc = "anchor" /\ pc' = "poll" /\ job' = [job EXCEPT !.op = None]
        /\ st'.anchor = job.op /\ UNCHANGED <<ops, lost>>
    BY <1>1, <1>8 DEF PersistAnchor, Remote, History, Statuses
  <2>2. \A o \in Running \ lost : o = job.op
    BY <2>1, HeldOrAnchored DEF TrackInv, Inv, AnchorAtStep, OperationsTracked, InFlight,
       Running, Ids, None
  <2>3. OperationsTracked'
    BY <2>1, <2>2 DEF OperationsTracked, Running
  <2>4. EndedAtStep'
    BY <1>1, <2>1 DEF TrackInv, EndedAtStep, Jobs
  <2>5. QED
    BY <2>3, <2>4
<1>9. QED
  BY <1>3, <1>4, <1>5, <1>6, <1>7, <1>8 DEF Mutate

(***************************************************************************)
(* The poll loop gives the anchor up only once the operation has ended: a  *)
(* timeout, a bad URL and a spent budget keep it.                          *)
(***************************************************************************)
LEMMA PollTracks == TrackInv /\ Poll => EndedAtStep' /\ OperationsTracked'
<1> SUFFICES ASSUME TrackInv, Poll PROVE EndedAtStep' /\ OperationsTracked'
  OBVIOUS
<1>1. job \in Jobs /\ st \in Statuses
  BY DEF TrackInv, Inv, TypeOK
<1>2. pc # "anchor" /\ UNCHANGED <<ops, lost>>
  BY DEF Poll, RestartClock, PollWithoutBlock, PollBadURL, PollTimeout, PollGet,
     PollBudgetSpent, FinishOperation, RecordOperationFailure, ReleaseAnchor,
     SetTerminalFailure, Polling, Remote, History
<1>3. CASE RestartClock
  <2>1. st'.anchor = st.anchor
    BY <1>1, <1>3 DEF RestartClock, Statuses
  <2>2. QED
    BY <1>2, <1>3, <2>1, AnchorHeld DEF RestartClock, GoTo, TrackInv, EndedAtStep
<1>4. CASE PollWithoutBlock
  BY <1>4 DEF PollWithoutBlock, Polled, TrackInv, EndedAtStep
<1>5. CASE PollBadURL \/ PollTimeout
  <2>1. pc' = "terminal" /\ job'.clear = FALSE /\ st' = st
    BY <1>1, <1>5 DEF PollBadURL, PollTimeout, Convict, Jobs
  <2>2. QED
    BY <1>2, <2>1, AnchorHeld DEF EndedAtStep
<1>6. CASE PollGet
  <2>1. UNCHANGED <<st, job>> /\ pc \in {"poll", "wait"}
    BY <1>6 DEF PollGet, GoTo, Polling
  <2>2. /\ pc' \in {"wait", "failed", "finish"}
        /\ pc' \in {"failed", "finish"} => ops[st.anchor].end # "running"
    BY <1>6 DEF PollGet, GoTo
  <2>3. QED
    BY <1>2, <2>1, <2>2, AnchorHeld DEF TrackInv, EndedAtStep
<1>7. CASE PollBudgetSpent
  BY <1>2, <1>7, AnchorHeld DEF PollBudgetSpent, Return, EndedAtStep
<1>8. CASE FinishOperation \/ ReleaseAnchor
  <2>1. pc \in {"finish", "release"} /\ pc' = "idle"
    BY <1>8 DEF FinishOperation, ReleaseAnchor, Return
  <2>2. ops[st.anchor].end # "running"
    BY <2>1 DEF TrackInv, EndedAtStep
  <2>3. QED
    BY <1>2, <2>1, <2>2, AnchorLeft DEF EndedAtStep
<1>9. CASE RecordOperationFailure
  <2>1. pc = "failed" /\ st'.anchor = st.anchor
    BY <1>1, <1>9 DEF RecordOperationFailure, Statuses
  <2>2. InFlight /\ job.kind = "poll" /\ ops[st.anchor].end # "running"
    BY <2>1 DEF TrackInv, Inv, AnchorAtStep, EndedAtStep
  <2>3. (pc' = "release" /\ UNCHANGED job) \/ pc' = "terminal"
    BY <1>9 DEF RecordOperationFailure, Classify, GoTo, Convict
  <2>4. EndedAtStep'
    BY <1>2, <2>1, <2>2, <2>3 DEF EndedAtStep, InFlight
  <2>5. QED
    BY <1>2, <2>1, <2>4, AnchorHeld
<1>10. CASE SetTerminalFailure
  <2>1. pc = "terminal" /\ pc' = "idle"
    BY <1>10 DEF SetTerminalFailure, Return
  <2>2. CASE job.clear
    <3>1. ops[st.anchor].end # "running"
      BY <2>1, <2>2 DEF TrackInv, EndedAtStep
    <3>2. QED
      BY <1>2, <2>1, <3>1, AnchorLeft DEF EndedAtStep
  <2>3. CASE ~job.clear
    <3>1. st'.anchor = st.anchor
      BY <1>1, <1>10, <2>3 DEF SetTerminalFailure, Statuses
    <3>2. QED
      BY <1>2, <2>1, <3>1, AnchorHeld DEF EndedAtStep
  <2>4. QED
    BY <2>2, <2>3
<1>11. QED
  BY <1>3, <1>4, <1>5, <1>6, <1>7, <1>8, <1>9, <1>10 DEF Poll

(***************************************************************************)
(* A crash turns what was in hand into what is lost; an operation that     *)
(* ends stays ended.                                                       *)
(***************************************************************************)
LEMMA EnvironmentTracks == TrackInv /\ Environment => EndedAtStep' /\ OperationsTracked'
<1> SUFFICES ASSUME TrackInv, Environment PROVE EndedAtStep' /\ OperationsTracked'
  OBVIOUS
<1>1. st \in Statuses /\ ops \in [Ids -> Ops]
  BY DEF TrackInv, Inv, TypeOK
<1>2. CASE Abort
  <2>1. lost' = lost \cup InHand /\ UNCHANGED <<st, ops>> /\ pc' = "idle"
    BY <1>2 DEF Abort, Return, Remote
  <2>2. OperationsTracked'
    BY <2>1 DEF TrackInv, OperationsTracked, Running
  <2>3. QED
    BY <2>1, <2>2 DEF EndedAtStep
<1>3. CASE UNCHANGED <<pc, job, lost>> /\ st'.anchor = st.anchor
           /\ \A o \in Ids : ops'[o].end = "running" => ops[o].end = "running"
  <2>1. EndedAtStep'
    BY <1>1, <1>3 DEF TrackInv, Inv, AnchorAtStep, EndedAtStep, InFlight, Statuses, None
  <2>2. InHand' = InHand
    BY <1>3, <2>1, HeldOrAnchored DEF InHand, EndedAtStep
  <2>3. OperationsTracked'
    BY <1>3, <2>2 DEF TrackInv, OperationsTracked, Running
  <2>4. QED
    BY <2>1, <2>3
<1>4. CASE EditSpec \/ Delete
  BY <1>3, <1>4 DEF EditSpec, Delete, Remote, History
<1>5. CASE DeadlinePasses
  BY <1>1, <1>3, <1>5 DEF DeadlinePasses, Statuses, Remote, History
<1>6. ASSUME NEW o \in Ids, OperationSucceeds(o) \/ OperationFails(o) \/ Vanishes(o)
      PROVE  EndedAtStep' /\ OperationsTracked'
  <2>1. UNCHANGED <<pc, st, job, lost>>
    BY <1>6 DEF OperationSucceeds, OperationFails, Vanishes, History
  <2>2. \A q \in Ids : ops'[q].end = "running" => ops[q].end = "running"
    BY <1>1, <1>6 DEF OperationSucceeds, OperationFails, Vanishes, Ops
  <2>3. QED
    BY <1>3, <2>1, <2>2
<1>7. QED
  BY <1>2, <1>4, <1>5, <1>6 DEF Environment

(***************************************************************************)
(* Without a plain mapping, an anchor is only ever given up for an         *)
(* operation that has ended.                                               *)
(***************************************************************************)
LEMMA TrackInvariance == ASSUME PolledOnly PROVE Spec => []TrackInv
<1>1. Init => TrackInv
  <2> SUFFICES ASSUME Init PROVE EndedAtStep /\ OperationsTracked
    BY InitInv DEF TrackInv
  <2>1. pc = "idle" /\ \A o \in Ids : ops[o].end \in {"unused", "succeeded"}
    BY DEF Init, Unused
  <2>2. QED
    BY <2>1 DEF EndedAtStep, OperationsTracked, Running
<1>2. TrackInv /\ [Next]_vars => TrackInv'
  <2> SUFFICES ASSUME TrackInv, [Next]_vars PROVE TrackInv'
    OBVIOUS
  <2>1. Inv'
    BY NextInv DEF TrackInv
  <2>2. CASE UNCHANGED vars
    <3>1. InHand' = InHand
      BY <2>2 DEF vars, InHand
    <3>2. QED
      BY <2>1, <2>2, <3>1 DEF vars, TrackInv, EndedAtStep, OperationsTracked, Running, InFlight
  <2>3. CASE Next
    BY <2>1, <2>3, ObserveTracks, ManageTracks, MutateTracks, PollTracks, EnvironmentTracks
    DEF Next, TrackInv
  <2>4. QED
    BY <2>2, <2>3
<1>3. QED
  BY <1>1, <1>2, PTL DEF Spec

(***************************************************************************)
(* An operation the remote API works on is never forgotten, whatever the   *)
(* interleaving of edits, deletion, timeouts and crashes, as long as every *)
(* mapping is polled (deployaction.go:45-49, 140-148; poller.go:339-373).  *)
(* With a plain mapping beside polled ones it is false: a plain call made  *)
(* on an operation in flight is done at once and drops the anchor.         *)
(***************************************************************************)
THEOREM Tracking == ASSUME PolledOnly PROVE Spec => []OperationsTracked
<1>1. TrackInv => OperationsTracked
  BY DEF TrackInv
<1>2. QED
  BY <1>1, TrackInvariance, PTL
=============================================================================
