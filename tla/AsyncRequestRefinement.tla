----------------------- MODULE AsyncRequestRefinement -----------------------
(***************************************************************************)
(* AsyncRequest implements Operation, for every set of polled specs and    *)
(* every bound: the proof of what the run `polled` checks.                 *)
(***************************************************************************)
EXTENDS AsyncRequestProofs

(* The object is let go by a worker that saw no anchor, and not seen again. *)
LetGo ==
  /\ pc = "absent" /\ seen.deleted => ~InFlight
  /\ cr.gone => pc = "idle"

ContractInv == TrackInv /\ LetGo

-----------------------------------------------------------------------------
(***************************************************************************)
(* Every branch of Observe that reports a deleted object as absent has     *)
(* found no anchor (observe.go:122-193), and nothing touches the status    *)
(* before the finalizer goes.                                              *)
(***************************************************************************)
LEMMA LetGoKept == ContractInv /\ [Next]_vars => LetGo'
<1> SUFFICES ASSUME ContractInv, [Next]_vars PROVE LetGo'
  OBVIOUS
<1>1. cr \in CRs /\ st \in Statuses
  BY DEF ContractInv, TrackInv, Inv, TypeOK
<1>2. CASE UNCHANGED vars
  BY <1>2 DEF vars, ContractInv, LetGo, InFlight
<1>3. CASE Observe
  <2>1. CASE pc' # "absent"
    <3>1. ~cr.gone /\ cr' = cr
      BY <1>3 DEF Observe, StartReconcile, ObserveAbandons, ObserveStalls, ClearTerminalError,
         ObserveResumesCreate, ObserveInFlight, ObserveRejectsIdentity, ObserveUnidentified,
         ObserveCall, ObserveReport, Settled, ContractInv, LetGo
    <3>2. QED
      BY <2>1, <3>1 DEF LetGo
  <2>2. CASE pc' = "absent"
    <3>1. /\ pc = "observe" /\ cr' = cr /\ st' = st
          /\ ~InFlight \/ ~seen.deleted
          /\ seen' = seen
      <4>1. CASE ObserveAbandons \/ ObserveResumesCreate
        BY <4>1 DEF ObserveAbandons, ObserveResumesCreate, Abandonable
      <4>2. CASE ObserveUnidentified
        BY <2>2, <4>2, Zenon DEF ObserveUnidentified, Settled, Return
      <4>3. CASE ObserveCall
        BY <2>2, <4>3 DEF ObserveCall, Settled, Return, Convict
      <4>4. QED
        BY <1>3, <2>2, <4>1, <4>2, <4>3
        DEF Observe, StartReconcile, ObserveStalls, ClearTerminalError, ObserveInFlight,
            ObserveRejectsIdentity, ObserveReport, GoTo, Return, Convict
    <3>2. QED
      BY <2>2, <3>1 DEF ContractInv, LetGo, InFlight
  <2>3. QED
    BY <2>1, <2>2
<1>4. CASE Manage
  BY <1>4 DEF Manage, DropFinalizer, MarkCreatePending, Conflict, ActOnPresent, EnterDeploy,
     DeployStep, Return, ContractInv, LetGo
<1>5. CASE Mutate
  <2>1. ~cr.gone /\ cr' = cr /\ pc' # "absent"
    BY <1>5 DEF Mutate, FireAccepted, FireAnswerLost, Accept, FireRefused, RecordRefusal,
       Classify, Convict, ExtractExternalRef, ExtractionFails, RecordResponse, PersistAnchor,
       GoTo, Return, ContractInv, LetGo
  <2>2. QED
    BY <2>1 DEF LetGo
<1>6. CASE Poll
  <2>1. ~cr.gone /\ cr' = cr /\ pc' # "absent"
    BY <1>6 DEF Poll, RestartClock, PollWithoutBlock, PollBadURL, PollTimeout, PollGet,
       PollBudgetSpent, FinishOperation, RecordOperationFailure, ReleaseAnchor,
       SetTerminalFailure, Polling, Classify, Convict, GoTo, Return, ContractInv, LetGo
  <2>2. QED
    BY <2>1 DEF LetGo
<1>7. CASE Environment
  <2>1. CASE Abort
    BY <2>1 DEF Abort, Return, LetGo
  <2>2. CASE ~Abort
    <3>1. UNCHANGED <<pc, seen>> /\ st'.anchor = st.anchor /\ cr'.gone = cr.gone
      BY <1>1, <1>7, <2>2 DEF Environment, EditSpec, Delete, DeadlinePasses,
         OperationSucceeds, OperationFails, Vanishes, CRs, Statuses, Remote, History
    <3>2. QED
      BY <3>1 DEF ContractInv, LetGo, InFlight
  <2>3. QED
    BY <2>1, <2>2
<1>8. QED
  BY <1>2, <1>3, <1>4, <1>5, <1>6, <1>7 DEF Next

LEMMA ContractInvariance == ASSUME PolledOnly PROVE Spec => []ContractInv
<1>1. Init => LetGo
  BY DEF Init, LetGo
<1>2. QED
  BY <1>1, LetGoKept, TrackInvariance, PTL DEF Spec, ContractInv

-----------------------------------------------------------------------------
(***************************************************************************)
(* What a step of AsyncRequest is to the contract.                         *)
(***************************************************************************)
LEMMA InHandIs ==
  ASSUME ContractInv, ContractInv'
  PROVE  /\ InHand = IF pc = "anchor" THEN {job.op} ELSE {}
         /\ InHand' = IF pc' = "anchor" THEN {job'.op} ELSE {}
BY DEF ContractInv, TrackInv, EndedAtStep, InHand

LEMMA PhaseIsFunction ==
  /\ Phase = [o \in Ids |-> Phase[o]]
  /\ Phase' = [o \in Ids |-> Phase'[o]]
BY DEF Phase, Ids

(* A step that leaves the phases alone is at most a verdict, or its end.   *)
LEMMA PhasesKept ==
  ASSUME Phase' = Phase, cr'.gone = cr.gone
  PROVE  [Contract!Next]_Contract!vars
<1>1. Stalled \in BOOLEAN /\ Stalled' \in BOOLEAN
  BY DEF Stalled, Terminal
<1>2. CASE Stalled' = Stalled
  BY <1>2 DEF Contract!vars
<1>3. CASE ~Stalled /\ Stalled'
  BY <1>3 DEF Contract!Next, Contract!Judge
<1>4. CASE Stalled /\ ~Stalled'
  BY <1>4 DEF Contract!Next, Contract!Absolve
<1>5. QED
  BY <1>1, <1>2, <1>3, <1>4

(* A step that touches neither the operations nor what makes one pending.  *)
LEMMA QuietStep ==
  ASSUME UNCHANGED <<ops, lost>>, st'.anchor = st.anchor, InHand' = InHand,
         cr'.gone = cr.gone
  PROVE  [Contract!Next]_Contract!vars
<1>1. Phase' = Phase
  BY DEF Phase
<1>2. QED
  BY <1>1, PhasesKept

(* A step by which the worker gives an anchor up.                          *)
LEMMA AnchorGivenUp ==
  ASSUME ContractInv, ContractInv', UNCHANGED <<ops, lost>>, cr'.gone = cr.gone,
         pc \in {"finish", "release", "terminal"}, pc' = "idle",
         st'.anchor = None, ops[st.anchor].end # "running"
  PROVE  [Contract!Next]_Contract!vars
<1>1. InHand = {} /\ InHand' = {}
  BY InHandIs
<1>2. ~Stalled
  BY DEF Stalled, ContractInv, TrackInv, Inv, VerdictAtStep
<1>3. \A o \in Ids : o # st.anchor => Phase'[o] = Phase[o]
  BY <1>1 DEF Phase, Ids, None
<1>4. CASE st.anchor \in Ids /\ Phase[st.anchor] = "ended"
  <2>1. Phase' = [Phase EXCEPT ![st.anchor] = "settled"]
    <3>1. Phase'[st.anchor] = "settled"
      BY <1>1, <1>4 DEF Phase, Ids, None
    <3>2. QED
      BY <1>3, <1>4, <3>1, PhaseIsFunction
  <2>2. Stalled' \in BOOLEAN
    BY DEF Stalled, Terminal
  <2>3. Contract!Settle(st.anchor)
    BY <1>2, <1>4, <2>1, <2>2 DEF Contract!Settle
  <2>4. QED
    BY <1>4, <2>3 DEF Contract!Next
<1>5. CASE ~(st.anchor \in Ids /\ Phase[st.anchor] = "ended")
  <2>1. st.anchor \in Ids => Phase'[st.anchor] = Phase[st.anchor]
    BY <1>1, <1>5 DEF Phase, Ids, None
  <2>2. Phase' = Phase
    BY <1>3, <2>1, PhaseIsFunction
  <2>3. QED
    BY <2>2, PhasesKept
<1>6. QED
  BY <1>4, <1>5

(***************************************************************************)
(* Observe and the reconciler decide; the finalizer goes without anchor.   *)
(***************************************************************************)
LEMMA DecideImplements ==
  ContractInv /\ ContractInv' /\ (Observe \/ Manage) => [Contract!Next]_Contract!vars
<1> SUFFICES ASSUME ContractInv, ContractInv', Observe \/ Manage
             PROVE  [Contract!Next]_Contract!vars
  OBVIOUS
<1>1. st \in Statuses
  BY DEF ContractInv, TrackInv, Inv, TypeOK
<1>2. pc # "anchor" /\ UNCHANGED <<ops, lost>> /\ st'.anchor = st.anchor
  BY <1>1 DEF Observe, StartReconcile, Seeded, ObserveAbandons, ObserveStalls,
     ClearTerminalError, ObserveResumesCreate, ObserveInFlight, ObserveRejectsIdentity,
     ObserveUnidentified, ObserveCall, ObserveReport, Manage, DropFinalizer,
     MarkCreatePending, Conflict, ActOnPresent, EnterDeploy, Settled, Remote, History, Statuses
<1>3. pc' # "anchor"
  <2>1. CASE ObserveUnidentified
    BY <2>1, Zenon DEF ObserveUnidentified, GoTo, Return
  <2>2. CASE ObserveCall
    BY <2>2 DEF ObserveCall, GoTo, Return, Convict
  <2>3. QED
    BY <2>1, <2>2 DEF Observe, StartReconcile, ObserveAbandons, ObserveStalls,
       ClearTerminalError, ObserveResumesCreate, ObserveInFlight, ObserveRejectsIdentity,
       ObserveReport, Manage, DropFinalizer, MarkCreatePending, Conflict, ActOnPresent,
       EnterDeploy, DeployStep, GoTo, Return, Convict
<1>4. InHand = {} /\ InHand' = {}
  BY <1>2, <1>3, InHandIs
<1>5. CASE DropFinalizer
  <2>1. Phase' = Phase
    BY <1>2, <1>4 DEF Phase
  <2>2. st.anchor = None /\ st' = st /\ cr' = [cr EXCEPT !.gone = TRUE] /\ ~cr.gone
    BY <1>5 DEF DropFinalizer, ContractInv, LetGo, InFlight
  <2>3. cr'.gone = TRUE /\ cr.gone = FALSE /\ cr'.gen = cr.gen
    BY <2>2 DEF ContractInv, TrackInv, Inv, TypeOK, CRs
  <2>4. Stalled' = Stalled
    BY <2>2, <2>3 DEF Stalled, Terminal
  <2>5. Contract!Pending = {}
    BY <1>4, <2>2 DEF Contract!Pending, Phase, Ids, None
  <2>6. Contract!Close
    BY <2>1, <2>3, <2>4, <2>5 DEF Contract!Close
  <2>7. QED
    BY <2>6 DEF Contract!Next
<1>6. CASE ~DropFinalizer
  <2>1. cr'.gone = cr.gone
    BY <1>6 DEF Observe, StartReconcile, ObserveAbandons, ObserveStalls, ClearTerminalError,
       ObserveResumesCreate, ObserveInFlight, ObserveRejectsIdentity, ObserveUnidentified,
       ObserveCall, ObserveReport, Manage, MarkCreatePending, Conflict, ActOnPresent, EnterDeploy
  <2>2. QED
    BY <1>2, <1>4, <2>1, QuietStep
<1>7. QED
  BY <1>5, <1>6

(***************************************************************************)
(* A call is fired with nothing in hand and no anchor, and never under a   *)
(* verdict; storing the anchor moves the operation from hand to status.    *)
(***************************************************************************)
LEMMA FireImplements ==
  ASSUME ContractInv, ContractInv', NEW o \in Ids, Accept(o), lost' \in {lost, lost \cup {o}},
         InHand' \subseteq {o}, InHand' = {o} \/ o \in lost'
  PROVE  [Contract!Next]_Contract!vars
<1>1. /\ pc = "fire" /\ st' = st /\ cr' = cr /\ ops[o].end = "unused"
      /\ ops \in [Ids -> Ops]
      /\ \E op \in Ops : ops' = [ops EXCEPT ![o] = op] /\ op.end \in {"running", "succeeded"}
  BY AcceptType, ZenonT(60) DEF Accept, FreeIds, ContractInv, TrackInv, Inv, TypeOK
<1>2. InHand = {} /\ st.anchor = None /\ ~Stalled /\ ~cr.gone
  BY <1>1, InHandIs DEF ContractInv, TrackInv, Inv, AnchorAtStep, VerdictAtStep, InFlight,
     Stalled, LetGo
<1>3. Contract!Pending = {} /\ Phase[o] = "unused"
  BY <1>1, <1>2 DEF Contract!Pending, Phase, Ids, None
<1>4. \A q \in Ids : q # o => Phase'[q] = Phase[q]
  BY <1>1, <1>2 DEF Phase, Ids, None
<1>5. Phase'[o] \in {"running", "ended", "lost"}
  BY <1>1 DEF Phase
<1>6. Phase' = [Phase EXCEPT ![o] = Phase'[o]]
  BY <1>4, PhaseIsFunction
<1>7. Stalled' = Stalled
  BY <1>1 DEF Stalled, Terminal
<1>8. Contract!Fire(o)
  BY <1>1, <1>2, <1>3, <1>5, <1>6, <1>7 DEF Contract!Fire
<1>9. QED
  BY <1>8 DEF Contract!Next

LEMMA MutateImplements ==
  ContractInv /\ ContractInv' /\ Mutate => [Contract!Next]_Contract!vars
<1> SUFFICES ASSUME ContractInv, ContractInv', Mutate PROVE [Contract!Next]_Contract!vars
  OBVIOUS
<1>1. job \in Jobs /\ st \in Statuses
  BY DEF ContractInv, TrackInv, Inv, TypeOK
<1>2. CASE FireAccepted
  <2>1. PICK o \in Ids : Accept(o) /\ job' = [job EXCEPT !.op = o] /\ lost' = lost
                         /\ pc' = IF job.kind = "poll" THEN "anchor" ELSE "externalRef"
    BY <1>2 DEF FireAccepted
  <2>2. pc' = "anchor" /\ job'.op = o
    BY <1>1, <2>1 DEF ContractInv, TrackInv, EndedAtStep, Accept, Jobs
  <2>3. QED
    BY <2>1, <2>2, InHandIs, FireImplements
<1>3. CASE FireAnswerLost
  <2>1. PICK o \in Ids : Accept(o) /\ lost' = lost \cup {o} /\ pc' = "idle"
    BY <1>3 DEF FireAnswerLost, Return
  <2>2. QED
    BY <2>1, InHandIs, FireImplements
<1>4. CASE FireRefused \/ RecordRefusal
  <2>1. /\ pc # "anchor" /\ pc' # "anchor" /\ UNCHANGED <<ops, lost, cr>>
        /\ st'.anchor = st.anchor
    BY <1>1, <1>4 DEF FireRefused, RecordRefusal, Classify, GoTo, Return, Convict, Remote,
       History, Statuses
  <2>2. QED
    BY <2>1, InHandIs, QuietStep
<1>5. CASE ExtractExternalRef \/ ExtractionFails \/ RecordResponse
  BY <1>5 DEF ExtractExternalRef, ExtractionFails, RecordResponse, ContractInv, TrackInv,
     EndedAtStep
<1>6. CASE PersistAnchor
  <2>1. /\ pc = "anchor" /\ pc' = "poll" /\ UNCHANGED <<ops, lost, cr>>
        /\ st'.anchor = job.op /\ st.anchor = None
    BY <1>1, <1>6 DEF PersistAnchor, Remote, History, Statuses, ContractInv, TrackInv, Inv,
       AnchorAtStep, InFlight
  <2>2. Phase' = Phase
    BY <2>1, InHandIs DEF Phase, Ids, None
  <2>3. QED
    BY <2>1, <2>2, PhasesKept
<1>7. QED
  BY <1>2, <1>3, <1>4, <1>5, <1>6 DEF Mutate

(***************************************************************************)
(* The poll loop settles the operation it sees ended, and no other.        *)
(***************************************************************************)
LEMMA PollImplements ==
  ContractInv /\ ContractInv' /\ Poll => [Contract!Next]_Contract!vars
<1> SUFFICES ASSUME ContractInv, ContractInv', Poll PROVE [Contract!Next]_Contract!vars
  OBVIOUS
<1>1. job \in Jobs /\ st \in Statuses
  BY DEF ContractInv, TrackInv, Inv, TypeOK
<1>2. pc # "anchor" /\ pc' # "anchor" /\ UNCHANGED <<ops, lost, cr>>
  BY DEF Poll, RestartClock, PollWithoutBlock, PollBadURL, PollTimeout, PollGet,
     PollBudgetSpent, FinishOperation, RecordOperationFailure, ReleaseAnchor,
     SetTerminalFailure, Polling, Classify, Convict, GoTo, Return, Remote, History
<1>3. CASE st'.anchor = st.anchor
  BY <1>2, <1>3, InHandIs, QuietStep
<1>4. CASE FinishOperation \/ ReleaseAnchor
  <2>1. pc \in {"finish", "release"} /\ pc' = "idle" /\ st'.anchor = None
    BY <1>1, <1>4 DEF FinishOperation, ReleaseAnchor, Return, Statuses
  <2>2. ops[st.anchor].end # "running"
    BY <2>1 DEF ContractInv, TrackInv, EndedAtStep
  <2>3. QED
    BY <1>2, <2>1, <2>2, AnchorGivenUp
<1>5. CASE SetTerminalFailure /\ st'.anchor # st.anchor
  <2>1. pc = "terminal" /\ pc' = "idle" /\ job.clear /\ st'.anchor = None
    BY <1>1, <1>5 DEF SetTerminalFailure, Return, Statuses
  <2>2. ops[st.anchor].end # "running"
    BY <2>1 DEF ContractInv, TrackInv, EndedAtStep
  <2>3. QED
    BY <1>2, <2>1, <2>2, AnchorGivenUp
<1>6. QED
  <2>1. st'.anchor = st.anchor \/ FinishOperation \/ ReleaseAnchor \/ SetTerminalFailure
    BY <1>1 DEF Poll, RestartClock, PollWithoutBlock, PollBadURL, PollTimeout, PollGet,
       PollBudgetSpent, RecordOperationFailure, Statuses
  <2>2. QED
    BY <1>3, <1>4, <1>5, <2>1

(***************************************************************************)
(* An operation ends by itself; a dead worker loses what it had in hand.   *)
(***************************************************************************)
LEMMA EndImplements ==
  ASSUME ContractInv, ContractInv', NEW o \in Ids, NEW end \in {"succeeded", "failed"},
         ops[o].end = "running", ops' = [ops EXCEPT ![o].end = end],
         UNCHANGED <<cr, st, pc, job, lost>>
  PROVE  [Contract!Next]_Contract!vars
<1>1. InHand' = InHand /\ Stalled' = Stalled
  BY InHandIs DEF Stalled, Terminal
<1>2. ops'[o].end = end /\ \A q \in Ids : q # o => ops'[q] = ops[q]
  BY DEF ContractInv, TrackInv, Inv, TypeOK, Ops
<1>3. \A q \in Ids : q # o => Phase'[q] = Phase[q]
  BY <1>1, <1>2 DEF Phase
<1>4. CASE o \in lost
  <2>1. Phase'[o] = Phase[o]
    BY <1>2, <1>4 DEF Phase
  <2>2. QED
    BY <1>3, <2>1, PhaseIsFunction, PhasesKept
<1>5. CASE o \notin lost
  <2>1. Phase[o] = "running"
    BY <1>5 DEF Phase, ContractInv, TrackInv, OperationsTracked, Running
  <2>2. Phase'[o] = "ended"
    BY <1>1, <1>2, <1>5 DEF Phase, ContractInv, TrackInv, OperationsTracked, Running
  <2>3. Phase' = [Phase EXCEPT ![o] = "ended"]
    BY <1>3, <2>2, PhaseIsFunction
  <2>4. Contract!End(o)
    BY <1>1, <2>1, <2>3 DEF Contract!End
  <2>5. QED
    BY <2>4 DEF Contract!Next
<1>6. QED
  BY <1>4, <1>5

LEMMA AbortImplements ==
  ContractInv /\ ContractInv' /\ Abort => [Contract!Next]_Contract!vars
<1> SUFFICES ASSUME ContractInv, ContractInv', Abort PROVE [Contract!Next]_Contract!vars
  OBVIOUS
<1>1. lost' = lost \cup InHand /\ UNCHANGED <<cr, st, ops>> /\ pc' = "idle"
  BY DEF Abort, Return, Remote
<1>2. CASE InHand = {}
  <2>1. lost' = lost
    BY <1>1, <1>2
  <2>2. QED
    BY <1>1, <1>2, <2>1, InHandIs, QuietStep
<1>3. CASE InHand # {}
  <2>1. pc = "anchor" /\ job.op \in Ids /\ InHand = {job.op} /\ InHand' = {} /\ st.anchor = None
    BY <1>1, <1>3, InHandIs DEF ContractInv, TrackInv, Inv, AnchorAtStep, InFlight
  <2>2. \A q \in Ids : q # job.op => Phase'[q] = Phase[q]
    BY <1>1, <2>1 DEF Phase
  <2>3. CASE Phase[job.op] \in {"running", "ended"}
    <3>1. Phase'[job.op] = "lost"
      BY <1>1, <2>1, <2>3 DEF Phase
    <3>2. Phase' = [Phase EXCEPT ![job.op] = "lost"]
      BY <2>1, <2>2, <3>1, PhaseIsFunction
    <3>3. Stalled' = Stalled
      BY <1>1 DEF Stalled, Terminal
    <3>4. Contract!Lose(job.op)
      BY <1>1, <2>1, <2>3, <3>2, <3>3 DEF Contract!Lose, Contract!Pending
    <3>5. QED
      BY <2>1, <3>4 DEF Contract!Next
  <2>4. CASE Phase[job.op] \notin {"running", "ended"}
    <3>1. Phase'[job.op] = Phase[job.op]
      BY <1>1, <2>1, <2>4 DEF Phase
    <3>2. QED
      BY <1>1, <2>2, <3>1, PhaseIsFunction, PhasesKept
  <2>5. QED
    BY <2>3, <2>4
<1>4. QED
  BY <1>2, <1>3

LEMMA EnvironmentImplements ==
  ContractInv /\ ContractInv' /\ Environment => [Contract!Next]_Contract!vars
<1> SUFFICES ASSUME ContractInv, ContractInv', Environment PROVE [Contract!Next]_Contract!vars
  OBVIOUS
<1>1. CASE Abort
  BY <1>1, AbortImplements
<1>2. CASE EditSpec \/ Delete \/ DeadlinePasses
  <2>1. UNCHANGED <<ops, lost, pc, job>> /\ st'.anchor = st.anchor /\ cr'.gone = cr.gone
    BY <1>2 DEF EditSpec, Delete, DeadlinePasses, Remote, History, ContractInv, TrackInv, Inv,
       TypeOK, CRs, Statuses
  <2>2. QED
    BY <2>1, InHandIs, QuietStep
<1>3. ASSUME NEW o \in Ids, OperationSucceeds(o) PROVE [Contract!Next]_Contract!vars
  BY <1>3, EndImplements DEF OperationSucceeds, History
<1>4. ASSUME NEW o \in Ids, OperationFails(o) PROVE [Contract!Next]_Contract!vars
  BY <1>4, EndImplements DEF OperationFails
<1>5. ASSUME NEW r \in Ids, Vanishes(r) PROVE [Contract!Next]_Contract!vars
  <2>1. UNCHANGED <<ops, lost, pc, job, st, cr>>
    BY <1>5 DEF Vanishes
  <2>2. QED
    BY <2>1, InHandIs, QuietStep
<1>6. QED
  BY <1>1, <1>2, <1>3, <1>4, <1>5 DEF Environment

-----------------------------------------------------------------------------
(***************************************************************************)
(* The controller drives long-running operations one at a time and follows *)
(* each to its end, through every crash, edit, verdict and deletion, as    *)
(* long as every mapping is polled (DeployAction and IsUpToDate, with the  *)
(* anchor in status.polling.response between them).                        *)
(***************************************************************************)
THEOREM Refinement == ASSUME PolledOnly PROVE Spec => ImplementsOperation
<1>1. Init => Contract!Init
  <2> SUFFICES ASSUME Init PROVE Contract!Init
    OBVIOUS
  <2>1. PICK name \in Imports :
          /\ \A o \in Ids : ops[o].end = IF o = name THEN "succeeded" ELSE "unused"
          /\ pc = "idle" /\ st.anchor = None /\ st.terminal = "none" /\ lost = {}
          /\ cr.gone = FALSE
    BY DEF Init, Unused
  <2>2. \A o \in Ids : Phase[o] \in {"unused", "settled"}
    BY <2>1 DEF Phase, InHand, Ids, None
  <2>3. Phase \in [Ids -> {"unused", "settled"}]
    BY <2>2, PhaseIsFunction
  <2>4. Stalled = FALSE
    BY <2>1 DEF Stalled, Terminal
  <2>5. QED
    BY <2>1, <2>3, <2>4 DEF Contract!Init
<1>2. ContractInv /\ ContractInv' /\ [Next]_vars => [Contract!Next]_Contract!vars
  <2> SUFFICES ASSUME ContractInv, ContractInv', [Next]_vars
               PROVE  [Contract!Next]_Contract!vars
    OBVIOUS
  <2>1. CASE UNCHANGED vars
    BY <2>1, InHandIs, QuietStep DEF vars
  <2>2. CASE Next
    BY <2>2, DecideImplements, MutateImplements, PollImplements, EnvironmentImplements DEF Next
  <2>3. QED
    BY <2>1, <2>2
<1>3. QED
  BY <1>1, <1>2, ContractInvariance, PTL DEF Spec, ImplementsOperation, Contract!Spec
=============================================================================
