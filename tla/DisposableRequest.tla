-------------------------- MODULE DisposableRequest --------------------------
(***************************************************************************)
(* One AsyncDisposableRequest: a request that is sent once, or again until *)
(* it succeeds or rollbackRetriesLimit attempts have failed, and whose     *)
(* long-running operation, if it starts one, is polled to its end.         *)
(*                                                                         *)
(* As in AsyncRequest the controller is one worker whose reconcile is cut  *)
(* at every call and every status write.  A status write of this kind is   *)
(* either repeated on a conflict (SetRequestResourceStatus) or refused     *)
(* (persistStatus), when the object was edited since it was fetched.       *)
(*                                                                         *)
(* Every attempt to send the request is numbered; ops tells its end.       *)
(***************************************************************************)
EXTENDS Naturals, FiniteSets

CONSTANTS
  Specs,       \* The specs a user may write (a subset of SpecRecords).
  Bodies,      \* The answers of a request, or of an operation that ended.
  Failed,      \* The one of them on which polling.error is set.
  MaxCalls,    \* Bound: attempts to send the request.
  MaxGen,      \* Bound: metadata.generation reached by spec edits.
  MaxFaults    \* Bound: crashes and failed calls.

None == 0
Ids  == 1..MaxCalls

Verdicts == {"yes", "no", "error"}     \* expectedResponse of a body

(***************************************************************************)
(* What the control flow can tell of spec.forProvider: no polling block,   *)
(* or what polling.url resolves to; whether polling.error is set;          *)
(* rollbackRetriesLimit (None: unset; 0 is not admitted); whether          *)
(* nextReconcile is set; shouldLoopInfinitely; the verdict of              *)
(* expectedResponse on each body, "error" where jq does not yield a        *)
(* boolean.                                                                *)
(***************************************************************************)
SpecRecords ==
  [ polling : {"none", "valid", "malformed"}, pollError : BOOLEAN,
    limit : Nat, next : BOOLEAN, loop : BOOLEAN, accepts : [Bodies -> Verdicts] ]

ASSUME ConstantsAssumption ==
  /\ MaxCalls \in Nat /\ MaxGen \in Nat /\ MaxFaults \in Nat
  /\ Failed \in Bodies /\ Bodies \cap {"unused", "running", "refused", "none"} = {}
  /\ Specs \subseteq SpecRecords

VARIABLES
  cr,      \* The stored resource: spec, metadata, whether it is gone.
  st,      \* Its stored status.
  pc,      \* Where the worker is in its reconcile.
  seen,    \* The copy of cr the worker holds in memory.
  op,      \* The attempt in hand.
  ops,     \* How each attempt ended: in a body, refused, or not yet.
  calls,   \* The number of attempts.
  lost,    \* History: attempts whose result a fault kept from the status.
  uncharged, \* History: attempts whose anchor an edit kept from the status.
  since,   \* History: the number of attempts at the last success.
  faults   \* History: faults so far.

vars == <<cr, st, pc, seen, op, ops, calls, lost, uncharged, since, faults>>

CRs == [spec : Specs, gen : Nat, deleted : BOOLEAN, gone : BOOLEAN]

Unread == [unread |-> TRUE]

Statuses ==
  [ synced : BOOLEAN, failed : Nat,        \* failed > 0 iff error is not empty
    last : {"never", "recent", "due"},     \* lastReconcileTime plus nextReconcile
    stored : Bodies \cup {"none"},         \* status.response
    anchor : Ids \cup {None},              \* status.polling.response
    started : {"nil", "running", "expired"},
    ready : {"unset", "available", "unavailable"},
    errorObserved : BOOLEAN ]

(* A status write that is repeated on a conflict, by what it records.      *)
Writes == {"failure", "unexpected", "success"}

PCs == {"idle", "observe", "absent", "deploy", "fire", "sent", "record", "poll",
        "wait", "wrap"} \cup Writes

(* Where the worker holds the result of an attempt.                        *)
InHandAt == {"sent", "record"} \cup Writes

TypeOK ==
  /\ cr \in CRs
  /\ st \in Statuses
  /\ st.synced => st.failed = 0
  /\ pc \in PCs
  /\ seen \in CRs \cup {Unread}
  /\ pc \notin {"idle", "wrap"} => seen \in CRs
  /\ op \in Ids \cup {None}
  /\ pc \in InHandAt => op \in Ids
  /\ ops \in [Ids -> Bodies \cup {"unused", "running", "refused"}]
  /\ calls \in 0..MaxCalls /\ since \in 0..calls
  /\ lost \in SUBSET Ids /\ uncharged \in SUBSET Ids
  /\ faults \in Nat

-----------------------------------------------------------------------------
Init ==
  \E spec \in Specs :
    /\ cr = [spec |-> spec, gen |-> 1, deleted |-> FALSE, gone |-> FALSE]
    /\ st = [synced |-> FALSE, failed |-> 0, last |-> "never", stored |-> "none",
             anchor |-> None, started |-> "nil", ready |-> "unset",
             errorObserved |-> FALSE]
    /\ pc = "idle" /\ seen = Unread /\ op = None
    /\ ops = [o \in Ids |-> "unused"] /\ calls = 0
    /\ lost = {} /\ uncharged = {} /\ since = 0 /\ faults = 0

Refresh == seen' = cr
Unchanged == seen = cr      \* What an optimistic write of the copy requires.

GoTo(p) == pc' = p /\ UNCHANGED <<seen, op>>

(* The reconcile is over, well or not: only the wrapper is left.           *)
Return == pc' = "wrap" /\ seen' = Unread /\ op' = None

Remote  == <<ops, calls>>
History == <<lost, uncharged, since, faults>>

Fault == faults < MaxFaults /\ faults' = faults + 1

HasError  == st.failed # 0
InFlight  == st.anchor # None
Polled(s) == s.polling # "none"

(***************************************************************************)
(* The retry policy (utils/retry.go).                                      *)
(***************************************************************************)
RetriesLimitReached(s) == s.limit # None /\ st.failed >= s.limit

NeedsRetry(s) == s.limit # None /\ HasError /\ ~RetriesLimitReached(s)

(* A last reconcile that is not on record counts as one that is just now.  *)
NextReconcileReached == st.last = "due"

-----------------------------------------------------------------------------
(* Observe.                                                                *)

StartReconcile ==
  /\ pc = "idle" /\ ~cr.gone
  /\ Refresh /\ pc' = "observe" /\ UNCHANGED op
  /\ UNCHANGED <<cr, st, Remote, History>>

ObserveDeleted ==
  /\ pc = "observe" /\ seen.deleted
  /\ GoTo("absent")
  /\ UNCHANGED <<cr, st, Remote, History>>

Exhausted(s) == ~st.synced /\ HasError /\ RetriesLimitReached(s)

(* Mutated: out of attempts, the object keeps its last condition.          *)
ExhaustSilently ==
  /\ pc = "observe" /\ ~seen.deleted /\ Exhausted(seen.spec)
  /\ Return
  /\ UNCHANGED <<cr, st, Remote, History>>

ObserveExhausted ==
  /\ pc = "observe" /\ ~seen.deleted /\ Exhausted(seen.spec)
  /\ st' = [st EXCEPT !.ready = "unavailable"]
  /\ Return
  /\ UNCHANGED <<cr, Remote, History>>

(* Mutated: a retry waits for nextReconcile only, not for a reconcile.     *)
WaitForEver ==
  /\ pc = "observe" /\ ~seen.deleted /\ ~st.synced /\ ~Exhausted(seen.spec)
  /\ IF NeedsRetry(seen.spec) THEN Return ELSE GoTo("absent")
  /\ UNCHANGED <<cr, st, Remote, History>>

(* A retry waits for nextReconcile; everything else is to be created.      *)
ObserveUnsynced ==
  /\ pc = "observe" /\ ~seen.deleted /\ ~st.synced /\ ~Exhausted(seen.spec)
  /\ IF NeedsRetry(seen.spec) /\ seen.spec.next /\ ~NextReconcileReached
     THEN Return ELSE GoTo("absent")
  /\ UNCHANGED <<cr, st, Remote, History>>

(* The stored response, judged by the present spec.                        *)
StoredVerdict(s) == IF st.stored = "none" THEN "no" ELSE s.accepts[st.stored]

(* A request that succeeded (so no retry is pending).                      *)
ObserveSynced ==
  LET s == seen.spec
      verdict == StoredVerdict(s)
  IN
  /\ pc = "observe" /\ ~seen.deleted /\ st.synced
  /\ \/ verdict = "error" /\ Return /\ UNCHANGED st
     \/ /\ verdict = "no" /\ UNCHANGED st
        /\ IF s.next /\ ~NextReconcileReached THEN Return ELSE GoTo("deploy")
     \/ /\ verdict = "yes"
        /\ st' = [st EXCEPT !.ready = "available"]
        /\ IF (s.loop /\ s.limit = None) \/ (s.next /\ NextReconcileReached)
           THEN Refresh /\ pc' = "deploy" /\ UNCHANGED op
           ELSE Return
  /\ UNCHANGED <<cr, Remote, History>>

-----------------------------------------------------------------------------
(* The managed reconciler of the runtime.                                  *)

(* The finalizer goes by an optimistic write, and the object with it.      *)
DropFinalizer ==
  /\ pc = "absent" /\ seen.deleted /\ Unchanged
  /\ cr' = [cr EXCEPT !.gone = TRUE]
  /\ pc' = "idle" /\ seen' = Unread /\ op' = None
  /\ UNCHANGED <<st, Remote, History>>

MarkCreatePending ==
  /\ pc = "absent" /\ ~seen.deleted /\ Unchanged
  /\ GoTo("deploy")
  /\ UNCHANGED <<cr, st, Remote, History>>

Conflict ==
  /\ pc = "absent" /\ ~Unchanged
  /\ Return
  /\ UNCHANGED <<cr, st, Remote, History>>

-----------------------------------------------------------------------------
(* DeployAction.                                                           *)

(* Mutated: an operation in flight does not stop the request.              *)
FireAgain ==
  /\ pc = "deploy"
  /\ IF (st.synced /\ ~seen.spec.loop) \/ RetriesLimitReached(seen.spec)
     THEN Return ELSE GoTo("fire")
  /\ UNCHANGED <<cr, st, Remote, History>>

EnterDeploy ==
  /\ pc = "deploy"
  /\ IF (st.synced /\ ~seen.spec.loop) \/ RetriesLimitReached(seen.spec) THEN Return
     ELSE GoTo(IF Polled(seen.spec) /\ InFlight THEN "poll" ELSE "fire")
  /\ UNCHANGED <<cr, st, Remote, History>>

(***************************************************************************)
(* The request: it is answered (by the start of an operation if a polling  *)
(* block waits for one), or it fails: no answer, an HTTP error, a secret   *)
(* that cannot be read.                                                    *)
(***************************************************************************)
SendHttpRequest ==
  /\ pc = "fire" /\ calls < MaxCalls
  /\ calls' = calls + 1 /\ op' = calls + 1
  /\ \/ /\ \E end \in IF Polled(seen.spec) THEN {"running"} ELSE Bodies :
              ops' = [ops EXCEPT ![calls + 1] = end]
        /\ UNCHANGED faults
     \/ ops' = [ops EXCEPT ![calls + 1] = "refused"] /\ Fault
  /\ pc' = "sent" /\ UNCHANGED <<cr, st, seen, lost, uncharged, since>>

PrepareRequestResource ==
  /\ pc = "sent"
  /\ Refresh /\ pc' = "record" /\ UNCHANGED op
  /\ UNCHANGED <<cr, st, Remote, History>>

(* Status of a failure: SetError, never without an attempt.                *)
WithError(s)  == [s EXCEPT !.failed = @ + 1, !.synced = FALSE]

(* Mutated: a success leaves the failures before it on record.             *)
SyncedStillFailed(s) == [s EXCEPT !.synced = TRUE]

WithSynced(s) == [s EXCEPT !.failed = 0, !.synced = TRUE]
Touched(s)    == [s EXCEPT !.last = "recent"]
Answered(s, body) == [s EXCEPT !.stored = body]
Released(s)   == [s EXCEPT !.anchor = None, !.started = "nil"]

RecordFailure ==
  /\ pc = "record" /\ ops[op] = "refused"
  /\ GoTo("failure")
  /\ UNCHANGED <<cr, st, Remote, History>>

(* An answer that cannot be judged leaves no trace.  (The answer of an     *)
(* HTTP error is stored too, but never judged: only a success is.)         *)
RecordAnswer ==
  /\ pc = "record" /\ ~Polled(seen.spec) /\ ops[op] # "refused"
  /\ CASE seen.spec.accepts[ops[op]] = "yes" -> GoTo("success")
       [] seen.spec.accepts[ops[op]] = "no"  -> GoTo("unexpected")
       [] OTHER -> Return
  /\ UNCHANGED <<cr, st, Remote, History>>

(* The setters of each write.                                              *)
Setters(s) ==
  CASE pc = "failure"    -> Touched(WithError(s))
    [] pc = "unexpected" -> Touched(Answered(WithError(s), ops[op]))
    [] pc = "success"    -> Touched(Answered(WithSynced(s), ops[op]))

(* Mutated: after a conflict the setters run on top of their first effect. *)
WriteStacked ==
  /\ pc \in Writes
  /\ st' = Setters(st)
  /\ IF Unchanged
     THEN Return /\ since' = IF pc = "success" THEN calls ELSE since
     ELSE Refresh /\ UNCHANGED <<pc, op, since>>
  /\ UNCHANGED <<cr, Remote, lost, uncharged, faults>>

(***************************************************************************)
(* The setters run on the copy in memory and it is written.  An edit since *)
(* it was fetched refuses the write: it is fetched again, which takes the  *)
(* effect of the setters back, and they run on what is stored.  (A fifth   *)
(* conflict in a row gives the write up: one of the failures of Abort.)    *)
(***************************************************************************)
WriteStatus ==
  /\ pc \in Writes
  /\ IF Unchanged
     THEN st' = Setters(st) /\ Return /\ since' = IF pc = "success" THEN calls ELSE since
     ELSE Refresh /\ UNCHANGED <<st, pc, op, since>>
  /\ UNCHANGED <<cr, Remote, lost, uncharged, faults>>

(***************************************************************************)
(* The anchor: a plain write, which a concurrent edit refuses for good.    *)
(* The operation goes on, but the next reconcile sends the request again.  *)
(***************************************************************************)
BeginPolling ==
  /\ pc = "record" /\ Polled(seen.spec) /\ ops[op] # "refused"
  /\ IF Unchanged
     THEN /\ st' = Touched([st EXCEPT !.anchor = op,
                                      !.started = IF @ = "nil" THEN "running" ELSE @])
          /\ pc' = "poll" /\ op' = None /\ UNCHANGED <<seen, uncharged>>
     ELSE uncharged' = uncharged \cup {op} /\ Return /\ UNCHANGED st
  /\ UNCHANGED <<cr, Remote, lost, since, faults>>

-----------------------------------------------------------------------------
(***************************************************************************)
(* The poll loop.  Its outcomes are plain writes of the copy in memory: an *)
(* edit made since it was fetched refuses them, and the next reconcile     *)
(* polls again.                                                            *)
(***************************************************************************)
Persist(status) == st' = (IF Unchanged THEN status ELSE st) /\ Return

Polling == pc \in {"poll", "wait"} /\ seen.spec.polling = "valid"
Overdue == st.started = "expired"

FinalizeError == Persist(Touched(Released(WithError(st))))

PollBadURL ==
  /\ pc = "poll" /\ seen.spec.polling = "malformed"
  /\ FinalizeError
  /\ UNCHANGED <<cr, Remote, History>>

PollTimeout ==
  /\ Polling /\ Overdue
  /\ FinalizeError
  /\ UNCHANGED <<cr, Remote, History>>

PollRunning ==
  /\ Polling /\ ~Overdue
  /\ ops[st.anchor] = "running"
  /\ GoTo("wait")
  /\ UNCHANGED <<cr, st, Remote, History>>

OperationError(end) == end = Failed /\ seen.spec.pollError

PollError ==
  /\ Polling /\ ~Overdue
  /\ OperationError(ops[st.anchor])
  /\ FinalizeError
  /\ UNCHANGED <<cr, Remote, History>>

(* The operation is done and not in error: expectedResponse judges it.  An *)
(* answer that cannot be judged leaves the anchor where it is.             *)
FinalizeSuccess ==
  LET end == ops[st.anchor] IN
  /\ Polling /\ ~Overdue
  /\ end # "running" /\ ~OperationError(end)
  /\ CASE seen.spec.accepts[end] = "yes" ->
            /\ Persist(Touched(Answered(Released(WithSynced(st)), end)))
            /\ since' = IF Unchanged THEN calls ELSE since
       [] seen.spec.accepts[end] = "no" ->
            Persist(Touched(Answered(Released(WithError(st)), end))) /\ UNCHANGED since
       [] OTHER -> Return /\ UNCHANGED <<st, since>>
  /\ UNCHANGED <<cr, Remote, lost, uncharged, faults>>

PollBudgetSpent ==
  /\ pc = "wait"
  /\ Persist(Touched(st))
  /\ UNCHANGED <<cr, Remote, History>>

-----------------------------------------------------------------------------
(***************************************************************************)
(* The wrapper around the reconciler, after every reconcile that returns.  *)
(***************************************************************************)
SetErrorObserved ==
  /\ pc = "wrap"
  /\ st' = [st EXCEPT !.errorObserved = HasError /\ RetriesLimitReached(cr.spec)]
  /\ pc' = "idle" /\ UNCHANGED <<seen, op>>
  /\ UNCHANGED <<cr, Remote, History>>

(***************************************************************************)
(* The reconcile ends early: the process dies, or a call of the API server *)
(* or a GET of the poll loop fails and the wrapper still runs.             *)
(***************************************************************************)
InHand == IF pc \in InHandAt THEN {op} ELSE {}

Abort ==
  /\ pc # "idle"
  /\ Fault
  /\ lost' = lost \cup InHand
  /\ pc' \in {"idle"} \cup (IF pc = "wrap" THEN {} ELSE {"wrap"})
  /\ seen' = Unread /\ op' = None
  /\ UNCHANGED <<cr, st, Remote, uncharged, since>>

-----------------------------------------------------------------------------
(* The users, the clock and the remote API.                                *)

(***************************************************************************)
(* url, method, headers and body are immutable; an edit here changes the   *)
(* policies and expectedResponse, and polling, but not whether there is a  *)
(* polling block: without one, an operation in flight is not known any     *)
(* more, and the request is another kind of request.                       *)
(***************************************************************************)
EditSpec ==
  /\ ~cr.gone /\ cr.gen < MaxGen
  /\ \E spec \in {s \in Specs : Polled(s) = Polled(cr.spec)} \ {cr.spec} :
       cr' = [cr EXCEPT !.spec = spec, !.gen = @ + 1]
  /\ UNCHANGED <<st, pc, seen, op, Remote, History>>

Delete ==
  /\ ~cr.deleted
  /\ cr' = [cr EXCEPT !.deleted = TRUE, !.gen = @ + 1]
  /\ UNCHANGED <<st, pc, seen, op, Remote, History>>

NextReconcileComes ==
  /\ cr.spec.next /\ st.last = "recent"
  /\ st' = [st EXCEPT !.last = "due"]
  /\ UNCHANGED <<cr, pc, seen, op, Remote, History>>

DeadlinePasses ==
  /\ st.started = "running"
  /\ st' = [st EXCEPT !.started = "expired"]
  /\ UNCHANGED <<cr, pc, seen, op, Remote, History>>

OperationEnds(o) ==
  /\ ops[o] = "running"
  /\ \E end \in Bodies : ops' = [ops EXCEPT ![o] = end]
  /\ UNCHANGED <<cr, st, pc, seen, op, calls, History>>

-----------------------------------------------------------------------------
Observe ==
  \/ StartReconcile \/ ObserveDeleted \/ ObserveExhausted \/ ObserveUnsynced
  \/ ObserveSynced \/ DropFinalizer \/ MarkCreatePending \/ Conflict

Deploy ==
  \/ EnterDeploy \/ SendHttpRequest \/ PrepareRequestResource
  \/ RecordFailure \/ RecordAnswer \/ WriteStatus \/ BeginPolling

Poll ==
  \/ PollBadURL \/ PollTimeout \/ PollRunning \/ PollError \/ FinalizeSuccess
  \/ PollBudgetSpent

Worker == Observe \/ Deploy \/ Poll \/ SetErrorObserved

Environment ==
  \/ Abort \/ EditSpec \/ Delete \/ NextReconcileComes \/ DeadlinePasses
  \/ \E o \in Ids : OperationEnds(o)

Next == Worker \/ Environment

Spec == Init /\ [][Next]_vars

(***************************************************************************)
(* The work queue requeues, the worker runs, time passes and operations    *)
(* end.  Users owe nothing, and faults are never forced.                   *)
(***************************************************************************)
Fairness ==
  /\ WF_vars(Worker) /\ WF_vars(NextReconcileComes) /\ WF_vars(DeadlinePasses)
  /\ \A o \in Ids : WF_vars(OperationEnds(o))

FairSpec == Spec /\ Fairness

-----------------------------------------------------------------------------
(* Properties.                                                             *)

(* The attempts since the last success, but for those that a crash or a    *)
(* failing API server kept from the status.                                *)
Attempts == ((since + 1)..calls) \ lost

Pending == InHand \cup (IF InFlight THEN {st.anchor} ELSE {})

(***************************************************************************)
(* Every attempt is charged exactly once, across resumed polls, repeated   *)
(* and refused writes, edits and crashes: it is in hand, in flight, or one *)
(* failure (status_setters.go:31-37, set_status.go:114-135), or else it is *)
(* one whose anchor an edit refused (polling.go:83): that one never is.    *)
(***************************************************************************)
Accounted ==
  Cardinality(Attempts)
    = st.failed + Cardinality(Pending) + Cardinality(uncharged \cap Attempts)

Sent == calls' # calls

(***************************************************************************)
(* rollbackRetriesLimit caps how many times the request is attempted; the  *)
(* first attempt counts (README.md:483).  Where a polling block waits for  *)
(* operations, an edit that refuses an anchor buys one more attempt        *)
(* (polling.go:83), and the cap allows no more than one for each edit.     *)
(***************************************************************************)
Allowance == IF Polled(seen.spec) THEN cr.gen - 1 ELSE 0

AttemptsCapped ==
  [][Sent => \/ seen.spec.limit = None
             \/ Cardinality(Attempts) < seen.spec.limit + Allowance]_vars

OutOfCalls == pc = "fire" /\ calls = MaxCalls

(***************************************************************************)
(* The request does not stop half way: in the end it has succeeded, its    *)
(* attempts are used up, or the object is gone (README.md:463-470).  A     *)
(* loop that is switched off leaves the operation it has in flight.        *)
(***************************************************************************)
OneOffEnds ==
  <>[]( \/ cr.gone
        \/ st.synced /\ (InFlight => ~cr.spec.loop)
        \/ Exhausted(cr.spec)
        \/ OutOfCalls )

(***************************************************************************)
(* A request out of attempts says so for good, until its limit is raised   *)
(* (disposablerequest.go:83-87, 359-373).                                  *)
(***************************************************************************)
FailureSurfaces ==
  <>[](Exhausted(cr.spec) /\ ~cr.deleted /\ ~OutOfCalls)
    => <>[](st.errorObserved /\ st.ready = "unavailable")
=============================================================================
