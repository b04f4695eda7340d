---------------------------- MODULE AsyncRequest ----------------------------
(***************************************************************************)
(* One AsyncRequest custom resource, the controller that reconciles it,    *)
(* the users that edit and delete it, and the remote API it drives.        *)
(*                                                                         *)
(* The controller is one worker (the work queue never runs a key twice at  *)
(* the same time) whose reconcile is cut at every point where it talks to  *)
(* somebody else: each HTTP call and each status write is one step, and    *)
(* between two steps the user may edit or delete the resource, the remote  *)
(* operation may end, the polling deadline may pass, or the process may    *)
(* die.  The status is written by this controller alone, so a step reads   *)
(* it as stored; metadata and spec are read from the copy last fetched.    *)
(*                                                                         *)
(* A mutating call that the remote API accepts is numbered.  The number is *)
(* the operation, and for a CREATE it is also the resource it makes.       *)
(***************************************************************************)
EXTENDS Naturals, FiniteSets

CONSTANTS
  Families,    \* The specs a user may write; edits stay in one of these sets.
  Payloads,    \* The desired configurations a spec may carry.
  Imports,     \* Values of the external-name annotation at creation (0: none).
  MaxOps,      \* Bound: mutating calls accepted by the remote API.
  MaxGen,      \* Bound: metadata.generation reached by spec edits.
  MaxFaults    \* Bound: crashes, failed calls, failed operations, vanishings.

None   == 0
Absent == "absent"
Ids    == 1..MaxOps

Kinds   == {"none", "sync", "poll"}     \* A mapping: missing, plain, polled.
Actions == {"CREATE", "UPDATE", "REMOVE"}
Checks  == {"removed", "exists", "upToDate"}
URLs    == {"valid", "malformed", "empty"}  \* What polling.url resolves to.
Causes  == {"none", "timeout", "url", "operation", "mutate", "stuck", "identity"}

(***************************************************************************)
(* What routing can tell of spec.forProvider: whether the OBSERVE URL      *)
(* depends on .status.externalRef, on the stored mutate response or on     *)
(* neither; the kind of each mutate mapping; what polling.url resolves to  *)
(* and whether polling.error is set; whether externalRef extracts an id;   *)
(* whether isTerminalError is set; which checks are CUSTOM; which mappings *)
(* are sent by POST, a choice that their action leaves open.  An empty     *)
(* polling.url is that of an API which answers synchronously, with no      *)
(* operation to name; a malformed one hides an operation that is real.     *)
(***************************************************************************)
SpecRecords ==
  [ url : {"externalRef", "response", "constant"},
    mapping : [Actions -> Kinds],
    pollURL : URLs, pollError : BOOLEAN,
    externalRef : BOOLEAN, isTerminal : BOOLEAN,
    custom : SUBSET Checks, posts : SUBSET (Actions \cup {"OBSERVE"}),
    payload : Payloads ]

Specs == UNION Families

ASSUME ConstantsAssumption ==
  /\ MaxOps \in Nat /\ MaxGen \in Nat /\ MaxFaults \in Nat
  /\ Specs \subseteq SpecRecords
  /\ Imports \subseteq {None, 1} /\ (1 \in Imports => MaxOps > 0)
  /\ Absent \notin Payloads

VARIABLES
  cr,      \* The stored resource: spec, metadata, whether it is gone.
  st,      \* Its stored status.
  pc,      \* Where the worker is in its reconcile.
  seen,    \* The copy of cr the worker holds in memory.
  job,     \* What the worker carries from step to step.
  ops,     \* The operations the remote API has accepted.
  res,     \* The remote resources: the payload of each, or Absent.
  lost,    \* History: accepted calls whose answer, or its id, was not stored.
  judged,  \* History: the generation the last terminal verdict was drawn from.
  faults   \* History: faults so far.

vars == <<cr, st, pc, seen, job, ops, res, lost, judged, faults>>

CRs == [spec : Specs, gen : Nat, deleted : BOOLEAN, gone : BOOLEAN, name : Ids \cup {None}]

Unread == [unread |-> TRUE]

Statuses ==
  [ anchor : Ids \cup {None},                \* status.polling.response
    started : {"nil", "running", "expired"}, \* status.polling.startedAt
    externalRef : Ids \cup {None},
    terminal : Causes,                       \* status.terminalError
    observed : Nat,                          \* status.observedGeneration
    created : BOOLEAN,                       \* a response that is no failed POST
    response : Ids \cup {None} ]             \* the id .response templates yield

Jobs ==
  [ act : Actions \cup {"none"}, kind : Kinds, pollURL : URLs,
    pollError : BOOLEAN, post : BOOLEAN, gen : Nat, op : Ids \cup {None},
    synced : BOOLEAN, cause : Causes, clear : BOOLEAN ]

NoJob ==
  [ act |-> "none", kind |-> "none", pollURL |-> "valid", pollError |-> TRUE,
    post |-> FALSE, gen |-> 0, op |-> None, synced |-> FALSE, cause |-> "none", clear |-> FALSE ]

Ops ==
  [ act : Actions, target : Ids \cup {None}, payload : Payloads \cup {Absent},
    end : {"unused", "running", "succeeded", "failed"} ]

Unused == [act |-> "CREATE", target |-> None, payload |-> Absent, end |-> "unused"]

PCs == {"idle", "observe", "absent", "report", "present", "deploy", "fire",
        "externalRef", "response", "refused", "anchor", "restart", "poll",
        "wait", "finish", "failed", "release", "terminal"}

TypeOK ==
  /\ cr \in CRs
  /\ st \in Statuses
  /\ pc \in PCs
  /\ seen \in CRs \cup {Unread}
  /\ pc # "idle" => seen \in CRs
  /\ job \in Jobs
  /\ ops \in [Ids -> Ops]
  /\ res \in [Ids -> Payloads \cup {Absent}]
  /\ lost \in SUBSET Ids
  /\ judged \in Nat
  /\ faults \in Nat

-----------------------------------------------------------------------------
(***************************************************************************)
(* Initial states: a new resource, or one that imports a remote object     *)
(* which is already there under id 1.                                      *)
(***************************************************************************)
Init ==
  \E spec \in Specs, name \in Imports :
    /\ cr = [spec |-> spec, gen |-> 1, deleted |-> FALSE, gone |-> FALSE, name |-> name]
    /\ st = [anchor |-> None, started |-> "nil", externalRef |-> None,
             terminal |-> "none", observed |-> 0, created |-> FALSE, response |-> None]
    /\ pc = "idle" /\ seen = Unread /\ job = NoJob
    /\ ops = [o \in Ids |-> IF o = name
                            THEN [act |-> "CREATE", target |-> o,
                                  payload |-> spec.payload, end |-> "succeeded"]
                            ELSE Unused]
    /\ res = [r \in Ids |-> IF r = name THEN spec.payload ELSE Absent]
    /\ lost = {} /\ judged = 0 /\ faults = 0

-----------------------------------------------------------------------------
(* Steps of a reconcile: go on to another step, or return to the queue.    *)

GoTo(p) == pc' = p /\ UNCHANGED job

Return == pc' = "idle" /\ seen' = Unread /\ job' = NoJob

(* Mutated: the copy in memory is dropped where it should be refreshed.    *)
DropCopy == seen' = Unread

Refresh == seen' = cr     \* LocalKube.Get into the object in memory

Remote  == <<ops, res>>
History == <<lost, judged, faults>>

Fault == faults < MaxFaults /\ faults' = faults + 1

(* The resource that the mapping URLs of spec s address.                   *)
Live == {r \in Ids : res[r] # Absent}

Target(s) ==
  IF s.url = "externalRef" THEN st.externalRef
  ELSE IF s.url = "response" THEN st.response
  ELSE IF Live = {} THEN None
  ELSE CHOOSE r \in Live : \A q \in Live : q <= r

IsLive(r) == r \in Live

(***************************************************************************)
(* The reconciler fetches the resource, and Observe seeds externalRef from *)
(* an external-name annotation that is not the object's own name.          *)
(***************************************************************************)
(* Mutated: the annotation overrides an identity that is already there.    *)
SeededAlways == [st EXCEPT !.externalRef = cr.name]

Seeded == IF st.externalRef = None THEN [st EXCEPT !.externalRef = cr.name] ELSE st

StartReconcile ==
  /\ pc = "idle" /\ ~cr.gone
  /\ Refresh
  /\ st' = Seeded
  /\ GoTo("observe")
  /\ UNCHANGED <<cr, Remote, History>>

-----------------------------------------------------------------------------
(* Observe: what IsUpToDate decides without a call.                        *)

Terminal   == st.terminal # "none"
InFlight   == st.anchor # None
Identified == st.externalRef # None

(* Mutated: an operation in flight does not stop a deletion.               *)
AbandonableInFlight == Terminal /\ seen.deleted /\ ~Identified

(* A terminal failure that made nothing: deletion may abandon it.          *)
Abandonable == Terminal /\ seen.deleted /\ ~InFlight /\ ~Identified

ObserveAbandons ==
  /\ pc = "observe" /\ Abandonable
  /\ GoTo("absent")
  /\ UNCHANGED <<cr, st, seen, Remote, History>>

ObserveStalls ==
  /\ pc = "observe" /\ Terminal /\ ~Abandonable
  /\ seen.gen = st.observed
  /\ Return
  /\ UNCHANGED <<cr, st, Remote, History>>

(* Mutated: the operation is forgotten along with the verdict.             *)
ClearTerminalErrorAndAnchor ==
  /\ pc = "observe" /\ Terminal /\ ~Abandonable
  /\ seen.gen # st.observed
  /\ Refresh
  /\ st' = [st EXCEPT !.terminal = "none", !.started = "nil", !.anchor = None]
  /\ UNCHANGED <<cr, pc, job, Remote, History>>

ClearTerminalError ==
  /\ pc = "observe" /\ Terminal /\ ~Abandonable
  /\ seen.gen # st.observed
  /\ Refresh
  /\ st' = [st EXCEPT !.terminal = "none", !.started = "nil"]
  /\ UNCHANGED <<cr, pc, job, Remote, History>>

ObserveResumesCreate ==
  /\ pc = "observe" /\ ~Terminal /\ InFlight
  /\ ~Identified /\ ~seen.deleted
  /\ GoTo("absent")
  /\ UNCHANGED <<cr, st, seen, Remote, History>>

(* Exists, not up to date.  The status handler fetches the resource again. *)
ObserveInFlight ==
  /\ pc = "observe" /\ ~Terminal /\ InFlight
  /\ Identified \/ seen.deleted
  /\ Refresh
  /\ GoTo("present")
  /\ UNCHANGED <<cr, st, Remote, History>>

(* Mutated: a verdict that stands does not stop the reconcile.             *)
SettledDespiteVerdict == pc = "observe" /\ ~InFlight

Settled == pc = "observe" /\ ~Terminal /\ ~InFlight

PolledByResponse(s) ==
  s.url = "response" /\ \E a \in Actions : s.mapping[a] = "poll"

Convict(cause, clear, gen) ==
  /\ pc' = "terminal"
  /\ job' = [job EXCEPT !.cause = cause, !.clear = clear, !.gen = gen]

ObserveRejectsIdentity ==
  /\ Settled /\ PolledByResponse(seen.spec)
  /\ Convict("identity", FALSE, seen.gen)
  /\ UNCHANGED <<cr, st, seen, Remote, History>>

(* No identity yet: absent by definition, or a URL that does not template. *)
ObserveUnidentified ==
  /\ Settled /\ ~PolledByResponse(seen.spec)
  /\ \/ seen.spec.url = "externalRef" /\ ~Identified
     \/ seen.spec.url = "response" /\ st.response = None
  /\ IF seen.spec.url = "response" /\ (st.created \/ Identified)
     THEN Return
     ELSE GoTo("absent") /\ UNCHANGED seen
  /\ UNCHANGED <<cr, st, Remote, History>>

-----------------------------------------------------------------------------
(***************************************************************************)
(* Observe: the OBSERVE call and the checks of its answer.                 *)
(*                                                                         *)
(* A healthy answer tells the truth.  A sub-resource is observed through a *)
(* parent that always answers 2xx, and its exists check reads the truth    *)
(* from the body.  An answer with no usable body (a server error, or no    *)
(* answer at all) makes a CUSTOM check evaluate user logic on nothing: the *)
(* outcome is whatever that logic defaults to.                             *)
(***************************************************************************)
HealthyCode(s) ==
  IF IsLive(Target(s)) \/ "exists" \in s.custom THEN "2xx" ELSE "404"

Faulty == {"5xx", "transport"}

CustomCheck(truth, code) == IF code \in Faulty THEN BOOLEAN ELSE {truth}

RemovedCheck(s, code) ==
  IF "removed" \in s.custom THEN CustomCheck(~IsLive(Target(s)), code)
                            ELSE {code = "404"}

ExistsCheck(s, code) ==
  IF "exists" \in s.custom THEN CustomCheck(IsLive(Target(s)), code) ELSE {TRUE}

AsDesired(s) == IsLive(Target(s)) /\ res[Target(s)] = s.payload

(* Mutated: drift is judged by the status code alone.                      *)
UpToDateByStatus(s, code) == {code = "2xx"}

UpToDateCheck(s, code) ==
  IF "upToDate" \in s.custom THEN CustomCheck(AsDesired(s), code)
  ELSE IF s.mapping["UPDATE"] = "none" THEN {TRUE}
  ELSE {code = "2xx" /\ AsDesired(s)}

(* The id that the answer carries, if any.                                 *)
Answered(s) == IF IsLive(Target(s)) THEN Target(s) ELSE None

(* What the answer comes to, in the order in which the code asks.          *)
Outcome(s, code, removed, exists, synced) ==
  IF removed \/ (s.url # "externalRef" /\ code # "2xx" /\ ~(st.created \/ Identified))
  THEN "absent"
  ELSE IF s.url = "externalRef" /\ code = "5xx" THEN "error"
  ELSE IF ~exists THEN "absent"
  ELSE IF ~synced /\ s.mapping["UPDATE"] = "none" THEN "stuck"
  ELSE IF code = "transport" THEN "error" ELSE "present"

ObserveCall ==
  LET s == seen.spec IN
  /\ Settled /\ ~PolledByResponse(s)
  /\ s.url = "externalRef" => Identified
  /\ s.url = "response" => st.response # None
  /\ \E code \in {HealthyCode(s)} \cup Faulty :
       /\ IF code \in Faulty THEN Fault ELSE UNCHANGED faults
       /\ \E removed \in RemovedCheck(s, code), exists \in ExistsCheck(s, code),
             synced \in UpToDateCheck(s, code) :
            LET outcome == Outcome(s, code, removed, exists, synced) IN
            \/ outcome = "absent" /\ GoTo("absent") /\ UNCHANGED seen
            \/ outcome = "error" /\ Return
            \/ outcome = "stuck" /\ Convict("stuck", FALSE, seen.gen) /\ UNCHANGED seen
            \/ /\ outcome = "present" /\ pc' = "report" /\ UNCHANGED seen
               /\ job' = [job EXCEPT !.synced = synced, !.op = Answered(s),
                                     !.post = "OBSERVE" \in s.posts /\ code # "2xx"]
  /\ UNCHANGED <<cr, st, Remote, lost, judged>>

(* The status handler stores the OBSERVE response, which counts as         *)
(* "created" unless it is that of a POST that failed.                      *)
ObserveReport ==
  /\ pc = "report"
  /\ Refresh
  /\ st' = [st EXCEPT !.created = ~job.post,
                      !.response = IF job.op = None THEN @ ELSE job.op]
  /\ pc' = "present"
  /\ job' = [job EXCEPT !.op = None, !.post = FALSE]
  /\ UNCHANGED <<cr, Remote, History>>

-----------------------------------------------------------------------------
(***************************************************************************)
(* The managed reconciler acts on the observation.  Removing the finalizer *)
(* and marking the creation as pending are updates of the whole object, so *)
(* they fail with a conflict when somebody changed it since it was read.   *)
(***************************************************************************)
Unchanged == seen = cr

DropFinalizer ==
  /\ pc = "absent" /\ seen.deleted /\ Unchanged
  /\ cr' = [cr EXCEPT !.gone = TRUE]
  /\ Return
  /\ UNCHANGED <<st, Remote, History>>

MarkCreatePending ==
  /\ pc = "absent" /\ ~seen.deleted /\ Unchanged
  /\ pc' = "deploy"
  /\ job' = [job EXCEPT !.act = "CREATE"]
  /\ UNCHANGED <<cr, st, seen, Remote, History>>

Conflict ==
  /\ pc = "absent" /\ ~Unchanged
  /\ Return
  /\ UNCHANGED <<cr, st, Remote, History>>

ActOnPresent ==
  /\ pc = "present"
  /\ IF seen.deleted
     THEN /\ pc' = "deploy" /\ UNCHANGED seen
          /\ job' = [job EXCEPT !.act = "REMOVE"]
     ELSE IF ~job.synced
     THEN /\ pc' = "deploy" /\ UNCHANGED seen
          /\ job' = [job EXCEPT !.act = "UPDATE"]
     ELSE Return
  /\ UNCHANGED <<cr, st, Remote, History>>

-----------------------------------------------------------------------------
(***************************************************************************)
(* Create, Update and Delete fetch the latest version and enter            *)
(* DeployAction.  Delete resumes a creation in flight before it removes.   *)
(* The mapping found here is used to the end of the reconcile, whatever    *)
(* later fetches bring.                                                    *)
(***************************************************************************)
DeployedAction ==
  IF job.act = "REMOVE" /\ InFlight /\ ~Identified THEN "CREATE" ELSE job.act

(* Mutated: the anchor does not stop the call from being fired again.      *)
FireAgain == "fire"

(* Mutated: a resumed operation keeps a clock that was reset.              *)
ResumeWithoutClock == IF ~InFlight THEN "fire" ELSE "poll"

DeployStep ==
  IF ~InFlight THEN "fire" ELSE IF st.started = "nil" THEN "restart" ELSE "poll"

EnterDeploy ==
  LET act  == DeployedAction
      kind == cr.spec.mapping[act]
  IN
  /\ pc = "deploy"
  /\ IF kind = "none"
     THEN Return
     ELSE /\ Refresh
          /\ pc' = DeployStep
          /\ job' = [NoJob EXCEPT !.act = act, !.kind = kind, !.gen = cr.gen,
                                  !.post = act \in cr.spec.posts,
                                  !.pollURL = cr.spec.pollURL,
                                  !.pollError = cr.spec.pollError]
  /\ UNCHANGED <<cr, st, Remote, History>>

-----------------------------------------------------------------------------
(***************************************************************************)
(* The mutating call.  Accepted: an asynchronous API starts an operation,  *)
(* as a polled mapping expects; any other has its effect at once.  The     *)
(* answer may be lost on its way back, which the controller cannot tell    *)
(* from a call that never arrived (for that one, see Abort).  A call on a  *)
(* missing resource is refused.                                            *)
(***************************************************************************)
TargetOf(act, o) == IF act = "CREATE" THEN o ELSE Target(seen.spec)

CanTarget(act) == act = "CREATE" \/ IsLive(Target(seen.spec))

Effect(act, target, payload) ==
  IF act = "CREATE" THEN [res EXCEPT ![target] = payload]
  ELSE IF res[target] = Absent THEN res
  ELSE [res EXCEPT ![target] = IF act = "UPDATE" THEN payload ELSE Absent]

FreeIds == {o \in Ids : ops[o].end = "unused"}

Asynchronous == job.kind = "poll" /\ job.pollURL # "empty"

Accept(o) ==
  LET target == TargetOf(job.act, o) IN
  /\ pc = "fire" /\ CanTarget(job.act)
  /\ o \in FreeIds /\ \A q \in FreeIds : o <= q
  /\ ops' = [ops EXCEPT ![o] =
               [act |-> job.act, target |-> target, payload |-> seen.spec.payload,
                end |-> IF Asynchronous THEN "running" ELSE "succeeded"]]
  /\ res' = IF Asynchronous THEN res
            ELSE Effect(job.act, target, seen.spec.payload)
  /\ UNCHANGED <<cr, st, judged>>

FireAccepted ==
  \E o \in Ids :
    /\ Accept(o)
    /\ pc' = IF job.kind = "poll" THEN "anchor" ELSE "externalRef"
    /\ job' = [job EXCEPT !.op = o]
    /\ UNCHANGED <<seen, lost, faults>>

FireAnswerLost ==
  \E o \in Ids :
    /\ Accept(o)
    /\ lost' = lost \cup {o}
    /\ Fault
    /\ Return

FireRefused ==
  /\ pc = "fire"
  /\ IF CanTarget(job.act) THEN Fault ELSE UNCHANGED faults
  /\ GoTo("refused")
  /\ UNCHANGED <<cr, st, seen, Remote, lost, judged>>

(***************************************************************************)
(* An HTTP error: store the response, then classify it.  Whether there is  *)
(* anything is told by the method that is stored with it, not the action.  *)
(* (The id of a plain mutate is looked for in the answer of an error too:  *)
(* such an answer is taken to carry none.)                                 *)
(***************************************************************************)
Classify(s, cause, clear, gen, next) ==
  \/ s.isTerminal /\ Convict(cause, clear, gen) /\ Refresh
  \/ next

RecordRefusal ==
  /\ pc = "refused"
  /\ st' = [st EXCEPT !.created = ~job.post]
  /\ Classify(cr.spec, "mutate", FALSE, cr.gen, Return)
  /\ UNCHANGED <<cr, Remote, History>>

(***************************************************************************)
(* A plain mutate that succeeded: externalRef first, then the response,    *)
(* two status writes.  A REMOVE answers with no body.                      *)
(***************************************************************************)
ExtractExternalRef ==
  /\ pc = "externalRef"
  /\ st' = IF seen.spec.externalRef /\ job.act # "REMOVE"
           THEN [st EXCEPT !.externalRef = ops[job.op].target] ELSE st
  /\ Refresh
  /\ GoTo("response")
  /\ UNCHANGED <<cr, Remote, History>>

(***************************************************************************)
(* A failed write of externalRef is logged, and the response is stored all *)
(* the same: the id of what a CREATE made is lost with a worker that lives *)
(* on.  The copy in memory is fetched again before the second write.       *)
(***************************************************************************)
ExtractionFails ==
  /\ pc = "externalRef" /\ seen.spec.externalRef
  /\ Fault
  /\ lost' = IF job.act = "CREATE" THEN lost \cup {job.op} ELSE lost
  /\ Refresh \/ UNCHANGED seen
  /\ GoTo("response")
  /\ UNCHANGED <<cr, st, Remote, judged>>

RecordResponse ==
  /\ pc = "response"
  /\ st' = [st EXCEPT !.created = TRUE,
                      !.response = IF job.act = "REMOVE" THEN @ ELSE ops[job.op].target]
  /\ Return
  /\ UNCHANGED <<cr, Remote, History>>

-----------------------------------------------------------------------------
(* The anchor: written before the first poll, never before the answer.     *)

PersistAnchor ==
  /\ pc = "anchor"
  /\ st' = [st EXCEPT !.anchor = job.op,
                      !.started = IF @ = "nil" THEN "running" ELSE @]
  /\ Refresh
  /\ pc' = "poll"
  /\ job' = [job EXCEPT !.op = None]
  /\ UNCHANGED <<cr, Remote, History>>

RestartClock ==
  /\ pc = "restart"
  /\ st' = [st EXCEPT !.started = "running"]
  /\ Refresh
  /\ GoTo("poll")
  /\ UNCHANGED <<cr, Remote, History>>

(***************************************************************************)
(* The poll loop, one call of Poll at "poll" and "wait".  A mapping with   *)
(* no polling block is done at once.  The deadline is tested before every  *)
(* GET unless the copy in memory was deleted; the budget of one reconcile  *)
(* cannot be over before the first GET.                                    *)
(***************************************************************************)
Polled == job.kind = "poll"

Polling == pc \in {"poll", "wait"} /\ Polled /\ job.pollURL = "valid"

(* Mutated: a deletion does not suspend the deadline.                      *)
OverdueThoughDeleted == st.started = "expired"

Overdue == st.started = "expired" /\ ~seen.deleted

PollWithoutBlock ==
  /\ pc = "poll" /\ ~Polled
  /\ GoTo("finish")
  /\ UNCHANGED <<cr, st, seen, Remote, History>>

PollBadURL ==
  /\ pc = "poll" /\ Polled /\ job.pollURL # "valid"
  /\ Convict("url", FALSE, job.gen)
  /\ UNCHANGED <<cr, st, seen, Remote, History>>

(* Mutated: a timeout gives the anchor up.                                 *)
TimeoutClearsAnchor ==
  /\ Polling /\ Overdue
  /\ Convict("timeout", TRUE, job.gen)
  /\ UNCHANGED <<cr, st, seen, Remote, History>>

PollTimeout ==
  /\ Polling /\ Overdue
  /\ Convict("timeout", FALSE, job.gen)
  /\ UNCHANGED <<cr, st, seen, Remote, History>>

PollGet ==
  /\ Polling /\ ~Overdue
  /\ LET end == ops[st.anchor].end IN
     IF end = "running" THEN GoTo("wait")
     ELSE IF end = "failed" /\ job.pollError THEN GoTo("failed")
     ELSE GoTo("finish")
  /\ UNCHANGED <<cr, st, seen, Remote, History>>

PollBudgetSpent ==
  /\ pc = "wait"
  /\ Return
  /\ UNCHANGED <<cr, st, Remote, History>>

(***************************************************************************)
(* How an operation leaves the status.  The id is in the answer of an      *)
(* operation that succeeded, so a failed or unfinished one yields none.    *)
(***************************************************************************)
Yields(o) ==
  /\ cr.spec.externalRef
  /\ ops[o].end = "succeeded" /\ ops[o].act # "REMOVE"

FinishOperation ==
  /\ pc = "finish"
  /\ st' = [st EXCEPT !.anchor = None, !.started = "nil",
                      !.externalRef = IF Yields(st.anchor)
                                      THEN ops[st.anchor].target ELSE @]
  /\ Return
  /\ UNCHANGED <<cr, Remote, History>>

(* A failed operation: its response is stored as that of a POST, with the  *)
(* code it carried, and then classified.                                   *)
RecordOperationFailure ==
  /\ pc = "failed"
  /\ \E httpError \in BOOLEAN : st' = [st EXCEPT !.created = ~httpError]
  /\ Classify(cr.spec, "operation", TRUE, cr.gen, GoTo("release") /\ Refresh)
  /\ UNCHANGED <<cr, Remote, History>>

(* Mutated: a failed operation that is retried keeps its anchor.           *)
KeepDeadAnchor ==
  /\ pc = "release"
  /\ Return
  /\ UNCHANGED <<cr, st, Remote, History>>

ReleaseAnchor ==
  /\ pc = "release"
  /\ st' = [st EXCEPT !.anchor = None, !.started = "nil"]
  /\ Return
  /\ UNCHANGED <<cr, Remote, History>>

(* Mutated: no verdict gives the anchor up.                                *)
VerdictKeepsAnchor ==
  /\ pc = "terminal"
  /\ st' = [st EXCEPT !.terminal = job.cause, !.observed = cr.gen]
  /\ judged' = job.gen
  /\ Return
  /\ UNCHANGED <<cr, Remote, lost, faults>>

(* The verdict is stamped with the generation fetched now.                 *)
SetTerminalFailure ==
  /\ pc = "terminal"
  /\ st' = [st EXCEPT !.terminal = job.cause, !.observed = cr.gen,
                      !.anchor = IF job.clear THEN None ELSE @,
                      !.started = IF job.clear THEN "nil" ELSE @]
  /\ judged' = job.gen
  /\ Return
  /\ UNCHANGED <<cr, Remote, lost, faults>>

-----------------------------------------------------------------------------
(***************************************************************************)
(* The reconcile ends early at any point: the process dies, the API server *)
(* refuses a read or a write, a remote call fails without effect, a jq     *)
(* expression fails.  What the worker held in memory is gone: an accepted  *)
(* call whose result was not stored yet is lost.                           *)
(***************************************************************************)
InHand ==
  IF \/ pc = "anchor"
     \/ /\ pc \in {"externalRef", "response"} /\ job.act = "CREATE"
        /\ job.op # IF seen.spec.url = "response" THEN st.response ELSE st.externalRef
  THEN {job.op} ELSE {}

Abort ==
  /\ pc # "idle"
  /\ Fault
  /\ lost' = lost \cup InHand
  /\ Return
  /\ UNCHANGED <<cr, st, Remote, judged>>

-----------------------------------------------------------------------------
(* The users, the clock and the remote API.                                *)

(***************************************************************************)
(* An edit leaves alone how the OBSERVE URL is keyed: to change that is to *)
(* point the object at another remote resource.  Admission rejects a       *)
(* polled spec keyed by the response (request_types.go:45), so only an     *)
(* object older than that rule starts with one.                            *)
(***************************************************************************)
Admitted(s) ==
  /\ \E F \in Families : {s, cr.spec} \subseteq F
  /\ s.url = cr.spec.url /\ ~PolledByResponse(s)

EditSpec ==
  /\ ~cr.gone /\ cr.gen < MaxGen
  /\ \E spec \in {s \in Specs : Admitted(s)} \ {cr.spec} :
       cr' = [cr EXCEPT !.spec = spec, !.gen = @ + 1]
  /\ UNCHANGED <<st, pc, seen, job, Remote, History>>

(* The API server counts the deletion mark as a new generation.            *)
Delete ==
  /\ ~cr.deleted
  /\ cr' = [cr EXCEPT !.deleted = TRUE, !.gen = @ + 1]
  /\ UNCHANGED <<st, pc, seen, job, Remote, History>>

DeadlinePasses ==
  /\ st.started = "running"
  /\ st' = [st EXCEPT !.started = "expired"]
  /\ UNCHANGED <<cr, pc, seen, job, Remote, History>>

OperationSucceeds(o) ==
  /\ ops[o].end = "running"
  /\ ops' = [ops EXCEPT ![o].end = "succeeded"]
  /\ res' = Effect(ops[o].act, ops[o].target, ops[o].payload)
  /\ UNCHANGED <<cr, st, pc, seen, job, History>>

OperationFails(o) ==
  /\ ops[o].end = "running"
  /\ Fault
  /\ ops' = [ops EXCEPT ![o].end = "failed"]
  /\ UNCHANGED <<cr, st, pc, seen, job, res, lost, judged>>

(* Somebody removes the remote resource behind the controller's back.      *)
Vanishes(r) ==
  /\ r \in Live
  /\ Fault
  /\ res' = [res EXCEPT ![r] = Absent]
  /\ UNCHANGED <<cr, st, pc, seen, job, ops, lost, judged>>

-----------------------------------------------------------------------------
Observe ==
  \/ StartReconcile \/ ObserveAbandons \/ ObserveStalls \/ ClearTerminalError
  \/ ObserveResumesCreate \/ ObserveInFlight \/ ObserveRejectsIdentity
  \/ ObserveUnidentified \/ ObserveCall \/ ObserveReport

Manage ==
  \/ DropFinalizer \/ MarkCreatePending \/ Conflict \/ ActOnPresent \/ EnterDeploy

Mutate ==
  \/ FireAccepted \/ FireAnswerLost \/ FireRefused \/ RecordRefusal
  \/ ExtractExternalRef \/ ExtractionFails \/ RecordResponse \/ PersistAnchor

Poll ==
  \/ RestartClock \/ PollWithoutBlock \/ PollBadURL \/ PollTimeout \/ PollGet
  \/ PollBudgetSpent \/ FinishOperation \/ RecordOperationFailure
  \/ ReleaseAnchor \/ SetTerminalFailure

Environment ==
  \/ Abort \/ EditSpec \/ Delete \/ DeadlinePasses
  \/ \E o \in Ids : OperationSucceeds(o) \/ OperationFails(o) \/ Vanishes(o)

Next == Observe \/ Manage \/ Mutate \/ Poll \/ Environment

Spec == Init /\ [][Next]_vars

(***************************************************************************)
(* The work queue keeps requeueing and the worker keeps running; a remote  *)
(* operation ends.  Users owe nothing, and faults are never forced.        *)
(***************************************************************************)
Fairness ==
  /\ WF_vars(Observe \/ Manage \/ Mutate \/ Poll)
  /\ \A o \in Ids : WF_vars(OperationSucceeds(o))

FairSpec == Spec /\ Fairness

-----------------------------------------------------------------------------
(* Properties.                                                             *)

Running == {o \in Ids : ops[o].end = "running"}

(***************************************************************************)
(* An operation the remote API is still working on is never forgotten:     *)
(* the stored anchor names it, or the worker is about to store it, or its  *)
(* answer was lost with a dead worker.  The anchor is what keeps a second  *)
(* reconcile from firing the call again (deployaction.go:40-45).           *)
(***************************************************************************)
OperationsTracked ==
  \A o \in Running \ lost : st.anchor = o \/ o \in InHand

(* The remote resources, existing or under way, that are this object's.    *)
Owned ==
  {r \in Live : r \notin lost} \cup {o \in Running \ lost : ops[o].act = "CREATE"}

(***************************************************************************)
(* The controller never makes a second remote resource while it has one:   *)
(* no crash, resume, edit or failed call makes it fire CREATE again.       *)
(***************************************************************************)
NoDuplicate == \A r, q \in Owned : r = q

(***************************************************************************)
(* The finalizer goes only when nothing is left behind: no remote resource *)
(* and no operation in flight (observe.go:123-148, 164-180).               *)
(***************************************************************************)
NothingOrphaned == cr.gone => Owned = {} /\ Running \subseteq lost

Fired == \E o \in Ids : ops[o].end = "unused" /\ ops'[o].end # "unused"

Stalled == Terminal /\ st.observed = cr.gen

(***************************************************************************)
(* A terminal failure is stable: nothing is fired while the verdict stands *)
(* for the current generation (README.md:230-233).                         *)
(***************************************************************************)
TerminalIsQuiet == [][Fired => ~Stalled]_vars

(***************************************************************************)
(* The controller implements the contract of a long-running operation: one *)
(* at a time, each settled exactly once and only after it ended, whatever  *)
(* is edited, judged, timed out, crashed or deleted meanwhile.  The anchor *)
(* or the worker's hand is what makes an operation pending                 *)
(* (deployaction.go:40-49, 140-164; request_types.go:225-257).             *)
(***************************************************************************)
Phase ==
  [o \in Ids |->
     IF ops[o].end = "unused" THEN "unused"
     ELSE IF o \in lost THEN "lost"
     ELSE IF st.anchor # o /\ o \notin InHand THEN "settled"
     ELSE IF ops[o].end = "running" THEN "running" ELSE "ended"]

Contract ==
  INSTANCE Operation WITH Ops <- Ids, phase <- Phase, verdict <- Stalled, closed <- cr.gone

ImplementsOperation == Contract!Spec

(***************************************************************************)
(* The anchor policy of a verdict: a timeout and a bad polling.url leave   *)
(* the operation unknown and keep the anchor; a failed operation is dead   *)
(* and gives it up (poller.go:339-350).                                    *)
(***************************************************************************)
AnchorPolicy ==
  /\ st.terminal \in {"timeout", "url"} => InFlight
  /\ st.terminal = "operation" => ~InFlight

(***************************************************************************)
(* Every poll is measured against a stored start, also after a cleared     *)
(* verdict reset it, so that polling.timeout can elapse over requeues      *)
(* (deployaction.go:154-158).                                              *)
(***************************************************************************)
PollsAgainstAClock == Polling => st.started # "nil"

(***************************************************************************)
(* The identity in the status is never exchanged while the resource it     *)
(* names still exists and the URLs are built with it.                      *)
(***************************************************************************)
IdentityStable ==
  [][st'.externalRef # st.externalRef =>
       (cr.spec.url # "externalRef" \/ st.externalRef \notin Live)]_vars

(***************************************************************************)
(* A verdict that stands was drawn from the version it is charged to, so   *)
(* that an edit always gets its chance (README.md:230-233) and a deletion  *)
(* is not stalled by a timeout (poller.go:177-187).                        *)
(***************************************************************************)
VerdictOnCurrentSpec == Stalled => judged = cr.gen

(***************************************************************************)
(* A deletion ends: the object goes, or a verdict stalls it visibly.  The  *)
(* verdict of a timeout is no such end, "would stall the finalizer         *)
(* forever" (poller.go:177-187): it must not be drawn on a deleted object. *)
(* One that was drawn before the deletion and stamped after it is what     *)
(* VerdictOnCurrentSpec is about.                                          *)
(***************************************************************************)
TimedOutWhenDeleted == st.terminal = "timeout" /\ judged = cr.gen

DeletionEnds == cr.deleted ~> (cr.gone \/ (Stalled /\ ~TimedOutWhenDeleted))

(***************************************************************************)
(* An operation that ended is noticed: the anchor lets go of it, or a      *)
(* verdict stalls the object.                                              *)
(***************************************************************************)
OperationNoticed ==
  \A o \in Ids :
    (st.anchor = o /\ ops[o].end \in {"succeeded", "failed"})
      ~> (st.anchor # o \/ Stalled)

(***************************************************************************)
(* Once users and faults are done, the remote resource exists as desired   *)
(* and stays so, unless deletion or a verdict intervened.                  *)
(***************************************************************************)
Converges == <>[](cr.deleted \/ Stalled \/ AsDesired(cr.spec))
=============================================================================
