------------------------ MODULE DisposableRequestProofs ------------------------
(***************************************************************************)
(* What holds of DisposableRequest for every set of specs, every set of    *)
(* answers and any number of attempts.                                     *)
(***************************************************************************)
EXTENDS DisposableRequest, FiniteSetTheorems, TLAPS

(* Without a polling block, every answer can be judged.                    *)
Judged ==
  \A s \in Specs : ~Polled(s) => \A b \in Bodies : s.accepts[b] # "error"

Active == pc \notin {"idle", "wrap"}

HasAttempt == pc \in {"sent", "record", "failure", "unexpected", "success"}

(* What the worker's position tells of spec and status.                    *)
Placed ==
  /\ Active => (Polled(seen.spec) <=> Polled(cr.spec))
  /\ pc \in {"poll", "wait"} => InFlight /\ Polled(seen.spec)
  /\ pc = "fire" \/ HasAttempt => ~InFlight
  /\ pc = "fire" => ~RetriesLimitReached(seen.spec)
  /\ InFlight => Polled(cr.spec)

(* The attempts that are charged, or will be.                              *)
Due == Attempts \ uncharged

(* The attempt in hand or in flight is one that counts.                    *)
Counted ==
  /\ lost \subseteq 1..calls /\ uncharged \subseteq 1..calls
  /\ InFlight => st.anchor \in Due /\ ops[st.anchor] \notin {"unused", "refused"}
  /\ HasAttempt => op \in Due /\ ops[op] # "unused" /\ (ops[op] = "running" => Polled(cr.spec))
  /\ pc \in {"unexpected", "success"} => ops[op] \in Bodies

Inv == TypeOK /\ Placed /\ Counted

-----------------------------------------------------------------------------
(***************************************************************************)
(* The parts of a status.                                                  *)
(***************************************************************************)
LEMMA StatusType ==
  ASSUME NEW s \in Statuses, NEW b \in Bodies
  PROVE  /\ WithError(s) \in Statuses /\ WithError(s).failed = s.failed + 1
         /\ ~WithError(s).synced /\ WithError(s).anchor = s.anchor
         /\ WithSynced(s) \in Statuses /\ WithSynced(s).failed = 0
         /\ WithSynced(s).anchor = s.anchor
         /\ Touched(s) \in Statuses /\ Touched(s).failed = s.failed
         /\ Touched(s).synced = s.synced /\ Touched(s).anchor = s.anchor
         /\ Answered(s, b) \in Statuses /\ Answered(s, b).failed = s.failed
         /\ Answered(s, b).synced = s.synced /\ Answered(s, b).anchor = s.anchor
         /\ Released(s) \in Statuses /\ Released(s).failed = s.failed
         /\ Released(s).synced = s.synced /\ Released(s).anchor = None
         /\ s.failed \in Nat /\ s.anchor \in Ids \cup {None}
<1>1. s.failed \in Nat /\ s.anchor \in Ids \cup {None} /\ s.failed + 1 \in Nat
  BY DEF Statuses
<1>2. /\ WithError(s) \in Statuses /\ WithError(s).failed = s.failed + 1
      /\ ~WithError(s).synced /\ WithError(s).anchor = s.anchor
  BY <1>1 DEF Statuses, WithError
<1>3. /\ WithSynced(s) \in Statuses /\ WithSynced(s).failed = 0
      /\ WithSynced(s).anchor = s.anchor
  BY DEF Statuses, WithSynced
<1>4. /\ Touched(s) \in Statuses /\ Touched(s).failed = s.failed
      /\ Touched(s).synced = s.synced /\ Touched(s).anchor = s.anchor
  BY DEF Statuses, Touched
<1>5. /\ Answered(s, b) \in Statuses /\ Answered(s, b).failed = s.failed
      /\ Answered(s, b).synced = s.synced /\ Answered(s, b).anchor = s.anchor
  BY DEF Statuses, Answered
<1>6. /\ Released(s) \in Statuses /\ Released(s).failed = s.failed
      /\ Released(s).synced = s.synced /\ Released(s).anchor = None
  BY DEF Statuses, Released
<1>7. QED
  BY <1>1, <1>2, <1>3, <1>4, <1>5, <1>6

(* The worker goes on or returns; the status keeps count and anchor.       *)
LEMMA WalkInv ==
  ASSUME Inv, UNCHANGED <<cr, calls, ops, lost, uncharged, since>>, faults' \in Nat,
         st' \in Statuses, st'.failed = st.failed, st'.synced = st.synced,
         st'.anchor = st.anchor, pc' \in PCs, op' \in {op, None}, HasAttempt' => HasAttempt /\ op' = op,
         seen' \in {seen, cr, Unread}, Active' => seen' = cr \/ (seen' = seen /\ Active),
         pc' \in {"poll", "wait"} => InFlight /\ Polled(cr.spec),
         pc' \in {"unexpected", "success"} => ops[op] \in Bodies,
         pc' = "fire" => /\ ~InFlight /\ seen' = seen /\ ~RetriesLimitReached(seen.spec)
  PROVE  Inv'
<1>1. TypeOK /\ Placed /\ Counted
  BY DEF Inv
<1>2. cr \in CRs /\ (Active => seen \in CRs) /\ (HasAttempt => op \in Ids)
  BY <1>1 DEF TypeOK, Active, HasAttempt, InHandAt, Writes
<1>3. TypeOK'
  BY <1>1, <1>2 DEF TypeOK, Active, HasAttempt, InHandAt, Writes
<1>4. Due' = Due /\ InFlight' = InFlight
  BY DEF Due, Attempts, InFlight
<1>5. Placed'
  BY <1>1, <1>4 DEF Placed, Active, HasAttempt, RetriesLimitReached
<1>6. Counted'
  BY <1>1, <1>4 DEF Counted, HasAttempt
<1>7. QED
  BY <1>3, <1>5, <1>6 DEF Inv

(* The reconcile is over; the status may have changed.                     *)
LEMMA ReturnInv ==
  ASSUME Inv, UNCHANGED <<cr, calls, ops>>, faults' \in Nat,
         pc' \in {"idle", "wrap"}, seen' = Unread, op' = None,
         st' \in Statuses, st'.synced => st'.failed = 0, st'.anchor \in {st.anchor, None},
         lost' \in SUBSET Ids, lost' \subseteq 1..calls,
         uncharged' \in SUBSET Ids, uncharged' \subseteq 1..calls, since' \in 0..calls,
         st'.anchor # None => UNCHANGED <<lost, uncharged, since>>
  PROVE  Inv'
<1>1. TypeOK /\ Placed /\ Counted
  BY DEF Inv
<1>2. TypeOK'
  BY <1>1 DEF TypeOK, PCs, InHandAt, Writes
<1>3. ~Active' /\ ~HasAttempt' /\ pc' \notin {"poll", "wait", "fire"}
  BY DEF Active, HasAttempt
<1>4. Placed'
  BY <1>1, <1>3 DEF Placed, InFlight
<1>5. Counted'
  BY <1>1, <1>3 DEF Counted, InFlight, Due, Attempts, HasAttempt
<1>6. QED
  BY <1>2, <1>4, <1>5 DEF Inv

-----------------------------------------------------------------------------
(***************************************************************************)
(* Observe, and the managed reconciler.                                    *)
(***************************************************************************)
LEMMA ObserveInv ==
  ASSUME Inv, Observe
  PROVE  Inv'
<1>1. TypeOK /\ Placed /\ st \in Statuses /\ faults \in Nat /\ cr \in CRs
  BY DEF Inv, TypeOK
<1>2. \A r \in {"available", "unavailable"} :
        /\ [st EXCEPT !.ready = r] \in Statuses /\ [st EXCEPT !.ready = r].failed = st.failed
        /\ [st EXCEPT !.ready = r].synced = st.synced
        /\ [st EXCEPT !.ready = r].anchor = st.anchor
  BY <1>1 DEF Statuses
<1>3. CASE StartReconcile
  BY <1>1, <1>3, WalkInv DEF StartReconcile, Refresh, PCs, Remote, History, Active, HasAttempt
<1>4. CASE ObserveDeleted
  BY <1>1, <1>4, WalkInv DEF ObserveDeleted, GoTo, PCs, Remote, History, Active, HasAttempt
<1>5. CASE ObserveExhausted
  BY <1>1, <1>2, <1>5, WalkInv
     DEF ObserveExhausted, Return, PCs, Remote, History, Active, HasAttempt
<1>6. CASE ObserveUnsynced
  BY <1>1, <1>6, WalkInv
     DEF ObserveUnsynced, GoTo, Return, PCs, Remote, History, Active, HasAttempt
<1>7. CASE ObserveSynced
  <2>1. /\ UNCHANGED <<cr, Remote, History>> /\ pc = "observe"
        /\ UNCHANGED st \/ st' = [st EXCEPT !.ready = "available"]
        /\ Return \/ GoTo("deploy") \/ (Refresh /\ pc' = "deploy" /\ UNCHANGED op)
    BY <1>7 DEF ObserveSynced
  <2>2. /\ st' \in Statuses /\ st'.failed = st.failed /\ st'.synced = st.synced
        /\ st'.anchor = st.anchor
    BY <1>1, <1>2, <2>1
  <2>3. QED
    BY <1>1, <2>1, <2>2, WalkInv
       DEF GoTo, Return, Refresh, PCs, Remote, History, Active, HasAttempt
<1>8. CASE DropFinalizer
  <2>1. cr' \in CRs /\ cr'.spec = cr.spec
    BY <1>1, <1>8 DEF DropFinalizer, CRs
  <2>2. TypeOK'
    BY <1>1, <1>8, <2>1 DEF DropFinalizer, TypeOK, PCs, InHandAt, Writes, Remote, History
  <2>3. Placed' /\ Counted'
    BY <1>1, <1>8, <2>1
       DEF DropFinalizer, Inv, Placed, Counted, Active, HasAttempt, InFlight, Due, Attempts,
           Remote, History
  <2>4. QED
    BY <2>2, <2>3 DEF Inv
<1>9. CASE MarkCreatePending
  BY <1>1, <1>9, WalkInv DEF MarkCreatePending, GoTo, PCs, Remote, History, Active, HasAttempt
<1>10. CASE Conflict
  BY <1>1, <1>10, WalkInv DEF Conflict, Return, PCs, Remote, History, Active, HasAttempt
<1>11. QED
  BY <1>3, <1>4, <1>5, <1>6, <1>7, <1>8, <1>9, <1>10 DEF Observe

-----------------------------------------------------------------------------
(***************************************************************************)
(* DeployAction.                                                           *)
(***************************************************************************)
LEMMA EnterInv ==
  ASSUME Inv, EnterDeploy
  PROVE  Inv'
<1>1. TypeOK /\ Placed /\ st \in Statuses /\ faults \in Nat /\ pc = "deploy" /\ Active
      /\ UNCHANGED <<cr, st, Remote, History>>
  BY DEF Inv, TypeOK, EnterDeploy, Active
<1>2. CASE Return
  BY <1>1, <1>2, WalkInv DEF Return, PCs, Remote, History, Active, HasAttempt
<1>3. CASE GoTo("poll") /\ Polled(seen.spec) /\ InFlight
  BY <1>1, <1>3, WalkInv DEF GoTo, PCs, Remote, History, Active, HasAttempt, Placed
<1>4. CASE GoTo("fire") /\ ~(Polled(seen.spec) /\ InFlight) /\ ~RetriesLimitReached(seen.spec)
  <2>1. ~InFlight
    BY <1>1, <1>4 DEF Placed
  <2>2. QED
    BY <1>1, <1>4, <2>1, WalkInv DEF GoTo, PCs, Remote, History, Active, HasAttempt
<1>5. QED
  BY <1>2, <1>3, <1>4 DEF EnterDeploy

LEMMA SendInv ==
  ASSUME Inv, SendHttpRequest
  PROVE  Inv'
<1>1. /\ TypeOK /\ Placed /\ Counted /\ pc = "fire" /\ ~InFlight /\ Active
      /\ pc' = "sent" /\ UNCHANGED <<cr, st, seen, lost, uncharged, since>>
      /\ op' = calls + 1 /\ calls' = calls + 1 /\ calls + 1 \in Ids
  BY ConstantsAssumption DEF SendHttpRequest, Inv, Placed, Active, Ids, TypeOK
<1>2. PICK end \in Bodies \cup {"running", "refused"} :
        /\ ops' = [ops EXCEPT ![calls + 1] = end]
        /\ end = "running" => Polled(seen.spec)
  <2>1. "running" \notin Bodies
    BY ConstantsAssumption
  <2>2. CASE ops' = [ops EXCEPT ![calls + 1] = "refused"]
    <3>1. "refused" \in Bodies \cup {"running", "refused"} /\ "refused" # "running"
      OBVIOUS
    <3>2. QED
      BY <2>2, <3>1, Zenon
  <2>3. CASE \E end \in IF Polled(seen.spec) THEN {"running"} ELSE Bodies :
               ops' = [ops EXCEPT ![calls + 1] = end]
    BY <2>1, <2>3
  <2>4. QED
    BY <2>2, <2>3 DEF SendHttpRequest
<1>3. ops'[calls + 1] = end /\ end # "unused"
  BY <1>1, <1>2, ConstantsAssumption DEF TypeOK
<1>4. TypeOK'
  <2>1. faults' \in Nat
    BY <1>1 DEF SendHttpRequest, Fault, TypeOK
  <2>2. calls' \in 0..MaxCalls /\ since \in 0..calls'
    BY <1>1, ConstantsAssumption DEF TypeOK, Ids
  <2>3. ops' \in [Ids -> Bodies \cup {"unused", "running", "refused"}]
    BY <1>1, <1>2 DEF TypeOK
  <2>4. QED
    BY <1>1, <2>1, <2>2, <2>3 DEF TypeOK, PCs, InHandAt, Writes
<1>5. Placed'
  BY <1>1 DEF Placed, Active, HasAttempt, InFlight
<1>6. calls + 1 \in Due'
  BY <1>1, ConstantsAssumption DEF Due, Attempts, Counted, TypeOK
<1>7. Counted'
  <2>1. lost' \subseteq 1..calls' /\ uncharged' \subseteq 1..calls'
    BY <1>1, ConstantsAssumption DEF Counted, TypeOK
  <2>2. ~InFlight' /\ pc' = "sent" /\ cr' = cr /\ op' = calls + 1
    BY <1>1 DEF InFlight
  <2>3. ops'[op'] # "unused" /\ (ops'[op'] = "running" => Polled(cr.spec))
    BY <1>1, <1>2, <1>3, ConstantsAssumption DEF Placed
  <2>4. QED
    BY <1>6, <2>1, <2>2, <2>3 DEF Counted, HasAttempt
<1>8. QED
  BY <1>4, <1>5, <1>7 DEF Inv

LEMMA PrepareInv ==
  ASSUME Inv, PrepareRequestResource
  PROVE  Inv'
<1>1. TypeOK /\ st \in Statuses /\ faults \in Nat
  BY DEF Inv, TypeOK
<1>2. QED
  BY <1>1, WalkInv
     DEF PrepareRequestResource, Refresh, PCs, Remote, History, Active, HasAttempt

(* What an attempt in hand ended in.                                       *)
LEMMA AnswerType ==
  ASSUME Inv, pc = "record" \/ pc \in Writes
  PROVE  /\ op \in Ids /\ op \in Due /\ Active /\ HasAttempt /\ ~InFlight
         /\ (~Polled(seen.spec) /\ ops[op] # "refused") => ops[op] \in Bodies
         /\ Polled(seen.spec) <=> Polled(cr.spec)
<1>1. TypeOK /\ Placed /\ Counted /\ HasAttempt /\ Active
  BY DEF Inv, HasAttempt, Active, Writes
<1>2. ops[op] \in Bodies \cup {"unused", "running", "refused"} /\ op \in Ids
  BY <1>1 DEF TypeOK, HasAttempt, InHandAt, Writes
<1>3. QED
  BY <1>1, <1>2 DEF TypeOK, Placed, Counted, HasAttempt

LEMMA RecordInv ==
  ASSUME Inv, RecordFailure \/ RecordAnswer
  PROVE  Inv'
<1>1. /\ TypeOK /\ st \in Statuses /\ faults \in Nat /\ pc = "record" /\ HasAttempt /\ Active
      /\ UNCHANGED <<cr, st, calls, ops, lost, uncharged, since, faults>>
  BY DEF Inv, TypeOK, RecordFailure, RecordAnswer, Remote, History, HasAttempt, Active
<1>2. CASE Return
  BY <1>1, <1>2, WalkInv DEF Return, PCs, Active, HasAttempt
<1>3. CASE GoTo("failure")
  BY <1>1, <1>3, WalkInv DEF GoTo, PCs, Writes, Active, HasAttempt
<1>4. ASSUME RecordAnswer, NEW p \in {"unexpected", "success"}, GoTo(p)
      PROVE  Inv'
  <2>1. ops[op] \in Bodies
    BY <1>1, <1>4, AnswerType DEF RecordAnswer
  <2>2. QED
    BY <1>1, <1>4, <2>1, WalkInv DEF GoTo, PCs, Writes, Active, HasAttempt
<1>5. QED
  BY <1>2, <1>3, <1>4 DEF RecordFailure, RecordAnswer

(* What a write records.                                                   *)
LEMMA SettersType ==
  ASSUME Inv, pc \in Writes
  PROVE  /\ Setters(st) \in Statuses /\ Setters(st).anchor = st.anchor
         /\ Setters(st).synced => Setters(st).failed = 0
         /\ pc = "success" => Setters(st).failed = 0
         /\ pc # "success" => Setters(st).failed = st.failed + 1
<1>1. st \in Statuses /\ Counted
  BY DEF Inv, TypeOK
<1>2. CASE pc = "failure"
  <2>1. Setters(st) = Touched(WithError(st))
    BY <1>2 DEF Setters
  <2>2. QED
    BY <1>1, <1>2, <2>1, StatusType, ConstantsAssumption
<1>3. CASE pc = "unexpected"
  <2>1. ops[op] \in Bodies
    BY <1>1, <1>3 DEF Counted
  <2>2. Setters(st) = Touched(Answered(WithError(st), ops[op]))
    BY <1>3 DEF Setters
  <2>3. QED
    BY <1>1, <1>3, <2>1, <2>2, StatusType
<1>4. CASE pc = "success"
  <2>1. ops[op] \in Bodies
    BY <1>1, <1>4 DEF Counted
  <2>2. Setters(st) = Touched(Answered(WithSynced(st), ops[op]))
    BY <1>4 DEF Setters
  <2>3. QED
    BY <1>1, <1>4, <2>1, <2>2, StatusType
<1>5. QED
  BY <1>2, <1>3, <1>4 DEF Writes

LEMMA WriteInv ==
  ASSUME Inv, WriteStatus
  PROVE  Inv'
<1>1. /\ TypeOK /\ Counted /\ st \in Statuses /\ faults \in Nat /\ pc \in Writes
      /\ UNCHANGED <<cr, calls, ops, lost, uncharged, faults>> /\ HasAttempt /\ ~InFlight
  BY AnswerType DEF Inv, TypeOK, WriteStatus, Remote
<1>2. CASE Unchanged
  <2>1. st' = Setters(st) /\ Return /\ since' \in {since, calls}
    BY <1>1, <1>2 DEF WriteStatus
  <2>2. st' \in Statuses /\ (st'.synced => st'.failed = 0) /\ st'.anchor = None
    BY <1>1, <2>1, SettersType DEF InFlight
  <2>3. /\ lost \in SUBSET Ids /\ uncharged \in SUBSET Ids
        /\ lost \subseteq 1..calls /\ uncharged \subseteq 1..calls /\ since' \in 0..calls
    BY <1>1, <2>1 DEF TypeOK, Counted
  <2>4. QED
    BY <1>1, <2>1, <2>2, <2>3, ReturnInv DEF Return
<1>3. CASE ~Unchanged
  BY <1>1, <1>3, WalkInv
     DEF WriteStatus, Refresh, TypeOK, Counted, Writes, Active, HasAttempt
<1>4. QED
  BY <1>2, <1>3

LEMMA BeginInv ==
  ASSUME Inv, BeginPolling
  PROVE  Inv'
<1>1. /\ TypeOK /\ Placed /\ Counted /\ st \in Statuses /\ faults \in Nat /\ pc = "record"
      /\ UNCHANGED <<cr, calls, ops, lost, since, faults>> /\ Polled(seen.spec) /\ ops[op] # "refused"
  BY DEF Inv, TypeOK, BeginPolling, Remote
<1>2. op \in Ids /\ op \in Due /\ ops[op] # "unused" /\ Polled(cr.spec) /\ op # None
  BY <1>1, AnswerType DEF Counted, HasAttempt, Ids, None
<1>3. CASE Unchanged
  <2> DEFINE s == [st EXCEPT !.anchor = op, !.started = IF @ = "nil" THEN "running" ELSE @]
  <2>1. s \in Statuses /\ s.anchor = op /\ s.failed = st.failed /\ s.synced = st.synced
    BY <1>1, <1>2 DEF Statuses
  <2>2. st' = Touched(s) /\ pc' = "poll" /\ op' = None /\ UNCHANGED <<seen, uncharged>>
    BY <1>3 DEF BeginPolling
  <2> HIDE DEF s
  <2>3. /\ st' \in Statuses /\ st'.anchor = op /\ st'.failed = st.failed
        /\ st'.synced = st.synced
    BY <2>1, <2>2, StatusType, ConstantsAssumption
  <2>4. TypeOK'
    BY <1>1, <2>2, <2>3 DEF TypeOK, PCs, InHandAt, Writes
  <2>5. Due' = Due
    BY <1>1, <2>2 DEF Due, Attempts
  <2>6. Placed' /\ Counted'
    BY <1>1, <1>2, <2>2, <2>3, <2>5 DEF Placed, Counted, Active, HasAttempt, InFlight
  <2>7. QED
    BY <2>4, <2>6 DEF Inv
<1>4. CASE ~Unchanged
  <2>1. uncharged' = uncharged \cup {op} /\ Return /\ UNCHANGED st
    BY <1>4 DEF BeginPolling
  <2>2. /\ uncharged' \in SUBSET Ids /\ uncharged' \subseteq 1..calls /\ st.anchor = None
        /\ lost \in SUBSET Ids /\ lost \subseteq 1..calls
        /\ since \in 0..calls /\ (st.synced => st.failed = 0)
    BY <1>1, <1>2, <2>1, AnswerType DEF TypeOK, Counted, Due, Attempts, InFlight
  <2>3. QED
    BY <1>1, <2>1, <2>2, ReturnInv DEF Return
<1>5. QED
  BY <1>3, <1>4

-----------------------------------------------------------------------------
(***************************************************************************)
(* The poll loop.                                                          *)
(***************************************************************************)
LEMMA PersistInv ==
  ASSUME Inv, UNCHANGED <<cr, calls, ops, lost, uncharged, faults>>, NEW status \in Statuses,
         Persist(status), status.synced => status.failed = 0,
         status.anchor \in {st.anchor, None},
         since' \in 0..calls, since' = since \/ (Unchanged /\ status.anchor = None)
  PROVE  Inv'
<1>1. TypeOK /\ Counted /\ st \in Statuses /\ faults \in Nat /\ Return
      /\ lost \in SUBSET Ids /\ lost \subseteq 1..calls /\ (st.synced => st.failed = 0)
      /\ uncharged \in SUBSET Ids /\ uncharged \subseteq 1..calls
  BY DEF Inv, TypeOK, Counted, Persist
<1>2. st' = IF Unchanged THEN status ELSE st
  BY DEF Persist
<1>3. QED
  BY <1>1, <1>2, ReturnInv DEF Return

LEMMA FinalizeErrorInv ==
  ASSUME Inv, FinalizeError, UNCHANGED <<cr, Remote, History>>
  PROVE  Inv'
<1> DEFINE status == Touched(Released(WithError(st)))
<1>1. TypeOK /\ st \in Statuses /\ since \in 0..calls
      /\ UNCHANGED <<cr, calls, ops, lost, uncharged, since, faults>>
  BY DEF Inv, TypeOK, Remote, History
<1>2. status \in Statuses /\ ~status.synced /\ status.anchor = None
  BY <1>1, StatusType, ConstantsAssumption
<1>3. Persist(status)
  BY DEF FinalizeError
<1> HIDE DEF status
<1>4. QED
  BY <1>1, <1>2, <1>3, PersistInv

LEMMA EndedType ==
  ASSUME Inv, pc \in {"poll", "wait"}, ops[st.anchor] # "running"
  PROVE  ops[st.anchor] \in Bodies /\ st.anchor \in Ids
<1>1. st.anchor \in Ids /\ ops[st.anchor] \notin {"unused", "refused"}
  BY DEF Inv, Placed, Counted, TypeOK, Statuses, InFlight
<1>2. ops[st.anchor] \in Bodies \cup {"unused", "running", "refused"}
  BY <1>1 DEF Inv, TypeOK
<1>3. QED
  BY <1>1, <1>2

LEMMA FinalizeSuccessInv ==
  ASSUME Inv, FinalizeSuccess
  PROVE  Inv'
<1> DEFINE end  == ops[st.anchor]
           good == Touched(Answered(Released(WithSynced(st)), end))
           bad  == Touched(Answered(Released(WithError(st)), end))
<1>1. /\ TypeOK /\ st \in Statuses /\ since \in 0..calls /\ calls \in 0..calls
      /\ UNCHANGED <<cr, calls, ops, lost, uncharged, faults>> /\ pc \in {"poll", "wait"}
      /\ (st.synced => st.failed = 0) /\ faults \in Nat
  BY DEF Inv, TypeOK, FinalizeSuccess, Remote, Polling
<1>2. end \in Bodies
  BY <1>1, EndedType DEF FinalizeSuccess
<1>3. good \in Statuses /\ good.failed = 0 /\ good.anchor = None
  BY <1>1, <1>2, StatusType
<1>4. bad \in Statuses /\ ~bad.synced /\ bad.anchor = None
  BY <1>1, <1>2, StatusType
<1>5. \/ Persist(good) /\ since' = IF Unchanged THEN calls ELSE since
      \/ Persist(bad) /\ UNCHANGED since
      \/ Return /\ UNCHANGED <<st, since>>
  BY DEF FinalizeSuccess
<1> HIDE DEF end, good, bad
<1>6. CASE Persist(good) /\ since' = IF Unchanged THEN calls ELSE since
  BY <1>1, <1>3, <1>6, PersistInv
<1>7. CASE Persist(bad) /\ UNCHANGED since
  BY <1>1, <1>4, <1>7, PersistInv
<1>8. CASE Return /\ UNCHANGED <<st, since>>
  BY <1>1, <1>8, ReturnInv DEF Return, Inv, Counted, TypeOK
<1>9. QED
  BY <1>5, <1>6, <1>7, <1>8

LEMMA PollInv ==
  ASSUME Inv, Poll
  PROVE  Inv'
<1>1. TypeOK /\ Placed /\ st \in Statuses /\ faults \in Nat /\ since \in 0..calls
      /\ (st.synced => st.failed = 0)
  BY DEF Inv, TypeOK
<1>2. CASE PollBadURL \/ PollTimeout \/ PollError
  BY <1>2, FinalizeErrorInv DEF PollBadURL, PollTimeout, PollError
<1>3. CASE PollRunning
  <2>1. InFlight /\ Polled(cr.spec) /\ Active
    BY <1>1, <1>3 DEF PollRunning, Polling, Placed, Active
  <2>2. QED
    BY <1>1, <1>3, <2>1, WalkInv DEF PollRunning, GoTo, PCs, Remote, History, Active, HasAttempt
<1>4. CASE FinalizeSuccess
  BY <1>4, FinalizeSuccessInv
<1>5. CASE PollBudgetSpent
  BY <1>1, <1>5, StatusType, PersistInv, ConstantsAssumption
     DEF PollBudgetSpent, Remote, History
<1>6. QED
  BY <1>2, <1>3, <1>4, <1>5 DEF Poll

LEMMA WrapInv ==
  ASSUME Inv, SetErrorObserved
  PROVE  Inv'
<1>1. /\ TypeOK /\ st \in Statuses /\ faults \in Nat /\ pc' = "idle" /\ UNCHANGED <<seen, op>>
      /\ UNCHANGED <<cr, calls, ops, lost, uncharged, since, faults>>
  BY DEF Inv, TypeOK, SetErrorObserved, Remote, History
<1>2. /\ st' \in Statuses /\ st'.failed = st.failed /\ st'.synced = st.synced
      /\ st'.anchor = st.anchor
  BY <1>1 DEF SetErrorObserved, Statuses, HasError, RetriesLimitReached
<1>3. QED
  BY <1>1, <1>2, WalkInv DEF PCs, Active, HasAttempt

-----------------------------------------------------------------------------
(***************************************************************************)
(* The environment.                                                        *)
(***************************************************************************)
LEMMA AbortInv ==
  ASSUME Inv, Abort
  PROVE  Inv'
<1>1. /\ TypeOK /\ Placed /\ Counted /\ st \in Statuses /\ faults' \in Nat
      /\ pc' \in {"idle", "wrap"} /\ seen' = Unread /\ op' = None
      /\ UNCHANGED <<cr, st, calls, ops, uncharged, since>> /\ lost' = lost \cup InHand
      /\ (st.synced => st.failed = 0) /\ since \in 0..calls
  BY DEF Inv, TypeOK, Abort, Fault, Remote
<1>2. /\ lost' \in SUBSET Ids /\ lost' \subseteq 1..calls
      /\ uncharged \in SUBSET Ids /\ uncharged \subseteq 1..calls
  BY <1>1 DEF InHand, TypeOK, Counted, HasAttempt, InHandAt, Writes, Due, Attempts
<1>3. st.anchor # None => lost' = lost
  BY <1>1 DEF InHand, Placed, HasAttempt, InHandAt, Writes, InFlight
<1>4. QED
  BY <1>1, <1>2, <1>3, ReturnInv

LEMMA EditInv ==
  ASSUME Inv, EditSpec \/ Delete
  PROVE  Inv'
<1>1. /\ cr' \in CRs /\ (Polled(cr'.spec) <=> Polled(cr.spec))
      /\ UNCHANGED <<st, pc, seen, op, ops, calls, lost, uncharged, since, faults>>
  <2>1. cr \in CRs
    BY DEF Inv, TypeOK
  <2>2. CASE EditSpec
    <3>1. PICK spec \in Specs : /\ Polled(spec) = Polled(cr.spec)
                                /\ cr' = [cr EXCEPT !.spec = spec, !.gen = @ + 1]
      BY <2>2 DEF EditSpec
    <3>2. cr' = [spec |-> spec, gen |-> cr.gen + 1, deleted |-> cr.deleted, gone |-> cr.gone]
      BY <2>1, <3>1 DEF CRs
    <3>3. cr.gen \in Nat /\ cr.gen + 1 \in Nat /\ cr.deleted \in BOOLEAN /\ cr.gone \in BOOLEAN
      BY <2>1 DEF CRs
    <3>4. cr' \in CRs /\ cr'.spec = spec
      BY <3>2, <3>3 DEF CRs
    <3>5. UNCHANGED <<st, pc, seen, op, ops, calls, lost, uncharged, since, faults>>
      BY <2>2 DEF EditSpec, Remote, History
    <3>6. QED
      BY <3>1, <3>4, <3>5, Zenon
  <2>3. CASE Delete
    <3>1. cr' = [spec |-> cr.spec, gen |-> cr.gen + 1, deleted |-> TRUE, gone |-> cr.gone]
      BY <2>1, <2>3 DEF Delete, CRs
    <3>2. cr.gen \in Nat /\ cr.gen + 1 \in Nat /\ cr.spec \in Specs /\ cr.gone \in BOOLEAN
      BY <2>1 DEF CRs
    <3>3. cr' \in CRs /\ cr'.spec = cr.spec
      BY <3>1, <3>2 DEF CRs
    <3>4. UNCHANGED <<st, pc, seen, op, ops, calls, lost, uncharged, since, faults>>
      BY <2>3 DEF Delete, Remote, History
    <3>5. QED
      BY <3>3, <3>4
  <2>4. QED
    BY <2>2, <2>3
<1>2. TypeOK'
  BY <1>1 DEF Inv, TypeOK
<1>3. Placed' /\ Counted'
  BY <1>1 DEF Inv, Placed, Counted, Active, HasAttempt, InFlight, Due, Attempts,
         RetriesLimitReached
<1>4. QED
  BY <1>2, <1>3 DEF Inv

LEMMA ClockInv ==
  ASSUME Inv, NextReconcileComes \/ DeadlinePasses
  PROVE  Inv'
<1>1. /\ TypeOK /\ Placed /\ st \in Statuses /\ faults \in Nat /\ pc \in PCs
      /\ UNCHANGED <<cr, pc, seen, op, calls, ops, lost, uncharged, since, faults>>
  BY DEF Inv, TypeOK, NextReconcileComes, DeadlinePasses, Remote, History
<1>2. /\ st' \in Statuses /\ st'.failed = st.failed /\ st'.synced = st.synced
      /\ st'.anchor = st.anchor
  BY <1>1 DEF NextReconcileComes, DeadlinePasses, Statuses
<1>3. /\ pc \in {"poll", "wait"} => InFlight /\ Polled(cr.spec)
      /\ pc = "fire" => ~InFlight /\ ~RetriesLimitReached(seen.spec)
      /\ pc \in {"unexpected", "success"} => ops[op] \in Bodies
  BY <1>1 DEF Placed, Active, Inv, Counted
<1>4. QED
  BY <1>1, <1>2, <1>3, WalkInv DEF Active, HasAttempt

LEMMA EndInv ==
  ASSUME Inv, NEW o \in Ids, OperationEnds(o)
  PROVE  Inv'
<1>1. PICK end \in Bodies : ops' = [ops EXCEPT ![o] = end]
  BY DEF OperationEnds
<1>2. UNCHANGED <<cr, st, pc, seen, op, calls, lost, uncharged, since, faults>>
  BY DEF OperationEnds, History
<1>3. end \notin {"unused", "running", "refused"} /\ ops \in [Ids -> Bodies \cup {"unused", "running", "refused"}]
  BY ConstantsAssumption DEF Inv, TypeOK
<1>4. TypeOK'
  BY <1>1, <1>2, <1>3 DEF Inv, TypeOK
<1>5. Placed'
  BY <1>2 DEF Inv, Placed, Active, HasAttempt, InFlight, RetriesLimitReached
<1>6. Due' = Due /\ InFlight' = InFlight /\ HasAttempt' = HasAttempt
  BY <1>2 DEF Due, Attempts, InFlight, HasAttempt
<1>7. Counted'
  BY <1>1, <1>2, <1>3, <1>6 DEF Inv, Counted, OperationEnds
<1>8. QED
  BY <1>4, <1>5, <1>7 DEF Inv

LEMMA InitInv == Init => Inv
<1> SUFFICES ASSUME Init PROVE Inv
  OBVIOUS
<1>1. TypeOK
  BY ConstantsAssumption DEF Init, TypeOK, CRs, Statuses, PCs, InHandAt, Writes, Ids
<1>2. Placed /\ Counted
  BY DEF Init, Placed, Counted, Active, HasAttempt, InFlight
<1>3. QED
  BY <1>1, <1>2 DEF Inv

LEMMA NextInv == Inv /\ [Next]_vars => Inv'
<1> SUFFICES ASSUME Inv, [Next]_vars PROVE Inv'
  OBVIOUS
<1>1. CASE UNCHANGED vars
  BY <1>1 DEF vars, Inv, TypeOK, Placed, Counted, Active, HasAttempt, InFlight, Due, Attempts,
             RetriesLimitReached
<1>2. CASE Worker
  BY <1>2, ObserveInv, EnterInv, SendInv, PrepareInv, RecordInv, WriteInv, BeginInv, PollInv, WrapInv
     DEF Worker, Deploy
<1>3. CASE Environment
  BY <1>3, AbortInv, EditInv, ClockInv, EndInv DEF Environment
<1>4. QED
  BY <1>1, <1>2, <1>3 DEF Next

LEMMA Invariance == Spec => []Inv
BY InitInv, NextInv, PTL DEF Spec

(***************************************************************************)
(* Whatever specs, answers and bounds: no step leaves the object, its      *)
(* status or the attempt in hand malformed, and a request that succeeded   *)
(* has no failure on record (status_setters.go).                           *)
(***************************************************************************)
THEOREM TypeCorrect == Spec => []TypeOK
<1>1. Inv => TypeOK
  BY DEF Inv
<1>2. QED
  BY <1>1, Invariance, PTL

-----------------------------------------------------------------------------
(***************************************************************************)
(* The attempts that are neither charged nor lost yet: one at most.        *)
(***************************************************************************)
Owing == HasAttempt \/ InFlight

Owed == IF Owing THEN 1 ELSE 0

Balanced == Cardinality(Due) = st.failed + Owed

LEMMA DisjointSizes ==
  ASSUME NEW S, NEW T, IsFiniteSet(S), IsFiniteSet(T), S \cap T = {}
  PROVE  Cardinality(S \cup T) = Cardinality(S) + Cardinality(T)
<1>1. Cardinality(S \cup T) = Cardinality(S) + Cardinality(T) - Cardinality(S \cap T)
  BY FS_Union
<1>2. Cardinality(S \cap T) = 0
  BY FS_EmptySet
<1>3. Cardinality(S) \in Nat /\ Cardinality(T) \in Nat
  BY FS_CardinalityType
<1>4. QED
  BY <1>1, <1>2, <1>3

(* In terms of Owed, the property is arithmetic.                           *)
LEMMA Sizes ==
  ASSUME Inv
  PROVE  /\ IsFiniteSet(Due) /\ Cardinality(Due) \in Nat
         /\ IsFiniteSet(Attempts) /\ Cardinality(Attempts) \in Nat
         /\ IsFiniteSet(uncharged) /\ Cardinality(uncharged) \in Nat
         /\ Cardinality(Attempts) = Cardinality(Due) + Cardinality(uncharged \cap Attempts)
         /\ Cardinality(uncharged \cap Attempts) \in 0..Cardinality(uncharged)
         /\ Cardinality(Pending) = Owed
         /\ st.failed \in Nat /\ calls \in Nat
<1>1. TypeOK /\ Placed /\ Counted
  BY DEF Inv
<1>2. calls \in Nat /\ since \in Nat /\ st.failed \in Nat
  BY <1>1, ConstantsAssumption DEF TypeOK, Statuses
<1>3. IsFiniteSet((since + 1)..calls)
  BY <1>2, FS_Interval
<1>4. IsFiniteSet(Attempts)
  BY <1>3, FS_Subset DEF Attempts
<1>5. IsFiniteSet(Due) /\ IsFiniteSet(uncharged) /\ IsFiniteSet(uncharged \cap Attempts)
  <2>1. IsFiniteSet(Due) /\ IsFiniteSet(uncharged \cap Attempts)
    BY <1>4, FS_Subset DEF Due
  <2>2. IsFiniteSet(1..calls)
    BY <1>2, FS_Interval
  <2>3. IsFiniteSet(uncharged)
    BY <1>1, <2>2, FS_Subset DEF Counted
  <2>4. QED
    BY <2>1, <2>3
<1>6. Pending = IF HasAttempt THEN {op} ELSE IF InFlight THEN {st.anchor} ELSE {}
  BY <1>1 DEF Pending, InHand, HasAttempt, InHandAt, Writes, Placed
<1>7. Cardinality(Pending) = Owed
  BY <1>6, FS_Singleton, FS_EmptySet DEF Owed, Owing
<1>8. Cardinality(Attempts) = Cardinality(Due) + Cardinality(uncharged \cap Attempts)
  <2>1. Attempts = Due \cup (uncharged \cap Attempts) /\ Due \cap (uncharged \cap Attempts) = {}
    BY DEF Due
  <2>2. QED
    BY <1>4, <1>5, <2>1, DisjointSizes
<1>9. Cardinality(uncharged \cap Attempts) <= Cardinality(uncharged)
  BY <1>5, FS_Subset
<1>10. QED
  BY <1>2, <1>4, <1>5, <1>7, <1>8, <1>9, FS_CardinalityType

(* A step that counts nothing.                                             *)
LEMMA KeptBalanced ==
  ASSUME Balanced, UNCHANGED <<calls, lost, uncharged, since>>, st'.failed = st.failed, Owing' <=> Owing
  PROVE  Balanced'
BY DEF Balanced, Due, Attempts, Owed

(* The attempt owed is charged.                                            *)
LEMMA ChargedBalanced ==
  ASSUME Inv, Balanced, UNCHANGED <<calls, lost, uncharged, since>>, st'.failed = st.failed + 1,
         Owing, ~Owing'
  PROVE  Balanced'
BY Sizes DEF Balanced, Due, Attempts, Owed

(* The attempt owed succeeds, and those before it are forgiven.            *)
LEMMA ClearedBalanced ==
  ASSUME Inv, UNCHANGED calls, since' = calls, st'.failed = 0, ~Owing'
  PROVE  Balanced'
<1>1. calls \in Nat
  BY Sizes
<1>2. Due' = {}
  BY <1>1 DEF Due, Attempts
<1>3. QED
  BY <1>2, FS_EmptySet DEF Balanced, Owed

(* The attempt owed is lost, or its anchor refused.                        *)
LEMMA LostBalanced ==
  ASSUME Inv, Balanced, HasAttempt, UNCHANGED <<calls, since>>,
         \/ lost' = lost \cup {op} /\ UNCHANGED uncharged
         \/ uncharged' = uncharged \cup {op} /\ UNCHANGED lost,
         st'.failed = st.failed, ~Owing'
  PROVE  Balanced'
<1>1. op \in Due
  BY DEF Inv, Counted
<1>2. Due' = Due \ {op}
  BY DEF Due, Attempts
<1>3. Cardinality(Due') = Cardinality(Due) - 1
  BY <1>1, <1>2, Sizes, FS_RemoveElement
<1>4. QED
  BY <1>3, Sizes DEF Balanced, Owed, Owing

(* Another attempt is made.                                                *)
LEMMA SentBalanced ==
  ASSUME Inv, Balanced, SendHttpRequest
  PROVE  Balanced'
<1>1. /\ calls' = calls + 1 /\ UNCHANGED <<st, lost, uncharged, since>> /\ HasAttempt' /\ ~Owing
      /\ calls \in Nat /\ since \in Nat /\ since <= calls /\ lost \subseteq 1..calls
      /\ uncharged \subseteq 1..calls
  BY Sizes DEF SendHttpRequest, HasAttempt, Owing, Inv, Placed, TypeOK, Counted
<1>2. Due' = Due \cup {calls + 1} /\ calls + 1 \notin Due
  BY <1>1 DEF Due, Attempts
<1>3. Cardinality(Due') = Cardinality(Due) + 1
  BY <1>2, Sizes, FS_AddElement
<1>4. QED
  BY <1>1, <1>3, Sizes DEF Balanced, Owed, Owing

-----------------------------------------------------------------------------
LEMMA DeployBalanced ==
  ASSUME Judged, Inv, Balanced, Deploy
  PROVE  Balanced'
<1>1. st \in Statuses /\ TypeOK /\ Placed
  BY DEF Inv, TypeOK
<1>2. CASE EnterDeploy \/ PrepareRequestResource
  <2>1. UNCHANGED <<st, calls, lost, uncharged, since>> /\ (HasAttempt' <=> HasAttempt)
    BY <1>2 DEF EnterDeploy, PrepareRequestResource, Return, GoTo, HasAttempt, Remote, History
  <2>2. QED
    BY <2>1, KeptBalanced DEF Owing, InFlight
<1>3. CASE SendHttpRequest
  BY <1>3, SentBalanced
<1>4. CASE RecordFailure \/ RecordAnswer
  <2>1. ~Return
    <3>1. CASE RecordFailure
      BY <3>1 DEF RecordFailure, GoTo, Return
    <3>2. CASE RecordAnswer
      <4>1. seen.spec \in Specs /\ ~Polled(seen.spec) /\ ops[op] \in Bodies
        BY <1>1, <3>2, AnswerType DEF RecordAnswer, TypeOK, CRs
      <4>2. seen.spec.accepts[ops[op]] \in {"yes", "no"}
        BY <4>1, ConstantsAssumption DEF Judged, SpecRecords, Verdicts
      <4>3. QED
        BY <3>2, <4>2 DEF RecordAnswer, GoTo, Return
    <3>3. QED
      BY <1>4, <3>1, <3>2
  <2>2. UNCHANGED <<st, calls, lost, uncharged, since>> /\ HasAttempt /\ HasAttempt'
    BY <1>4, <2>1 DEF RecordFailure, RecordAnswer, GoTo, HasAttempt, Remote, History
  <2>3. QED
    BY <2>2, KeptBalanced DEF Owing, InFlight
<1>5. CASE WriteStatus
  <2>1. HasAttempt /\ ~InFlight /\ pc \in Writes /\ UNCHANGED <<calls, lost, uncharged>>
    BY <1>5, AnswerType DEF WriteStatus, Remote
  <2>2. CASE ~Unchanged
    <3>1. UNCHANGED <<st, since>> /\ HasAttempt'
      BY <1>5, <2>1, <2>2 DEF WriteStatus, HasAttempt
    <3>2. QED
      BY <2>1, <3>1, KeptBalanced DEF Owing
  <2>3. CASE Unchanged
    <3>1. st' = Setters(st) /\ ~HasAttempt' /\ since' = IF pc = "success" THEN calls ELSE since
      BY <1>5, <2>3 DEF WriteStatus, Return, HasAttempt
    <3>2. st'.anchor = None /\ ~Owing'
      BY <2>1, <3>1, SettersType DEF Owing, InFlight
    <3>3. CASE pc = "success"
      BY <2>1, <3>1, <3>2, <3>3, SettersType, ClearedBalanced
    <3>4. CASE pc # "success"
      BY <2>1, <3>1, <3>2, <3>4, SettersType, ChargedBalanced DEF Owing
    <3>5. QED
      BY <3>3, <3>4
  <2>4. QED
    BY <2>2, <2>3
<1>6. CASE BeginPolling
  <2>1. HasAttempt /\ ~InFlight /\ op # None /\ UNCHANGED <<calls, lost, since>>
    BY <1>6, AnswerType DEF BeginPolling, Remote, Ids, None
  <2>2. CASE Unchanged
    <3>1. st' = Touched([st EXCEPT !.anchor = op,
                                   !.started = IF @ = "nil" THEN "running" ELSE @])
          /\ pc' = "poll" /\ UNCHANGED uncharged
      BY <1>6, <2>2 DEF BeginPolling
    <3>2. st'.anchor = op /\ st'.failed = st.failed
      BY <1>1, <3>1 DEF Touched, Statuses
    <3>3. QED
      BY <2>1, <3>1, <3>2, KeptBalanced DEF Owing, InFlight
  <2>3. CASE ~Unchanged
    BY <1>6, <2>1, <2>3, LostBalanced DEF BeginPolling, Return, Owing, InFlight, HasAttempt
  <2>4. QED
    BY <2>2, <2>3
<1>7. QED
  BY <1>2, <1>3, <1>4, <1>5, <1>6 DEF Deploy

(* An outcome that is stored ends the operation; one that is refused, not. *)
LEMMA PollBalanced ==
  ASSUME Inv, Balanced, Poll
  PROVE  Balanced'
<1>1. /\ st \in Statuses /\ pc \in {"poll", "wait"} /\ InFlight /\ Owing /\ ~HasAttempt
      /\ ~HasAttempt' /\ UNCHANGED <<calls, lost, uncharged>>
  BY DEF Inv, TypeOK, Placed, Poll, PollBadURL, PollTimeout, PollRunning, PollError,
         FinalizeSuccess, PollBudgetSpent, FinalizeError, Persist, Polling, GoTo, Return,
         HasAttempt, Owing, Remote, History
<1>2. CASE UNCHANGED since /\ st'.anchor = st.anchor /\ st'.failed = st.failed
  BY <1>1, <1>2, KeptBalanced DEF Owing, InFlight
<1>3. CASE UNCHANGED since /\ st'.anchor = None /\ st'.failed = st.failed + 1
  BY <1>1, <1>3, ChargedBalanced DEF Owing, InFlight
<1>4. CASE PollBadURL \/ PollTimeout \/ PollError
  <2>1. UNCHANGED since /\ (st' = st \/ st' = Touched(Released(WithError(st))))
    BY <1>4 DEF PollBadURL, PollTimeout, PollError, FinalizeError, Persist, History
  <2>2. QED
    BY <1>1, <1>2, <1>3, <2>1, StatusType, ConstantsAssumption
<1>5. CASE FinalizeSuccess
  <2> DEFINE end == ops[st.anchor]
  <2>1. end \in Bodies
    BY <1>1, <1>5, EndedType DEF FinalizeSuccess
  <2>2. \/ UNCHANGED <<st, since>>
        \/ UNCHANGED since /\ st' = Touched(Answered(Released(WithError(st)), end))
        \/ since' = calls /\ st' = Touched(Answered(Released(WithSynced(st)), end))
    BY <1>5 DEF FinalizeSuccess, Persist
  <2> HIDE DEF end
  <2>3. CASE since' = calls /\ st' = Touched(Answered(Released(WithSynced(st)), end))
    <3>1. st'.failed = 0 /\ st'.anchor = None
      BY <1>1, <2>1, <2>3, StatusType
    <3>2. QED
      BY <1>1, <2>3, <3>1, ClearedBalanced DEF Owing, InFlight
  <2>4. QED
    BY <1>1, <1>2, <1>3, <2>1, <2>2, <2>3, StatusType
<1>6. CASE PollRunning
  BY <1>2, <1>6 DEF PollRunning, History
<1>7. CASE PollBudgetSpent
  <2>1. UNCHANGED since /\ (st' = st \/ st' = Touched(st))
    BY <1>7 DEF PollBudgetSpent, Persist, History
  <2>2. QED
    BY <1>1, <1>2, <2>1, StatusType, ConstantsAssumption
<1>8. QED
  BY <1>4, <1>5, <1>6, <1>7 DEF Poll

LEMMA RestBalanced ==
  ASSUME Inv, Balanced, Observe \/ SetErrorObserved \/ Environment \/ UNCHANGED vars
  PROVE  Balanced'
<1>1. st \in Statuses
  BY DEF Inv, TypeOK
<1>2. CASE Observe
  <2>1. /\ UNCHANGED <<calls, lost, uncharged, since>> /\ ~HasAttempt /\ ~HasAttempt'
        /\ st' = st \/ \E r \in {"available", "unavailable"} : st' = [st EXCEPT !.ready = r]
    BY <1>2 DEF Observe, StartReconcile, ObserveDeleted, ObserveExhausted, ObserveUnsynced,
       ObserveSynced, DropFinalizer, MarkCreatePending, Conflict, GoTo, Return, Refresh,
       HasAttempt, Remote, History
  <2>2. st'.failed = st.failed /\ st'.anchor = st.anchor
    BY <1>1, <2>1 DEF Statuses
  <2>3. QED
    BY <2>1, <2>2, KeptBalanced DEF Owing, InFlight
<1>3. CASE SetErrorObserved
  <2>1. /\ UNCHANGED <<calls, lost, uncharged, since>> /\ ~HasAttempt /\ ~HasAttempt'
        /\ st'.failed = st.failed /\ st'.anchor = st.anchor
    BY <1>1, <1>3 DEF SetErrorObserved, HasAttempt, Statuses, Remote, History
  <2>2. QED
    BY <2>1, KeptBalanced DEF Owing, InFlight
<1>4. CASE Abort
  <2>1. UNCHANGED <<st, calls, uncharged, since>> /\ lost' = lost \cup InHand /\ ~HasAttempt'
    BY <1>4 DEF Abort, HasAttempt, Remote
  <2>2. CASE HasAttempt
    BY <2>1, <2>2, LostBalanced DEF InHand, HasAttempt, InHandAt, Writes, Owing, InFlight, Inv, Placed
  <2>3. CASE ~HasAttempt
    BY <2>1, <2>3, KeptBalanced DEF InHand, HasAttempt, InHandAt, Writes, Owing, InFlight
  <2>4. QED
    BY <2>2, <2>3
<1>5. CASE (Environment /\ ~Abort) \/ UNCHANGED vars
  <2>1. /\ UNCHANGED <<pc, calls, lost, uncharged, since>>
        /\ st' = st \/ st' = [st EXCEPT !.last = "due"] \/ st' = [st EXCEPT !.started = "expired"]
    BY <1>5 DEF Environment, EditSpec, Delete, NextReconcileComes, DeadlinePasses, OperationEnds,
       Remote, History, vars
  <2>2. st'.failed = st.failed /\ st'.anchor = st.anchor
    BY <1>1, <2>1 DEF Statuses
  <2>3. QED
    BY <2>1, <2>2, KeptBalanced DEF Owing, InFlight, HasAttempt
<1>6. QED
  BY <1>2, <1>3, <1>4, <1>5

LEMMA BalanceInvariance == ASSUME Judged PROVE Spec => [](Inv /\ Balanced)
<1>1. Init => Balanced
  <2> SUFFICES ASSUME Init PROVE Balanced
    OBVIOUS
  <2>1. Due = {} /\ st.failed = 0 /\ ~Owing
    BY DEF Init, Due, Attempts, Owing, HasAttempt, InFlight
  <2>2. QED
    BY <2>1, FS_EmptySet DEF Balanced, Owed
<1>2. Inv /\ Balanced /\ [Next]_vars => Balanced'
  BY DeployBalanced, PollBalanced, RestBalanced DEF Next, Worker
<1>3. QED
  BY <1>1, <1>2, InitInv, NextInv, PTL DEF Spec

(***************************************************************************)
(* Every attempt is charged exactly once, whatever is refused, resumed or  *)
(* lost on the way (status_setters.go:31-37, polling.go:217-238), if an    *)
(* answer without a polling block can always be judged.                    *)
(***************************************************************************)
THEOREM AccountedHolds == ASSUME Judged PROVE Spec => []Accounted
<1>1. Inv /\ Balanced => Accounted
  BY Sizes DEF Balanced, Accounted
<1>2. QED
  BY <1>1, BalanceInvariance, PTL

-----------------------------------------------------------------------------
(***************************************************************************)
(* Every refused anchor is paid for by an edit: the one that made the copy *)
(* in the worker's hands an old one.                                       *)
(***************************************************************************)
Paid ==
  /\ Cardinality(uncharged) <= cr.gen - 1
  /\ pc = "record" => Cardinality(uncharged) <= seen.gen - 1
  /\ Active => seen.gen <= cr.gen /\ (seen.gen = cr.gen => seen = cr)
  /\ uncharged # {} => Polled(cr.spec)

(* A step of the worker that refuses no anchor.                            *)
LEMMA WalkPaid ==
  ASSUME Inv, Paid, UNCHANGED <<cr, uncharged>>,
         Active' => seen' = cr \/ (seen' = seen /\ Active),
         pc' = "record" => seen' = cr \/ (seen' = seen /\ pc = "record")
  PROVE  Paid'
<1>1. cr.gen \in Nat
  BY DEF Inv, TypeOK, CRs
<1>2. QED
  BY <1>1 DEF Paid

LEMMA BeginPaid ==
  ASSUME Inv, Paid, BeginPolling
  PROVE  Paid'
<1>1. /\ pc = "record" /\ Polled(seen.spec) /\ seen \in CRs /\ cr \in CRs /\ UNCHANGED cr
      /\ seen.gen \in Nat /\ cr.gen \in Nat /\ Polled(cr.spec)
  BY AnswerType DEF BeginPolling, Inv, TypeOK, CRs
<1>2. CASE Unchanged
  BY <1>1, <1>2, WalkPaid DEF BeginPolling, Active
<1>3. CASE ~Unchanged
  <2>1. uncharged' = uncharged \cup {op} /\ pc' = "wrap"
    BY <1>3 DEF BeginPolling, Return
  <2>2. seen.gen < cr.gen /\ Cardinality(uncharged) <= seen.gen - 1
    BY <1>1, <1>3 DEF Paid, Active, Unchanged
  <2>3. IsFiniteSet(uncharged) /\ Cardinality(uncharged) \in Nat
    BY Sizes
  <2>4. Cardinality(uncharged') <= Cardinality(uncharged) + 1
    BY <2>1, <2>3, FS_AddElement
  <2>5. Cardinality(uncharged') \in Nat
    BY <2>1, <2>3, FS_AddElement, FS_CardinalityType
  <2>6. QED
    BY <1>1, <2>1, <2>2, <2>3, <2>4, <2>5 DEF Paid, Active
<1>4. QED
  BY <1>2, <1>3

LEMMA EditPaid ==
  ASSUME Inv, Paid, EditSpec \/ Delete \/ DropFinalizer
  PROVE  Paid'
<1>1. cr \in CRs /\ cr.gen \in Nat /\ (Active => seen \in CRs) /\ UNCHANGED uncharged
      /\ Cardinality(uncharged) \in Nat
  BY Sizes DEF Inv, TypeOK, CRs, Active, EditSpec, Delete, DropFinalizer, History
<1>2. Active => seen.gen \in Nat
  BY <1>1 DEF CRs
<1>3. CASE EditSpec \/ Delete
  <2>1. cr'.gen = cr.gen + 1 /\ (Polled(cr'.spec) <=> Polled(cr.spec)) /\ UNCHANGED <<pc, seen>>
    <3>1. CASE EditSpec
      <4>1. PICK s \in Specs : /\ Polled(s) = Polled(cr.spec)
                               /\ cr' = [cr EXCEPT !.spec = s, !.gen = @ + 1]
        BY <3>1 DEF EditSpec
      <4>2. cr'.gen = cr.gen + 1 /\ cr'.spec = s
        BY <1>1, <4>1 DEF CRs
      <4>3. QED
        BY <3>1, <4>1, <4>2, ZenonT(60) DEF EditSpec
    <3>2. CASE Delete
      BY <1>1, <3>2 DEF Delete, CRs
    <3>3. QED
      BY <1>3, <3>1, <3>2
  <2>2. QED
    BY <1>1, <1>2, <2>1 DEF Paid, Active
<1>4. CASE DropFinalizer
  <2>1. cr'.gen = cr.gen /\ cr'.spec = cr.spec /\ pc' = "idle"
    BY <1>1, <1>4 DEF DropFinalizer, CRs
  <2>2. QED
    BY <1>1, <2>1 DEF Paid, Active
<1>5. QED
  BY <1>3, <1>4

LEMMA PaidInvariance == Spec => [](Inv /\ Paid)
<1>1. Init => Paid
  BY FS_EmptySet DEF Init, Paid, Active
<1>2. Inv /\ Paid /\ [Next]_vars => Paid'
  <2> SUFFICES ASSUME Inv, Paid, [Next]_vars PROVE Paid'
    OBVIOUS
  <2>1. CASE BeginPolling
    BY <2>1, BeginPaid
  <2>2. CASE EditSpec \/ Delete \/ DropFinalizer
    BY <2>2, EditPaid
  <2>3. CASE (Observe /\ ~DropFinalizer) \/ SetErrorObserved
    <3>1. /\ UNCHANGED <<cr, uncharged>> /\ pc' # "record"
          /\ Active' => seen' = cr \/ (seen' = seen /\ Active)
      BY <2>3 DEF Observe, StartReconcile, ObserveDeleted, ObserveExhausted, ObserveUnsynced,
         ObserveSynced, MarkCreatePending, Conflict, SetErrorObserved, GoTo, Return, Refresh,
         Active, Remote, History
    <3>2. QED
      BY <3>1, WalkPaid
  <2>4. CASE (Deploy /\ ~BeginPolling) \/ Poll
    <3>1. /\ UNCHANGED <<cr, uncharged>> /\ (pc' = "record" => seen' = cr)
          /\ Active' => seen' = cr \/ (seen' = seen /\ Active)
      BY <2>4 DEF Deploy, EnterDeploy, SendHttpRequest, PrepareRequestResource, RecordFailure,
         RecordAnswer, WriteStatus, Writes, Poll, PollBadURL, PollTimeout, PollRunning, PollError,
         FinalizeSuccess, PollBudgetSpent, FinalizeError, Persist, Polling, GoTo, Return,
         Refresh, Active, Remote, History
    <3>2. QED
      BY <3>1, WalkPaid
  <2>5. CASE Abort
    BY <2>5, WalkPaid DEF Abort, Active
  <2>6. CASE (Environment /\ ~Abort /\ ~EditSpec /\ ~Delete) \/ UNCHANGED vars
    BY <2>6, WalkPaid DEF Environment, NextReconcileComes, DeadlinePasses, OperationEnds, Active,
       Remote, History, vars
  <2>7. QED
    BY <2>1, <2>2, <2>3, <2>4, <2>5, <2>6 DEF Next, Worker, Environment
<1>3. QED
  BY <1>1, <1>2, InitInv, NextInv, PTL DEF Spec

(* When the worker sends, the count of the failures is exact.              *)
LEMMA SentWithinLimit ==
  ASSUME Inv, Balanced, Next, Sent, seen.spec.limit # None
  PROVE  /\ seen.spec.limit \in Nat /\ Cardinality(Due) < seen.spec.limit
         /\ Polled(seen.spec) <=> Polled(cr.spec)
<1>1. SendHttpRequest
  BY DEF Sent, Next, Worker, Observe, Deploy, Poll, Environment, StartReconcile,
     ObserveDeleted, ObserveExhausted, ObserveUnsynced, ObserveSynced, DropFinalizer,
     MarkCreatePending, Conflict, EnterDeploy, PrepareRequestResource, RecordFailure,
     RecordAnswer, WriteStatus, BeginPolling, PollBadURL, PollTimeout, PollRunning, PollError,
     FinalizeSuccess, PollBudgetSpent, SetErrorObserved, Abort, EditSpec, Delete,
     NextReconcileComes, DeadlinePasses, OperationEnds, Remote, History
<1>2. /\ pc = "fire" /\ ~InFlight /\ ~HasAttempt /\ ~RetriesLimitReached(seen.spec)
      /\ Polled(seen.spec) <=> Polled(cr.spec)
  BY <1>1 DEF SendHttpRequest, HasAttempt, Inv, Placed, Active
<1>3. seen.spec.limit \in Nat
  BY <1>2, ConstantsAssumption DEF Inv, TypeOK, CRs, SpecRecords
<1>4. Cardinality(Due) = st.failed
  BY <1>2, Sizes DEF Balanced, Owed, Owing
<1>5. QED
  BY <1>2, <1>3, <1>4, Sizes DEF RetriesLimitReached

(***************************************************************************)
(* Under the same assumption no request is sent more often since its last  *)
(* success than rollbackRetriesLimit says (README.md:483), plus once for   *)
(* each edit where there is a polling block (polling.go:83): the count is  *)
(* checked before the worker sends, and is exact when it does.             *)
(***************************************************************************)
THEOREM CapHolds == ASSUME Judged PROVE Spec => AttemptsCapped
<1>1. Inv /\ Balanced /\ Paid /\ [Next]_vars
        => [Sent => \/ seen.spec.limit = None
                    \/ Cardinality(Attempts) < seen.spec.limit + Allowance]_vars
  <2> SUFFICES ASSUME Inv, Balanced, Paid, Next, Sent, seen.spec.limit # None
               PROVE  Cardinality(Attempts) < seen.spec.limit + Allowance
    BY DEF Sent, vars
  <2>1. /\ seen.spec.limit \in Nat /\ Cardinality(Due) < seen.spec.limit
        /\ Polled(seen.spec) <=> Polled(cr.spec)
    BY SentWithinLimit
  <2>2. cr.gen \in Nat
    BY DEF Inv, TypeOK, CRs
  <2>3. Cardinality(uncharged \cap Attempts) <= Allowance /\ Allowance \in Int
    <3>1. CASE Polled(seen.spec)
      BY <2>2, <3>1, Sizes DEF Allowance, Paid
    <3>2. CASE ~Polled(seen.spec)
      BY <2>1, <3>2, Sizes, FS_EmptySet DEF Allowance, Paid
    <3>3. QED
      BY <3>1, <3>2
  <2>4. QED
    BY <2>1, <2>3, Sizes
<1>2. QED
  BY <1>1, BalanceInvariance, PaidInvariance, PTL DEF Spec, AttemptsCapped
================================================================================
