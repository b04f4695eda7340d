------------------------------ MODULE Operation ------------------------------
(***************************************************************************)
(* What an AsyncRequest promises about the operations it has the remote    *)
(* API carry out, whatever its status, its worker and its clock look like: *)
(* one at a time, each followed to its end, none under a verdict, and the  *)
(* object is not let go before the last one is settled.                    *)
(***************************************************************************)
CONSTANT Ops          \* The operations.

VARIABLES
  phase,    \* How far each of them is.
  verdict,  \* A terminal failure stands for the current spec.
  closed    \* The object is gone.

vars == <<phase, verdict, closed>>

(* lost: accepted, but the answer went with a dead worker or connection.   *)
Phases == {"unused", "running", "ended", "settled", "lost"}

Pending == {o \in Ops : phase[o] \in {"running", "ended"}}

(* What was there before the object, it imports.                           *)
Init ==
  /\ phase \in [Ops -> {"unused", "settled"}]
  /\ verdict = FALSE /\ closed = FALSE

(* One at a time.  A synchronous API is done when it answers.              *)
Fire(o) ==
  /\ Pending = {} /\ ~verdict /\ ~closed
  /\ phase[o] = "unused"
  /\ phase' \in {[phase EXCEPT ![o] = p] : p \in {"running", "ended", "lost"}}
  /\ UNCHANGED <<verdict, closed>>

End(o) ==
  /\ phase[o] = "running"
  /\ phase' = [phase EXCEPT ![o] = "ended"]
  /\ UNCHANGED <<verdict, closed>>

Lose(o) ==
  /\ o \in Pending
  /\ phase' = [phase EXCEPT ![o] = "lost"]
  /\ UNCHANGED <<verdict, closed>>

(* It is over for good, and may have been the last straw.                  *)
Settle(o) ==
  /\ phase[o] = "ended" /\ ~verdict
  /\ phase' = [phase EXCEPT ![o] = "settled"]
  /\ verdict' \in BOOLEAN
  /\ UNCHANGED closed

(* A verdict leaves the operation as it is, and so does its end.           *)
Judge == ~verdict /\ verdict' = TRUE /\ UNCHANGED <<phase, closed>>

Absolve == verdict /\ verdict' = FALSE /\ UNCHANGED <<phase, closed>>

Close ==
  /\ Pending = {} /\ ~closed
  /\ closed' = TRUE
  /\ UNCHANGED <<phase, verdict>>

Next ==
  \/ \E o \in Ops : Fire(o) \/ End(o) \/ Lose(o) \/ Settle(o)
  \/ Judge \/ Absolve \/ Close

Spec == Init /\ [][Next]_vars
=============================================================================
