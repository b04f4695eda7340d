------------------------ MODULE MCDisposableRequest ------------------------
(***************************************************************************)
(* Specs for model checking DisposableRequest.                             *)
(***************************************************************************)
EXTENDS DisposableRequest

Judging(good, failed) == [b \in Bodies |-> IF b = "good" THEN good ELSE failed]

(* One polled attempt that has to answer "good".                           *)
LROSpec ==
  [ polling |-> "valid", pollError |-> TRUE, limit |-> 2, next |-> FALSE,
    loop |-> FALSE, accepts |-> Judging("yes", "no") ]

PlainSpec == [LROSpec EXCEPT !.polling = "none"]

(* Polled: a loop that waits for nextReconcile and cannot judge a failed   *)
(* operation; one without polling.error; a malformed polling.url and an    *)
(* expectedResponse that judges no success.  Plain: one whose retries wait *)
(* for nextReconcile, and a loop without limit, judged the other way round.*)
OneOffSpecs ==
  { LROSpec,
    [LROSpec EXCEPT !.next = TRUE, !.loop = TRUE, !.limit = 3, !.pollError = FALSE,
                    !.accepts = Judging("yes", "error")],
    [LROSpec EXCEPT !.pollError = FALSE],
    [LROSpec EXCEPT !.polling = "malformed", !.limit = 1, !.accepts = Judging("error", "no")],
    [PlainSpec EXCEPT !.next = TRUE],
    [PlainSpec EXCEPT !.limit = None, !.loop = TRUE, !.accepts = Judging("no", "yes")] }

(* The shape of the counterexample.                                        *)
UnjudgedSpecs == { [PlainSpec EXCEPT !.limit = 1, !.accepts = Judging("yes", "error")] }
=============================================================================
