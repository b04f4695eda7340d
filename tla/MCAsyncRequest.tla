--------------------------- MODULE MCAsyncRequest ---------------------------
(***************************************************************************)
(* Specs for model checking AsyncRequest.                                  *)
(***************************************************************************)
EXTENDS AsyncRequest

Mapping(create, update, remove) ==
  [a \in Actions |-> IF a = "CREATE" THEN create
                     ELSE IF a = "UPDATE" THEN update ELSE remove]

(* A resource keyed by .status.externalRef, every mutate polled.           *)
PolledSpec ==
  [ url |-> "externalRef", mapping |-> Mapping("poll", "poll", "poll"),
    pollURL |-> "valid", pollError |-> TRUE, externalRef |-> TRUE,
    isTerminal |-> FALSE, custom |-> {}, posts |-> {"CREATE"}, payload |-> "p" ]

(* Edits that break polling.url or drop the UPDATE mapping, and back.      *)
PolledFamily ==
  { PolledSpec,
    [PolledSpec EXCEPT !.payload = "q", !.isTerminal = TRUE, !.pollURL = "malformed",
                       !.posts = Actions],
    [PolledSpec EXCEPT !.custom = {"upToDate"}, !.mapping = Mapping("poll", "none", "poll")] }

(* The same, for a resource whose edits only change what is desired.       *)
LiveFamily == { PolledSpec, [PolledSpec EXCEPT !.payload = "q", !.isTerminal = TRUE] }

(* Plain mutates, keyed by the stored response, by a constant URL or by    *)
(* the identity, all sent by POST where an identity is extracted; and the  *)
(* two mistakes: a polled mapping keyed by the response, and a polling     *)
(* block on an API that answers synchronously.                             *)
PlainSpec ==
  [ PolledSpec EXCEPT !.url = "response", !.mapping = Mapping("sync", "sync", "sync"),
                      !.posts = Actions ]

PlainFamily ==
  { PlainSpec,
    [PlainSpec EXCEPT !.payload = "q", !.isTerminal = TRUE, !.custom = {"upToDate"},
                      !.posts = Actions \cup {"OBSERVE"}],
    [PlainSpec EXCEPT !.mapping = Mapping("poll", "sync", "sync"), !.pollURL = "empty"],
    [PlainSpec EXCEPT !.url = "constant", !.externalRef = FALSE, !.posts = {"CREATE"}],
    [PolledSpec EXCEPT !.pollURL = "empty"],
    [PlainSpec EXCEPT !.url = "externalRef"] }

Everything == { PolledFamily, PlainFamily }
LiveOnly == { LiveFamily }

(* The shapes of the counterexamples.                                      *)
OneSpec      == { {PolledSpec} }
StuckSpecs   == { {[PolledSpec EXCEPT !.mapping = Mapping("poll", "none", "poll")]} }
PlainRemove  == { {PolledSpec, [PolledSpec EXCEPT !.mapping = Mapping("poll", "poll", "sync"),
                                                  !.payload = "q"]} }
Anonymous    == [PlainSpec EXCEPT !.externalRef = FALSE, !.posts = {"CREATE"}]
AbandonSpecs == { {Anonymous, [Anonymous EXCEPT !.isTerminal = TRUE, !.payload = "q"]} }
ExistsSpecs  == { {[PlainSpec EXCEPT !.custom = {"exists"}, !.posts = {"CREATE"}]} }
PostedRemove == { {[Anonymous EXCEPT !.url = "constant", !.posts = {"CREATE", "REMOVE"}]} }
=============================================================================
