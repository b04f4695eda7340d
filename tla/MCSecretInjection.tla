------------------------- MODULE MCSecretInjection -------------------------
(***************************************************************************)
(* Two objects that share a Secret, for model checking SecretInjection.    *)
(***************************************************************************)
EXTENDS SecretInjection, TLC

CONSTANTS
  async, disposable, secret,
  token, copy, user, key,    \* Keys of the Secret.
  tok1, tok2, once, creds, id\* What is answered.

TwoNamespaces == [x \in {async, disposable, secret} |-> IF x = async THEN "a" ELSE "b"]

Injection(mappings) ==
  [ secret |-> secret, keyMappings |-> mappings,
    labels |-> [l \in Labels |-> "id"], setOwnerReference |-> TRUE ]

Map(k, f, missing) == [key |-> k, field |-> f, missing |-> missing]

(* Both would own the Secret, one of them from another namespace.  The     *)
(* disposable request injects an object, twice, and a header.              *)
SharedConfigs == [o \in {async, disposable} |->
  IF o = async
  THEN <<Injection(<<Map(token, "token", "preserve")>>)>>
  ELSE <<Injection(<<Map(user, "creds", "preserve"), Map(copy, "creds", "setEmpty"), Map(key, "auth", "delete")>>)>>]

NeedsOfAsync == [o \in {async, disposable} |-> IF o = async THEN {"id", "token"} ELSE {}]

Answer(t, c) == ("id" :> id) @@ ("token" :> t) @@ ("auth" :> t) @@ ("creds" :> c)

(* A token that is shown, then another one, then no more.                  *)
SharedAnswers == [o \in {async, disposable} |->
  IF o = async THEN <<Answer(tok1, Missing), Answer(tok2, Missing), Answer(Missing, Missing)>>
  ELSE <<Answer(once, creds)>>]

(* What the proof of FromItsField assumes of the configs holds of these.   *)
ASSUME SharedConfigsSeparate == Separate
=============================================================================
