# provider-http-async in TLA+

TLA+ models of the Crossplane provider in this repository, TLC runs that check
them on small instances, and TLAPS proofs of what holds for every instance.
Paths below are relative to the repository; `deployaction.go`, `observe.go` and
`poller.go` without a directory are those of `internal/service/request`.

## 1. The system

The provider reconciles two kinds of custom resource, each cluster-scoped and
namespaced, against an HTTP API that the resource's spec describes.

| Component | State it keeps | Operations | Hard part |
|---|---|---|---|
| AsyncRequest controllers (`internal/controller/{namespaced,cluster}/request`) | none of its own; the object and its status are in the API server | `Connect`, `Observe`, `Create`, `Update`, `Delete`, called by crossplane-runtime's managed reconciler | each of them fetches the object anew, so one reconcile sees several versions of it |
| Observation (`observe.go`, `observe/*.go`) | reads `polling.response` (the anchor), `externalRef`, `terminalError`, `observedGeneration`, `response` | `IsUpToDate`: verdict, anchor, identity gates, OBSERVE call, isRemoved / resourceExists / expectedResponse checks, `clearTerminalError` | a wrong "absent" creates a second remote resource or drops the finalizer over a live one |
| `DeployAction` (`deployaction.go`) | writes anchor, `startedAt`, `externalRef`, `response` | fire or resume, classify a refusal, extract the id, finish or release an operation | crash between the call and the anchor; several status writes that belong together |
| Poll loop (`polling/poller.go`) | `startedAt` | `Poll` (deadline, budget, GET, done, error), `SetTerminalFailure` | an operation outlives reconciles, edits, verdicts and deletion |
| Status handler (`statushandler`, `internal/utils/set_status.go`) | `response`, failure counters | retried status writes | a write is repeated on a conflict, on another version of the object |
| AsyncDisposableRequest controllers (`internal/controller/*/disposablerequest`) | `synced`, `failed`, `error`, `lastReconcileTime`, conditions | the same four; a wrapper that keeps the ErrorObserved condition | limit, loop, delay and in-flight operation decide together |
| Disposable service (`internal/service/disposablerequest`) | `polling.*`, `response` | send, judge, begin / resume / finalize polling | plain optimistic writes next to retried ones; an attempt must be charged once |
| Retry policy (`internal/utils/retry.go`) | - | `ShouldRetry`, `RetriesLimitReached` | the boundary of the limit |
| Request generation (`requestgen`, `requestmapping`, `requestprocessing`, `internal/json`, `internal/jq`) | a cached response | mapping lookup, templating | a template that misses a field |
| Secret injection (`internal/data-patcher`, `internal/kube-handler`) | Kubernetes Secrets shared by objects; `status.response` and `status.cache` with placeholders | get or create a Secret, own it, extract a value per mapping, label it, put a placeholder into the stored response, resolve placeholders on the way out | several objects write one Secret without a retry; the value may be answered only once; a stored answer is injected again |
| Connect (`Connect` of the four controllers, `internal/clients/http/{auth,tls_loader}.go`, `apis/common`) | one client per reconcile | resolve the provider configuration, merge its blocks with the resource's, select an authentication, load TLS material | field-wise merge; certificate and key are read one after the other; four controllers that differ |
| Token sources (`internal/clients/{gcp,oidc}`) | one cached token per client | exchange, impersonate, reuse | expiry arithmetic, with the time an exchange takes |
| HTTP client (`internal/clients/http`) | - | one call | a lost answer looks like a lost call |
| Set-up (`cmd/provider`, config controllers, `apis`) | - | flags, registration, types | none of its own |

How they interact. The work queue of controller-runtime hands one object at a
time to a worker, and never the same object to two. The managed reconciler calls
`Connect` and `Observe`; "absent" leads to `Create` (after an optimistic write of
the create-pending annotation) or, on a deleted object, to the removal of the
finalizer; "present" leads to `Delete` on a deleted object and to `Update` on one
that is not up to date. `Create`, `Update` and `Delete` all end in
`DeployAction`. Users edit and delete the object at any moment; the remote API
accepts a call and works on it for longer than a reconcile; the process may stop
between any two calls. What has to survive all this is the status:

* `status.polling.response`, the *anchor*: the stored answer of the mutating call.
  While it is set the call is never fired again and its operation is polled.
* `status.externalRef`, the identity of the remote resource.
* `status.polling.terminalError` with `observedGeneration`, a *verdict*: the
  object stalls until its spec changes.
* for a disposable request, the count of failed attempts.

What makes it correct, per component:

* Observation and DeployAction: one object never owns two remote resources; the
  finalizer goes only when nothing is left; an operation under way is never
  forgotten; an identity is not exchanged while the resource lives; the resource
  comes to be as the spec says.
* Verdicts: nothing is fired under a verdict; it keeps the anchor of an operation
  whose state is unknown and drops that of a dead one; it concerns the spec it
  is charged to.
* Poll loop: every poll has a clock that runs over requeues; an operation that
  ended is noticed; a deletion ends.
* Disposable requests: each attempt is charged exactly once; the limit holds, and
  where an edit can break it, by a known number; the request comes to an end; a
  used-up limit is visible.
* Secret injection: what other objects and users wrote into a Secret survives; a
  key holds a value of its field and never a placeholder; what a placeholder
  stands for is in the Secret; an object that could be templated once can always
  be; a value that goes on being answered arrives.
* Connect and the token sources: no expired token is sent; a call is made with the
  certificate, key and CA that resource and configuration name between them; it
  carries the credential of one mechanism, and of none only where none was given;
  a connection that can be made again is made with what is configured now.

## 2. Modules

| Module | What it is |
|---|---|
| `AsyncRequest` | one AsyncRequest, its controller, its users and the remote API |
| `MCAsyncRequest` | the specs that its runs instantiate |
| `Operation` | the contract an AsyncRequest keeps with the remote API, without its machinery |
| `AsyncRequestProofs` | theorems about `AsyncRequest`, with proofs |
| `AsyncRequestRefinement` | the proof that `AsyncRequest` implements `Operation` |
| `AsyncRequestIdentity` | proofs about the remote resources behind an `AsyncRequest` with polled mappings |
| `AsyncRequestPlain` | the same for plain mappings |
| `DisposableRequest` | the same as `AsyncRequest` for one AsyncDisposableRequest |
| `MCDisposableRequest` | the specs of its run |
| `DisposableRequestProofs` | theorems about `DisposableRequest`, with proofs |
| `SecretInjection` | objects of both kinds that share Kubernetes Secrets |
| `MCSecretInjection` | an AsyncRequest and an AsyncDisposableRequest on one Secret |
| `SecretInjectionProofs` | theorems about `SecretInjection`, with proofs: who writes where |
| `SecretInjectionContents` | more of them: what Secrets, labels and stored answers contain |
| `Connection` | Connect of the four controllers, their tokens and what their calls carry |
| `MCConnection` | one object of every kind, with its specs and provider configurations |
| `ConnectionProofs` | theorems about `Connection`, with proofs |

`AsyncRequest` and `DisposableRequest` take for granted that a call can be made and
that its template resolves; a call that cannot be made is one of their faults.
`Connection` is about the former and `SecretInjection` about the latter: each looks
at a reconcile from one side, with a program counter of its own, and the four are
not multiplied with each other.

### AsyncRequest

The worker is a program counter `pc` and what it holds in memory: `seen`, the
version of the object it fetched last, and `job`, what it carries on from earlier
steps (the mapping's kind, the generation it was read from, a cause). Each HTTP
call and each status write is one action, so that everything else may happen
between two of them. In code order:

| `pc` | Actions | Code |
|---|---|---|
| idle | `StartReconcile` | `Observe` up to the seeding of externalRef (`request.go:272-298`) |
| observe | `ObserveAbandons`, `ObserveStalls`, `ClearTerminalError`, `ObserveResumesCreate`, `ObserveInFlight`, `ObserveRejectsIdentity`, `ObserveUnidentified`, `ObserveCall` | the branches of `IsUpToDate` (`observe.go:114-403`) |
| report | `ObserveReport` | the status write of `Observe` (`request.go:326-358`) |
| absent, present | `DropFinalizer`, `MarkCreatePending`, `Conflict`, `ActOnPresent` | crossplane-runtime (external) |
| deploy | `EnterDeploy` | the fetch in `Create`/`Update`/`Delete` and the head of `DeployAction` |
| fire | `FireAccepted`, `FireAnswerLost`, `FireRefused` | `SendRequest` (`deployaction.go:50-60`) |
| refused | `RecordRefusal` | status write and `classifyMutateTerminalError` |
| externalRef, response | `ExtractExternalRef`, `ExtractionFails`, `RecordResponse` | a plain mutate that succeeded (`deployaction.go:78-104`) |
| anchor, restart | `PersistAnchor`, `RestartClock` | `deployaction.go:140-164` |
| poll, wait | `PollWithoutBlock`, `PollBadURL`, `PollTimeout`, `PollGet`, `PollBudgetSpent` | `Poll` |
| finish | `FinishOperation` | `extractAndPersistExternalRef` |
| failed, release | `RecordOperationFailure`, `ReleaseAnchor` | `handlePollOperationFailure` |
| terminal | `SetTerminalFailure` | `poller.go:355-373` |
| any | `Abort` | a crash, a refused API call, a jq failure: memory is lost |

The stored status is `st` and the stored object `cr`. The remote API is `ops`,
the calls it accepted (numbered; a CREATE's number is also the id of what it
makes), and `res`, its resources. `lost` records the accepted calls whose answer,
or the id in it, never reached the status: of them the controller cannot know, and
the safety properties speak of the others. `judged` records which generation the last
verdict was drawn from.

`Families` is the set of families of specs: an object starts with a member of one
and is edited within it. Whether the remote resource was created is not told from
the action that was fired but from the stored method: `st.created` is what
`isObjectValidForObservation` (`observe.go:430-439`) makes of the stored call, and
`posts`, the actions whose mapping sends a POST (OBSERVE may be one), decides with the
refusal of a call, whichever it is. The annotation that imports a resource is there
from the start or not at all.

Abstracted: URLs, headers and bodies become "which resource the URL addresses",
"whether the answer names an operation" and "what the resource looks like"
(`payload`); a jq expression becomes its outcome. A healthy OBSERVE tells the
truth; a faulty one (5xx, no answer) leaves a DEFAULT check to the status code
and a CUSTOM check to an arbitrary outcome. Time is `started`: nil, running or
expired. One call is left out: `DeployAction` looks for the id in the answer of a
plain mutate before it knows that the answer is an error (`deployaction.go:78`); the
model takes such an answer to carry no id.

### DisposableRequest

`Observe` is `ObserveDeleted`, `ObserveExhausted`, `ObserveUnsynced` and
`ObserveSynced`; `DeployAction` is `EnterDeploy`, `SendHttpRequest`,
`PrepareRequestResource`, `RecordFailure`, `RecordAnswer` and `BeginPolling`; the
poll loop is `PollBadURL`, `PollTimeout`, `PollRunning`, `PollError`,
`FinalizeSuccess` and `PollBudgetSpent`; the wrapper is `SetErrorObserved`. The two
kinds of status write are kept apart. `SetRequestResourceStatus` is `WriteStatus`:
`Setters` on the copy in memory and an optimistic write of it; a conflict fetches the
object again, which takes the effect of the setters back, and they run once more, with
everything else in between. Five conflicts in a row give the write up, which is one of
the failures of `Abort`. `persistStatus` does not repeat itself, so an edit made since
the object was fetched refuses it (`Persist`, `BeginPolling`).

Attempts are numbered and `ops` holds what became of each. `lost` are those whose
result a crash or a failing API server kept from the status, `uncharged` those whose
anchor an edit refused while the worker was alive, and `since` is the number of
attempts at the last success.

### Operation

An operation of the remote API is unused, running, ended, settled, or lost with the
worker that would have stored its answer; besides there is a verdict, and the object
may be closed. `Fire` only when nothing is pending, no verdict stands and the object
is open; `Settle` only what has ended; `Close` only when nothing is pending.
`AsyncRequest!Phase` is the refinement mapping: a call is *ended* once the remote API
is done with it, for as long as it is anchored or in the worker's hand, and
*settled* when it is neither. `ImplementsOperation` is the contract's specification
under this mapping.

### SecretInjection

Every object is a worker (`worker[o]`: position, config, mapping, the original answer
and the answer as it is being rewritten); the Secrets are in the API server
(`secrets`), each worker holds a copy (`held`), and `fresh` are the workers whose copy
is still the latest: the resource version, as far as an update can tell. Every call
to the API server is an action, in code order:

| `pc` | Actions | Code |
|---|---|---|
| idle | `ReceiveAnswer`, `ReceiveFailure`, `Replay` | a call that is answered or not, and `ValidateStoredResponse`, which injects the stored answer of a disposable request again |
| get | `Get`, `GetFromCache`, `Create` | `GetOrCreateSecret` (`kube-handler/client.go`); the cache may lag behind |
| own | `SetOwnerReference` | the owner reference, which Kubernetes restricts to one namespace, and its update |
| patch | `AlreadyReplaced`, `PatchKey` | `updateSecretWithPatchedValue` and `replaceSensitiveValues`, one mapping each |
| metadata | `SyncLabels` | `updateSecretLabelsAndAnnotations` |
| store | `StoreAnswer` | the status write, with the rule of `shouldSetCache` |
| any | `Abort`; `RemoveSecret`, `ChangeAnswer` | a crash; a user and the remote API |

An answer maps fields to values, `Missing`, or placeholders (a Secret and a key).
`Nulls` are the values that contain the word null: a request that is templated with
one, in its payload too, is not valid and falls back to the cached answer
(`IsRequestValid`, `request_generator.go:171-175`). An empty body leaves the stored one
(`Overwritten`, `set_status.go:51-57`); status code and headers are always there.
`Replacements` is the textual replacement of a value wherever it occurs in the answer,
which is why two mappings of one field, or one value in two fields, are in the
instance.

### Connection

`Connect` is one action per read of the API server: `Track`, `GetConfig`,
`BuildHTTPClient` (selection of the mechanism and extraction of credentials),
`NoDefaultCredentials` and `LoadTLSConfig` (CA, certificate, key, one after the
other). The four controllers are four disjuncts because they differ: in how they
resolve the configuration and in the credential sources they admit. Then come
`SendRequest`, `RequestToken`, `ReceiveToken`, `ExchangeFails` and `Finish`; users
change configurations (`EditConfig`) and Secrets (`EditSecrets`, all keys of one at
once), and time passes (`Tick`). The merges of GCP, OIDC and TLS blocks
(`MergeGCPConfigs`, `MergeOIDCConfigs`, `MergeTLSConfigs`), `ValidateAuthSelection`,
the expiry of each kind of token and the decorators that add headers are operators.
A token is what is left of its life and for how long it is cached. A Secret is
missing, without the key, empty there, or holds one of the versions; what is loaded
from it is a `Half`, and says which Secret it came from. A call in the model is the
headers it carries by mechanism, whether their token was alive, and the two halves of
its certificate. `TimeoutOf` bounds an exchange by the package's timeout, and a
fetch of Google's own default credentials, which the package leaves to the SDK
(`gcp_client.go:37-41`), by `Patience`.

## 3. Runs

| Run | Expect | Question | Bounds | States |
|---|---|---|---|---|
| `safety` | pass | all safety properties of polled and plain resources | 3 accepted calls, 3 spec generations, 2 faults, new or imported, 2 families of 3 and 6 specs | 1.4M |
| `live` | pass | the contract `Operation`, deletion, noticing, convergence | 4 calls, 2 generations, 1 fault, 2 specs | 36k |
| `disposable` | pass | accounting, cap, termination, visibility | 3 attempts, 2 generations, 1 fault, 6 specs | 442k |
| `secrets` | pass | isolation, provenance, placeholders, templating, convergence | 2 objects in two namespaces, 1 Secret, 4 keys, 3 successive answers, 2 faults | 440k |
| `connect` | pass | expiry, TLS as named, one mechanism, reconnection | 1 object of 4 kinds, 4 specs, 6 configurations, 2 Secrets with 5 keys in 2 versions, 2 events | 690k |
| `verdict_race` | violation | is a verdict drawn from the version it is charged to? | | |
| `recreate_stuck` | violation | is a re-created resource's operation noticed? | | |
| `remove_during_update` | violation | is the anchor kept until the operation ends? | | |
| `abandon_live` | violation | is it safe to abandon after a verdict? | | |
| `posted_remove` | violation | does a resource that was created count as created? | | |
| `exists_on_error` | violation | does resourceExistsCheck run on 2xx answers only? | | |
| `attempts_uncapped` | violation | are all attempts counted? | | |

Why the bounds are enough. A mistake of the controller shows as a second call
made under the wrong assumption about the first: two operations for a duplicate,
three for a create, an update and a removal whose order matters. Three generations
give two edits (deletion adds a fourth without being counted): one suffices for
"judged by another spec than fired", and a plain mutate leaves several writes between
which two may fall. Two faults allow a crash during the recovery from a failure.
`MaxOps` bounds calls that are *accepted*; in `live` four calls leave room for the
retry of a failed operation, so that the bound never stands in the way of
`Converges`. In `disposable` the bound on attempts can be reached by a request
without limit; the liveness properties exempt exactly the states where it is
(`OutOfCalls`). With `Allowance` at 0 the run fails: the bound of `AttemptsCapped` is
reached.

Four of the six plain specs of `safety` send every action by POST, one of them its
OBSERVE too, so that a refused UPDATE or REMOVE makes the resource count as not
created; they have an externalRef, which must do without that signal. The one
without an externalRef sends only its CREATE by POST: `posted_remove` is the
counterexample for one that sends its REMOVE by POST as well.

In `secrets` the two objects contend for one Secret in every way the code allows: keys
of its own each, one label both set, an owner reference both configs ask for and
Kubernetes grants to one. The AsyncRequest's token is answered, replaced by another
one and then no longer answered, which is what "preserve" is for; the disposable
request answers a JSON object that is mapped twice and a header, and injects its
stored answer for ever. The second token contains the word null, so that the answer it
comes in templates no valid request and the cached one steps in. Two faults are enough
for a refused update followed by a crash, and for a Secret that is removed and created
anew.

In `connect` a tick is 5 s: the timeouts of an exchange and of the margin inside
`oauth2` are both 10 s, hence `Timeout` = `ExpiryDelta` = 2, and a token lives for 4.
Refreshing one tick ahead, or 3 where the spec says so, makes a token that is expired
as soon as it is stored one of the cases, and `Patience` is one tick more than
`Timeout`. The specs split the TLS blocks between the two levels in each way: the
certificate of the resource with the key of the provider, from one Secret and from
two, a CA of the resource beside a bundle of the provider, a key alone. All
configurations are equal at first, and two events let a certificate be renewed and a
configuration be edited within one Connect.

Deadlock is checked in `connect` only: an object that is gone, or whose Secret was
removed under a stored placeholder, has nothing left to do.

Fairness. `WF(worker)`: the managed reconciler requeues every object, on
success after the poll interval and on failure with backoff, and every step of
a reconcile either returns or is bounded by a timeout. Fairness is weak and on
the worker's steps together, as the worker is one thread. Operations of the remote
API end (`OperationSucceeds`, `OperationEnds`); in `DisposableRequest` time passes
(`NextReconcileComes`, `DeadlinePasses`). Nothing is assumed of users, and no
fault, crash or timeout of an AsyncRequest is ever forced. In `SecretInjection`
fairness is weak on the reconciles of each AsyncRequest (`Reconcile(o)`), and there is
none for a disposable request, which may stop anywhere. In `Connection` it is weak
on `Connect` and on the arrival of a token, which is bounded by the client's timeout,
and strong on `Finish`: a reconcile makes finitely many calls, so that "another
call" cannot be preferred for ever.

Assumptions on the environment, each beside its action in the modules: an edit
does not change whether the OBSERVE URL is keyed by externalRef, by the response
or by neither (that would point the object at another remote resource), and an
edit of a disposable request does not add or remove its polling block; admission
rejects a polled mapping keyed by the response (`request_types.go:45`). The spec of
an object is not edited during one Connect. `Captured` is stated for keys whose
strategy is "preserve", as the other two strategies give up the value by design, and
not for placeholders whose Secret refused the value or was removed: the code stores
the placeholder all the same (`secret_patcher.go:82`), which `dropped` records.
`StaysAddressable` and `Converges` exempt an object whose placeholder cannot be
resolved, or stands for a JSON object in its body.

### What the runs found

* `verdict_race`: `SetTerminalFailure` stamps the generation it fetches, not the
  one it judged. A deletion during the poll is not seen in the copy in memory, the
  timeout is drawn all the same and stamped with the generation of the deletion, and
  the finalizer is stalled as poller.go:177-187 sets out to avoid. An edit in that
  place stalls untried, against README.md:230-233.
* `recreate_stuck`: a stale `externalRef` sends a CREATE in flight to `Update`,
  which has no mapping: the dead end that observe.go:106-109 sets out to avoid.
* `remove_during_update`: a plain REMOVE takes the anchor of an UPDATE for its
  own and drops it (README.md:42-45).
* `abandon_live`: a response-keyed resource has no externalRef, so a terminal
  UPDATE failure looks like nothing was created, and deletion abandons it
  (observe.go:125-128).
* `posted_remove`: `created` means "the last stored call was not a refused POST". A
  refused REMOVE by POST (README.md:173-175) makes a resource without externalRef
  count as never created (observe.go:424-439); when the next OBSERVE fails as well, the
  finalizer goes.
* `exists_on_error`: `resourceExistsCheck` also runs on a 5xx (README.md:139-142).
* `attempts_uncapped`: an `expectedResponse` that fails to evaluate leaves no
  trace, so the cap of README.md:483 does not hold.

Some behaviour came to light while the modules were written and proved, and is part of
the models without a run of its own. README.md:483 says that `rollbackRetriesLimit`
caps the attempts. Where a polling block waits for operations, the anchor is a plain
write (`disposablerequest/polling.go:83`): an edit since the object was fetched
refuses it while the worker is alive, the attempt is charged to nobody, and the
request is sent again. So the cap may be exceeded by one for each such edit.
`AttemptsCapped` allows exactly that (`Allowance`) and `Accounted` keeps count of it
(`uncharged`); without a polling block both are exact. A call that failed is injected
like an answer without fields, so that "delete", the default strategy, removes keys
which the remote API still answers. When the write of externalRef after a plain CREATE
fails, that is logged and the response is stored all the same
(`deployaction.go:75-90`); the model counts what was created as lost, since an object
keyed by the identity creates again. A stored header keeps its placeholder when it is
injected again. Two configs that set different labels on one Secret remove each
other's. Three of the four controllers extract credentials from Secrets only: a
configuration with source Environment or Filesystem, which the API offers
(`providerconfig_types.go:36, 71`), gets none and no error, and the call goes out
unauthenticated. A key that is not in the credentials' Secret gives none either.
`OneMechanism` lists these cases by name (`WithoutCredentials`) and admits no other. A
provider's inline CA bundle outlives a CA reference of the resource, since the merge
goes field by field and the inline bundle is looked at first, although the comment of
`MergeTLSConfigs` gives precedence to the resource; and one half of a key pair, or an
empty one, is silently no certificate (`client.go:218`), an empty CA the system's.
`TLSAsNamed` is stated with both.

Each violated property holds in the passing runs where the specs avoid the shape
that breaks it, or is stated only there to document the disagreement
(`VerdictOnCurrentSpec`). In `safety`, response-keyed resources have an externalRef
and leave existence to the DEFAULT check; with that, `NothingOrphaned` and
`NoDuplicate` hold of them too. `DeletionEnds` counts a verdict as the end of a
deletion, since a bad polling.url or a terminal error stalls visibly by design, but
not the verdict of a timeout drawn on the deleted object; one that was drawn before
the deletion and stamped after it is `verdict_race`, and is left to that run. It says
nothing of a resource without a REMOVE mapping, whose deletion never ends.

## 4. Proofs

Eight modules hold theorems, all proved with SMT, Zenon and LS4 from the assumptions
the component's module makes of its constants, and nothing else unless the last
column says so.

| Module | Theorem | States | Assumes besides |
|---|---|---|---|
| `AsyncRequestProofs` | `Invariance` | `Spec => []Inv` | |
| | `TypeCorrect` | `Spec => []TypeOK` | |
| | `AnchorPolicyHolds` | `Spec => []AnchorPolicy` | |
| | `ClockRuns` | `Spec => []PollsAgainstAClock` | |
| | `TerminalStaysQuiet` | `Spec => TerminalIsQuiet` | |
| | `Tracking` | `Spec => []OperationsTracked` | `PolledOnly` |
| `AsyncRequestRefinement` | `Refinement` | `Spec => ImplementsOperation` | `PolledOnly` |
| `AsyncRequestIdentity` | `NoDuplicateHolds` | `Spec => []NoDuplicate` | `Keyed` |
| | `NothingOrphanedHolds` | `Spec => []NothingOrphaned` | `Keyed` |
| | `IdentityIsStable` | `Spec => IdentityStable` | `Keyed` |
| `AsyncRequestPlain` | `PlainNoDuplicate` | `Spec => []NoDuplicate` | `Extracted` |
| | `PlainNothingOrphaned` | `Spec => []NothingOrphaned` | `Extracted` |
| | `PlainIdentityIsStable` | `Spec => IdentityStable` | `KeyedByIdentity` |
| `DisposableRequestProofs` | `TypeCorrect` | `Spec => []TypeOK` | |
| | `AccountedHolds` | `Spec => []Accounted` | `Judged` |
| | `CapHolds` | `Spec => AttemptsCapped` | `Judged` |
| `SecretInjectionProofs` | `TypeCorrect` | `Spec => []TypeOK` | |
| | `IsolationHolds` | `Spec => Isolation` | |
| `SecretInjectionContents` | `StaysAddressableHolds` | `Spec => []StaysAddressable` | |
| | `CapturedHolds` | `Spec => []Captured` | |
| | `FromItsFieldHolds` | `Spec => []FromItsField` | `Separate` |
| `ConnectionProofs` | `TypeCorrect` | `Spec => []TypeOK` | |
| | `TokenAliveHolds` | `Spec => []TokenAlive` | |
| | `TLSAsNamedHolds` | `Spec => []TLSAsNamed` | |
| | `OneMechanismHolds` | `Spec => []OneMechanism` | |

None of the properties is inductive as it stands.

`AsyncRequest`. Whether the anchor is there when a verdict is stored depends on how
the worker came to that point. `Inv` adds to `TypeOK` what the program counter tells:
before an answer is stored there is no anchor, in the poll loop there is one and its
clock runs (`AnchorAtStep`); a verdict stands only while the worker is at rest, looks
at it or is about to drop the finalizer, and one in the making carries the policy of
its cause (`VerdictAtStep`). One lemma for each group of actions (`ObserveInv`,
`ManageInv`, `MutateInv`, `PollInv`, `EnvironmentInv`) shows that it is kept, one step
per action. `TerminalIsQuiet` follows since a call is fired at one place only, where
no verdict stands (`FiredAtFire`). `Tracking` needs a second strengthening,
`TrackInv`: the anchor is given up at `finish`, `release` and by a clearing verdict
only, and there the anchored operation has ended (`EndedAtStep`).

`Refinement` adds `LetGo` to it (an object about to lose its finalizer has no anchor)
and then goes through the actions once more: most leave all phases as they are
(`PhasesKept`), and the others are one step of the contract each. Both theorems
assume `PolledOnly` (no mapping without a polling block). With a plain mapping beside
a polled one they are false, and `remove_during_update` is the counterexample.

`AsyncRequestIdentity` is about what the remote API holds. `OwnInv` adds to
`ContractInv` that every resource not lost is known in one of three places: the
identity, the pending operation, or an annotation not seeded yet (`Known`); that a
CREATE is pending only while the identity names nothing that exists, and any other
operation works on what it names (`PendingSound`); that every resource, and every
identity, stems from a CREATE that succeeded (`IdentitySound`); and that an object
that is gone left nothing (`GoneSound`). Two more conjuncts carry what the worker saw
to the step that relies on it: a resource found absent is still absent when the
finalizer goes or CREATE is fired (`AbsentAtStep`), and an anchor given up without an
identity belongs to a failed operation (`FailedAtStep`). Most steps bring nothing into
being and forget only what is lost or made nothing (`Kept`); seeding, the call, the
settling of an operation and its success have a lemma each. `Keyed` says what the
polled family of `safety` has too: every mapping polled, the URLs keyed by an
externalRef, a set externalRef expression, and CUSTOM logic at most in the up-to-date
check. Without the last, `exists_on_error` shows how an absent resource is made twice.

`AsyncRequestPlain` asks the same of an API that answers synchronously. Without a
polling block nothing is ever in flight (`Synchronous`), so that the anchor guards
nothing: what keeps a CREATE from being fired again is what two later writes left of
its answer. `Traced` says of every resource not lost that the worker holds its answer,
that an annotation names it that is not seeded yet, or that an identity is stored and
the URLs address it. `HandSound` says what the answer in hand is about: after a CREATE
it is the only resource left, and after any other call it is what the URLs address, so
that storing it moves nothing. `NothingThere` carries "found absent" to the CREATE and
to the finalizer, as `AbsentAtStep` does above. A response may name a resource without
an identity only if the identity was lost (`Recorded`). A constant URL shows the last
resource that is there; that there is a last one in any nonempty set is `LastOne`, by
the well-foundedness of `<`. For `PlainIdentityIsStable`, an identity that was found
to name nothing goes on naming nothing until the next CREATE has been answered
(`Vacant`), since that CREATE gets a number no stored identity has (`Named`).
`Extracted` asks for plain mappings, a set externalRef expression and CUSTOM logic at
most in the up-to-date check; the URLs may be keyed in any of the three ways.
`abandon_live` and `posted_remove` are what happens without the second,
`exists_on_error` without the third. `KeyedByIdentity` adds that the URLs are keyed by
externalRef. With URLs keyed by the response the identity may be exchanged: a crash
between the two writes after a CREATE leaves the new identity beside the old response,
the OBSERVE asks for what that names, and a 404 makes another resource while the
identity's exists.

`DisposableRequest`. `Inv` says where the worker can be with and without an anchor
(`Placed`) and that the attempt in hand or in flight is one that counts (`Counted`).
Hence at most one attempt is pending, and `Accounted` is an equation between the size
of a set and a counter, `Balanced`. Every action falls in one of five kinds, with a
lemma each: it counts nothing, makes an attempt, charges it, clears the count, or
loses the attempt, be it to a crash or to a refused anchor. A conflict makes
`WriteStatus` a step that counts nothing, since the copy with the setters' effect is
given up. `CapHolds` is a consequence: the limit is compared with the counter before
the worker sends, nothing is pending there, so the counter and the refused anchors are
the number of attempts; and each refused anchor has an edit of its own (`Paid`), as
the copy it was refused for is fetched again. `Judged` (an answer without a polling block
can always be judged by expectedResponse) is what `attempts_uncapped` shows to be
needed.

`SecretInjection`. A worker updates a Secret only while its copy is the latest, and
`FreshIsLatest` says that such a copy equals the Secret: then what the update changes
is what the worker changed in its copy. `WorkersPlaced` keeps its position within its
configs.

`SecretInjectionContents` first sums up what any step does to a Secret
(`SecretStep`: nothing, create, patch one key, sync labels), to a pass over an answer
(`PassStep`: nothing, begin, replace one value) and to what an object stores
(`StoredStep`), so that each invariant is checked against a handful of cases instead
of every action. `StaysAddressable` needs only `Addressable`: `shouldSetCache`
overwrites the cache with answers that fit, and neither resolving nor replacing makes
a field disappear. For `Captured`, every placeholder that is stored, cached or still
in the hands of a worker is backed by its key (`AllBacked`). A mapping with "preserve"
never empties a key, so the placeholder outlives the answers of all objects on that
Secret; an update that is refused leaves its placeholder in `dropped`, and so does
the removal of a Secret. For `FromItsField`, an answer being rewritten is, field by
field, what was answered or a placeholder that stands for it (`PassOfAnswer`), and so
is what an object remembers (`Remembered`).

An object that injects its stored answer again reads what the Secrets made of it in
the meantime (`PassOfReplay`), and there `FromItsField` needs `Separate`, which says
three things of the placeholders that may come to stand for a field of such an object.
In a header they are not resolved: were the header mapped to two keys, the second
would be given the placeholder of the first. In the body they come back as whatever
is in the key: were it mapped to a field that carries other values too, those would
be injected here. A key that is gone comes back as an empty string: were the field a
label, the label would be empty. Without objects that replay, `Separate` is empty;
TLC evaluates it for the configs of `secrets`.

`Connection`. `Timed` says of every token with an announced expiry that it is cached
for less than it lives on plus the longest exchange. A token is reused only while it
is cached for at least `ExpiryDelta`, which is at least `Timeout`, so that it lives
when it is sent again (`Alive`; `Presentable` says that a refused certificate left no
earlier call). The exchange's latency is what makes this an argument: the expiry of a
token counts from its arrival, its life from its issue.

A client that was built keeps the configuration it was built from, and that has
passed `ValidateAuthSelection`; an empty credential leads back to one of the cases of
`WithoutCredentials` (`Validated`); what it sent is what the decorators make of it
(`Carried`). `OneSelected` counts the mechanisms that the selection lets through, and
`AtMostOneHeader` the headers that decorators of one mechanism set.

For `TLSAsNamed` the merged block is taken apart field by field: whatever the two
levels are, a secret reference of the merge is the resource's if it has one and else
the provider's (`MergedNames`, `EffectiveNames`). The reads come one after the
other and each may fail, so `Loaded` says what is there by the time the worker comes to
each of them (`PartConnected`): a half exactly if it is named (`FromRef`), and from the
Secret its own reference names, whatever happened to the Secrets since. A client has
passed all three reads. That two halves match is the standard library's check
(`X509KeyPair`), and no part of the theorem. `OthersConnected` confines every step to
one object.

Only model-checked: `NoDuplicate` and `NothingOrphaned` for the plain family of
`safety` where the specs are in neither shape (an edit that turns a plain mapping into
a polled one or back, a constant URL without externalRef, a polled mapping keyed by
the response), and liveness, which is out of the prover's reach.

## 5. Plan

Done: `AsyncRequest`, `Operation`, `DisposableRequest`, `SecretInjection`,
`Connection`, their runs, and the theorems above.

Left, in order of what it would add:

1. `NoDuplicate` and `NothingOrphaned` as theorems for specs that mix plain and polled
   mappings, as the edits in the plain family of `safety` do.
2. The rewriting of templates into jq and the merge of templated headers, as
   operators with a reference definition.
3. A composition of `AsyncRequest` with `SecretInjection`, in which the OBSERVE call is
   templated from what the Secrets hold; today each takes the other's side as a
   nondeterministic outcome.

Not modelled:

* jq evaluation: an external library; the models take its outcome.
* The HTTP transport, encodings and the text of errors: no state of this program.
* The provider configuration controllers and the process set-up: registration of
  crossplane-runtime's reconcilers and flags. Leader election, the work queue and
  usage tracking are external; the models assume one worker per object.
* `insecureSkipVerify`, which no property tells apart, the prefix of an injected
  header and the parameters of an exchange.
* Annotations of a Secret, synchronised by the function that synchronises labels.
* The failure counter of an AsyncRequest, which nothing reads.
* Deep copies, CRDs and examples: generated, or not code.

## 6. Running

    tlc -config safety.cfg MCAsyncRequest.tla
    tlc -config live.cfg MCAsyncRequest.tla
    tlc -config disposable.cfg MCDisposableRequest.tla
    tlc -config secrets.cfg MCSecretInjection.tla
    tlc -config connect.cfg MCConnection.tla
    tlapm AsyncRequestProofs.tla
    tlapm AsyncRequestRefinement.tla
    tlapm AsyncRequestIdentity.tla
    tlapm AsyncRequestPlain.tla
    tlapm DisposableRequestProofs.tla
    tlapm SecretInjectionProofs.tla
    tlapm SecretInjectionContents.tla
    tlapm ConnectionProofs.tla

`PROJECT.json` lists components, runs, mutants (for each property, a plausible bug
that breaks it), the source lines behind each definition, findings, hazards and
theorems.
