# Verification of ipv-cri-oauth-common

This directory models the OAuth session lambdas of `ipv-cri-oauth-common` in TLA+:
the modules are translated from `src/lambdas/src`, checked by TLC on small
instances, and every safety property and refinement that the runs find to hold is proved
with TLAPS for every value of the constants.

    tlc -config code_safety.cfg MCAuthorizationCode.tla     # a run
    tlapm AuthorizationCodeProofs.tla                       # the proofs

## 1. Inventory

Everything is a lambda invocation: a handler with middlewares in front of it,
asynchronous from one AWS call to the next, any number of them at once. They share
two DynamoDB tables and an audit queue; a warm container also keeps caches in
memory, which no other container sees.

| Component | State | Operations | What is hard | Correct when |
|---|---|---|---|---|
| Session table (`session-service.ts`, `template.yaml`) | one item per session: expiry, code and its expiry, token and its expiry, `sessionData`; the `authorizationCode-index` | conditional updates, put, transactional delete, TTL sweep | conditions on missing items and attributes, boundary seconds, stale reads, lagging index | no write resurrects an item; conditions decide alone |
| Code and token protocol (`create-auth-code-handler.ts`, `authorization-handler.ts`, `access-token-handler.ts`) | the requests in flight | create a code, hand it out, exchange it | three reads and a network call before one update; SDK retries after lost answers | a code buys one token, in time, for its own session |
| Session creation (`session-handler.ts`, `person-identity-service.ts`) | – | save session, save identity, send START event, answer 201 | three effects, no rollback | an announced session is complete; leftovers are swept |
| Session data (`update-session-data-handler.ts`) | – | ensure a map, then set and remove fields | two commands, concurrent requests, deletion in between | updates change the fields they name only |
| Deletion (`delete-session-handler.ts`) | – | read, then one transaction over both tables | the read may be stale | 200 means that both are gone, for good |
| JWT verifier (`jwt-verifier.ts`) | `cachedJWKS` per container | look up, fetch, store, verify, drop on failure | key rotation against `max-age` | retired keys expire, new keys are found |
| Configuration service | parameter maps per container | `init`, `initClientConfig` | all-or-nothing loads; client configuration cached for ever | handlers see the keys they asked for |
| JWE decrypter | cached key id | decrypt with aliases, then the legacy key | rotation, errors of single aliases | some usable key is found if there is one |
| Session request (`session-request-validator.ts`, `ipv-request-service.ts`, the schemas) | – | decrypt, verify, validate claims, then the three effects of the session handler | two names for one client; a claim parsed twice; errors after the first effect | what is stored was signed by its client and validated; a refusal leaves nothing |
| Token request (`token-request-validator.ts`, the middlewares of `access-token-handler.ts`) | client configuration per container | form, session lookup, redirect URI, client assertion, update | two merges of item and request; two lambdas with a copy of one parameter each | the session's own client, configured redirect URIs |
| Person identity mapping (`person-identity-service.ts`) | the person identity table | map the shared claims, postal code extraction | lengths of six to eight, commas, blanks, claims nobody validates | each permit's postal code is in its address, and alone where it stands free |
| Error mapping (`errors.ts`, `error-middleware.ts`) | – | error to status, code and metrics | errors of foreign classes become 500; two places count failures | one request, one count |
| Retrieve session, logging middlewares, types, deployment, tests | – | – | – | – |

`PROJECT.json` names the sources of each, and lists the hazards line by line.

## 2. Modules

| Module | Models |
|---|---|
| `SessionTable` | the session item and the update and condition expressions, as operators on an item |
| `AuthorizationCode` | the interleaved requests of the code and token protocol (extends `SessionTable`) |
| `AuthorizationCodeGrant` | the abstract specification: a session offers one code at a time, a code once for each try, and each offer is spent at most once |
| `AuthorizationCodeProofs` | theorems: types, redemption in time and once, erasure |
| `AuthorizationCodeGrantProofs` | theorems: `AuthorizationCode` implements `AuthorizationCodeGrant`, what a code can buy under retries, what the answers mean, how long a token lasts |
| `SessionLifecycle` | creation, session data, deletion and the TTLs of both tables |
| `SessionStore` | the abstract specification: one store in which a session is announced, written and removed whole |
| `JwksCache` | one container's JWKS cache under key rotation |
| `ContainerConfig` | the parameter cache and the configuration maps of a warm container |
| `JweDecrypter` | unwrapping a content key over key aliases and the legacy key while keys rotate |
| `Errors` | error classes to answers and metrics, as operators |
| `TokenRequest` | `POST /token` through its middlewares, with the redirect URI's two cached copies (extends `Errors`) |
| `PersonIdentity` | the address mapping and the postal code extraction, as operators |
| `SessionRequest` | `POST /session` from decryption to answer (extends `Errors` and `PersonIdentity`) |
| `SessionLifecycleProofs` | theorems about `SessionLifecycle`, and that it implements `SessionStore` |
| `JwksCacheProofs`, `ContainerConfigProofs`, `JweDecrypterProofs`, `TokenRequestProofs`, `SessionRequestProofs` | the theorems about these five; the last has those about `PersonIdentity` too |
| `MC*` | symmetry sets for TLC, and in `MCSessionRequest` the requests to try |

**AuthorizationCode.** `table` is the table as a conditional write sees it; `replica`
is an older state of it, and `MayRead` gives a `GetCommand` either, because no read asks
for `ConsistentRead`; `index` is the lagging `authorizationCode-index`. The three
`...Call` functions hold the invocations: `pc` says which asynchronous step comes
next, `at` is the time value fixed when the command was built, `took` records
whether any attempt took effect. One action is one step between two awaits.
`...Write` is DynamoDB serving an attempt, with or without its answer arriving;
`...Lost` is an attempt that never arrives. `Unanswered` is the SDK: it sends the
same command again, as built, until its attempts are used up (`aws-client-factory.ts`
configures none, so the SDK's default of three applies; two show the effect).
A lambda cut off by its 30-second timeout is a request whose last attempt is lost.
`TokenVerify` takes the redirect URI and client assertion checks together: they read
no shared state, and either outcome is possible. The client presents only codes that
`GET /authorization` handed out, and a request it repeats is another invocation. `born`, `handed`
and `took` are history that the code does not keep: the guards never depend on
`took`, and on the other two only as knowledge of the outside world.

**SessionLifecycle.** Session-data fields are named by the update that wrote them, so
that lost updates can be told apart. `OddField` stands for names such as `a-b`, whose
alias `#a-b` DynamoDB refuses, after the first of the two commands was served.
Codes and tokens are absent here, and session data and identities absent in
`AuthorizationCode`; the deletion and the sweep occur in both.

**SessionStore.** What a client may count on who was told of a session. It has one store, no second command and no
command sent twice. A session appears when it is announced, with its person if the request had claims and the deadline has
not passed; an update is one `Write` of all its fields, or none; a deletion removes the session with its person; and nothing
else takes either away before the deadline. A 404 to an update, and a 200 to a deletion, are the truth in it. It also says what is
not promised: a `Write` whose answer got lost may happen again, after the writes of others, an update answered 500 may have
been made, and the 404 of a deletion may be wrong. The mapping is at the end of `SessionLifecycle`: a session
is hidden until it is `Known`, no map counts as an empty one (`MapOrEmpty`), and both commands of an update are `"pending"`.

**JwksCache.** The key sets a response holds, its `max-age` and its expiry. Whether a JWT's claims are
right is a Boolean of the request. `steady` and `misses` are history for a property.

**ContainerConfig.** A value is named by the second in which SSM served it, so that its age
shows wherever it is copied to. The parameter provider is a library: `Cached`, `Get` and `Keep` model
what `src` relies on (`maxAge`, `_errors`, values found kept although others were not).
A provider call is one step, so a value's age leaves out how long SSM took to answer. `ConfigService` stands on top:
`LoadCommon` runs in every request, `LoadClient` once per client and container, so a change to a
client's parameters reaches a warm container only when it is replaced. That is what the code does,
and no property claims otherwise; `LoadedFresh` bounds the age of the values at the time they are loaded.

**JweDecrypter.** Aliases are tried in order, one KMS call each, then the legacy key if the
fallback flag allows it; its id is read from the configuration at first use and kept by the container.
Aliases are moved and calls fail between any two tries. `steady`, `faulty` and `tried` are
history: the aliases that stood for the request's key all along, whether KMS failed a call that
would have worked, and the aliases tried. `KeyIdIsLoaded` is the session lambda's reading of the same two flags.

**Errors.** An error is its class: whether it derives from `BaseError` decides if its status and code
survive, and the session validation error carries what the metrics are chosen by.

**TokenRequest.** One token request at a time in one container, as Lambda runs them, through the middlewares
(`query`, `config`, `read`) and the handler (`redirect`, `assertion`, `store`), with the error of each step, where
it is caught, and what is then answered and counted. `known` holds the configuration maps of a container
of the session lambda and of one of the token lambda; `ever` is history. What the session table answers is left to `AuthorizationCode`:
the reads may succeed or fail, and the update's condition may hold or not. What the parameter provider serves is left to
`ContainerConfig`: `MayLoad` allows any value the parameter has had, which is more than the provider's
cache allows, and so is safe for the properties. The comparison of codes in `validateTokenRequestToRecord` compares
a code with itself, because the middlewares have put the request's code in the item, and the branch
for a missing redirect URI in the configuration is unreachable, because a configuration is loaded whole (`NeverPartOfAConfig`).

**SessionRequest.** The requests are a constant: `RequestsAssumption` says which fields one has and of what kind
(`vtr` is absent, of another kind or a list of texts, and so on), and the theorems are about all of them. `MCSessionRequest` gives
TLC proper requests with up to two odd fields: one to reach a check, the other to tell
whether its place in the order matters. `request.client` is the client of the body, whose keys verify the JWT;
`request.client_id` is the one in the JWT, under which the session is stored. The handler's catch and the error
middleware are separate, as in `TokenRequest`. `Deliver` begins the next request with empty tables: requests do
not share state here, `SessionLifecycle` has the tables. The schemas are `Scores` and the three `...Schema` operators. The check of
`state` in the validator is unreachable, because the verifier has asked for the claim before.

**PersonIdentity.** Text is a sequence of characters, of which the extraction tells apart blanks (the one white space there
is here), commas and others. `NonEmpty` is the code's `filter`, written with the place of each kept code, because the proofs
cannot unfold a recursive one. `WithCode`, `LeaveNothing` and `HasCodesOf` say what comes of a list of permits. They describe the code on
both sides of its boundaries: `StandsFree` tells the addresses of which exactly the code is stored from those of which more is, and
`IsShortBlank` the blanks that are taken for a code from those that are dropped (see the end of section 3).

Operators introduced by the comment *slip* (`RedeemAtExpiry`, `FailAndKeep`, ...) are
used by no specification: each is a plausible mistake in the definition that follows
it, and `PROJECT.json` says which property notices when it takes that definition's place.

## 3. Runs

| Run | Bounds | Shows |
|---|---|---|
| `code_safety` | 1 session, 2 codes, 2 tokens, 1 deletion, no retries, clock 0..3 | `CodeRedeemedOnce`, `RedeemedInTime`, `ErasedForGood`, `TokenReplacedByToken`, `AnswerMeansCode`, and the refinement `ImplementsGrant` |
| `code_retry` | 1 code, 2 tokens, 1 deletion, creations and redemptions sent twice, clock 0..2; fair | the inductive invariants `TimeInv`, `BudgetInv`; `RefusedNotMinted`; `EventuallyErased`, `RequestsAnswered` |
| `code_create_retry` | 1 code, 2 tokens, create sent twice | **violates** `CodeRedeemedOnce` |
| `code_stale_authorization` | 1 code, 1 deletion | **violates** `DeletedNotAuthorized` |
| `lifecycle_safety` | 2 updates of two ordinary fields and an odd one, all sent twice, 1 deletion, clock 0..3 | the inductive invariant `LifecycleInv`; `CompleteWhileLive`, `ToldGoneMeansGone`, `GoneForGood`, `OthersKept` |
| `lifecycle_liveness` | 1 update of an ordinary and an odd field, 1 deletion, all sent twice; fair | the refinement `ImplementsStore`; `EventuallyErased`, `RequestsAnswered` |
| `jwks_cache` | 2 keys, max-age none or 0..2, clock 0..5 | the inductive invariant `JwksInv`; `RetiredKeysExpire`, `OneMissPerRotation` |
| `container_config` | 2 clients of 2 parameters, `ParameterTtl` 1, clock 0..3 | the inductive invariant `ConfigInv`; `NeverPartOfAConfig`, `SettingsAreFresh`, `LoadedFresh` |
| `jwe_rotation` | 2 keys, 3 aliases, all four settings of the flags | the inductive invariant `DecrypterInv`; `SteadyKeyOpens`, `FallbackIsReady` |
| `token_request` | 2 clients, 2 redirect URIs, 2 sessions, a container of either lambda | the inductive invariant `RequestInv`; `RedirectAgrees`, `RedirectsConfigured`, `AssertedByOwner`, `CountedOnce` |
| `token_assertion` | 1 of each | **violates** `FailedAssertionIs400` |
| `session_request` | 2 clients, requests with up to two odd fields, and lists of up to two driving permits (`MCRequests`), IPV stack or not | `SignedByOwnClient`, `StoredClaimsValid`, `FlawlessNotRefused`, `RefusedLeavesNothing`, `PostalCodeFound`, `MetricsTell` |

The invariants of the proofs contain the type invariants and are what the runs check in their place. `BudgetInv` with one attempt
says what `OnceInv` says; `HandlingInv` and `IdentityInv` of `SessionRequest` were checked on smaller sets of requests before they were proved, and are left out of the
run because their parts are what the run's invariants say. `AnnouncedInv` of `SessionLifecycle`, and `ImplementsStore` with two
concurrent updates, were checked with the constants of `lifecycle_safety`; the runs keep the refinement apart to stay short, and the theorem is about any
number of updates.

*Bounds.* A race over a code needs two redemptions, or one redemption and a second
code that replaces the first. Sessions share nothing but the index; that no code crosses over
to another session is part of `TimeInv` and proved for any number. Time
constants are one to three seconds: what matters is the order of a time and an expiry
and their equality, and with these every command can be built before, at and after
each expiry. Deletions are sent twice in `lifecycle_liveness`. `MaxClock` lies one second past the last expiry (the guard of
`CreateSession` keeps it so), so that sweeps always happen. `MaxMisses` is one
more than the property allows. `ReadTime` bounds the reading of a JWKS response,
which the lambda's timeout does in the deployment.
A value of the parameter provider can be read, be at its last second, run out and be read again within the clock of
`container_config`; two parameters are enough for a load that finds one of them. With two keys a rotation
can put the one in the place of the other. With two clients one's assertion, configuration or name can serve the
other's session, and with two redirect URIs each can be changed and be different from the session's.
The odd values of `session_request` hold every branch of the validator and the schemas; the addresses of the driving permits are texts of
five to thirteen characters that end in a postal code with or without its blank, behind every kind of separator and none, and none to nine blanks.
An address matters to the addresses stored only, so those are not paired with a second odd field. Deadlock is checked in every run:
in the table's models the only state that may stop is `Finished`, in which all is answered and erased; in the
others there is always another request.

*Fairness.* Time passes; DynamoDB replicates and sweeps; an invocation that was begun
takes its next step or is cut off by `Timeout: 30` (`template.yaml:275`). The last is
weak fairness on the disjunction of the steps of a request: a lost answer is always
possible and no answer is ever promised. Clients owe nothing. Real TTL sweeps
come within days, not seconds, which weak fairness allows for.

### What the violation runs show

* `code_create_retry`. `POST /create-auth-code` sends its conditional update, which takes
  effect while the answer is lost. The code is handed out by `GET /authorization` and redeemed,
  which removes it. The SDK's repeat of the first command finds
  a session without a code and writes the spent one again, and it is redeemed a second time within its
  lifetime. The unit test at `session-service.test.ts:230` expects a
  consumed code to be refused. The window is that of the SDK's retry, and the theorem `CodesBuyOnePerAttempt` bounds what
  it costs: no more tokens than the command was sent, which is up to three times with the SDK's default.
* `code_stale_authorization`. `GET /authorization` may still read a deleted session and
  hand out its code (the update at the token endpoint refuses it then). The feature file
  `DeleteSessionAPI.feature:14` says a deleted session cannot be authorized.
* `token_assertion`. `JwtVerifier.verify` never returns without a payload: what `jwtVerify` or the
  check of mandatory claims objects to is thrown, as a jose error or a plain `Error`. So the `InvalidRequestError` in
  `verifyJwtSignature` is never thrown, a client assertion that fails is answered 500, and the metric
  `jwt_verification_failed` of `POST /token` is never captured. The unit test at `access-token-handler.test.ts:364`
  mocks the validator to throw that error and expects 400 (line 402).

A stale read of the same kind lets `GET /session` miss a session-data update that was already answered; no
statement of the repository excludes it.

One more consequence of retries is visible in the models and contradicts no
statement of the repository: a redemption whose answer is lost is repeated, fails its own
condition, and the client is told 1026 although a token was stored. `RefusedNotMinted` says that this is
the only way: a refused client with a token has been told 1026, and its update had been sent before. The run `code_retry` sends it twice;
the theorem `RefusalsMintNothing` holds for any number of attempts. `StoreToken` of `TokenRequest` has this outcome too.

Nor does any statement exclude two results of the postal code extraction, which `PostalCodeFound` states as they are:

* The last eight characters may hold more than the code. Of an address that ends in a code of six characters behind a single blank or comma
  part of the rest is stored as well: `person-identity-service.test.ts:179` and `:202` expect `Y BT11AB` and `Y AB11AB`. The same happens to a
  code of five characters (`M11AA`) behind a comma and a blank, which no test tries.
* An address of up to six characters is returned untrimmed (`person-identity-service.ts:121`). One to six blanks
  are thus a postal code that passes the filter, and displace the shared addresses; seven blanks or more are trimmed to nothing and leave them in place.

## 4. Proofs

All theorems hold for every value of the constants that satisfies the named assumptions of the modules: that `None` is
no ordinary value, times are natural numbers, and a command is sent at least once.

`AuthorizationCodeProofs`:

* `TypeCorrect`: `Spec => []TypeOK`.
* `CodesAreFiledAsCreated`: `Spec => []TimeInv`, the inductive invariant of the protocol, for any number of attempts.
* `TokensAreBoughtInTime`: `Spec => []RedeemedInTime`. `RedeemedInTime` alone is not
  inductive: that a redemption is in time follows from the item it was applied to.
  `TimeInv` adds that the code in an item was written by the invocation that drew it, with that
  invocation's expiry (`FileInv`), that whatever a stale read returns was once written (`SeenInv`), and what
  a call in flight has done (`CallInv`).
* `ErasedStaysErased`: `Spec => ErasedForGood`. The lemma `NothingToUpdate` says that neither condition
  holds of a missing item, so no write in flight can bring one back.
* `SpentCodesStayOut` and `CodesAreRedeemedOnce`: `Spec => []OnceInv` and `Spec => []CodeRedeemedOnce`, assuming `CreateAttempts = 1`.
  `OnceInv` adds to `TimeInv` that a redeemed code is in no item, and that no create command
  that took effect is still in flight. The assumption is the point of `code_create_retry`: without it
  the theorem is false.

`AuthorizationCodeGrantProofs`:

* `TableGrantsCodes`: `Spec => ImplementsGrant`, for any number of attempts. The status of a session is read
  off `born` and the table, the offer off the item, and for each code the tries (`used`) and the tokens (`sold`) off what the
  invocations have done. An attempt at the create command is a `Grant` if it writes, else a `Waste` (`GrantStep`, `WasteStep`), and it is
  one of at most `CreateAttempts` (`TryStep`); `TokenWrite` is a `Spend` or a stutter (`SpendStep`), a deletion
  and a sweep are a `Close` or a stutter (`EraseStep`), and no other step but the creation and the clock's shows (`Stutter`). The
  simulation needs `TimeInv`, that the tokens of a code can be counted (`BudgetInv`), that a session without an item is not born or
  gone (`BornInv`), and that a create command in flight names a session (`SentInv`). A redemption that is repeated on a code
  that was put back sells no second token (`SoldStep`): it is the same request's.
* `CodesKeepTheirBudget` and `CodesBuyOnePerAttempt`, for any number of attempts: the redemptions of a code and
  its place in an item are together no more than the times its create command was sent (`BudgetInv`). An attempt
  that takes effect adds the place, a redemption takes the place for a token, and nothing else adds to them. So a
  code buys at most as many tokens as there were attempts, and at most `CreateAttempts`.
* `OnlyRepeatsSellTwice`, also for any number of attempts: a code whose create command was in fact sent once is redeemed once. That the SDK
  may repeat does no harm, only a repeat that was sent: this is `CodesAreRedeemedOnce` without its assumption.
* `AnswersAreBacked`: `Spec => AnswerMeansCode`, for any number of attempts: by `FileInv` a code that stands in the
  way has an expiry, which the condition has compared.
* `RefusalsMintNothing`: `Spec => []RefusedNotMinted`, for any number of attempts (see the end of section 3). `RefusedInv` adds that a request
  in flight has no answer yet, and that one that has bought its token was sent before.
* `TokensLast`: `Spec => TokenReplacedByToken`, for any number of attempts. A token in the table was bought
  (`MintInv`), so its code is spent; by `BudgetInv` it is not the code whose redemption overwrites the token, unless
  that code was sent more than once, which is the exception that the property makes.

`SessionLifecycleProofs`: `LifecycleIsKept` proves `LifecycleInv`: what is stored about a session by the step its
creation has come to (`Stored`: the identity does not expire before the item, and is there while the item
lives), which sessions the requests in flight are about (`CallInv`), and two invariants about what calls find, `ToldGoneMeansGone` and `MapStaysBetweenUpdates`. `LiveSessionsAreComplete`,
`GoneIsTrue` and `MapsStayBetweenUpdates` follow. For `GoneSessionsStayGone` and `OtherFieldsAreKept` the lemma `WhoWrites`
says which steps write to the item of a session that is known. `TablesAreOneStore` proves `Spec => ImplementsStore`, for any sessions, updates,
deletions, fields and attempts. It needs `AnnouncedInv` next to `LifecycleInv`: what the item and the identity of a session are before it is
known, so that it is announced without data, with a person only if it has claims; and that no update without fields comes to its second command.
The steps of a session that nobody knows do not show (`Unseen`). The last of the creation is an `Announce` (`CreationSeen`), the first command of an update a
`Decline` or nothing to be seen (`EnsureSeen`), the second a `Write`, a `Decline` or nothing (`ApplySeen`), and the transaction is a `Remove` (`RemoveSeen`). `Stored`
is what makes the sweep of an identity a `Forget` (`SweepSeen`): it comes after the deadline of the session, if that is still there.

`JwksCacheProofs`: `CacheIsKept` proves `JwksInv`: a cached response runs out no later than its `max-age` and the
reading time after any of its keys was retired (`CacheInv`), and so does each verification's copy of it (`JobInv`); and
after a counted miss no response is left, cached or in hand, that lacks a published key (`MissInv`). `RetiredKeysAreDropped` and
`RotationsCostOneMiss` follow.

`ContainerConfigProofs`: `ConfigIsKept` proves `ConfigInv`: a request began no later than now, so that settings fresh
when they are loaded are fresh enough for it, next to the two state properties; `ConfigsAreWhole`, `CommonSettingsAreFresh` and `ConfigsAreLoadedFresh` follow.

`JweDecrypterProofs`: `AliasesAreTriedInTurn` proves `DecrypterInv`: the aliases tried in vain are those before the
next one, and a steady one among them means that KMS failed a call. `SteadyKeysOpen` and `FallbacksAreReady` follow.

`TokenRequestProofs`: `RequestsAreChecked` proves `RequestInv`, which adds to the types that each copy of a redirect URI is a value the parameter has had
(`CopiesInv`), and what the steps behind a request have made sure of, the lookup of its session, the
two merges and the two checks (`JobInv`). `OnlyConfiguredRedirects`, `TokensAreAssertedByOwner` and `RedirectsAgree` follow. `RequestsAreCountedOnce`
needs no more than which step records what: the lemmas `FailuresCounted` and `EndsCounted` say it of the handler's and the middleware's
metrics together.

`SessionRequestProofs`, about any set of requests of the types in `RequestsAssumption`: `HandlingInv` says what is known of a request on its way
(`OnItsWay`: it is verified from the step `save` on, and what is stored is its `Summary`), and what an answer says of it
(`AnswerInv`: a 400 without an outage means that it was not verified or gives a header twice, and nothing but a 201 or a 500 leaves anything behind).
The step lemmas are one for each way a step can end, `GoneOn`, `MiddlewareRefused` and `HandlerFailed`. From it follow

* `OwnClientsSignSessions` and `RefusedLeaveNothing`;
* `StoredClaimsAreValid`, with `TokenParsedAgain`: a token that validation accepts is parsed to itself when the session is made, so none is lost;
* `FlawlessAreNotRefused`, with `FlawlessClaims`: the schemas accept a score of zero, the level P2 and a signed token;
* `MetricsTellOfAnswers`, with `MiddlewareCounts` for the two places that count;
* `PostalCodesAreFound`. `IdentityInv` says that the addresses of a stored identity are those of the request on its way. What they hold follows from
  `PermitsGiveTheirCodes`, for any list of permits: by `FilterKeeps` the places of the kept codes rise and leave none out, which is an argument by
  counting (`FiniteSetTheorems`), without induction; by `PostalCodesAreExtracted` each permit that ends in a code leaves a text that does, and the
  code alone exactly if that stands free; and by `BlankAddresses` one of blanks leaves nothing unless it has one to six.

`PostalCodesAreExtracted` is about the extraction alone, for texts of any length and any characters: the last eight
characters hold the code and what comes before it there (`CodeInWindow`), the first is cut off if it is a comma, and of the rest the blanks up to the first other
character are trimmed (`TrimmedEndsInCode`), which is that of the code exactly if it stands free. The code has up to eight
characters, and neither begins with a separator nor ends with a blank. `BlankAddresses` is its counterpart for blanks.

Model-checked only: liveness (`EventuallyErased` and `RequestsAnswered`), because fairness and `ENABLED` are out of the prover's reach.

## 5. Not modelled

* Cryptography: signatures are the name of their signer, a JWE opens or not, random values never collide.
* HTTP parsing, logging, the content of audit events, and deployment but for the tables' TTLs and index.
* The audit configuration, which the session lambda loads once and keeps for the life of its container, and
  environment variables.
* Names, birth dates and documents of a person, which are copied field by field.
* `GET /session` (retrieve), a projection of one eventually consistent read, which changes nothing.
* `SessionService.createAuthorizationCode`, which has no caller.

No property says how old the id of the legacy key may be (`jwe-decrypter.ts:109` keeps it for the life of the
container after its first use), for nothing in the repository promises anything about it.

## 6. Plan

Done, in this order: `SessionTable`, `AuthorizationCode`, `AuthorizationCodeGrant` with the first proofs; `SessionLifecycle`,
`JwksCache`, `ContainerConfig`, `JweDecrypter`; `Errors`, `TokenRequest`, `PersonIdentity`, `SessionRequest`; the refinement
proof; the other proofs of section 4; `SessionStore` and its refinement last.

What is left:

1. Of `ContainerConfig`, an abstraction that `TokenRequest` can be shown to rest on: that what a load returns is a value that the
   parameter has had, which is all that `MayLoad` asks for.
2. Larger instances of `code_safety`: two sessions, and three codes in one.
