# Verification of Secret Letter

Secret Letter stores a letter under an unguessable token and lets its recipient
open it once. This directory holds the TLA+ models of the program, the TLC
configurations that check them on small instances, and the theorems about them
that TLAPS proves for every instance.

- `tlc -config X.cfg M` runs one configuration of the table under "Runs".
- `tlapm M.tla` checks the proofs of a module.

## 1. The system

### Parts, state and operations

| part | source | state it keeps | operations |
|---|---|---|---|
| Letter store | `backend/internal/secret/redis_service.go`, `types.go` | two Redis keys per letter: metadata (status, claim, expiry) and encrypted payload, each with a TTL; the process's at-rest key | `CreateSecret`, `GetSecretStatus`, `ConsumeSecret` with the scripts claim, finalize, abort |
| Reveal sessions | `reveal_session.go` | one Redis key per session, 15 minutes | `CreateRevealSession`, `ValidateRevealSession` |
| Rate limiter | `ratelimit/limiter.go`, `httpapi/middleware.go` | one counter per caller and endpoint with a TTL | one script per request; the middleware lets the request through when the limiter fails |
| HTTP layer | `httpapi/` | none between requests | middleware chain, handlers, mapping of errors to answers |
| Validation | `secret/validation.go` | none | choice of TTL, accepted combinations of content |
| Reveal page | `pages/RevealPage.tsx`, `SecretEnvelopeScene.tsx`, `useEnvelopeTimeline.ts`, `lib/api.ts` | the scene and its text; consent, hold, status screen, animations in progress | load the status, retry, accept, hold or press, open (import the key, create a session, open, decrypt), destroy |
| Compose form | `CreateSecretForm.tsx`, `lib/*` | draft, submit in flight, link, panels, timers | type (UTF-8 clamp), submit, reset, copy, split the link, draw the QR code |
| Release deployment | `scripts/deploy-staging.sh` | release directories, links `current` and `previous`, the running version | deploy, roll back, prune |
| Process start | `cmd/api/main.go`, `config/` | configuration | start and shutdown |
| Presentation, infrastructure | components, Caddy, compose file, workflows | none of their own | - |

### How they interact

The reveal page asks the HTTP API for the status, then creates a reveal session,
then opens the letter with both; each request passes the rate limiter first.
A session is created on top of `GetSecretStatus` and validated before
`ConsumeSecret`; the checks and the open are separate Redis commands. All API
calls, of one process or of its successor after a restart, share the keys in
Redis, which executes one command or Lua script at a time. The deployment
restarts the process while calls are in flight.

### What is hard

- `ConsumeSecret` is three Redis round trips (claim, then finalize or abort) with
  a decryption in between; other opens, status checks, key expiry and a restart
  fall in between any two of them. The claim is a lease that may lapse.
- `GetSecretStatus` reads the metadata, decides, and writes it back whole with a
  plain `SET`: the write may land on metadata that has changed since.
- A command that the caller gave up on (timeout, client gone, process stopped)
  may still be executed, and the client library sends a command again when its
  answer did not come in time, so every command may take effect late or twice.
- Time is read by the process, in whole seconds, and sent along with a command
  that runs later; key expiry follows Redis's clock.
- Without a configured key a restart makes stored letters undecryptable.
- The page's asynchronous results are never cancelled and arrive in any order;
  its statuses are fewer than the ones the store answers; its gestures and
  animations keep what they saw when they began.
- The deployment script runs its steps where the shell's `errexit` is off, and
  moves two links one after the other.

`PROJECT.json` lists each of these hazards at its line, with the properties that
would catch it.

### What makes each part correct

- Letter store: at most one caller gets the content; who got it has burned the
  letter and the payload is gone; a settled letter is never openable again; a
  letter is not lost before its expiry unless it was burned; nothing outlives
  its retention; every call ends.
- Reveal sessions: a session opens only the letter it was made for and only for
  its lifetime; a letter that expired or was consumed after the session was made
  stays closed; every status the store answers leads to a defined answer.
- Rate limiter: its windows are fixed, so while it works at most twice the limit
  less one requests pass in any stretch of a window's length; a caller is refused
  only for requests of the last window, and not for what it asked while refused.
- Reveal page: an open rests on its own consent; what the page says of the letter
  is true of it; a letter that is revealed can be read and stays until its reader
  is done; a touched envelope is answered.
- Compose form: a stored letter ends in its own link or in an error; the link, its
  parts and its QR code open that letter; a draft is lost to nothing else.
- Deployment: whatever fails, `current` names a complete release that was checked,
  or is rolled back to one; pruning keeps both links' targets.

## 2. Plan

Done: the letter store with its refinement and proofs, the API's gate (limiter,
sessions, endpoints), the reveal page and the compose form, each with its proofs.

What would come next:

1. A clock in the reveal page, to state how long a letter may be "opening" there;
   today an open only ends eventually.
2. `SecretStore` under `HttpApi`: `HttpApi` keeps a letter by its status and its
   claim, and a mapping from the store's two keys to these would show that the
   abstraction is the store's. Until then the two meet in `OneTimeSecret`: the
   store, the letters behind the endpoints and the page's service are each proved
   to make only the abstract letter's steps.

## 3. Modules

| module | contents |
|---|---|
| `OneTimeSecret` | the abstract letter: unborn, sealed, gone; who read it |
| `SecretStore` | the store as the code runs it; all its properties; the refinement mapping to `OneTimeSecret` |
| `MCSecretStore` | symmetry of requests and of keys for TLC (not used for liveness) |
| `SecretStoreProofs` | lemmas on the scripts, type correctness; one reader, holder burns, settled stays settled |
| `SecretStoreRefines` | the store implements `OneTimeSecret` |
| `SecretStoreTime` | not lost before the expiry; revealed in the window |
| `SecretStoreLife` | nothing outlives its retention; a claim blocks briefly |
| `RateLimiter` | the counter script and its window |
| `RevealSession` | session records and their verdicts |
| `HttpApi` | the endpoints of one client address over `RateLimiter`, `RevealSession` and the letters |
| `MCHttpApi`, `HttpApiProofs` | the instance; a session opens only its letter, the limiter's windows, gone stays gone, one answered request |
| `SecretApi` | what the browser makes of an answer: pure operators |
| `EnvelopeScene` | the recipient's view: status screen, gestures, animations |
| `RevealPage` | the recipient's page over `EnvelopeScene` and `SecretApi`, with the letter at the service |
| `MCRevealPage`, `RevealPageProofs` | the instance, with the symmetry of calls for `reveal_page`; opens are consented to, what is shown is true and stays |
| `LetterCodec` | UTF-8 clamp, base64 and base64url, links: pure operators |
| `LetterCodecProofs` | what they compute, for texts, limits and keys of any length |
| `ComposeForm` | the writer's page over `LetterCodec` |
| `MCComposeForm`, `ComposeFormProofs` | the instance; draft, letter, link and code belong together; the parts of a link open its letter |

### SecretStore and the code

| model | code |
|---|---|
| `meta[t]`, `payload[t]` | the two Redis keys of a letter; `evictAt` is the end of the key's TTL |
| `create[t]` | the one `CreateSecret` call that makes letter t |
| `req[r]` | one call of `ConsumeSecret` or `GetSecretStatus`: the command it waits for (`pc`), its clock reading (`at`), what it read (`seen`, `box`) and its answer |
| `stray` | commands that were given up on or sent twice and that Redis may still execute |
| `burner[t]` | history: whose finalize burned the letter |
| `ClaimScript`, `FinalizeScript`, `AbortScript` | the three Lua scripts, each one atomic |
| `Claim`, `Decrypt`, `Finalize`, `Abort` | the steps of `ConsumeSecret`, in order |
| `GetMetadata`, `AnswerStatus`, `NoticeExpiry`, `Persist`, `Del` | the steps of `GetSecretStatus` |
| `CreateBegin`, `CreateStored`, `CreateStoredUnanswered`, `CreateFailed` | `CreateSecret` and its transaction, answered, executed without an answer, failed |
| `Tick`, `EvictMeta`, `EvictPayload` | time, and Redis removing a key at the end of its TTL |
| `Resend`, `Abandon`, `ExecuteStray`, `Restart` | client retry, timeout or disconnect, late execution, a new process with the same or another key |

Assumptions of the model: one clock in whole seconds for the process and Redis;
a clock reading travels with its command, which may run later. A command is
executed within `MaxDelay` seconds of its clock reading once nobody waits for it.
Redis keeps what it acknowledged (a restart from an append-only file that lacks
the last second is listed as a hazard and not modelled). A token is known only
once `CreateSecret` answered, so calls and late commands concern acknowledged
letters, and late copies of a creation run before that. A malformed token is
refused by `hashToken` before any state is touched. `EVALSHA` followed by `EVAL`
is one command. The status `deleted` is handled by the scripts and never written
by any of them. Contents, nonces, hashes and JSON are not represented;
decryption succeeds exactly when the process runs with the key the payload was
sealed with.

Every reader of the code should know two consequences that the model makes
visible: a burn is not a delivery (the answer may never reach the caller), and
"consumed" is also the answer while another call holds the claim.

### HttpApi and the code

| model | code |
|---|---|
| `counter[e]`, `Counted`, `AllowScript` | the limiter's key for one endpoint and address, and its script (`limiter.go`) |
| `hits[e]`, `Hit` | history: the executions of the last window's length that said yes: when, which of their window and when that ends, and for which sending of which request |
| `sessions[s]`, `StoreSession`, `SessionVerdict`, `ValidateSession` | `CreateRevealSession`'s record, with its own expiry and its key's TTL, and `ValidateRevealSession` |
| `letter[l]` | what Redis holds of a letter: status, holder and end of the claim |
| `req[r]` | one HTTP request: endpoint, letter, presented session, the step it waits for, its answer |
| `Limited`, `LimitResent`, `LimiterFails` | `withRateLimiting`: executed and answered; executed, unanswered and sent again; let through because the limiter failed |
| `ReadStatus`, `JudgeActive` | `GetSecretStatus`, alone or as the first half of `CreateRevealSession`: the read, and the clock with the blind write of an expiry |
| `Told`, `StoreRecord` | the statuses `CreateRevealSession` knows, and its second half |
| `Validate`, `Free`, `Claim`, `Finalize`, `Abort` | `handleOpenSecret`; a finalize may find the payload gone, or burn the letter and lose its answer |
| `Abandon` | timeout, disconnect or restart between two steps |
| `Forget` | the retention of a settled letter ends |

A request is remembered only by the session it made; requests and session
identifiers are the same set, since one request makes at most one session. A
session whose `SET` was executed without an answer is known to nobody and left
out. Limiter keys of different addresses share nothing, so one address is
modelled; how it is taken from forwarding headers is string handling. The
script's repair of a counter without a TTL is in `Counted`; the program's own
steps never produce such a counter. Late executions of the letter's scripts are
`SecretStore`'s subject and not repeated here; the status check's trailing `DEL`
is not either, since a letter is only its status and claim here.

### RevealPage and the code

| model | code |
|---|---|
| `scene` | `RevealPage`'s state: which scene, and whether it holds the plaintext |
| `link` | the fragment in the address bar |
| `loads[i]`, `StartLoad`, `LoadAnswered`, `LoadFails` | a call of `loadStatus` and its two ends |
| `opens[o]`, `StartOpen` and the steps after it | a call of `handleOpen`, by the await it is in, or by the refusal that is on its way to it |
| `SessionRefused`, `SessionLapsed`, `OpenRefused`; `RefusalReceived` | the service decides (`handlers.go`); the page receives it, after the letter may have moved on |
| `NoFragment` | a link without a fragment: `handleOpen` returns at once |
| `BeginHold`, `EndHold`, `HoldCompletes` | the hold, which keeps the fragment of the render that began it |
| `letter`, `OthersAct` | the letter at the service, moved by other readers and by time |
| `view` | `SecretEnvelopeScene`: the status screen on the screen, consent, `hasTriggeredOpenRef`, the hold with the key its closure saw, the destroy timer; whether the paper was made visible |
| `running` | open, close and burn animations in progress (`useEnvelopeTimeline.ts`) |
| `Committed`, `StatusEffect` | the effects that run when a scene changes: consent and guard are reset, the transition timer is cleared and set again |
| `timer`, `StatusScreenLeaves` | the timer that is running, by name, and its firing; a timer set anew has another name |
| `PlayOpen`, `ReplayAnimations`, `ToggleMotion` | the opening effect, and its rerun when the motion preference changes |
| `NormalizedCode`, `ApiErrors`, `OpenErrorScene` | `lib/api.ts`: error codes from bodies, from a bare status, from a failed `fetch`; the scene of each |
| `accepted` | history: what an acceptance of the warning was given for and may still open: the link, or the hold in progress |
| `hollow`, `overlapped` | history: the last touch that opened carried no fragment; a call began while another was in flight, or an open began with no envelope on the screen |

One behaviour is one document: a reload starts again in `Init` with the letter
as the service has it. The service remembers a letter that is gone for longer
than a document is open. `Loads` and `Opens` bound the calls in
flight: more are not begun. The development-only double effects of React's strict
mode are left out; a production build does not have them.

### ComposeForm and the code

| model | code |
|---|---|
| `form`, `Type`, `ChooseTtl` | the controlled inputs, with `clampUtf8Text` on every change |
| `call`, `Submit` ... `LinkShown` | `handleSubmit`: seal, send, the answer, the transition timer that shows the link; `CallFails` is its catch |
| `letters` | what the service stored, by token |
| `panel`, `Redrawn`, `QrModuleLoads` | the result panel; the effect that imports the QR module and draws, with its cleanup |
| `writing`, `timers` | a clipboard write in progress, and the feedback timers, which are never cancelled |
| `Clamped`, `Taken`, `Encoded`, `Decoded`, `LinkTo`, `SplitLink` | `lib/utf8.ts`, the base64url half of `lib/crypto.ts`, `lib/secretLink.ts` |

A text is a sequence of code points with their UTF-8 widths. A link is a sequence
of characters: the 64 digits of base64url and, with names, the "#" and the three
characters that base64 has and base64url has not. `Encoded` and `Decoded` replace
them and drop and restore the padding as `crypto.ts` does, around `Btoa` and `Atob`,
which stand for the platform's functions; blanks around a key, which `decodeBase64Url`
trims, are left out. The loops of `utf8.ts` are recursive functions over the text;
the bits of base64 are read off two neighbouring numbers, since no digit or byte
spans more. Encryption is a library: a letter is kept with the key that opens it.

## 4. Runs

| run | cfg | instance | shows |
|---|---|---|---|
| `store_safety` | `MCSecretStore.cfg` | 1 letter, 3 calls, 2 keys, no resend | types, one reader, erasure, no early loss, holder burns, refinement |
| `store_resend` | `MCSecretStoreResend.cfg` | 1 letter, 2 calls, 2 keys, 1 resend each, retention 1, fairness | the same hazards with duplicates; every deadline; calls end; content is erased |
| `store_consumed_answer` | `MCSecretStoreConsumed.cfg` | 1 letter, 2 calls | violated: "consumed" means revealed |
| `store_consumed_final` | `MCSecretStoreFinal.cfg` | 1 letter, 2 calls | violated: consumed metadata stays consumed |
| `store_burned_unread` | `MCSecretStoreUnread.cfg` | 1 letter, 2 calls | violated: a letter is not lost before it is opened |
| `reveal_page` | `MCRevealPage.cfg` | right key, wrong key, no key; 1 status check, 2 opens, 1 closing animation more | types; the plaintext only after this page's burn and only in its scenes; opens are consented to; a letter revealed without overlapping calls is readable and stays; gone means gone |
| `reveal_live` | `MCRevealPageLive.cfg` | right key, missing fragment; 1 status check, 1 open, 2 timers; fairness | passing scenes pass; a touch is answered; destroy ends; the screen catches up |
| `reveal_closes_unread` | `MCRevealPageClosed.cfg` | 1 key, 2 status checks, 1 open | violated: a letter is not closed while it is read |
| `reveal_unlit` | `MCRevealPageUnlit.cfg` | 1 key, 2 status checks, 1 open | violated: a revealed letter is visible |
| `compose_form` | `MCComposeForm.cfg` | 2 keys of 2 bytes, 2 letters, drafts of characters of 1 to 4 bytes against 5 bytes, fairness | types; clamp; the parts of a link; QR code; draft and link; no silent loss; the page settles |
| `api_gate` | `MCHttpApi.cfg` | 3 requests, 2 letters, limit 2 per window of 2, 1 resend | types; the windows; refusals have a cause; a session opens its letter; gone stays gone |
| `api_stranded` | `MCHttpApiStranded.cfg` | 2 requests, 1 letter | violated: a valid token may be read |

Bounds of the store. The program's times are kept in their order: `OpTimeout` (5 s in the
code, 2 here) < `ClaimTTL` (30 s, 3 here) < `TTL` (4 here); 1, 2 and 3 in the resend
run, which also checks liveness. `Retention` is as long
as the lifetime in the safety run, so the metadata outlives every call, and 1 in
the resend run, so that it is evicted while calls still run. `MaxDelay` is at
least the claim, so a command may come back after the claim it belonged to
passed to another call, and after the call ended. `MaxTime` ends the clock after
the expiry with room for a call that starts in the last second of the lifetime;
`Begin` leaves each call the time to reach its deadline. `MaxBirth` is 0:
letters share nothing, and their age, not their birth date, matters. One letter
is enough for the same reason: no script touches two letters. Three calls are an
opener, a second opener that takes the claim over, and a status check or the
third that observes them. The proofs do not depend on any of these numbers.

`BoundedLife` needs late commands to end: `ExecuteStray` and `Tick` drop a command
`MaxDelay` seconds after its clock reading. The bound it states is wider than the
few seconds of the run can exceed by delay alone; there TLC finds a missing TTL,
and the theorem gives the rest.

Deadlock is not checked for the store and the API: their clocks are bounded and
each call runs once, so these instances do stop. The pages are checked for it,
except in the runs that look for one violation.

Bounds of the API. Three requests are two sessions and an open, or a session and
two opens; a second letter is what a session could be misused for. A session
lives for 1, a claim for 1 and a letter for 2 seconds, an operation for 1, and the
clock stops at 2, a whole window after the start: sessions lapse before
their letter, claims are taken over, letters expire between the read of a status
and its write. With two executions per window and one request that may be sent
twice there are four executions to share between the end of one window and the
next, where three may say yes. In `api_stranded` the times are 1 (claim), 2
(session) and 3 (letter), so that the refusal comes long before the expiry.
The endpoint of the bare status check is left to the first step of a request for
a session, which runs the same code.

Bounds of the reveal page. Calls overlap with a status check and two opens in
flight in the safety run, and with two status checks and an open in the two runs
that look for what overlapping breaks; a third of either meets nothing that the
second does not. A fragment that is no key matters to the way a scene begins and
to a link that changes; a missing one, to a touch that opens nothing.
`MaxAnimations` bounds only the closing animations that a change of the motion
preference plays again. Two names tell a timer from the one it replaces.

Bounds of the compose form. Five bytes are filled exactly by characters of one, one
and three bytes, and exceeded by one byte by characters of two and four. Keys of
two bytes leave two bits of the last digit unused and need one character of
padding, as the 32 bytes of the code do; one of them has both digits whose
characters base64url replaces. Two letters are an earlier and
a later link; one timer of each kind may run when the next is started.

Fairness of `store_resend`: time passes; Redis removes
overdue keys; a call whose context is done returns (`context.WithTimeout` in
every operation); a status check that needs no further command answers. Nothing
is assumed of Redis answering, of late commands or of callers.

Fairness of the pages: a call of the service ends, with an answer or an error;
timers fire and animations end; in the form also that a submit goes on or fails.
The transition timer of the status screen is cleared and set again by every new
scene, message and motion preference, so fairness is stated for each name in
`Timers` and not for the firing: a timer that is restarted for ever, alternating
between the names, never has to fire. `ScreenFollows` therefore supposes what the
code needs, a scene that is left alone by its reader and by the preference.
Nothing is assumed of readers and writers, of other readers, of the clipboard or
of the QR module. The ten seconds of `safeFetch` justify this for the headers of
an answer only: its timer is cleared before the body is read, and a body that
never comes would leave the page in "loading" or "opening" (listed as a hazard).

### Disagreements between documents and code

- `public-http-api.md` describes `SECRET_CONSUMED` as previously revealed; a
  letter that is only being opened gives the same answer, even to the call whose
  own first claim lost its answer, and may be opened later
  (`ConsumedMeansBurned`).
- `secret-letter-architecture.md` says that later opens see consumed metadata; a
  status check that read the letter earlier overwrites it with expired
  (`ConsumedIsFinal`). The letter stays closed (`NoResurrection`, proved).
- `SECRET_LETTER_SRS.md` asks that a letter is not lost before its recipient
  opens it; a finalize executed after its call ended burns the letter unread
  (`NeverBurnedUnread`).
- `SECRET_LETTER_SRS.md` (FR-010) asks that a letter is not closed while it is
  being read. Status checks are never cancelled: when the retry of the error
  screen is pressed twice, the letter can be opened between the two answers, and
  the second replaces it (`KeptUntilClosed`). The screen that leaves takes no
  pointer events (`secret-letter.css:1253`), but its button still has the
  keyboard's focus. Without overlapping calls the property holds
  (`RevealedUntilClosed`, proved).
- `SECRET_LETTER_SRS.md` (FR-010 and line 968) asks that an opened letter is shown
  clearly, even if the animation fails. The paper is transparent until an animation
  of a mounted envelope makes it visible; an open that ends while a status screen
  is shown, for which another call must overlap, has no envelope to animate and is
  complete at once, and the paper mounted later stays transparent
  (`RevealedIsVisible`). Without overlapping calls the letter is readable
  (`ReadableWhenRevealed`, proved).
- `SECRET_LETTER_SRS.md` (FR-005) says that a valid token allows reading. An open
  that ended after its claim leaves the letter "opening". The claim lapses, but
  only another open takes it back, and the page asks for a session first, which
  is refused with an internal error for every status but active
  (`ValidTokenAllowsReading`). The letter expires unread. The status "opening" is
  also not among those that `public-http-api.md` lists for the status endpoint.
- `public-http-api.md` (lines 384-387) names limits of 120, 240 and 600 requests per
  hour. The windows are fixed, so an hour that covers the end of one and the start
  of the next may see up to twice the limit less one (`YesPerWindow`, proved, is
  that bound, and TLC reaches it); a script that is sent twice counts twice and
  refuses its caller early (`RefusedForCause` says how early at most); and a limiter
  that fails lets the request through, as line 399 says.
- The page may say of a letter that it was opened or has expired while it can still be
  opened: when the letter was only claimed by another call, and when this call's own
  session had expired (`GoneScreensTrue` names both).

## 5. Proofs

From `ConstantsAssumption` alone: the times are positive, the bounds are
naturals, `NoRequest` is no request and `NoKey` no key. No order between the
timeouts is assumed, and the sets of letters, calls and keys are arbitrary.

- `TypeCorrect`: `[]TypeOK`, one lemma per script and per action.
- `OnceInvariant`: the inductive invariant `OnceInv` is `TypeOK`, `IssuedInv`
  and `BurnInv`. The property alone is not inductive: that two calls never
  both read needs that a burned letter has no payload and no openable metadata,
  and this needs that the one command that writes an openable letter, a copy of
  its creation, cannot come after the token is known. From it follow
  `RevealedOnce`, `ErasedOnceBurned`, and, for steps, `SettledForGood` and
  `BurnedByHolder`.
- `StoreImplementsOneTimeSecret`: every step of the store maps to a step of the
  abstract letter or to none; `OneReaderPromised` is the abstract letter's own
  guarantee.
- `TimeInvariant`: `TimeInv` adds that an unburned letter keeps both keys
  beyond its expiry, that metadata and every copy of it a status check holds
  carry the right expiry, and that clock readings are never ahead of the clock;
  a status check writes only after the expiry. From it follow
  `KeptUntilExpiryOrBurned` and `RevealedInWindow`.

- `LifeInvariant`: `LifeInv` adds to `TimeInv` when the keys of a letter end. Open
  metadata keep the end that the creation gave them, so every script settles them
  before that; the status check's blind write can recreate them later, but only
  a call and a late command after it had read open ones. A claim carries the
  clock reading its call began with. From it follow `NothingOutlives` and
  `ClaimsEndSoon`.

The API, from `ApiAssumption` and those of its parts, for any number of requests,
letters, resends, and any limit and window:

- `SessionInvariant` says that a record holds the letter of the request that made
  it and that its expiry counts from that request's clock reading. Between the
  validation and the claim everything may change but the call itself: `Presented`
  says that a call about to claim under a session has had it validated for its own
  letter within its lifetime, and that the request that made it stays what it was.
  `SessionOnlyForItsLetter` is then about the claim.
- `GateInvariant` keeps the limiter's books: what is remembered of the open window is
  numbered without a gap up to its counter, windows are at least their length
  apart, and the first execution of a window gives its end. Of the last window
  at most two counters are remembered, and of the older one not the execution
  that opened it, since that is a whole window ago: this is where twice the limit
  less one comes from (`YesBounded`). A refusal means a full counter, and the
  numbers 1 to the limit of its window are all recent (`RefusedMeansFull`). Two
  executions remembered for the same request are different sendings of it (`Apart`),
  of which there are at most `MaxRetries` + 1, so that many executions come from a
  number of distinct requests (`SentAtMost`): `RefusedOnlyForCause`.
- `GoneStaysGone` needs no more than the types and the exclusion of the claim's
  holder: no step writes an openable status over a settled one, not even the status
  check's blind write, and only a held claim answers.
- `ApiKeepsPromise` records beside the endpoints who was answered with a letter's
  content. Each step is then a step of `OneTimeSecret` or none: sessions, lapsed
  claims, takeovers, aborts and abandoned calls leave a letter sealed or destroy
  it, and only the finalize of the claim's holder answers. `OneAnswered`: at most
  one request ever gets a letter's content.

The reveal page, from `PageAssumption` and `ViewAssumption`, for any fragments and
any number of calls: `RevealInvariant` proves the conjunction of nine parts.
Everything about an open letter comes from the one burn of this page
(`BurnedByPage`), and its payload arrives once and meets no other reading
(`OnePayload`): these make the text properties inductive. `ConsentHeld` ties an
envelope that reacts to the acceptance for the link and a hold to the acceptance it
was begun with, so that `OpensAreConsented` holds for the touch of today and for the
hold of an older render alike. `GoneIsFinal` says that an answer that says gone, of a
status check or of a refused open, stays right while it travels; `GoneIsTrue` follows
and names the two answers that are no such word. `Calm` describes a page on which no
calls overlapped. From these follow the
page's safety properties, one theorem each. `ServiceKeepsPromise` is about
the page's environment: the letter at the service, other readers included, makes
only steps of `OneTimeSecret`, so the page rests on no more than the store is
proved to implement.

The compose form, from `FormAssumption`, for any texts, keys and lifetimes:
`FormInvariant` says that the form is busy exactly while a submit is in flight
(nobody touches the draft it took), that what the service stored is what the
submit took, and that a code that is drawn or about to be is the link's. With it,
and with the lemma that address and key can be read back from a link
(`LinkParts`), follow `QrShowsThisLink`, `NothingStoredSilently`, `LinkReplaces` and
the form's types.

The codec, for texts, limits and keys of any length:

- `ClampKeepsLongest`: the clamp returns the longest beginning that fits; the form's
  invariant turns it into `DraftIsLongestPrefix`.
- `KeysReturn`: a key's text is well formed and decodes to the key. `EncodedDigits` and
  `DecodedBytes` deal with what `crypto.ts` does around the platform's functions: the
  characters it replaces are replaced back (`ReplacedChars`), the padding it drops is
  the padding it restores (`PaddedText`, `WithoutTail`). What is left is the digits: one
  lies in one byte or across two, a byte across two digits; the lemmas `DigitOfBytes`,
  `ByteOfDigits` and `GroupReturns` settle each place of a group of three bytes and
  four digits, `Counts` the lengths of an unfinished last group. With `LinkParts` it
  gives `PartsOpen`.

These theorems need induction, over a text, while the library's induction theorems
take an operator as a parameter, which the provers cannot instantiate. The proofs
take the set of numbers for which a statement fails: the order of the naturals is
well founded, so a set that is not empty has a least element (`LeastNumber`). From
it `Recursion` gives a function defined by recursion over 1..n its existence, and
`InductionUpTo` its properties.

Only model-checked: the liveness properties `EveryCallEnds`, `EventuallyErased`,
`NothingStalls`, `TouchAnswered`, `DestroyEnds`, `ScreenFollows` and `PageSettles`, since liveness under
fairness is out of the prover's reach, and the six properties that the code
violates. Every invariant and every action property of a passing run is proved.

## 6. Not modelled

- Release deployment: a sequential script of external commands (`ssh`, `tar`, `ln`,
  `docker compose`). What a command that fails leaves behind is decided by the
  command and the host, not by this repository, and the script touches no letter.
  Its hazards are listed; the restart it causes is an action of `SecretStore`.
- A restart of Redis from an append-only file that lacks the last second of
  writes: `SecretStore` takes Redis to keep what it acknowledged.
- Request validation: stateless checks of one request against constants.
- Of the HTTP layer: headers, CORS, logging, recovery from panics, body limits and
  the health endpoint.
- Process start, configuration reading, and the in-memory placeholder, which has no
  state.
- Presentation: stars, sparks, press feedback, the copy button of the letter, saving
  the QR image, wording. None of it decides what happens to a letter.
- Infrastructure and the scripts that test or measure the built page from outside.
- Web Crypto and the Go cryptography, which are libraries.
