---------------------------- MODULE SecretStore ----------------------------
(***************************************************************************)
(* The Redis-backed letter store of backend/internal/secret: creation, the *)
(* status check and the claim / decrypt / finalize protocol that opens a   *)
(* letter, as the API process runs them against Redis.                     *)
(*                                                                         *)
(* A letter has two Redis keys, its metadata and its encrypted payload,    *)
(* each with a TTL.  Redis executes one command or Lua script at a time;   *)
(* everything between two commands of a request interleaves with the other *)
(* requests, with time, with key expiry and with a restart of the process. *)
(* The Redis client resends a command whose answer did not arrive in time, *)
(* and a command given up on may still be executed: such copies are in     *)
(* "stray".  Timestamps are whole seconds, as in the stored metadata.      *)
(***************************************************************************)
EXTENDS Naturals

CONSTANTS
  Tokens,      \* tokens of the letters
  Requests,    \* calls of GetSecretStatus and ConsumeSecret; also claim IDs
  NoRequest,   \* no claim ID
  Keys,        \* at-rest encryption keys a process may run with
  NoKey,       \* stands for a payload that is absent
  TTL,         \* lifetime chosen for the letters
  ClaimTTL,    \* openClaimTTL
  OpTimeout,   \* RedisOperationTimeout
  Retention,   \* metadataRetention
  MaxRetries,  \* the Redis client's resends of one command
  MaxDelay,    \* bound: how long a copy given up on may still take effect
  MaxBirth,    \* bound: latest second at which a letter is created
  MaxTime      \* bound: the clock stops here

ASSUME ConstantsAssumption ==
  /\ NoRequest \notin Requests
  /\ NoKey \notin Keys
  /\ {TTL, ClaimTTL, OpTimeout, Retention} \subseteq Nat \ {0}
  /\ {MaxRetries, MaxDelay, MaxBirth, MaxTime} \subseteq Nat

VARIABLES
  clock,    \* seconds, of the process and of Redis alike
  key,      \* at-rest key of the running process
  meta,     \* meta[t]: the metadata key of letter t
  payload,  \* payload[t]: the payload key of letter t
  create,   \* create[t]: the CreateSecret call that makes letter t
  req,      \* req[r]: the state of request r
  stray,    \* commands given up on that Redis may still execute
  burner    \* history: the request whose finalize burned letter t

vars == <<clock, key, meta, payload, create, req, stray, burner>>

-----------------------------------------------------------------------------
\* Commands that change a key, and every command a request can wait for.
Writes == {"claim", "finalize", "abort", "persist", "del"}
Commands == Writes \cup {"get"}

Status == {"none", "active", "opening", "consumed", "expired", "deleted"}

Meta == [status : Status, openingID : Requests \cup {NoRequest},
         openingUntil : Nat, expiresAt : Nat, evictAt : Nat]

NoMeta == [status |-> "none", openingID |-> NoRequest, openingUntil |-> 0,
           expiresAt |-> 0, evictAt |-> 0]

Payload == [sealedWith : Keys \cup {NoKey}, evictAt : Nat]

NoPayload == [sealedWith |-> NoKey, evictAt |-> 0]

Creation == [pc : {"idle", "sent", "acked", "failed"}, began : Nat,
             sealedWith : Keys \cup {NoKey}]

Reply == {"none", "content", "active", "opening", "consumed", "expired",
          "deleted", "not_found", "error"}

\* A request that waits for a command has the command's name as its pc;
\* "decrypt" and "check" are its steps between two commands.
Request == [op : {"none", "consume", "status"},
            pc : Commands \cup {"idle", "decrypt", "check", "done"},
            tok : Tokens, began : Nat, at : Nat, tries : Nat,
            seen : Meta, box : Keys \cup {NoKey}, reply : Reply]

Stray == [req : Requests, cmd : Writes, tok : Tokens, at : Nat,
          seen : Meta, try : Nat]

Init ==
  /\ clock = 0
  /\ key \in Keys
  /\ meta = [t \in Tokens |-> NoMeta]
  /\ payload = [t \in Tokens |-> NoPayload]
  /\ create = [t \in Tokens |->
                [pc |-> "idle", began |-> 0, sealedWith |-> NoKey]]
  /\ \E t \in Tokens :
       req = [r \in Requests |->
               [op |-> "none", pc |-> "idle", tok |-> t, began |-> 0,
                at |-> 0, tries |-> 0, seen |-> NoMeta, box |-> NoKey,
                reply |-> "none"]]
  /\ stray = {}
  /\ burner = [t \in Tokens |-> NoRequest]

-----------------------------------------------------------------------------
(* Redis: expiry of keys, and the scripts as they change the two keys.     *)

Overdue == \E t \in Tokens :
             \/ meta[t] # NoMeta /\ meta[t].evictAt <= clock
             \/ payload[t] # NoPayload /\ payload[t].evictAt <= clock

EvictMeta(t) ==
  /\ meta[t] # NoMeta
  /\ meta[t].evictAt <= clock
  /\ meta' = [meta EXCEPT ![t] = NoMeta]
  /\ UNCHANGED <<clock, key, payload, create, req, stray, burner>>

EvictPayload(t) ==
  /\ payload[t] # NoPayload
  /\ payload[t].evictAt <= clock
  /\ payload' = [payload EXCEPT ![t] = NoPayload]
  /\ UNCHANGED <<clock, key, meta, create, req, stray, burner>>

\* A key whose TTL ends in this second is gone before the next one.
Tick ==
  /\ clock < MaxTime
  /\ ~Overdue
  /\ clock' = clock + 1
  /\ stray' = {s \in stray : clock < s.at + MaxDelay}
  /\ UNCHANGED <<key, meta, payload, create, req, burner>>

\* What claim and finalize answer for metadata that is settled or absent.
Settled == [none |-> "not_found", consumed |-> "consumed",
            expired |-> "expired", deleted |-> "not_found"]

\* Mutant: an aborted claim leaves the frontend's word for an open letter.
UnclaimedAsPending(m, status) ==
  [m EXCEPT !.status = IF status = "active" THEN "pending" ELSE status,
            !.openingID = NoRequest, !.openingUntil = 0]

Unclaimed(m, status) ==
  [m EXCEPT !.status = status, !.openingID = NoRequest, !.openingUntil = 0]

\* A settling write: SET ... EX retention.
Settle(m, status) ==
  [Unclaimed(m, status) EXCEPT !.evictAt = clock + Retention]

\* Mutant: the last second of the lifetime still counts.
LapsedAfter(m, now) == m.expiresAt < now

Lapsed(m, now) == m.expiresAt <= now

HeldBy(m, r) == m.status = "opening" /\ m.openingID = r

ClaimVerdict(t, now) ==
  LET m == meta[t] IN
  IF m.status \in DOMAIN Settled THEN Settled[m.status]
  ELSE IF m.status = "opening" /\ m.openingUntil > now THEN "consumed"
  ELSE IF Lapsed(m, now) \/ payload[t] = NoPayload THEN "expired"
  ELSE "ok"

\* Mutant: a plain SET, which drops the TTL of the metadata.
ClaimedForever(m, r, now) ==
  [m EXCEPT !.status = "opening", !.openingID = r,
            !.openingUntil = now + ClaimTTL, !.evictAt = 100 * MaxTime]

\* Mutant: the claim lasts as long as the letter.
ClaimedUntilExpiry(m, r, now) ==
  [m EXCEPT !.status = "opening", !.openingID = r,
            !.openingUntil = m.expiresAt]

\* The claim keeps the metadata's TTL (KEEPTTL).
Claimed(m, r, now) ==
  [m EXCEPT !.status = "opening", !.openingID = r,
            !.openingUntil = now + ClaimTTL]

ClaimScript(t, r, now) ==
  LET v == ClaimVerdict(t, now)
      lapses == v = "expired" /\ meta[t].status # "expired" IN
  /\ meta' = [meta EXCEPT ![t] = IF v = "ok" THEN Claimed(@, r, now)
                                 ELSE IF lapses THEN Settle(@, "expired")
                                 ELSE @]
  /\ payload' = [payload EXCEPT ![t] = IF lapses THEN NoPayload ELSE @]
  /\ UNCHANGED burner

\* Mutant: finalize checks that the letter is claimed, not by whom.
FinalizeVerdictAnyClaim(t, r) ==
  LET m == meta[t] IN
  IF m.status \in DOMAIN Settled THEN Settled[m.status]
  ELSE IF m.status # "opening" THEN "conflict"
  ELSE IF payload[t] = NoPayload THEN "expired"
  ELSE "ok"

FinalizeVerdict(t, r) ==
  LET m == meta[t] IN
  IF m.status \in DOMAIN Settled THEN Settled[m.status]
  ELSE IF ~HeldBy(m, r) THEN "conflict"
  ELSE IF payload[t] = NoPayload THEN "expired"
  ELSE "ok"

\* Mutant: finalize reports success and gives the claim back.
FinalizeScriptNoBurn(t, r) ==
  LET v == FinalizeVerdict(t, r) IN
  /\ meta' = [meta EXCEPT ![t] = IF v = "ok" THEN Unclaimed(@, "active") ELSE @]
  /\ burner' = [burner EXCEPT ![t] = IF v = "ok" THEN r ELSE @]
  /\ UNCHANGED payload

\* Mutant: finalize marks the letter consumed and forgets its payload.
FinalizeScriptKeepsPayload(t, r) ==
  LET v == FinalizeVerdict(t, r) IN
  /\ meta' = [meta EXCEPT ![t] = IF v = "ok" THEN Settle(@, "consumed") ELSE @]
  /\ burner' = [burner EXCEPT ![t] = IF v = "ok" THEN r ELSE @]
  /\ UNCHANGED payload

FinalizeScript(t, r) ==
  LET v == FinalizeVerdict(t, r)
      lapses == v = "expired" /\ meta[t].status # "expired" IN
  /\ meta' = [meta EXCEPT ![t] = IF v = "ok" THEN Settle(@, "consumed")
                                 ELSE IF lapses THEN Settle(@, "expired")
                                 ELSE @]
  /\ payload' = [payload EXCEPT ![t] = IF v = "ok" THEN NoPayload ELSE @]
  /\ burner' = [burner EXCEPT ![t] = IF v = "ok" THEN r ELSE @]

\* Mutant: a letter that does not decrypt is thrown away.
AbortScriptErases(t, r, now) ==
  /\ meta' = [meta EXCEPT ![t] = IF HeldBy(@, r) THEN Settle(@, "expired") ELSE @]
  /\ payload' = [payload EXCEPT ![t] = NoPayload]
  /\ UNCHANGED burner

\* Gives an open claim back, unless it is no longer this request's.
AbortScript(t, r, now) ==
  LET m == meta[t]
      lapses == HeldBy(m, r) /\ Lapsed(m, now) IN
  /\ meta' = [meta EXCEPT ![t] = IF lapses THEN Settle(m, "expired")
                                 ELSE IF HeldBy(m, r)
                                      THEN Unclaimed(m, "active")
                                 ELSE m]
  /\ payload' = [payload EXCEPT ![t] = IF lapses THEN NoPayload ELSE @]
  /\ UNCHANGED burner

\* Mutant: the metadata is written back as it was read.
PersistAsRead(t, seen) ==
  /\ meta' = [meta EXCEPT ![t] = Settle(seen, seen.status)]
  /\ UNCHANGED <<payload, burner>>

\* A blind SET of the metadata the status check read, now marked expired.
PersistExpired(t, seen) ==
  /\ meta' = [meta EXCEPT ![t] = Settle(seen, "expired")]
  /\ UNCHANGED <<payload, burner>>

DelPayload(t) ==
  /\ payload' = [payload EXCEPT ![t] = NoPayload]
  /\ UNCHANGED <<meta, burner>>

-----------------------------------------------------------------------------
(* CreateSecret: one transaction stores both keys.  A copy that was given  *)
(* up on still stores them while the call is unanswered or has failed; the *)
(* token is known to nobody then.                                          *)

ExpiresAt(t) == create[t].began + TTL

Known(t) == create[t].pc = "acked"

\* Mutant: the payload is stored without a TTL.
StoreForever(t) ==
  /\ payload' = [payload EXCEPT ![t] =
       [sealedWith |-> create[t].sealedWith, evictAt |-> 100 * MaxTime]]
  /\ meta' = [meta EXCEPT ![t] =
       [status |-> "active", openingID |-> NoRequest, openingUntil |-> 0,
        expiresAt |-> ExpiresAt(t), evictAt |-> clock + TTL + Retention]]
  /\ UNCHANGED <<clock, key, req, stray, burner>>

Store(t) ==
  /\ payload' = [payload EXCEPT ![t] =
       [sealedWith |-> create[t].sealedWith, evictAt |-> clock + TTL]]
  /\ meta' = [meta EXCEPT ![t] =
       [status |-> "active", openingID |-> NoRequest, openingUntil |-> 0,
        expiresAt |-> ExpiresAt(t), evictAt |-> clock + TTL + Retention]]
  /\ UNCHANGED <<clock, key, req, stray, burner>>

CreateBegin(t) ==
  /\ create[t].pc = "idle"
  /\ clock <= MaxBirth
  /\ create' = [create EXCEPT ![t] =
       [pc |-> "sent", began |-> clock, sealedWith |-> key]]
  /\ UNCHANGED <<clock, key, meta, payload, req, stray, burner>>

CreateStored(t) ==
  /\ create[t].pc = "sent"
  /\ clock < create[t].began + OpTimeout
  /\ Store(t)
  /\ create' = [create EXCEPT ![t].pc = "acked"]

CreateStoredUnanswered(t) ==
  /\ create[t].pc \in {"sent", "failed"}
  /\ clock < create[t].began + OpTimeout + MaxDelay
  /\ Store(t)
  /\ UNCHANGED create

CreateFailed(t) ==
  /\ create[t].pc = "sent"
  /\ create' = [create EXCEPT ![t].pc = "failed"]
  /\ UNCHANGED <<clock, key, meta, payload, req, stray, burner>>

-----------------------------------------------------------------------------
(* Requests: what each waits for, and how it ends.                         *)

Running(r) == req[r].pc \notin {"idle", "done"}

\* Mutant: the status check runs without a timeout.
DeadlineOfConsume(r) ==
  req[r].began + IF req[r].op = "status" THEN 100 * MaxTime ELSE OpTimeout

Deadline(r) == req[r].began + OpTimeout

\* The context of the call is not done: a command may be sent or answered.
InTime(r) == clock < Deadline(r)

\* The next command of the call; its time argument is read now.
Goto(r, pc) ==
  req' = [req EXCEPT ![r].pc = pc, ![r].at = clock, ![r].tries = 0]

\* The call returns; its local variables are gone.
Ended(r, reply) ==
  [req[r] EXCEPT !.pc = "done", !.reply = reply,
                 !.at = 0, !.tries = 0, !.seen = NoMeta, !.box = NoKey]

Answer(r, reply) == req' = [req EXCEPT ![r] = Ended(r, reply)]

LeftBehind(r) ==
  IF req[r].pc \in Writes
  THEN {[req |-> r, cmd |-> req[r].pc, tok |-> req[r].tok, at |-> req[r].at,
         seen |-> req[r].seen, try |-> req[r].tries]}
  ELSE {}

Begin(r, t, op, pc) ==
  /\ req[r].pc = "idle"
  /\ Known(t)
  /\ clock + OpTimeout <= MaxTime
  /\ req' = [req EXCEPT ![r].op = op, ![r].pc = pc, ![r].tok = t,
                        ![r].began = clock, ![r].at = clock]
  /\ UNCHANGED <<clock, key, meta, payload, create, stray, burner>>

BeginConsume(r, t) == Begin(r, t, "consume", "claim")

BeginStatus(r, t) == Begin(r, t, "status", "get")

Claim(r) ==
  LET t == req[r].tok
      v == ClaimVerdict(t, req[r].at) IN
  /\ req[r].pc = "claim"
  /\ InTime(r)
  /\ ClaimScript(t, r, req[r].at)
  /\ IF v = "ok"
     THEN req' = [req EXCEPT ![r].pc = "decrypt", ![r].tries = 0,
                             ![r].box = payload[t].sealedWith]
     ELSE Answer(r, v)
  /\ UNCHANGED <<clock, key, create, stray>>

Decrypts(r) == req[r].box = key

\* A payload sealed with another key does not decrypt: the claim is aborted.
Decrypt(r) ==
  /\ req[r].pc = "decrypt"
  /\ InTime(r)
  /\ Goto(r, IF Decrypts(r) THEN "finalize" ELSE "abort")
  /\ UNCHANGED <<clock, key, meta, payload, create, stray, burner>>

\* Mutant: the answer of finalize is not looked at.
FinalizeUnchecked(r) ==
  /\ req[r].pc = "finalize"
  /\ InTime(r)
  /\ FinalizeScript(req[r].tok, r)
  /\ Answer(r, "content")
  /\ UNCHANGED <<clock, key, create, stray>>

Finalize(r) ==
  LET t == req[r].tok
      v == FinalizeVerdict(t, r) IN
  /\ req[r].pc = "finalize"
  /\ InTime(r)
  /\ FinalizeScript(t, r)
  /\ Answer(r, IF v = "ok" THEN "content"
               ELSE IF v = "conflict" THEN "error" ELSE v)
  /\ UNCHANGED <<clock, key, create, stray>>

Abort(r) ==
  /\ req[r].pc = "abort"
  /\ InTime(r)
  /\ AbortScript(req[r].tok, r, req[r].at)
  /\ Answer(r, "error")
  /\ UNCHANGED <<clock, key, create, stray>>

GetMetadata(r) ==
  LET m == meta[req[r].tok] IN
  /\ req[r].pc = "get"
  /\ InTime(r)
  /\ IF m = NoMeta
     THEN Answer(r, "not_found")
     ELSE req' = [req EXCEPT ![r].pc = "check", ![r].tries = 0,
                             ![r].seen = m]
  /\ UNCHANGED <<clock, key, meta, payload, create, stray, burner>>

SeenLapsed(r) == req[r].seen.status = "active" /\ Lapsed(req[r].seen, clock)

AnswerStatus(r) ==
  /\ req[r].pc = "check"
  /\ ~SeenLapsed(r)
  /\ Answer(r, req[r].seen.status)
  /\ UNCHANGED <<clock, key, meta, payload, create, stray, burner>>

NoticeExpiry(r) ==
  /\ req[r].pc = "check"
  /\ SeenLapsed(r)
  /\ InTime(r)
  /\ Goto(r, "persist")
  /\ UNCHANGED <<clock, key, meta, payload, create, stray, burner>>

Persist(r) ==
  /\ req[r].pc = "persist"
  /\ InTime(r)
  /\ PersistExpired(req[r].tok, req[r].seen)
  /\ Goto(r, "del")
  /\ UNCHANGED <<clock, key, create, stray>>

Del(r) ==
  /\ req[r].pc = "del"
  /\ InTime(r)
  /\ DelPayload(req[r].tok)
  /\ Answer(r, "expired")
  /\ UNCHANGED <<clock, key, create, stray>>

-----------------------------------------------------------------------------
(* Failures: a lost or late answer, a call given up on, a restart.         *)

\* The client library sends the command again; the first copy may be late.
Resend(r) ==
  /\ req[r].pc \in Commands
  /\ InTime(r)
  /\ req[r].tries < MaxRetries
  /\ stray' = stray \cup LeftBehind(r)
  /\ req' = [req EXCEPT ![r].tries = @ + 1]
  /\ UNCHANGED <<clock, key, meta, payload, create, burner>>

\* The context is done (deadline, caller gone) or the last resend failed.
\* The error of the trailing DEL is ignored.
Abandon(r) ==
  /\ Running(r)
  /\ stray' = stray \cup LeftBehind(r)
  /\ Answer(r, IF req[r].pc = "del" THEN "expired" ELSE "error")
  /\ UNCHANGED <<clock, key, meta, payload, create, burner>>

\* Redis executes a copy nobody waits for; the answer goes nowhere.
ExecuteStray(s) ==
  /\ s \in stray /\ clock <= s.at + MaxDelay
  /\ \/ s.cmd = "claim" /\ ClaimScript(s.tok, s.req, s.at)
     \/ s.cmd = "finalize" /\ FinalizeScript(s.tok, s.req)
     \/ s.cmd = "abort" /\ AbortScript(s.tok, s.req, s.at)
     \/ s.cmd = "persist" /\ PersistExpired(s.tok, s.seen)
     \/ s.cmd = "del" /\ DelPayload(s.tok)
  /\ stray' = stray \ {s}
  /\ UNCHANGED <<clock, key, create, req>>

\* The process restarts, with the same key or a new one: every call in
\* flight ends, and what it had sent may still be executed.
Restart(k) ==
  /\ key' = k
  /\ req' = [r \in Requests |->
              IF Running(r) THEN Ended(r, "error") ELSE req[r]]
  /\ stray' = stray \cup UNION {LeftBehind(r) : r \in Requests}
  /\ create' = [t \in Tokens |->
                 IF create[t].pc = "sent"
                 THEN [create[t] EXCEPT !.pc = "failed"] ELSE create[t]]
  /\ UNCHANGED <<clock, meta, payload, burner>>

-----------------------------------------------------------------------------
Step(r) ==
  \/ \E t \in Tokens : BeginConsume(r, t) \/ BeginStatus(r, t)
  \/ Claim(r) \/ Decrypt(r) \/ Finalize(r) \/ Abort(r)
  \/ GetMetadata(r) \/ AnswerStatus(r) \/ NoticeExpiry(r)
  \/ Persist(r) \/ Del(r)
  \/ Resend(r) \/ Abandon(r)

LetterStep(t) ==
  \/ CreateBegin(t) \/ CreateStored(t)
  \/ CreateStoredUnanswered(t) \/ CreateFailed(t)
  \/ EvictMeta(t) \/ EvictPayload(t)

Next ==
  \/ Tick
  \/ \E t \in Tokens : LetterStep(t)
  \/ \E r \in Requests : Step(r)
  \/ \E s \in stray : ExecuteStray(s)
  \/ \E k \in Keys : Restart(k)

Spec == Init /\ [][Next]_vars

\* Time passes, Redis expires keys, and a context that is done ends its call.
\* Nothing is assumed of Redis answering or of clients staying.
Fairness ==
  /\ WF_vars(Tick)
  /\ \A t \in Tokens : WF_vars(EvictMeta(t)) /\ WF_vars(EvictPayload(t))
  /\ \A r \in Requests : WF_vars(~InTime(r) /\ Abandon(r))
  /\ \A r \in Requests : WF_vars(AnswerStatus(r))

FairSpec == Spec /\ Fairness

-----------------------------------------------------------------------------
(* Properties.                                                             *)

TypeOK ==
  /\ clock \in Nat
  /\ key \in Keys
  /\ meta \in [Tokens -> Meta]
  /\ payload \in [Tokens -> Payload]
  /\ create \in [Tokens -> Creation]
  /\ req \in [Requests -> Request]
  /\ stray \subseteq Stray
  /\ burner \in [Tokens -> Requests \cup {NoRequest}]

Revealed(r) == req[r].reply = "content"

\* However opens interleave, expire, are resent or resumed late, at most one
\* ConsumeSecret call returns the content of a letter.
AtMostOneReveal ==
  \A r1, r2 \in Requests :
    Revealed(r1) /\ Revealed(r2) /\ req[r1].tok = req[r2].tok => r1 = r2

\* Whoever was given the content has burned the letter: its payload is erased
\* for good, also when the metadata is later overwritten or evicted.
BurnedIsErased ==
  /\ \A r \in Requests : Revealed(r) => burner[req[r].tok] = r
  /\ \A t \in Tokens : burner[t] # NoRequest => payload[t] = NoPayload

\* An acknowledged letter is not lost before it expires, unless a finalize
\* burned it: no abort, status check, stale claim or restart erases it.
NotLostEarly ==
  \A t \in Tokens :
    Known(t) /\ clock < ExpiresAt(t) =>
      \/ burner[t] # NoRequest
      \/ payload[t] # NoPayload /\ meta[t].status \in {"active", "opening"}

\* No key outlives the lifetime, twice the retention and the time a command
\* can take: every rewrite of the metadata keeps a TTL.
BoundedLife ==
  \A t \in Tokens :
    /\ payload[t] # NoPayload =>
         payload[t].evictAt <= ExpiresAt(t) + OpTimeout + MaxDelay
    /\ meta[t] # NoMeta =>
         meta[t].evictAt <= ExpiresAt(t) + 2 * (OpTimeout + MaxDelay + Retention)

\* A settled letter never becomes openable again, even though the status
\* check writes back metadata it read earlier.
NoResurrection ==
  [][\A t \in Tokens :
       meta[t].status \in {"consumed", "expired"} =>
         meta'[t].status \in {"consumed", "expired", "none"}]_vars

\* The content is handed out only to a call that began before the expiry and
\* at most an operation timeout after it: finalize itself reads no clock.
RevealWindow ==
  [][\A r \in Requests :
       Revealed(r)' /\ ~Revealed(r) =>
         /\ req[r].began < ExpiresAt(req[r].tok)
         /\ clock < ExpiresAt(req[r].tok) + OpTimeout]_vars

\* A claim refuses other openers only for ClaimTTL from the start of the call
\* that holds it, however that call ended.
ClaimBlocksBriefly ==
  [][\A r \in Requests :
       LET t == req[r].tok IN
       /\ req[r].pc = "claim"
       /\ req'[r].reply = "consumed"
       /\ burner[t] = NoRequest
       => \E holder \in Requests :
            HeldBy(meta[t], holder) /\ req[r].began < req[holder].began + ClaimTTL]_vars

\* A letter is burned only by the request that holds its claim: a finalize
\* that comes back after the claim passed to another opener has no effect.
OnlyHolderBurns ==
  [][\A t \in Tokens :
       burner'[t] # burner[t] =>
         /\ HeldBy(meta[t], burner'[t])
         /\ burner[t] = NoRequest]_vars

-----------------------------------------------------------------------------
(* The abstract letter: born when its author learns the token, sealed while *)
(* it can still be opened, read by the calls that returned its content.     *)

stageBar ==
  [t \in Tokens |->
    IF ~Known(t) THEN "unborn"
    ELSE IF payload[t] # NoPayload /\ meta[t].status \in {"active", "opening"}
         THEN "sealed"
    ELSE "gone"]

readersBar ==
  [t \in Tokens |-> {r \in Requests : Revealed(r) /\ req[r].tok = t}]

Abstract == INSTANCE OneTimeSecret WITH stage <- stageBar, readers <- readersBar

\* The store implements the one-time letter.
ImplementsOneTimeSecret == Abstract!Spec

-----------------------------------------------------------------------------
(* Liveness, under FairSpec.                                               *)

\* Every call is answered, whatever Redis does: its context bounds it.
EveryCallEnds == \A r \in Requests : Running(r) ~> ~Running(r)

\* The content of a letter is eventually erased, opened or not.
EventuallyErased == \A t \in Tokens : Known(t) ~> payload[t] = NoPayload
-----------------------------------------------------------------------------
(* What the documents say of the store, and the code does not do.          *)

\* docs/contracts/public-http-api.md: SECRET_CONSUMED, "Secret has been
\* previously revealed".  The claim script also answers so for a letter that
\* is merely claimed, even when the refused call made that claim itself.
ConsumedMeansBurned ==
  \A r \in Requests :
    req[r].op = "consume" /\ req[r].reply = "consumed" =>
      burner[req[r].tok] # NoRequest

\* docs/product-spec/secret-letter-architecture.md: "Subsequent consumes see
\* consumed metadata".  The status check can overwrite it with "expired".
ConsumedIsFinal ==
  [][\A t \in Tokens :
       meta[t].status = "consumed" => meta'[t].status \in {"consumed", "none"}]_vars

\* docs/ui/SECRET_LETTER_SRS.md: a secret must not be lost before the
\* recipient opens it, unless it expires.  A finalize whose answer is lost, or
\* that runs after its call ended, burns the letter with nobody to read it.
NeverBurnedUnread ==
  \A t \in Tokens :
    burner[t] # NoRequest =>
      \/ Revealed(burner[t])
      \/ req[burner[t]].pc = "finalize" /\ InTime(burner[t])
=============================================================================
