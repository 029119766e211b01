------------------------------ MODULE HttpApi ------------------------------
(***************************************************************************)
(* The endpoints of backend/internal/httpapi that a recipient's page calls *)
(* for one client address: the rate-limiting middleware, then the handler  *)
(* over reveal sessions and the letters.  A letter is kept here by its     *)
(* status and its claim; SecretStore shows how Redis keeps it.             *)
(***************************************************************************)
EXTENDS RateLimiter, RevealSession, FiniteSets

CONSTANTS Letters,
          ExpiresAt,   \* when the letters expire
          ClaimTTL,    \* openClaimTTL
          OpTimeout,   \* RedisOperationTimeout
          MaxRetries,  \* resends of the limiter's script, for one request
          MaxResent,   \* bound: requests it is sent again for
          MaxTime      \* bound: the clock stops here

ASSUME ApiAssumption ==
  /\ Endpoints \subseteq {"status_check", "reveal_session", "consume_secret"}
  /\ SessionIds = Requests /\ NoSession \notin Requests
  /\ {ExpiresAt, ClaimTTL, OpTimeout, MaxRetries, MaxResent, MaxTime} \subseteq Nat

VARIABLES letter,  \* letter[l]: status, and who claimed it until when
          req      \* req[r]: endpoint, letter, presented session, step, answer

vars == <<clock, counter, hits, sessions, letter, req>>

Statuses == {"active", "opening", "consumed", "expired", "not_found"}
Answers == {"none", "ok", "rate_limited", "bad_request", "error"} \cup Statuses

NoCall == [endpoint |-> "none", letter |-> "none", session |-> NoSession, pc |-> "idle",
           tries |-> 0, at |-> 0, answer |-> "none"]

Goto(r, pc) == req' = [req EXCEPT ![r].pc = pc]
ReadThenGoto(r, pc) == req' = [req EXCEPT ![r].pc = pc, ![r].at = clock]

\* The request is over; what is remembered of it is the session it made.
Reply(r, answer) ==
  req' = [req EXCEPT ![r] =
    IF answer = "ok" /\ req[r].endpoint = "reveal_session"
    THEN [@ EXCEPT !.pc = "done", !.answer = "ok"]
    ELSE [NoCall EXCEPT !.pc = "done", !.tries = req[r].tries, !.answer = answer]]

Running(r) == req[r].pc \notin {"idle", "done"}
Opening(l) == {r \in Requests : req[r].letter = l /\ req[r].pc = "finalize"}
Settle(l, status) ==
  letter' = [letter EXCEPT ![l] = [status |-> status, holder |-> NoSession, until |-> 0]]

-----------------------------------------------------------------------------
(* The middleware *)

\* A page presents no session, one it was answered, or one that is not known.
Begin(r, e, l, s) ==
  /\ req[r].pc = "idle"
  /\ e # "consume_secret" => s = NoSession
  /\ s # NoSession => \/ req[s].pc = "idle"
                      \/ req[s].pc = "done" /\ req[s].endpoint = "reveal_session"
  /\ req' = [req EXCEPT ![r] = [@ EXCEPT !.endpoint = e, !.letter = l, !.session = s, !.pc = "limit"]]
  /\ UNCHANGED <<clock, counter, hits, sessions, letter>>

FirstStep(r) ==
  CASE req[r].endpoint = "consume_secret" /\ req[r].session = NoSession -> "claim"
    [] req[r].endpoint = "consume_secret" /\ req[r].session # NoSession -> "validate"
    [] OTHER -> "status"

Limited(r) ==
  /\ req[r].pc = "limit"
  /\ AllowScript(req[r].endpoint, r, req[r].tries)
  /\ IF Allowed(counter[req[r].endpoint]) THEN Goto(r, FirstStep(r)) ELSE Reply(r, "rate_limited")
  /\ UNCHANGED <<clock, sessions, letter>>

\* The script is executed, its answer is lost, and it is sent again.
LimitResent(r) ==
  /\ req[r].pc = "limit" /\ req[r].tries < MaxRetries
  /\ Cardinality({q \in Requests : req[q].tries > 0} \cup {r}) <= MaxResent
  /\ AllowScript(req[r].endpoint, r, req[r].tries)
  /\ req' = [req EXCEPT ![r].tries = @ + 1]
  /\ UNCHANGED <<clock, sessions, letter>>

\* The limiter cannot tell: the request goes on.
LimiterFails(r) ==
  /\ req[r].pc = "limit"
  /\ Goto(r, FirstStep(r))
  /\ UNCHANGED <<clock, counter, hits, sessions, letter>>

-----------------------------------------------------------------------------
(* GetSecretStatus, alone or as the first step of CreateRevealSession *)

\* What is answered of a status: CreateRevealSession knows nothing of "opening".
Told(r, status) ==
  IF req[r].endpoint # "status_check" /\ status = "opening" THEN "error" ELSE status

\* The metadata is read; an active letter's expiry is still to be judged.
ReadStatus(r) ==
  LET status == letter[req[r].letter].status
  IN  /\ req[r].pc = "status"
      /\ IF status = "active" THEN ReadThenGoto(r, "judge") ELSE Reply(r, Told(r, status))
      /\ UNCHANGED <<clock, counter, hits, sessions, letter>>

\* The clock is read.  The write of an expiry is blind: whatever became of the
\* letter since it was read, it is expired now.
JudgeActive(r) ==
  /\ req[r].pc = "judge" /\ clock <= req[r].at + OpTimeout
  /\ \/ /\ clock < ExpiresAt
        /\ IF req[r].endpoint = "status_check" THEN Reply(r, "active") ELSE ReadThenGoto(r, "store")
        /\ UNCHANGED letter
     \/ /\ ExpiresAt <= clock
        /\ Settle(req[r].letter, "expired") /\ Reply(r, "expired")
  /\ UNCHANGED <<clock, counter, hits, sessions>>

StoreRecord(r) ==
  /\ req[r].pc = "store" /\ clock <= req[r].at + OpTimeout
  /\ StoreSession(r, req[r].letter, req[r].at, clock)
  /\ Reply(r, "ok")
  /\ UNCHANGED <<clock, counter, hits, letter>>

-----------------------------------------------------------------------------
(* handleOpenSecret *)

SessionAnswer == [not_found |-> "not_found", expired |-> "expired", invalid |-> "bad_request"]

Validate(r) ==
  LET verdict == SessionVerdict(req[r].session, req[r].letter, clock)
  IN  /\ req[r].pc = "validate"
      /\ ValidateSession(req[r].session, req[r].letter, clock)
      /\ IF verdict = "valid" THEN ReadThenGoto(r, "claim") ELSE Reply(r, SessionAnswer[verdict])
      /\ UNCHANGED <<clock, counter, hits, letter>>

\* Mutant: all that is looked at is whether another open is under way.
FreeUnlessHeld(l) == letter[l].status # "opening" \/ letter[l].until <= clock

Free(l) ==
  \/ letter[l].status = "active"
  \/ letter[l].status = "opening" /\ letter[l].until <= clock

Claim(r) ==
  LET l == req[r].letter
  IN  /\ req[r].pc = "claim"
      /\ \/ /\ ~Free(l)
            /\ Reply(r, IF letter[l].status = "opening" THEN "consumed" ELSE letter[l].status)
            /\ UNCHANGED letter
         \/ /\ Free(l) /\ ExpiresAt <= clock
            /\ Settle(l, "expired") /\ Reply(r, "expired")
         \/ /\ Free(l) /\ clock < ExpiresAt
            /\ letter' = [letter EXCEPT ![l] =
                 [status |-> "opening", holder |-> r, until |-> clock + ClaimTTL]]
            /\ Goto(r, "finalize")
      /\ UNCHANGED <<clock, counter, hits, sessions>>

\* The letter is burned and its content answered, unless the answer is lost; a
\* payload that Redis has removed makes it expired; a claim that was taken over
\* is answered by what became of the letter.
Finalize(r) ==
  LET l == req[r].letter
      held == letter[l].status = "opening" /\ letter[l].holder = r
  IN  /\ req[r].pc = "finalize"
      /\ \/ held /\ Settle(l, "consumed") /\ (Reply(r, "ok") \/ Reply(r, "error"))
         \/ held /\ ExpiresAt <= clock /\ Settle(l, "expired") /\ Reply(r, "expired")
         \/ /\ ~held /\ UNCHANGED letter
            /\ Reply(r, IF letter[l].status \in {"active", "opening"} THEN "error" ELSE letter[l].status)
      /\ UNCHANGED <<clock, counter, hits, sessions>>

\* The payload does not decrypt: the claim is given back, if it still can be.
Abort(r) ==
  LET l == req[r].letter
      held == letter[l].status = "opening" /\ letter[l].holder = r
  IN  /\ req[r].pc = "finalize"
      /\ IF held THEN Settle(l, IF ExpiresAt <= clock THEN "expired" ELSE "active")
                 ELSE UNCHANGED letter
      /\ Reply(r, "error")
      /\ UNCHANGED <<clock, counter, hits, sessions>>

\* Redis does not answer, the client goes away, or the process ends.
Abandon(r) ==
  /\ Running(r) /\ req[r].pc # "limit"
  /\ Reply(r, "error")
  /\ UNCHANGED <<clock, counter, hits, sessions, letter>>

-----------------------------------------------------------------------------
(* Redis and time *)

\* The metadata of a settled letter is kept longer than its lifetime was.
Forget(l) ==
  /\ letter[l].status \in {"consumed", "expired"} /\ ExpiresAt <= clock
  /\ Settle(l, "not_found")
  /\ UNCHANGED <<clock, counter, hits, sessions, req>>

Tick ==
  /\ clock < MaxTime /\ clock' = clock + 1
  /\ LimiterTick /\ SessionTick(clock + 1)
  /\ UNCHANGED <<letter, req>>

Init ==
  /\ clock = 0 /\ LimiterInit /\ SessionInit
  /\ letter = [l \in Letters |-> [status |-> "active", holder |-> NoSession, until |-> 0]]
  /\ req = [r \in Requests |-> NoCall]

Step(r) ==
  \/ \E e \in Endpoints, l \in Letters, s \in Requests \cup {NoSession} : Begin(r, e, l, s)
  \/ Limited(r) \/ LimitResent(r) \/ LimiterFails(r)
  \/ ReadStatus(r) \/ JudgeActive(r) \/ StoreRecord(r)
  \/ Validate(r) \/ Claim(r) \/ Finalize(r) \/ Abort(r)
  \/ Abandon(r)

Next == (\E r \in Requests : Step(r)) \/ (\E l \in Letters : Forget(l)) \/ Tick

Spec == Init /\ [][Next]_vars

-----------------------------------------------------------------------------
(* Properties *)

TypeOK ==
  /\ LimiterTypeOK
  /\ \A s \in Requests :
       sessions[s] # NoRecord =>
         sessions[s].letter \in Letters /\ sessions[s].expiresAt <= sessions[s].until
  /\ \A l \in Letters :
       letter[l] \in [status : Statuses, holder : Requests \cup {NoSession}, until : Nat]
  /\ \A r \in Requests : req[r].answer \in Answers /\ req[r].tries <= MaxRetries

\* In no stretch of the length of a window does the script say yes more often
\* than twice the limit less one: the end of a window and the whole next one.
\* This is what the fixed windows give, not the hourly limit that the API's
\* documentation names; and a request that the limiter cannot count goes on.
YesPerWindow == \A e \in Endpoints : Cardinality(hits[e]) <= 2 * Limit - 1

\* A request is refused only for requests of the last window's length: as many
\* as fill the limit when each was counted as often as it may be sent.  Requests
\* made while refused, or longer ago, never keep a caller out.
RefusedForCause ==
  [][\A r \in Requests : req'[r].answer = "rate_limited" /\ req[r].answer = "none"
       => Cardinality(Asked(req[r].endpoint)) * (MaxRetries + 1) >= Limit]_vars

\* A letter is claimed by an open that presents a session only if that session
\* was created for this letter, and when it was presented it was younger than
\* a lifetime, whatever became of both in between.
SessionOpensItsLetter ==
  [][\A r \in Requests, l \in Letters :
       letter'[l].holder = r /\ letter[l].holder # r /\ req[r].session # NoSession
       => LET s == req[r].session
          IN  /\ req[s].endpoint = "reveal_session" /\ req[s].answer = "ok"
              /\ req[s].letter = l
              /\ req[r].at < req[s].at + SessionTTL]_vars

\* A letter that is gone stays gone, whatever sessions were stored or validated
\* for it and whatever writes were on their way, and no open is answered with it.
NoReopening ==
  [][\A l \in Letters : letter[l].status \notin {"active", "opening"} =>
       /\ letter'[l].status \notin {"active", "opening"}
       /\ \A r \in Requests :
            req[r].pc = "finalize" /\ req[r].letter = l /\ req'[r].pc = "done"
            => req'[r].answer # "ok"]_vars

\* What SECRET_LETTER_SRS.md:262 asks: a valid token may be read.  A letter that
\* is sealed and that nobody is opening is not refused its reveal session.
ValidTokenAllowsReading ==
  [][\A r \in Requests :
       LET l == req[r].letter
       IN  /\ req[r].endpoint = "reveal_session" /\ req[r].pc = "status" /\ ReadStatus(r)
           /\ letter[l].status \in {"active", "opening"} /\ clock < ExpiresAt
           /\ Opening(l) = {} /\ letter[l].until <= clock
           => req'[r].pc # "done"]_vars
=============================================================================
