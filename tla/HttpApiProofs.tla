--------------------------- MODULE HttpApiProofs ---------------------------
(***************************************************************************)
(* A reveal session opens the letter it was created for and no other, and  *)
(* the limiter's windows admit what they may, for any number of requests,  *)
(* letters and resends and for any limit and window.                       *)
(***************************************************************************)
EXTENDS HttpApi, FiniteSetTheorems, FunctionTheorems, TLAPS

-----------------------------------------------------------------------------
(* The inductive invariant *)

Pcs == {"idle", "limit", "status", "judge", "store", "validate", "claim", "finalize", "done"}

Calls == [endpoint : Endpoints \cup {"none"}, letter : Letters \cup {"none"},
          session : Requests \cup {NoSession}, pc : Pcs,
          tries : Nat, at : Nat, answer : Answers]

LetterTypes == letter \in [Letters -> [status : Statuses, holder : Requests \cup {NoSession}, until : Nat]]

Records == [letter : Letters \cup {"none"}, expiresAt : Nat, until : Nat]

CallTypes ==
  /\ clock \in Nat
  /\ LetterTypes
  /\ req \in [Requests -> Calls]
  /\ sessions \in [Requests -> Records]

\* What a call's step says of the call: it is about a letter, only an open
\* presents a session, and only a request for a session stores one.  Its script
\* was not resent too often, and what it read is past.
Consistent(c) ==
  /\ c.tries <= MaxRetries /\ c.at <= clock
  /\ c.endpoint # "consume_secret" => c.session = NoSession
  /\ c.pc \notin {"idle", "done"} => c.letter \in Letters
  /\ c.pc = "limit" => c.endpoint \in Endpoints
  /\ c.pc \in {"status", "judge"} => c.endpoint \in Endpoints \ {"consume_secret"}
  /\ c.pc = "store" => c.endpoint = "reveal_session"

\* A record is what the finished request that its id names has made.
RecordsKnow ==
  \A s \in Requests : sessions[s] # NoRecord =>
    /\ req[s].endpoint = "reveal_session" /\ req[s].pc = "done" /\ req[s].answer = "ok"
    /\ sessions[s].letter = req[s].letter
    /\ sessions[s].expiresAt = req[s].at + SessionTTL
    /\ sessions[s].letter \in Letters /\ sessions[s].expiresAt <= sessions[s].until

SessionInv == CallTypes /\ (\A r \in Requests : Consistent(req[r])) /\ RecordsKnow

-----------------------------------------------------------------------------
(* One call *)

\* The fields of a call.
LEMMA CallFields ==
  ASSUME NEW c \in Calls
  PROVE  /\ c.endpoint \in Endpoints \cup {"none"} /\ c.letter \in Letters \cup {"none"}
         /\ c.session \in Requests \cup {NoSession} /\ c.pc \in Pcs
         /\ c.tries \in Nat /\ c.at \in Nat /\ c.answer \in Answers
BY DEF Calls

\* A call moves on, and no session is stored: whatever the call is now, the
\* records of the finished ones stay true.
LEMMA CallMoves ==
  ASSUME SessionInv, NEW r \in Requests, req[r].pc # "done",
         NEW c \in Calls, Consistent(c), req' = [req EXCEPT ![r] = c],
         clock' = clock, LetterTypes', sessions' \in [Requests -> Records],
         \A s \in Requests : sessions'[s] \in {sessions[s], NoRecord}
  PROVE  SessionInv'
<1>1. req'[r] = c /\ \A s \in Requests : s # r => req'[s] = req[s]
  BY DEF SessionInv, CallTypes
<1>2. CallTypes'
  BY DEF SessionInv, CallTypes
<1>3. \A s \in Requests : Consistent(req'[s])
  BY <1>1 DEF SessionInv
<1>4. RecordsKnow'
  <2> SUFFICES ASSUME NEW s \in Requests, sessions'[s] # NoRecord
               PROVE  /\ req'[s].endpoint = "reveal_session" /\ req'[s].pc = "done"
                      /\ req'[s].answer = "ok"
                      /\ sessions'[s].letter = req'[s].letter
                      /\ sessions'[s].expiresAt = req'[s].at + SessionTTL
                      /\ sessions'[s].letter \in Letters
                      /\ sessions'[s].expiresAt <= sessions'[s].until
    BY DEF RecordsKnow
  <2>1. sessions'[s] = sessions[s]
    OBVIOUS
  <2>2. s # r
    BY <2>1 DEF SessionInv, RecordsKnow
  <2>3. QED BY <1>1, <2>1, <2>2 DEF SessionInv, RecordsKnow
<1>5. QED BY <1>2, <1>3, <1>4 DEF SessionInv, Consistent

\* The call a reply leaves behind.
Replied(r, answer) ==
  IF answer = "ok" /\ req[r].endpoint = "reveal_session"
  THEN [req[r] EXCEPT !.pc = "done", !.answer = "ok"]
  ELSE [NoCall EXCEPT !.pc = "done", !.tries = req[r].tries, !.answer = answer]

LEMMA RepliedType ==
  ASSUME SessionInv, NEW r \in Requests, NEW answer \in Answers
  PROVE  /\ Replied(r, answer) \in Calls /\ Consistent(Replied(r, answer))
         /\ Replied(r, answer).pc = "done" /\ Replied(r, answer).answer = answer
         /\ answer = "ok" /\ req[r].endpoint = "reveal_session" =>
              /\ Replied(r, answer).endpoint = "reveal_session"
              /\ Replied(r, answer).letter = req[r].letter
              /\ Replied(r, answer).at = req[r].at
<1>1. req[r] \in Calls /\ Consistent(req[r])
  BY DEF SessionInv, CallTypes
<1>2. CASE answer = "ok" /\ req[r].endpoint = "reveal_session"
  <2> DEFINE c == [req[r] EXCEPT !.pc = "done", !.answer = "ok"]
  <2>1. /\ c \in Calls /\ c.pc = "done" /\ c.endpoint = req[r].endpoint /\ c.session = req[r].session
        /\ c.letter = req[r].letter /\ c.at = req[r].at /\ c.tries = req[r].tries
        /\ c.answer = "ok"
    BY <1>1 DEF Calls, Pcs, Answers
  <2>2. Consistent(c)
    BY <1>1, <2>1, ApiAssumption DEF Consistent
  <2>3. Replied(r, answer) = c
    BY <1>2 DEF Replied
  <2> HIDE DEF c
  <2>4. QED BY <1>2, <2>1, <2>2, <2>3
<1>3. CASE ~(answer = "ok" /\ req[r].endpoint = "reveal_session")
  <2> DEFINE c == [NoCall EXCEPT !.pc = "done", !.tries = req[r].tries, !.answer = answer]
  <2>1. /\ c \in Calls /\ c.pc = "done" /\ c.endpoint = "none" /\ c.session = NoSession
        /\ c.tries = req[r].tries /\ c.at = 0 /\ c.answer = answer
    BY <1>1 DEF Calls, Pcs, NoCall
  <2>2. Consistent(c)
    BY <1>1, <2>1, ApiAssumption DEF Consistent, SessionInv, CallTypes
  <2>3. Replied(r, answer) = c
    BY <1>3 DEF Replied
  <2> HIDE DEF c
  <2>4. QED BY <1>3, <2>1, <2>2, <2>3
<1>4. QED BY <1>2, <1>3

\* A call is answered without storing a session.
LEMMA CallReplies ==
  ASSUME SessionInv, NEW r \in Requests, req[r].pc # "done", NEW answer \in Answers,
         Reply(r, answer), clock' = clock, LetterTypes', sessions' \in [Requests -> Records],
         \A s \in Requests : sessions'[s] \in {sessions[s], NoRecord}
  PROVE  SessionInv'
<1>1. req' = [req EXCEPT ![r] = Replied(r, answer)]
  BY DEF Reply, Replied
<1>2. QED BY <1>1, RepliedType, CallMoves

\* A call goes on to another step.
LEMMA CallGoes ==
  ASSUME SessionInv, NEW r \in Requests, req[r].pc # "done",
         NEW pc \in {"status", "judge", "validate", "claim", "finalize", "store"},
         Goto(r, pc) \/ ReadThenGoto(r, pc),
         pc \in {"status", "judge"} => req[r].endpoint \in Endpoints \ {"consume_secret"},
         pc = "store" => req[r].endpoint = "reveal_session", req[r].letter \in Letters,
         clock' = clock, LetterTypes', sessions' \in [Requests -> Records],
         \A s \in Requests : sessions'[s] \in {sessions[s], NoRecord}
  PROVE  SessionInv'
<1>1. req[r] \in Calls /\ Consistent(req[r]) /\ clock \in Nat /\ req \in [Requests -> Calls]
  BY DEF SessionInv, CallTypes
<1>2. CASE Goto(r, pc)
  <2> DEFINE c == [req[r] EXCEPT !.pc = pc]
  <2>1. /\ c \in Calls /\ c.pc = pc /\ c.endpoint = req[r].endpoint /\ c.session = req[r].session
        /\ c.letter = req[r].letter /\ c.tries = req[r].tries /\ c.at = req[r].at
    BY <1>1 DEF Calls, Pcs
  <2>2. Consistent(c)
    BY <1>1, <2>1 DEF Consistent
  <2>3. req' = [req EXCEPT ![r] = c]
    BY <1>2 DEF Goto
  <2> HIDE DEF c
  <2>4. QED BY <2>1, <2>2, <2>3, CallMoves
<1>3. CASE ReadThenGoto(r, pc)
  <2> DEFINE c == [req[r] EXCEPT !.pc = pc, !.at = clock]
  <2>1. /\ c \in Calls /\ c.pc = pc /\ c.endpoint = req[r].endpoint /\ c.session = req[r].session
        /\ c.letter = req[r].letter /\ c.tries = req[r].tries /\ c.at = clock
    BY <1>1 DEF Calls, Pcs
  <2>2. Consistent(c)
    BY <1>1, <2>1 DEF Consistent
  <2>3. req' = [req EXCEPT ![r] = c]
    BY <1>1, <1>3 DEF ReadThenGoto
  <2> HIDE DEF c
  <2>4. QED BY <2>1, <2>2, <2>3, CallMoves
<1>4. QED BY <1>2, <1>3

-----------------------------------------------------------------------------
(* The actions *)

\* Only letters and calls that are not about to be limited are touched.
LEMMA Settled ==
  ASSUME SessionInv, NEW l \in Letters, NEW status \in Statuses, Settle(l, status)
  PROVE  LetterTypes'
BY DEF SessionInv, CallTypes, LetterTypes, Settle

\* What the current step of a call knows.
LEMMA AtStep ==
  ASSUME SessionInv, NEW r \in Requests
  PROVE  /\ req[r] \in Calls /\ Consistent(req[r])
         /\ req[r].pc \notin {"idle", "done"} =>
              /\ req[r].letter \in Letters
              /\ letter[req[r].letter].status \in Statuses
              /\ letter[req[r].letter].status \in Answers
         /\ sessions \in [Requests -> Records]
BY DEF SessionInv, CallTypes, LetterTypes, Consistent, Answers

\* A request arrives.
LEMMA BeginStep ==
  ASSUME SessionInv, NEW r \in Requests, NEW e \in Endpoints, NEW l \in Letters,
         NEW s \in Requests \cup {NoSession}, Begin(r, e, l, s)
  PROVE  SessionInv'
<1> DEFINE c == [req[r] EXCEPT !.endpoint = e, !.letter = l, !.session = s, !.pc = "limit"]
<1>1. req[r] \in Calls /\ req \in [Requests -> Calls]
  BY DEF SessionInv, CallTypes
<1>2. /\ c \in Calls /\ c.pc = "limit" /\ c.endpoint = e /\ c.session = s /\ c.letter = l
      /\ c.tries = req[r].tries /\ c.at = req[r].at
  BY <1>1 DEF Calls, Pcs
<1>3. Consistent(c)
  BY <1>2 DEF Consistent, Begin, SessionInv
<1>4. /\ req' = [req EXCEPT ![r] = c] /\ req[r].pc = "idle"
      /\ clock' = clock /\ sessions' = sessions /\ letter' = letter
  BY <1>1 DEF Begin
<1>5. sessions' \in [Requests -> Records] /\ LetterTypes'
  BY <1>4 DEF SessionInv, CallTypes, LetterTypes
<1> HIDE DEF c
<1>6. QED BY <1>2, <1>3, <1>4, <1>5, CallMoves

\* The limiter admits, refuses, counts twice or fails.
LEMMA LimiterStep ==
  ASSUME SessionInv, NEW r \in Requests, Limited(r) \/ LimitResent(r) \/ LimiterFails(r)
  PROVE  SessionInv'
<1>1. /\ req[r].pc = "limit" /\ clock' = clock /\ sessions' = sessions
      /\ sessions' \in [Requests -> Records] /\ LetterTypes'
  BY DEF Limited, LimitResent, LimiterFails, SessionInv, CallTypes, LetterTypes
<1>2. /\ req[r] \in Calls /\ Consistent(req[r]) /\ req[r].endpoint \in Endpoints
      /\ req[r].letter \in Letters
  BY <1>1, AtStep DEF Consistent
<1>3. CASE Goto(r, FirstStep(r))
  <2>1. /\ FirstStep(r) \in {"claim", "validate", "status"}
        /\ FirstStep(r) = "status" => req[r].endpoint # "consume_secret"
    BY <1>2, CallFields DEF FirstStep
  <2>2. QED BY <1>1, <1>2, <1>3, <2>1, CallGoes
<1>4. CASE Reply(r, "rate_limited")
  BY <1>1, <1>4, CallReplies DEF Answers
<1>5. CASE LimitResent(r)
  <2> DEFINE c == [req[r] EXCEPT !.tries = req[r].tries + 1]
  <2>1. /\ c \in Calls /\ c.pc = req[r].pc /\ c.endpoint = req[r].endpoint
        /\ c.session = req[r].session /\ c.letter = req[r].letter
        /\ c.tries = req[r].tries + 1 /\ c.at = req[r].at
    BY <1>2 DEF Calls
  <2>2. Consistent(c)
    <3>1. req[r].tries < MaxRetries /\ req[r].tries \in Nat /\ MaxRetries \in Nat
      BY <1>2, <1>5, CallFields, ApiAssumption DEF LimitResent
    <3>2. QED BY <1>2, <2>1, <3>1 DEF Consistent
  <2>3. req' = [req EXCEPT ![r] = c]
    BY <1>5 DEF LimitResent
  <2> HIDE DEF c
  <2>4. QED BY <1>1, <2>1, <2>2, <2>3, CallMoves
<1>6. QED BY <1>3, <1>4, <1>5 DEF Limited, LimiterFails

\* The status of the letter is read, for a status check or for a session.
LEMMA ReadStatusStep ==
  ASSUME SessionInv, NEW r \in Requests, ReadStatus(r)
  PROVE  SessionInv'
<1> DEFINE status == letter[req[r].letter].status
<1>1. /\ req[r].pc = "status" /\ clock' = clock /\ sessions' = sessions
      /\ sessions' \in [Requests -> Records] /\ LetterTypes'
      /\ ReadThenGoto(r, "judge") \/ Reply(r, Told(r, status))
  BY AtStep DEF ReadStatus, SessionInv, CallTypes, LetterTypes
<1>2. /\ req[r].endpoint \in Endpoints \ {"consume_secret"} /\ req[r].letter \in Letters
      /\ status \in Answers
  BY <1>1, AtStep DEF Consistent
<1>3. Told(r, status) \in Answers
  BY <1>2 DEF Answers, Told
<1> HIDE DEF status
<1>4. CASE ReadThenGoto(r, "judge")
  BY <1>1, <1>2, <1>4, CallGoes
<1>5. CASE Reply(r, Told(r, status))
  BY <1>1, <1>3, <1>5, CallReplies
<1>6. QED BY <1>1, <1>4, <1>5

\* The expiry of an active letter is judged, and written if it has passed.
LEMMA JudgeActiveStep ==
  ASSUME SessionInv, NEW r \in Requests, JudgeActive(r)
  PROVE  SessionInv'
<1>1. /\ req[r].pc = "judge" /\ clock' = clock /\ sessions' = sessions
      /\ sessions' \in [Requests -> Records]
  BY AtStep DEF JudgeActive
<1>2. req[r].endpoint \in Endpoints \ {"consume_secret"} /\ req[r].letter \in Letters
  BY <1>1, AtStep DEF Consistent
<1>3. LetterTypes'
  <2>1. CASE Settle(req[r].letter, "expired")
    BY <1>2, <2>1, Settled DEF Statuses
  <2>2. CASE UNCHANGED letter
    BY <2>2 DEF SessionInv, CallTypes, LetterTypes
  <2>3. QED BY <2>1, <2>2 DEF JudgeActive
<1>4. {"active", "expired"} \subseteq Answers
  BY DEF Answers, Statuses
<1>5. CASE req[r].endpoint # "status_check" /\ ReadThenGoto(r, "store")
  <2>1. req[r].endpoint = "reveal_session"
    BY <1>2, <1>5, ApiAssumption
  <2>2. QED BY <1>1, <1>2, <1>3, <1>5, <2>1, CallGoes
<1>6. CASE \E answer \in Answers : Reply(r, answer)
  BY <1>1, <1>3, <1>6, CallReplies
<1>7. QED BY <1>4, <1>5, <1>6 DEF JudgeActive

\* The one step that makes a record: its request is over, for its letter.
LEMMA StoreRecordStep ==
  ASSUME SessionInv, NEW r \in Requests, StoreRecord(r)
  PROVE  SessionInv'
<1> DEFINE record == [letter |-> req[r].letter, expiresAt |-> req[r].at + SessionTTL,
                      until |-> clock + SessionTTL]
           c == Replied(r, "ok")
<1>1. /\ req[r].pc = "store" /\ clock' = clock /\ letter' = letter
      /\ sessions' = [sessions EXCEPT ![r] = record]
      /\ req' = [req EXCEPT ![r] = c]
  BY DEF StoreRecord, StoreSession, Reply, Replied
<1>2. req[r] \in Calls /\ req[r].endpoint = "reveal_session" /\ req[r].letter \in Letters
  BY <1>1, AtStep DEF Consistent
<1>3. record \in Records
  BY <1>2, CallFields, SessionAssumption DEF Records, SessionInv, CallTypes
<1>4. /\ c \in Calls /\ Consistent(c) /\ c.pc = "done" /\ c.endpoint = "reveal_session"
      /\ c.letter = req[r].letter /\ c.at = req[r].at /\ c.answer = "ok"
  BY <1>2, RepliedType DEF Answers
<1>5. /\ record.letter = c.letter /\ record.expiresAt = c.at + SessionTTL
      /\ record.letter \in Letters
  BY <1>2, <1>4
<1>6. record.expiresAt <= record.until
  <2>1. req[r].at \in Nat /\ clock \in Nat /\ req[r].at <= clock /\ SessionTTL \in Nat
    BY <1>2, CallFields, SessionAssumption DEF SessionInv, CallTypes, Consistent
  <2>2. QED BY <2>1
<1> HIDE DEF record, c
<1>7. /\ req'[r] = c /\ sessions'[r] = record
      /\ \A s \in Requests : s # r => req'[s] = req[s] /\ sessions'[s] = sessions[s]
  BY <1>1 DEF SessionInv, CallTypes
<1>8. CallTypes'
  BY <1>1, <1>3, <1>4 DEF SessionInv, CallTypes, LetterTypes
<1>9. \A s \in Requests : Consistent(req'[s])
  BY <1>4, <1>7 DEF SessionInv
<1>10. RecordsKnow'
  BY <1>4, <1>5, <1>6, <1>7 DEF SessionInv, RecordsKnow
<1>11. QED BY <1>1, <1>8, <1>9, <1>10 DEF SessionInv, Consistent

\* A session is presented; an expired one may be deleted.
LEMMA ValidateStep ==
  ASSUME SessionInv, NEW r \in Requests, Validate(r)
  PROVE  SessionInv'
<1> DEFINE verdict == SessionVerdict(req[r].session, req[r].letter, clock)
<1>1. /\ req[r].pc = "validate" /\ clock' = clock /\ letter' = letter
      /\ \/ verdict = "valid" /\ ReadThenGoto(r, "claim")
         \/ verdict # "valid" /\ Reply(r, SessionAnswer[verdict])
  BY DEF Validate
<1>2. req[r].letter \in Letters /\ LetterTypes'
  BY <1>1, AtStep DEF SessionInv, CallTypes, LetterTypes
<1>3. \/ sessions' = sessions
      \/ sessions' = [sessions EXCEPT ![req[r].session] = NoRecord]
  BY DEF Validate, ValidateSession
<1>4. NoRecord \in Records
  BY DEF NoRecord, Records
<1>5. /\ sessions' \in [Requests -> Records]
      /\ \A s \in Requests : sessions'[s] \in {sessions[s], NoRecord}
  BY <1>3, <1>4, AtStep
<1>6. verdict # "valid" => SessionAnswer[verdict] \in Answers
  BY DEF SessionVerdict, SessionAnswer, Answers, Statuses
<1> HIDE DEF verdict
<1>7. CASE verdict = "valid" /\ ReadThenGoto(r, "claim")
  BY <1>1, <1>2, <1>5, <1>7, CallGoes
<1>8. CASE verdict # "valid" /\ Reply(r, SessionAnswer[verdict])
  BY <1>1, <1>2, <1>5, <1>6, <1>8, CallReplies
<1>9. QED BY <1>1, <1>7, <1>8

\* The letter is claimed, burned or given back, or the call ends without.
LEMMA OpenStep ==
  ASSUME SessionInv, NEW r \in Requests, Claim(r) \/ Finalize(r) \/ Abort(r) \/ Abandon(r)
  PROVE  SessionInv'
<1> DEFINE l == req[r].letter
<1>1. /\ req[r].pc \notin {"idle", "done"} /\ clock' = clock /\ sessions' = sessions
      /\ sessions' \in [Requests -> Records]
  BY AtStep DEF Claim, Finalize, Abort, Abandon, Running
<1>2. l \in Letters /\ letter[l].status \in Statuses /\ letter[l].status \in Answers
  BY <1>1, AtStep
<1>3. LetterTypes'
  <2>1. CASE UNCHANGED letter
    BY <2>1 DEF SessionInv, CallTypes, LetterTypes
  <2>2. CASE \E status \in Statuses : Settle(l, status)
    BY <1>2, <2>2, Settled
  <2>3. CASE letter' = [letter EXCEPT ![l] = [status |-> "opening", holder |-> r, until |-> clock + ClaimTTL]]
    <3>1. clock + ClaimTTL \in Nat
      BY ApiAssumption DEF SessionInv, CallTypes
    <3>2. QED BY <2>3, <3>1 DEF SessionInv, CallTypes, LetterTypes, Statuses
  <2>4. CASE Claim(r)
    BY <2>1, <2>2, <2>3, <2>4 DEF Claim, Statuses
  <2>5. CASE Finalize(r)
    BY <2>1, <2>2, <2>5 DEF Finalize, Statuses
  <2>6. CASE Abort(r)
    BY <2>1, <2>2, <2>6 DEF Abort, Statuses
  <2>7. CASE Abandon(r)
    BY <2>1, <2>7 DEF Abandon
  <2>8. QED BY <2>4, <2>5, <2>6, <2>7
<1>4. Goto(r, "finalize") \/ \E answer \in Answers : Reply(r, answer)
  <2>1. {"ok", "error", "expired", "consumed"} \subseteq Answers
    BY DEF Answers, Statuses
  <2>2. CASE Claim(r)
    BY <1>2, <2>1, <2>2 DEF Claim
  <2>3. CASE Finalize(r)
    BY <1>2, <2>1, <2>3 DEF Finalize
  <2>4. CASE Abort(r) \/ Abandon(r)
    BY <2>1, <2>4 DEF Abort, Abandon
  <2>5. QED BY <2>2, <2>3, <2>4
<1>5. QED BY <1>1, <1>2, <1>3, <1>4, CallGoes, CallReplies

\* Time and forgetting leave the calls alone and only remove records.
LEMMA WorldStep ==
  ASSUME SessionInv, Tick \/ \E l \in Letters : Forget(l)
  PROVE  SessionInv'
<1>1. CASE Tick
  <2>1. /\ clock' = clock + 1 /\ letter' = letter /\ req' = req
        /\ sessions' = [s \in Requests |-> IF sessions[s].until <= clock + 1 THEN NoRecord ELSE sessions[s]]
    BY <1>1, ApiAssumption DEF Tick, SessionTick
  <2>2. NoRecord \in Records
    BY DEF NoRecord, Records
  <2>3. CallTypes'
    BY <2>1, <2>2 DEF SessionInv, CallTypes, LetterTypes
  <2>4. RecordsKnow'
    BY <2>1 DEF SessionInv, RecordsKnow
  <2>5. \A r \in Requests : req[r].at \in Nat /\ req[r].at <= clock /\ clock \in Nat
    BY CallFields DEF SessionInv, CallTypes, Consistent
  <2>6. \A r \in Requests : req[r].at <= clock + 1
    <3> SUFFICES ASSUME NEW r \in Requests PROVE req[r].at <= clock + 1
      OBVIOUS
    <3> DEFINE at == req[r].at
    <3>1. at \in Nat /\ clock \in Nat /\ at <= clock
      BY <2>5
    <3> HIDE DEF at
    <3>2. at <= clock + 1
      BY <3>1
    <3>3. QED BY <3>2 DEF at
  <2>7. QED BY <2>1, <2>3, <2>4, <2>6 DEF SessionInv, Consistent
<1>2. CASE \E l \in Letters : Forget(l)
  <2>1. /\ clock' = clock /\ sessions' = sessions /\ req' = req
        /\ LetterTypes'
    BY <1>2, Settled DEF Forget, Statuses
  <2>2. QED BY <2>1 DEF SessionInv, CallTypes, RecordsKnow, Consistent
<1>3. QED BY <1>1, <1>2

-----------------------------------------------------------------------------
(* The invariant, and what follows *)

\* Before the first request there is neither a call nor a record.
LEMMA InvInitially == Init => SessionInv
<1> SUFFICES ASSUME Init PROVE SessionInv
  OBVIOUS
<1>1. NoRecord \in Records
  BY DEF NoRecord, Records
<1>2. NoCall \in Calls /\ Consistent(NoCall)
  BY ApiAssumption DEF NoCall, Calls, Consistent, Pcs, Answers, Init
<1>3. CallTypes
  BY <1>1, <1>2, ApiAssumption DEF Init, SessionInit, CallTypes, LetterTypes, Statuses
<1>4. RecordsKnow
  BY ApiAssumption DEF Init, SessionInit, RecordsKnow
<1>5. QED BY <1>2, <1>3, <1>4 DEF Init, SessionInv

\* Every step of the requests, of Redis and of time.
LEMMA InvStep == SessionInv /\ [Next]_vars => SessionInv'
<1> SUFFICES ASSUME SessionInv, [Next]_vars PROVE SessionInv'
  OBVIOUS
<1>1. CASE \E r \in Requests : Step(r)
  BY <1>1, BeginStep, LimiterStep, ReadStatusStep, JudgeActiveStep, StoreRecordStep, ValidateStep, OpenStep DEF Step
<1>2. CASE Tick \/ \E l \in Letters : Forget(l)
  BY <1>2, WorldStep
<1>3. CASE UNCHANGED vars
  BY <1>3 DEF vars, SessionInv, CallTypes, LetterTypes, RecordsKnow, Consistent
<1>4. QED BY <1>1, <1>2, <1>3 DEF Next

\* Records are only ever what the requests that made them were about.
THEOREM SessionInvariant == Spec => []SessionInv
BY InvInitially, InvStep, PTL DEF Spec

\* A step of one request leaves the others as they are.
LEMMA OthersKept ==
  ASSUME SessionInv, NEW q \in Requests, Step(q), NEW r \in Requests, r # q
  PROVE  req'[r] = req[r]
<1>1. \E c : req' = [req EXCEPT ![q] = c]
  BY DEF Step, Begin, Limited, LimitResent, LimiterFails, ReadStatus, JudgeActive, StoreRecord, Validate, Claim,
         Finalize, Abort, Abandon, Goto, ReadThenGoto, Reply
<1>2. QED BY <1>1 DEF SessionInv, CallTypes

\* A reply ends its call, and a request that goes on is where it went.
LEMMA WhereItIs ==
  ASSUME SessionInv, NEW r \in Requests
  PROVE  /\ \A answer \in Answers : Reply(r, answer) => req'[r].pc = "done"
         /\ \A pc \in Pcs : Goto(r, pc) \/ ReadThenGoto(r, pc) => req'[r].pc = pc
<1>1. req \in [Requests -> Calls] /\ req[r] \in Calls
  BY DEF SessionInv, CallTypes
<1>2. ASSUME NEW answer \in Answers, Reply(r, answer) PROVE req'[r].pc = "done"
  <2>1. req' = [req EXCEPT ![r] = Replied(r, answer)]
    BY <1>2 DEF Reply, Replied
  <2>2. QED BY <1>1, <2>1, RepliedType
<1>3. ASSUME NEW pc \in Pcs, Goto(r, pc) \/ ReadThenGoto(r, pc) PROVE req'[r].pc = pc
  BY <1>1, <1>3 DEF Goto, ReadThenGoto, Calls
<1>4. QED BY <1>2, <1>3

\* With a session, the claim is reached only through its validation.
LEMMA ReachedByValidation ==
  ASSUME SessionInv, NEW r \in Requests, Step(r),
         req[r].session # NoSession, req[r].pc # "claim", req'[r].pc = "claim"
  PROVE  Validate(r) /\ SessionVerdict(req[r].session, req[r].letter, clock) = "valid"
<1>1. {"claim", "validate", "status", "judge", "store", "finalize", "limit", "done"} \subseteq Pcs
      /\ {"rate_limited", "ok", "error", "expired", "consumed", "not_found", "bad_request"} \subseteq Answers
  BY DEF Pcs, Answers, Statuses
<1>2. req \in [Requests -> Calls] /\ req[r] \in Calls /\ Consistent(req[r])
  BY DEF SessionInv, CallTypes
<1>3. ~(\E e \in Endpoints, l \in Letters, s \in Requests \cup {NoSession} : Begin(r, e, l, s))
  BY <1>2 DEF Begin, Calls
<1>4. ~(Limited(r) \/ LimiterFails(r))
  <2>1. req[r].endpoint = "consume_secret"
    BY <1>2 DEF Consistent
  <2>2. FirstStep(r) = "validate"
    BY <2>1 DEF FirstStep
  <2>3. QED BY <1>1, <2>2, WhereItIs DEF Limited, LimiterFails
<1>5. ~LimitResent(r)
  BY <1>2 DEF LimitResent, Calls
<1>6. ~ReadStatus(r) /\ ~JudgeActive(r)
  <2>1. SUFFICES ASSUME ReadStatus(r) \/ JudgeActive(r) PROVE FALSE
    OBVIOUS
  <2>2. req[r].endpoint # "consume_secret"
    BY <1>2, <2>1 DEF ReadStatus, JudgeActive, Consistent
  <2>3. QED BY <1>2, <2>2 DEF Consistent
<1>7. ~StoreRecord(r)
  BY <1>1, WhereItIs DEF StoreRecord
<1>8. ~(Claim(r) \/ Finalize(r) \/ Abort(r) \/ Abandon(r))
  <2>1. ~Claim(r)
    BY DEF Claim
  <2>2. ~Finalize(r)
    <3>1. SUFFICES ASSUME Finalize(r) PROVE FALSE
      OBVIOUS
    <3>2. \E answer \in Answers : Reply(r, answer)
      BY <1>1, <3>1, AtStep DEF Finalize
    <3>3. QED BY <3>2, WhereItIs
  <2>3. ~Abort(r) /\ ~Abandon(r)
    BY <1>1, WhereItIs DEF Abort, Abandon
  <2>4. QED BY <2>1, <2>2, <2>3
<1>9. Validate(r)
  BY <1>3, <1>4, <1>5, <1>6, <1>7, <1>8 DEF Step
<1>10. SessionVerdict(req[r].session, req[r].letter, clock) = "valid"
  <2> DEFINE verdict == SessionVerdict(req[r].session, req[r].letter, clock)
  <2>1. verdict # "valid" => SessionAnswer[verdict] \in Answers
    BY DEF SessionVerdict, SessionAnswer, Answers, Statuses
  <2>2. verdict # "valid" => Reply(r, SessionAnswer[verdict])
    BY <1>9 DEF Validate
  <2> HIDE DEF verdict
  <2>3. verdict = "valid"
    BY <2>1, <2>2, WhereItIs
  <2>4. QED BY <2>3 DEF verdict
<1>11. QED BY <1>9, <1>10

\* What the session of an open was validated for.
ValidFor(r) ==
  LET s == req[r].session
  IN  /\ s \in Requests /\ req[s].endpoint = "reveal_session" /\ req[s].pc = "done"
      /\ req[s].answer = "ok" /\ req[s].letter = req[r].letter
      /\ req[r].at < req[s].at + SessionTTL

\* An open with a session that is about to claim has had it validated.
Presented == \A r \in Requests : req[r].session # NoSession /\ req[r].pc = "claim" => ValidFor(r)

\* A finished request stays what it was.
LEMMA DoneStays ==
  ASSUME SessionInv, NEW q \in Requests, Step(q), NEW s \in Requests, req[s].pc = "done"
  PROVE  req'[s] = req[s]
<1>1. q # s
  BY DEF Step, Begin, Limited, LimitResent, LimiterFails, ReadStatus, JudgeActive, StoreRecord, Validate,
         Claim, Finalize, Abort, Abandon, Running
<1>2. QED BY <1>1, OthersKept

\* A step of an open that is about to claim ends that.
LEMMA LeavesClaim ==
  ASSUME SessionInv, NEW r \in Requests, Step(r), req'[r].pc = "claim"
  PROVE  req[r].pc # "claim"
<1> SUFFICES ASSUME req[r].pc = "claim" PROVE FALSE
  OBVIOUS
<1>1. Claim(r) \/ Abandon(r)
  BY DEF Step, Begin, Limited, LimitResent, LimiterFails, ReadStatus, JudgeActive, StoreRecord, Validate,
         Finalize, Abort
<1>2. letter[req[r].letter].status \in Answers /\ {"error", "expired", "consumed"} \subseteq Answers
  BY AtStep DEF Answers, Statuses
<1>3. Goto(r, "finalize") \/ \E answer \in Answers : Reply(r, answer)
  BY <1>1, <1>2 DEF Claim, Abandon
<1>4. "finalize" \in Pcs
  BY DEF Pcs
<1>5. QED BY <1>3, <1>4, WhereItIs

\* Past its beginning, a request presents no other session.
LEMMA SessionKept ==
  ASSUME SessionInv, NEW r \in Requests, Step(r), req'[r].pc = "claim", req'[r].session # NoSession
  PROVE  req[r].session # NoSession
<1>1. req \in [Requests -> Calls] /\ req[r] \in Calls
  BY DEF SessionInv, CallTypes
<1>2. \E pc : Goto(r, pc) \/ ReadThenGoto(r, pc)
  <2>1. \A answer \in Answers : ~Reply(r, answer)
    BY WhereItIs
  <2>2. ~\E e \in Endpoints, l \in Letters, s \in Requests \cup {NoSession} : Begin(r, e, l, s)
    BY <1>1 DEF Begin, Calls
  <2>3. ~LimitResent(r)
    BY <1>1 DEF LimitResent, Calls
  <2>4. Answers = {"none", "ok", "rate_limited", "bad_request", "error", "active", "opening",
                   "consumed", "expired", "not_found"}
    BY DEF Answers, Statuses
  <2>5. ~StoreRecord(r) /\ ~Abort(r) /\ ~Abandon(r)
    BY <2>1, <2>4 DEF StoreRecord, Abort, Abandon
  <2>6. CASE Limited(r) \/ LimiterFails(r)
    BY <2>1, <2>4, <2>6 DEF Limited, LimiterFails
  <2>7. CASE ReadStatus(r)
    <3>1. Told(r, letter[req[r].letter].status) \in Answers
      BY <2>4, <2>7, AtStep DEF Told, ReadStatus
    <3>2. QED BY <2>1, <2>7, <3>1 DEF ReadStatus
  <2>8. CASE JudgeActive(r)
    BY <2>1, <2>4, <2>8 DEF JudgeActive
  <2>9. CASE Validate(r)
    <3> DEFINE verdict == SessionVerdict(req[r].session, req[r].letter, clock)
    <3>1. verdict # "valid" => SessionAnswer[verdict] \in Answers
      BY <2>4 DEF SessionVerdict, SessionAnswer
    <3>2. ReadThenGoto(r, "claim") \/ (verdict # "valid" /\ Reply(r, SessionAnswer[verdict]))
      BY <2>9 DEF Validate
    <3> HIDE DEF verdict
    <3>3. QED BY <2>1, <3>1, <3>2
  <2>10. CASE Claim(r)
    <3>1. letter[req[r].letter].status \in Answers
      BY <2>10, AtStep DEF Claim
    <3>2. QED BY <2>1, <2>4, <2>10, <3>1 DEF Claim
  <2>11. CASE Finalize(r)
    <3>1. letter[req[r].letter].status \in Answers
      BY <2>11, AtStep DEF Finalize
    <3>2. QED BY <2>1, <2>4, <2>11, <3>1 DEF Finalize
  <2>12. QED BY <2>2, <2>3, <2>5, <2>6, <2>7, <2>8, <2>9, <2>10, <2>11 DEF Step
<1>3. req'[r].session = req[r].session
  BY <1>1, <1>2 DEF Goto, ReadThenGoto, Calls
<1>4. QED BY <1>3

\* A valid session is in a record, and the record is what its request was about.
LEMMA ValidatedFor ==
  ASSUME SessionInv, NEW r \in Requests, Step(r),
         req[r].session # NoSession, req[r].pc # "claim", req'[r].pc = "claim"
  PROVE  ValidFor(r)'
<1> DEFINE s == req[r].session
<1>1. /\ s \in Requests /\ req[s] \in Calls /\ sessions[s] \in Records /\ clock \in Nat
      /\ req \in [Requests -> Calls] /\ req[r] \in Calls
  BY CallFields DEF SessionInv, CallTypes
<1>2. Validate(r) /\ SessionVerdict(s, req[r].letter, clock) = "valid"
  BY ReachedByValidation
<1>3. /\ sessions[s] # NoRecord /\ sessions[s].letter = req[r].letter
      /\ ~(sessions[s].expiresAt <= clock)
  BY <1>2 DEF SessionVerdict
<1>4. /\ req[s].endpoint = "reveal_session" /\ req[s].pc = "done" /\ req[s].answer = "ok"
      /\ sessions[s].letter = req[s].letter
      /\ sessions[s].expiresAt = req[s].at + SessionTTL
  BY <1>1, <1>3 DEF SessionInv, RecordsKnow
<1>5. req[s].at + SessionTTL \in Nat /\ clock < req[s].at + SessionTTL
  BY <1>1, <1>3, <1>4 DEF Records
<1>6. ReadThenGoto(r, "claim")
  BY <1>2 DEF Validate
<1>7. /\ req'[r].session = s /\ req'[r].letter = req[r].letter /\ req'[r].at = clock
  BY <1>1, <1>6 DEF ReadThenGoto, Calls
<1>8. req'[s] = req[s]
  BY <1>1, <1>4, DoneStays
<1> HIDE DEF s
<1>9. QED BY <1>1, <1>3, <1>4, <1>5, <1>7, <1>8 DEF ValidFor

\* From its validation to its claim an open keeps what it has presented.
LEMMA PresentedStep ==
  ASSUME SessionInv, Presented, [Next]_vars
  PROVE  Presented'
<1>1. CASE req' = req
  BY <1>1 DEF Presented, ValidFor
<1>2. CASE \E q \in Requests : Step(q)
  <2>1. PICK q \in Requests : Step(q)
    BY <1>2
  <2> SUFFICES ASSUME NEW r \in Requests, req'[r].session # NoSession, req'[r].pc = "claim"
               PROVE  ValidFor(r)'
    BY DEF Presented
  <2>2. CASE r # q
    <3>1. req'[r] = req[r] /\ ValidFor(r)
      BY <2>1, <2>2, OthersKept DEF Presented
    <3>2. req'[req[r].session] = req[req[r].session]
      BY <2>1, <3>1, DoneStays DEF ValidFor
    <3>3. QED BY <3>1, <3>2 DEF ValidFor
  <2>3. CASE r = q
    <3>1. req[r].pc # "claim"
      BY <2>1, <2>3, LeavesClaim
    <3>2. req[r].session # NoSession
      BY <2>1, <2>3, <3>1, SessionKept
    <3>3. QED BY <2>1, <2>3, <3>1, <3>2, ValidatedFor
  <2>4. QED BY <2>2, <2>3
<1>3. QED BY <1>1, <1>2 DEF Next, vars, Tick, Forget

\* SessionOpensItsLetter for one step: only an open that is about to claim
\* becomes a letter's holder, and of the letter it is about.
LEMMA OpensStep ==
  ASSUME SessionInv, Presented, [Next]_vars, NEW r \in Requests, NEW l \in Letters,
         letter'[l].holder = r, letter[l].holder # r, req[r].session # NoSession
  PROVE  LET s == req[r].session
         IN  /\ req[s].endpoint = "reveal_session" /\ req[s].answer = "ok"
             /\ req[s].letter = l
             /\ req[r].at < req[s].at + SessionTTL
<1>1. letter \in [Letters -> [status : Statuses, holder : Requests \cup {NoSession}, until : Nat]]
  BY DEF SessionInv, CallTypes, LetterTypes
<1>2. letter' # letter /\ r # NoSession
  BY ApiAssumption
<1>3. ASSUME NEW k, NEW status, Settle(k, status) PROVE FALSE
  BY <1>1, <1>2, <1>3 DEF Settle
<1>4. PICK q \in Requests : Claim(q)
  BY <1>2, <1>3 DEF Next, vars, Step, Begin, Limited, LimitResent, LimiterFails, ReadStatus, JudgeActive,
                    StoreRecord, Validate, Finalize, Abort, Abandon, Tick, Forget
<1>5. letter' = [letter EXCEPT ![req[q].letter] =
                   [status |-> "opening", holder |-> q, until |-> clock + ClaimTTL]]
  BY <1>2, <1>3, <1>4 DEF Claim
<1>6. q = r /\ req[q].letter = l /\ req[q].pc = "claim"
  BY <1>1, <1>4, <1>5 DEF Claim
<1>7. ValidFor(r)
  BY <1>6 DEF Presented
<1>8. QED BY <1>6, <1>7 DEF ValidFor

\* A session opens its own letter alone, if it was presented within its lifetime
\* and after it was answered.
THEOREM SessionOnlyForItsLetter == Spec => SessionOpensItsLetter
<1> DEFINE Opens ==
      \A r \in Requests, l \in Letters :
        letter'[l].holder = r /\ letter[l].holder # r /\ req[r].session # NoSession
        => LET s == req[r].session
           IN  /\ req[s].endpoint = "reveal_session" /\ req[s].answer = "ok"
               /\ req[s].letter = l
               /\ req[r].at < req[s].at + SessionTTL
<1>1. Init => Presented
  BY DEF Init, Presented, NoCall
<1>2. SessionInv /\ Presented /\ [Next]_vars => Presented'
  BY PresentedStep
<1>3. SessionInv /\ Presented /\ [Next]_vars => [Opens]_vars
  BY OpensStep
<1>4. QED BY <1>1, <1>2, <1>3, SessionInvariant, PTL DEF Spec, SessionOpensItsLetter

-----------------------------------------------------------------------------
(* The limiter: a counter c and the executions H it is remembered by *)

Hits == [at : Nat, nth : 1..Limit, ends : Nat, request : Requests, try : Nat]

\* An execution is recent and within its window, which the first one began.
InWindow(h, now) ==
  /\ h.at <= now /\ now < h.at + Window
  /\ h.at < h.ends /\ h.ends <= h.at + Window
  /\ h.nth = 1 => h.ends = h.at + Window

\* Windows are apart, and what is left of one is numbered: the executions of the
\* open window up to its counter, without a gap.
WindowInv(c, H, now) ==
  /\ c \in [count : Nat, until : Nat] /\ H \subseteq Hits
  /\ c = NoCounter \/ (c.count > 0 /\ now < c.until /\ c.until <= now + Window)
  /\ \A h \in H : InWindow(h, now)
  /\ \A h \in H : h.ends <= now \/ (h.ends = c.until /\ h.nth <= c.count)
  /\ \A h, g \in H : h.ends = g.ends /\ h.nth = g.nth => h = g
  /\ \A h, g \in H : h.ends < g.ends => h.ends + Window <= g.ends
  /\ c # NoCounter => \A h \in H : h.ends # c.until => h.ends + Window <= c.until
  /\ \A n \in 1..Limit : n <= c.count => \E h \in H : h.ends = c.until /\ h.nth = n

LimiterInv == \A e \in Endpoints : WindowInv(counter[e], hits[e], clock)
LimiterTypes == /\ counter \in [Endpoints -> [count : Nat, until : Nat]]
                /\ hits \in [Endpoints -> SUBSET Hits]

\* The limiter's script keeps the books: it opens a window, or takes the next
\* number of the open one.
LEMMA CountedKeeps ==
  ASSUME NEW c, NEW H, NEW r \in Requests, NEW try \in Nat, clock \in Nat, WindowInv(c, H, clock)
  PROVE  WindowInv(Counted(c),
                   IF Allowed(c) THEN H \cup {Hit(Counted(c), r, try)} ELSE H, clock)
<1> DEFINE d == Counted(c)
           hit == Hit(Counted(c), r, try)
           G == IF Allowed(c) THEN H \cup {hit} ELSE H
<1>1. Window \in Nat \ {0} /\ Limit \in Nat \ {0}
  BY LimiterAssumption
<1>2. c \in [count : Nat, until : Nat] /\ H \subseteq Hits
  BY DEF WindowInv
<1>3. /\ d \in [count : Nat, until : Nat] /\ d.count = c.count + 1 /\ d # NoCounter
      /\ d.until = IF c = NoCounter THEN clock + Window ELSE c.until
      /\ clock < d.until /\ d.until <= clock + Window
  BY <1>1, <1>2 DEF WindowInv, Counted, NoCounter
<1>4. hit = [at |-> clock, nth |-> d.count, ends |-> d.until, request |-> r, try |-> try]
  BY DEF Hit
<1>5. Allowed(c) <=> d.count \in 1..Limit
  BY <1>1, <1>2, <1>3 DEF Allowed
<1> HIDE DEF d, hit
<1>6. /\ hit.at = clock /\ hit.nth = d.count /\ hit.ends = d.until
      /\ Allowed(c) => hit \in Hits /\ InWindow(hit, clock)
  <2>1. c = NoCounter => d.until = clock + Window
    BY <1>3
  <2>2. d.count = 1 => c = NoCounter
    BY <1>2, <1>3 DEF WindowInv
  <2>3. QED BY <1>1, <1>3, <1>4, <1>5, <2>1, <2>2 DEF Hits, InWindow
<1>7. G \subseteq Hits /\ \A h \in G : h \in H \/ (h = hit /\ Allowed(c))
  BY <1>2, <1>6
<1>8. \A h \in G : InWindow(h, clock)
  BY <1>6, <1>7 DEF WindowInv
<1>9. \A h \in H : /\ h.ends \in Nat /\ h.nth \in Nat
                   /\ h.ends # d.until => h.ends <= clock
                   /\ h.ends = d.until => c # NoCounter /\ h.nth <= c.count
  BY <1>2, <1>3, <1>1 DEF WindowInv, Hits, NoCounter
<1>10. \A h \in G : h.ends <= clock \/ (h.ends = d.until /\ h.nth <= d.count)
  BY <1>2, <1>3, <1>6, <1>7, <1>9
<1>11. \A h, g \in G : h.ends = g.ends /\ h.nth = g.nth => h = g
  <2>1. \A h \in H : ~(h.ends = hit.ends /\ h.nth = hit.nth)
    BY <1>2, <1>3, <1>6, <1>9
  <2>2. QED BY <1>7, <2>1 DEF WindowInv
<1>12. \A h \in H : h.ends # d.until => h.ends + Window <= d.until
  <2>1. CASE c = NoCounter
    BY <1>1, <1>3, <1>9, <2>1
  <2>2. CASE c # NoCounter
    BY <1>3, <2>2 DEF WindowInv
  <2>3. QED BY <2>1, <2>2
<1>13. \A h, g \in G : h.ends < g.ends => h.ends + Window <= g.ends
  <2>1. \A h \in H : ~(hit.ends < h.ends)
    BY <1>3, <1>6, <1>9
  <2>2. hit.ends \in Nat
    BY <1>3, <1>6
  <2>3. QED BY <1>6, <1>7, <1>9, <1>12, <2>1, <2>2 DEF WindowInv
<1>14. \A h \in G : h.ends # d.until => h.ends + Window <= d.until
  BY <1>6, <1>7, <1>12
<1>15. \A n \in 1..Limit : n <= d.count => \E h \in G : h.ends = d.until /\ h.nth = n
  <2> SUFFICES ASSUME NEW n \in 1..Limit, n <= d.count
               PROVE  \E h \in G : h.ends = d.until /\ h.nth = n
    OBVIOUS
  <2>1. CASE n = d.count
    BY <1>5, <1>6, <2>1
  <2>2. CASE n # d.count
    <3>1. n <= c.count /\ c # NoCounter
      BY <1>2, <1>3, <2>2 DEF NoCounter
    <3>2. PICK h \in H : h.ends = c.until /\ h.nth = n
      BY <3>1 DEF WindowInv
    <3>3. QED BY <1>3, <3>1, <3>2
  <2>3. QED BY <2>1, <2>2
<1>16. WindowInv(d, G, clock)
  BY <1>3, <1>7, <1>8, <1>10, <1>11, <1>13, <1>14, <1>15 DEF WindowInv
<1>17. QED BY <1>16 DEF d, hit

\* Time closes windows and forgets what is older than one.
LEMMA TickKeeps ==
  ASSUME NEW c, NEW H, NEW now \in Nat, WindowInv(c, H, now)
  PROVE  WindowInv(IF c.until <= now + 1 THEN NoCounter ELSE c,
                   {h \in H : h.at + Window > now + 1}, now + 1)
<1> DEFINE d == IF c.until <= now + 1 THEN NoCounter ELSE c
           G == {h \in H : h.at + Window > now + 1}
<1>1. Window \in Nat \ {0}
  BY LimiterAssumption
<1>2. /\ c \in [count : Nat, until : Nat]
      /\ d \in [count : Nat, until : Nat] /\ G \subseteq H /\ G \subseteq Hits
      /\ d # NoCounter => d = c /\ now + 1 < c.until
  BY DEF WindowInv, NoCounter
<1>3. \A h \in G : h.at \in Nat /\ h.ends \in Nat /\ h.nth \in Nat /\ h.at + Window > now + 1
  BY <1>2 DEF Hits
<1>4. d = NoCounter \/ (d.count > 0 /\ now + 1 < d.until /\ d.until <= now + 1 + Window)
  BY <1>1, <1>2 DEF WindowInv, NoCounter
<1>5. \A h \in G : InWindow(h, now + 1)
  BY <1>1, <1>2, <1>3 DEF WindowInv, InWindow
<1>6. \A h \in G : h.ends <= now + 1 \/ (h.ends = d.until /\ h.nth <= d.count)
  BY <1>2, <1>3 DEF WindowInv
<1>7. \A n \in 1..Limit : n <= d.count => \E h \in G : h.ends = d.until /\ h.nth = n
  <2> SUFFICES ASSUME NEW n \in 1..Limit, n <= d.count
               PROVE  \E h \in G : h.ends = d.until /\ h.nth = n
    OBVIOUS
  <2>1. d = c /\ now + 1 < c.until
    BY <1>2 DEF NoCounter
  <2>2. PICK h \in H : h.ends = c.until /\ h.nth = n
    BY <2>1 DEF WindowInv
  <2>3. h.at \in Nat /\ h.ends <= h.at + Window
    BY DEF WindowInv, InWindow, Hits
  <2>4. QED BY <1>1, <1>2, <2>1, <2>2, <2>3
<1> HIDE DEF d
<1>8. QED BY <1>2, <1>4, <1>5, <1>6, <1>7 DEF WindowInv, d

\* What is remembered comes from two windows at most.
LEMMA TwoWindows ==
  ASSUME NEW c, NEW H, NEW now \in Nat, WindowInv(c, H, now),
         NEW h \in H, NEW g \in H, NEW k \in H, h.ends < g.ends, g.ends < k.ends
  PROVE  FALSE
<1>1. Window \in Nat \ {0}
  BY LimiterAssumption
<1>2. /\ h.at \in Nat /\ h.ends \in Nat /\ g.ends \in Nat /\ k.at \in Nat /\ k.ends \in Nat
      /\ h.ends + Window <= g.ends /\ g.ends + Window <= k.ends
      /\ h.at < h.ends /\ now < h.at + Window
      /\ k.ends <= k.at + Window /\ k.at <= now
  BY DEF WindowInv, InWindow, Hits
<1>3. QED BY <1>1, <1>2

\* The executions within the length of a window: the later window is full at
\* most, and the earlier one has lost its first.
LEMMA RememberedBound ==
  ASSUME NEW c, NEW H, NEW now \in Nat, WindowInv(c, H, now)
  PROVE  IsFiniteSet(H) /\ Cardinality(H) <= 2 * Limit - 1
<1>1. Window \in Nat \ {0} /\ Limit \in Nat \ {0}
  BY LimiterAssumption
<1>2. \A h \in H : h.at \in Nat /\ h.ends \in Nat /\ h.nth \in 1..Limit
  BY DEF WindowInv, Hits
<1>3. \E f : f \in Injection(H, 1..(2 * Limit - 1))
  <2>1. CASE \A h, g \in H : h.ends = g.ends
    <3> DEFINE f == [h \in H |-> h.nth]
    <3>1. \A n \in 1..Limit : n \in 1..(2 * Limit - 1)
      BY <1>1
    <3>2. f \in [H -> 1..(2 * Limit - 1)]
      BY <1>2, <3>1
    <3>3. \A h, g \in H : f[h] = f[g] => h = g
      BY <2>1 DEF WindowInv
    <3> HIDE DEF f
    <3>4. QED BY <3>2, <3>3, Fun_IsInj
  <2>2. CASE \E h, g \in H : h.ends # g.ends
    <3>1. PICK h \in H, g \in H : h.ends < g.ends
      BY <1>2, <2>2
    <3>2. \A k \in H : k.ends = g.ends \/ k.ends = h.ends
      <4> SUFFICES ASSUME NEW k \in H, k.ends # g.ends, k.ends # h.ends PROVE FALSE
        OBVIOUS
      <4>1. \/ k.ends < h.ends
            \/ h.ends < k.ends /\ k.ends < g.ends
            \/ g.ends < k.ends
        BY <1>2
      <4>2. QED BY <3>1, <4>1, TwoWindows
    <3>3. \A k \in H : k.ends # g.ends => k.nth # 1
      <4> SUFFICES ASSUME NEW k \in H, k.ends = h.ends, k.nth = 1 PROVE FALSE
        BY <3>2
      <4>1. /\ k.ends + Window <= g.ends /\ g.ends <= g.at + Window /\ g.at <= now
            /\ k.ends = k.at + Window /\ now < k.at + Window
        BY <3>1 DEF WindowInv, InWindow
      <4>2. QED BY <1>1, <1>2, <4>1
    <3> DEFINE f == [k \in H |-> IF k.ends = g.ends THEN k.nth ELSE Limit + k.nth - 1]
    <3>4. f \in [H -> 1..(2 * Limit - 1)]
      <4> SUFFICES ASSUME NEW k \in H
                   PROVE  (IF k.ends = g.ends THEN k.nth ELSE Limit + k.nth - 1) \in 1..(2 * Limit - 1)
        OBVIOUS
      <4>1. k.nth \in 1..Limit /\ (k.ends # g.ends => k.nth # 1)
        BY <1>2, <3>3
      <4>2. QED BY <1>1, <4>1
    <3>5. ASSUME NEW k \in H, NEW m \in H, f[k] = f[m] PROVE k = m
      <4>1. /\ k.nth \in 1..Limit /\ (k.ends # g.ends => k.nth # 1)
            /\ m.nth \in 1..Limit /\ (m.ends # g.ends => m.nth # 1)
        BY <1>2, <3>3
      <4>2. (k.ends = g.ends <=> m.ends = g.ends) /\ k.nth = m.nth
        BY <1>1, <3>5, <4>1
      <4>3. k.ends = m.ends
        BY <3>2, <4>2
      <4>4. QED BY <4>2, <4>3 DEF WindowInv
    <3> HIDE DEF f
    <3>6. QED BY <3>4, <3>5, Fun_IsInj
  <2>3. QED BY <2>1, <2>2
<1>4. IsFiniteSet(1..(2 * Limit - 1)) /\ Cardinality(1..(2 * Limit - 1)) = 2 * Limit - 1
  BY <1>1, FS_Interval
<1>5. QED BY <1>3, <1>4, FS_Injection

\* A counter at its limit remembers as many executions.
LEMMA RefusedMeansFull ==
  ASSUME NEW c, NEW H, NEW now \in Nat, WindowInv(c, H, now), ~Allowed(c)
  PROVE  IsFiniteSet(H) /\ Cardinality(H) >= Limit
<1> DEFINE f == [n \in 1..Limit |-> CHOOSE h \in H : h.ends = c.until /\ h.nth = n]
<1>1. Limit \in Nat \ {0} /\ c.count \in Nat /\ Limit <= c.count
  BY LimiterAssumption DEF Allowed, WindowInv
<1>2. \A n \in 1..Limit : f[n] \in H /\ f[n].nth = n
  BY <1>1 DEF WindowInv
<1> HIDE DEF f
<1>3. f \in [1..Limit -> H] /\ \A n, m \in 1..Limit : f[n] = f[m] => n = m
  BY <1>2 DEF f
<1>4. f \in Injection(1..Limit, H)
  BY <1>3, Fun_IsInj
<1>5. IsFiniteSet(H)
  BY RememberedBound
<1>6. Cardinality(1..Limit) = Limit
  BY <1>1, FS_Interval
<1>7. Cardinality(1..Limit) <= Cardinality(H)
  BY <1>4, <1>5, FS_Injection
<1>8. QED BY <1>1, <1>5, <1>6, <1>7, FS_CardinalityType

\* Executions are told apart by their request and its resends.
Apart(H) ==
  /\ \A h \in H : h.request \in Requests /\ h.try \in 0..MaxRetries
  /\ \A h, g \in H : h.request = g.request /\ h.try = g.try => h = g

\* So there are at most as many as each request may be sent.
LEMMA SentAtMost ==
  ASSUME NEW H, IsFiniteSet(H), Apart(H), Limit <= Cardinality(H)
  PROVE  Cardinality({h.request : h \in H}) * (MaxRetries + 1) >= Limit
<1> DEFINE A == {h.request : h \in H}
           T == 0..MaxRetries
           f == [h \in H |-> <<h.request, h.try>>]
           g == [h \in H |-> h.request]
<1>1. MaxRetries \in Nat /\ Limit \in Nat
  BY ApiAssumption, LimiterAssumption
<1>2. IsFiniteSet(A)
  <2>1. g \in Surjection(H, A)
    BY Fun_IsSurj
  <2>2. QED BY <2>1, FS_Surjection
<1>3. f \in Injection(H, A \X T)
  <2>1. f \in [H -> A \X T]
    BY DEF Apart
  <2>2. \A h, k \in H : f[h] = f[k] => h = k
    BY DEF Apart
  <2> HIDE DEF f, A, T
  <2>3. QED BY <2>1, <2>2, Fun_IsInj
<1>4. IsFiniteSet(T) /\ Cardinality(T) = MaxRetries + 1
  BY <1>1, FS_Interval
<1> HIDE DEF A, T, f
<1>5. /\ IsFiniteSet(A \X T)
      /\ Cardinality(A \X T) = Cardinality(A) * (MaxRetries + 1)
  BY <1>2, <1>4, FS_Product
<1>6. Cardinality(H) <= Cardinality(A \X T)
  BY <1>3, <1>5, FS_Injection
<1>7. Cardinality(H) \in Nat /\ Cardinality(A \X T) \in Nat
  BY <1>5, FS_CardinalityType
<1>8. Limit <= Cardinality(A \X T)
  BY <1>1, <1>6, <1>7
<1>9. QED BY <1>5, <1>8 DEF A

-----------------------------------------------------------------------------
(* The limiter among the requests *)

\* An execution was a sending of a request that has begun, and of one that still
\* waits for the limiter an earlier sending.
HitsSent ==
  \A e \in Endpoints :
    /\ Apart(hits[e])
    /\ \A h \in hits[e] : /\ req[h.request].pc # "idle"
                          /\ req[h.request].pc = "limit" => h.try < req[h.request].tries

GateInv == SessionInv /\ LimiterTypes /\ LimiterInv /\ HitsSent

\* One execution of the script, for a request's next sending.
LEMMA ScriptKeeps ==
  ASSUME GateInv, NEW e \in Endpoints, NEW r \in Requests, NEW try \in Nat,
         AllowScript(e, r, try), clock' = clock
  PROVE  LimiterTypes' /\ LimiterInv'
<1> DEFINE d == Counted(counter[e])
           G == IF Allowed(counter[e]) THEN hits[e] \cup {Hit(d, r, try)} ELSE hits[e]
<1>1. WindowInv(d, G, clock)
  BY CountedKeeps DEF GateInv, LimiterInv, SessionInv, CallTypes
<1>2. d \in [count : Nat, until : Nat] /\ G \in SUBSET Hits
  BY <1>1 DEF WindowInv
<1>3. counter' = [counter EXCEPT ![e] = d] /\ hits' = [hits EXCEPT ![e] = G]
  <2>1. CASE Allowed(counter[e])
    BY <2>1 DEF AllowScript
  <2>2. CASE ~Allowed(counter[e])
    <3>1. hits = [hits EXCEPT ![e] = hits[e]]
      BY DEF GateInv, LimiterTypes
    <3>2. QED BY <2>2, <3>1 DEF AllowScript
  <2>3. QED BY <2>1, <2>2
<1> HIDE DEF d, G
<1>4. LimiterTypes'
  BY <1>2, <1>3 DEF GateInv, LimiterTypes
<1>5. \A o \in Endpoints : /\ counter'[o] = IF o = e THEN d ELSE counter[o]
                           /\ hits'[o] = IF o = e THEN G ELSE hits[o]
  BY <1>3 DEF GateInv, LimiterTypes
<1>6. LimiterInv'
  BY <1>1, <1>5 DEF GateInv, LimiterInv
<1>7. QED BY <1>4, <1>6

\* What a request that has begun does next: it does not begin again, and waits
\* for the limiter only after another sending.
LEMMA BegunMoves ==
  ASSUME SessionInv, NEW r \in Requests, Step(r)
  PROVE  /\ req'[r].pc # "idle"
         /\ req[r].pc # "idle" /\ req'[r].pc = "limit" => LimitResent(r)
<1>1. Pcs \ {"idle", "limit"} = {"status", "judge", "store", "validate", "claim", "finalize", "done"}
  BY DEF Pcs
<1>2. req \in [Requests -> Calls] /\ req[r] \in Calls
  BY DEF SessionInv, CallTypes
<1>3. ASSUME \/ \E answer \in Answers : Reply(r, answer)
             \/ \E pc \in Pcs \ {"idle", "limit"} : Goto(r, pc) \/ ReadThenGoto(r, pc)
      PROVE  req'[r].pc \notin {"idle", "limit"}
  BY <1>1, <1>3, WhereItIs
<1>4. Answers = {"none", "ok", "rate_limited", "bad_request", "error", "active", "opening",
                 "consumed", "expired", "not_found"}
  BY DEF Answers, Statuses
<1>5. CASE \E e \in Endpoints, l \in Letters, s \in Requests \cup {NoSession} : Begin(r, e, l, s)
  BY <1>2, <1>5 DEF Begin, Calls
<1>6. CASE LimitResent(r)
  BY <1>2, <1>6 DEF LimitResent, Calls
<1>7. CASE Limited(r) \/ LimiterFails(r)
  BY <1>1, <1>3, <1>4, <1>7 DEF Limited, LimiterFails, FirstStep
<1>8. CASE ReadStatus(r)
  <2>1. Told(r, letter[req[r].letter].status) \in Answers
    BY <1>4, <1>8, AtStep DEF Told, ReadStatus
  <2>2. QED BY <1>1, <1>3, <1>8, <2>1 DEF ReadStatus
<1>9. CASE JudgeActive(r) \/ StoreRecord(r)
  BY <1>1, <1>3, <1>4, <1>9 DEF JudgeActive, StoreRecord
<1>10. CASE Validate(r)
  <2> DEFINE verdict == SessionVerdict(req[r].session, req[r].letter, clock)
  <2>1. verdict # "valid" => SessionAnswer[verdict] \in Answers
    BY <1>4 DEF SessionVerdict, SessionAnswer
  <2>2. ReadThenGoto(r, "claim") \/ (verdict # "valid" /\ Reply(r, SessionAnswer[verdict]))
    BY <1>10 DEF Validate
  <2> HIDE DEF verdict
  <2>3. QED BY <1>1, <1>3, <2>1, <2>2
<1>11. CASE Claim(r) \/ Finalize(r)
  <2>1. letter[req[r].letter].status \in Answers
    BY <1>11, AtStep DEF Claim, Finalize
  <2>2. QED BY <1>1, <1>3, <1>4, <1>11, <2>1 DEF Claim, Finalize
<1>12. CASE Abort(r) \/ Abandon(r)
  BY <1>3, <1>4, <1>12 DEF Abort, Abandon
<1>13. QED BY <1>3, <1>5, <1>6, <1>7, <1>8, <1>9, <1>10, <1>11, <1>12 DEF Step

\* The executions stay apart when a request is sent.
LEMMA SendingKeeps ==
  ASSUME GateInv, NEW r \in Requests, Limited(r) \/ LimitResent(r)
  PROVE  HitsSent'
<1> DEFINE e == req[r].endpoint
           try == req[r].tries
           hit == Hit(Counted(counter[e]), r, try)
<1>1. /\ req[r].pc = "limit" /\ e \in Endpoints /\ try \in 0..MaxRetries
      /\ AllowScript(e, r, try)
  <2>1. req[r].pc = "limit" /\ AllowScript(e, r, try) /\ req[r] \in Calls /\ Consistent(req[r])
    BY DEF Limited, LimitResent, GateInv, SessionInv, CallTypes
  <2>2. QED BY <2>1, CallFields, ApiAssumption DEF Consistent
<1>2. hit.request = r /\ hit.try = try
  BY DEF Hit
<1> HIDE DEF hit, e
<1>3. \A o \in Endpoints : \A h \in hits'[o] : h \in hits[o] \/ (o = e /\ h = hit)
  BY <1>1 DEF AllowScript, hit, GateInv, LimiterTypes
<1>4. \A o \in Endpoints : \A h \in hits[o] : h.request = r => h.try < try
  BY <1>1 DEF GateInv, HitsSent
<1>5. ASSUME NEW o \in Endpoints PROVE Apart(hits'[o])
  <2>1. Apart(hits[o])
    BY DEF GateInv, HitsSent
  <2>2. \A h \in hits[o] : ~(h.request = r /\ h.try = try)
    BY <1>1, <1>4, <2>1 DEF Apart
  <2>3. QED BY <1>1, <1>2, <1>3, <2>1, <2>2 DEF Apart
<1>6. Step(r) /\ SessionInv
  BY DEF Step, GateInv
<1>7. \A q \in Requests : q # r => req'[q] = req[q]
  BY <1>6, OthersKept
<1>8. req'[r].pc # "idle" /\ (req'[r].pc = "limit" => req'[r].tries = try + 1)
  <2>1. req'[r].pc # "idle" /\ (req'[r].pc = "limit" => LimitResent(r))
    BY <1>1, <1>6, BegunMoves
  <2>2. LimitResent(r) => req'[r].tries = try + 1
    BY <1>6 DEF LimitResent, SessionInv, CallTypes, Calls
  <2>3. QED BY <2>1, <2>2
<1>9. ASSUME NEW o \in Endpoints, NEW h \in hits'[o]
      PROVE  /\ req'[h.request].pc # "idle"
             /\ req'[h.request].pc = "limit" => h.try < req'[h.request].tries
  <2>1. h.request \in Requests /\ h.try \in 0..MaxRetries
    BY <1>5, <1>9 DEF Apart
  <2>2. CASE h.request # r
    <3>1. h \in hits[o] /\ req'[h.request] = req[h.request]
      BY <1>2, <1>3, <1>7, <1>9, <2>1, <2>2
    <3>2. QED BY <3>1 DEF GateInv, HitsSent
  <2>3. CASE h.request = r
    <3>1. h.try <= try
      BY <1>1, <1>2, <1>3, <1>4, <1>9, <2>1, <2>3
    <3>2. QED BY <1>1, <1>8, <2>1, <2>3, <3>1
  <2>4. QED BY <2>2, <2>3
<1>10. QED BY <1>5, <1>9 DEF HitsSent

\* Other steps of a request execute no script.
LEMMA QuietKeeps ==
  ASSUME GateInv, NEW r \in Requests, Step(r), ~LimitResent(r), hits' = hits
  PROVE  HitsSent'
<1>1. SessionInv /\ HitsSent
  BY DEF GateInv
<1>2. /\ \A q \in Requests : q # r => req'[q] = req[q]
      /\ req'[r].pc # "idle" /\ (req[r].pc # "idle" => req'[r].pc # "limit")
  BY <1>1, OthersKept, BegunMoves
<1>3. ASSUME NEW o \in Endpoints, NEW h \in hits[o]
      PROVE  /\ req'[h.request].pc # "idle"
             /\ req'[h.request].pc = "limit" => h.try < req'[h.request].tries
  BY <1>1, <1>2, <1>3 DEF HitsSent, Apart
<1>4. QED BY <1>1, <1>3 DEF HitsSent

\* Time.
LEMMA LimiterTickKeeps ==
  ASSUME GateInv, LimiterTick, clock' = clock + 1, req' = req
  PROVE  LimiterTypes' /\ LimiterInv' /\ HitsSent'
<1>1. \A e \in Endpoints : WindowInv(counter'[e], hits'[e], clock + 1)
  BY TickKeeps DEF GateInv, LimiterInv, LimiterTick, SessionInv, CallTypes
<1>2. \A e \in Endpoints : counter'[e] \in [count : Nat, until : Nat] /\ hits'[e] \in SUBSET Hits
  BY <1>1 DEF WindowInv
<1>3. LimiterTypes'
  BY <1>2 DEF LimiterTick, LimiterTypes
<1>4. \A e \in Endpoints : hits'[e] \subseteq hits[e]
  BY DEF LimiterTick
<1>5. HitsSent'
  BY <1>4 DEF GateInv, HitsSent, Apart
<1>6. QED BY <1>1, <1>3, <1>5 DEF LimiterInv

\* Before the first request nothing is counted.
LEMMA GateInitially == Init => GateInv
<1> SUFFICES ASSUME Init PROVE GateInv
  OBVIOUS
<1>1. clock = 0 /\ counter = [e \in Endpoints |-> NoCounter] /\ hits = [e \in Endpoints |-> {}]
  BY DEF Init, LimiterInit
<1>2. NoCounter \in [count : Nat, until : Nat] /\ NoCounter.count = 0
  BY DEF NoCounter
<1>3. WindowInv(NoCounter, {}, 0)
  BY <1>2 DEF WindowInv
<1>4. LimiterTypes /\ LimiterInv /\ HitsSent
  BY <1>1, <1>2, <1>3 DEF LimiterTypes, LimiterInv, HitsSent, Apart
<1>5. QED BY <1>4, InvInitially DEF GateInv

\* Only the middleware and time touch the limiter.
LEMMA GateStep == GateInv /\ [Next]_vars => GateInv'
<1> SUFFICES ASSUME GateInv, [Next]_vars PROVE GateInv'
  OBVIOUS
<1>1. SessionInv'
  BY InvStep DEF GateInv
<1>2. CASE \E r \in Requests : Limited(r) \/ LimitResent(r)
  <2>1. PICK r \in Requests : Limited(r) \/ LimitResent(r)
    BY <1>2
  <2>2. req[r].pc = "limit" /\ clock' = clock
    BY <2>1 DEF Limited, LimitResent
  <2>3. req[r].endpoint \in Endpoints /\ req[r].tries \in Nat
    BY <2>2, CallFields DEF GateInv, SessionInv, CallTypes, Consistent
  <2>4. AllowScript(req[r].endpoint, r, req[r].tries)
    BY <2>1 DEF Limited, LimitResent
  <2>5. HitsSent'
    BY <2>1, SendingKeeps
  <2>6. QED BY <1>1, <2>2, <2>3, <2>4, <2>5, ScriptKeeps DEF GateInv
<1>3. CASE UNCHANGED <<clock, counter, hits>> /\ \E r \in Requests : Step(r) /\ ~LimitResent(r)
  <2>1. HitsSent'
    BY <1>3, QuietKeeps
  <2>2. QED BY <1>1, <1>3, <2>1 DEF GateInv, LimiterTypes, LimiterInv
<1>4. CASE UNCHANGED <<clock, counter, hits, req>>
  BY <1>1, <1>4 DEF GateInv, LimiterTypes, LimiterInv, HitsSent
<1>5. CASE Tick
  BY <1>1, <1>5, LimiterTickKeeps DEF Tick, GateInv
<1>6. \/ \E r \in Requests : Limited(r) \/ LimitResent(r)
      \/ UNCHANGED <<clock, counter, hits>> /\ \E r \in Requests : Step(r) /\ ~LimitResent(r)
      \/ UNCHANGED <<clock, counter, hits, req>>
      \/ Tick
  <2>1. ASSUME NEW r \in Requests, Step(r), ~Limited(r), ~LimitResent(r)
        PROVE  UNCHANGED <<clock, counter, hits>>
    BY <2>1 DEF Step, Begin, LimiterFails, ReadStatus, JudgeActive, StoreRecord, Validate, Claim,
                Finalize, Abort, Abandon
  <2>2. QED BY <2>1 DEF Next, vars, Forget
<1>7. QED BY <1>2, <1>3, <1>4, <1>5, <1>6

\* The limiter's windows are apart and numbered, and records are what their
\* requests were about.
THEOREM GateInvariant == Spec => []GateInv
BY GateInitially, GateStep, PTL DEF Spec

\* What the invariant says of types.
LEMMA GateTypes == GateInv => TypeOK
<1> SUFFICES ASSUME GateInv PROVE TypeOK
  OBVIOUS
<1>1. clock \in Nat /\ Window \in Nat \ {0}
  BY LimiterAssumption DEF GateInv, SessionInv, CallTypes
<1>2. ASSUME NEW e \in Endpoints
      PROVE  /\ counter[e] \in [count : Nat, until : {0} \cup (clock + 1)..(clock + Window)]
             /\ hits[e] \subseteq [at : 0..clock, nth : 1..Limit, ends : Nat,
                                   request : Requests, try : Nat]
  <2>1. WindowInv(counter[e], hits[e], clock)
    BY DEF GateInv, LimiterInv
  <2>2. counter[e].until \in {0} \cup (clock + 1)..(clock + Window)
    BY <1>1, <2>1 DEF WindowInv, NoCounter
  <2>3. counter[e] \in [count : Nat, until : {0} \cup (clock + 1)..(clock + Window)]
    BY <2>1, <2>2 DEF WindowInv
  <2>4. \A h \in hits[e] : h \in Hits /\ h.at \in 0..clock
    BY <1>1, <2>1 DEF WindowInv, InWindow, Hits
  <2>5. QED BY <2>3, <2>4 DEF Hits
<1>3. LimiterTypeOK
  BY <1>1, <1>2 DEF LimiterTypeOK
<1>4. \A s \in Requests : sessions[s] # NoRecord =>
        sessions[s].letter \in Letters /\ sessions[s].expiresAt <= sessions[s].until
  BY DEF GateInv, SessionInv, RecordsKnow
<1>5. \A r \in Requests : req[r].answer \in Answers /\ req[r].tries <= MaxRetries
  BY CallFields DEF GateInv, SessionInv, CallTypes, Consistent
<1>6. QED BY <1>3, <1>4, <1>5 DEF TypeOK, GateInv, SessionInv, CallTypes, LetterTypes

\* The requests, the letters, the sessions and the limiter keep their types.
THEOREM TypeCorrect == Spec => []TypeOK
BY GateInvariant, GateTypes, PTL

\* What the invariant says of the script's yes.
LEMMA GateBounds == GateInv => YesPerWindow
<1> SUFFICES ASSUME GateInv, NEW e \in Endpoints
             PROVE  Cardinality(hits[e]) <= 2 * Limit - 1
  BY DEF YesPerWindow
<1>1. QED BY RememberedBound DEF GateInv, LimiterInv, SessionInv, CallTypes

\* In no stretch of the length of a window does the script say yes more often
\* than twice the limit less one, whatever the limit, the window and the resends.
THEOREM YesBounded == Spec => []YesPerWindow
BY GateInvariant, GateBounds, PTL

\* What a step makes of a call's answer.
LEMMA AnswerIs ==
  ASSUME SessionInv, NEW r \in Requests
  PROVE  /\ \A answer \in Answers : Reply(r, answer) => req'[r].answer = answer
         /\ \A pc \in Pcs : Goto(r, pc) \/ ReadThenGoto(r, pc) => req'[r].answer = req[r].answer
<1>1. req \in [Requests -> Calls] /\ req[r] \in Calls
  BY DEF SessionInv, CallTypes
<1>2. ASSUME NEW answer \in Answers, Reply(r, answer) PROVE req'[r].answer = answer
  BY <1>1, <1>2 DEF Reply, Calls, NoCall
<1>3. ASSUME NEW pc \in Pcs, Goto(r, pc) \/ ReadThenGoto(r, pc)
      PROVE  req'[r].answer = req[r].answer
  BY <1>1, <1>3 DEF Goto, ReadThenGoto, Calls
<1>4. QED BY <1>2, <1>3

\* Nothing but the limiter answers that there were too many requests.
LEMMA RefusedByLimiter ==
  ASSUME SessionInv, NEW r \in Requests, Step(r),
         req'[r].answer = "rate_limited", req[r].answer = "none"
  PROVE  req[r].endpoint \in Endpoints /\ ~Allowed(counter[req[r].endpoint])
<1> DEFINE Others == Answers \ {"rate_limited"}
<1>1. {"ok", "error", "expired", "consumed", "not_found", "bad_request"} \cup Statuses \subseteq Others
  BY DEF Answers, Statuses
<1>2. Pcs = {"idle", "limit", "status", "judge", "store", "validate", "claim", "finalize", "done"}
  BY DEF Pcs
<1>3. req \in [Requests -> Calls] /\ req[r] \in Calls
  BY DEF SessionInv, CallTypes
<1> HIDE DEF Others
<1>4. ~\E answer \in Others : Reply(r, answer)
  BY AnswerIs DEF Others
<1>5. ~\E pc \in Pcs : Goto(r, pc) \/ ReadThenGoto(r, pc)
  BY AnswerIs
<1>6. ASSUME NEW e \in Endpoints, NEW l \in Letters, NEW s \in Requests \cup {NoSession},
             Begin(r, e, l, s)
      PROVE  FALSE
  <2>1. req'[r] = [req[r] EXCEPT !.endpoint = e, !.letter = l, !.session = s, !.pc = "limit"]
    BY <1>3, <1>6 DEF Begin
  <2>2. req'[r].answer = req[r].answer
    BY <1>3, <2>1 DEF Calls
  <2>3. QED BY <2>2
<1>7. ~LimitResent(r) /\ ~LimiterFails(r)
  <2>1. ~LimitResent(r)
    BY <1>3 DEF LimitResent, Calls
  <2>2. FirstStep(r) \in Pcs
    BY <1>2 DEF FirstStep
  <2>3. QED BY <1>5, <2>1, <2>2 DEF LimiterFails
<1>8. ~ReadStatus(r) /\ ~JudgeActive(r)
  <2>1. ReadStatus(r) => letter[req[r].letter].status \in Statuses
    BY AtStep DEF ReadStatus
  <2>2. ReadStatus(r) => Told(r, letter[req[r].letter].status) \in Others
    BY <1>1, <2>1 DEF Told
  <2>3. ~ReadStatus(r)
    BY <1>2, <1>4, <1>5, <2>2 DEF ReadStatus
  <2>4. "active" \in Others
    BY <1>1 DEF Statuses
  <2>5. ~JudgeActive(r)
    BY <1>1, <1>2, <1>4, <1>5, <2>4 DEF JudgeActive
  <2>6. QED BY <2>3, <2>5
<1>9. ~StoreRecord(r) /\ ~Abort(r) /\ ~Abandon(r)
  BY <1>1, <1>4 DEF StoreRecord, Abort, Abandon
<1>10. ~Validate(r)
  <2> SUFFICES ASSUME Validate(r) PROVE FALSE
    OBVIOUS
  <2> DEFINE verdict == SessionVerdict(req[r].session, req[r].letter, clock)
  <2>1. ReadThenGoto(r, "claim") \/ (verdict # "valid" /\ Reply(r, SessionAnswer[verdict]))
    BY DEF Validate
  <2>2. verdict # "valid" => SessionAnswer[verdict] \in Others
    BY <1>1 DEF SessionVerdict, SessionAnswer
  <2> HIDE DEF verdict
  <2>3. QED BY <1>2, <1>4, <1>5, <2>1, <2>2
<1>11. ~Claim(r)
  <2> SUFFICES ASSUME Claim(r) PROVE FALSE
    OBVIOUS
  <2>1. letter[req[r].letter].status \in Statuses
    BY AtStep DEF Claim
  <2>2. Goto(r, "finalize") \/ \E answer \in Others : Reply(r, answer)
    BY <1>1, <2>1 DEF Claim
  <2>3. QED BY <1>2, <1>4, <1>5, <2>2
<1>12. ~Finalize(r)
  <2> SUFFICES ASSUME Finalize(r) PROVE FALSE
    OBVIOUS
  <2>1. letter[req[r].letter].status \in Statuses
    BY AtStep DEF Finalize
  <2>2. \E answer \in Others : Reply(r, answer)
    BY <1>1, <2>1 DEF Finalize
  <2>3. QED BY <1>4, <2>2
<1>13. Limited(r)
  BY <1>6, <1>7, <1>8, <1>9, <1>10, <1>11, <1>12 DEF Step
<1>14. FirstStep(r) \in Pcs
  BY <1>2 DEF FirstStep
<1>15. ~Allowed(counter[req[r].endpoint])
  BY <1>5, <1>13, <1>14 DEF Limited
<1>16. req[r].endpoint \in Endpoints
  BY <1>13 DEF Limited, SessionInv, Consistent
<1>17. QED BY <1>15, <1>16

\* RefusedForCause for one step.
LEMMA RefusedStep ==
  ASSUME GateInv, [Next]_vars, NEW r \in Requests,
         req'[r].answer = "rate_limited", req[r].answer = "none"
  PROVE  Cardinality(Asked(req[r].endpoint)) * (MaxRetries + 1) >= Limit
<1> DEFINE e == req[r].endpoint
<1>1. req' # req
  OBVIOUS
<1>2. PICK q \in Requests : Step(q)
  BY <1>1 DEF Next, vars, Tick, Forget
<1>3. q = r
  BY <1>2, OthersKept DEF GateInv
<1>4. e \in Endpoints /\ ~Allowed(counter[e])
  BY <1>2, <1>3, RefusedByLimiter DEF GateInv
<1>5. IsFiniteSet(hits[e]) /\ Cardinality(hits[e]) >= Limit /\ Apart(hits[e])
  BY <1>4, RefusedMeansFull DEF GateInv, LimiterInv, HitsSent, SessionInv, CallTypes
<1> HIDE DEF e
<1>6. Cardinality({h.request : h \in hits[e]}) * (MaxRetries + 1) >= Limit
  <2>1. Cardinality(hits[e]) \in Nat /\ Limit \in Nat
    BY <1>5, FS_CardinalityType, LimiterAssumption
  <2>2. Limit <= Cardinality(hits[e])
    BY <1>5, <2>1
  <2>3. QED BY <1>5, <2>2, SentAtMost
<1>7. QED BY <1>6 DEF Asked, e

\* A request is refused only when the requests of the last window's length, each
\* counted as often as it may be sent, fill the limit, whatever was asked since.
THEOREM RefusedOnlyForCause == Spec => RefusedForCause
<1> DEFINE Refused ==
      \A r \in Requests : req'[r].answer = "rate_limited" /\ req[r].answer = "none"
        => Cardinality(Asked(req[r].endpoint)) * (MaxRetries + 1) >= Limit
<1>1. GateInv /\ [Next]_vars => [Refused]_vars
  BY RefusedStep
<1>2. QED BY <1>1, GateInvariant, PTL DEF Spec, RefusedForCause

-----------------------------------------------------------------------------
(* At most one request is answered with a letter *)

\* History: the requests that were answered with the content of each letter.
VARIABLE readers

Answered(r, l) ==
  /\ req[r].pc = "finalize" /\ req[r].letter = l
  /\ req'[r].pc = "done" /\ req'[r].answer = "ok"

Recorded == readers' = [l \in Letters |-> readers[l] \cup {r \in Requests : Answered(r, l)}]

\* The endpoints, and beside them who was answered.
RecordedSpec ==
  /\ Init /\ readers = [l \in Letters |-> {}]
  /\ [][Next /\ Recorded]_<<vars, readers>>

Sealed(l) == letter[l].status \in {"active", "opening"}

\* The letters behind the endpoints as the letters of OneTimeSecret; a request
\* that is answered is a reader.
Promise == INSTANCE OneTimeSecret
           WITH Tokens <- Letters,
                stage <- [l \in Letters |-> IF Sealed(l) THEN "sealed" ELSE "gone"]

PromiseInv == SessionInv /\ Promise!TypeOK /\ Promise!UnreadWhileSealed /\ Promise!AtMostOneReader

\* What a step makes of one letter.
Opened(l) == Sealed(l) /\ ~Sealed(l)'
Untouched(l) == Sealed(l)' = Sealed(l)

\* A letter is opened or destroyed by one step of one request, or untouched; a
\* blind write meets a letter that is gone, or destroys it.
LEMMA LetterStep ==
  ASSUME SessionInv, NEW r \in Requests, Claim(r) \/ Finalize(r) \/ Abort(r) \/ JudgeActive(r)
  PROVE  \E l \in Letters : /\ \A k \in Letters : k # l => Untouched(k)
                            /\ Opened(l) \/ Untouched(l)
<1> DEFINE l == req[r].letter
<1>1. l \in Letters
  BY AtStep DEF Claim, Finalize, Abort, JudgeActive
<1>2. letter \in [Letters -> [status : Statuses, holder : Requests \cup {NoSession}, until : Nat]]
  BY DEF SessionInv, CallTypes, LetterTypes
<1>3. \A k \in Letters : k # l => letter'[k] = letter[k]
  BY <1>2 DEF Claim, Finalize, Abort, JudgeActive, Settle
<1>4. ~Sealed(l) => letter' = letter \/ Settle(l, "expired")
  BY DEF Claim, Free, Finalize, Abort, JudgeActive, Sealed
<1>5. \A k \in Letters : k # l => Untouched(k)
  BY <1>3 DEF Untouched, Sealed
<1>6. PICK k \in Letters : k = l
  BY <1>1
<1>7. Sealed(k)' => Sealed(k)
  BY <1>2, <1>4, <1>6 DEF Sealed, Settle
<1>8. Opened(k) \/ Untouched(k)
  BY <1>7 DEF Opened, Untouched, Sealed
<1>9. QED BY <1>5, <1>6, <1>8

\* Only the finalize of the holder of a sealed letter answers with its content,
\* and it leaves the letter burned.
LEMMA AnsweredByHolder ==
  ASSUME SessionInv, NEW q \in Requests, Step(q), NEW r \in Requests, NEW l \in Letters, Answered(r, l)
  PROVE  /\ q = r /\ Finalize(r) /\ Opened(l)
         /\ \A k \in Letters : k # l => Untouched(k)
<1>1. req[r].pc = "finalize" /\ req[r].letter = l /\ req'[r].pc = "done" /\ req'[r].answer = "ok"
  BY DEF Answered
<1>2. q = r
  BY <1>1, OthersKept
<1>3. Finalize(r) \/ Abort(r) \/ Abandon(r)
  BY <1>1, <1>2 DEF Step, Begin, Limited, LimitResent, LimiterFails, ReadStatus, JudgeActive, StoreRecord, Validate,
                    Claim
<1>4. \A answer \in Answers : Reply(r, answer) => answer = "ok"
  BY <1>1, AnswerIs
<1>5. Finalize(r)
  BY <1>3, <1>4 DEF Abort, Abandon, Answers
<1>6. letter[l].status \in Statuses /\ letter[l].status # "ok"
      /\ {"ok", "error", "expired"} \cup Statuses \subseteq Answers
  BY DEF SessionInv, CallTypes, LetterTypes, Statuses, Answers
<1>7. letter[l].status = "opening" /\ Settle(l, "consumed")
  <2>1. ~Reply(r, "error") /\ ~Reply(r, "expired") /\ ~Reply(r, letter[l].status)
    BY <1>4, <1>6
  <2>2. QED BY <1>1, <1>5, <2>1 DEF Finalize
<1>8. letter'[l].status = "consumed" /\ \A k \in Letters : k # l => letter'[k] = letter[k]
  BY <1>7 DEF Settle, SessionInv, CallTypes, LetterTypes
<1>9. QED BY <1>2, <1>5, <1>7, <1>8 DEF Opened, Untouched, Sealed

\* Every step of the system is a step of one letter, or touches none.
LEMMA OneLetterMoves ==
  ASSUME SessionInv, Next, Recorded, readers \in [Letters -> SUBSET Requests]
  PROVE  \/ /\ \A l \in Letters : Untouched(l)
            /\ readers' = readers
         \/ \E l \in Letters :
              /\ Opened(l) /\ \A k \in Letters : k # l => Untouched(k)
              /\ \/ readers' = readers
                 \/ \E r \in Requests : readers' = [readers EXCEPT ![l] = @ \cup {r}]
<1>1. ASSUME NEW q \in Requests, Step(q), NEW r \in Requests, NEW l \in Letters, Answered(r, l)
      PROVE  /\ Opened(l) /\ \A k \in Letters : k # l => Untouched(k)
             /\ readers' = [readers EXCEPT ![l] = @ \cup {r}]
  <2>1. Opened(l) /\ \A k \in Letters : k # l => Untouched(k)
    BY <1>1, AnsweredByHolder
  <2>2. \A s \in Requests, k \in Letters : Answered(s, k) <=> s = r /\ k = l
    <3> SUFFICES ASSUME NEW s \in Requests, NEW k \in Letters, Answered(s, k)
                 PROVE  s = r /\ k = l
      BY <1>1
    <3>1. s = r
      BY <1>1, AnsweredByHolder
    <3>2. QED BY <1>1, <3>1 DEF Answered
  <2>3. \A k \in Letters : readers'[k] = IF k = l THEN readers[k] \cup {r} ELSE readers[k]
    BY <2>2 DEF Recorded
  <2>4. readers' = [k \in Letters |-> readers'[k]]
    BY DEF Recorded
  <2>5. QED BY <2>1, <2>3, <2>4
<1>2. (\A r \in Requests, l \in Letters : ~Answered(r, l)) => readers' = readers
  <2> SUFFICES ASSUME \A r \in Requests, l \in Letters : ~Answered(r, l) PROVE readers' = readers
    OBVIOUS
  <2>1. \A l \in Letters : {r \in Requests : Answered(r, l)} = {}
    OBVIOUS
  <2>2. QED BY <2>1 DEF Recorded
<1>3. CASE \E q \in Requests : Step(q)
  <2>1. PICK q \in Requests : Step(q)
    BY <1>3
  <2>2. CASE \E r \in Requests, l \in Letters : Answered(r, l)
    BY <1>1, <2>1, <2>2
  <2>3. CASE \A r \in Requests, l \in Letters : ~Answered(r, l)
    <3>1. CASE letter' = letter
      BY <1>2, <2>3, <3>1 DEF Untouched, Sealed
    <3>2. CASE Claim(q) \/ Finalize(q) \/ Abort(q) \/ JudgeActive(q)
      BY <1>2, <2>3, <3>2, LetterStep
    <3>3. QED BY <2>1, <3>1, <3>2
              DEF Step, Begin, Limited, LimitResent, LimiterFails, ReadStatus, StoreRecord, Validate, Abandon
  <2>4. QED BY <2>2, <2>3
<1>4. CASE Tick \/ \E l \in Letters : Forget(l)
  <2>1. req' = req
    BY <1>4 DEF Tick, Forget
  <2>2. readers' = readers
    BY <1>2, <2>1 DEF Answered
  <2>3. \A l \in Letters : Untouched(l)
    BY <1>4 DEF Tick, Forget, Settle, Untouched, Sealed, SessionInv, CallTypes, LetterTypes
  <2>4. QED BY <2>2, <2>3
<1>5. QED BY <1>3, <1>4 DEF Next

\* NoReopening for one step.
LEMMA GoneStep ==
  ASSUME SessionInv, [Next]_vars, NEW l \in Letters, ~Sealed(l)
  PROVE  /\ ~Sealed(l)'
         /\ \A r \in Requests : ~Answered(r, l)
<1>1. CASE letter' = letter /\ req' = req
  BY <1>1 DEF Sealed, Answered
<1>2. CASE \E q \in Requests : Step(q)
  <2>1. PICK q \in Requests : Step(q)
    BY <1>2
  <2>2. \A r \in Requests : ~Answered(r, l)
    BY <2>1, AnsweredByHolder DEF Opened
  <2>3. CASE letter' = letter
    BY <2>2, <2>3 DEF Sealed
  <2>4. CASE Claim(q) \/ Finalize(q) \/ Abort(q) \/ JudgeActive(q)
    BY <2>2, <2>4, LetterStep DEF Opened, Untouched
  <2>5. QED BY <2>1, <2>2, <2>3, <2>4
            DEF Step, Begin, Limited, LimitResent, LimiterFails, ReadStatus, StoreRecord, Validate, Abandon
<1>3. CASE \E k \in Letters : Forget(k)
  BY <1>3 DEF Forget, Settle, Sealed, Answered, SessionInv, CallTypes, LetterTypes
<1>4. QED BY <1>1, <1>2, <1>3 DEF Next, Tick, vars

\* A letter that is gone stays gone and is answered to no open, whatever sessions
\* and blind writes were on their way.
THEOREM GoneStaysGone == Spec => NoReopening
<1> DEFINE Stays ==
      \A l \in Letters : letter[l].status \notin {"active", "opening"} =>
        /\ letter'[l].status \notin {"active", "opening"}
        /\ \A r \in Requests :
             req[r].pc = "finalize" /\ req[r].letter = l /\ req'[r].pc = "done"
             => req'[r].answer # "ok"
<1>1. SessionInv /\ [Next]_vars => [Stays]_vars
  BY GoneStep DEF Sealed, Answered
<1>2. QED BY <1>1, SessionInvariant, PTL DEF Spec, NoReopening

\* So every step is a step of the abstract letters, or none of them.
LEMMA ApiPromiseStep ==
  ASSUME SessionInv, Promise!TypeOK, [Next /\ Recorded]_<<vars, readers>>
  PROVE  [Promise!Next]_(Promise!vars)
<1> DEFINE stage == [l \in Letters |-> IF Sealed(l) THEN "sealed" ELSE "gone"]
<1>1. CASE UNCHANGED <<vars, readers>>
  BY <1>1 DEF vars, Promise!vars, Sealed
<1>2. CASE Next /\ Recorded
  <2>1. readers \in [Letters -> SUBSET Requests]
    BY DEF Promise!TypeOK
  <2>2. CASE (\A l \in Letters : Untouched(l)) /\ readers' = readers
    <3>1. stage' = stage
      BY <2>2 DEF Untouched
    <3>2. QED BY <2>2, <3>1 DEF Promise!vars
  <2>3. ASSUME NEW l \in Letters, Opened(l), \A k \in Letters : k # l => Untouched(k),
               readers' = readers \/ \E r \in Requests : readers' = [readers EXCEPT ![l] = @ \cup {r}]
        PROVE  Promise!Next
    <3>1. stage[l] = "sealed" /\ stage' = [stage EXCEPT ![l] = "gone"]
      BY <2>3 DEF Opened, Untouched
    <3>2. Promise!Destroy(l) \/ \E r \in Requests : Promise!Read(l, r)
      BY <2>3, <3>1 DEF Promise!Destroy, Promise!Read
    <3>3. QED BY <3>2 DEF Promise!Next
  <2>4. QED BY <1>2, <2>1, <2>2, <2>3, OneLetterMoves
<1>3. QED BY <1>1, <1>2

\* The abstract letters keep their own guarantees.
LEMMA PromiseKept ==
  ASSUME Promise!TypeOK, Promise!UnreadWhileSealed, Promise!AtMostOneReader,
         [Promise!Next]_(Promise!vars)
  PROVE  Promise!TypeOK' /\ Promise!UnreadWhileSealed' /\ Promise!AtMostOneReader'
<1> DEFINE stage == [l \in Letters |-> IF Sealed(l) THEN "sealed" ELSE "gone"]
<1>1. CASE UNCHANGED Promise!vars
  BY <1>1 DEF Promise!vars, Promise!TypeOK, Promise!UnreadWhileSealed, Promise!AtMostOneReader
<1>2. ASSUME NEW l \in Letters, Promise!Seal(l) PROVE FALSE
  BY <1>2 DEF Promise!Seal
<1>3. ASSUME NEW l \in Letters, Promise!Destroy(l) \/ \E r \in Requests : Promise!Read(l, r)
      PROVE  Promise!TypeOK' /\ Promise!UnreadWhileSealed' /\ Promise!AtMostOneReader'
  <2>1. stage[l] = "sealed" /\ stage' = [stage EXCEPT ![l] = "gone"] /\ readers[l] = {}
    BY <1>3 DEF Promise!Destroy, Promise!Read, Promise!UnreadWhileSealed
  <2>2. readers' = readers \/ \E r \in Requests : readers' = [readers EXCEPT ![l] = {r}]
    BY <1>3, <2>1 DEF Promise!Destroy, Promise!Read
  <2>3. /\ stage'[l] = "gone"
        /\ \A k \in Letters : k # l => stage'[k] = stage[k] /\ readers'[k] = readers[k]
    BY <2>1, <2>2 DEF Promise!TypeOK
  <2>4. readers' \in [Letters -> SUBSET Requests] /\ \A r1, r2 \in readers'[l] : r1 = r2
    <3>1. readers \in [Letters -> SUBSET Requests]
      BY DEF Promise!TypeOK
    <3>2. CASE readers' = readers
      BY <2>1, <3>1, <3>2
    <3>3. CASE \E r \in Requests : readers' = [readers EXCEPT ![l] = {r}]
      BY <3>1, <3>3
    <3>4. QED BY <2>2, <3>2, <3>3
  <2>5. Promise!TypeOK'
    BY <2>1, <2>4 DEF Promise!TypeOK
  <2>6. Promise!UnreadWhileSealed'
    BY <2>3 DEF Promise!UnreadWhileSealed
  <2>7. Promise!AtMostOneReader'
    BY <2>3, <2>4 DEF Promise!AtMostOneReader
  <2>8. QED BY <2>5, <2>6, <2>7
<1>4. QED BY <1>1, <1>2, <1>3 DEF Promise!Next

\* The types and the guarantees hold as long as the endpoints run.
LEMMA RecordedInv == RecordedSpec => []PromiseInv
<1>1. Init /\ readers = [l \in Letters |-> {}] => PromiseInv
  <2> SUFFICES ASSUME Init, readers = [l \in Letters |-> {}] PROVE PromiseInv
    OBVIOUS
  <2>1. QED BY InvInitially
            DEF PromiseInv, Promise!TypeOK, Promise!UnreadWhileSealed, Promise!AtMostOneReader
<1>2. PromiseInv /\ [Next /\ Recorded]_<<vars, readers>> => PromiseInv'
  <2> SUFFICES ASSUME PromiseInv, [Next /\ Recorded]_<<vars, readers>> PROVE PromiseInv'
    OBVIOUS
  <2>1. SessionInv'
    BY InvStep DEF PromiseInv, vars
  <2>2. QED BY <2>1, ApiPromiseStep, PromiseKept DEF PromiseInv
<1>3. QED BY <1>1, <1>2, PTL DEF RecordedSpec

\* The endpoints keep the promise of the letter store: whatever sessions, resent
\* scripts, lapsed claims, takeovers and abandoned calls there are, each letter
\* makes only the steps of the one-time letter, read by whom the API answered.
THEOREM ApiKeepsPromise == RecordedSpec => [][Promise!Next]_(Promise!vars)
<1>1. PromiseInv /\ [Next /\ Recorded]_<<vars, readers>> => [Promise!Next]_(Promise!vars)
  BY ApiPromiseStep DEF PromiseInv
<1>2. QED BY <1>1, RecordedInv, PTL DEF RecordedSpec

\* Of all requests ever answered, at most one was answered with a letter's
\* content.
THEOREM OneAnswered ==
  RecordedSpec => [](\A l \in Letters : \A r1, r2 \in readers[l] : r1 = r2)
<1>1. PromiseInv => \A l \in Letters : \A r1, r2 \in readers[l] : r1 = r2
  BY DEF PromiseInv, Promise!AtMostOneReader
<1>2. QED BY <1>1, RecordedInv, PTL
=============================================================================
