-------------------------- MODULE SecretStoreLife --------------------------
(***************************************************************************)
(* Nothing of a letter outlives its retention, and a claim that was left   *)
(* behind refuses other openers only briefly: proofs for every instance.   *)
(*                                                                         *)
(* The argument: an open letter's metadata keep the end that its creation  *)
(* gave them (OpenUntil); a script settles them only before that end.  The *)
(* one blind write, of a status check, comes at most a call and a late     *)
(* command after it read open metadata (CallLives, StrayLives).  A claim   *)
(* carries the clock reading its call began with.                          *)
(***************************************************************************)
EXTENDS SecretStoreTime

\* The latest end of the keys a creation stored.
ContentUntil(t) == ExpiresAt(t) + OpTimeout + MaxDelay
OpenUntil(t) == ContentUntil(t) + Retention

\* The latest moment of a write that settles the letter.
LastWrite(t) == OpenUntil(t) + OpTimeout + MaxDelay

LetterLives(t) ==
  /\ create[t].pc = "idle" => meta[t] = NoMeta /\ payload[t] = NoPayload
  /\ payload[t] # NoPayload => payload[t].evictAt <= ContentUntil(t)
  /\ meta[t] # NoMeta => clock <= meta[t].evictAt /\ meta[t].evictAt <= LastWrite(t) + Retention
  /\ meta[t].status \in {"active", "opening"} => meta[t].evictAt <= OpenUntil(t)
  /\ meta[t].status = "consumed" => burner[t] # NoRequest

\* The claim on a letter is that of a call, and lasts from its beginning.
ClaimLives(t) ==
  meta[t].status = "opening" =>
    \E r \in Requests : /\ HeldBy(meta[t], r) /\ req[r].pc # "idle"
                        /\ meta[t].openingUntil = req[r].began + ClaimTTL

CallLives(r) ==
  /\ req[r].pc # "done" => req[r].reply = "none"
  /\ req[r].pc = "claim" => req[r].at = req[r].began
  /\ \/ req[r].pc = "check" /\ req[r].seen.status = "active"
     \/ req[r].pc = "persist"
     => req[r].began <= OpenUntil(req[r].tok)
  /\ req[r].pc = "persist" => req[r].at < req[r].began + OpTimeout

StrayLives(s) ==
  /\ s.cmd = "claim" => s.at = req[s.req].began /\ req[s.req].pc # "idle"
  /\ s.cmd = "persist" => s.at <= OpenUntil(s.tok) + OpTimeout

LettersLive == \A t \in Tokens : LetterLives(t)
ClaimsLive == \A t \in Tokens : ClaimLives(t)
CallsLive == \A r \in Requests : CallLives(r)
StraysLive == \A s \in stray : StrayLives(s)

LifeInv == TimeInv /\ LettersLive /\ ClaimsLive /\ CallsLive /\ StraysLive

\* The times are numbers.
LEMMA TimesAreNumbers ==
  ASSUME TypeOK, NEW t \in Tokens
  PROVE  /\ ExpiresAt(t) \in Nat /\ ContentUntil(t) \in Nat /\ OpenUntil(t) \in Nat
         /\ LastWrite(t) \in Nat /\ ContentUntil(t) <= OpenUntil(t) /\ OpenUntil(t) <= LastWrite(t)
         /\ clock \in Nat /\ meta[t].evictAt \in Nat /\ payload[t].evictAt \in Nat
         /\ create[t].began \in Nat /\ meta[t] \in Meta
         /\ OpTimeout \in Nat /\ MaxDelay \in Nat /\ Retention \in Nat /\ TTL \in Nat
<1>1. /\ OpTimeout \in Nat /\ MaxDelay \in Nat /\ Retention \in Nat /\ TTL \in Nat
  BY ConstantTypes
<1>2. ExpiresAt(t) \in Nat /\ clock \in Nat /\ create[t].began \in Nat
      /\ meta[t].evictAt \in Nat /\ payload[t].evictAt \in Nat
  BY LifeTypes
<1>3. meta[t] \in Meta
  BY DEF TypeOK
<1>4. QED BY <1>1, <1>2, <1>3 DEF ContentUntil, OpenUntil, LastWrite

-----------------------------------------------------------------------------
(* Calls and late commands *)

\* A call that began keeps its beginning.
CallsKept ==
  \A r \in Requests :
    req[r].pc # "idle" => req'[r].began = req[r].began /\ req'[r].pc # "idle"

\* A command that is left behind is what its call was waiting for.
LEMMA LeftBehindLives ==
  ASSUME TypeOK, NEW r \in Requests, CallLives(r), NEW s \in LeftBehind(r)
  PROVE  StrayLives(s)
<1>1. /\ req[r].pc \in Writes /\ s.req = r /\ s.tok = req[r].tok /\ s.cmd = req[r].pc
      /\ s.at = req[r].at
  BY DEF LeftBehind
<1>2. req[r].pc # "idle"
  BY <1>1 DEF Writes
<1>3. CASE s.cmd = "persist"
  <2>1. req[r].began \in Nat /\ req[r].at \in Nat /\ req[r].tok \in Tokens
    BY DEF TypeOK, Request
  <2>2. OpenUntil(req[r].tok) \in Nat /\ OpTimeout \in Nat
    BY <2>1, TimesAreNumbers
  <2>3. req[r].began <= OpenUntil(req[r].tok) /\ req[r].at < req[r].began + OpTimeout
    BY <1>1, <1>3 DEF CallLives
  <2>4. s.at <= OpenUntil(s.tok) + OpTimeout
    BY <1>1, <2>1, <2>2, <2>3
  <2>5. QED BY <1>3, <2>4 DEF StrayLives
<1>4. CASE s.cmd # "persist"
  BY <1>1, <1>2, <1>4 DEF StrayLives, CallLives
<1>5. QED BY <1>3, <1>4

\* A command left behind stays what it was.
LEMMA StrayKept ==
  ASSUME CallsKept, NEW s, s.req \in Requests, s.cmd = "persist" => OpenUntil(s.tok)' = OpenUntil(s.tok),
         StrayLives(s)
  PROVE  StrayLives(s)'
BY DEF StrayLives, CallsKept

\* What a step of call r does to the calls and to the commands left behind.
LEMMA CallStepLives ==
  ASSUME TypeOK, CallsLive, StraysLive, NEW r \in Requests, UNCHANGED create,
         \A q \in Requests : q # r => req'[q] = req[q],
         req[r].pc # "idle" => req'[r].began = req[r].began,
         req'[r].pc # "idle",
         CallLives(r)',
         \A s \in stray' : s \in stray \/ s \in LeftBehind(r)
  PROVE  CallsKept /\ CallsLive' /\ StraysLive'
<1>1. CallsKept
  BY DEF CallsKept
<1>2. \A t : ExpiresAt(t)' = ExpiresAt(t) /\ OpenUntil(t)' = OpenUntil(t)
  BY DEF ExpiresAt, OpenUntil, ContentUntil
<1>3. CallsLive'
  <2>1. ASSUME NEW q \in Requests, q # r PROVE CallLives(q)'
    BY <1>2, <2>1 DEF CallsLive, CallLives
  <2>2. QED BY <2>1 DEF CallsLive
<1>4. ASSUME NEW s \in stray' PROVE StrayLives(s)'
  <2>1. CASE s \in stray
    BY <1>1, <1>2, <2>1, StrayKept DEF StraysLive, TypeOK, Stray
  <2>2. CASE s \in LeftBehind(r)
    <3>1. StrayLives(s) /\ s.req = r
      BY <2>2, LeftBehindLives DEF CallsLive, LeftBehind
    <3>2. QED BY <1>1, <1>2, <3>1, StrayKept
  <2>3. QED BY <2>1, <2>2
<1>5. StraysLive'
  BY <1>4 DEF StraysLive
<1>6. QED BY <1>1, <1>3, <1>5

\* Claims survive whatever leaves the letter's metadata alone.
LEMMA ClaimKept ==
  ASSUME CallsKept, NEW t \in Tokens, ClaimLives(t), meta'[t] = meta[t]
  PROVE  ClaimLives(t)'
BY DEF ClaimLives, CallsKept, HeldBy

-----------------------------------------------------------------------------
(* What one command does to the letters *)

\* A command on letter t, at one instant, that creates nothing.
LEMMA OneLetterLives ==
  ASSUME TypeOK, LettersLive, ClaimsLive, CallsKept, NEW t \in Tokens, UNCHANGED <<clock, create>>,
         \A u \in Tokens : u # t => /\ meta'[u] = meta[u]
                                    /\ payload'[u] = payload[u]
                                    /\ burner'[u] = burner[u],
         LetterLives(t)', ClaimLives(t)'
  PROVE  LettersLive' /\ ClaimsLive'
<1>1. ASSUME NEW u \in Tokens, u # t PROVE LetterLives(u)'
  BY <1>1 DEF LettersLive, LetterLives, ExpiresAt, ContentUntil, OpenUntil, LastWrite
<1>2. ASSUME NEW u \in Tokens, u # t PROVE ClaimLives(u)'
  BY <1>2, ClaimKept DEF ClaimsLive
<1>3. QED BY <1>1, <1>2 DEF LettersLive, ClaimsLive

\* A settling write before the last moment.
LEMMA SettleLives ==
  ASSUME TypeOK, LettersLive, ClaimsLive, CallsKept, NEW t \in Tokens, UNCHANGED <<clock, create>>,
         \A u \in Tokens : u # t => /\ meta'[u] = meta[u]
                                    /\ payload'[u] = payload[u]
                                    /\ burner'[u] = burner[u],
         Known(t), NEW m \in Meta, NEW status \in {"consumed", "expired"},
         meta'[t] = Settle(m, status), payload'[t] \in {payload[t], NoPayload},
         status = "consumed" => burner'[t] # NoRequest,
         clock <= LastWrite(t)
  PROVE  LettersLive' /\ ClaimsLive'
<1>1. meta'[t].status = status /\ meta'[t].evictAt = clock + Retention
  BY SettleType DEF TypeOK, Status
<1>2. ClaimLives(t)'
  BY <1>1 DEF ClaimLives
<1>3. LetterLives(t)'
  <2>1. clock <= clock + Retention /\ clock + Retention <= LastWrite(t) + Retention
    BY TimesAreNumbers
  <2>2. payload'[t] # NoPayload => payload'[t].evictAt <= ContentUntil(t)
    BY DEF LettersLive, LetterLives
  <2>3. QED BY <1>1, <2>1, <2>2
            DEF LetterLives, Known, ExpiresAt, ContentUntil, OpenUntil, LastWrite
<1>4. QED BY <1>2, <1>3, OneLetterLives

\* An open letter's metadata are read before their end.
LEMMA OpenInTime ==
  ASSUME TypeOK, LettersLive, NEW t \in Tokens, meta[t].status \in {"active", "opening"}
  PROVE  /\ meta[t] # NoMeta /\ clock <= meta[t].evictAt /\ meta[t].evictAt <= OpenUntil(t)
         /\ clock <= OpenUntil(t) /\ clock <= LastWrite(t)
<1>1. meta[t] # NoMeta
  BY DEF NoMeta
<1>2. clock <= meta[t].evictAt /\ meta[t].evictAt <= OpenUntil(t)
  BY <1>1 DEF LettersLive, LetterLives
<1>3. QED BY <1>1, <1>2, TimesAreNumbers

\* A write that keeps an open letter open and its metadata's end.
LEMMA ReopenLives ==
  ASSUME TypeOK, LettersLive, ClaimsLive, CallsKept, NEW t \in Tokens, UNCHANGED <<clock, create>>,
         \A u \in Tokens : u # t => /\ meta'[u] = meta[u]
                                    /\ payload'[u] = payload[u]
                                    /\ burner'[u] = burner[u],
         Known(t), meta[t].status \in {"active", "opening"},
         meta'[t].status \in {"active", "opening"}, meta'[t].evictAt = meta[t].evictAt,
         payload'[t] = payload[t], ClaimLives(t)'
  PROVE  LettersLive' /\ ClaimsLive'
<1>1. /\ clock <= meta[t].evictAt /\ meta[t].evictAt <= OpenUntil(t)
      /\ meta[t].evictAt <= LastWrite(t) + Retention
  BY OpenInTime, TimesAreNumbers
<1>2. payload[t] # NoPayload => payload[t].evictAt <= ContentUntil(t)
  BY DEF LettersLive, LetterLives
<1>3. LetterLives(t)'
  BY <1>1, <1>2 DEF LetterLives, Known, ExpiresAt, ContentUntil, OpenUntil, LastWrite
<1>4. QED BY <1>3, OneLetterLives

\* The claim of call r with the clock reading it began with.
LEMMA ClaimScriptLives ==
  ASSUME TypeOK, LettersLive, ClaimsLive, CallsKept, NEW t \in Tokens, NEW r \in Requests,
         UNCHANGED <<clock, create>>, Known(t), req[r].pc # "idle",
         NEW now \in Nat, now = req[r].began, ClaimScript(t, r, now)
  PROVE  LettersLive' /\ ClaimsLive'
<1>1. /\ burner' = burner
      /\ \A u \in Tokens : u # t => meta'[u] = meta[u] /\ payload'[u] = payload[u]
  BY DEF ClaimScript, TypeOK
<1>2. meta[t] \in Meta /\ clock \in Nat
  BY DEF TypeOK
<1>3. CASE ClaimVerdict(t, now) = "ok"
  <2>1. meta'[t] = Claimed(meta[t], r, now) /\ payload'[t] = payload[t]
    BY <1>3 DEF ClaimScript, TypeOK
  <2>2. meta[t].status \in {"active", "opening"}
    BY <1>2, <1>3 DEF ClaimVerdict, Settled, Meta, Status
  <2>3. /\ meta'[t].status = "opening" /\ meta'[t].openingID = r
        /\ meta'[t].openingUntil = now + ClaimTTL /\ meta'[t].evictAt = meta[t].evictAt
    BY <1>2, <2>1 DEF Claimed, Meta
  <2>4. ClaimLives(t)'
    BY <2>3 DEF ClaimLives, HeldBy, CallsKept
  <2>5. QED BY <1>1, <2>1, <2>2, <2>3, <2>4, ReopenLives
<1>4. CASE ClaimVerdict(t, now) = "expired" /\ meta[t].status # "expired"
  <2>1. meta'[t] = Settle(meta[t], "expired") /\ payload'[t] = NoPayload
    BY <1>4 DEF ClaimScript, TypeOK
  <2>2. meta[t].status \in {"active", "opening"}
    BY <1>2, <1>4 DEF ClaimVerdict, Settled, Meta, Status
  <2>3. QED BY <1>1, <1>2, <2>1, <2>2, OpenInTime, SettleLives
<1>5. CASE /\ ClaimVerdict(t, now) # "ok"
           /\ ~(ClaimVerdict(t, now) = "expired" /\ meta[t].status # "expired")
  <2>1. meta'[t] = meta[t] /\ payload'[t] = payload[t]
    BY <1>5 DEF ClaimScript, TypeOK
  <2>2. LetterLives(t)'
    BY <1>1, <2>1 DEF LettersLive, LetterLives, ExpiresAt, ContentUntil, OpenUntil, LastWrite
  <2>3. QED BY <1>1, <2>1, <2>2, ClaimKept, OneLetterLives DEF ClaimsLive
<1>6. QED BY <1>3, <1>4, <1>5

\* Finalize settles open metadata, or leaves them alone.
LEMMA FinalizeScriptLives ==
  ASSUME TypeOK, LettersLive, ClaimsLive, CallsKept, NEW t \in Tokens, NEW r \in Requests,
         UNCHANGED <<clock, create>>, Known(t), FinalizeScript(t, r)
  PROVE  LettersLive' /\ ClaimsLive'
<1>1. \A u \in Tokens : u # t => /\ meta'[u] = meta[u] /\ payload'[u] = payload[u]
                                 /\ burner'[u] = burner[u]
  BY DEF FinalizeScript, TypeOK
<1>2. meta[t] \in Meta /\ clock \in Nat
  BY DEF TypeOK
<1>3. CASE FinalizeVerdict(t, r) = "ok"
  <2>1. /\ meta'[t] = Settle(meta[t], "consumed") /\ payload'[t] = NoPayload
        /\ burner'[t] = r /\ r # NoRequest
    BY <1>3, ConstantsAssumption DEF FinalizeScript, TypeOK
  <2>2. meta[t].status \in {"active", "opening"}
    BY <1>2, <1>3 DEF FinalizeVerdict, Settled, HeldBy
  <2>3. QED BY <1>1, <1>2, <2>1, <2>2, OpenInTime, SettleLives
<1>4. CASE FinalizeVerdict(t, r) = "expired" /\ meta[t].status # "expired"
  <2>1. meta'[t] = Settle(meta[t], "expired") /\ payload'[t] = payload[t]
    BY <1>4 DEF FinalizeScript, TypeOK
  <2>2. meta[t].status \in {"active", "opening"}
    BY <1>2, <1>4 DEF FinalizeVerdict, Settled, HeldBy
  <2>3. QED BY <1>1, <1>2, <2>1, <2>2, OpenInTime, SettleLives
<1>5. CASE /\ FinalizeVerdict(t, r) # "ok"
           /\ ~(FinalizeVerdict(t, r) = "expired" /\ meta[t].status # "expired")
  <2>1. meta'[t] = meta[t] /\ payload'[t] = payload[t] /\ burner'[t] = burner[t]
    BY <1>5 DEF FinalizeScript, TypeOK
  <2>2. LetterLives(t)'
    BY <2>1 DEF LettersLive, LetterLives, ExpiresAt, ContentUntil, OpenUntil, LastWrite
  <2>3. QED BY <1>1, <2>1, <2>2, ClaimKept, OneLetterLives DEF ClaimsLive
<1>6. QED BY <1>3, <1>4, <1>5

\* Abort settles or reopens open metadata, or leaves them alone.
LEMMA AbortScriptLives ==
  ASSUME TypeOK, LettersLive, ClaimsLive, CallsKept, NEW t \in Tokens, NEW r \in Requests,
         UNCHANGED <<clock, create>>, Known(t), NEW now \in Nat, AbortScript(t, r, now)
  PROVE  LettersLive' /\ ClaimsLive'
<1>1. /\ burner' = burner
      /\ \A u \in Tokens : u # t => meta'[u] = meta[u] /\ payload'[u] = payload[u]
  BY DEF AbortScript, TypeOK
<1>2. meta[t] \in Meta /\ clock \in Nat
  BY DEF TypeOK
<1>3. HeldBy(meta[t], r) => meta[t].status \in {"active", "opening"}
  BY DEF HeldBy
<1>4. CASE HeldBy(meta[t], r) /\ Lapsed(meta[t], now)
  <2>1. meta'[t] = Settle(meta[t], "expired") /\ payload'[t] = NoPayload
    BY <1>4 DEF AbortScript, TypeOK
  <2>2. QED BY <1>1, <1>2, <1>3, <1>4, <2>1, OpenInTime, SettleLives
<1>5. CASE HeldBy(meta[t], r) /\ ~Lapsed(meta[t], now)
  <2>1. meta'[t] = Unclaimed(meta[t], "active") /\ payload'[t] = payload[t]
    BY <1>5 DEF AbortScript, TypeOK
  <2>2. meta'[t].status = "active" /\ meta'[t].evictAt = meta[t].evictAt
    BY <1>2, <2>1 DEF Unclaimed, Meta
  <2>3. ClaimLives(t)'
    BY <2>2 DEF ClaimLives
  <2>4. QED BY <1>1, <1>3, <1>5, <2>1, <2>2, <2>3, ReopenLives
<1>6. CASE ~HeldBy(meta[t], r)
  <2>1. meta'[t] = meta[t] /\ payload'[t] = payload[t]
    BY <1>6 DEF AbortScript, TypeOK
  <2>2. LetterLives(t)'
    BY <1>1, <2>1 DEF LettersLive, LetterLives, ExpiresAt, ContentUntil, OpenUntil, LastWrite
  <2>3. QED BY <1>1, <2>1, <2>2, ClaimKept, OneLetterLives DEF ClaimsLive
<1>7. QED BY <1>4, <1>5, <1>6

\* The blind write of a status check, before the last moment.
LEMMA PersistLives ==
  ASSUME TypeOK, LettersLive, ClaimsLive, CallsKept, NEW t \in Tokens, NEW m \in Meta,
         UNCHANGED <<clock, create>>, Known(t), clock <= LastWrite(t), PersistExpired(t, m)
  PROVE  LettersLive' /\ ClaimsLive'
<1>1. /\ meta'[t] = Settle(m, "expired") /\ burner' = burner /\ payload' = payload
      /\ \A u \in Tokens : u # t => meta'[u] = meta[u]
  BY DEF PersistExpired, TypeOK
<1>2. QED BY <1>1, SettleLives

\* An erased payload.
LEMMA DelLives ==
  ASSUME TypeOK, LettersLive, ClaimsLive, CallsKept, NEW t \in Tokens,
         UNCHANGED <<clock, create>>, DelPayload(t)
  PROVE  LettersLive' /\ ClaimsLive'
<1>1. /\ meta' = meta /\ burner' = burner /\ payload'[t] = NoPayload
      /\ \A u \in Tokens : u # t => payload'[u] = payload[u]
  BY DEF DelPayload, TypeOK
<1>2. LetterLives(t)'
  BY <1>1 DEF LettersLive, LetterLives, ExpiresAt, ContentUntil, OpenUntil, LastWrite
<1>3. QED BY <1>1, <1>2, ClaimKept, OneLetterLives DEF ClaimsLive
-----------------------------------------------------------------------------
(* The steps *)

\* A step of a call.
LEMMA StepLives ==
  ASSUME LifeInv, NEW r \in Requests, Step(r)
  PROVE  LettersLive' /\ ClaimsLive' /\ CallsLive' /\ StraysLive'
<1> DEFINE t == req[r].tok
<1>1. /\ TypeOK /\ LettersLive /\ ClaimsLive /\ CallsLive /\ StraysLive /\ CallLives(r) /\ CallTimed(r)
      /\ t \in Tokens /\ req[r].at \in Nat /\ req[r].seen \in Meta /\ req[r].began \in Nat
      /\ req[r] \in Request /\ req \in [Requests -> Request] /\ clock \in Nat
  BY RequestTypes, TypeOKSplit DEF LifeInv, TimeInv, OnceInv, TypeOK, CallsLive, CallsTimed
<1>2. Running(r) => Known(t)
  BY DEF LifeInv, TimeInv, OnceInv, IssuedInv, Running
<1>3. /\ OpenUntil(t) \in Nat /\ LastWrite(t) = OpenUntil(t) + OpTimeout + MaxDelay
      /\ OpTimeout \in Nat /\ MaxDelay \in Nat
  BY <1>1, TimesAreNumbers DEF LastWrite
<1>4. ASSUME NEW reply, Answer(r, reply), UNCHANGED create,
             \A s \in stray' : s \in stray \/ s \in LeftBehind(r)
      PROVE  CallsKept /\ CallsLive' /\ StraysLive'
  <2>1. /\ \A q \in Requests : q # r => req'[q] = req[q]
        /\ req'[r].pc = "done" /\ req'[r].began = req[r].began
    BY <1>1, <1>4 DEF Answer, Ended, Request
  <2>2. CallLives(r)'
    BY <2>1 DEF CallLives
  <2>3. QED BY <1>1, <1>4, <2>1, <2>2, CallStepLives
<1>5. ASSUME NEW pc \in Commands, Goto(r, pc)
      PROVE  /\ req'[r].tok = t /\ req'[r].pc = pc /\ req'[r].at = clock
             /\ req'[r].reply = req[r].reply /\ req'[r].began = req[r].began
             /\ \A q \in Requests : q # r => req'[q] = req[q]
  BY <1>1, <1>5 DEF Goto, Request
<1>6. ASSUME UNCHANGED <<meta, payload, create, clock, burner>>, CallsKept
      PROVE  LettersLive' /\ ClaimsLive'
  <2>1. LettersLive'
    BY <1>1, <1>6 DEF LettersLive, LetterLives, ExpiresAt, ContentUntil, OpenUntil, LastWrite
  <2>2. QED BY <1>1, <1>6, <2>1, ClaimKept DEF ClaimsLive
<1>7. ASSUME NEW u \in Tokens, NEW op \in {"consume", "status"},
             NEW pc \in {"claim", "get"}, Begin(r, u, op, pc)
      PROVE  LettersLive' /\ ClaimsLive' /\ CallsLive' /\ StraysLive'
  <2>1. /\ req[r].pc = "idle" /\ req'[r].pc = pc /\ req'[r].at = clock /\ req'[r].began = clock
        /\ req'[r].reply = req[r].reply
        /\ \A q \in Requests : q # r => req'[q] = req[q]
        /\ UNCHANGED <<meta, payload, create, clock, burner, stray>>
    BY <1>1, <1>7 DEF Begin, Request
  <2>2. CallLives(r)'
    BY <1>1, <2>1 DEF CallLives
  <2>3. CallsKept /\ CallsLive' /\ StraysLive'
    BY <1>1, <2>1, <2>2, CallStepLives
  <2>4. QED BY <1>6, <2>1, <2>3
<1>8. CASE Claim(r)
  <2>1. /\ Known(t) /\ req[r].pc = "claim" /\ UNCHANGED <<clock, create, stray>>
        /\ req[r].at = req[r].began
    BY <1>1, <1>2, <1>8 DEF Claim, Running, CallLives
  <2>2. CallsKept /\ CallsLive' /\ StraysLive'
    <3>1. CASE ClaimVerdict(t, req[r].at) = "ok"
      <4>1. /\ req'[r].pc = "decrypt" /\ req'[r].began = req[r].began
            /\ req'[r].reply = req[r].reply
            /\ \A q \in Requests : q # r => req'[q] = req[q]
        BY <1>1, <1>8, <3>1 DEF Claim, Request
      <4>2. CallLives(r)'
        BY <1>1, <2>1, <4>1 DEF CallLives
      <4>3. QED BY <1>1, <2>1, <4>1, <4>2, CallStepLives
    <3>2. CASE ClaimVerdict(t, req[r].at) # "ok"
      BY <1>4, <1>8, <2>1, <3>2 DEF Claim
    <3>3. QED BY <3>1, <3>2
  <2>3. ClaimScript(t, r, req[r].at)
    BY <1>8 DEF Claim
  <2>4. QED BY <1>1, <2>1, <2>2, <2>3, ClaimScriptLives
<1>9. CASE Decrypt(r)
  <2>1. PICK pc \in {"finalize", "abort"} : Goto(r, pc)
    BY <1>9 DEF Decrypt
  <2>2. /\ req[r].pc = "decrypt" /\ pc \in Commands
        /\ UNCHANGED <<meta, payload, create, clock, burner, stray>>
    BY <1>9 DEF Decrypt, Commands, Writes
  <2>3. CallLives(r)'
    BY <1>1, <1>5, <2>1, <2>2 DEF CallLives
  <2>4. CallsKept /\ CallsLive' /\ StraysLive'
    BY <1>1, <1>5, <2>1, <2>2, <2>3, CallStepLives
  <2>5. QED BY <1>6, <2>2, <2>4
<1>10. CASE Finalize(r)
  <2>1. Known(t) /\ UNCHANGED <<clock, create, stray>> /\ FinalizeScript(t, r)
    BY <1>2, <1>10 DEF Finalize, Running
  <2>2. CallsKept /\ CallsLive' /\ StraysLive'
    BY <1>4, <1>10, <2>1 DEF Finalize
  <2>3. QED BY <1>1, <2>1, <2>2, FinalizeScriptLives
<1>11. CASE Abort(r)
  <2>1. Known(t) /\ UNCHANGED <<clock, create, stray>> /\ AbortScript(t, r, req[r].at)
    BY <1>2, <1>11 DEF Abort, Running
  <2>2. CallsKept /\ CallsLive' /\ StraysLive'
    BY <1>4, <1>11, <2>1 DEF Abort
  <2>3. QED BY <1>1, <2>1, <2>2, AbortScriptLives
<1>12. CASE GetMetadata(r)
  <2>1. Running(r) /\ UNCHANGED <<meta, payload, create, clock, burner, stray>>
    BY <1>12 DEF GetMetadata, Running
  <2>2. CallsKept /\ CallsLive' /\ StraysLive'
    <3>1. CASE meta[t] = NoMeta
      BY <1>4, <1>12, <2>1, <3>1 DEF GetMetadata
    <3>2. CASE meta[t] # NoMeta
      <4>1. /\ req'[r].tok = t /\ req'[r].pc = "check" /\ req'[r].seen = meta[t]
            /\ req'[r].began = req[r].began /\ req'[r].reply = req[r].reply /\ req[r].pc = "get"
            /\ \A q \in Requests : q # r => req'[q] = req[q]
        BY <1>1, <1>12, <3>2 DEF GetMetadata, Request
      <4>2. meta[t].status = "active" => req[r].began <= OpenUntil(t)
        <5>1. req[r].began <= clock
          BY <1>1, <2>1 DEF CallTimed
        <5>2. meta[t].status = "active" => clock <= OpenUntil(t)
          BY <1>1, OpenInTime
        <5>3. QED BY <1>1, <1>3, <5>1, <5>2
      <4>3. \A u : OpenUntil(u)' = OpenUntil(u)
        BY <2>1 DEF OpenUntil, ContentUntil, ExpiresAt
      <4>4. CallLives(r)'
        BY <1>1, <4>1, <4>2, <4>3 DEF CallLives
      <4>5. QED BY <1>1, <2>1, <4>1, <4>4, CallStepLives
    <3>3. QED BY <3>1, <3>2
  <2>3. QED BY <1>6, <2>1, <2>2
<1>13. CASE AnswerStatus(r)
  <2>1. UNCHANGED <<meta, payload, create, clock, burner, stray>> /\ Answer(r, req[r].seen.status)
    BY <1>13 DEF AnswerStatus
  <2>2. CallsKept /\ CallsLive' /\ StraysLive'
    BY <1>4, <2>1
  <2>3. QED BY <1>6, <2>1, <2>2
<1>14. CASE NoticeExpiry(r)
  <2>1. /\ Goto(r, "persist") /\ "persist" \in Commands /\ req[r].pc = "check"
        /\ req[r].seen.status = "active" /\ clock < req[r].began + OpTimeout
        /\ UNCHANGED <<meta, payload, create, clock, burner, stray>>
    BY <1>14 DEF NoticeExpiry, SeenLapsed, InTime, Deadline, Commands, Writes
  <2>2. \A u : OpenUntil(u)' = OpenUntil(u)
    BY <2>1 DEF OpenUntil, ContentUntil, ExpiresAt
  <2>3. CallLives(r)'
    BY <1>1, <1>5, <2>1, <2>2 DEF CallLives
  <2>4. CallsKept /\ CallsLive' /\ StraysLive'
    BY <1>1, <1>5, <2>1, <2>3, CallStepLives
  <2>5. QED BY <1>6, <2>1, <2>4
<1>15. CASE Persist(r)
  <2>1. /\ Goto(r, "del") /\ "del" \in Commands /\ Known(t) /\ req[r].pc = "persist"
        /\ clock < req[r].began + OpTimeout /\ PersistExpired(t, req[r].seen)
        /\ UNCHANGED <<create, clock, stray>>
    BY <1>2, <1>15 DEF Persist, InTime, Deadline, Running, Commands, Writes
  <2>2. CallLives(r)'
    BY <1>1, <1>5, <2>1 DEF CallLives
  <2>3. CallsKept /\ CallsLive' /\ StraysLive'
    BY <1>1, <1>5, <2>1, <2>2, CallStepLives
  <2>4. req[r].began <= OpenUntil(t)
    BY <1>1, <2>1 DEF CallLives
  <2>5. clock <= LastWrite(t)
    BY <1>1, <1>3, <2>1, <2>4
  <2>6. QED BY <1>1, <2>1, <2>3, <2>5, PersistLives
<1>16. CASE Del(r)
  <2>1. DelPayload(t) /\ UNCHANGED <<clock, create, stray>>
    BY <1>16 DEF Del
  <2>2. CallsKept /\ CallsLive' /\ StraysLive'
    BY <1>4, <1>16, <2>1 DEF Del
  <2>3. QED BY <1>1, <2>1, <2>2, DelLives
<1>17. CASE Resend(r)
  <2>1. /\ req'[r].tok = t /\ req'[r].pc = req[r].pc /\ req'[r].at = req[r].at
        /\ req'[r].began = req[r].began /\ req'[r].seen = req[r].seen
        /\ req'[r].reply = req[r].reply /\ req[r].pc \in Commands
        /\ \A q \in Requests : q # r => req'[q] = req[q]
        /\ UNCHANGED <<meta, payload, create, clock, burner>> /\ stray' = stray \cup LeftBehind(r)
    BY <1>1, <1>17 DEF Resend, Request
  <2>2. (\A u : OpenUntil(u)' = OpenUntil(u)) /\ req[r].pc # "idle"
    BY <2>1 DEF OpenUntil, ContentUntil, ExpiresAt, Commands, Writes
  <2>3. CallLives(r)'
    BY <1>1, <2>1, <2>2 DEF CallLives
  <2>4. CallsKept /\ CallsLive' /\ StraysLive'
    BY <1>1, <2>1, <2>2, <2>3, CallStepLives
  <2>5. QED BY <1>6, <2>1, <2>4
<1>18. CASE Abandon(r)
  <2>1. UNCHANGED <<meta, payload, create, clock, burner>> /\ stray' = stray \cup LeftBehind(r)
    BY <1>18 DEF Abandon
  <2>2. CallsKept /\ CallsLive' /\ StraysLive'
    BY <1>4, <1>18, <2>1 DEF Abandon
  <2>3. QED BY <1>6, <2>1, <2>2
<1>19. QED
  BY <1>7, <1>8, <1>9, <1>10, <1>11, <1>12, <1>13, <1>14, <1>15, <1>16, <1>17, <1>18
  DEF Step, BeginConsume, BeginStatus

\* A step of the creation of a letter, or the end of a key.
LEMMA LetterStepLives ==
  ASSUME LifeInv, NEW t \in Tokens, LetterStep(t)
  PROVE  LettersLive' /\ ClaimsLive' /\ CallsLive' /\ StraysLive'
<1>1. /\ TypeOK /\ LettersLive /\ ClaimsLive /\ CallsLive /\ StraysLive
      /\ clock' = clock /\ req' = req /\ stray' = stray /\ burner' = burner
      /\ LetterLives(t) /\ ClaimLives(t)
  BY DEF LifeInv, TimeInv, OnceInv, LettersLive, ClaimsLive, LetterStep, CreateBegin, CreateStored,
         CreateStoredUnanswered, Store, CreateFailed, EvictMeta, EvictPayload
<1>2. CallsKept
  BY <1>1 DEF CallsKept
<1>3. ASSUME NEW u \in Tokens, Known(u)
      PROVE  OpenUntil(u)' = OpenUntil(u)
  BY <1>1, <1>3 DEF LetterStep, CreateBegin, CreateStored, CreateStoredUnanswered, CreateFailed,
     EvictMeta, EvictPayload, Known, OpenUntil, ContentUntil, ExpiresAt, TypeOK, Creation
<1>4. CallsLive' /\ StraysLive'
  <2>1. ASSUME NEW r \in Requests PROVE CallLives(r)'
    <3>1. req[r].pc # "idle" => Known(req[r].tok) /\ req[r].tok \in Tokens
      BY <1>1 DEF LifeInv, TimeInv, OnceInv, IssuedInv, TypeOK, Request
    <3>2. QED BY <1>1, <1>3, <3>1 DEF CallsLive, CallLives
  <2>2. ASSUME NEW s \in stray PROVE StrayLives(s)'
    <3>1. Known(s.tok) /\ s.tok \in Tokens
      BY <1>1 DEF LifeInv, TimeInv, OnceInv, IssuedInv, TypeOK, Stray
    <3>2. QED BY <1>1, <1>3, <3>1 DEF StraysLive, StrayLives
  <2>3. QED BY <1>1, <2>1, <2>2 DEF CallsLive, StraysLive
<1>5. ASSUME NEW u \in Tokens, u # t PROVE LetterLives(u)' /\ ClaimLives(u)'
  <2>1. meta'[u] = meta[u] /\ payload'[u] = payload[u] /\ create'[u] = create[u]
    BY <1>1, <1>5 DEF LetterStep, CreateBegin, CreateStored, CreateStoredUnanswered, Store,
       CreateFailed, EvictMeta, EvictPayload, TypeOK
  <2>2. LetterLives(u)'
    BY <1>1, <2>1 DEF LettersLive, LetterLives, ExpiresAt, ContentUntil, OpenUntil, LastWrite
  <2>3. QED BY <1>1, <1>2, <2>1, <2>2, ClaimKept DEF ClaimsLive
<1>6. LetterLives(t)' /\ ClaimLives(t)'
  <2>1. CASE CreateBegin(t)
    <3>1. meta'[t] = NoMeta /\ payload'[t] = NoPayload
      BY <1>1, <2>1 DEF CreateBegin, LetterLives
    <3>2. QED BY <3>1 DEF LetterLives, ClaimLives, NoMeta
  <2>2. CASE CreateFailed(t)
    <3>1. /\ meta' = meta /\ payload' = payload /\ create'[t].began = create[t].began
          /\ create'[t].pc = "failed"
      BY <1>1, <2>2 DEF CreateFailed, TypeOK, Creation
    <3>2. LetterLives(t)'
      BY <1>1, <3>1 DEF LetterLives, ExpiresAt, ContentUntil, OpenUntil, LastWrite
    <3>3. QED BY <1>1, <1>2, <3>1, <3>2, ClaimKept
  <2>3. CASE CreateStored(t) \/ CreateStoredUnanswered(t)
    <3>1. /\ create'[t].began = create[t].began /\ create'[t].pc # "idle"
          /\ payload'[t].evictAt = clock + TTL /\ meta'[t].status = "active"
          /\ meta'[t].evictAt = clock + TTL + Retention
      BY <1>1, <2>3 DEF CreateStored, CreateStoredUnanswered, Store, TypeOK, Creation
    <3>2. clock < create[t].began + OpTimeout + MaxDelay
      BY <1>1, <2>3, TimesAreNumbers DEF CreateStored, CreateStoredUnanswered
    <3>3. /\ clock + TTL <= ContentUntil(t) /\ clock + TTL + Retention <= OpenUntil(t)
          /\ clock <= clock + TTL + Retention
          /\ clock + TTL + Retention <= LastWrite(t) + Retention
      <4>1. /\ ContentUntil(t) = create[t].began + TTL + OpTimeout + MaxDelay
            /\ OpenUntil(t) = ContentUntil(t) + Retention
            /\ LastWrite(t) = OpenUntil(t) + OpTimeout + MaxDelay
        BY DEF ExpiresAt, ContentUntil, OpenUntil, LastWrite
      <4>2. QED BY <1>1, <3>2, <4>1, TimesAreNumbers
    <3>4. /\ ContentUntil(t)' = ContentUntil(t) /\ OpenUntil(t)' = OpenUntil(t)
          /\ LastWrite(t)' = LastWrite(t)
      BY <3>1 DEF ExpiresAt, ContentUntil, OpenUntil, LastWrite
    <3>5. LetterLives(t)'
      BY <1>1, <3>1, <3>3, <3>4 DEF LetterLives
    <3>6. QED BY <3>1, <3>5 DEF ClaimLives
  <2>4. CASE EvictMeta(t)
    <3>1. meta'[t] = NoMeta /\ create' = create /\ payload' = payload
      BY <1>1, <2>4 DEF EvictMeta, TypeOK
    <3>2. QED BY <1>1, <3>1 DEF LetterLives, ClaimLives, NoMeta, ExpiresAt, ContentUntil
  <2>5. CASE EvictPayload(t)
    <3>1. payload'[t] = NoPayload /\ create' = create /\ meta' = meta
      BY <1>1, <2>5 DEF EvictPayload, TypeOK
    <3>2. LetterLives(t)'
      BY <1>1, <3>1 DEF LetterLives, ExpiresAt, ContentUntil, OpenUntil, LastWrite
    <3>3. QED BY <1>1, <1>2, <3>1, <3>2, ClaimKept
  <2>6. QED BY <2>1, <2>2, <2>3, <2>4, <2>5 DEF LetterStep
<1>7. QED BY <1>4, <1>5, <1>6 DEF LettersLive, ClaimsLive

\* A command that nobody waits for any more.
LEMMA StrayStepLives ==
  ASSUME LifeInv, NEW s \in stray, ExecuteStray(s)
  PROVE  LettersLive' /\ ClaimsLive' /\ CallsLive' /\ StraysLive'
<1> DEFINE t == s.tok
<1>1. /\ TypeOK /\ LettersLive /\ ClaimsLive /\ CallsLive /\ StraysLive /\ StrayLives(s)
      /\ s.req \in Requests /\ t \in Tokens /\ s.at \in Nat /\ s.seen \in Meta /\ Known(t)
  BY DEF LifeInv, TimeInv, OnceInv, TypeOK, Stray, IssuedInv, StraysLive
<1>2. UNCHANGED <<clock, create, req>> /\ stray' \subseteq stray /\ clock <= s.at + MaxDelay
  BY DEF ExecuteStray
<1>3. CallsKept
  BY <1>2 DEF CallsKept
<1>4. CallsLive' /\ StraysLive'
  BY <1>1, <1>2 DEF CallsLive, CallLives, StraysLive, StrayLives, ExpiresAt, ContentUntil, OpenUntil
<1>5. CASE s.cmd = "claim" /\ ClaimScript(t, s.req, s.at)
  BY <1>1, <1>2, <1>3, <1>4, <1>5, ClaimScriptLives DEF StrayLives
<1>6. CASE s.cmd = "finalize" /\ FinalizeScript(t, s.req)
  BY <1>1, <1>2, <1>3, <1>4, <1>6, FinalizeScriptLives
<1>7. CASE s.cmd = "abort" /\ AbortScript(t, s.req, s.at)
  BY <1>1, <1>2, <1>3, <1>4, <1>7, AbortScriptLives
<1>8. CASE s.cmd = "persist" /\ PersistExpired(t, s.seen)
  <2>1. s.at <= OpenUntil(t) + OpTimeout
    BY <1>1, <1>8 DEF StrayLives
  <2>2. clock <= LastWrite(t)
    BY <1>1, <1>2, <2>1, TimesAreNumbers DEF LastWrite
  <2>3. QED BY <1>1, <1>2, <1>3, <1>4, <1>8, <2>2, PersistLives
<1>9. CASE s.cmd = "del" /\ DelPayload(t)
  BY <1>1, <1>2, <1>3, <1>4, <1>9, DelLives
<1>10. QED BY <1>5, <1>6, <1>7, <1>8, <1>9 DEF ExecuteStray

\* A restart ends calls and leaves their commands behind.
LEMMA RestartLives ==
  ASSUME LifeInv, NEW k \in Keys, Restart(k)
  PROVE  LettersLive' /\ ClaimsLive' /\ CallsLive' /\ StraysLive'
<1>1. /\ TypeOK /\ LettersLive /\ ClaimsLive /\ CallsLive /\ StraysLive
      /\ UNCHANGED <<clock, meta, payload, burner>>
  BY DEF LifeInv, TimeInv, OnceInv, Restart
<1>2. ASSUME NEW u \in Tokens
      PROVE  /\ create'[u].pc = "idle" <=> create[u].pc = "idle"
             /\ ExpiresAt(u)' = ExpiresAt(u) /\ OpenUntil(u)' = OpenUntil(u)
  <2>1. /\ create'[u].began = create[u].began
        /\ create'[u].pc = "idle" <=> create[u].pc = "idle"
    BY <1>1 DEF Restart, TypeOK, Creation
  <2>2. QED BY <2>1 DEF ExpiresAt, ContentUntil, OpenUntil
<1>3. ASSUME NEW r \in Requests
      PROVE  /\ \/ req'[r] = req[r] /\ ~Running(r)
                \/ req'[r].pc = "done"
             /\ req'[r].began = req[r].began
  <2>1. req'[r] = IF Running(r) THEN Ended(r, "error") ELSE req[r]
    BY DEF Restart
  <2>2. req[r] \in Request
    BY <1>1 DEF TypeOK
  <2>3. QED BY <2>1, <2>2 DEF Ended, Request
<1>4. CallsKept
  BY <1>3 DEF CallsKept
<1>5. CallsLive'
  BY <1>1, <1>3 DEF CallsLive, CallLives, Running
<1>6. LettersLive' /\ ClaimsLive'
  <2>1. LettersLive'
    BY <1>1, <1>2 DEF LettersLive, LetterLives, ContentUntil, OpenUntil, LastWrite
  <2>2. QED BY <1>1, <1>4, <2>1, ClaimKept DEF ClaimsLive
<1>7. ASSUME NEW s \in stray' PROVE StrayLives(s)'
  <2>1. s \in Stray
    <3>1. stray' \subseteq Stray
      BY <1>1, TypeOKSplit, RestartType DEF CallsOK
    <3>2. QED BY <3>1
  <2>2. s.req \in Requests /\ s.tok \in Tokens
    BY <2>1 DEF Stray
  <2>3. StrayLives(s)
    <3>1. CASE s \in stray
      BY <1>1, <3>1 DEF StraysLive
    <3>2. CASE s \notin stray
      <4>1. PICK r \in Requests : s \in LeftBehind(r)
        BY <3>2 DEF Restart
      <4>2. QED BY <1>1, <4>1, LeftBehindLives DEF CallsLive
    <3>3. QED BY <3>1, <3>2
  <2>4. QED BY <1>2, <1>4, <2>2, <2>3, StrayKept
<1>8. QED BY <1>5, <1>6, <1>7 DEF StraysLive

\* A second passes, and no key outlives its end by it.
LEMMA TickLives ==
  ASSUME LifeInv, Tick
  PROVE  LettersLive' /\ ClaimsLive' /\ CallsLive' /\ StraysLive'
<1>1. /\ TypeOK /\ LettersLive /\ ClaimsLive /\ CallsLive /\ StraysLive
      /\ clock' = clock + 1 /\ ~Overdue /\ stray' \subseteq stray
      /\ UNCHANGED <<meta, payload, create, req, burner>>
  BY DEF LifeInv, TimeInv, OnceInv, Tick
<1>2. ASSUME NEW t \in Tokens PROVE LetterLives(t)'
  <2>1. LetterLives(t) /\ clock \in Nat /\ meta[t].evictAt \in Nat
    BY <1>1, TimesAreNumbers DEF LettersLive
  <2>2. meta[t] # NoMeta => clock + 1 <= meta[t].evictAt
    BY <1>1, <2>1 DEF Overdue
  <2>3. QED BY <1>1, <2>1, <2>2 DEF LetterLives, ExpiresAt, ContentUntil, OpenUntil, LastWrite
<1>3. ClaimsLive'
  BY <1>1 DEF ClaimsLive, ClaimLives, HeldBy
<1>4. CallsLive' /\ StraysLive'
  BY <1>1 DEF CallsLive, CallLives, StraysLive, StrayLives, ExpiresAt, ContentUntil, OpenUntil
<1>5. QED BY <1>2, <1>3, <1>4 DEF LettersLive

\* Every step keeps the invariant.
LEMMA NextLives == LifeInv /\ [Next]_vars => LifeInv'
<1> SUFFICES ASSUME LifeInv, [Next]_vars PROVE LifeInv'
  OBVIOUS
<1>1. TimeInv'
  BY NextTimed DEF LifeInv
<1>2. LettersLive' /\ ClaimsLive' /\ CallsLive' /\ StraysLive'
  <2>1. CASE UNCHANGED vars
    BY <2>1 DEF vars, LifeInv, LettersLive, LetterLives, ClaimsLive, ClaimLives, HeldBy,
       CallsLive, CallLives, StraysLive, StrayLives, ExpiresAt, ContentUntil, OpenUntil, LastWrite
  <2>2. CASE Next
    BY <2>2, TickLives, LetterStepLives, StepLives, StrayStepLives, RestartLives DEF Next
  <2>3. QED BY <2>1, <2>2
<1>3. QED BY <1>1, <1>2 DEF LifeInv

\* It holds at first.
LEMMA InitLives == Init => LifeInv
<1> SUFFICES ASSUME Init PROVE LifeInv
  OBVIOUS
<1>1. TimeInv
  BY InitTimed
<1>2. LettersLive /\ ClaimsLive /\ CallsLive /\ StraysLive
  BY DEF Init, LettersLive, LetterLives, NoMeta, NoPayload, ClaimsLive, ClaimLives, CallsLive,
         CallLives, StraysLive
<1>3. QED BY <1>1, <1>2 DEF LifeInv

-----------------------------------------------------------------------------
\* Keys end in time, and claims are as old as the calls that made them, in
\* every reachable state.
THEOREM LifeInvariant == Spec => []LifeInv
BY InitLives, NextLives, PTL DEF Spec

\* No key of a letter outlives the lifetime, twice the retention and the time
\* that commands can take.
THEOREM NothingOutlives == Spec => []BoundedLife
<1>1. ASSUME LifeInv, NEW t \in Tokens
      PROVE  /\ payload[t] # NoPayload =>
                  payload[t].evictAt <= ExpiresAt(t) + OpTimeout + MaxDelay
             /\ meta[t] # NoMeta =>
                  meta[t].evictAt <= ExpiresAt(t) + 2 * (OpTimeout + MaxDelay + Retention)
  <2>1. TypeOK /\ LetterLives(t)
    BY <1>1 DEF LifeInv, TimeInv, OnceInv, LettersLive
  <2>2. LastWrite(t) + Retention = ExpiresAt(t) + 2 * (OpTimeout + MaxDelay + Retention)
    BY <2>1, TimesAreNumbers DEF LastWrite, OpenUntil, ContentUntil
  <2>3. QED BY <2>1, <2>2 DEF LetterLives, ContentUntil
<1>2. LifeInv => BoundedLife
  BY <1>1 DEF BoundedLife
<1>3. QED BY <1>2, LifeInvariant, PTL

-----------------------------------------------------------------------------
(* How long a claim refuses others *)

\* An opener is told "consumed" by the claim script alone.
LEMMA RefusedByClaim ==
  ASSUME LifeInv, [Next]_vars, NEW r \in Requests, req[r].pc = "claim", req'[r].reply = "consumed"
  PROVE  ClaimVerdict(req[r].tok, req[r].at) = "consumed"
<1>1. TypeOK /\ req[r].reply = "none" /\ req \in [Requests -> Request] /\ req[r] \in Request
  BY DEF LifeInv, TimeInv, OnceInv, CallsLive, CallLives, TypeOK
<1>2. req'[r] # req[r]
  BY <1>1
<1>3. ASSUME NEW k \in Keys, Restart(k) PROVE FALSE
  <2>1. req'[r] = Ended(r, "error")
    BY <1>3 DEF Restart, Running
  <2>2. QED BY <1>1, <2>1 DEF Ended, Request
<1>4. PICK q \in Requests : Step(q)
  BY <1>2, <1>3 DEF Next, vars, Tick, LetterStep, CreateBegin, CreateStored, CreateStoredUnanswered,
     Store, CreateFailed, EvictMeta, EvictPayload, ExecuteStray
<1>5. q = r
  BY <1>1, <1>2, <1>4 DEF Step, BeginConsume, BeginStatus, Begin, Claim, Decrypt, Finalize, Abort,
     GetMetadata, AnswerStatus, NoticeExpiry, Persist, Del, Resend, Abandon, Answer, Goto
<1>6. Claim(r) \/ Resend(r) \/ Abandon(r)
  BY <1>4, <1>5 DEF Step, BeginConsume, BeginStatus, Begin, Decrypt, Finalize, Abort,
     GetMetadata, AnswerStatus, NoticeExpiry, Persist, Del
<1>7. CASE Claim(r)
  <2>1. CASE ClaimVerdict(req[r].tok, req[r].at) = "ok"
    <3>1. req'[r].reply = req[r].reply
      BY <1>1, <1>7, <2>1 DEF Claim, Request
    <3>2. QED BY <1>1, <3>1
  <2>2. CASE ClaimVerdict(req[r].tok, req[r].at) # "ok"
    BY <1>1, <1>7, <2>2 DEF Claim, Answer, Ended, Request
  <2>3. QED BY <2>1, <2>2
<1>8. CASE Resend(r)
  <2>1. req'[r].reply = req[r].reply
    BY <1>1, <1>8 DEF Resend, Request
  <2>2. QED BY <1>1, <2>1
<1>9. CASE Abandon(r)
  <2>1. req'[r].reply = "error"
    BY <1>1, <1>9 DEF Abandon, Answer, Ended, Request
  <2>2. QED BY <2>1
<1>10. QED BY <1>6, <1>7, <1>8, <1>9

\* An opener of an unread letter is told "consumed" only within ClaimTTL of the
\* start of the call that holds the claim.
THEOREM ClaimsEndSoon == Spec => ClaimBlocksBriefly
<1> DEFINE Blocked ==
      \A r \in Requests :
        LET t == req[r].tok IN
        /\ req[r].pc = "claim"
        /\ req'[r].reply = "consumed"
        /\ burner[t] = NoRequest
        => \E holder \in Requests :
             HeldBy(meta[t], holder) /\ req[r].began < req[holder].began + ClaimTTL
<1>1. ASSUME LifeInv, [Next]_vars, NEW r \in Requests,
             req[r].pc = "claim", req'[r].reply = "consumed", burner[req[r].tok] = NoRequest
      PROVE  \E holder \in Requests :
               HeldBy(meta[req[r].tok], holder) /\ req[r].began < req[holder].began + ClaimTTL
  <2> DEFINE t == req[r].tok
  <2>1. TypeOK /\ t \in Tokens /\ LetterLives(t) /\ ClaimLives(t) /\ CallLives(r)
        /\ meta[t] \in Meta
    BY <1>1 DEF LifeInv, TimeInv, OnceInv, LettersLive, ClaimsLive, CallsLive, TypeOK, Request
  <2>2. ClaimVerdict(t, req[r].at) = "consumed"
    BY <1>1, RefusedByClaim
  <2>3. meta[t].status # "consumed" /\ req[r].at = req[r].began
    BY <1>1, <2>1 DEF LetterLives, CallLives
  <2>4. meta[t].status = "opening" /\ meta[t].openingUntil > req[r].at
    BY <2>1, <2>2, <2>3 DEF ClaimVerdict, Settled, Meta, Status
  <2>5. PICK holder \in Requests :
          HeldBy(meta[t], holder) /\ meta[t].openingUntil = req[holder].began + ClaimTTL
    BY <2>1, <2>4 DEF ClaimLives
  <2>6. req[r].began < req[holder].began + ClaimTTL
    BY <2>3, <2>4, <2>5
  <2>7. QED BY <2>5, <2>6
<1>2. LifeInv /\ [Next]_vars => [Blocked]_vars
  BY <1>1
<1>3. QED BY <1>2, LifeInvariant, PTL DEF Spec, ClaimBlocksBriefly
=============================================================================
