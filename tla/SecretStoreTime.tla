-------------------------- MODULE SecretStoreTime --------------------------
(***************************************************************************)
(* A letter is not lost before it expires and is handed out only to calls  *)
(* that began before it: proofs for every instance.                        *)
(*                                                                         *)
(* The argument: until a letter expires, both its keys outlive the expiry  *)
(* and its metadata says when that is (LetterTimed).  Whatever would erase *)
(* it compared that time with a clock reading: of a claim or an abort,     *)
(* which is never ahead of the clock, or of the status check, whose write  *)
(* and erasure, and the copies of them left behind, come after the expiry  *)
(* (CallTimed, StrayTimed).                                                *)
(***************************************************************************)
EXTENDS SecretStoreProofs

\* An open letter whose keys outlive its expiry.
KeptUntilExpiry(t) ==
  /\ payload[t] # NoPayload /\ payload[t].evictAt >= ExpiresAt(t)
  /\ meta[t].status \in {"active", "opening"} /\ meta[t].evictAt >= ExpiresAt(t)

LetterTimed(t) ==
  /\ create[t].began <= clock
  /\ Known(t) =>
       /\ meta[t] = NoMeta \/ meta[t].expiresAt = ExpiresAt(t)
       /\ clock < ExpiresAt(t) /\ burner[t] = NoRequest => KeptUntilExpiry(t)

CallTimed(r) ==
  LET t == req[r].tok IN
  Running(r) =>
    /\ req[r].began <= req[r].at /\ req[r].at <= clock
    /\ req[r].pc \in {"check", "persist"} => req[r].seen.expiresAt = ExpiresAt(t)
    /\ req[r].pc \in {"persist", "del"} => ExpiresAt(t) <= clock
    /\ req[r].pc \in {"decrypt", "finalize"} => req[r].began < ExpiresAt(t)

StrayTimed(s) ==
  /\ s.at <= clock
  /\ s.cmd = "persist" => s.seen.expiresAt = ExpiresAt(s.tok)
  /\ s.cmd \in {"persist", "del"} => ExpiresAt(s.tok) <= clock

LettersTimed == \A t \in Tokens : LetterTimed(t)
CallsTimed == \A r \in Requests : CallTimed(r)
StraysTimed == \A s \in stray : StrayTimed(s)

TimeInv == OnceInv /\ LettersTimed /\ CallsTimed /\ StraysTimed

LEMMA LifeTypes ==
  ASSUME TypeOK, NEW t \in Tokens
  PROVE  /\ clock \in Nat /\ create[t].began \in Nat /\ ExpiresAt(t) \in Nat
         /\ create[t].began < ExpiresAt(t)
         /\ meta[t].expiresAt \in Nat /\ meta[t].evictAt \in Nat
         /\ payload[t].evictAt \in Nat
<1>1. TTL \in Nat /\ TTL > 0
  BY ConstantsAssumption
<1>2. clock \in Nat /\ create[t].began \in Nat
  BY DEF TypeOK, Creation
<1>3. meta[t] \in Meta /\ payload[t] \in Payload
  BY DEF TypeOK
<1>4. QED BY <1>1, <1>2, <1>3 DEF ExpiresAt, Meta, Payload

-----------------------------------------------------------------------------
(* What one command does to the letters.                                   *)

\* A step on letter t that keeps the clock and what was created.
LEMMA OneLetter ==
  ASSUME TypeOK, LettersTimed, NEW t \in Tokens, UNCHANGED <<clock, create>>,
         \A u \in Tokens : u # t => /\ meta'[u] = meta[u]
                                    /\ payload'[u] = payload[u]
                                    /\ burner'[u] = burner[u],
         Known(t),
         meta'[t] = NoMeta \/ meta'[t].expiresAt = ExpiresAt(t),
         clock < ExpiresAt(t) /\ burner'[t] = NoRequest =>
           /\ payload'[t] # NoPayload /\ payload'[t].evictAt >= ExpiresAt(t)
           /\ meta'[t].status \in {"active", "opening"}
           /\ meta'[t].evictAt >= ExpiresAt(t)
  PROVE  LettersTimed'
<1>1. LetterTimed(t)'
  BY DEF LettersTimed, LetterTimed, KeptUntilExpiry, Known, ExpiresAt
<1>2. ASSUME NEW u \in Tokens, u # t
      PROVE  LetterTimed(u)'
  BY <1>2 DEF LettersTimed, LetterTimed, KeptUntilExpiry, Known, ExpiresAt
<1>3. QED BY <1>1, <1>2 DEF LettersTimed

LEMMA ClaimTimed ==
  ASSUME TypeOK, LettersTimed, NEW t \in Tokens, NEW r \in Requests,
         NEW now \in Nat, now <= clock, Known(t), ClaimScript(t, r, now),
         UNCHANGED <<clock, create>>
  PROVE  /\ LettersTimed'
         /\ ClaimVerdict(t, now) = "ok" => now < ExpiresAt(t)
<1>1. LetterTimed(t)
  BY DEF LettersTimed
<1>2. /\ Claimed(meta[t], r, now).status = "opening"
      /\ Claimed(meta[t], r, now).expiresAt = meta[t].expiresAt
      /\ Claimed(meta[t], r, now).evictAt = meta[t].evictAt
      /\ Settle(meta[t], "expired").expiresAt = meta[t].expiresAt
  BY ClaimedType, SettleType DEF TypeOK, Status
<1>3. ClaimVerdict(t, now) = "ok" => /\ meta[t].status \in {"active", "opening"}
                                     /\ meta[t] # NoMeta
                                     /\ ~Lapsed(meta[t], now)
  BY DEF ClaimVerdict, Settled, TypeOK, Meta, Status, NoMeta
<1>4. ClaimVerdict(t, now) = "expired" /\ meta[t].status # "expired"
      => meta[t] # NoMeta /\ (Lapsed(meta[t], now) \/ payload[t] = NoPayload)
  BY DEF ClaimVerdict, Settled, TypeOK, Meta, Status, NoMeta
<1>5. ClaimVerdict(t, now) = "ok" => now < ExpiresAt(t)
  BY <1>1, <1>3, LifeTypes DEF LetterTimed, Lapsed
<1>6. meta[t] # NoMeta => meta[t].expiresAt = ExpiresAt(t)
  BY <1>1 DEF LetterTimed
<1>7. /\ burner' = burner
      /\ \A u \in Tokens : u # t => meta'[u] = meta[u] /\ payload'[u] = payload[u]
  BY DEF ClaimScript, TypeOK
<1>8. clock < ExpiresAt(t) /\ burner[t] = NoRequest => KeptUntilExpiry(t)
  BY <1>1 DEF LetterTimed
<1>9. CASE ClaimVerdict(t, now) = "ok"
  <2>1. meta'[t] = Claimed(meta[t], r, now) /\ payload'[t] = payload[t]
    BY <1>9 DEF ClaimScript, TypeOK
  <2>2. QED
    BY <1>2, <1>3, <1>5, <1>6, <1>7, <1>8, <1>9, <2>1, OneLetter
    DEF KeptUntilExpiry
<1>10. CASE ClaimVerdict(t, now) = "expired" /\ meta[t].status # "expired"
  <2>1. meta'[t] = Settle(meta[t], "expired")
    BY <1>10 DEF ClaimScript, TypeOK
  <2>2. ~(clock < ExpiresAt(t) /\ burner[t] = NoRequest)
    BY <1>4, <1>6, <1>8, <1>10, LifeTypes DEF Lapsed, KeptUntilExpiry
  <2>3. QED
    BY <1>2, <1>4, <1>5, <1>6, <1>7, <1>10, <2>1, <2>2, OneLetter
<1>11. CASE /\ ClaimVerdict(t, now) # "ok"
            /\ ~(ClaimVerdict(t, now) = "expired" /\ meta[t].status # "expired")
  <2>1. meta'[t] = meta[t] /\ payload'[t] = payload[t]
    BY <1>11 DEF ClaimScript, TypeOK
  <2>2. QED
    BY <1>5, <1>6, <1>7, <1>8, <1>11, <2>1, OneLetter DEF KeptUntilExpiry
<1>12. QED BY <1>9, <1>10, <1>11

LEMMA FinalizeTimed ==
  ASSUME TypeOK, LettersTimed, NEW t \in Tokens, NEW r \in Requests,
         Known(t), FinalizeScript(t, r), UNCHANGED <<clock, create>>
  PROVE  LettersTimed'
<1>1. LetterTimed(t)
  BY DEF LettersTimed
<1>2. /\ Settle(meta[t], "consumed").expiresAt = meta[t].expiresAt
      /\ Settle(meta[t], "expired").expiresAt = meta[t].expiresAt
  BY SettleType DEF TypeOK, Status
<1>3. FinalizeVerdict(t, r) = "ok" => meta[t] # NoMeta
  BY DEF FinalizeVerdict, Settled, HeldBy, NoMeta
<1>4. FinalizeVerdict(t, r) = "expired" /\ meta[t].status # "expired"
      => meta[t] # NoMeta /\ payload[t] = NoPayload
  BY DEF FinalizeVerdict, Settled, HeldBy, NoMeta
<1>5. meta[t] # NoMeta => meta[t].expiresAt = ExpiresAt(t)
  BY <1>1 DEF LetterTimed
<1>6. \A u \in Tokens : u # t => /\ meta'[u] = meta[u]
                                 /\ payload'[u] = payload[u]
                                 /\ burner'[u] = burner[u]
  BY DEF FinalizeScript, TypeOK
<1>7. clock < ExpiresAt(t) /\ burner[t] = NoRequest => KeptUntilExpiry(t)
  BY <1>1 DEF LetterTimed
<1>8. CASE FinalizeVerdict(t, r) = "ok"
  <2>1. meta'[t] = Settle(meta[t], "consumed") /\ burner'[t] = r
    BY <1>8 DEF FinalizeScript, TypeOK
  <2>2. QED
    BY <1>2, <1>3, <1>5, <1>6, <1>8, <2>1, OneLetter, ConstantsAssumption
<1>9. CASE FinalizeVerdict(t, r) = "expired" /\ meta[t].status # "expired"
  <2>1. meta'[t] = Settle(meta[t], "expired") /\ burner'[t] = burner[t]
    BY <1>9 DEF FinalizeScript, TypeOK
  <2>2. QED
    BY <1>2, <1>4, <1>5, <1>6, <1>7, <1>9, <2>1, OneLetter DEF KeptUntilExpiry
<1>10. CASE /\ FinalizeVerdict(t, r) # "ok"
            /\ ~(FinalizeVerdict(t, r) = "expired" /\ meta[t].status # "expired")
  <2>1. /\ meta'[t] = meta[t] /\ payload'[t] = payload[t]
        /\ burner'[t] = burner[t]
    BY <1>10 DEF FinalizeScript, TypeOK
  <2>2. QED BY <1>5, <1>6, <1>7, <2>1, OneLetter DEF KeptUntilExpiry
<1>11. QED BY <1>8, <1>9, <1>10

LEMMA AbortTimed ==
  ASSUME TypeOK, LettersTimed, NEW t \in Tokens, NEW r \in Requests,
         NEW now \in Nat, now <= clock, Known(t), AbortScript(t, r, now),
         UNCHANGED <<clock, create>>
  PROVE  LettersTimed'
<1>1. LetterTimed(t)
  BY DEF LettersTimed
<1>2. /\ Settle(meta[t], "expired").expiresAt = meta[t].expiresAt
      /\ Unclaimed(meta[t], "active").expiresAt = meta[t].expiresAt
      /\ Unclaimed(meta[t], "active").evictAt = meta[t].evictAt
      /\ Unclaimed(meta[t], "active").status = "active"
  BY SettleType DEF TypeOK, Status, Unclaimed, Meta
<1>3. HeldBy(meta[t], r) => /\ meta[t] # NoMeta
                            /\ meta[t].expiresAt = ExpiresAt(t)
  BY <1>1 DEF LetterTimed, HeldBy, NoMeta
<1>4. /\ burner' = burner
      /\ \A u \in Tokens : u # t => meta'[u] = meta[u] /\ payload'[u] = payload[u]
  BY DEF AbortScript, TypeOK
<1>5. clock < ExpiresAt(t) /\ burner[t] = NoRequest => KeptUntilExpiry(t)
  BY <1>1 DEF LetterTimed
<1>6. CASE HeldBy(meta[t], r) /\ Lapsed(meta[t], now)
  <2>1. meta'[t] = Settle(meta[t], "expired")
    BY <1>6 DEF AbortScript, TypeOK
  <2>2. ~(clock < ExpiresAt(t))
    BY <1>3, <1>6, LifeTypes DEF Lapsed
  <2>3. QED BY <1>2, <1>3, <1>4, <1>6, <2>1, <2>2, OneLetter
<1>7. CASE HeldBy(meta[t], r) /\ ~Lapsed(meta[t], now)
  <2>1. meta'[t] = Unclaimed(meta[t], "active") /\ payload'[t] = payload[t]
    BY <1>7 DEF AbortScript, TypeOK
  <2>2. QED
    BY <1>2, <1>3, <1>4, <1>5, <1>7, <2>1, OneLetter DEF KeptUntilExpiry
<1>8. CASE ~HeldBy(meta[t], r)
  <2>1. meta'[t] = meta[t] /\ payload'[t] = payload[t]
    BY <1>8 DEF AbortScript, TypeOK
  <2>2. QED BY <1>1, <1>4, <1>5, <2>1, OneLetter DEF KeptUntilExpiry, LetterTimed
<1>9. QED BY <1>6, <1>7, <1>8

LEMMA PersistTimed ==
  ASSUME TypeOK, LettersTimed, NEW t \in Tokens, NEW m \in Meta, Known(t),
         m.expiresAt = ExpiresAt(t), ExpiresAt(t) <= clock,
         PersistExpired(t, m), UNCHANGED <<clock, create>>
  PROVE  LettersTimed'
<1>1. Settle(m, "expired").expiresAt = m.expiresAt
  BY SettleType DEF TypeOK, Status
<1>2. /\ meta'[t] = Settle(m, "expired") /\ burner' = burner /\ payload' = payload
      /\ \A u \in Tokens : u # t => meta'[u] = meta[u]
  BY DEF PersistExpired, TypeOK
<1>3. ~(clock < ExpiresAt(t))
  BY LifeTypes
<1>4. QED BY <1>1, <1>2, <1>3, OneLetter

LEMMA DelTimed ==
  ASSUME TypeOK, LettersTimed, NEW t \in Tokens, Known(t),
         ExpiresAt(t) <= clock, DelPayload(t), UNCHANGED <<clock, create>>
  PROVE  LettersTimed'
<1>1. /\ meta' = meta /\ burner' = burner
      /\ \A u \in Tokens : u # t => payload'[u] = payload[u]
  BY DEF DelPayload, TypeOK
<1>2. ~(clock < ExpiresAt(t))
  BY LifeTypes
<1>3. QED BY <1>1, <1>2, OneLetter DEF LettersTimed, LetterTimed

-----------------------------------------------------------------------------
(* The calls.                                                              *)

LEMMA LeftBehindTimed ==
  ASSUME NEW r \in Requests, CallTimed(r), NEW s \in LeftBehind(r)
  PROVE  StrayTimed(s)
<1>1. /\ req[r].pc \in Writes /\ s.tok = req[r].tok /\ s.cmd = req[r].pc
      /\ s.at = req[r].at /\ s.seen = req[r].seen
  BY DEF LeftBehind
<1>2. Running(r)
  BY <1>1 DEF Running, Writes
<1>3. QED BY <1>1, <1>2 DEF CallTimed, StrayTimed

\* A step of call r, at one instant, that creates no letter.
LEMMA OneCall ==
  ASSUME CallsTimed, StraysTimed, NEW r \in Requests,
         UNCHANGED <<clock, create>>,
         \A q \in Requests : q # r => req'[q] = req[q],
         CallTimed(r)',
         \A s \in stray' : s \in stray \/ StrayTimed(s)
  PROVE  CallsTimed' /\ StraysTimed'
<1>1. CallsTimed'
  BY DEF CallsTimed, CallTimed, Running, ExpiresAt
<1>2. \A s \in stray' : StrayTimed(s)
  BY DEF StraysTimed
<1>3. StraysTimed'
  BY <1>2 DEF StraysTimed, StrayTimed, ExpiresAt
<1>4. QED BY <1>1, <1>3

LEMMA StepTimed ==
  ASSUME TimeInv, NEW r \in Requests, Step(r)
  PROVE  LettersTimed' /\ CallsTimed' /\ StraysTimed'
<1> DEFINE t == req[r].tok
<1> USE DEF TimeInv
<1>1. /\ TypeOK /\ t \in Tokens /\ req[r].at \in Nat /\ req[r].seen \in Meta
      /\ req[r].began \in Nat /\ req[r] \in Request
      /\ req \in [Requests -> Request] /\ clock \in Nat
  BY RequestTypes, TypeOKSplit DEF TypeOK, OnceInv
<1>2. Running(r) => Known(t)
  BY DEF OnceInv, IssuedInv, Running
<1>3. CallTimed(r)
  BY DEF CallsTimed
<1>4. ASSUME NEW reply \in Reply, Answer(r, reply)
      PROVE  CallTimed(r)' /\ \A q \in Requests : q # r => req'[q] = req[q]
  BY <1>1, <1>4 DEF Answer, Ended, Request, CallTimed, Running
<1>5. ASSUME NEW pc \in Commands, Goto(r, pc)
      PROVE  /\ req'[r].tok = t /\ req'[r].pc = pc /\ req'[r].at = clock
             /\ req'[r].seen = req[r].seen /\ req'[r].began = req[r].began
             /\ \A q \in Requests : q # r => req'[q] = req[q]
  BY <1>1, <1>5 DEF Goto, Request
<1>6. ASSUME UNCHANGED <<meta, payload, create, clock, burner>>
      PROVE  LettersTimed'
  BY <1>6 DEF LettersTimed, LetterTimed, KeptUntilExpiry, Known, ExpiresAt
<1>7. ASSUME NEW u \in Tokens, NEW op \in {"consume", "status"},
             NEW pc \in {"claim", "get"}, Begin(r, u, op, pc)
      PROVE  LettersTimed' /\ CallsTimed' /\ StraysTimed'
  <2>1. /\ req'[r].tok = u /\ req'[r].pc = pc /\ req'[r].at = clock
        /\ req'[r].began = clock
        /\ \A q \in Requests : q # r => req'[q] = req[q]
        /\ UNCHANGED <<meta, payload, create, clock, burner, stray>>
    BY <1>1, <1>7 DEF Begin, Request
  <2>2. CallTimed(r)'
    BY <1>1, <2>1 DEF CallTimed
  <2>3. QED BY <1>6, <2>1, <2>2, OneCall
<1>8. CASE Claim(r)
  <2>1. /\ Known(t) /\ Running(r) /\ req[r].pc = "claim"
        /\ UNCHANGED <<clock, create, stray>>
    BY <1>2, <1>8 DEF Claim, Running
  <2>2. /\ LettersTimed'
        /\ ClaimVerdict(t, req[r].at) = "ok" => req[r].at < ExpiresAt(t)
    BY <1>1, <1>3, <1>8, <2>1, ClaimTimed DEF Claim, CallTimed
  <2>3. CASE ClaimVerdict(t, req[r].at) = "ok"
    <3>1. /\ req'[r].tok = t /\ req'[r].pc = "decrypt"
          /\ req'[r].at = req[r].at /\ req'[r].began = req[r].began
          /\ \A q \in Requests : q # r => req'[q] = req[q]
      BY <1>1, <1>8, <2>3 DEF Claim, Request
    <3>2. CallTimed(r)'
      BY <1>1, <1>3, <2>1, <2>2, <2>3, <3>1, LifeTypes
      DEF CallTimed, ExpiresAt
    <3>3. QED BY <2>1, <2>2, <3>1, <3>2, OneCall
  <2>4. CASE ClaimVerdict(t, req[r].at) # "ok"
    <3>1. ClaimVerdict(t, req[r].at) \in Reply
      BY <1>1, <2>4, VerdictTypes DEF Reply
    <3>2. QED BY <1>4, <1>8, <2>1, <2>2, <2>4, <3>1, OneCall DEF Claim
  <2>5. QED BY <2>3, <2>4
<1>9. CASE Decrypt(r)
  <2>1. \E pc \in {"finalize", "abort"} : Goto(r, pc)
    BY <1>9 DEF Decrypt
  <2>2. /\ req[r].pc = "decrypt" /\ Running(r)
        /\ UNCHANGED <<meta, payload, create, clock, burner, stray>>
    BY <1>9 DEF Decrypt, Running
  <2>3. PICK pc \in {"finalize", "abort"} : Goto(r, pc)
    BY <2>1
  <2>4. pc \in Commands
    BY DEF Commands, Writes
  <2>5. CallTimed(r)'
    BY <1>1, <1>3, <1>5, <2>2, <2>3, <2>4 DEF CallTimed, ExpiresAt
  <2>6. QED BY <1>5, <1>6, <2>2, <2>3, <2>4, <2>5, OneCall
<1>10. CASE Finalize(r)
  <2>1. Known(t) /\ UNCHANGED <<clock, create, stray>>
    BY <1>2, <1>10 DEF Finalize, Running
  <2>2. LettersTimed'
    BY <1>1, <1>10, <2>1, FinalizeTimed DEF Finalize
  <2>3. DEFINE reply == IF FinalizeVerdict(t, r) = "ok" THEN "content"
                        ELSE IF FinalizeVerdict(t, r) = "conflict" THEN "error"
                        ELSE FinalizeVerdict(t, r)
  <2>4. reply \in Reply
    BY <1>1, VerdictTypes DEF Reply
  <2>5. Answer(r, reply)
    BY <1>10 DEF Finalize
  <2>6. QED BY <1>4, <2>1, <2>2, <2>4, <2>5, OneCall
<1>11. CASE Abort(r)
  <2>1. Known(t) /\ Running(r) /\ UNCHANGED <<clock, create, stray>>
    BY <1>2, <1>11 DEF Abort, Running
  <2>2. LettersTimed'
    BY <1>1, <1>3, <1>11, <2>1, AbortTimed DEF Abort, CallTimed
  <2>3. QED BY <1>4, <1>11, <2>1, <2>2, OneCall DEF Abort, Reply
<1>12. CASE GetMetadata(r)
  <2>1. /\ Known(t) /\ Running(r)
        /\ UNCHANGED <<meta, payload, create, clock, burner, stray>>
    BY <1>2, <1>12 DEF GetMetadata, Running
  <2>2. CASE meta[t] = NoMeta
    BY <1>4, <1>6, <1>12, <2>1, <2>2, OneCall DEF GetMetadata, Reply
  <2>3. CASE meta[t] # NoMeta
    <3>1. /\ req'[r].tok = t /\ req'[r].pc = "check" /\ req'[r].seen = meta[t]
          /\ req'[r].at = req[r].at /\ req'[r].began = req[r].began
          /\ \A q \in Requests : q # r => req'[q] = req[q]
      BY <1>1, <1>12, <2>3 DEF GetMetadata, Request
    <3>2. meta[t].expiresAt = ExpiresAt(t)
      BY <1>1, <2>1, <2>3 DEF LettersTimed, LetterTimed
    <3>3. CallTimed(r)'
      BY <1>1, <1>3, <2>1, <3>1, <3>2 DEF CallTimed, ExpiresAt
    <3>4. QED BY <1>6, <2>1, <3>1, <3>3, OneCall
  <2>4. QED BY <2>2, <2>3
<1>13. CASE AnswerStatus(r)
  <2>1. req[r].seen.status \in Reply
    BY <1>1 DEF Meta, Status, Reply
  <2>2. QED BY <1>4, <1>6, <1>13, <2>1, OneCall DEF AnswerStatus
<1>14. CASE NoticeExpiry(r)
  <2>1. /\ Goto(r, "persist") /\ "persist" \in Commands
        /\ req[r].pc = "check" /\ Running(r) /\ SeenLapsed(r)
        /\ UNCHANGED <<meta, payload, create, clock, burner, stray>>
    BY <1>14 DEF NoticeExpiry, Running, Commands, Writes
  <2>2. CallTimed(r)'
    BY <1>1, <1>3, <1>5, <2>1 DEF CallTimed, ExpiresAt, SeenLapsed, Lapsed
  <2>3. QED BY <1>5, <1>6, <2>1, <2>2, OneCall
<1>15. CASE Persist(r)
  <2>1. /\ Goto(r, "del") /\ "del" \in Commands /\ Known(t)
        /\ req[r].pc = "persist" /\ Running(r)
        /\ UNCHANGED <<create, clock, stray>>
    BY <1>2, <1>15 DEF Persist, Running, Commands, Writes
  <2>2. LettersTimed'
    BY <1>1, <1>3, <1>15, <2>1, PersistTimed DEF Persist, CallTimed
  <2>3. CallTimed(r)'
    BY <1>1, <1>3, <1>5, <2>1 DEF CallTimed, ExpiresAt
  <2>4. QED BY <1>5, <2>1, <2>2, <2>3, OneCall
<1>16. CASE Del(r)
  <2>1. /\ Known(t) /\ req[r].pc = "del" /\ Running(r)
        /\ UNCHANGED <<create, clock, stray>>
    BY <1>2, <1>16 DEF Del, Running
  <2>2. LettersTimed'
    BY <1>1, <1>3, <1>16, <2>1, DelTimed DEF Del, CallTimed
  <2>3. QED BY <1>4, <1>16, <2>1, <2>2, OneCall DEF Del, Reply
<1>17. CASE Resend(r)
  <2>1. /\ Running(r) /\ UNCHANGED <<meta, payload, create, clock, burner>>
    BY <1>17 DEF Resend, Running, Commands, Writes
  <2>2. /\ req'[r].tok = t /\ req'[r].pc = req[r].pc
        /\ req'[r].at = req[r].at /\ req'[r].began = req[r].began
        /\ req'[r].seen = req[r].seen
        /\ \A q \in Requests : q # r => req'[q] = req[q]
    BY <1>1, <1>17 DEF Resend, Request
  <2>3. CallTimed(r)'
    BY <1>3, <2>1, <2>2 DEF CallTimed, ExpiresAt
  <2>4. \A s \in stray' : s \in stray \/ StrayTimed(s)
    BY <1>3, <1>17, LeftBehindTimed DEF Resend
  <2>5. QED BY <1>6, <2>1, <2>2, <2>3, <2>4, OneCall
<1>18. CASE Abandon(r)
  <2>1. UNCHANGED <<meta, payload, create, clock, burner>>
    BY <1>18 DEF Abandon
  <2>2. \A s \in stray' : s \in stray \/ StrayTimed(s)
    BY <1>3, <1>18, LeftBehindTimed DEF Abandon
  <2>3. QED BY <1>4, <1>6, <1>18, <2>1, <2>2, OneCall DEF Abandon, Reply
<1>19. QED
  BY <1>7, <1>8, <1>9, <1>10, <1>11, <1>12, <1>13, <1>14, <1>15, <1>16, <1>17,
     <1>18 DEF Step, BeginConsume, BeginStatus

-----------------------------------------------------------------------------
(* The other steps.                                                        *)

LEMMA LetterStepTimed ==
  ASSUME TimeInv, NEW t \in Tokens, LetterStep(t)
  PROVE  LettersTimed' /\ CallsTimed' /\ StraysTimed'
<1> USE DEF TimeInv
<1>1. TypeOK /\ clock' = clock /\ req' = req /\ stray' = stray /\ burner' = burner
  BY DEF OnceInv, LetterStep, CreateBegin, CreateStored,
         CreateStoredUnanswered, Store, CreateFailed, EvictMeta, EvictPayload
<1>2. ASSUME NEW u \in Tokens
      PROVE  Known(u) => Known(u)' /\ ExpiresAt(u)' = ExpiresAt(u)
  BY <1>1 DEF LetterStep, CreateBegin, CreateStored, CreateStoredUnanswered,
              CreateFailed, EvictMeta, EvictPayload, Known, ExpiresAt, TypeOK,
              Creation
<1>3. CallsTimed' /\ StraysTimed'
  <2>1. ASSUME NEW r \in Requests PROVE CallTimed(r)'
    <3>1. Running(r) => Known(req[r].tok) /\ req[r].tok \in Tokens
      BY <1>1 DEF OnceInv, IssuedInv, Running, TypeOK, Request
    <3>2. QED BY <1>1, <1>2, <3>1 DEF CallsTimed, CallTimed, Running, ExpiresAt
  <2>2. ASSUME NEW s \in stray PROVE StrayTimed(s)'
    <3>1. Known(s.tok) /\ s.tok \in Tokens
      BY <1>1 DEF OnceInv, IssuedInv, TypeOK, Stray
    <3>2. QED BY <1>1, <1>2, <3>1 DEF StraysTimed, StrayTimed, ExpiresAt
  <2>3. QED BY <1>1, <2>1, <2>2 DEF CallsTimed, StraysTimed
<1>4. ASSUME NEW u \in Tokens, u # t PROVE LetterTimed(u)'
  <2>1. meta'[u] = meta[u] /\ payload'[u] = payload[u] /\ create'[u] = create[u]
    BY <1>1, <1>4 DEF LetterStep, CreateBegin, CreateStored,
       CreateStoredUnanswered, Store, CreateFailed, EvictMeta, EvictPayload,
       TypeOK
  <2>2. QED BY <1>1, <2>1 DEF LettersTimed, LetterTimed, KeptUntilExpiry,
                              Known, ExpiresAt
<1>5. LetterTimed(t)'
  <2>1. LetterTimed(t)
    BY DEF LettersTimed
  <2>2. CASE CreateBegin(t)
    BY <1>1, <2>2, LifeTypes DEF CreateBegin, LetterTimed, Known, TypeOK, Creation
  <2>3. CASE CreateStoredUnanswered(t) \/ CreateFailed(t)
    BY <1>1, <2>1, <2>3
    DEF CreateStoredUnanswered, CreateFailed, LetterTimed, Known, TypeOK, Creation
  <2>4. CASE CreateStored(t)
    <3>1. /\ create'[t].began = create[t].began
          /\ payload'[t].evictAt = clock + TTL
          /\ meta'[t].status = "active" /\ meta'[t].expiresAt = ExpiresAt(t)
          /\ meta'[t].evictAt = clock + TTL + Retention
      BY <1>1, <2>4 DEF CreateStored, Store, TypeOK, Creation
    <3>2. /\ clock \in Nat /\ TTL \in Nat /\ TTL > 0 /\ Retention \in Nat
          /\ create[t].began \in Nat /\ create[t].began <= clock
      BY <1>1, <2>1, LifeTypes, ConstantsAssumption DEF LetterTimed
    <3>3. payload'[t] # NoPayload
      BY <3>1, <3>2 DEF NoPayload
    <3>4. KeptUntilExpiry(t)'
      BY <3>1, <3>2, <3>3 DEF KeptUntilExpiry, ExpiresAt
    <3>5. QED BY <1>1, <3>1, <3>2, <3>4 DEF LetterTimed, ExpiresAt
  <2>5. CASE EvictMeta(t)
    <3>1. /\ meta'[t] = NoMeta /\ meta[t].evictAt <= clock
          /\ create' = create
      BY <1>1, <2>5 DEF EvictMeta, TypeOK
    <3>2. ~(Known(t) /\ clock < ExpiresAt(t) /\ burner[t] = NoRequest)
      BY <1>1, <2>1, <3>1, LifeTypes DEF LetterTimed, KeptUntilExpiry
    <3>3. QED BY <1>1, <2>1, <3>1, <3>2 DEF LetterTimed, Known, ExpiresAt
  <2>6. CASE EvictPayload(t)
    <3>1. /\ payload[t].evictAt <= clock
          /\ create' = create /\ meta' = meta
      BY <2>6 DEF EvictPayload
    <3>2. ~(Known(t) /\ clock < ExpiresAt(t) /\ burner[t] = NoRequest)
      BY <1>1, <2>1, <3>1, LifeTypes DEF LetterTimed, KeptUntilExpiry
    <3>3. QED BY <1>1, <2>1, <3>1, <3>2 DEF LetterTimed, Known, ExpiresAt
  <2>7. QED BY <2>2, <2>3, <2>4, <2>5, <2>6 DEF LetterStep
<1>6. QED BY <1>3, <1>4, <1>5 DEF LettersTimed

LEMMA StrayStepTimed ==
  ASSUME TimeInv, NEW s \in stray, ExecuteStray(s)
  PROVE  LettersTimed' /\ CallsTimed' /\ StraysTimed'
<1> USE DEF TimeInv
<1>1. /\ TypeOK /\ s.req \in Requests /\ s.tok \in Tokens /\ s.at \in Nat
      /\ s.seen \in Meta /\ Known(s.tok) /\ StrayTimed(s)
  BY DEF OnceInv, TypeOK, Stray, IssuedInv, StraysTimed
<1>2. UNCHANGED <<clock, create, req>> /\ stray' \subseteq stray
  BY DEF ExecuteStray
<1>3. LettersTimed'
  BY <1>1, <1>2, ClaimTimed, FinalizeTimed, AbortTimed, PersistTimed, DelTimed
  DEF ExecuteStray, StrayTimed
<1>4. CallsTimed' /\ StraysTimed'
  BY <1>2 DEF CallsTimed, CallTimed, Running, StraysTimed, StrayTimed, ExpiresAt
<1>5. QED BY <1>3, <1>4

LEMMA RestartTimed ==
  ASSUME TimeInv, NEW k \in Keys, Restart(k)
  PROVE  LettersTimed' /\ CallsTimed' /\ StraysTimed'
<1> USE DEF TimeInv
<1>1. TypeOK /\ UNCHANGED <<clock, meta, payload, burner>>
  BY DEF Restart, OnceInv
<1>2. ASSUME NEW u \in Tokens
      PROVE  (Known(u)' <=> Known(u)) /\ create'[u].began = create[u].began
  BY <1>1 DEF Restart, Known, TypeOK, Creation
<1>3. LettersTimed'
  BY <1>1, <1>2 DEF LettersTimed, LetterTimed, KeptUntilExpiry, ExpiresAt
<1>4. ASSUME NEW r \in Requests PROVE CallTimed(r)'
  <2>1. ~Running(r)'
    <3>1. req'[r] = IF Running(r) THEN Ended(r, "error") ELSE req[r]
      BY DEF Restart
    <3>2. req[r] \in Request
      BY <1>1 DEF TypeOK
    <3>3. QED BY <3>1, <3>2 DEF Running, Ended, Request
  <2>2. QED BY <2>1 DEF CallTimed
<1>5. ASSUME NEW s \in stray' PROVE StrayTimed(s)'
  <2>1. StrayTimed(s)
    BY LeftBehindTimed DEF Restart, StraysTimed, CallsTimed
  <2>2. s.tok \in Tokens
    <3>1. stray' \subseteq Stray
      BY <1>1, TypeOKSplit, RestartType DEF CallsOK
    <3>2. QED BY <3>1 DEF Stray
  <2>3. QED BY <1>1, <1>2, <2>1, <2>2 DEF StrayTimed, ExpiresAt
<1>6. QED BY <1>3, <1>4, <1>5 DEF CallsTimed, StraysTimed

LEMMA TickTimed ==
  ASSUME TimeInv, Tick
  PROVE  LettersTimed' /\ CallsTimed' /\ StraysTimed'
<1> USE DEF TimeInv
<1>1. /\ TypeOK /\ clock \in Nat /\ clock' = clock + 1 /\ stray' \subseteq stray
      /\ UNCHANGED <<meta, payload, create, req, burner>>
  BY DEF Tick, OnceInv, TypeOK
<1>2. ASSUME NEW u \in Tokens PROVE LetterTimed(u)'
  BY <1>1, LifeTypes
  DEF LettersTimed, LetterTimed, KeptUntilExpiry, Known, ExpiresAt
<1>3. ASSUME NEW r \in Requests PROVE CallTimed(r)'
  <2>1. req[r].at \in Nat /\ req[r].tok \in Tokens
    BY <1>1 DEF TypeOK, Request
  <2>2. QED BY <1>1, <2>1, LifeTypes DEF CallsTimed, CallTimed, Running, ExpiresAt
<1>4. ASSUME NEW s \in stray PROVE StrayTimed(s)'
  <2>1. s.at \in Nat /\ s.tok \in Tokens
    BY <1>1 DEF TypeOK, Stray
  <2>2. QED BY <1>1, <2>1, LifeTypes DEF StraysTimed, StrayTimed, ExpiresAt
<1>5. QED BY <1>1, <1>2, <1>3, <1>4 DEF LettersTimed, CallsTimed, StraysTimed

LEMMA NextTimed == TimeInv /\ [Next]_vars => TimeInv'
<1> SUFFICES ASSUME TimeInv, [Next]_vars PROVE TimeInv'
  OBVIOUS
<1>1. OnceInv'
  BY NextOnce DEF TimeInv
<1>2. LettersTimed' /\ CallsTimed' /\ StraysTimed'
  <2>1. CASE UNCHANGED vars
    BY <2>1 DEF vars, TimeInv, LettersTimed, LetterTimed, KeptUntilExpiry, Known,
       ExpiresAt, CallsTimed, CallTimed, Running, StraysTimed, StrayTimed
  <2>2. CASE Next
    BY <2>2, TickTimed, LetterStepTimed, StepTimed, StrayStepTimed, RestartTimed
    DEF Next
  <2>3. QED BY <2>1, <2>2
<1>3. QED BY <1>1, <1>2 DEF TimeInv

LEMMA InitTimed == Init => TimeInv
<1> SUFFICES ASSUME Init PROVE TimeInv
  OBVIOUS
<1>1. OnceInv
  BY InitOnce
<1>2. LettersTimed /\ CallsTimed /\ StraysTimed
  BY DEF Init, LettersTimed, LetterTimed, Known, CallsTimed, CallTimed, Running,
         StraysTimed
<1>3. QED BY <1>1, <1>2 DEF TimeInv

-----------------------------------------------------------------------------
\* The inductive invariant about time holds in every reachable state.
THEOREM TimeInvariant == Spec => []TimeInv
BY InitTimed, NextTimed, PTL DEF Spec

\* An acknowledged letter stays openable until it expires or is burned.
THEOREM KeptUntilExpiryOrBurned == Spec => []NotLostEarly
<1>1. TimeInv => NotLostEarly
  BY DEF TimeInv, LettersTimed, LetterTimed, KeptUntilExpiry, NotLostEarly
<1>2. QED BY <1>1, TimeInvariant, PTL

-----------------------------------------------------------------------------
(* When the content is handed out.                                         *)

\* Only its own finalize gives a call the content.
LEMMA RevealedByFinalize ==
  ASSUME TypeOK, NEW r \in Requests, Next, ~Revealed(r), Revealed(r)'
  PROVE  Finalize(r)
<1>1. req' # req
  BY DEF Revealed
<1>2. ASSUME NEW k \in Keys, Restart(k) PROVE FALSE
  <2>1. req'[r] = IF Running(r) THEN Ended(r, "error") ELSE req[r]
    BY <1>2 DEF Restart
  <2>2. req[r] \in Request
    BY DEF TypeOK
  <2>3. QED BY <2>1, <2>2 DEF Revealed, Ended, Request
<1>3. PICK q \in Requests : Step(q)
  BY <1>1, <1>2 DEF Next, Tick, LetterStep, CreateBegin, CreateStored,
     CreateStoredUnanswered, Store, CreateFailed, EvictMeta, EvictPayload,
     ExecuteStray
<1>4. req[q] \in Request /\ req \in [Requests -> Request] /\ req[q].tok \in Tokens
      /\ req[q].at \in Nat /\ req[q].seen \in Meta
  BY DEF TypeOK, Request
<1>5. ASSUME NEW reply, Answer(q, reply)
      PROVE  q = r /\ reply = "content"
  BY <1>4, <1>5 DEF Answer, Ended, Revealed, Request
<1>6. ASSUME NEW pc, Goto(q, pc)
      PROVE  FALSE
  BY <1>4, <1>6 DEF Goto, Revealed, Request
<1>7. ASSUME NEW u \in Tokens, BeginConsume(q, u) \/ BeginStatus(q, u)
      PROVE  FALSE
  BY <1>4, <1>7 DEF BeginConsume, BeginStatus, Begin, Revealed, Request
<1>8. ASSUME Claim(q) PROVE FALSE
  <2>1. ClaimVerdict(req[q].tok, req[q].at) # "content"
    BY <1>4, VerdictTypes
  <2>2. QED BY <1>4, <1>5, <1>8, <2>1 DEF Claim, Revealed, Request
<1>9. ASSUME GetMetadata(q) PROVE FALSE
  BY <1>4, <1>5, <1>9 DEF GetMetadata, Revealed, Request
<1>10. ASSUME AnswerStatus(q) PROVE FALSE
  BY <1>4, <1>5, <1>10 DEF AnswerStatus, Meta, Status
<1>11. ASSUME Resend(q) PROVE FALSE
  BY <1>4, <1>11 DEF Resend, Revealed, Request
<1>12. ASSUME Decrypt(q) \/ NoticeExpiry(q) \/ Persist(q) PROVE FALSE
  BY <1>6, <1>12 DEF Decrypt, NoticeExpiry, Persist
<1>13. ASSUME Abort(q) \/ Del(q) \/ Abandon(q) PROVE FALSE
  BY <1>5, <1>13 DEF Abort, Del, Abandon
<1>14. Finalize(q)
  BY <1>3, <1>7, <1>8, <1>9, <1>10, <1>11, <1>12, <1>13 DEF Step
<1>15. QED BY <1>5, <1>14 DEF Finalize

\* A call is given the content only if it began before the letter expired,
\* and less than an operation timeout after the expiry.
THEOREM RevealedInWindow == Spec => RevealWindow
<1>1. ASSUME TimeInv, Next, NEW r \in Requests, Revealed(r)', ~Revealed(r)
      PROVE  /\ req[r].began < ExpiresAt(req[r].tok)
             /\ clock < ExpiresAt(req[r].tok) + OpTimeout
  <2>1. TypeOK
    BY <1>1 DEF TimeInv, OnceInv
  <2>2. Finalize(r)
    BY <1>1, <2>1, RevealedByFinalize
  <2>3. Running(r) /\ req[r].pc = "finalize" /\ clock < req[r].began + OpTimeout
    BY <2>2 DEF Finalize, Running, InTime, Deadline
  <2>4. req[r].began < ExpiresAt(req[r].tok)
    BY <1>1, <2>3 DEF TimeInv, CallsTimed, CallTimed
  <2>5. /\ clock \in Nat /\ req[r].began \in Nat /\ OpTimeout \in Nat
        /\ req[r].tok \in Tokens
    BY <2>1, ConstantTypes DEF TypeOK, Request
  <2>6. ExpiresAt(req[r].tok) \in Nat
    BY <2>1, <2>5, LifeTypes
  <2>7. QED BY <2>3, <2>4, <2>5, <2>6
<1>2. ASSUME TimeInv, [Next]_vars
      PROVE  [\A r \in Requests :
                Revealed(r)' /\ ~Revealed(r) =>
                  /\ req[r].began < ExpiresAt(req[r].tok)
                  /\ clock < ExpiresAt(req[r].tok) + OpTimeout]_vars
  BY <1>1, <1>2
<1>3. QED BY <1>2, TimeInvariant, PTL DEF Spec, RevealWindow
=============================================================================
