------------------------- MODULE SecretStoreProofs -------------------------
(***************************************************************************)
(* Theorems about SecretStore for every number of letters and requests,    *)
(* every lifetime, timeout and retention, and an unbounded clock: types,   *)
(* and that at most one call reads a letter, only the holder of the claim  *)
(* burns it, and a settled letter stays settled.                           *)
(*                                                                         *)
(* The argument: a burned letter has no payload and no openable metadata   *)
(* (BurnInv), so no claim and no finalize can succeed on it again; the     *)
(* only command that could make it openable, a copy of its creation, runs  *)
(* before the token is known, and every request, every stray command and   *)
(* every status but "active" come after that (IssuedInv).                  *)
(***************************************************************************)
EXTENDS SecretStore, TLAPS

-----------------------------------------------------------------------------
(* The values the scripts write.                                           *)

LEMMA ConstantTypes ==
  /\ NoMeta \in Meta
  /\ NoPayload \in Payload
  /\ TTL \in Nat /\ ClaimTTL \in Nat /\ OpTimeout \in Nat /\ Retention \in Nat
  /\ MaxRetries \in Nat /\ MaxDelay \in Nat
BY ConstantsAssumption DEF NoMeta, Meta, NoPayload, Payload, Status

LEMMA UnclaimedType ==
  ASSUME NEW m \in Meta, NEW s \in Status
  PROVE  /\ Unclaimed(m, s) \in Meta
         /\ Unclaimed(m, s).status = s
BY DEF Meta, Unclaimed

LEMMA SettleType ==
  ASSUME NEW m \in Meta, NEW s \in Status, clock \in Nat
  PROVE  /\ Settle(m, s) \in Meta
         /\ Settle(m, s).status = s
         /\ Settle(m, s).expiresAt = m.expiresAt
         /\ Settle(m, s).evictAt = clock + Retention
<1>1. clock + Retention \in Nat
  BY ConstantTypes
<1>2. Unclaimed(m, s) \in Meta /\ Unclaimed(m, s).status = s
  BY UnclaimedType
<1>3. Unclaimed(m, s).expiresAt = m.expiresAt
  BY DEF Unclaimed, Meta
<1>4. QED BY <1>1, <1>2, <1>3 DEF Meta, Settle

LEMMA ClaimedType ==
  ASSUME NEW m \in Meta, NEW r \in Requests, NEW now \in Nat
  PROVE  /\ Claimed(m, r, now) \in Meta
         /\ Claimed(m, r, now).status = "opening"
         /\ Claimed(m, r, now).expiresAt = m.expiresAt
         /\ Claimed(m, r, now).evictAt = m.evictAt
<1>1. now + ClaimTTL \in Nat
  BY ConstantTypes
<1>2. QED BY <1>1 DEF Meta, Claimed, Status

\* The types of the two keys and of the history variable.
LettersOK ==
  /\ meta \in [Tokens -> Meta]
  /\ payload \in [Tokens -> Payload]
  /\ burner \in [Tokens -> Requests \cup {NoRequest}]

LEMMA ClaimScriptType ==
  ASSUME LettersOK, clock \in Nat, NEW t \in Tokens, NEW r \in Requests,
         NEW now \in Nat, ClaimScript(t, r, now)
  PROVE  LettersOK'
<1>1. /\ Claimed(meta[t], r, now) \in Meta
      /\ Settle(meta[t], "expired") \in Meta
  BY ClaimedType, SettleType DEF LettersOK, Status
<1>2. QED BY <1>1, ConstantTypes DEF LettersOK, ClaimScript

LEMMA FinalizeScriptType ==
  ASSUME LettersOK, clock \in Nat, NEW t \in Tokens, NEW r \in Requests,
         FinalizeScript(t, r)
  PROVE  LettersOK'
<1>1. /\ Settle(meta[t], "consumed") \in Meta
      /\ Settle(meta[t], "expired") \in Meta
  BY SettleType DEF LettersOK, Status
<1>2. QED BY <1>1, ConstantTypes DEF LettersOK, FinalizeScript

LEMMA AbortScriptType ==
  ASSUME LettersOK, clock \in Nat, NEW t \in Tokens, NEW r \in Requests,
         NEW now \in Nat, AbortScript(t, r, now)
  PROVE  LettersOK'
<1>1. /\ Unclaimed(meta[t], "active") \in Meta
      /\ Settle(meta[t], "expired") \in Meta
  BY SettleType, UnclaimedType DEF LettersOK, Status
<1>2. QED BY <1>1, ConstantTypes DEF LettersOK, AbortScript

LEMMA PersistType ==
  ASSUME LettersOK, clock \in Nat, NEW t \in Tokens, NEW m \in Meta,
         PersistExpired(t, m)
  PROVE  LettersOK'
<1>1. Settle(m, "expired") \in Meta
  BY SettleType DEF Status
<1>2. QED BY <1>1 DEF LettersOK, PersistExpired

LEMMA DelType ==
  ASSUME LettersOK, NEW t \in Tokens, DelPayload(t)
  PROVE  LettersOK'
BY ConstantTypes DEF LettersOK, DelPayload

LEMMA StoreType ==
  ASSUME LettersOK, clock \in Nat, create \in [Tokens -> Creation],
         NEW t \in Tokens, Store(t)
  PROVE  LettersOK'
BY ConstantTypes DEF LettersOK, Store, Creation, Payload, Meta, Status, ExpiresAt

\* What the other parts of the state are, and which steps keep them.
CallsOK ==
  /\ clock \in Nat
  /\ key \in Keys
  /\ create \in [Tokens -> Creation]
  /\ req \in [Requests -> Request]
  /\ stray \subseteq Stray

LEMMA TypeOKSplit == TypeOK <=> LettersOK /\ CallsOK
BY DEF TypeOK, LettersOK, CallsOK

LEMMA EndedType ==
  ASSUME CallsOK, NEW r \in Requests, NEW reply \in Reply
  PROVE  Ended(r, reply) \in Request
BY ConstantTypes DEF CallsOK, Ended, Request

LEMMA LeftBehindType ==
  ASSUME CallsOK, NEW r \in Requests
  PROVE  LeftBehind(r) \subseteq Stray
BY DEF CallsOK, LeftBehind, Request, Stray

LEMMA AnswerType ==
  ASSUME CallsOK, NEW r \in Requests, NEW reply \in Reply, Answer(r, reply)
  PROVE  req' \in [Requests -> Request]
BY EndedType DEF CallsOK, Answer

LEMMA GotoType ==
  ASSUME CallsOK, NEW r \in Requests,
         NEW pc \in Commands, Goto(r, pc)
  PROVE  req' \in [Requests -> Request]
<1>1. [req[r] EXCEPT !.pc = pc, !.at = clock, !.tries = 0] \in Request
  BY DEF CallsOK, Request
<1>2. QED BY <1>1 DEF CallsOK, Goto

-----------------------------------------------------------------------------
(* Type correctness, one step of the system at a time.                     *)

LEMMA RequestTypes ==
  ASSUME CallsOK, NEW r \in Requests
  PROVE  /\ req[r] \in Request
         /\ req[r].tok \in Tokens /\ req[r].at \in Nat /\ req[r].seen \in Meta
         /\ req[r].tries \in Nat /\ req[r].began \in Nat
BY DEF CallsOK, Request

LEMMA VerdictTypes ==
  ASSUME NEW t \in Tokens, NEW r \in Requests, NEW now \in Nat
  PROVE  /\ ClaimVerdict(t, now) \in {"ok", "consumed", "expired", "not_found"}
         /\ FinalizeVerdict(t, r)
              \in {"ok", "conflict", "consumed", "expired", "not_found"}
BY DEF ClaimVerdict, FinalizeVerdict, Settled

LEMMA InitType == Init => TypeOK
<1> SUFFICES ASSUME Init PROVE TypeOK
  OBVIOUS
<1>1. LettersOK
  BY ConstantTypes DEF Init, LettersOK
<1>2. create \in [Tokens -> Creation]
  BY DEF Init, Creation
<1>3. req \in [Requests -> Request]
  BY ConstantTypes DEF Init, Request, Reply
<1>4. QED BY <1>1, <1>2, <1>3 DEF Init, TypeOK, LettersOK

LEMMA LetterStepType ==
  ASSUME LettersOK, CallsOK, NEW t \in Tokens, LetterStep(t)
  PROVE  LettersOK' /\ CallsOK'
<1>1. CASE CreateBegin(t)
  <2>1. [pc |-> "sent", began |-> clock, sealedWith |-> key] \in Creation
    BY DEF CallsOK, Creation
  <2>2. QED BY <1>1, <2>1 DEF CreateBegin, LettersOK, CallsOK
<1>2. CASE CreateStored(t)
  <2>1. [create[t] EXCEPT !.pc = "acked"] \in Creation
    BY DEF CallsOK, Creation
  <2>2. LettersOK'
    BY <1>2, StoreType DEF CreateStored, CallsOK
  <2>3. QED BY <1>2, <2>1, <2>2 DEF CreateStored, Store, CallsOK
<1>3. CASE CreateStoredUnanswered(t)
  BY <1>3, StoreType DEF CreateStoredUnanswered, Store, CallsOK
<1>4. CASE CreateFailed(t)
  <2>1. [create[t] EXCEPT !.pc = "failed"] \in Creation
    BY DEF CallsOK, Creation
  <2>2. QED BY <1>4, <2>1 DEF CreateFailed, LettersOK, CallsOK
<1>5. CASE EvictMeta(t)
  BY <1>5, ConstantTypes DEF EvictMeta, LettersOK, CallsOK
<1>6. CASE EvictPayload(t)
  BY <1>6, ConstantTypes DEF EvictPayload, LettersOK, CallsOK
<1>7. QED BY <1>1, <1>2, <1>3, <1>4, <1>5, <1>6 DEF LetterStep

LEMMA StepType ==
  ASSUME LettersOK, CallsOK, NEW r \in Requests, Step(r)
  PROVE  LettersOK' /\ CallsOK'
<1> DEFINE t == req[r].tok
<1> USE RequestTypes
<1>1. ASSUME NEW u \in Tokens, NEW op \in {"consume", "status"},
             NEW pc \in {"claim", "get"}, Begin(r, u, op, pc)
      PROVE  LettersOK' /\ CallsOK'
  <2>1. [req[r] EXCEPT !.op = op, !.pc = pc, !.tok = u, !.began = clock,
                       !.at = clock] \in Request
    BY DEF CallsOK, Request, Commands, Writes
  <2>2. QED BY <1>1, <2>1 DEF Begin, LettersOK, CallsOK
<1>2. CASE Claim(r)
  <2>1. LettersOK'
    BY <1>2, ClaimScriptType DEF Claim, CallsOK
  <2>2. CASE ClaimVerdict(t, req[r].at) = "ok"
    <3>1. [req[r] EXCEPT !.pc = "decrypt", !.tries = 0,
                         !.box = payload[t].sealedWith] \in Request
      BY DEF CallsOK, Request, LettersOK, Payload
    <3>2. QED BY <1>2, <2>1, <2>2, <3>1 DEF Claim, CallsOK
  <2>3. CASE ClaimVerdict(t, req[r].at) # "ok"
    <3>1. ClaimVerdict(t, req[r].at) \in Reply
      BY <2>3, VerdictTypes DEF Reply
    <3>2. QED BY <1>2, <2>1, <2>3, <3>1, AnswerType DEF Claim, CallsOK
  <2>4. QED BY <2>2, <2>3
<1>3. CASE Decrypt(r)
  <2>1. req' \in [Requests -> Request]
    BY <1>3, GotoType DEF Decrypt, Decrypts, Commands, Writes
  <2>2. QED BY <1>3, <2>1 DEF Decrypt, LettersOK, CallsOK
<1>4. CASE Finalize(r)
  <2>1. LettersOK'
    BY <1>4, FinalizeScriptType DEF Finalize, CallsOK
  <2>2. (IF FinalizeVerdict(t, r) = "ok" THEN "content"
         ELSE IF FinalizeVerdict(t, r) = "conflict" THEN "error"
         ELSE FinalizeVerdict(t, r)) \in Reply
    BY VerdictTypes DEF Reply
  <2>3. req' \in [Requests -> Request]
    BY <1>4, <2>2, AnswerType DEF Finalize
  <2>4. QED BY <1>4, <2>1, <2>3 DEF Finalize, CallsOK
<1>5. CASE Abort(r)
  BY <1>5, AbortScriptType, AnswerType DEF Abort, CallsOK, Reply
<1>6. CASE GetMetadata(r)
  <2>1. [req[r] EXCEPT !.pc = "check", !.tries = 0, !.seen = meta[t]] \in Request
    BY DEF CallsOK, Request, LettersOK
  <2>2. req' \in [Requests -> Request]
    BY <1>6, <2>1, AnswerType DEF GetMetadata, CallsOK, Reply
  <2>3. QED BY <1>6, <2>2 DEF GetMetadata, LettersOK, CallsOK
<1>7. CASE AnswerStatus(r)
  <2>1. req[r].seen.status \in {"none"} \cup Reply
    BY DEF Meta, Status, Reply
  <2>2. req' \in [Requests -> Request]
    BY <1>7, <2>1, AnswerType DEF AnswerStatus, Reply
  <2>3. QED BY <1>7, <2>2 DEF AnswerStatus, LettersOK, CallsOK
<1>8. CASE NoticeExpiry(r)
  BY <1>8, GotoType DEF NoticeExpiry, LettersOK, CallsOK, Commands, Writes
<1>9. CASE Persist(r)
  BY <1>9, PersistType, GotoType DEF Persist, CallsOK, Commands, Writes
<1>10. CASE Del(r)
  BY <1>10, DelType, AnswerType DEF Del, CallsOK, Reply
<1>11. CASE Resend(r)
  <2>1. req[r].tries + 1 \in Nat
    OBVIOUS
  <2>2. [req[r] EXCEPT !.tries = req[r].tries + 1] \in Request
    BY <2>1 DEF CallsOK, Request
  <2>3. req' \in [Requests -> Request]
    BY <1>11, <2>2 DEF Resend, CallsOK
  <2>4. stray' \subseteq Stray
    BY <1>11, LeftBehindType DEF Resend, CallsOK
  <2>5. QED BY <1>11, <2>3, <2>4 DEF Resend, LettersOK, CallsOK
<1>12. CASE Abandon(r)
  <2>1. stray' \subseteq Stray
    BY <1>12, LeftBehindType DEF Abandon, CallsOK
  <2>2. req' \in [Requests -> Request]
    BY <1>12, AnswerType DEF Abandon, Reply
  <2>3. QED BY <1>12, <2>1, <2>2 DEF Abandon, LettersOK, CallsOK
<1>13. QED
  BY <1>1, <1>2, <1>3, <1>4, <1>5, <1>6, <1>7, <1>8, <1>9, <1>10, <1>11, <1>12
  DEF Step, BeginConsume, BeginStatus

LEMMA StrayType ==
  ASSUME LettersOK, CallsOK, NEW s \in stray, ExecuteStray(s)
  PROVE  LettersOK' /\ CallsOK'
<1>1. /\ s.req \in Requests /\ s.tok \in Tokens /\ s.at \in Nat
      /\ s.seen \in Meta
  BY DEF CallsOK, Stray
<1>2. clock \in Nat
  BY DEF CallsOK
<1>3. LettersOK'
  BY <1>1, <1>2, ClaimScriptType, FinalizeScriptType, AbortScriptType,
     PersistType, DelType DEF ExecuteStray
<1>4. QED BY <1>3 DEF ExecuteStray, CallsOK

LEMMA RestartType ==
  ASSUME LettersOK, CallsOK, NEW k \in Keys, Restart(k)
  PROVE  LettersOK' /\ CallsOK'
<1>1. req' \in [Requests -> Request]
  BY EndedType DEF Restart, CallsOK, Reply
<1>2. create' \in [Tokens -> Creation]
  <2>1. ASSUME NEW t \in Tokens
        PROVE  [create[t] EXCEPT !.pc = "failed"] \in Creation
    BY DEF CallsOK, Creation
  <2>2. QED BY <2>1 DEF Restart, CallsOK
<1>3. stray' \subseteq Stray
  BY LeftBehindType DEF Restart, CallsOK
<1>4. QED BY <1>1, <1>2, <1>3 DEF Restart, LettersOK, CallsOK

LEMMA TickType ==
  ASSUME LettersOK, CallsOK, Tick
  PROVE  LettersOK' /\ CallsOK'
BY DEF Tick, LettersOK, CallsOK

LEMMA NextType == TypeOK /\ [Next]_vars => TypeOK'
<1> SUFFICES ASSUME TypeOK, [Next]_vars PROVE TypeOK'
  OBVIOUS
<1>1. LettersOK /\ CallsOK
  BY TypeOKSplit
<1>2. LettersOK' /\ CallsOK'
  <2>1. CASE UNCHANGED vars
    BY <1>1, <2>1 DEF vars, LettersOK, CallsOK
  <2>2. CASE Next
    BY <1>1, <2>2, TickType, LetterStepType, StepType, StrayType, RestartType
    DEF Next
  <2>3. QED BY <2>1, <2>2
<1>3. QED BY <1>2 DEF TypeOK, LettersOK, CallsOK

\* Every variable keeps its type, whatever the number of letters, requests
\* and retries, and however long the system runs.
THEOREM TypeCorrect == Spec => []TypeOK
BY InitType, NextType, PTL DEF Spec

-----------------------------------------------------------------------------
(* At most one reader.                                                     *)

\* Nothing but its creation touches a letter before its token is known.
IssuedInv ==
  /\ \A r \in Requests : req[r].pc # "idle" => Known(req[r].tok)
  /\ \A s \in stray : Known(s.tok)
  /\ \A t \in Tokens : meta[t].status \notin {"none", "active"} => Known(t)

\* A burned letter cannot be opened, and its burner is its only reader.
BurnInv ==
  /\ \A t \in Tokens :
       burner[t] # NoRequest =>
         /\ Known(t)
         /\ meta[t].status \notin {"active", "opening"}
         /\ payload[t] = NoPayload
  /\ \A r \in Requests :
       Revealed(r) => /\ req[r].pc = "done"
                      /\ burner[req[r].tok] = r

OnceInv == TypeOK /\ IssuedInv /\ BurnInv

-----------------------------------------------------------------------------
(* What one command does to the letters.                                   *)

\* The parts of the invariant about the letters alone.
LettersInv ==
  \A t \in Tokens :
    /\ meta[t].status \notin {"none", "active"} => Known(t)
    /\ burner[t] # NoRequest =>
         /\ Known(t)
         /\ meta[t].status \notin {"active", "opening"}
         /\ payload[t] = NoPayload

\* A step keeps settled letters settled, and burns only for a claim's holder.
SafeEffect ==
  \A t \in Tokens :
    /\ meta[t].status \in {"consumed", "expired"} =>
         meta'[t].status \in {"consumed", "expired", "none"}
    /\ burner'[t] # burner[t] =>
         /\ HeldBy(meta[t], burner'[t])
         /\ burner[t] = NoRequest

LEMMA ClaimEffect ==
  ASSUME TypeOK, LettersInv, NEW t \in Tokens, NEW r \in Requests,
         NEW now \in Nat, Known(t), ClaimScript(t, r, now), UNCHANGED create
  PROVE  LettersInv' /\ SafeEffect
<1>1. /\ Claimed(meta[t], r, now).status = "opening"
      /\ Settle(meta[t], "expired").status = "expired"
  BY ClaimedType, SettleType DEF TypeOK, Status
<1>2. ClaimVerdict(t, now) = "ok" => /\ meta[t].status \in {"active", "opening"}
                                     /\ payload[t] # NoPayload
  BY DEF ClaimVerdict, Settled, TypeOK, Meta, Status
<1>3. ClaimVerdict(t, now) = "expired" /\ meta[t].status # "expired"
      => meta[t].status \in {"active", "opening"}
  BY DEF ClaimVerdict, Settled, TypeOK, Meta, Status
<1>4. meta[t].status \in {"active", "opening"} => burner[t] = NoRequest
  BY DEF LettersInv
<1>5. burner' = burner
  BY DEF ClaimScript
<1>6. ASSUME NEW u \in Tokens, u # t
      PROVE  meta'[u] = meta[u] /\ payload'[u] = payload[u]
  BY <1>6 DEF ClaimScript, TypeOK
<1>7. \/ meta'[t] = meta[t] /\ payload'[t] = payload[t]
      \/ /\ meta[t].status \in {"active", "opening"}
         /\ meta'[t].status \in {"opening", "expired"}
  BY <1>1, <1>2, <1>3 DEF ClaimScript, TypeOK
<1>8. Known(t)' /\ \A u \in Tokens : Known(u)' <=> Known(u)
  BY DEF Known
<1>9. SafeEffect
  BY <1>5, <1>6, <1>7 DEF SafeEffect
<1>10. LettersInv'
  BY <1>4, <1>5, <1>6, <1>7, <1>8 DEF LettersInv
<1>11. QED BY <1>9, <1>10

LEMMA FinalizeEffect ==
  ASSUME TypeOK, LettersInv, NEW t \in Tokens, NEW r \in Requests,
         Known(t), FinalizeScript(t, r), UNCHANGED create
  PROVE  /\ LettersInv' /\ SafeEffect
         /\ FinalizeVerdict(t, r) = "ok" => burner'[t] = r
<1>1. /\ Settle(meta[t], "consumed").status = "consumed"
      /\ Settle(meta[t], "expired").status = "expired"
  BY SettleType DEF TypeOK, Status
<1>2. FinalizeVerdict(t, r) = "ok" => HeldBy(meta[t], r)
  BY DEF FinalizeVerdict, Settled
<1>3. FinalizeVerdict(t, r) = "expired" /\ meta[t].status # "expired"
      => meta[t].status = "opening"
  BY DEF FinalizeVerdict, Settled, TypeOK, Meta, Status, HeldBy
<1>4. meta[t].status = "opening" => burner[t] = NoRequest
  BY DEF LettersInv
<1>5. ASSUME NEW u \in Tokens, u # t
      PROVE  /\ meta'[u] = meta[u] /\ payload'[u] = payload[u]
             /\ burner'[u] = burner[u]
  BY <1>5 DEF FinalizeScript, TypeOK
<1>6. \/ /\ meta'[t] = meta[t] /\ payload'[t] = payload[t]
         /\ burner'[t] = burner[t] /\ FinalizeVerdict(t, r) # "ok"
      \/ /\ HeldBy(meta[t], r) /\ meta'[t].status = "consumed"
         /\ payload'[t] = NoPayload /\ burner'[t] = r
      \/ /\ meta[t].status = "opening" /\ meta'[t].status = "expired"
         /\ burner'[t] = burner[t] /\ FinalizeVerdict(t, r) # "ok"
  BY <1>1, <1>2, <1>3 DEF FinalizeScript, TypeOK
<1>7. \A u \in Tokens : Known(u)' <=> Known(u)
  BY DEF Known
<1>8. SafeEffect
  BY <1>4, <1>5, <1>6 DEF SafeEffect, HeldBy
<1>9. LettersInv'
  BY <1>4, <1>5, <1>6, <1>7 DEF LettersInv
<1>10. FinalizeVerdict(t, r) = "ok" => burner'[t] = r
  BY DEF FinalizeScript, TypeOK
<1>11. QED BY <1>8, <1>9, <1>10

LEMMA AbortEffect ==
  ASSUME TypeOK, LettersInv, NEW t \in Tokens, NEW r \in Requests,
         NEW now \in Nat, Known(t), AbortScript(t, r, now), UNCHANGED create
  PROVE  LettersInv' /\ SafeEffect
<1>1. /\ Unclaimed(meta[t], "active").status = "active"
      /\ Settle(meta[t], "expired").status = "expired"
  BY UnclaimedType, SettleType DEF TypeOK, Status
<1>2. meta[t].status = "opening" => burner[t] = NoRequest
  BY DEF LettersInv
<1>3. ASSUME NEW u \in Tokens, u # t
      PROVE  meta'[u] = meta[u] /\ payload'[u] = payload[u]
  BY <1>3 DEF AbortScript, TypeOK
<1>4. \/ meta'[t] = meta[t] /\ payload'[t] = payload[t]
      \/ meta[t].status = "opening" /\ meta'[t].status \in {"active", "expired"}
  BY <1>1 DEF AbortScript, TypeOK, HeldBy
<1>5. burner' = burner /\ \A u \in Tokens : Known(u)' <=> Known(u)
  BY DEF AbortScript, Known
<1>6. SafeEffect
  BY <1>3, <1>4, <1>5 DEF SafeEffect
<1>7. LettersInv'
  BY <1>2, <1>3, <1>4, <1>5 DEF LettersInv
<1>8. QED BY <1>6, <1>7

LEMMA PersistEffect ==
  ASSUME TypeOK, LettersInv, NEW t \in Tokens, NEW m \in Meta,
         Known(t), PersistExpired(t, m), UNCHANGED create
  PROVE  LettersInv' /\ SafeEffect
<1>1. Settle(m, "expired").status = "expired"
  BY SettleType DEF TypeOK, Status
<1>2. /\ meta'[t].status = "expired"
      /\ \A u \in Tokens : u # t => meta'[u] = meta[u]
      /\ payload' = payload /\ burner' = burner
      /\ \A u \in Tokens : Known(u)' <=> Known(u)
  BY <1>1 DEF PersistExpired, TypeOK, Known
<1>3. QED BY <1>2 DEF LettersInv, SafeEffect

LEMMA DelEffect ==
  ASSUME TypeOK, LettersInv, NEW t \in Tokens, DelPayload(t), UNCHANGED create
  PROVE  LettersInv' /\ SafeEffect
BY DEF DelPayload, LettersInv, SafeEffect, Known, TypeOK

LEMMA StoreEffect ==
  ASSUME TypeOK, LettersInv, NEW t \in Tokens, ~Known(t), Store(t),
         \A u \in Tokens : Known(u) => Known(u)'
  PROVE  LettersInv' /\ SafeEffect
<1>1. /\ meta'[t].status = "active" /\ burner' = burner
      /\ \A u \in Tokens : u # t => /\ meta'[u] = meta[u]
                                   /\ payload'[u] = payload[u]
  BY DEF Store, TypeOK
<1>2. /\ meta[t].status \notin {"consumed", "expired"}
      /\ burner[t] = NoRequest
  BY DEF LettersInv
<1>3. SafeEffect
  BY <1>1, <1>2 DEF SafeEffect
<1>4. LettersInv'
  BY <1>1, <1>2 DEF LettersInv
<1>5. QED BY <1>3, <1>4

LEMMA EvictEffect ==
  ASSUME TypeOK, LettersInv, NEW t \in Tokens, EvictMeta(t) \/ EvictPayload(t)
  PROVE  LettersInv' /\ SafeEffect
<1>1. CASE EvictMeta(t)
  BY <1>1 DEF EvictMeta, NoMeta, LettersInv, SafeEffect, Known, TypeOK
<1>2. CASE EvictPayload(t)
  BY <1>2 DEF EvictPayload, LettersInv, SafeEffect, Known, TypeOK
<1>3. QED BY <1>1, <1>2

LEMMA IdleEffect ==
  ASSUME LettersInv, UNCHANGED <<meta, payload, burner>>,
         \A u \in Tokens : Known(u) => Known(u)'
  PROVE  LettersInv' /\ SafeEffect
BY DEF LettersInv, SafeEffect

-----------------------------------------------------------------------------
(* The calls: a started call knows a stored letter, and so does whatever   *)
(* it leaves behind; a reader burned the letter it read.                   *)

CallsInv ==
  /\ \A r \in Requests : req[r].pc # "idle" => Known(req[r].tok)
  /\ \A s \in stray : Known(s.tok)
  /\ \A r \in Requests :
       Revealed(r) => /\ req[r].pc = "done"
                      /\ burner[req[r].tok] = r

LEMMA OnceInvSplit == OnceInv <=> TypeOK /\ LettersInv /\ CallsInv
BY DEF OnceInv, IssuedInv, BurnInv, LettersInv, CallsInv

LEMMA LeftBehindKnown ==
  ASSUME TypeOK, CallsInv, NEW r \in Requests, NEW s \in LeftBehind(r)
  PROVE  Known(s.tok)
<1>1. req[r].pc \in Writes /\ s.tok = req[r].tok
  BY DEF LeftBehind
<1>2. req[r].pc # "idle"
  BY <1>1 DEF Writes
<1>3. QED BY <1>1, <1>2 DEF CallsInv

\* A step of one call that stays on its letter and reveals nothing, or
\* reveals what it has just burned.
LEMMA CallStep ==
  ASSUME TypeOK, CallsInv, SafeEffect, NEW r \in Requests,
         UNCHANGED create,
         \A s \in stray' : s \in stray \/ Known(s.tok),
         \A q \in Requests : q # r => req'[q] = req[q],
         Known(req'[r].tok),
         Revealed(r)' => /\ req'[r].pc = "done"
                         /\ burner'[req'[r].tok] = r,
         req'[r].tok \in Tokens
  PROVE  CallsInv'
<1>1. \A u \in Tokens : Known(u)' <=> Known(u)
  BY DEF Known
<1>2. ASSUME NEW q \in Requests, burner[req[q].tok] = q
      PROVE  burner'[req[q].tok] = q
  BY <1>2, ConstantsAssumption DEF SafeEffect, TypeOK, Request
<1>3. \A q \in Requests : req'[q].pc # "idle" => Known(req[q].tok)'
  <2>1. ASSUME NEW q \in Requests, req'[q].pc # "idle"
        PROVE  Known(req[q].tok)'
    <3>1. CASE q = r
      BY <3>1 DEF Known
    <3>2. CASE q # r
      BY <2>1, <3>2 DEF CallsInv, Known
    <3>3. QED BY <3>1, <3>2
  <2>2. QED BY <2>1
<1>4. \A s \in stray' : Known(s.tok)'
  BY <1>1 DEF CallsInv, TypeOK, Stray, Known
<1>5. ASSUME NEW q \in Requests, Revealed(q)'
      PROVE  req'[q].pc = "done" /\ burner'[req'[q].tok] = q
  <2>1. CASE q = r
    BY <1>5, <2>1
  <2>2. CASE q # r
    <3>1. Revealed(q) /\ req'[q] = req[q]
      BY <1>5, <2>2 DEF Revealed
    <3>2. QED BY <1>2, <3>1 DEF CallsInv
  <2>3. QED BY <2>1, <2>2
<1>6. QED BY <1>3, <1>4, <1>5 DEF CallsInv, Revealed

LEMMA StepOnce ==
  ASSUME TypeOK, LettersInv, CallsInv, NEW r \in Requests, Step(r)
  PROVE  LettersInv' /\ SafeEffect /\ CallsInv'
<1> DEFINE t == req[r].tok
<1>1. /\ t \in Tokens /\ req[r].at \in Nat /\ req[r].seen \in Meta
      /\ req[r] \in Request /\ req \in [Requests -> Request]
  BY RequestTypes, TypeOKSplit DEF TypeOK
<1>2. req[r].pc # "idle" => Known(t) /\ (Revealed(r) => req[r].pc = "done")
  BY DEF CallsInv
<1>3. ASSUME NEW u \in Tokens, NEW op \in {"consume", "status"},
             NEW pc \in {"claim", "get"}, Begin(r, u, op, pc)
      PROVE  LettersInv' /\ SafeEffect /\ CallsInv'
  <2>1. LettersInv' /\ SafeEffect
    BY <1>3, IdleEffect DEF Begin, Known
  <2>2. ~Revealed(r) /\ Known(u)
    BY <1>3 DEF Begin, CallsInv
  <2>3. /\ req'[r].tok = u /\ ~Revealed(r)'
        /\ \A q \in Requests : q # r => req'[q] = req[q]
    BY <1>1, <1>3, <2>2 DEF Begin, Revealed, Request
  <2>4. UNCHANGED <<create, stray>>
    BY <1>3 DEF Begin
  <2>5. QED BY <2>1, <2>2, <2>3, <2>4, CallStep
<1>4. ASSUME NEW reply \in Reply, Answer(r, reply)
      PROVE  /\ req'[r].tok = t /\ req'[r].pc = "done"
             /\ req'[r].reply = reply
             /\ \A q \in Requests : q # r => req'[q] = req[q]
  BY <1>1, <1>4 DEF Answer, Ended, Request
<1>5. ASSUME NEW pc \in Commands, Goto(r, pc)
      PROVE  /\ req'[r].tok = t /\ req'[r].reply = req[r].reply
             /\ \A q \in Requests : q # r => req'[q] = req[q]
  BY <1>1, <1>5 DEF Goto, Request
<1>6. CASE Claim(r)
  <2>1. Known(t) /\ UNCHANGED <<create, stray>> /\ ~Revealed(r)
    BY <1>2, <1>6 DEF Claim
  <2>2. LettersInv' /\ SafeEffect
    BY <1>1, <1>6, <2>1, ClaimEffect DEF Claim
  <2>3. /\ req'[r].tok = t /\ ~Revealed(r)'
        /\ \A q \in Requests : q # r => req'[q] = req[q]
    <3>1. CASE ClaimVerdict(t, req[r].at) = "ok"
      BY <1>1, <1>6, <2>1, <3>1 DEF Claim, Revealed, Request
    <3>2. CASE ClaimVerdict(t, req[r].at) # "ok"
      <4>1. ClaimVerdict(t, req[r].at) \in {"consumed", "expired", "not_found"}
        BY <1>1, <3>2, VerdictTypes
      <4>2. QED BY <1>4, <1>6, <3>2, <4>1 DEF Claim, Revealed, Reply
    <3>3. QED BY <3>1, <3>2
  <2>4. QED BY <1>1, <2>1, <2>2, <2>3, CallStep
<1>7. CASE Finalize(r)
  <2>1. Known(t) /\ UNCHANGED <<create, stray>>
    BY <1>2, <1>7 DEF Finalize
  <2>2. /\ LettersInv' /\ SafeEffect
        /\ FinalizeVerdict(t, r) = "ok" => burner'[t] = r
    BY <1>1, <1>7, <2>1, FinalizeEffect DEF Finalize
  <2>3. DEFINE reply == IF FinalizeVerdict(t, r) = "ok" THEN "content"
                        ELSE IF FinalizeVerdict(t, r) = "conflict" THEN "error"
                        ELSE FinalizeVerdict(t, r)
  <2>4. /\ reply \in Reply
        /\ reply = "content" => FinalizeVerdict(t, r) = "ok"
    BY <1>1, VerdictTypes DEF Reply
  <2>5. Answer(r, reply)
    BY <1>7 DEF Finalize
  <2>6. /\ req'[r].tok = t /\ req'[r].pc = "done" /\ req'[r].reply = reply
        /\ \A q \in Requests : q # r => req'[q] = req[q]
    BY <1>4, <2>4, <2>5
  <2>7. Revealed(r)' => burner'[req'[r].tok] = r
    BY <2>2, <2>4, <2>6 DEF Revealed
  <2>8. QED BY <1>1, <2>1, <2>2, <2>6, <2>7, CallStep
<1>8. CASE Abort(r)
  <2>1. Known(t) /\ UNCHANGED <<create, stray>>
    BY <1>2, <1>8 DEF Abort
  <2>2. LettersInv' /\ SafeEffect
    BY <1>1, <1>8, <2>1, AbortEffect DEF Abort
  <2>3. QED BY <1>1, <1>4, <1>8, <2>1, <2>2, CallStep DEF Abort, Revealed, Reply
<1>9. CASE Persist(r)
  <2>1. Known(t) /\ UNCHANGED <<create, stray>> /\ ~Revealed(r)
    BY <1>2, <1>9 DEF Persist
  <2>2. LettersInv' /\ SafeEffect
    BY <1>1, <1>9, <2>1, PersistEffect DEF Persist
  <2>3. QED BY <1>1, <1>5, <1>9, <2>1, <2>2, CallStep
            DEF Persist, Revealed, Commands, Writes
<1>10. CASE Del(r)
  <2>1. Known(t) /\ UNCHANGED <<create, stray>>
    BY <1>2, <1>10 DEF Del
  <2>2. LettersInv' /\ SafeEffect
    BY <1>1, <1>10, <2>1, DelEffect DEF Del
  <2>3. QED BY <1>1, <1>4, <1>10, <2>1, <2>2, CallStep DEF Del, Revealed, Reply
<1>11. CASE Decrypt(r) \/ NoticeExpiry(r)
  <2>1. /\ Known(t) /\ ~Revealed(r)
        /\ UNCHANGED <<create, stray, meta, payload, burner>>
    BY <1>2, <1>11 DEF Decrypt, NoticeExpiry
  <2>2. LettersInv' /\ SafeEffect
    BY <2>1, IdleEffect DEF Known
  <2>3. \E pc \in Commands : Goto(r, pc)
    BY <1>11 DEF Decrypt, NoticeExpiry, Commands, Writes
  <2>4. QED BY <1>1, <1>5, <2>1, <2>2, <2>3, CallStep DEF Revealed
<1>12. CASE AnswerStatus(r)
  <2>1. Known(t) /\ UNCHANGED <<create, stray, meta, payload, burner>>
    BY <1>2, <1>12 DEF AnswerStatus
  <2>2. LettersInv' /\ SafeEffect
    BY <2>1, IdleEffect DEF Known
  <2>3. req[r].seen.status \in Reply /\ req[r].seen.status # "content"
    BY <1>1 DEF Meta, Status, Reply
  <2>4. QED BY <1>1, <1>4, <1>12, <2>1, <2>2, <2>3, CallStep
            DEF AnswerStatus, Revealed
<1>13. CASE GetMetadata(r)
  <2>1. /\ Known(t) /\ ~Revealed(r)
        /\ UNCHANGED <<create, stray, meta, payload, burner>>
    BY <1>2, <1>13 DEF GetMetadata
  <2>2. LettersInv' /\ SafeEffect
    BY <2>1, IdleEffect DEF Known
  <2>3. /\ req'[r].tok = t /\ ~Revealed(r)'
        /\ \A q \in Requests : q # r => req'[q] = req[q]
    <3>1. CASE meta[t] = NoMeta
      BY <1>4, <1>13, <3>1 DEF GetMetadata, Revealed, Reply
    <3>2. CASE meta[t] # NoMeta
      BY <1>1, <1>13, <2>1, <3>2 DEF GetMetadata, Revealed, Request
    <3>3. QED BY <3>1, <3>2
  <2>4. QED BY <1>1, <2>1, <2>2, <2>3, CallStep
<1>14. CASE Resend(r)
  <2>1. /\ Known(t) /\ ~Revealed(r)
        /\ UNCHANGED <<create, meta, payload, burner>>
    BY <1>2, <1>14 DEF Resend, Commands, Writes
  <2>2. LettersInv' /\ SafeEffect
    BY <2>1, IdleEffect DEF Known
  <2>3. /\ req'[r].tok = t /\ ~Revealed(r)'
        /\ \A q \in Requests : q # r => req'[q] = req[q]
    BY <1>1, <1>14, <2>1 DEF Resend, Revealed, Request
  <2>4. \A s \in stray' : s \in stray \/ Known(s.tok)
    BY <1>14, LeftBehindKnown DEF Resend
  <2>5. QED BY <1>1, <2>1, <2>2, <2>3, <2>4, CallStep
<1>15. CASE Abandon(r)
  <2>1. Known(t) /\ UNCHANGED <<create, meta, payload, burner>>
    BY <1>2, <1>15 DEF Abandon, Running
  <2>2. LettersInv' /\ SafeEffect
    BY <2>1, IdleEffect DEF Known
  <2>3. /\ req'[r].tok = t /\ ~Revealed(r)'
        /\ \A q \in Requests : q # r => req'[q] = req[q]
    BY <1>4, <1>15 DEF Abandon, Revealed, Reply
  <2>4. \A s \in stray' : s \in stray \/ Known(s.tok)
    BY <1>15, LeftBehindKnown DEF Abandon
  <2>5. QED BY <1>1, <2>1, <2>2, <2>3, <2>4, CallStep
<1>16. QED
  BY <1>3, <1>6, <1>7, <1>8, <1>9, <1>10, <1>11, <1>12, <1>13, <1>14, <1>15
  DEF Step, BeginConsume, BeginStatus

LEMMA LetterStepOnce ==
  ASSUME TypeOK, LettersInv, CallsInv, NEW t \in Tokens, LetterStep(t)
  PROVE  LettersInv' /\ SafeEffect /\ CallsInv'
<1>1. /\ req' = req /\ stray' = stray /\ burner' = burner
      /\ \A u \in Tokens : Known(u) => Known(u)'
  BY DEF LetterStep, CreateBegin, CreateStored, CreateStoredUnanswered, Store,
         CreateFailed, EvictMeta, EvictPayload, Known, TypeOK, Creation
<1>2. CallsInv'
  BY <1>1 DEF CallsInv, Revealed, TypeOK, Request, Stray
<1>3. CASE CreateStored(t) \/ CreateStoredUnanswered(t)
  BY <1>1, <1>2, <1>3, StoreEffect
  DEF CreateStored, CreateStoredUnanswered, Known
<1>4. CASE CreateBegin(t) \/ CreateFailed(t)
  BY <1>1, <1>2, <1>4, IdleEffect DEF CreateBegin, CreateFailed
<1>5. CASE EvictMeta(t) \/ EvictPayload(t)
  BY <1>2, <1>5, EvictEffect
<1>6. QED BY <1>3, <1>4, <1>5 DEF LetterStep

LEMMA StrayOnce ==
  ASSUME TypeOK, LettersInv, CallsInv, NEW s \in stray, ExecuteStray(s)
  PROVE  LettersInv' /\ SafeEffect /\ CallsInv'
<1>1. /\ s.req \in Requests /\ s.tok \in Tokens /\ s.at \in Nat
      /\ s.seen \in Meta /\ Known(s.tok)
  BY DEF TypeOK, Stray, CallsInv
<1>2. UNCHANGED <<create, req>> /\ stray' \subseteq stray
  BY DEF ExecuteStray
<1>3. LettersInv' /\ SafeEffect
  BY <1>1, <1>2, ClaimEffect, FinalizeEffect, AbortEffect, PersistEffect,
     DelEffect DEF ExecuteStray
<1>4. ASSUME NEW q \in Requests, burner[req[q].tok] = q
      PROVE  burner'[req[q].tok] = q
  BY <1>3, <1>4, ConstantsAssumption DEF SafeEffect, TypeOK, Request
<1>5. CallsInv'
  BY <1>2, <1>4 DEF CallsInv, Known, Revealed
<1>6. QED BY <1>3, <1>5

LEMMA RestartOnce ==
  ASSUME TypeOK, LettersInv, CallsInv, NEW k \in Keys, Restart(k)
  PROVE  LettersInv' /\ SafeEffect /\ CallsInv'
<1>1. \A u \in Tokens : Known(u)' <=> Known(u)
  BY DEF Restart, Known, TypeOK, Creation
<1>2. LettersInv' /\ SafeEffect
  BY <1>1, IdleEffect DEF Restart
<1>3. \A s \in stray' : Known(s.tok) /\ s.tok \in Tokens
  <2>1. \A s \in stray' : Known(s.tok)
    BY LeftBehindKnown DEF Restart, CallsInv
  <2>2. stray' \subseteq Stray
    BY TypeOKSplit, RestartType DEF CallsOK
  <2>3. QED BY <2>1, <2>2 DEF Stray
<1>4. ASSUME NEW q \in Requests
      PROVE  /\ req'[q].tok = req[q].tok /\ req[q].tok \in Tokens
             /\ req'[q].pc = "idle" <=> req[q].pc = "idle"
             /\ Revealed(q)' => Revealed(q) /\ req'[q].pc = "done"
  <2>1. req[q] \in Request /\ (Revealed(q) => req[q].pc = "done")
    BY DEF TypeOK, CallsInv
  <2>2. CASE Running(q)
    <3>1. req'[q] = Ended(q, "error")
      BY <2>2 DEF Restart
    <3>2. QED BY <2>1, <2>2, <3>1 DEF Running, Ended, Revealed, Request
  <2>3. CASE ~Running(q)
    <3>1. req'[q] = req[q]
      BY <2>3 DEF Restart
    <3>2. QED BY <2>1, <3>1 DEF Revealed, Request
  <2>4. QED BY <2>2, <2>3
<1>5. CallsInv'
  <2>1. burner' = burner
    BY DEF Restart
  <2>2. QED BY <1>1, <1>3, <1>4, <2>1 DEF CallsInv, Revealed
<1>6. QED BY <1>2, <1>5

LEMMA NextOnce == OnceInv /\ [Next]_vars => OnceInv' /\ SafeEffect
<1> SUFFICES ASSUME OnceInv, [Next]_vars PROVE OnceInv' /\ SafeEffect
  OBVIOUS
<1>1. TypeOK /\ LettersInv /\ CallsInv
  BY OnceInvSplit
<1>2. TypeOK'
  BY <1>1, NextType
<1>3. LettersInv' /\ CallsInv' /\ SafeEffect
  <2>1. CASE UNCHANGED vars
    BY <1>1, <2>1, IdleEffect DEF vars, CallsInv, Known, Revealed
  <2>2. CASE Tick
    BY <1>1, <2>2, IdleEffect DEF Tick, CallsInv, Known, Revealed
  <2>3. CASE Next /\ ~Tick
    BY <1>1, <2>3, LetterStepOnce, StepOnce, StrayOnce, RestartOnce DEF Next
  <2>4. QED BY <2>1, <2>2, <2>3
<1>4. OnceInv'
  BY <1>2, <1>3 DEF OnceInv, IssuedInv, BurnInv, LettersInv, CallsInv
<1>5. QED BY <1>3, <1>4

LEMMA InitOnce == Init => OnceInv
<1> SUFFICES ASSUME Init PROVE OnceInv
  OBVIOUS
<1>1. TypeOK
  BY InitType
<1>2. IssuedInv /\ BurnInv
  BY ConstantsAssumption DEF Init, IssuedInv, BurnInv, NoMeta, Revealed
<1>3. QED BY <1>1, <1>2 DEF OnceInv

-----------------------------------------------------------------------------
\* The inductive invariant holds in every reachable state.
THEOREM OnceInvariant == Spec => []OnceInv
BY InitOnce, NextOnce, PTL DEF Spec

\* At most one ConsumeSecret call returns the content of a letter.
THEOREM RevealedOnce == Spec => []AtMostOneReveal
<1>1. OnceInv => AtMostOneReveal
  BY DEF OnceInv, BurnInv, AtMostOneReveal
<1>2. QED BY <1>1, OnceInvariant, PTL

\* A revealed letter is burned by its reader and its payload is erased.
THEOREM ErasedOnceBurned == Spec => []BurnedIsErased
<1>1. OnceInv => BurnedIsErased
  BY DEF OnceInv, BurnInv, BurnedIsErased
<1>2. QED BY <1>1, OnceInvariant, PTL

\* Consumed and expired letters never become openable again.
THEOREM SettledForGood == Spec => NoResurrection
<1>1. SafeEffect => \A t \in Tokens :
        meta[t].status \in {"consumed", "expired"} =>
          meta'[t].status \in {"consumed", "expired", "none"}
  BY DEF SafeEffect
<1>2. OnceInv /\ [Next]_vars =>
        [\A t \in Tokens :
           meta[t].status \in {"consumed", "expired"} =>
             meta'[t].status \in {"consumed", "expired", "none"}]_vars
  BY <1>1, NextOnce
<1>3. QED BY <1>2, OnceInvariant, PTL DEF Spec, NoResurrection

\* Only the holder of the current claim burns a letter, and only once.
THEOREM BurnedByHolder == Spec => OnlyHolderBurns
<1>1. OnceInv /\ [Next]_vars =>
        [\A t \in Tokens :
           burner'[t] # burner[t] =>
             /\ HeldBy(meta[t], burner'[t])
             /\ burner[t] = NoRequest]_vars
  BY NextOnce DEF SafeEffect
<1>2. QED BY <1>1, OnceInvariant, PTL DEF Spec, OnlyHolderBurns
=============================================================================
