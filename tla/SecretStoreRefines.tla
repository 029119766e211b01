------------------------ MODULE SecretStoreRefines -------------------------
(***************************************************************************)
(* SecretStore implements OneTimeSecret, for every instance: a known       *)
(* letter never becomes openable again (KeepsSealed), so every step of the *)
(* store seals a letter, hands it to one reader, destroys it, or leaves    *)
(* the abstract letters alone.                                             *)
(***************************************************************************)
EXTENDS SecretStoreProofs

\* What the abstract letter is called while it can be opened.
Sealed(t) ==
  Known(t) /\ payload[t] # NoPayload /\ meta[t].status \in {"active", "opening"}

\* A step makes no known letter openable, and forgets no known letter.
KeepsSealed ==
  \A t \in Tokens :
    Known(t) => /\ Known(t)'
                /\ Sealed(t)' => Sealed(t)

\* A step leaves the abstract letters other than t as they are.
Frame(t) ==
  \A u \in Tokens :
    u # t => /\ Known(u)' <=> Known(u)
             /\ Sealed(u)' <=> Sealed(u)

\* A step gives the content of no letter to anyone.
ReadersSame ==
  \A q \in Requests : /\ Revealed(q)' <=> Revealed(q)
                      /\ Revealed(q) => req'[q].tok = req[q].tok

LEMMA ClaimKeeps ==
  ASSUME TypeOK, NEW t \in Tokens, NEW r \in Requests, NEW now \in Nat,
         ClaimScript(t, r, now), UNCHANGED create
  PROVE  KeepsSealed /\ Frame(t)
<1>1. /\ Claimed(meta[t], r, now).status = "opening"
      /\ Settle(meta[t], "expired").status = "expired"
  BY ClaimedType, SettleType DEF TypeOK, Status
<1>2. ClaimVerdict(t, now) = "ok" => /\ meta[t].status \in {"active", "opening"}
                                     /\ payload[t] # NoPayload
  BY DEF ClaimVerdict, Settled, TypeOK, Meta, Status
<1>3. QED BY <1>1, <1>2 DEF ClaimScript, KeepsSealed, Frame, Sealed, Known, TypeOK

LEMMA FinalizeKeeps ==
  ASSUME TypeOK, NEW t \in Tokens, NEW r \in Requests,
         FinalizeScript(t, r), UNCHANGED create
  PROVE  KeepsSealed /\ Frame(t)
<1>1. /\ Settle(meta[t], "consumed").status = "consumed"
      /\ Settle(meta[t], "expired").status = "expired"
  BY SettleType DEF TypeOK, Status
<1>2. QED BY <1>1 DEF FinalizeScript, KeepsSealed, Frame, Sealed, Known, TypeOK

LEMMA AbortKeeps ==
  ASSUME TypeOK, NEW t \in Tokens, NEW r \in Requests, NEW now \in Nat,
         AbortScript(t, r, now), UNCHANGED create
  PROVE  KeepsSealed /\ Frame(t)
<1>1. Settle(meta[t], "expired").status = "expired"
  BY SettleType DEF TypeOK, Status
<1>2. QED BY <1>1 DEF AbortScript, KeepsSealed, Frame, Sealed, Known, TypeOK, HeldBy

LEMMA PersistKeeps ==
  ASSUME TypeOK, NEW t \in Tokens, NEW m \in Meta,
         PersistExpired(t, m), UNCHANGED create
  PROVE  KeepsSealed /\ Frame(t)
<1>1. Settle(m, "expired").status = "expired"
  BY SettleType DEF TypeOK, Status
<1>2. QED BY <1>1 DEF PersistExpired, KeepsSealed, Frame, Sealed, Known, TypeOK

LEMMA DelKeeps ==
  ASSUME TypeOK, NEW t \in Tokens, DelPayload(t), UNCHANGED create
  PROVE  KeepsSealed /\ Frame(t)
BY DEF DelPayload, KeepsSealed, Frame, Sealed, Known, TypeOK

LEMMA IdleKeeps ==
  ASSUME UNCHANGED <<meta, payload, create>>
  PROVE  KeepsSealed /\ \A t \in Tokens : Frame(t)
BY DEF KeepsSealed, Frame, Sealed, Known

-----------------------------------------------------------------------------
(* From the effect of a step to a step of the abstract letters.            *)

AbstractStep == [Abstract!Next]_(Abstract!vars)

LEMMA SameReaders ==
  ASSUME TypeOK, TypeOK', ReadersSame
  PROVE  readersBar' = readersBar
<1>1. \A u \in Tokens :
        {r \in Requests : Revealed(r) /\ req[r].tok = u}' =
        {r \in Requests : Revealed(r) /\ req[r].tok = u}
  BY DEF ReadersSame, Revealed
<1>2. QED BY <1>1 DEF readersBar

LEMMA SameStage ==
  ASSUME \A u \in Tokens : /\ Known(u)' <=> Known(u)
                           /\ Sealed(u)' <=> Sealed(u)
  PROVE  stageBar' = stageBar
BY DEF stageBar, Sealed

\* The letter of the step lost its seal, and no other letter changed.
LEMMA LostSeal ==
  ASSUME NEW t \in Tokens, Frame(t), Sealed(t), Known(t)', ~Sealed(t)'
  PROVE  /\ stageBar[t] = "sealed"
         /\ stageBar' = [stageBar EXCEPT ![t] = "gone"]
<1>1. stageBar[t] = "sealed"
  BY DEF stageBar, Sealed
<1>2. stageBar'[t] = "gone"
  BY DEF stageBar, Sealed
<1>3. ASSUME NEW u \in Tokens, u # t PROVE stageBar'[u] = stageBar[u]
  BY <1>3 DEF stageBar, Sealed, Frame
<1>4. QED BY <1>1, <1>2, <1>3 DEF stageBar

\* A step on one known letter that gives the content to nobody.
LEMMA QuietStep ==
  ASSUME TypeOK, TypeOK', NEW t \in Tokens, Known(t), KeepsSealed, Frame(t),
         ReadersSame
  PROVE  AbstractStep
<1>1. readersBar' = readersBar
  BY SameReaders
<1>2. Known(t)' /\ (Sealed(t)' => Sealed(t))
  BY DEF KeepsSealed
<1>3. CASE Sealed(t)' <=> Sealed(t)
  <2>1. stageBar' = stageBar
    BY <1>2, <1>3, SameStage DEF Frame
  <2>2. QED BY <1>1, <2>1 DEF AbstractStep, Abstract!vars
<1>4. CASE Sealed(t) /\ ~Sealed(t)'
  <2>1. Abstract!Destroy(t)
    BY <1>1, <1>2, <1>4, LostSeal DEF Abstract!Destroy
  <2>2. QED BY <2>1 DEF AbstractStep, Abstract!Next
<1>5. QED BY <1>2, <1>3, <1>4

\* A step that gives the content of the letter it burns to call r.
LEMMA ReadStep ==
  ASSUME TypeOK, TypeOK', NEW t \in Tokens, NEW r \in Requests, Frame(t),
         Sealed(t), Known(t)', ~Sealed(t)',
         ~Revealed(r), Revealed(r)', req'[r].tok = t,
         \A q \in Requests : q # r => req'[q] = req[q]
  PROVE  AbstractStep
<1>1. ASSUME NEW u \in Tokens
      PROVE  {q \in Requests : Revealed(q) /\ req[q].tok = u}' =
             IF u = t THEN {q \in Requests : Revealed(q) /\ req[q].tok = u} \cup {r}
             ELSE {q \in Requests : Revealed(q) /\ req[q].tok = u}
  BY DEF Revealed
<1>2. readersBar' = [readersBar EXCEPT ![t] = @ \cup {r}]
  <2>1. ASSUME NEW u \in Tokens
        PROVE  readersBar'[u] = IF u = t THEN readersBar[u] \cup {r}
                                ELSE readersBar[u]
    BY <1>1 DEF readersBar
  <2>2. /\ readersBar = [u \in Tokens |-> readersBar[u]]
        /\ readersBar' = [u \in Tokens |-> readersBar'[u]]
    BY DEF readersBar
  <2>3. QED BY <2>1, <2>2
<1>3. Abstract!Read(t, r)
  BY <1>2, LostSeal DEF Abstract!Read
<1>4. QED BY <1>3 DEF AbstractStep, Abstract!Next

-----------------------------------------------------------------------------
(* Every step of the store is a step of the abstract letters or none.      *)

LEMMA CallRefines ==
  ASSUME OnceInv, TypeOK', NEW r \in Requests, Step(r)
  PROVE  AbstractStep
<1> DEFINE t == req[r].tok
<1>1. /\ TypeOK /\ t \in Tokens /\ req[r].at \in Nat /\ req[r].seen \in Meta
      /\ req[r] \in Request /\ req \in [Requests -> Request]
  BY RequestTypes, TypeOKSplit DEF TypeOK, OnceInv
<1>2. ~Revealed(r) /\ (req[r].pc # "idle" => Known(t))
  BY DEF OnceInv, BurnInv, IssuedInv, Step, BeginConsume, BeginStatus, Begin,
         Claim, Decrypt, Finalize, Abort, GetMetadata, AnswerStatus,
         NoticeExpiry, Persist, Del, Resend, Commands, Writes, Abandon, Running
<1>3. ASSUME \A q \in Requests : q # r => req'[q] = req[q], ~Revealed(r)'
      PROVE  ReadersSame
  BY <1>2, <1>3 DEF ReadersSame, Revealed
<1>4. ASSUME NEW reply \in Reply, Answer(r, reply)
      PROVE  /\ req'[r].tok = t /\ req'[r].reply = reply
             /\ \A q \in Requests : q # r => req'[q] = req[q]
  BY <1>1, <1>4 DEF Answer, Ended, Request
<1>5. ASSUME NEW pc \in Commands, Goto(r, pc)
      PROVE  /\ req'[r].reply = req[r].reply
             /\ \A q \in Requests : q # r => req'[q] = req[q]
  BY <1>1, <1>5 DEF Goto, Request
<1>6. ASSUME UNCHANGED <<meta, payload, create>>, ReadersSame
      PROVE  AbstractStep
  BY <1>1, <1>6, SameReaders, SameStage DEF AbstractStep, Abstract!vars, Sealed, Known
<1>7. ASSUME NEW u \in Tokens, NEW op \in {"consume", "status"},
             NEW pc \in {"claim", "get"}, Begin(r, u, op, pc)
      PROVE  AbstractStep
  <2>1. ReadersSame
    BY <1>1, <1>2, <1>3, <1>7 DEF Begin, Revealed, Request
  <2>2. QED BY <1>6, <1>7, <2>1 DEF Begin
<1>8. CASE Claim(r)
  <2>1. KeepsSealed /\ Frame(t) /\ Known(t)
    BY <1>1, <1>2, <1>8, ClaimKeeps DEF Claim
  <2>2. ReadersSame
    <3>1. CASE ClaimVerdict(t, req[r].at) = "ok"
      BY <1>1, <1>2, <1>3, <1>8, <3>1 DEF Claim, Revealed, Request
    <3>2. CASE ClaimVerdict(t, req[r].at) # "ok"
      <4>1. ClaimVerdict(t, req[r].at) \in {"consumed", "expired", "not_found"}
        BY <1>1, <3>2, VerdictTypes
      <4>2. QED BY <1>3, <1>4, <1>8, <3>2, <4>1 DEF Claim, Revealed, Reply
    <3>3. QED BY <3>1, <3>2
  <2>3. QED BY <1>1, <2>1, <2>2, QuietStep
<1>9. CASE Finalize(r)
  <2>1. KeepsSealed /\ Frame(t) /\ Known(t) /\ FinalizeScript(t, r)
    BY <1>1, <1>2, <1>9, FinalizeKeeps DEF Finalize
  <2>2. DEFINE reply == IF FinalizeVerdict(t, r) = "ok" THEN "content"
                        ELSE IF FinalizeVerdict(t, r) = "conflict" THEN "error"
                        ELSE FinalizeVerdict(t, r)
  <2>3. /\ reply \in Reply
        /\ reply = "content" => FinalizeVerdict(t, r) = "ok"
    BY <1>1, VerdictTypes DEF Reply
  <2>4. Answer(r, reply)
    BY <1>9 DEF Finalize
  <2>5. /\ req'[r].tok = t /\ req'[r].reply = reply
        /\ \A q \in Requests : q # r => req'[q] = req[q]
    BY <1>4, <2>3, <2>4
  <2>6. CASE FinalizeVerdict(t, r) # "ok"
    <3>1. ReadersSame
      BY <1>3, <2>3, <2>5, <2>6 DEF Revealed
    <3>2. QED BY <1>1, <2>1, <3>1, QuietStep
  <2>7. CASE FinalizeVerdict(t, r) = "ok"
    <3>1. Sealed(t)
      BY <2>1, <2>7 DEF FinalizeVerdict, Settled, HeldBy, Sealed
    <3>2. ~Sealed(t)' /\ Known(t)'
      <4>1. payload'[t] = NoPayload
        BY <1>1, <2>1, <2>7 DEF FinalizeScript, TypeOK
      <4>2. QED BY <1>1, <2>1, <2>5, <4>1 DEF Sealed, KeepsSealed, Known
    <3>3. Revealed(r)'
      BY <2>5, <2>7 DEF Revealed
    <3>4. QED BY <1>1, <1>2, <2>1, <2>5, <3>1, <3>2, <3>3, ReadStep
  <2>8. QED BY <2>6, <2>7
<1>10. CASE Abort(r)
  <2>1. KeepsSealed /\ Frame(t) /\ Known(t)
    BY <1>1, <1>2, <1>10, AbortKeeps DEF Abort
  <2>2. ReadersSame
    BY <1>3, <1>4, <1>10 DEF Abort, Revealed, Reply
  <2>3. QED BY <1>1, <2>1, <2>2, QuietStep
<1>11. CASE Persist(r)
  <2>1. KeepsSealed /\ Frame(t) /\ Known(t)
    BY <1>1, <1>2, <1>11, PersistKeeps DEF Persist
  <2>2. ReadersSame
    BY <1>2, <1>3, <1>5, <1>11 DEF Persist, Revealed, Commands, Writes
  <2>3. QED BY <1>1, <2>1, <2>2, QuietStep
<1>12. CASE Del(r)
  <2>1. KeepsSealed /\ Frame(t) /\ Known(t)
    BY <1>1, <1>2, <1>12, DelKeeps DEF Del
  <2>2. ReadersSame
    BY <1>3, <1>4, <1>12 DEF Del, Revealed, Reply
  <2>3. QED BY <1>1, <2>1, <2>2, QuietStep
<1>13. CASE Decrypt(r) \/ NoticeExpiry(r)
  <2>1. ReadersSame
    BY <1>2, <1>3, <1>5, <1>13
    DEF Decrypt, NoticeExpiry, Revealed, Commands, Writes
  <2>2. QED BY <1>6, <1>13, <2>1 DEF Decrypt, NoticeExpiry
<1>14. CASE AnswerStatus(r)
  <2>1. req[r].seen.status \in Reply /\ req[r].seen.status # "content"
    BY <1>1 DEF Meta, Status, Reply
  <2>2. ReadersSame
    BY <1>3, <1>4, <1>14, <2>1 DEF AnswerStatus, Revealed
  <2>3. QED BY <1>6, <1>14, <2>2 DEF AnswerStatus
<1>15. CASE GetMetadata(r)
  <2>1. ReadersSame
    <3>1. CASE meta[t] = NoMeta
      BY <1>3, <1>4, <1>15, <3>1 DEF GetMetadata, Revealed, Reply
    <3>2. CASE meta[t] # NoMeta
      BY <1>1, <1>2, <1>3, <1>15, <3>2 DEF GetMetadata, Revealed, Request
    <3>3. QED BY <3>1, <3>2
  <2>2. QED BY <1>6, <1>15, <2>1 DEF GetMetadata
<1>16. CASE Resend(r)
  <2>1. ReadersSame
    BY <1>1, <1>2, <1>3, <1>16 DEF Resend, Revealed, Request
  <2>2. QED BY <1>6, <1>16, <2>1 DEF Resend
<1>17. CASE Abandon(r)
  <2>1. ReadersSame
    BY <1>3, <1>4, <1>17 DEF Abandon, Revealed, Reply
  <2>2. QED BY <1>6, <1>17, <2>1 DEF Abandon
<1>18. QED
  BY <1>7, <1>8, <1>9, <1>10, <1>11, <1>12, <1>13, <1>14, <1>15, <1>16, <1>17
  DEF Step, BeginConsume, BeginStatus

LEMMA LetterRefines ==
  ASSUME OnceInv, TypeOK', NEW t \in Tokens, LetterStep(t)
  PROVE  AbstractStep
<1>1. TypeOK /\ ReadersSame
  BY DEF OnceInv, ReadersSame, Revealed, LetterStep, CreateBegin, CreateStored,
         CreateStoredUnanswered, Store, CreateFailed, EvictMeta, EvictPayload
<1>2. readersBar' = readersBar
  BY <1>1, SameReaders
<1>3. CASE CreateStored(t)
  <2>1. stageBar[t] = "unborn"
    BY <1>3 DEF CreateStored, stageBar, Known
  <2>2. payload'[t] # NoPayload
    <3>1. create[t].sealedWith \in Keys \cup {NoKey}
      BY <1>1 DEF TypeOK, Creation
    <3>2. payload'[t].evictAt = clock + TTL
      BY <1>1, <1>3 DEF CreateStored, Store, TypeOK
    <3>3. clock \in Nat /\ TTL \in Nat \ {0}
      BY <1>1, ConstantsAssumption DEF TypeOK
    <3>4. clock + TTL # 0
      BY <3>3
    <3>5. QED BY <3>2, <3>4 DEF NoPayload
  <2>3. stageBar'[t] = "sealed"
    BY <1>1, <1>3, <2>2 DEF CreateStored, Store, stageBar, Known, TypeOK, Creation
  <2>4. ASSUME NEW u \in Tokens, u # t PROVE stageBar'[u] = stageBar[u]
    BY <1>1, <1>3, <2>4 DEF CreateStored, Store, stageBar, Known, TypeOK
  <2>5. stageBar' = [stageBar EXCEPT ![t] = "sealed"]
    BY <2>3, <2>4 DEF stageBar
  <2>6. Abstract!Seal(t)
    BY <1>2, <2>1, <2>5 DEF Abstract!Seal
  <2>7. QED BY <2>6 DEF AbstractStep, Abstract!Next
<1>4. CASE CreateBegin(t) \/ CreateStoredUnanswered(t) \/ CreateFailed(t)
  <2>1. \A u \in Tokens : /\ Known(u)' <=> Known(u)
                          /\ Sealed(u)' <=> Sealed(u)
    BY <1>1, <1>4 DEF CreateBegin, CreateStoredUnanswered, CreateFailed, Store,
                     Known, Sealed, TypeOK, Creation
  <2>2. QED BY <1>2, <2>1, SameStage DEF AbstractStep, Abstract!vars
<1>5. CASE EvictMeta(t) \/ EvictPayload(t)
  <2>1. \A u \in Tokens : Known(u)' <=> Known(u)
    BY <1>5 DEF EvictMeta, EvictPayload, Known
  <2>2. \A u \in Tokens : u # t => (Sealed(u)' <=> Sealed(u))
    BY <1>1, <1>5, <2>1 DEF EvictMeta, EvictPayload, Sealed, TypeOK
  <2>3. ~Sealed(t)'
    BY <1>1, <1>5 DEF EvictMeta, EvictPayload, Sealed, TypeOK, NoMeta
  <2>4. CASE Known(t)
    BY <1>1, <2>1, <2>2, <2>3, <2>4, QuietStep DEF Frame, KeepsSealed
  <2>5. CASE ~Known(t)
    BY <1>2, <2>1, <2>2, <2>3, <2>5, SameStage
    DEF AbstractStep, Abstract!vars, Sealed
  <2>6. QED BY <2>4, <2>5
<1>6. QED BY <1>3, <1>4, <1>5 DEF LetterStep

LEMMA StrayRefines ==
  ASSUME OnceInv, TypeOK', NEW s \in stray, ExecuteStray(s)
  PROVE  AbstractStep
<1>1. /\ TypeOK /\ s.req \in Requests /\ s.tok \in Tokens /\ s.at \in Nat
      /\ s.seen \in Meta /\ Known(s.tok)
  BY DEF OnceInv, TypeOK, Stray, IssuedInv
<1>2. UNCHANGED <<create, req>>
  BY DEF ExecuteStray
<1>3. KeepsSealed /\ Frame(s.tok)
  BY <1>1, <1>2, ClaimKeeps, FinalizeKeeps, AbortKeeps, PersistKeeps, DelKeeps
  DEF ExecuteStray
<1>4. ReadersSame
  BY <1>2 DEF ReadersSame, Revealed
<1>5. QED BY <1>1, <1>3, <1>4, QuietStep

LEMMA RestartRefines ==
  ASSUME OnceInv, TypeOK', NEW k \in Keys, Restart(k)
  PROVE  AbstractStep
<1>1. TypeOK
  BY DEF OnceInv
<1>2. ReadersSame
  <2>1. ASSUME NEW q \in Requests
        PROVE  /\ Revealed(q)' <=> Revealed(q)
               /\ Revealed(q) => req'[q].tok = req[q].tok
    <3>1. req[q] \in Request /\ (Revealed(q) => req[q].pc = "done")
      BY <1>1 DEF OnceInv, TypeOK, BurnInv
    <3>2. CASE Running(q)
      <4>1. req'[q] = Ended(q, "error") /\ ~Revealed(q)
        BY <3>1, <3>2 DEF Restart, Running
      <4>2. QED BY <3>1, <4>1 DEF Ended, Revealed, Request
    <3>3. CASE ~Running(q)
      <4>1. req'[q] = req[q]
        BY <3>3 DEF Restart
      <4>2. QED BY <4>1 DEF Revealed
    <3>4. QED BY <3>2, <3>3
  <2>2. QED BY <2>1 DEF ReadersSame
<1>3. \A u \in Tokens : /\ Known(u)' <=> Known(u)
                        /\ Sealed(u)' <=> Sealed(u)
  BY <1>1 DEF Restart, Known, Sealed, TypeOK, Creation
<1>4. QED BY <1>1, <1>2, <1>3, SameReaders, SameStage
          DEF AbstractStep, Abstract!vars

LEMMA StepRefines == OnceInv /\ OnceInv' /\ [Next]_vars => AbstractStep
<1> SUFFICES ASSUME OnceInv, OnceInv', [Next]_vars PROVE AbstractStep
  OBVIOUS
<1>1. TypeOK /\ TypeOK'
  BY DEF OnceInv
<1>2. CASE UNCHANGED vars \/ Tick
  <2>1. UNCHANGED <<meta, payload, create, req>>
    BY <1>2 DEF vars, Tick
  <2>2. ReadersSame
    BY <2>1 DEF ReadersSame, Revealed
  <2>3. QED BY <1>1, <2>1, <2>2, SameReaders, SameStage
            DEF AbstractStep, Abstract!vars, Sealed, Known
<1>3. CASE Next /\ ~Tick
  BY <1>1, <1>3, CallRefines, LetterRefines, StrayRefines, RestartRefines DEF Next
<1>4. QED BY <1>2, <1>3

LEMMA InitRefines == Init => Abstract!Init
<1> SUFFICES ASSUME Init PROVE Abstract!Init
  OBVIOUS
<1>1. stageBar = [t \in Tokens |-> "unborn"]
  BY DEF Init, stageBar, Known
<1>2. readersBar = [t \in Tokens |-> {}]
  <2>1. ASSUME NEW t \in Tokens
        PROVE {r \in Requests : Revealed(r) /\ req[r].tok = t} = {}
    BY DEF Init, Revealed
  <2>2. QED BY <2>1 DEF readersBar
<1>3. QED BY <1>1, <1>2 DEF Abstract!Init

\* The Redis-backed store, with its claims, scripts, timeouts, resends, late
\* commands and restarts, implements the letter that is read at most once.
THEOREM StoreImplementsOneTimeSecret == Spec => ImplementsOneTimeSecret
<1>1. Init => Abstract!Init
  BY InitRefines
<1>2. OnceInv /\ OnceInv' /\ [Next]_vars => [Abstract!Next]_(Abstract!vars)
  BY StepRefines DEF AbstractStep
<1>3. QED
  BY <1>1, <1>2, OnceInvariant, PTL DEF Spec, ImplementsOneTimeSecret, Abstract!Spec

\* What the store implements is worth having: however its letters are sealed,
\* read and destroyed, none is read twice.
THEOREM OneReaderPromised == Abstract!Spec => []Abstract!AtMostOneReader
<1> DEFINE Inv == /\ Abstract!TypeOK
                  /\ Abstract!UnreadWhileSealed
                  /\ Abstract!AtMostOneReader
<1>1. Abstract!Init => Inv
  BY DEF Abstract!Init, Abstract!TypeOK, Abstract!UnreadWhileSealed,
         Abstract!AtMostOneReader
<1>2. Inv /\ [Abstract!Next]_(Abstract!vars) => Inv'
  <2> SUFFICES ASSUME Inv, [Abstract!Next]_(Abstract!vars) PROVE Inv'
    OBVIOUS
  <2>1. CASE UNCHANGED Abstract!vars
    BY <2>1 DEF Abstract!vars, Abstract!TypeOK, Abstract!UnreadWhileSealed,
                Abstract!AtMostOneReader
  <2>2. ASSUME NEW t \in Tokens, Abstract!Seal(t) \/ Abstract!Destroy(t)
        PROVE  Inv'
    BY <2>2 DEF Abstract!Seal, Abstract!Destroy, Abstract!TypeOK,
                Abstract!UnreadWhileSealed, Abstract!AtMostOneReader
  <2>3. ASSUME NEW t \in Tokens, NEW r \in Requests, Abstract!Read(t, r)
        PROVE  Inv'
    BY <2>3 DEF Abstract!Read, Abstract!TypeOK,
                Abstract!UnreadWhileSealed, Abstract!AtMostOneReader
  <2>4. QED BY <2>1, <2>2, <2>3 DEF Abstract!Next
<1>3. QED BY <1>1, <1>2, PTL DEF Abstract!Spec
=============================================================================
