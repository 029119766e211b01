--------------------------- MODULE RevealSession ---------------------------
(***************************************************************************)
(* secret/reveal_session.go: short-lived records that tie a reveal to a    *)
(* letter.  A record outlives its own expiry when it was stored some time  *)
(* after the clock was read, and is deleted when it is then presented.     *)
(***************************************************************************)
EXTENDS Naturals

CONSTANTS SessionIds, NoSession,
          SessionTTL   \* revealSessionTTL

ASSUME SessionAssumption == NoSession \notin SessionIds /\ SessionTTL \in Nat \ {0}

VARIABLE sessions   \* sessions[s]: the record, or NoRecord

NoRecord == [letter |-> "none", expiresAt |-> 0, until |-> 0]

SessionInit == sessions = [s \in SessionIds |-> NoRecord]

\* Mutant: the record's expiry and the TTL of its key are swapped.
StoreSessionSwapped(s, letter, at, now) ==
  sessions' = [sessions EXCEPT ![s] =
    [letter |-> letter, expiresAt |-> now + SessionTTL, until |-> at + SessionTTL]]

\* Stored at now for a letter whose status was read at `at'.
StoreSession(s, letter, at, now) ==
  sessions' = [sessions EXCEPT ![s] =
    [letter |-> letter, expiresAt |-> at + SessionTTL, until |-> now + SessionTTL]]

\* Mutant: any session will do.
SessionVerdictOfAny(s, letter, now) ==
  CASE sessions[s] = NoRecord -> "not_found"
    [] sessions[s] # NoRecord /\ sessions[s].expiresAt <= now -> "expired"
    [] OTHER -> "valid"

SessionVerdict(s, letter, now) ==
  LET record == sessions[s]
  IN  CASE record = NoRecord -> "not_found"
        [] record # NoRecord /\ record.letter # letter -> "invalid"
        [] record # NoRecord /\ record.letter = letter /\ record.expiresAt <= now -> "expired"
        [] OTHER -> "valid"

\* ValidateRevealSession: the deletion of an expired record may fail.
ValidateSession(s, letter, now) ==
  IF SessionVerdict(s, letter, now) = "expired"
  THEN sessions' \in {sessions, [sessions EXCEPT ![s] = NoRecord]}
  ELSE UNCHANGED sessions

\* Records whose TTL ends are gone.
SessionTick(now) ==
  sessions' = [s \in SessionIds |-> IF sessions[s].until <= now THEN NoRecord ELSE sessions[s]]
=============================================================================
