--------------------------- MODULE OneTimeSecret ---------------------------
(***************************************************************************)
(* What the letter store promises, without Redis, claims, clocks or        *)
(* retries: a letter is sealed once, and then either one request reads it  *)
(* or it is destroyed unread; nothing ever seals it again.                 *)
(***************************************************************************)
CONSTANTS Tokens,    \* the tokens letters are stored under
          Requests   \* the open requests made over the life of the system

VARIABLES stage,     \* stage[t]: "unborn", "sealed" or "gone"
          readers    \* readers[t]: the requests that were given the content

vars == <<stage, readers>>

Init ==
  /\ stage = [t \in Tokens |-> "unborn"]
  /\ readers = [t \in Tokens |-> {}]

Seal(t) ==
  /\ stage[t] = "unborn"
  /\ stage' = [stage EXCEPT ![t] = "sealed"]
  /\ UNCHANGED readers

Read(t, r) ==
  /\ stage[t] = "sealed"
  /\ stage' = [stage EXCEPT ![t] = "gone"]
  /\ readers' = [readers EXCEPT ![t] = @ \cup {r}]

\* Expiry, and a burn whose answer never reached the reader.
Destroy(t) ==
  /\ stage[t] = "sealed"
  /\ stage' = [stage EXCEPT ![t] = "gone"]
  /\ UNCHANGED readers

Next ==
  \E t \in Tokens :
    \/ Seal(t)
    \/ \E r \in Requests : Read(t, r)
    \/ Destroy(t)

Spec == Init /\ [][Next]_vars

-----------------------------------------------------------------------------
TypeOK ==
  /\ stage \in [Tokens -> {"unborn", "sealed", "gone"}]
  /\ readers \in [Tokens -> SUBSET Requests]

\* A letter that is not gone has been read by nobody: what makes the bound
\* on readers inductive.
UnreadWhileSealed == \A t \in Tokens : stage[t] # "gone" => readers[t] = {}

\* A letter has at most one reader.
AtMostOneReader ==
  \A t \in Tokens : \A r1, r2 \in readers[t] : r1 = r2
=============================================================================
