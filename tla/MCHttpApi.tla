----------------------------- MODULE MCHttpApi -----------------------------
(***************************************************************************)
(* The API on a small instance: three requests for sessions and opens of   *)
(* two letters, two executions per window of two seconds.  A status check  *)
(* is the first step of a request for a session.                           *)
(***************************************************************************)
EXTENDS HttpApi, TLC

MCEndpoints == {"reveal_session", "consume_secret"}
Symmetry == Permutations(Requests) \cup Permutations(Letters)
=============================================================================
