---------------------------- MODULE RateLimiter ----------------------------
(***************************************************************************)
(* ratelimit/limiter.go: a fixed window per key, kept by one Lua script.   *)
(* A key stands for an endpoint and a client address; keys share nothing.  *)
(***************************************************************************)
EXTENDS Naturals

CONSTANTS Requests,   \* the requests it counts
          Endpoints,  \* keys of the limiter
          Limit,      \* requests per window
          Window      \* length of a window

ASSUME LimiterAssumption == Limit \in Nat \ {0} /\ Window \in Nat \ {0}

VARIABLES clock,    \* of Redis and the process alike
          counter,  \* counter[e]: the Redis key, its value and when its TTL ends
          hits      \* history: recent executions that said yes, see Hit

NoCounter == [count |-> 0, until |-> 0]

LimiterInit ==
  /\ counter = [e \in Endpoints |-> NoCounter]
  /\ hits = [e \in Endpoints |-> {}]

\* Mutant: the window in seconds is passed as milliseconds: it ends at once.
CountedBriefly(c) ==
  [count |-> c.count + 1, until |-> IF c.count = 0 THEN clock + 1 ELSE c.until]

\* Mutant: every request pushes the end of the window.
CountedSliding(c) == [count |-> c.count + 1, until |-> clock + Window]

\* INCR, and a TTL for a counter that is new or has none.
Counted(c) ==
  [count |-> c.count + 1,
   until |-> IF c.count = 0 \/ c.until = 0 THEN clock + Window ELSE c.until]

Allowed(c) == c.count < Limit   \* c before it is incremented

\* What is remembered of an execution that made c of its counter: when it was,
\* which one of its window, when that window ends, and for which sending of
\* which request.
Hit(c, r, try) ==
  [at |-> clock, nth |-> c.count, ends |-> c.until, request |-> r, try |-> try]

\* One execution of the script, for a request that was sent `try' times before.
AllowScript(e, r, try) ==
  /\ counter' = [counter EXCEPT ![e] = Counted(@)]
  /\ hits' = IF Allowed(counter[e])
             THEN [hits EXCEPT ![e] = @ \cup {Hit(Counted(counter[e]), r, try)}]
             ELSE hits

\* Time: counters whose TTL ends are gone, and the history forgets what is older
\* than a window.
LimiterTick ==
  /\ counter' = [e \in Endpoints |-> IF counter[e].until <= clock + 1 THEN NoCounter ELSE counter[e]]
  /\ hits' = [e \in Endpoints |-> {h \in hits[e] : h.at + Window > clock + 1}]

-----------------------------------------------------------------------------
\* The requests that were counted within the last window's length.
Asked(e) == {h.request : h \in hits[e]}

LimiterTypeOK ==
  /\ clock \in Nat
  /\ \A e \in Endpoints :
       /\ counter[e] \in [count : Nat, until : {0} \cup (clock + 1)..(clock + Window)]
       /\ hits[e] \subseteq [at : 0..clock, nth : 1..Limit, ends : Nat,
                             request : Requests, try : Nat]
=============================================================================
