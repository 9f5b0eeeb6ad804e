----------------------------- MODULE RateLimiter -----------------------------
(***************************************************************************)
(* The token bucket of server/rate_limiter.py in front of every request of *)
(* server/meraki_client.py.                                                *)
(*                                                                         *)
(* Time is in ticks, Token of them to a token; since is a distance, capped *)
(* where more changes nothing.  The asyncio lock is fair: waiters is its   *)
(* queue, whose head holds it, awake or asleep for nap more ticks.         *)
(***************************************************************************)
EXTENDS Integers, SequencesExt

CONSTANTS Capacity, Token

ASSUME LimiterAssumption == Capacity \in Nat \ {0} /\ Token \in Nat \ {0}

VARIABLES tokens,   (* in ticks: Token of them make a token                   *)
          since,    (* ticks since the last refill                            *)
          waiters,  (* calls in acquire, in order                             *)
          nap,      (* ticks that the holder of the lock still sleeps         *)
          excess    (* a history: the most that any time until now had of     *)
                    (* requests, counted Token each, over its ticks           *)

limiterVars == <<tokens, since, waiters, nap, excess>>

Full == Capacity * Token
Cap(n) == IF n < Full THEN n ELSE Full

LimiterInit == tokens = Full /\ since = 0 /\ waiters = <<>> /\ nap = 0 /\ excess = 0

\* A slip: the time of the last refill is kept, and what passed counts again.
RefillTwice(t) == tokens' = t /\ since' = since

Refill(t) == tokens' = t /\ since' = 0

\* The holder of the lock runs its loop: a token, or a nap until there is one.
Take(c) ==
    LET have == Cap(tokens + since)
    IN /\ waiters # <<>> /\ Head(waiters) = c /\ nap = 0
       /\ have >= Token
       /\ Refill(have - Token)
       /\ waiters' = Tail(waiters)
       /\ excess' = excess + Token
       /\ UNCHANGED nap

Doze ==
    LET have == Cap(tokens + since)
    IN /\ waiters # <<>> /\ nap = 0
       /\ have < Token
       /\ Refill(have)
       /\ nap' = Token - have
       /\ UNCHANGED <<waiters, excess>>

\* Time passes while the holder of the lock has nothing to run.
Tick ==
    /\ waiters = <<>> \/ nap > 0
    /\ since' = Cap(since + 1)
    /\ nap' = IF nap > 0 THEN nap - 1 ELSE 0
    /\ excess' = IF excess > 0 THEN excess - 1 ELSE 0
    /\ UNCHANGED <<tokens, waiters>>

\* Calls given up in acquire: a sleeping holder passes the lock on.
GiveUp(calls) ==
    /\ waiters' = SelectSeq(waiters, LAMBDA c : c \notin calls)
    /\ nap' = IF waiters # <<>> /\ Head(waiters) \in calls THEN 0 ELSE nap

\* However calls come, wait and are given up: in any stretch of time there are
\* no more requests than a full bucket and what dripped into it.
WindowBound == excess <= Full
=============================================================================
