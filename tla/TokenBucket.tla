---------------------------- MODULE TokenBucket ----------------------------
(***************************************************************************)
(* What RateLimiter promises (README.md:247-252): a token bucket of        *)
(* capacity Rate that gains Rate tokens a second.  A refill credits the    *)
(* time since the last one, rounded down to whole tokens, and a request is *)
(* granted only against tokens that are there.                             *)
(***************************************************************************)
EXTENDS Integers

CONSTANTS Rate, Permits, PerSecond, MaxClock

VARIABLES tokens, last_refill, clock, granted

vars == <<tokens, last_refill, clock, granted>>

Init == tokens = Rate /\ last_refill = 0 /\ clock = 0 /\ granted = 0

\* The refill half of try_acquire_internal, at a clock value read before.
Refill ==
  \E now \in last_refill .. clock :
    LET gained == ((now - last_refill) * Rate) \div PerSecond
    IN  /\ gained > 0
        /\ tokens' = IF tokens + gained <= Rate THEN tokens + gained ELSE Rate
        /\ last_refill' = now
        /\ UNCHANGED <<clock, granted>>

\* The other half: take the permits.
Take(p) ==
  /\ tokens >= p
  /\ tokens' = tokens - p
  /\ granted' = granted + p
  /\ UNCHANGED <<last_refill, clock>>

Tick ==
  /\ clock < MaxClock
  /\ clock' = clock + 1
  /\ UNCHANGED <<tokens, last_refill, granted>>

Next == Tick \/ Refill \/ \E p \in Permits : Take(p)

Spec == Init /\ [][Next]_vars
=============================================================================
