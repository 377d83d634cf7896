----------------------------- MODULE RateLimiter -----------------------------
(***************************************************************************)
(* What a rate limiter promises: a call is let through exactly when doing  *)
(* so keeps the history of grants lawful.  The history is the function     *)
(* granted, granted[s] being the number of grants at time s or later.      *)
(***************************************************************************)
EXTENDS Naturals

CONSTANTS MaxTime,    \* bound on the clock
          Fits(_, _)  \* Fits(g, t): the history g is lawful at time t

VARIABLES now, granted, verdict

vars == <<now, granted, verdict>>

Granting == [s \in 0 .. MaxTime |-> IF s <= now THEN granted[s] + 1 ELSE granted[s]]

Init == /\ now = 0
        /\ granted = [s \in 0 .. MaxTime |-> 0]
        /\ verdict = "none"

Tick == /\ now < MaxTime
        /\ now' = now + 1
        /\ verdict' = "none"
        /\ UNCHANGED granted

Pass == /\ Fits(Granting, now)
        /\ granted' = Granting
        /\ verdict' = "pass"
        /\ UNCHANGED now

Refuse == /\ ~Fits(Granting, now)
          /\ verdict' = "refuse"
          /\ UNCHANGED <<now, granted>>

Next == Tick \/ Pass \/ Refuse

Spec == Init /\ [][Next]_vars
==============================================================================
