----------------------------- MODULE TokenBucket -----------------------------
(***************************************************************************)
(* TokenBucket of 08-systemdesign/ratelimit/main.go (the one of            *)
(* 07-microservice/circuitbreaker/main.go:41-77 makes the same moves).     *)
(* Allow runs under tb.mu and reads the clock there, so it is one step.    *)
(* Tokens are counted in fractions: one token is Unit of them, a tick      *)
(* brings Rate of them, and the arithmetic is exact where the code's       *)
(* float64 rounds.                                                         *)
(***************************************************************************)
EXTENDS RateLimitParameters

VARIABLES tokens, lastTime,  \* the fields tb.mu protects
          now,               \* time.Now()
          granted,           \* history: grants at time s or later
          verdict            \* what the latest Allow returned, until a tick

vars == <<tokens, lastTime, now, granted, verdict>>

Times == 0 .. MaxTime

TypeOK ==
    /\ tokens \in 0 .. Capacity
    /\ now \in Times
    /\ lastTime \in 0 .. now
    /\ granted \in [Times -> Nat]
    /\ verdict \in {"none", "pass", "refuse"}

\* NewTokenBucket: the bucket starts full.
Init ==
    /\ tokens = Capacity
    /\ lastTime = 0
    /\ now = 0
    /\ granted = [s \in Times |-> 0]
    /\ verdict = "none"

-----------------------------------------------------------------------------
RefilledUncapped == tokens + (now - lastTime) * Rate  \* variant: no capacity

\* The tokens after refilling for the time since the previous call.
Refilled ==
    LET t == tokens + (now - lastTime) * Rate
    IN  IF t > Capacity THEN Capacity ELSE t

\* The verdict of Allow, and what remains in the bucket after it.
Enough(t) == t >= Unit

AllowForgetful ==  \* variant: the clock is not moved on when refusing
    /\ verdict' = IF Enough(Refilled) THEN "pass" ELSE "refuse"
    /\ tokens' = IF Enough(Refilled) THEN Refilled - Unit ELSE Refilled
    /\ lastTime' = IF Enough(Refilled) THEN now ELSE lastTime
    /\ granted' = IF ~Enough(Refilled) THEN granted
                  ELSE [s \in Times |-> granted[s] + (IF s <= now THEN 1 ELSE 0)]
    /\ UNCHANGED now

Allow ==
    /\ lastTime' = now
    /\ IF Enough(Refilled)
       THEN /\ tokens' = Refilled - Unit
            /\ granted' = [s \in Times |-> IF s <= now THEN granted[s] + 1
                                                       ELSE granted[s]]
            /\ verdict' = "pass"
       ELSE /\ tokens' = Refilled
            /\ verdict' = "refuse"
            /\ UNCHANGED granted
    /\ UNCHANGED now

Tick ==
    /\ now < MaxTime
    /\ now' = now + 1
    /\ verdict' = "none"
    /\ UNCHANGED <<tokens, lastTime, granted>>

Next == Allow \/ Tick

Spec == Init /\ [][Next]_vars

-----------------------------------------------------------------------------
\* The burst law: from any moment on, no more passes than a full bucket plus
\* what the rate has brought since.
BurstFits(g, t) ==
    \A s \in 0 .. t : g[s] * Unit <= Capacity + (t - s) * Rate

BurstLaw == BurstFits(granted, now)

\* The bucket refuses exactly the calls that would break the burst law: it
\* implements the limiter whose law that is, which keeps every grant for ever
\* where the bucket keeps one number.
Limiter == INSTANCE RateLimiter WITH Fits <- BurstFits
ExactlyTheBurstLaw == Limiter!Spec

-----------------------------------------------------------------------------
\* The bucket's level as a function of the history: the tightest of the
\* bounds the burst law has set at the latest call.
Room(s) == Capacity + (lastTime - s) * Rate - granted[s] * Unit

LevelInv ==
    /\ \A s \in 0 .. lastTime : tokens <= Room(s)
    /\ \E s \in 0 .. lastTime : tokens = Room(s)
    /\ \A s \in Times : s > lastTime => granted[s] = 0
=============================================================================
