---------------------------- MODULE SlidingWindow ----------------------------
(***************************************************************************)
(* SlidingWindowLimiter of 08-systemdesign/ratelimit/main.go (the          *)
(* SlidingWindow of 07-microservice/circuitbreaker/main.go:106-142 is the  *)
(* same).  Allow runs under sw.mu and reads the clock there: one step.     *)
(* The code compacts the slice in place; the model drops the old requests. *)
(***************************************************************************)
EXTENDS RateLimitParameters, Selections

VARIABLES requests,  \* times of the requests that count, oldest first
          now,       \* time.Now()
          granted,   \* history: grants at time s or later
          verdict    \* what the latest Allow returned, until a tick

vars == <<requests, now, granted, verdict>>

Times == 0 .. MaxTime

TypeOK ==
    /\ requests \in Seq(Times)
    /\ now \in Times
    /\ granted \in [Times -> Nat]
    /\ verdict \in {"none", "pass", "refuse"}

\* The window law: no stretch of Window ticks sees more than Limit grants.
From(g, s) == IF s \in Times THEN g[s] ELSE 0
WindowFits(g, t) == \A s \in 0 .. t : From(g, s) - From(g, s + Window) <= Limit

Limiter == INSTANCE RateLimiter WITH Fits <- WindowFits

Init ==
    /\ requests = <<>>
    /\ now = 0
    /\ granted = [s \in Times |-> 0]
    /\ verdict = "none"

-----------------------------------------------------------------------------
StillValidEager == {t \in Times : t >= now - Window}  \* variant: !Before for After

\* The times t with t.After(cutoff)
StillValid == {t \in Times : t > now - Window}

AllowCountsRefused ==  \* variant: refused requests are remembered as well
    LET valid == Kept(requests, StillValid)
    IN  /\ requests' = Append(valid, now)
        /\ verdict' = IF Len(valid) < Limit THEN "pass" ELSE "refuse"
        /\ granted' = IF Len(valid) < Limit THEN Limiter!Granting ELSE granted
        /\ UNCHANGED now
        /\ Len(requests) < 3 * Limit

Allow ==
    LET valid == Kept(requests, StillValid)
    IN  /\ IF Len(valid) < Limit
           THEN /\ requests' = Append(valid, now)
                /\ granted' = Limiter!Granting
                /\ verdict' = "pass"
           ELSE /\ requests' = valid
                /\ verdict' = "refuse"
                /\ UNCHANGED granted
        /\ UNCHANGED now

Tick ==
    /\ now < MaxTime
    /\ now' = now + 1
    /\ verdict' = "none"
    /\ UNCHANGED <<requests, granted>>

Next == Allow \/ Tick

Spec == Init /\ [][Next]_vars

-----------------------------------------------------------------------------
\* The limiter lets through exactly the calls the window law allows, for
\* every stretch of time and not just for the stretches it looks at.
ExactlyTheWindowLaw == Limiter!Spec

\* The slice the code filters in place stays bounded and in order of time,
\* and it holds a request for each grant of the latest window.
RequestsExact ==
    /\ Len(requests) <= Limit
    /\ \A i, j \in DOMAIN requests : i <= j => requests[i] <= requests[j]
    /\ \A s \in Times : s > now - Window =>
          granted[s] = Len(Kept(requests, {t \in Times : t >= s}))

\* What the history says besides: it is lawful, it ends now, and it counts
\* fewer grants from a later time on.
HistoryLawful ==
    /\ WindowFits(granted, now)
    /\ \A i \in DOMAIN requests : requests[i] <= now
    /\ \A s \in Times : s > now => granted[s] = 0
    /\ \A s, t \in Times : s <= t => granted[t] <= granted[s]
==============================================================================
