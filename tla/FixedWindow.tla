----------------------------- MODULE FixedWindow -----------------------------
(***************************************************************************)
(* FixedWindowLimiter of 08-systemdesign/ratelimit/main.go.  Allow runs    *)
(* under fw.mu and reads the clock there: one step.  The counter starts    *)
(* anew at the first call AFTER resetAt, so a window is the closed         *)
(* interval of Window + 1 ticks that ends with resetAt.                    *)
(***************************************************************************)
EXTENDS RateLimitParameters

VARIABLES count, resetAt,  \* the fields fw.mu protects
          now,             \* time.Now()
          granted,         \* history: grants at time s or later
          verdict          \* what the latest Allow returned, until a tick

vars == <<count, resetAt, now, granted, verdict>>

Times == 0 .. MaxTime

TypeOK ==
    /\ count \in 0 .. Limit
    /\ now \in Times
    /\ resetAt \in Window .. now + Window
    /\ granted \in [Times -> Nat]
    /\ verdict \in {"none", "pass", "refuse"}

\* The limiter of fixedWindow(): resetAt is one window away.
Init ==
    /\ count = 0
    /\ resetAt = Window
    /\ now = 0
    /\ granted = [s \in Times |-> 0]
    /\ verdict = "none"

-----------------------------------------------------------------------------
ResetDueAlways == now >= 0        \* variant: every call starts a window
\* now.After(fw.resetAt)
ResetDue == now > resetAt

CountedSticky == count  \* variant: the reset forgets the counter

Counted == IF ResetDue THEN 0 ELSE count

Allow ==
    /\ resetAt' = IF ResetDue THEN now + Window ELSE resetAt
    /\ IF Counted < Limit
       THEN /\ count' = Counted + 1
            /\ granted' = [s \in Times |-> IF s <= now THEN granted[s] + 1
                                                       ELSE granted[s]]
            /\ verdict' = "pass"
       ELSE /\ count' = Counted
            /\ verdict' = "refuse"
            /\ UNCHANGED granted
    /\ UNCHANGED now

Tick ==
    /\ now < MaxTime
    /\ now' = now + 1
    /\ verdict' = "none"
    /\ UNCHANGED <<count, resetAt, granted>>

Next == Allow \/ Tick

Spec == Init /\ [][Next]_vars

-----------------------------------------------------------------------------
\* Grants from time s on, and in the Window + 1 ticks from s on.
From(s) == IF s \in Times THEN granted[s] ELSE 0
InSpan(s) == From(s) - From(s + Window + 1)

\* ratelimit/main.go:58 "up to 2x the traffic may pass at the boundary": a
\* span as long as a window sees two windows' worth, and never more.
AtMostTwoWindows == \A s \in Times : InSpan(s) <= 2 * Limit

\* A call is refused only after Limit grants within the last Window ticks:
\* the windows may lie badly, but they never refuse a caller out of turn.
RefusalIsEarned ==
    verdict = "refuse" => \E s \in Times : s >= now - Window /\ granted[s] >= Limit

-----------------------------------------------------------------------------
\* The counter is the number of grants since the current window began, and
\* the span before the window has seen no more than one earlier window.
Start == resetAt - Window

WindowInv ==
    /\ From(Start) = count
    /\ \A s \in Times : s >= Start - Window - 1 => From(s) <= count + Limit
    /\ \A s \in Times : s > now \/ s > resetAt => granted[s] = 0
    /\ \A s, t \in Times : s <= t => granted[t] <= granted[s]
==============================================================================
