------------------------ MODULE RateLimitParameters -------------------------
(***************************************************************************)
(* What the limiters of 08-systemdesign/ratelimit/main.go are configured   *)
(* with.                                                                   *)
(***************************************************************************)
EXTENDS Integers

CONSTANTS Capacity,  \* size of the token bucket, in fractions of a token
          Rate,      \* fractions of a token a tick brings
          Unit,      \* fractions that make one token
          Window,    \* ticks of a window, fixed or sliding
          Limit,     \* requests per window
          MaxTime    \* bound on the clock

ASSUME BucketAssumption ==
    /\ Capacity \in Nat
    /\ Rate \in Nat
    /\ Unit \in Nat \ {0}
    /\ MaxTime \in Nat

ASSUME WindowAssumption ==
    /\ Window \in Nat \ {0}
    /\ Limit \in Nat
    /\ MaxTime \in Nat
=============================================================================
