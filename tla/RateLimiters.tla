---------------------------- MODULE RateLimiters ----------------------------
(***************************************************************************)
(* The three limiters of 08-systemdesign/ratelimit/main.go under the same  *)
(* traffic.  The demos put a burst to each in turn; here calls arrive at   *)
(* any time and every call is put to all three.  They share nothing but    *)
(* the clock, so each behaves as it does alone, and a run that explores    *)
(* every pattern of arrivals explores it for each of them.                 *)
(***************************************************************************)
EXTENDS RateLimitParameters

VARIABLES now,                               \* time.Now()
          count, resetAt,                    \* fixed window
          tokens, lastTime,                  \* token bucket
          requests,                          \* sliding window
          fixedGranted, fixedVerdict,        \* what each has let through, and
          bucketGranted, bucketVerdict,      \* what its latest Allow returned
          slidingGranted, slidingVerdict

vars == <<now, count, resetAt, tokens, lastTime, requests,
          fixedGranted, fixedVerdict, bucketGranted, bucketVerdict,
          slidingGranted, slidingVerdict>>

Fixed == INSTANCE FixedWindow
            WITH granted <- fixedGranted, verdict <- fixedVerdict
Bucket == INSTANCE TokenBucket
            WITH granted <- bucketGranted, verdict <- bucketVerdict
Sliding == INSTANCE SlidingWindow
            WITH granted <- slidingGranted, verdict <- slidingVerdict

Init == Fixed!Init /\ Bucket!Init /\ Sliding!Init

Arrive == Fixed!Allow /\ Bucket!Allow /\ Sliding!Allow

Tick == Fixed!Tick /\ Bucket!Tick /\ Sliding!Tick

Next == Arrive \/ Tick

Spec == Init /\ [][Next]_vars

-----------------------------------------------------------------------------
\* The fields of the three limiters, and what they say about them.
TypeOK == Fixed!TypeOK /\ Bucket!TypeOK /\ Sliding!TypeOK

\* What little each limiter keeps is what the whole history of its grants
\* implies: the counter and resetAt, the level of the bucket, the slice that
\* Allow filters in place and appends to.
FieldsMatchHistory ==
    /\ Fixed!WindowInv
    /\ Bucket!LevelInv
    /\ Sliding!RequestsExact /\ Sliding!HistoryLawful

\* TokenBucket.Allow refuses exactly the calls that would let more through,
\* from some moment on, than a full bucket and the rate since.
ExactlyTheBurstLaw == Bucket!ExactlyTheBurstLaw

\* SlidingWindowLimiter.Allow refuses exactly the calls that would put more
\* than Limit grants into some stretch of Window ticks, wherever it begins.
ExactlyTheWindowLaw == Sliding!ExactlyTheWindowLaw

\* FixedWindowLimiter lets through twice its limit around a boundary, as
\* main.go:58 says, and in no stretch of that length more.
AtMostTwoWindows == Fixed!AtMostTwoWindows

\* FixedWindowLimiter refuses a call only after a full limit of grants within
\* the last window.
RefusalIsEarned == Fixed!RefusalIsEarned
=============================================================================
