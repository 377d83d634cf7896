-------------------------- MODULE ConcurrencyDemos --------------------------
(***************************************************************************)
(* The demos of 02-concurrency, and some more, on the machine of           *)
(* GoRuntime.  Every main() there runs its demos one after the other and   *)
(* they share nothing, so a behaviour is a behaviour of one of them.       *)
(***************************************************************************)
EXTENDS GoRuntime, DemoPrograms

\* channel/main.go; `patterns` is four programs, channelVsMutex two.
channelMain ==
    [sendRecvRules |-> sendRecvRules, selectBehavior |-> selectBehavior,
     doneChannel |-> doneChannel, semaphoreChannel |-> semaphoreChannel,
     resultChannel |-> resultChannel, quitChannel |-> quitChannel,
     mutexCounter |-> mutexCounter, channelCounter |-> channelCounter]

\* goroutine/main.go; goroutineLeak is three.
goroutineMain ==
    [goroutineVsThread |-> goroutineVsThread, contextSwitch |-> contextSwitch,
     leakyChan |-> leakyChan, fixedChan |-> fixedChan,
     leakyProducer |-> leakyProducer, gosched |-> gosched]

\* syncpkg/main.go.
syncpkgMain ==
    [mutex |-> mutex, rwMutex |-> rwMutex, waitGroup |-> waitGroup,
     once |-> once, atomicOps |-> atomicOps]

\* contextx/main.go.
contextMain ==
    [cancelContext |-> cancelContext, timeoutContext |-> timeoutContext,
     propagation |-> propagation]

\* What the main functions of pattern, registry and profiling add.
patternMain == [teardown |-> teardown]
registryMain == [registryPattern |-> registryPattern]
profilingMain == [busyWork |-> busyWork, goroutineProfile |-> goroutineProfile]

AllPrograms ==
    channelMain @@ goroutineMain @@ syncpkgMain @@ contextMain
    @@ patternMain @@ registryMain @@ profilingMain

-----------------------------------------------------------------------------
\* No goroutine of any demo can be at a statement that panics, and no two can
\* touch the same plain variable at once with one of them writing it.
NoPanicNoRace ==
    \A g \in Goroutines : /\ ~Panics(g)
                          /\ \A h \in Goroutines : ~Races(g, h)

Agree(expected) == \A x \in DOMAIN expected : mem[x] = expected[x]

\* What main prints when it returns is what the demo promises under every
\* schedule: no increment is lost, one call of f, the errors of the contexts;
\* and no more workers than permits are ever at work.  A count nobody waits
\* for is right when its goroutine has ended.  The goroutines of which
\* goroutine/main.go:194-230 says that they leak never end; no Wait is for more
\* goroutines than there are.
ResultsAsPromised ==
    /\ Ended(1) => Agree(Program.returns)
    /\ (\A g \in Goroutines : Ended(g)) => Agree(Program.rests)
    /\ \A x \in DOMAIN Program.bounds : mem[x] <= Program.bounds[x]
    /\ \A g \in Program.leaks : ~Ended(g)
    /\ wg <= Cardinality(Goroutines)

\* In every other demo main returns and no goroutine is left behind, the one
\* whose receiver may have timed out excepted (channel/main.go:184-187).
NothingElseLeaks ==
    <>(\A g \in Goroutines \ (Program.leaks \cup Program.perhaps) : Ended(g))
=============================================================================
