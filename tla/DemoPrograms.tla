---------------------------- MODULE DemoPrograms ----------------------------
(***************************************************************************)
(* The programs of 02-concurrency: channel/main.go, goroutine/main.go,     *)
(* syncpkg/main.go, contextx/main.go and teardown of pattern/main.go, the  *)
(* registry of 07-microservice and the loads that 04-performance/profiling *)
(* measures.  Each section that joins, or forgets, its goroutines is a     *)
(* program.  Workers stands for the 10, 1000 and 100000 goroutines of the  *)
(* loops, Items for the 50, 100, 1000 and 100000 values.                   *)
(***************************************************************************)
EXTENDS GoInstructions

CONSTANTS Workers, Items, Permits,
          Readers  \* 5 in rwMutex

ASSUME SizesAssumption ==
    /\ Workers \in Nat \ {0} /\ Items \in Nat \ {0}
    /\ Permits \in Nat \ {0} /\ Permits < Workers

-----------------------------------------------------------------------------
\* channel/main.go.
sendRecvRules ==
    [Blank EXCEPT
     !.chans = "ch" :> 0 @@ "ch2" :> 3,
     !.code = << <<Go(2), Recv("ch"), Keep("msg"), Sleep,
                   Send("ch2", 1), Send("ch2", 2), Close("ch2"),
                   RecvOk("ch2", 4), Keep("last"), AtomicAdd("got", 1),
                   Goto(-3)>>,
                 <<Send("ch", 7)>> >>,
     !.vars = [x \in {"msg", "last", "got"} |-> 0],
     !.returns = [msg |-> 7, last |-> 2, got |-> 2]]

selectBehavior ==
    LET round == <<Select(<<Receive("ch1", 1, 1), Receive("ch2", 3, 3)>>, 5),
                   AtomicAdd("one", 1), Goto(4),
                   AtomicAdd("two", 1), Goto(2),
                   AtomicAdd("idle", 1)>>
    IN
    [Blank EXCEPT
     !.chans = "ch1" :> 1 @@ "ch2" :> 1 @@ "timeoutCh" :> 0 @@ "After" :> 1,
     !.code = <<    <<Send("ch1", 1), Send("ch2", 2)>>
                 \o Repeated(round, 4)
                 \o <<Select(<<Receive("ch1", 1, 1)>>, 2),
                      AtomicAdd("one", 1),
                      Go(2), Go(3),
                      Select(<<Receive("timeoutCh", 1, 1),
                               Receive("After", 1, 1)>>, Park)>>,
                 <<Sleep, Send("timeoutCh", 42)>>,
                 <<Sleep, Send("After", 0)>> >>,
     !.vars = [x \in {"one", "two", "idle"} |-> 0],
     !.returns = [one |-> 1, two |-> 1, idle |-> 2],
     \* When the timeout comes first nobody receives any more.
     !.perhaps = {2}]

\* patterns, first part: close wakes the receiver.
doneChannel ==
    [Blank EXCEPT
     !.chans = "done" :> 0,
     !.code = << <<Go(2), Recv("done")>>, <<Sleep, Close("done")>> >>]

semaphoreChannelLate ==  \* variant: the work is done before the permit is taken
    [Blank EXCEPT
     !.chans = [sem |-> Permits],
     !.code = WithWorkers(Workers,
              StartAll(Workers) \o <<Wait>>,
              <<AtomicAdd("working", 1), Send("sem", 0),
                AtomicAdd("working", -1), Recv("sem"), Done>>),
     !.vars = [working |-> 0],
     !.bounds = [working |-> Permits],
     !.returns = [working |-> 0]]

\* patterns, second part: all goroutines are started, then each takes a permit.
\* `working` counts those between acquire and release.
semaphoreChannel ==
    [Blank EXCEPT
     !.chans = [sem |-> Permits],
     !.code = WithWorkers(Workers,
              StartAll(Workers) \o <<Wait>>,
              <<Send("sem", 0), AtomicAdd("working", 1),
                AtomicAdd("working", -1), Recv("sem"), Done>>),
     !.vars = [working |-> 0],
     !.bounds = [working |-> Permits],
     !.returns = [working |-> 0]]

\* patterns, third part.
resultChannel ==
    [Blank EXCEPT
     !.chans = "result" :> 1,
     !.code = << <<Go(2), RecvOk("result", 2), Keep("v")>>,
                 <<Sleep, Send("result", 42), Close("result")>> >>,
     !.vars = [v |-> 0],
     !.returns = [v |-> 42]]

\* patterns, fourth part: main gives the goroutine some time, no more.
quitChannel ==
    [Blank EXCEPT
     !.chans = "quit" :> 0,
     !.code = << <<Go(2), Close("quit"), Sleep>>,
                 <<Select(<<Receive("quit", 2, 2)>>, 1), Goto(-1)>> >>]

\* channelVsMutex, first part, and the same loop in syncpkg: counter++ reads
\* and writes.
mutexCounterBare ==  \* variant: the lock is forgotten
    [Blank EXCEPT
     !.code = WithWorkers(Workers,
              StartAll(Workers) \o <<Wait, Read("counter")>>,
              <<Read("counter"), Incr("counter"), Done>>),
     !.vars = [counter |-> 0],
     !.returns = [counter |-> Workers]]

mutexCounter ==
    [Blank EXCEPT
     !.code = WithWorkers(Workers,
              StartAll(Workers) \o <<Wait, Read("counter")>>,
              Lock \o <<Read("counter"), Incr("counter")>> \o Unlock
                \o <<Done>>),
     !.vars = [counter |-> 0],
     !.returns = [counter |-> Workers]]

\* channelVsMutex, second part: nobody waits for the counting goroutine.
channelCounter ==
    [Blank EXCEPT
     !.chans = "ch3" :> Items,
     !.code = << <<Go(2)>> \o [i \in 1 .. Items |-> Send("ch3", 1)]
                    \o <<Close("ch3"), Sleep>>,
                 <<RecvOk("ch3", 3), AtomicAdd("count", 1), Goto(-2)>> >>,
     !.vars = [count |-> 0],
     !.rests = [count |-> Items]]

-----------------------------------------------------------------------------
\* goroutine/main.go.
goroutineVsThread ==
    [Blank EXCEPT
     !.code = WithWorkers(Workers,
              <<Add(Workers)>> \o [i \in 1 .. Workers |-> Go(i + 1)]
                \o <<Wait>>,
              <<Done>>)]

contextSwitch ==
    [Blank EXCEPT
     !.chans = "ch" :> 0,
     !.code = << <<Add(1), Go(2)>> \o Repeated(<<Recv("ch")>>, Items)
                    \o <<Wait>>,
                 Repeated(<<Send("ch", 0)>>, Items) \o <<Done>> >>]

\* The three functions of goroutineLeak, called as nobody in the file does:
\* the caller drops the channel it gets.
leakyChan ==
    [Blank EXCEPT
     !.chans = "ch" :> 0,
     !.code = << <<Go(2)>>, <<Sleep, Send("ch", 42)>> >>,
     !.leaks = {2}]

fixedChanFull ==  \* variant: the capacity is forgotten
    [Blank EXCEPT
     !.chans = "ch" :> 0,
     !.code = << <<Go(2)>>, <<Sleep, Send("ch", 42)>> >>]

fixedChan ==
    [Blank EXCEPT
     !.chans = "ch" :> 1,
     !.code = << <<Go(2)>>, <<Sleep, Send("ch", 42)>> >>]

\* Half of the values are received, and one more send waits for ever.
leakyProducer ==
    [Blank EXCEPT
     !.chans = "ch" :> 0,
     !.code = << <<Go(2)>> \o Repeated(<<Recv("ch")>>, Items),
                 [i \in 1 .. 2 * Items |-> Send("ch", i - 1)] >>,
     !.leaks = {2}]

gosched ==
    [Blank EXCEPT
     !.chans = "done" :> 0,
     !.code = << <<Go(2), Recv("done")>>, <<Sleep, Send("done", 1)>> >>]
-----------------------------------------------------------------------------
\* syncpkg/main.go.
mutex == mutexCounter

\* A reader looks at one entry of the map after the other; the writer adds one.
rwMutex ==
    [Blank EXCEPT
     !.code = WithWorkers(Readers,
              StartAll(Readers + 1) \o <<Wait>>,
              RLock \o <<Read("data"), Read("data")>> \o RUnlock \o <<Done>>)
           \o <<Lock \o <<Read("data"), Incr("data")>> \o Unlock \o <<Done>> >>,
     !.vars = [data |-> 2],
     !.returns = [data |-> 3]]

waitGroup ==
    [Blank EXCEPT
     !.code = WithWorkers(Workers,
              StartAll(Workers) \o <<Wait>>,
              <<AtomicAdd("joined", 1), Done>>),
     !.vars = [joined |-> 0],
     !.returns = [joined |-> Workers]]

\* once.Do(f), five times: f runs under the lock, then done is set.
once ==
    LET Do == Lock \o <<SkipIf("done", 4), Read("callCount"), Incr("callCount"),
                        AtomicAdd("done", 1)>> \o Unlock
    IN
    [Blank EXCEPT
     !.code = <<Repeated(Do, 5)>>,
     !.vars = [done |-> 0, callCount |-> 0],
     !.returns = [done |-> 1, callCount |-> 1]]

atomicOps ==
    [Blank EXCEPT
     !.code = WithWorkers(Workers,
              StartAll(Workers) \o <<Wait, CompareAndSwap("value", 10, 20),
                                         CompareAndSwap("value", 10, 30)>>,
              <<AtomicAdd("count", 1), Done>>),
     !.vars = [count |-> 0, value |-> 10],
     !.returns = [count |-> Workers, value |-> 20]]

-----------------------------------------------------------------------------
\* contextx/main.go.
worker == <<Select(<<Receive("ctx", 2, 2)>>, 1), Goto(-1), Done>>

cancelContext ==
    [Blank EXCEPT
     !.chans = "ctx" :> 0,
     !.parent = [ctx |-> "Background"],
     !.code = WithWorkers(3,
              <<WithParent("ctx")>> \o StartAll(3) \o <<Sleep>>
                \o Cancel("ctx") \o <<Wait, Err("ctx", "err")>>,
              worker),
     !.vars = [err |-> 0],
     !.returns = [err |-> 1]]

\* The deferred calls cancel what the timers may have cancelled already.
timeoutContext ==
    [Blank EXCEPT
     !.chans = "ctx" :> 0 @@ "ctx2" :> 0 @@ "After" :> 1,
     !.parent = [c \in {"ctx", "ctx2"} |-> "Background"],
     !.deadlines = {"ctx", "ctx2"},
     !.code = << <<WithParent("ctx"), Go(2),
                   Select(<<Receive("After", 1, 1),
                            Receive("ctx", 1, 1)>>, Park),
                   WithParent("ctx2"), Recv("ctx2"), Err("ctx2", "err")>>
                    \o Cancel("ctx2") \o Cancel("ctx"),
                 <<Sleep, Send("After", 0)>> >>,
     !.vars = [err |-> 0],
     !.returns = [err |-> 2]]

\* child1 is cancelled: its child is, its sibling is not.
propagation ==
    LET ctxs == {"root", "child1", "child2", "grandchild"}
    IN
    [Blank EXCEPT
     !.chans = [c \in ctxs |-> 0],
     !.parent = "root" :> "Background" @@ "child1" :> "root"
                @@ "child2" :> "root" @@ "grandchild" :> "child1",
     !.code = << <<WithParent("root"), WithParent("child1"),
                   WithParent("child2"), WithParent("grandchild")>>
                    \o Cancel("child1")
                    \o <<Err("child1", "one"), Err("grandchild", "below"),
                         Err("child2", "two")>>
                    \o Cancel("grandchild") \o Cancel("child2")
                    \o Cancel("child1") \o Cancel("root") >>,
     !.vars = [x \in {"one", "below", "two"} |-> 0],
     !.returns = [one |-> 1, below |-> 1, two |-> 0]]

\* teardown of pattern/main.go: a full ticker drops its ticks; the service
\* leaves when the deadline comes, however fast it ticks.
teardown ==
    [Blank EXCEPT
     !.chans = "ctx" :> 0 @@ "ticker" :> 1 @@ "stop" :> 0,
     !.parent = [ctx |-> "Background"],
     !.deadlines = {"ctx"},
     !.code = << <<WithParent("ctx"), Go(2),
                   Select(<<Receive("ctx", 1, 3),
                            Receive("ticker", 1, 1)>>, Park),
                   Sleep, Goto(-2),
                   Sleep, Close("stop")>>
                    \o Cancel("ctx"),
                 <<Select(<<Receive("stop", 1, 3)>>, 1),
                   Select(<<Deliver("ticker", 0, 1)>>, 1), Goto(-2)>> >>]

-----------------------------------------------------------------------------
\* registry/main.go: three healthy instances are registered under the one name
\* there is; discover copies those of them that are healthy.
registryPattern ==
    LET instances == {"user-1", "user-2", "user-3"}
        register(i) == Lock \o <<Read("services"), Incr("services"),
                                 AtomicAdd(i, 1)>> \o Unlock
        \* if inst.Healthy { healthy = append(healthy, inst) }
        inspect(i) == <<SkipIf(i, 2), Goto(2), AtomicAdd("healthy", 1)>>
    IN
    [Blank EXCEPT
     !.code = <<   register("user-1") \o register("user-2")
                \o register("user-3")
                \o RLock \o <<Read("services")>> \o inspect("user-1")
                \o inspect("user-2") \o inspect("user-3") \o RUnlock >>,
     !.vars = [x \in {"services", "healthy"} \cup instances |-> 0],
     !.returns = [services |-> 3, healthy |-> 3]]

\* profiling/main.go: busyWork, whose profile is stopped when it has returned
\* (`busy` counts those that still compute), and a profile of goroutines that
\* may still sleep.
busyWork ==
    [Blank EXCEPT
     !.code = WithWorkers(Workers,
              StartAll(Workers) \o <<Wait, Read("busy")>>,
              <<AtomicAdd("busy", 1), Sleep, AtomicAdd("busy", -1), Done>>),
     !.vars = [busy |-> 0],
     !.bounds = [busy |-> Workers],
     !.returns = [busy |-> 0]]

goroutineProfile ==
    [Blank EXCEPT
     !.code = WithWorkers(Workers,
              StartAll(Workers) \o <<Sleep, Wait>>,
              <<Sleep, Done>>)]
=============================================================================
