--------------------------- MODULE DataStructures ---------------------------
(***************************************************************************)
(* The tables, trees, heaps, indexes, encodings, slices, chains of         *)
(* handlers and stacks of deferred functions of 09-algorithm,              *)
(* 06-database/mysql-index, 07-microservice/grpc, contextx, middleware,    *)
(* restful, router, 01-basics/slice and 01-basics/defer: a behaviour works *)
(* on one of them.                                                         *)
(***************************************************************************)
EXTENDS Integers, Sequences

CONSTANTS Keys, Data, Nothing, Buckets, MaxChain,
          Numbers, MaxNodes, K, LeafSize, MaxLeaves, LastKey, Base, Half,
          Elements, MaxSlice, MaxArrays, MaxViews, MaxRoutes,
          MaxHandlers, MaxCalls

\* A key is a string of characters; nothing is put that looks like no answer.
ASSUME TablesAssumption ==
    /\ Keys \subseteq Seq(Nat) /\ Buckets \in Nat \ {0}
    /\ Nothing \notin Data

ASSUME SlicesAssumption == Elements \subseteq Int /\ MaxSlice \in Nat

ASSUME IndexAssumption == LeafSize \in Nat \ {0} /\ MaxLeaves \in Nat

ASSUME VarintAssumption == Base \in Nat \ {0, 1} /\ Half \in Nat \ {0}

ASSUME ChainAssumption == MaxHandlers \in Nat /\ MaxCalls \in Nat

VARIABLES structure,
          buckets, size, chain, keys, results, found, lastPut,
          nodes, h, role, given, popped,
          leaves, searchKey, level, childIndex, answer,
          number, n, buf, encoded,
          mem, slice, want, group, views,
          style, handlers, index, aborted, stack, trace,
          deferStack, panicking, out, returns

tableVars == <<buckets, size, chain, keys, results, found, lastPut>>
treeVars == <<nodes, h, role, given, popped>>
indexVars == <<leaves, searchKey, level, childIndex, answer>>
varintVars == <<number, n, buf, encoded>>
sliceVars == <<mem, slice, want, group, views>>
chainVars == <<style, handlers, index, aborted, stack, trace>>
deferVars == <<deferStack, panicking, out, returns>>
vars == <<structure, tableVars, treeVars, indexVars, varintVars, sliceVars,
          chainVars, deferVars>>

\* Strings of one and two characters, some of which meet in a bucket.
SomeKeys == { <<1>>, <<2>>, <<4>>, <<1, 1>> }

Table == INSTANCE Tables
Tree == INSTANCE Trees
Index == INSTANCE BPlusTree WITH Keys <- leaves
Code == INSTANCE Varint
Slices == INSTANCE SliceDemos WITH s <- slice
Chain == INSTANCE Middleware
Deferred == INSTANCE DeferDemos WITH stack <- deferStack, results <- returns

IdleTree ==
    role = "none" /\ nodes = << >> /\ h = << >> /\ given = << >> /\ popped = << >>
IdleIndex ==
    /\ leaves = << <<1>> >> /\ searchKey = 1
    /\ level = 1 /\ childIndex = 0 /\ answer = Index!Missing
IdleCode == number = 0 /\ n = 0 /\ buf = << >> /\ encoded = FALSE
IdleSlice ==
    /\ mem = << <<>> >> /\ slice = Slices!Literal(<<>>) /\ want = <<>>
    /\ group = FALSE /\ views = <<>>

IdleChain ==
    /\ style = "onion" /\ handlers = <<>> /\ index = 1 /\ aborted = FALSE
    /\ stack = <<>> /\ trace = <<>>
IdleDefer ==
    deferStack = <<>> /\ panicking = FALSE /\ out = <<>> /\ returns = <<>>

Init ==
    /\ \/ structure \in Table!Kinds
       \/ structure \in {"tree", "index", "varint", "slice", "chain", "defer"}
    /\ Table!Init
    /\ IF structure = "tree" THEN Tree!Init ELSE IdleTree
    /\ IF structure = "index" THEN Index!Init ELSE IdleIndex
    /\ IF structure = "varint" THEN Code!Init ELSE IdleCode
    /\ IF structure = "slice" THEN Slices!Init ELSE IdleSlice
    /\ IF structure = "chain" THEN Chain!Init ELSE IdleChain
    /\ IF structure = "defer" THEN Deferred!Init ELSE IdleDefer

chainingHashMap ==
    /\ structure = "map" /\ Table!chainingHashMap
    /\ UNCHANGED <<structure, treeVars, indexVars, varintVars, sliceVars,
                   chainVars, deferVars>>
valueContext ==
    /\ structure = "context" /\ Table!valueContext
    /\ UNCHANGED <<structure, treeVars, indexVars, varintVars, sliceVars,
                   chainVars, deferVars>>
dataPassing ==
    /\ structure = "keys" /\ Table!dataPassing
    /\ UNCHANGED <<structure, treeVars, indexVars, varintVars, sliceVars,
                   chainVars, deferVars>>
idempotent ==
    /\ structure = "orders" /\ Table!idempotent
    /\ UNCHANGED <<structure, treeVars, indexVars, varintVars, sliceVars,
                   chainVars, deferVars>>
trees ==
    /\ structure = "tree" /\ Tree!Next
    /\ UNCHANGED <<structure, tableVars, indexVars, varintVars, sliceVars,
                   chainVars, deferVars>>
bPlusTreeIndex ==
    /\ structure = "index" /\ Index!Next
    /\ UNCHANGED <<structure, tableVars, treeVars, varintVars, sliceVars,
                   chainVars, deferVars>>
protobufEncoding ==
    /\ structure = "varint" /\ Code!Next
    /\ UNCHANGED <<structure, tableVars, treeVars, indexVars, sliceVars,
                   chainVars, deferVars>>
slicesAndRoutes ==
    /\ structure = "slice" /\ Slices!Next
    /\ UNCHANGED <<structure, tableVars, treeVars, indexVars, varintVars,
                   chainVars, deferVars>>
middlewares ==
    /\ structure = "chain" /\ Chain!Next
    /\ UNCHANGED <<structure, tableVars, treeVars, indexVars, varintVars,
                   sliceVars, deferVars>>
deferredCalls ==
    /\ structure = "defer" /\ Deferred!Next
    /\ UNCHANGED <<structure, tableVars, treeVars, indexVars, varintVars,
                   sliceVars, chainVars>>

Next == chainingHashMap \/ valueContext \/ dataPassing \/ idempotent
        \/ trees \/ bPlusTreeIndex \/ protobufEncoding \/ slicesAndRoutes
        \/ middlewares \/ deferredCalls

Spec == Init /\ [][Next]_vars

-----------------------------------------------------------------------------
\* The chained hash map, colliding keys included, the chain of contexts and the
\* values passed along a request answer as a dictionary: a lookup of a key finds
\* what was put last under that key, or that nothing was.  An order that comes
\* again with its key gets the result of the first with that key.
LookupsAgree ==
    /\ Table!Map!Spec /\ Table!Context!Spec /\ Table!Passed!Spec
    /\ Table!Orders!OnceSpec

\* What was stored is found again.  The hash map has one node for each key and
\* counts them; the B+ tree finds a key exactly if some leaf has it; the bytes of
\* a number are read back as that number, and zigzag has a code of its own for
\* each of the integers.
StoredComesBack ==
    /\ Table!NodesAreUnique
    /\ Index!SearchFindsTheRow
    /\ Code!ReadsBack /\ Code!ZigzagIsOneToOne

\* The search tree and the heap keep their order whatever was inserted and
\* popped, the index rules hold of the listed rows and queries, and the stack of
\* deferred functions prints and returns what the comments say.
StructuresAreSound ==
    /\ structure = "tree" => Tree!TreeIsOrdered /\ Tree!HeapIsSound
    /\ structure = "index" =>
          Index!NoRowIsMissed /\ Index!CoveringIsExact /\ Index!LeftmostPrefix
    /\ structure = "defer" => Deferred!DefersAsCommented

\* Of slices that share arrays, each has what the operations mean: what is done
\* with one shows in the others in the places both have, and nowhere else.  The
\* routes of a group with one or two middlewares keep what they were made of.
SlicesAsSpecified == Slices!SlicesAsSpecified

\* Registering a route merges the middlewares of its group with its handler, and
\* the route keeps them whatever else the group is used for.
RoutesKeepTheirHandlers == Slices!RoutesKeepTheirHandlers

\* In a chain of middlewares the handlers run in order, each at most once and
\* none after one has aborted, and in the onion they end in the opposite order.
ChainsRunInOrder == Chain!ChainRunsInOrder /\ Chain!OnionIsNested
=============================================================================
