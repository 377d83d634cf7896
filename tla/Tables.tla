------------------------------- MODULE Tables -------------------------------
(***************************************************************************)
(* Tables that implement Dictionary: the hash map of                       *)
(* 09-algorithm/hash/main.go, the values a context has through its         *)
(* parents, as valueContext of 02-concurrency/contextx/main.go uses them,  *)
(* the keys of a request's context in 05-webframework/middleware/main.go   *)
(* and the results of orders in restful/main.go.                           *)
(***************************************************************************)
EXTENDS Integers, Sequences, FiniteSetsExt

CONSTANTS Keys,     \* a key is a sequence of its characters' numbers
          Data,
          Nothing,  \* the answer when nothing is found
          Buckets,  \* len(m.buckets)
          MaxChain  \* values are put over one another up to this length

VARIABLES buckets, size,  \* HashMap
          chain,          \* of the context, the newest first
          keys,           \* of the request's context; a Go map, nil at first
          results,        \* store.results, a Go map of orders
          found,          \* what each one's latest call was given and returned
          lastPut         \* history: what was last put under each key

tableVars == <<buckets, size, chain, keys, results, found, lastPut>>

\* Lists are searched from their first node on.
Lookup(list, k) ==
    LET nodes == {n \in DOMAIN list : list[n].key = k}
    IN  IF nodes = {} THEN Nothing ELSE list[Min(nodes)].value

Kinds == {"map", "context", "keys", "orders"}
Nil == << >>  \* a nil map reads like an empty one

\* What a call on a key returns; and what one returns that returns nothing.
Answer(k, v) == [key |-> k, value |-> v]
NoAnswer == Answer(Nothing, Nothing)

Init ==
    /\ buckets = [b \in 0 .. Buckets - 1 |-> <<>>]
    /\ size = 0
    /\ chain = <<>>
    /\ keys = Nil
    /\ results = << >>
    /\ found = [table \in Kinds |-> NoAnswer]
    /\ lastPut = [table \in Kinds |-> [k \in Keys |-> Nothing]]

-----------------------------------------------------------------------------
\* h = (h*31 + c) % n over the characters.
simpleHashStr(s) ==
    LET h[i \in 0 .. Len(s)] == IF i = 0 THEN 0 ELSE (h[i - 1] * 31 + s[i]) % Buckets
    IN  h[Len(s)]

\* A key that is there gets the value in its node; a new node goes in front.
put(k, v) ==
    LET idx == simpleHashStr(k)
        bucket == buckets[idx]
        nodes == {n \in DOMAIN bucket : bucket[n].key = k}
    IN  /\ IF nodes # {}
           THEN /\ buckets' = [buckets EXCEPT ![idx][Min(nodes)].value = v]
                /\ UNCHANGED size
           ELSE /\ buckets' = [buckets EXCEPT ![idx] =
                                 <<[key |-> k, value |-> v]>> \o bucket]
                /\ size' = size + 1
        /\ lastPut' = [lastPut EXCEPT !["map"][k] = v]
        /\ found' = [found EXCEPT !["map"] = NoAnswer]
        /\ UNCHANGED <<chain, keys, results>>

getFirst(k) ==  \* variant: the first node of the bucket, whatever its key
    LET bucket == buckets[simpleHashStr(k)]
    IN  /\ found' = [found EXCEPT !["map"] =
                       Answer(k, IF bucket = <<>> THEN Nothing ELSE bucket[1].value)]
        /\ UNCHANGED <<buckets, size, chain, keys, results, lastPut>>

get(k) ==
    /\ found' = [found EXCEPT !["map"] =
                   Answer(k, Lookup(buckets[simpleHashStr(k)], k))]
    /\ UNCHANGED <<buckets, size, chain, keys, results, lastPut>>

\* ctx = context.WithValue(ctx, k, v): the old context is the new one's parent.
WithValue(k, v) ==
    /\ Len(chain) < MaxChain
    /\ chain' = <<[key |-> k, value |-> v]>> \o chain
    /\ lastPut' = [lastPut EXCEPT !["context"][k] = v]
    /\ found' = [found EXCEPT !["context"] = NoAnswer]
    /\ UNCHANGED <<buckets, size, keys, results>>

Value(k) ==
    /\ found' = [found EXCEPT !["context"] = Answer(k, Lookup(chain, k))]
    /\ UNCHANGED <<buckets, size, chain, keys, results, lastPut>>

\* A Go map after m[k] = v, and m[k].
With(m, k, v) == [x \in DOMAIN m \cup {k} |-> IF x = k THEN v ELSE m[x]]
At(m, k) == IF k \in DOMAIN m THEN m[k] ELSE Nothing

\* dataPassing: the first set makes the map.
set(k, v) ==
    /\ keys' = With(keys, k, v)
    /\ lastPut' = [lastPut EXCEPT !["keys"][k] = v]
    /\ found' = [found EXCEPT !["keys"] = NoAnswer]
    /\ UNCHANGED <<buckets, size, chain, results>>

getKey(k) ==
    /\ found' = [found EXCEPT !["keys"] = Answer(k, At(keys, k))]
    /\ UNCHANGED <<buckets, size, chain, keys, results, lastPut>>

\* idempotent: a key that has a result gets that one, whatever the request.
processOrder(idempotencyKey, orderID) ==
    LET known == idempotencyKey \in DOMAIN results
        result == IF known THEN results[idempotencyKey] ELSE orderID
    IN  /\ results' = IF known THEN results
                              ELSE With(results, idempotencyKey, result)
        /\ found' = [found EXCEPT !["orders"] = Answer(idempotencyKey, result)]
        /\ lastPut' = [lastPut EXCEPT !["orders"][idempotencyKey] =
                                        IF @ = Nothing THEN orderID ELSE @]
        /\ UNCHANGED <<buckets, size, chain, keys>>

chainingHashMap == \E k \in Keys : get(k) \/ \E v \in Data : put(k, v)
valueContext == \E k \in Keys : Value(k) \/ \E v \in Data : WithValue(k, v)
dataPassing == \E k \in Keys : getKey(k) \/ \E v \in Data : set(k, v)
idempotent == \E k \in Keys, v \in Data : processOrder(k, v)

-----------------------------------------------------------------------------
\* The hash map: each key has one node, in the bucket of its hash, and size
\* counts the keys that have a value.
NodesAreUnique ==
    /\ \A b \in DOMAIN buckets : \A m, n \in DOMAIN buckets[b] :
          /\ simpleHashStr(buckets[b][m].key) = b
          /\ m # n => buckets[b][m].key # buckets[b][n].key
    /\ size = Cardinality({k \in Keys : lastPut["map"][k] # Nothing})

\* Each as a dictionary of what was put.
Map == INSTANCE Dictionary
         WITH content <- lastPut["map"], answer <- found["map"]
Context == INSTANCE Dictionary
             WITH content <- lastPut["context"], answer <- found["context"]
Passed == INSTANCE Dictionary
            WITH content <- lastPut["keys"], answer <- found["keys"]
Orders == INSTANCE Dictionary
            WITH content <- lastPut["orders"], answer <- found["orders"]
=============================================================================
