----------------------------- MODULE Dictionary -----------------------------
(***************************************************************************)
(* What a key-value table promises: a lookup finds what was last put under *)
(* its key, or that nothing was.                                           *)
(***************************************************************************)
CONSTANTS Keys, Data, Nothing

VARIABLES content,  \* what is under each key
          answer    \* of the latest call: the key it was given, and the value

NoAnswer == [key |-> Nothing, value |-> Nothing]

Init == content = [k \in Keys |-> Nothing] /\ answer = NoAnswer

\* A put returns nothing.
Put(k, v) == content' = [content EXCEPT ![k] = v] /\ answer' = NoAnswer
Get(k) == answer' = [key |-> k, value |-> content[k]] /\ UNCHANGED content

Next == \E k \in Keys : Get(k) \/ \E v \in Data : Put(k, v)

Spec == Init /\ [][Next]_<<content, answer>>

\* And what one promises of which a key is only ever given once: the first
\* value under it is the answer to everyone who comes with the key.
GetOrPut(k, v) ==
    /\ content' = [content EXCEPT ![k] = IF @ = Nothing THEN v ELSE @]
    /\ answer' = [key |-> k, value |-> content'[k]]

OnceSpec ==
    Init /\ [][\E k \in Keys, v \in Data : GetOrPut(k, v)]_<<content, answer>>
=============================================================================
