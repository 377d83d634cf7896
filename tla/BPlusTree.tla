----------------------------- MODULE BPlusTree -----------------------------
(***************************************************************************)
(* The index of 06-database/mysql-index/main.go: a root over leaves of     *)
(* keys and rows, built once; a secondary index from names to keys; and    *)
(* the two rules by which a query can use an index.                        *)
(***************************************************************************)
EXTENDS Integers, Sequences, FiniteSetsExt, TLC

CONSTANTS LeafSize,  \* keys in a leaf
          MaxLeaves,
          LastKey    \* keys are from 1 to this

VARIABLES Keys,       \* of each leaf, in order
          searchKey,
          level,      \* 1 at the root, 2 at a leaf, 3 when the search has ended
          childIndex,
          answer      \* the key of the row found, or Missing

indexVars == <<Keys, searchKey, level, childIndex, answer>>

Missing == 0
Column == {"id", "name", "age"}

\* Full leaves of ascending keys; the root has the first key of each leaf but
\* the first.
Ascending(s) == \A i, j \in DOMAIN s : i < j => s[i] < s[j]
Leaves(order, n) ==
    [l \in 1 .. n |-> SubSeq(order, (l - 1) * LeafSize + 1, l * LeafSize)]
Root == [l \in 1 .. Len(Keys) - 1 |-> Keys[l + 1][1]]

Init ==
    /\ \E n \in 1 .. MaxLeaves : \E order \in [1 .. n * LeafSize -> 1 .. LastKey] :
          Ascending(order) /\ Keys = Leaves(order, n)
    /\ searchKey \in 0 .. LastKey + 1
    /\ level = 1 /\ childIndex = 0 /\ answer = Missing

-----------------------------------------------------------------------------
descendAfter ==  \* variant: a key of the root stays on its left
    /\ level = 1
    /\ childIndex' = Max({0} \cup {i \in DOMAIN Root : searchKey > Root[i]})
    /\ level' = 2
    /\ UNCHANGED <<Keys, searchKey, answer>>

\* The last key of the root that is not above searchKey decides.
descend ==
    /\ level = 1
    /\ childIndex' = Max({0} \cup {i \in DOMAIN Root : searchKey >= Root[i]})
    /\ level' = 2
    /\ UNCHANGED <<Keys, searchKey, answer>>

scanLeaf ==
    /\ level = 2
    /\ answer' = IF searchKey \in Range(Keys[childIndex + 1]) THEN searchKey
                 ELSE Missing
    /\ level' = 3
    /\ UNCHANGED <<Keys, searchKey, childIndex>>

Next == descend \/ scanLeaf

-----------------------------------------------------------------------------
\* Rows and names as they are listed; a row is its id, its name and its age.
clusteredIndex ==
    1 :> <<1, "Alice", 25>> @@ 2 :> <<2, "Bob", 30>> @@
    3 :> <<3, "Charlie", 28>> @@ 5 :> <<5, "Eve", 22>>
secondaryIndex == "Alice" :> 1 @@ "Bob" :> 2 @@ "Charlie" :> 3 @@ "Eve" :> 5

\* Every column needed is in the index, or is the primary key, which it has.
isCovering(index, select, where) ==
    \A col \in select \cup where : \E idxCol \in index : col = idxCol \/ col = "id"

\* The conditions of the listed queries and the columns of (a, b, c) each uses.
queries ==
    { [where |-> {"a"}, canUse |-> <<"a">>],
      [where |-> {"a", "b"}, canUse |-> <<"a", "b">>],
      [where |-> {"a", "b", "c"}, canUse |-> <<"a", "b", "c">>],
      [where |-> {"b"}, canUse |-> <<>>],
      [where |-> {"b", "c"}, canUse |-> <<>>],
      [where |-> {"a", "c"}, canUse |-> <<"a">>] }

-----------------------------------------------------------------------------
\* A search that has ended found the key if and only if some leaf has it.
SearchFindsTheRow ==
    level = 3 =>
    answer = IF \E l \in DOMAIN Keys : searchKey \in Range(Keys[l])
             THEN searchKey ELSE Missing

\* Going back to the clustered index by the key a name has yields the row of
\* that name, for each row.
NoRowIsMissed ==
    /\ \A name \in DOMAIN secondaryIndex :
          /\ secondaryIndex[name] \in DOMAIN clusteredIndex
          /\ clusteredIndex[secondaryIndex[name]][2] = name
    /\ \A id \in DOMAIN clusteredIndex :
          /\ clusteredIndex[id][1] = id
          /\ secondaryIndex[clusteredIndex[id][2]] = id

\* An index covers a query if the leaf has all it needs: the columns of the
\* index and the primary key (main.go:190-191).
CoveringIsExact ==
    \A index \in SUBSET Column \ {{}}, select, where \in SUBSET Column :
        isCovering(index, select, where) <=>
        select \cup where \subseteq index \cup {"id"}

\* main.go:264-271: a query uses the longest prefix of the index that its
\* condition names completely.
LeftmostPrefix ==
    \A q \in queries :
        LET usable == {n \in 0 .. 3 : \A k \in 1 .. n : <<"a", "b", "c">>[k] \in q.where}
        IN  q.canUse = SubSeq(<<"a", "b", "c">>, 1, Max(usable))
=============================================================================
