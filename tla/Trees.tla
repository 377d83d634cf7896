------------------------------- MODULE Trees -------------------------------
(***************************************************************************)
(* The search tree and the heap of 09-algorithm/tree/main.go, with the two *)
(* procedures of container/heap that IntHeap is used through.              *)
(***************************************************************************)
EXTENDS Integers, SequencesExt, BagsExt

CONSTANTS Numbers,   \* what is inserted
          MaxNodes,  \* no larger tree or heap
          K          \* as many as TopK keeps

VARIABLES nodes,   \* of the tree, in the order they were made
          h,       \* the heap
          role,    \* what the heap is for
          given,   \* history: what was inserted, in order
          popped   \* history: what was popped

treeVars == <<nodes, h, role, given, popped>>

nil == 0
Node(v) == [Val |-> v, Left |-> nil, Right |-> nil]
Roles == {"none", "queue", "topK"}

-----------------------------------------------------------------------------
\* Where the search for v ends below node n: at v itself or at the node that
\* has no child on that side.
Below(t, n, v) == IF v < t[n].Val THEN t[n].Left
                  ELSE IF v > t[n].Val THEN t[n].Right ELSE nil
End(t, v) ==
    LET from[n \in DOMAIN t] ==
          IF Below(t, n, v) = nil THEN n ELSE from[Below(t, n, v)]
    IN  from[1]

bstInsert(t, v) ==
    IF t = <<>> THEN <<Node(v)>>
    ELSE LET n == End(t, v)
             new == Len(t) + 1
         IN  CASE v < t[n].Val -> Append([t EXCEPT ![n].Left = new], Node(v))
               [] v > t[n].Val -> Append([t EXCEPT ![n].Right = new], Node(v))
               [] OTHER -> t

\* The three traversals, from node n on.
Traversal(t, order(_, _, _)) ==
    LET visit[n \in 0 .. Len(t)] ==
          IF n = nil THEN <<>>
          ELSE order(<<t[n].Val>>, visit[t[n].Left], visit[t[n].Right])
    IN  visit[IF t = <<>> THEN nil ELSE 1]
preorder(t) == Traversal(t, LAMBDA v, l, r : v \o l \o r)
inorder(t) == Traversal(t, LAMBDA v, l, r : l \o v \o r)
postorder(t) == Traversal(t, LAMBDA v, l, r : l \o r \o v)

\* The queue takes a node from its front and its children at its end.
levelorder(t) ==
    LET children(n) == SelectSeq(<<t[n].Left, t[n].Right>>, LAMBDA c : c # nil)
        visit[q \in Seq(1 .. Len(t))] ==
          IF q = <<>> THEN <<>>
          ELSE <<t[Head(q)].Val>> \o visit[Tail(q) \o children(Head(q))]
    IN  visit[IF t = <<>> THEN <<>> ELSE <<1>>]

-----------------------------------------------------------------------------
\* IntHeap: element i of the slice is at i + 1.
Less(s, i, j) == s[i + 1] < s[j + 1]
Swap(s, i, j) == [s EXCEPT ![i + 1] = s[j + 1], ![j + 1] = s[i + 1]]

\* container/heap: a smaller element rises, a larger one of the first n sinks.
up(s, j) ==
    LET rise[t \in Seq(Numbers), c \in 0 .. Len(s)] ==
          LET parent == (c - 1) \div 2
          IN  IF c = 0 \/ ~Less(t, c, parent) THEN t
              ELSE rise[Swap(t, parent, c), parent]
    IN  rise[s, j]

down(s, i, n) ==
    LET sink[t \in Seq(Numbers), p \in 0 .. Len(s)] ==
          LET left == 2 * p + 1
              least == IF left + 1 < n /\ Less(t, left + 1, left) THEN left + 1
                       ELSE left
          IN  IF left >= n \/ ~Less(t, least, p) THEN t
              ELSE sink[Swap(t, p, least), least]
    IN  sink[s, i]

HeapInit(s) == FoldRight(LAMBDA i, t : down(t, i, Len(s)),
                         [i \in 1 .. Len(s) \div 2 |-> i - 1], s)
Push(s, x) == up(Append(s, x), Len(s))
\* The minimum changes places with the last element, which sinks; then IntHeap
\* gives up the last place.
Popped(s) == Head(s)
PopShallow(s) ==  \* variant: the element in front does not sink
    Front(Swap(s, 0, Len(s) - 1))
Pop(s) == Front(down(Swap(s, 0, Len(s) - 1), 0, Len(s) - 1))

-----------------------------------------------------------------------------
Init ==
    /\ nodes = <<>> /\ popped = <<>>
    /\ role \in Roles
    /\ given \in IF role = "queue" THEN BoundedSeq(Numbers, MaxNodes - 1) ELSE {<<>>}
    /\ h = HeapInit(given)

bstDemo ==
    /\ role = "none" /\ Len(given) < MaxNodes
    /\ \E v \in Numbers : nodes' = bstInsert(nodes, v) /\ given' = Append(given, v)
    /\ UNCHANGED <<h, role, popped>>

heapPush ==
    /\ role = "queue" /\ Len(given) < MaxNodes
    /\ \E x \in Numbers : h' = Push(h, x) /\ given' = Append(given, x)
    /\ UNCHANGED <<nodes, role, popped>>

heapPop ==
    /\ role \in {"queue", "topK"} /\ h # <<>>
    /\ h' = Pop(h)
    /\ popped' = Append(popped, Popped(h))
    /\ UNCHANGED <<nodes, role, given>>

topK ==
    /\ role = "topK" /\ popped = <<>> /\ Len(given) < MaxNodes
    /\ \E x \in Numbers :
          LET all == Push(h, x)
          IN  /\ h' = IF Len(all) > K THEN Pop(all) ELSE all
              /\ given' = Append(given, x)
    /\ UNCHANGED <<nodes, role, popped>>

Next == bstDemo \/ heapPush \/ heapPop \/ topK

-----------------------------------------------------------------------------
\* The tree has each value that was inserted once, in order, and inserting
\* what a traversal that reaches parents first printed makes the same tree.
TreeIsOrdered ==
    LET Same(order) ==
          preorder(FoldLeft(bstInsert, <<>>, order)) = preorder(nodes)
    IN  role = "none" =>
        /\ inorder(nodes) = SetToSortSeq(ToSet(given), <)
        /\ Same(preorder(nodes)) /\ Same(levelorder(nodes))
        /\ Same(Reverse(postorder(nodes)))

\* No element is smaller than its parent; nothing is lost or doubled; and what
\* TopK keeps is the K largest, popped in order.
HeapIsSound ==
    /\ \A j \in 1 .. Len(h) - 1 : ~Less(h, j, (j - 1) \div 2)
    /\ role = "queue" =>
          ToBag(given) = ToBag(h) (+) ToBag(popped)
    /\ role = "topK" =>
          LET sorted == SortSeq(given, <)
              best == SubSeq(sorted, Max({1, Len(sorted) - K + 1}), Len(sorted))
          IN  popped \o SortSeq(h, <) = best
=============================================================================
