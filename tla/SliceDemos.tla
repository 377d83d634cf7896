----------------------------- MODULE SliceDemos -----------------------------
(***************************************************************************)
(* Slices of 01-basics/slice/main.go and the route groups of               *)
(* 05-webframework/router/main.go.  A slice is an array, an offset, a      *)
(* length and a capacity; several slices may share an array.  The          *)
(* functions of the demos are applied to a slice one after another, in any *)
(* order, while others made of it stay in use; `want` says what each slice *)
(* should then have.                                                       *)
(***************************************************************************)
EXTENDS Integers, SequencesExt, Selections

CONSTANTS Elements,  \* of slices
          MaxSlice,  \* length of a slice
          MaxArrays, \* that append makes for the slice
          MaxViews,  \* other slices in use
          MaxRoutes  \* of a group

VARIABLES mem,     \* the arrays, as far as their capacities go
          s,       \* the slice
          want,    \* history: what the operations so far should yield
          group,   \* s has the middlewares of a group of routes
          views    \* the other slices, each with what it should have; of a
                   \* group, its routes, with the chain each was made of

sliceVars == <<mem, s, want, group, views>>

Blank == 0
Header(a, off, len, cap) == [arr |-> a, off |-> off, len |-> len, cap |-> cap]
Content(m, t) == SubSeq(m[t.arr], t.off + 1, t.off + t.len)

\* Writing values into an array from position p + 1 on.
Written(array, p, values) ==
    [k \in DOMAIN array |-> IF k \in p + 1 .. p + Len(values) THEN values[k - p]
                            ELSE array[k]]

\* t[i:j:k]
Resliced(t, i, j, k) == Header(t.arr, t.off + i, j - i, k - i)

Literal(values) == Header(1, 0, Len(values), Len(values))

\* The capacity doubles, or is what is needed when that is more.
Grown(cap, len) == Max({2 * cap, len})

\* append(t, values...): behind the slice's end in its own array if the
\* capacity allows, otherwise in a copy.
AppendTo(m, t, values) ==
    LET len == t.len + Len(values)
        cap == Grown(t.cap, len)
        array == Written([k \in 1 .. cap |-> Blank], 0, Content(m, t) \o values)
    IN  IF len <= t.cap
        THEN [mem |-> [m EXCEPT ![t.arr] = Written(@, t.off + t.len, values)],
              slice |-> [t EXCEPT !.len = len]]
        ELSE [mem |-> Append(m, array), slice |-> Header(Len(m) + 1, 0, len, cap)]

Set(m, t, i, v) == [m EXCEPT ![t.arr] = Written(@, t.off + i, <<v>>)]

\* []T{...}; a group begins with one middleware.
Init ==
    /\ views = <<>>
    /\ group \in BOOLEAN
    /\ \E values \in BoundedSeq(Elements, MaxSlice) :
          /\ group => Len(values) = 1
          /\ mem = <<values>> /\ s = Literal(values) /\ want = values

Indexes == 0 .. s.len - 1
Room == s.len < MaxSlice /\ (group \/ Len(mem) < MaxArrays)

\* When a slice t comes to have w, another one sees that in the places both
\* have of an array, and keeps what it has in all the others.
Seen(view, t, w) ==
    LET place(k) == view.slice.off + k - t.off
        shared(k) == view.slice.arr = t.arr /\ place(k) \in DOMAIN w
    IN  [view EXCEPT !.want =
           [k \in DOMAIN @ |-> IF shared(k) THEN w[place(k)] ELSE @[k]]]

AllSee(t, w) == [v \in DOMAIN views |-> Seen(views[v], t, w)]

-----------------------------------------------------------------------------
\* s = append(s, v); for a group, one more middleware.
capacityAndGrowth ==
    /\ Room
    /\ \E v \in Elements :
          LET r == AppendTo(mem, s, <<v>>)
          IN  mem' = r.mem /\ s' = r.slice /\ want' = Append(want, v)
    /\ views' = AllSee(s', want')
    /\ UNCHANGED group

\* The two functions get a copy of the header, and drop what append made of it.
modifySlice ==
    /\ s.len > 0
    /\ \E v \in Elements : mem' = Set(mem, s, 0, v) /\ want' = [want EXCEPT ![1] = v]
    /\ views' = AllSee(s, want')
    /\ UNCHANGED <<s, group>>

appendSlice ==
    /\ Room
    /\ \E v \in Elements :
          LET r == AppendTo(mem, s, <<v>>)
          IN  mem' = r.mem /\ views' = AllSee(r.slice, Append(want, v))
    /\ UNCHANGED <<s, want, group>>

\* s[i:j], and s[i:j:j], whose capacity ends where its elements end.
structure ==
    /\ \E i \in 0 .. s.len : \E j \in i .. s.len : \E k \in {j, s.cap} :
          s' = Resliced(s, i, j, k) /\ want' = SubSeq(want, i + 1, j)
    /\ UNCHANGED <<mem, group, views>>

\* s2 := s[0:len(s)]: one of the two stays in use beside the other; and the
\* work goes on with that one.
sliceTraps ==
    /\ \/ /\ Len(views) < MaxViews
          /\ views' = Append(views, [slice |-> s, want |-> want, made |-> <<>>])
          /\ UNCHANGED <<s, want>>
       \/ \E v \in DOMAIN views :
             /\ s' = views[v].slice /\ want' = views[v].want
             /\ views' = [views EXCEPT ![v] = [@ EXCEPT !.slice = s, !.want = want]]
    /\ UNCHANGED <<mem, group>>

removeFast ==
    /\ \E i \in Indexes :
          /\ mem' = Set(mem, s, i, Last(Content(mem, s)))
          /\ want' = Front([want EXCEPT ![i + 1] = Last(want)])
    /\ s' = [s EXCEPT !.len = @ - 1]
    /\ views' = AllSee(s', want')
    /\ UNCHANGED group

\* append(s[:i], s[i+1:]...)
remove ==
    /\ \E i \in Indexes :
          LET r == AppendTo(mem, Resliced(s, 0, i, s.cap),
                            Content(mem, Resliced(s, i + 1, s.len, s.cap)))
          IN  mem' = r.mem /\ s' = r.slice /\ want' = RemoveAt(want, i + 1)
    /\ views' = AllSee(s', want')
    /\ UNCHANGED group

insertOverwriting ==  \* variant: append(append(s[:i], v), s[i:]...)
    /\ Room
    /\ \E i \in Indexes, v \in Elements :
          LET p == AppendTo(mem, Resliced(s, 0, i, s.cap), <<v>>)
              r == AppendTo(p.mem, p.slice, Content(p.mem, Resliced(s, i, s.len, s.cap)))
          IN  mem' = r.mem /\ s' = r.slice /\ want' = InsertAt(want, i + 1, v)
    /\ views' = AllSee(s', want')
    /\ UNCHANGED group

\* append(s[:i+1], s[i:]...), then s[i] = v
insert ==
    /\ Room
    /\ \E i \in Indexes, v \in Elements :
          LET r == AppendTo(mem, Resliced(s, 0, i + 1, s.cap),
                            Content(mem, Resliced(s, i, s.len, s.cap)))
          IN  /\ mem' = Set(r.mem, r.slice, i, v)
              /\ s' = r.slice
              /\ want' = InsertAt(want, i + 1, v)
    /\ views' = AllSee(s', want')
    /\ UNCHANGED group

\* The first of each run of equal elements: of a sorted slice, each of its
\* elements once.
Firsts(values) ==
    LET places == Kept([k \in DOMAIN values |-> k],
                       {k \in DOMAIN values : k = 1 \/ values[k] # values[k - 1]})
    IN  [k \in DOMAIN places |-> values[places[k]]]

\* Element i replaces what is behind the last one kept, if it is another one.
At(m, k) == Content(m, s)[k + 1]
KeepOther(p, i) ==
    IF At(p.m, p.j) = At(p.m, i) THEN p
    ELSE [m |-> Set(p.m, s, p.j + 1, At(p.m, i)), j |-> p.j + 1]

Others ==
    LET step[i \in 0 .. s.len - 1] ==
          IF i = 0 THEN [m |-> mem, j |-> 0] ELSE KeepOther(step[i - 1], i)
    IN  step

\* The slice must be sorted, and have an element, for s[:j+1] to be right.
dedup ==
    /\ s.len > 0
    /\ \A k \in 1 .. s.len - 1 : Content(mem, s)[k] <= Content(mem, s)[k + 1]
    /\ LET all == Others[s.len - 1]
       IN  mem' = all.m /\ s' = [s EXCEPT !.len = all.j + 1]
    /\ want' = Firsts(want)
    /\ views' = AllSee(s', want')
    /\ UNCHANGED group

\* Even elements move to the front.
Even == {v \in Int : v % 2 = 0}
KeepEven(p, i) ==
    LET v == At(p.m, i)
    IN  IF v \in Even THEN [m |-> Set(p.m, s, p.n, v), n |-> p.n + 1] ELSE p
Evens ==
    LET step[i \in 0 .. s.len] ==
          IF i = 0 THEN [m |-> mem, n |-> 0] ELSE KeepEven(step[i - 1], i - 1)
    IN  step

filter ==
    /\ LET all == Evens[s.len] IN mem' = all.m /\ s' = [s EXCEPT !.len = all.n]
    /\ want' = Kept(want, Even)
    /\ views' = AllSee(s', want')
    /\ UNCHANGED group

\* append(middlewares, handler), for each route of the group.
registerRoute ==
    /\ group /\ Len(views) < MaxRoutes
    /\ \E handler \in Elements :
          LET r == AppendTo(mem, s, <<handler>>)
              chain == Append(want, handler)
          IN  /\ mem' = r.mem
              /\ views' = Append(AllSee(r.slice, chain),
                                 [slice |-> r.slice, want |-> chain, made |-> chain])
    /\ UNCHANGED <<s, want, group>>

sliceTricks == removeFast \/ remove \/ insert \/ dedup \/ filter
sliceAsParameter == modifySlice \/ appendSlice

Next ==
    \/ /\ ~group
       /\ structure \/ sliceAsParameter \/ sliceTraps \/ sliceTricks
    \/ capacityAndGrowth
    \/ registerRoute

-----------------------------------------------------------------------------
\* Every slice in use has what it should have; and of a group with one or two
\* middlewares, as the groups of groupDemo, each route is as it was made.
SlicesAsSpecified ==
    /\ Content(mem, s) = want
    /\ \A v \in DOMAIN views :
          /\ Content(mem, views[v].slice) = views[v].want
          /\ group /\ s.len <= 2 => views[v].want = views[v].made

\* A route has the group's middlewares and its own handler, as it was made.
RoutesKeepTheirHandlers ==
    group => \A r \in DOMAIN views : Content(mem, views[r].slice) = views[r].made
=============================================================================
