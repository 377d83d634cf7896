------------------------- MODULE TopicViewerProofs -------------------------
(***************************************************************************)
(* Proofs about the page, for every catalogue of topics, every set of      *)
(* searches and any number of loads.                                       *)
(***************************************************************************)
EXTENDS TopicViewer, TLAPS

\* Min finds the least of some numbers.
LEMMA MinIsLeast ==
    ASSUME NEW T \in SUBSET Nat, T # {}
    PROVE  Min(T) \in T /\ \A k \in T : Min(T) <= k
BY Least DEF Min

\* What the server answers is a topic of the catalogue with the id asked for.
LEMMA AnswerFits ==
    ASSUME NEW id, NEW data \in handleTopic(Topics, id)
    PROVE  data.id = id /\ data \in {Topics[i] : i \in DOMAIN Topics}
<1> DEFINE I == {i \in 1 .. Len(Topics) : Topics[i].id = id}
<1>1. I # {} /\ data = Topics[Min(I)]
  <2>1. I \in SUBSET Nat
    OBVIOUS
  <2>2. \A i \in 1 .. Len(Topics) : i # 0
    OBVIOUS
  <2>3. I # {} => Min(I) \in I
    BY <2>1, MinIsLeast
  <2> QED BY <2>2, <2>3 DEF handleTopic, SelectInSeq
<1>2. Min(I) \in I
  BY <1>1, MinIsLeast
<1>3. DOMAIN Topics = 1 .. Len(Topics)
  BY CatalogAssumption
<1> QED BY <1>1, <1>2, <1>3

\* The list of the sidebar has the ids of the catalogue.
LEMMA ListHasIds ==
    /\ IdsOf(getTopicList(Topics)) = Ids
    /\ IdsOf(<<>>) = {}
    /\ \A list \in {<<>>, getTopicList(Topics)} : IdsOf(list) \subseteq Ids
<1>1. IdsOf(getTopicList(Topics)) = Ids
  BY DEF IdsOf, Ids, getTopicList
<1>2. IdsOf(<<>>) = {}
  BY DEF IdsOf
<1> QED BY <1>1, <1>2

-----------------------------------------------------------------------------
\* The answer under way to the last request is about the current topic.
PageInv ==
    /\ TypeOK
    /\ PageIsConsistent
    /\ \A r \in requests : r.n = issued => r.id = currentTopic

\* loadTopic, called with the list the page has or has just received.
LEMMA LoadStep ==
    ASSUME PageInv, NEW id, loadTopic(topics', id),
           topics' \in {<<>>, getTopicList(Topics)}, topics \in {<<>>, topics'},
           visible' \subseteq IdsOf(topics')
    PROVE  PageInv'
<1>1. IdsOf(topics) \subseteq IdsOf(topics')
  BY ListHasIds
<1>2. CASE /\ id \notin IdsOf(topics')
           /\ UNCHANGED <<currentTopic, visitedTopics, hash, requests, issued, shown, open>>
  BY <1>1, <1>2 DEF PageInv, TypeOK, PageIsConsistent
<1>3. CASE id \in IdsOf(topics') /\ issued < MaxLoads
  <2>1. /\ issued' = issued + 1 /\ currentTopic' = id /\ hash' = id
        /\ visitedTopics' = visitedTopics \cup {id}
        /\ requests' = requests \cup {[n |-> issued + 1, id |-> id]}
        /\ UNCHANGED <<shown, open>>
    BY <1>3 DEF loadTopic
  <2>2. issued \in Nat /\ issued' \in 0 .. MaxLoads
    <3>1. issued \in 0 .. MaxLoads
      BY DEF PageInv, TypeOK
    <3> QED BY <1>3, <2>1, <3>1, PageAssumption
  <2>3. id \in Ids
    BY <1>3, ListHasIds
  <2>4. \A r \in requests : r \in [n : 1 .. issued, id : visitedTopics] /\ r.n # issued'
    <3>1. requests \subseteq [n : 1 .. issued, id : visitedTopics]
      BY DEF PageInv, TypeOK
    <3>2. \A k \in 1 .. issued : k # issued'
      BY <2>1, <2>2
    <3> QED BY <3>1, <3>2
  <2>5. requests' \subseteq [n : 1 .. issued', id : visitedTopics']
    BY <2>1, <2>2, <2>4
  <2>6. TypeOK'
    BY <1>1, <1>3, <2>1, <2>2, <2>3, <2>5 DEF PageInv, TypeOK
  <2>7. PageIsConsistent'
    BY <2>1 DEF PageInv, PageIsConsistent
  <2>8. \A r \in requests' : r.n = issued' => r.id = currentTopic'
    BY <2>1, <2>4
  <2> QED BY <2>6, <2>7, <2>8 DEF PageInv
<1> QED BY <1>2, <1>3 DEF loadTopic

LEMMA PageStep == ASSUME PageInv, Next PROVE PageInv'
<1>1. CASE init
  BY <1>1, LoadStep DEF init
<1>2. ASSUME NEW r \in requests, Respond(r) PROVE PageInv'
  <2>1. PICK data \in handleTopic(Topics, r.id) : Render(data)
    BY <1>2 DEF Respond
  <2>2. data.id = r.id /\ data \in {Topics[i] : i \in DOMAIN Topics}
    BY <2>1, AnswerFits
  <2>3. data.sections \in Nat
    <3> DEFINE R == [id : STRING, chapter : STRING, sections : Nat]
    <3>1. \A i \in DOMAIN Topics : Topics[i] \in R
      <4>1. Topics \in Seq(R)
        BY CatalogAssumption
      <4> HIDE DEF R
      <4> QED BY <4>1
    <3>2. data \in [id : STRING, chapter : STRING, sections : Nat]
      BY <2>2, <3>1
    <3> QED BY <3>2
  <2>4. r.id \in visitedTopics
    BY DEF PageInv, TypeOK
  <2>5. /\ shown' = data /\ open' = IF data.sections > 0 THEN {1} ELSE {}
        /\ requests' = requests \ {r}
        /\ UNCHANGED <<topics, currentTopic, visitedTopics, hash, issued, visible>>
    BY <1>2, <2>1 DEF Respond, Render
  <2>6. TypeOK'
    BY <2>2, <2>5 DEF PageInv, TypeOK
  <2>7. PageIsConsistent'
    BY <2>2, <2>3, <2>4, <2>5 DEF PageIsConsistent
  <2>8. \A q \in requests' : q.n = issued' => q.id = currentTopic'
    BY <2>5 DEF PageInv
  <2> QED BY <2>6, <2>7, <2>8 DEF PageInv
<1>3. ASSUME NEW r \in requests, Lose(r) PROVE PageInv'
  BY <1>3 DEF Lose, PageInv, TypeOK, PageIsConsistent
<1>4. ASSUME NEW id \in Ids, Click(id) PROVE PageInv'
  <2>1. topics' = topics /\ visible' = visible
    BY <1>4 DEF Click
  <2> QED BY <1>4, <2>1, LoadStep DEF Click, PageInv, TypeOK
<1>5. CASE Arrow
  <2>1. topics' = topics /\ visible' = visible
    BY <1>5 DEF Arrow
  <2>2. PICK id : loadTopic(topics, id)
    BY <1>5 DEF Arrow
  <2> QED BY <2>1, <2>2, LoadStep DEF PageInv, TypeOK
<1>6. ASSUME NEW match \in Matches, Search(match) PROVE PageInv'
  <2>1. topics = getTopicList(Topics) /\ match \subseteq IdsOf(topics)
    BY <1>6, ListHasIds, PageAssumption DEF Search, PageInv, TypeOK
  <2> QED BY <1>6, <2>1 DEF Search, PageInv, TypeOK, PageIsConsistent
<1>7. ASSUME NEW i \in 1 .. shown.sections, toggleSection(i) PROVE PageInv'
  BY <1>7 DEF toggleSection, PageInv, TypeOK, PageIsConsistent
<1> QED BY <1>1, <1>2, <1>3, <1>4, <1>5, <1>6, <1>7 DEF Next

\* The page, wherever the answers and the user come in each other's way.
THEOREM PageCorrect == Spec => []PageInv
<1>1. Init => PageInv
  <2> SUFFICES ASSUME Init PROVE PageInv
    OBVIOUS
  <2>1. Welcome.sections = 0
    BY DEF Welcome, Topic
  <2>2. TypeOK
    <3>1. issued \in 0 .. MaxLoads
      <4>1. MaxLoads \in Nat /\ issued = 0
        BY PageAssumption DEF Init
      <4> QED BY <4>1
    <3>2. /\ topics = <<>> /\ currentTopic = "" /\ visitedTopics = {} /\ requests = {}
          /\ visible = {} /\ shown = Welcome /\ hash \in Hashes
      BY DEF Init
    <3>3. requests \subseteq [n : 1 .. issued, id : visitedTopics]
      BY <3>2
    <3>4. /\ topics \in {<<>>, getTopicList(Topics)} /\ hash \in Hashes \cup Ids
          /\ currentTopic \in visitedTopics \cup {""} /\ visitedTopics \subseteq IdsOf(topics)
          /\ shown \in {Welcome} \cup {Topics[i] : i \in DOMAIN Topics}
          /\ visible \subseteq IdsOf(topics)
      BY <3>2
    <3> QED BY <3>1, <3>3, <3>4 DEF TypeOK
  <2>3. PageIsConsistent
    BY DEF Init, PageIsConsistent
  <2> QED BY <2>2, <2>3 DEF Init, PageInv
<1>2. PageInv /\ [Next]_vars => PageInv'
  <2> SUFFICES ASSUME PageInv, [Next]_vars PROVE PageInv'
    OBVIOUS
  <2>1. CASE Next
    BY <2>1, PageStep
  <2>2. CASE UNCHANGED vars
    BY <2>2 DEF vars, PageInv, TypeOK, PageIsConsistent
  <2> QED BY <2>1, <2>2
<1> QED BY <1>1, <1>2, PTL DEF Spec

\* For every catalogue: the page never knows a topic, a request or an entry
\* that its list does not have, so the progress bar ends at 100%.
THEOREM TypeCorrect == Spec => []TypeOK
<1>1. PageInv => TypeOK
  BY DEF PageInv
<1> QED BY <1>1, PageCorrect, PTL

\* For every catalogue: a topic on the page is one the user chose, and its
\* open sections are sections it has.
THEOREM PageStaysConsistent == Spec => []PageIsConsistent
<1>1. PageInv => PageIsConsistent
  BY DEF PageInv
<1> QED BY <1>1, PageCorrect, PTL

\* For every catalogue: the answer to the last request shows the topic that
\* is current when it arrives, whatever other answers are still to come.
THEOREM NewestAnswerFits == Spec => NewestAnswerIsCurrent
<1> DEFINE Fits == \A r \in requests :
                      r.n = issued /\ r \notin requests' /\ shown' # shown
                          => shown'.id = currentTopic'
<1>1. PageInv /\ [Next]_vars => [Fits]_vars
  <2> SUFFICES ASSUME PageInv, Next, NEW r \in requests,
                      r.n = issued, r \notin requests', shown' # shown
               PROVE  shown'.id = currentTopic'
    OBVIOUS
  <2>1. PICK q \in requests : Respond(q)
    BY DEF Next, init, loadTopic, Lose, Click, Arrow, Search, toggleSection
  <2>2. q = r /\ currentTopic' = currentTopic
    BY <2>1 DEF Respond
  <2>3. PICK data \in handleTopic(Topics, r.id) : shown' = data
    BY <2>1, <2>2 DEF Respond, Render
  <2>4. shown'.id = r.id
    BY <2>3, AnswerFits
  <2> QED BY <2>2, <2>4 DEF PageInv
<1> QED BY <1>1, PageCorrect, PTL DEF Spec, NewestAnswerIsCurrent

-----------------------------------------------------------------------------
\* Between two topics of a chapter there are only topics of that chapter.
ChaptersTogether(list) ==
    \A i, j, k \in DOMAIN list :
        i <= j /\ j <= k /\ list[i].chapter = list[k].chapter
            => list[j].chapter = list[i].chapter

\* getAllTopics lists the topics chapter by chapter.
THEOREM CatalogKeepsChapters == ChaptersTogether(getAllTopics)
<1> DEFINE chapter(i) == IF i <= 6 THEN "01-basics"
                         ELSE IF i <= 11 THEN "02-concurrency"
                         ELSE IF i <= 14 THEN "03-memory" ELSE "04-performance"
           a == getAllTopics
<1>1. DOMAIN a = 1 .. 16
  BY DEF getAllTopics
<1>2. /\ a[1].chapter = chapter(1) /\ a[2].chapter = chapter(2) /\ a[3].chapter = chapter(3)
      /\ a[4].chapter = chapter(4) /\ a[5].chapter = chapter(5) /\ a[6].chapter = chapter(6)
      /\ a[7].chapter = chapter(7) /\ a[8].chapter = chapter(8) /\ a[9].chapter = chapter(9)
      /\ a[10].chapter = chapter(10) /\ a[11].chapter = chapter(11)
      /\ a[12].chapter = chapter(12) /\ a[13].chapter = chapter(13)
      /\ a[14].chapter = chapter(14) /\ a[15].chapter = chapter(15)
      /\ a[16].chapter = chapter(16)
  BY DEF getAllTopics, Topic, sliceTopic, mapTopic, stringTopic, interfaceTopic, deferTopic,
         pointerTopic, goroutineTopic, channelTopic, syncTopic, contextTopic, patternTopic,
         gcTopic, escapeTopic, alignmentTopic, profilingTopic, benchmarkTopic
<1> HIDE DEF a
<1>3. \A i \in 1 .. 16 : a[i].chapter = chapter(i)
  <2> HIDE DEF chapter
  <2>1. \A i \in 1 .. 16 : \/ i = 1 \/ i = 2 \/ i = 3 \/ i = 4 \/ i = 5 \/ i = 6
                          \/ i = 7 \/ i = 8 \/ i = 9 \/ i = 10 \/ i = 11 \/ i = 12
                          \/ i = 13 \/ i = 14 \/ i = 15 \/ i = 16
    OBVIOUS
  <2> QED BY <1>2, <2>1
<1>4. ChaptersTogether(a)
  <2> SUFFICES ASSUME NEW i \in 1 .. 16, NEW j \in 1 .. 16, NEW k \in 1 .. 16,
                      i <= j, j <= k, chapter(i) = chapter(k)
               PROVE  chapter(j) = chapter(i)
    BY <1>1, <1>3 DEF ChaptersTogether
  <2> QED OBVIOUS
<1> QED BY <1>4 DEF a

\* For every catalogue listed chapter by chapter, as getAllTopics is: the
\* sidebar, which starts a group wherever the chapter changes, has one group
\* for each.
THEOREM OneGroupEach ==
    ASSUME ChaptersTogether(Topics)
    PROVE  Spec => []OneGroupPerChapter
<1>1. TypeOK => OneGroupPerChapter
  <2> SUFFICES ASSUME TypeOK, NEW i \in DOMAIN topics, NEW j \in DOMAIN topics, i < j,
                      Starts(j), topics[i].chapter = topics[j].chapter
               PROVE  FALSE
    <3> SUFFICES ASSUME TypeOK, NEW i \in DOMAIN topics, NEW j \in DOMAIN topics,
                        Starts(i), Starts(j), topics[i].chapter = topics[j].chapter,
                        ~(i < j), ~(j < i)
                 PROVE  i = j
      BY DEF OneGroupPerChapter
    <3>1. DOMAIN Topics \subseteq Nat
      <4>1. DOMAIN Topics = 1 .. Len(Topics)
        BY CatalogAssumption
      <4> QED BY <4>1
    <3>2. topics = <<>> \/ DOMAIN topics = DOMAIN Topics
      BY DEF TypeOK, getTopicList
    <3> QED BY <3>1, <3>2
  <2>1. topics = getTopicList(Topics)
    <3>1. topics # <<>>
      OBVIOUS
    <3> QED BY <3>1 DEF TypeOK
  <2>2. /\ DOMAIN topics = DOMAIN Topics
        /\ \A k \in DOMAIN Topics : topics[k].chapter = Topics[k].chapter
    BY <2>1 DEF getTopicList
  <2>3. Len(Topics) \in Nat /\ DOMAIN Topics = 1 .. Len(Topics)
    BY CatalogAssumption
  <2>4. j # 1 /\ j - 1 \in DOMAIN Topics /\ i <= j - 1 /\ j - 1 <= j
    BY <2>2, <2>3
  <2>5. topics[j].chapter # topics[j - 1].chapter
    BY <2>4 DEF Starts
  <2> QED BY <2>2, <2>4, <2>5 DEF ChaptersTogether
<1> QED BY <1>1, TypeCorrect, PTL

-----------------------------------------------------------------------------
\* The visible entries are distinct, and SelectInSeq finds the place of each.
LEMMA EntriesAreDistinct ==
    ASSUME TypeOK
    PROVE  /\ Len(Items) \in Nat
           /\ \A k \in 1 .. Len(Items) : ActiveIdx(Items[k]) = k
           /\ \A id \in visible : \E k \in 1 .. Len(Items) : Items[k] = id
<1> DEFINE ids == [i \in DOMAIN topics |-> topics[i].id]
<1>1. /\ ids \in Seq(Ids) /\ IdsOf(topics) = {ids[i] : i \in 1 .. Len(ids)}
      /\ \A i, j \in 1 .. Len(ids) : ids[i] = ids[j] => i = j
  <2>1. CASE topics = <<>>
    BY <2>1 DEF IdsOf
  <2>2. CASE topics = getTopicList(Topics)
    <3>1. Len(Topics) \in Nat /\ DOMAIN Topics = 1 .. Len(Topics)
      BY CatalogAssumption
    <3>2. ids = [i \in 1 .. Len(Topics) |-> Topics[i].id]
      BY <2>2, <3>1 DEF getTopicList
    <3>3. ids \in Seq(Ids) /\ Len(ids) = Len(Topics)
      BY <3>1, <3>2 DEF Ids, IdsOf
    <3>4. DOMAIN topics = 1 .. Len(ids) /\ \A i \in 1 .. Len(ids) : topics[i].id = ids[i]
      BY <2>2, <3>1, <3>2, <3>3 DEF getTopicList
    <3>5. \A i, j \in 1 .. Len(ids) : ids[i] = ids[j] => i = j
      BY <3>1, <3>2, <3>3, CatalogAssumption
    <3> QED BY <3>3, <3>4, <3>5 DEF IdsOf
  <2> QED BY <2>1, <2>2 DEF TypeOK
<1>2. Items = Kept(ids, visible)
  BY DEF Items
<1>3. visible \subseteq IdsOf(topics)
  BY DEF TypeOK
<1> HIDE DEF ids
<1>4. /\ Items \in Seq(Ids)
      /\ \A k, l \in 1 .. Len(Items) : Items[k] = Items[l] => k = l
      /\ \A i \in 1 .. Len(ids) :
            ids[i] \in visible => \E k \in 1 .. Len(Items) : Items[k] = ids[i]
  <2>1. Kept(ids, visible) \in Seq(Ids)
    BY <1>1, KeptType
  <2>2. /\ \A k, l \in 1 .. Len(Kept(ids, visible)) :
             Kept(ids, visible)[k] = Kept(ids, visible)[l] => k = l
        /\ \A i \in 1 .. Len(ids) :
             ids[i] \in visible =>
                 \E k \in 1 .. Len(Kept(ids, visible)) : Kept(ids, visible)[k] = ids[i]
    BY <1>1, KeptOnce
  <2> QED BY <1>2, <2>1, <2>2
<1>5. Len(Items) \in Nat
  BY <1>4
<1>6. ASSUME NEW k \in 1 .. Len(Items) PROVE ActiveIdx(Items[k]) = k
  <2> DEFINE I == {i \in 1 .. Len(Items) : Items[i] = Items[k]}
  <2>1. I = {k}
    BY <1>4
  <2>2. Min({k}) = k
    BY <1>5, MinIsLeast
  <2> QED BY <2>1, <2>2 DEF ActiveIdx, SelectInSeq
<1> QED BY <1>1, <1>3, <1>4, <1>5, <1>6

\* For every catalogue and search: the arrow keys undo each other.
THEOREM ArrowsUndo == Spec => []ArrowsAreInverse
<1>1. TypeOK => ArrowsAreInverse
  <2> SUFFICES ASSUME TypeOK, currentTopic \in visible
               PROVE  /\ Up(Down(currentTopic)) = currentTopic
                      /\ Down(Up(currentTopic)) = currentTopic
    BY DEF ArrowsAreInverse
  <2> DEFINE n == Len(Items)
  <2>1. PICK k \in 1 .. n : Items[k] = currentTopic
    BY EntriesAreDistinct
  <2>2. n \in Nat /\ \A i \in 1 .. n : ActiveIdx(Items[i]) = i
    BY EntriesAreDistinct
  <2>3. \A i \in 1 .. n : /\ Down(Items[i]) = Items[IF i < n THEN i + 1 ELSE 1]
                          /\ Up(Items[i]) = Items[IF i > 1 THEN i - 1 ELSE n]
    BY <2>2 DEF Down, Up
  <2> HIDE DEF n
  <2> DEFINE d == IF k < n THEN k + 1 ELSE 1
             u == IF k > 1 THEN k - 1 ELSE n
  <2>4. /\ d \in 1 .. n /\ (IF d > 1 THEN d - 1 ELSE n) = k
        /\ u \in 1 .. n /\ (IF u < n THEN u + 1 ELSE 1) = k
    BY <2>2
  <2>5. Down(currentTopic) = Items[d] /\ Up(currentTopic) = Items[u]
    BY <2>1, <2>3
  <2> HIDE DEF d, u
  <2>6. Up(Items[d]) = Items[k] /\ Down(Items[u]) = Items[k]
    BY <2>3, <2>4
  <2> QED BY <2>1, <2>5, <2>6
<1> QED BY <1>1, TypeCorrect, PTL
=============================================================================
