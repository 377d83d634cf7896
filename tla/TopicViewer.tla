----------------------------- MODULE TopicViewer -----------------------------
(***************************************************************************)
(* The page of the learning platform (the script of web/static/index.html) *)
(* and the requests it has under way.  loadTopic runs up to its `await     *)
(* fetch` in one step and renders in another; in between the user may have *)
(* chosen another topic.                                                   *)
(*                                                                         *)
(* currentTopic stands for the variable of that name and for the entry     *)
(* loadTopic marks as active, which it sets together.                      *)
(***************************************************************************)
EXTENDS TopicCatalog, Selections

CONSTANTS Topics,    \* the server's topics
          Lossy,     \* fetches of topics may fail
          Hashes,    \* what location.hash may be when the page opens
          Matches,   \* the sets of topics a search text may match
          MaxLoads   \* bound on the topics loaded

VARIABLES topics,        \* the list the page has, <<>> before it arrives
          currentTopic,  \* "" for null
          visitedTopics,
          hash,
          requests,      \* fetches of topics under way, numbered
          issued,        \* number of topics loaded so far
          shown,         \* the topic in contentArea
          open,          \* its sections that are open
          visible        \* sidebar entries the search has not hidden

vars == <<topics, currentTopic, visitedTopics, hash, requests, issued, shown,
          open, visible>>

IdsOf(list) == {list[i].id : i \in DOMAIN list}
Ids == IdsOf(Topics)

\* An id names one topic; a search hides or shows entries of the sidebar.
ASSUME CatalogAssumption ==
    /\ Topics \in Seq([id : STRING, chapter : STRING, sections : Nat])
    /\ \A i, j \in DOMAIN Topics : Topics[i].id = Topics[j].id => i = j
ASSUME PageAssumption == MaxLoads \in Nat /\ \A match \in Matches : match \subseteq Ids

Welcome == Topic("", "", 0)

TypeOK ==
    /\ topics \in {<<>>, getTopicList(Topics)}
    /\ currentTopic \in visitedTopics \cup {""}
    /\ visitedTopics \subseteq IdsOf(topics)  \* the progress bar ends at 100%
    /\ hash \in Hashes \cup Ids
    /\ requests \subseteq [n : 1 .. issued, id : visitedTopics]
    /\ issued \in 0 .. MaxLoads
    /\ shown \in {Welcome} \cup {Topics[i] : i \in DOMAIN Topics}
    /\ visible \subseteq IdsOf(topics)

Init ==
    /\ topics = <<>>
    /\ currentTopic = ""
    /\ visitedTopics = {}
    /\ hash \in Hashes
    /\ requests = {} /\ issued = 0
    /\ shown = Welcome /\ open = {}
    /\ visible = {}

-----------------------------------------------------------------------------
RenderAppending(data) ==  \* variant: the open sections are kept
    /\ shown' = data
    /\ open' = open \cup {1}

\* The page is rebuilt with its first section open.
Render(data) ==
    /\ shown' = data
    /\ open' = IF data.sections > 0 THEN {1} ELSE {}

loadTopicUnchecked(list, id) ==  \* variant: unknown ids are not refused
    /\ issued < MaxLoads
    /\ currentTopic' = id
    /\ visitedTopics' = visitedTopics \cup {id}
    /\ hash' = id
    /\ issued' = issued + 1
    /\ requests' = requests \cup {[n |-> issued', id |-> id]}
    /\ UNCHANGED <<shown, open>>

loadTopicLate(list, id) ==  \* variant: currentTopic is set after the fetch
    /\ id \in IdsOf(list) /\ issued < MaxLoads
    /\ visitedTopics' = visitedTopics \cup {id}
    /\ hash' = id
    /\ issued' = issued + 1
    /\ requests' = requests \cup {[n |-> issued', id |-> id]}
    /\ UNCHANGED <<currentTopic, shown, open>>

\* loadTopic: an unknown id changes nothing; otherwise the topic becomes the
\* current one at once and its content is rendered when it has arrived.
loadTopic(list, id) ==
    \/ /\ id \in IdsOf(list)
       /\ issued < MaxLoads
       /\ issued' = issued + 1
       /\ currentTopic' = id
       /\ visitedTopics' = visitedTopics \cup {id}
       /\ hash' = id
       /\ requests' = requests \cup {[n |-> issued', id |-> id]}
       /\ UNCHANGED <<shown, open>>
    \/ /\ id \notin IdsOf(list)
       /\ UNCHANGED <<currentTopic, visitedTopics, hash, requests, issued, shown, open>>

\* init: the list arrives, the sidebar is built, the hash is followed.
init ==
    /\ topics = <<>>
    /\ topics' = getTopicList(Topics)
    /\ visible' = IdsOf(topics')
    /\ loadTopic(topics', hash)

\* The topic's data arrives, in whatever order the answers come.
Respond(r) ==
    /\ r \in requests
    /\ requests' = requests \ {r}
    /\ \E data \in handleTopic(Topics, r.id) : Render(data)
    /\ UNCHANGED <<topics, currentTopic, visitedTopics, hash, issued, visible>>

\* The fetch fails: loadTopic is abandoned at its await.
Lose(r) ==
    /\ Lossy /\ r \in requests
    /\ requests' = requests \ {r}
    /\ UNCHANGED <<topics, currentTopic, visitedTopics, hash, issued, shown, open, visible>>

Click(id) ==
    /\ id \in visible
    /\ loadTopic(topics, id)
    /\ UNCHANGED <<topics, visible>>

\* The keydown listener: the next or previous visible entry, round and round;
\* with no active entry among them, the first or the last.
Items == Kept([i \in DOMAIN topics |-> topics[i].id], visible)

ActiveIdx(id) == SelectInSeq(Items, LAMBDA x : x = id)

UpStuck(id) == Items[IF ActiveIdx(id) > 2 THEN ActiveIdx(id) - 1 ELSE Len(Items)]  \* variant: 1 for 0

Down(id) == Items[IF ActiveIdx(id) < Len(Items) THEN ActiveIdx(id) + 1 ELSE 1]
Up(id) == Items[IF ActiveIdx(id) > 1 THEN ActiveIdx(id) - 1 ELSE Len(Items)]

Arrow ==
    /\ Items # <<>>
    /\ \E next \in {Down(currentTopic), Up(currentTopic)} : loadTopic(topics, next)
    /\ UNCHANGED <<topics, visible>>

Search(match) ==
    /\ topics # <<>>
    /\ visible' = match
    /\ UNCHANGED <<topics, currentTopic, visitedTopics, hash, requests, issued, shown, open>>

toggleSection(i) ==
    /\ i \in 1 .. shown.sections
    /\ open' = IF i \in open THEN open \ {i} ELSE open \cup {i}
    /\ UNCHANGED <<topics, currentTopic, visitedTopics, hash, requests, issued, shown, visible>>

Next ==
    \/ init
    \/ \E r \in requests : Respond(r) \/ Lose(r)
    \/ \E id \in Ids : Click(id)
    \/ Arrow
    \/ \E match \in Matches : Search(match)
    \/ \E i \in 1 .. shown.sections : toggleSection(i)

Spec == Init /\ [][Next]_vars

-----------------------------------------------------------------------------
\* Only topics the user chose are ever shown, and the open sections are
\* sections of the topic on the page, however late its data came.
PageIsConsistent ==
    /\ shown = Welcome \/ shown.id \in visitedTopics
    /\ open \subseteq 1 .. shown.sections

\* The answer to the latest request never shows a topic that is no longer
\* the current one.
NewestAnswerIsCurrent ==
    [][\A r \in requests :
          r.n = issued /\ r \notin requests' /\ shown' # shown
              => shown'.id = currentTopic']_vars

\* The sidebar starts a group wherever the chapter changes; each chapter then
\* has one group.
Starts(i) == i = 1 \/ topics[i].chapter # topics[i - 1].chapter
OneGroupPerChapter ==
    \A i, j \in DOMAIN topics :
        Starts(i) /\ Starts(j) /\ topics[i].chapter = topics[j].chapter => i = j

\* The arrows undo each other, whatever the search has hidden.
ArrowsAreInverse ==
    currentTopic \in visible =>
        Up(Down(currentTopic)) = currentTopic /\ Down(Up(currentTopic)) = currentTopic

-----------------------------------------------------------------------------
\* What the page means to do and the code does not.

\* index.html:569 "Update active state": the sidebar marks the topic that is
\* on the page, once every request has been answered.
ShowsCurrent == requests = {} => shown.id = currentTopic
=============================================================================
