---------------------------- MODULE TopicCatalog ----------------------------
(***************************************************************************)
(* The server side of the learning platform (web/main.go, web/topic_*.go): *)
(* the fixed list of topics and the two views of it.  Of a topic's text    *)
(* only the number of its sections is kept.                                *)
(***************************************************************************)
EXTENDS Naturals, Sequences, SequencesExt

Topic(id, chapter, sections) ==
    [id |-> id, chapter |-> chapter, sections |-> sections]

sliceTopic     == Topic("slice", "01-basics", 5)
mapTopic       == Topic("map", "01-basics", 5)
stringTopic    == Topic("string", "01-basics", 4)
interfaceTopic == Topic("interface", "01-basics", 4)
deferTopic     == Topic("defer", "01-basics", 5)
pointerTopic   == Topic("pointer", "01-basics", 3)
goroutineTopic == Topic("goroutine", "02-concurrency", 5)
channelTopic   == Topic("channel", "02-concurrency", 4)
syncTopic      == Topic("sync", "02-concurrency", 6)
contextTopic   == Topic("context", "02-concurrency", 4)
patternTopic   == Topic("pattern", "02-concurrency", 4)
gcTopic        == Topic("gc", "03-memory", 4)
escapeTopic    == Topic("escape", "03-memory", 3)
alignmentTopic == Topic("alignment", "03-memory", 3)
profilingTopic == Topic("profiling", "04-performance", 3)
benchmarkTopic == Topic("benchmark", "04-performance", 3)

getAllTopicsMisfiled ==  \* variant: a topic added at the end of the list
    << sliceTopic, mapTopic, stringTopic, interfaceTopic, deferTopic,
       goroutineTopic, channelTopic, syncTopic, contextTopic, patternTopic,
       gcTopic, escapeTopic, alignmentTopic, profilingTopic, benchmarkTopic,
       pointerTopic >>

getAllTopics ==
    << sliceTopic, mapTopic, stringTopic, interfaceTopic, deferTopic, pointerTopic,
       goroutineTopic, channelTopic, syncTopic, contextTopic, patternTopic,
       gcTopic, escapeTopic, alignmentTopic, profilingTopic, benchmarkTopic >>

\* getTopicList: what the sidebar needs of each topic.
getTopicList(topics) ==
    [i \in DOMAIN topics |-> [id |-> topics[i].id, chapter |-> topics[i].chapter]]

\* handleTopic: the first topic with this id, if there is one.
handleTopic(topics, id) ==
    LET i == SelectInSeq(topics, LAMBDA t : t.id = id)
    IN  IF i = 0 THEN {} ELSE {topics[i]}
=============================================================================
