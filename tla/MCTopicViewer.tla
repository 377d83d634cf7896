---------------------------- MODULE MCTopicViewer ----------------------------
(***************************************************************************)
(* Instances of TopicViewer: the whole catalog with few loads, and three   *)
(* topics on both sides of a chapter boundary with more of them.           *)
(***************************************************************************)
EXTENDS TopicViewer

AllTopics == getAllTopics
FewTopics == SubSeq(getAllTopics, 6, 8)

\* The page opens with no hash, with a topic's, or with one nobody knows.
AllHashes == {"", "gc", "nowhere"}
FewHashes == {"", "channel"}

\* A search may match everything, a few topics of two chapters, or nothing.
AllMatches == {IdsOf(AllTopics), {"map", "string", "sync"}, {}}
FewMatches == {IdsOf(FewTopics), {"pointer", "channel"}, {}}
==============================================================================
