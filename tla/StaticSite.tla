----------------------------- MODULE StaticSite -----------------------------
(***************************************************************************)
(* `generate` of web/main.go: generateStaticSite turns index.html into a   *)
(* page without requests, and a browser opens it.  A page is a sequence of *)
(* pieces of text, of which only those are kept that the generator looks   *)
(* for or that decide what a name means; a piece is its kind and a name.   *)
(***************************************************************************)
EXTENDS TopicCatalog, SequencesExt

VARIABLES page,    \* the written file: {} or {a page}
          status,  \* of the script: "unopened", "ready" or "threw"
          topics   \* the list the script has

vars == <<page, status, topics>>

OpenTag == <<"tag", "script">>
CloseTag == <<"tag", "/script">>
Charset == <<"tag", "meta charset">>

\* static/index.html, in its order; highlight.js has tags of its own.
Template ==
    << Charset, <<"tag", "script src">>, CloseTag,
       OpenTag, <<"const", "chapters">>, <<"let", "topics">>,
       <<"let", "currentTopic">>, <<"let", "visitedTopics">>,
       <<"async function", "init">>, <<"fetch", "/api/topics">>,
       <<"async function", "loadTopic">>, <<"replaceState", "#">>,
       <<"fetch", "/api/topic/">>, CloseTag >>

\* strings.Replace(html, old, new, 1), one call after the other.  The last call
\* only changes how two lines are broken.
inject == << <<"const", "TOPICS_LIST">>, <<"const", "TOPICS_DETAIL">> >>
FirstScript == <<OpenTag, <<"const", "chapters">>>>
Replaced(old, new) == [old |-> old, new |-> new]
Replacements ==
    << Replaced(FirstScript, inject \o FirstScript),
       Replaced(<< <<"async function", "init">> >>, << <<"function", "init">> >>),
       Replaced(<< <<"async function", "loadTopic">> >>,
                << <<"function", "loadTopic">> >>),
       Replaced(<< <<"fetch", "/api/topics">> >>, << <<"use", "TOPICS_LIST">> >>),
       Replaced(<< <<"fetch", "/api/topic/">> >>, << <<"use", "TOPICS_DETAIL">> >>),
       Replaced(<<Charset>>, <<Charset, <<"tag", "base">>>>),
       Replaced(<< <<"replaceState", "#">> >>, << <<"replaceState", "pathname#">> >>) >>

Init == page = {} /\ status = "unopened" /\ topics = <<>>

generateStaticSite ==
    /\ page' = {FoldLeft(LAMBDA html, r : ReplaceFirstSubSeq(r.new, r.old, html),
                         Template, Replacements)}
    /\ UNCHANGED <<status, topics>>

\* The pieces the browser takes for the script: those behind its tag, up to the
\* end of it.  Anything in front is text of the page.
Script(html) ==
    LET opened == SelectInSeq(html, LAMBDA p : p = OpenTag)
        end == Min({k \in DOMAIN html : k > opened /\ html[k] = CloseTag})
    IN  SubSeq(html, opened + 1, end - 1)

Declared(script) ==
    {p[2] : p \in {p \in ToSet(script) :
                     p[1] \in {"const", "let", "function", "async function"}}}

\* The first statement of init of the generated page, `topics = TOPICS_LIST`: a
\* reference error when the script declares no such name.
init ==
    /\ status = "unopened"
    /\ \E html \in page :
          LET script == Script(html)
              begins == SelectInSeq(script, LAMBDA p : p = <<"function", "init">>)
              source == script[begins + 1]
          IN  /\ source[1] = "use"
              /\ IF source[2] \in Declared(script)
                 THEN status' = "ready" /\ topics' = getTopicList(getAllTopics)
                 ELSE status' = "threw" /\ UNCHANGED topics
    /\ UNCHANGED page

Next == generateStaticSite \/ init

Spec == Init /\ [][Next]_vars

-----------------------------------------------------------------------------
\* web/main.go:74 "Replace API fetch with static data": the script of the
\* generated page finds its data.
SiteFindsItsData == status # "threw"
=============================================================================
