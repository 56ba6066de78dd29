------------------------------- MODULE MCCalls -------------------------------
(* Calls with keyword lists of two to three, replies that break each rule, a *)
(* site with two links or none, and three common paths.                      *)
EXTENDS Calls

W(w) == [word |-> w]

\* A word may come in capitals and with blanks around it.
MCTexts == {"a", "A", " a", " A", "b", "c", " c", "d", " ", ""}
MCTrim  == [w \in MCTexts |-> CASE w = " A" -> "A" [] w = " a" -> "a" [] w = " c" -> "c" [] w = " " -> "" [] OTHER -> w]
MCLower == [w \in MCTexts |-> CASE w = "A" -> "a" [] w = " A" -> " a" [] OTHER -> w]

MCReplies ==
    {[shape |-> s, words |-> ws, score |-> n] :
        s \in {"array", "object", "number", "prose"},
        ws \in {<<>>, <<W("a")>>, <<W("A"), W("b")>>, <<W("a"), W(" A")>>, <<W("a"), W(" ")>>,
                <<W("a"), W("b"), W("A"), W(" c")>>, <<W("a"), W("b"), W("c"), W("d")>>},
        n \in {-1, 0, 100, 101}}

MCFeedItems ==
    {<<>>} \cup {<<[url |-> "new", published |-> p], [url |-> "old", published |-> 2]>> : p \in {0, 1, 2}}

Link(h, t) == [href |-> h, typeFirst |-> t]

MCPages == {<<>>, <<Link("/feed", FALSE), Link("/rss", TRUE), Link("/feed", TRUE)>>, <<Link("/news.xml", FALSE)>>}
=============================================================================
