------------------------------- MODULE MCFeeds -------------------------------
(* Two keyword lists of feeds and two articles: the first shares two words with
   either list, enough for the one and borderline for the other, the second a
   single word with the one and none with the other. *)
EXTENDS Feeds, TLC

CONSTANTS u1, u2, c1, c2

MCOneEach     == [c \in Clients |-> IF c = c1 THEN u1 ELSE u2]
MCOneUser     == [c \in Clients |-> u1]
MCKeywordLists == {<<"go", "db", "tla", "ci", "api">>, <<"go", "db", "web", "css", "ux", "ux">>}
MCArticleWords == {{"go", "db", "n1", "n2", "n3"}, {"tla", "n1", "n2", "n3", "n4"}}

MCSymmetry == Permutations(FeedIds)
=============================================================================
