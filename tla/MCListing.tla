------------------------------ MODULE MCListing ------------------------------
(* Four rows, two of them there from the start and created at once; pages of  *)
(* one and two rows, and page numbers and sizes beyond every bound.           *)
EXTENDS Listing

Row(u, n, m, w) == [url |-> u, name |-> n, mine |-> m, words |-> w]

MCInfo ==
    <<Row({"x"}, {"n"}, TRUE, <<1, 2, 3>>), Row({}, {"n"}, TRUE, <<2, 3>>),
      Row({"x"}, {}, TRUE, <<4, 4>>), Row({"x"}, {"n"}, FALSE, <<1, 3>>)>>

\* The second comes to match, and the first ceases to.
MCEdits ==
    <<{Row({}, {}, TRUE, <<2>>)}, {Row({"x"}, {"n"}, TRUE, <<1, 2>>)}, {}, {}>>

P(page, size) == [page |-> page, size |-> size]

MCRawParams ==
    {P(<<-1>>, <<0>>), P(<<99>>, <<99>>), P(<<1>>, <<9>>), P(<<2>>, <<>>), P(<<17>>, <<2>>)}

F(url, name, isRead, from, to) == [url |-> url, name |-> name, isRead |-> isRead, from |-> from, to |-> to]

MCRawFilters ==
    {F("", "", "", <<>>, <<>>), F("x", "n", "false", <<>>, <<>>), F("", "n", "true", <<1>>, <<1>>)}

MCRawPicks == {{}, {0}, {1}, {2, 3}, {9}}
=============================================================================
