------------------------------ MODULE Catalogue ------------------------------
(***************************************************************************)
(* What the article store promises to the rest of the system, with no     *)
(* transactions, workers or links in sight: a catalogue that holds at      *)
(* most one live article per original URL (the partial unique index on     *)
(* articles.url_original) and that never gives an article id twice.        *)
(* Pipeline is shown to implement it.                                      *)
(***************************************************************************)
CONSTANTS Urls,      \* original URLs (articles.url_original)
          Articles,  \* article ids
          None       \* "no article"

VARIABLES live,  \* live[u]: the live article published under u, or None
          used   \* every article id that was ever published

vars == <<live, used>>

Init == /\ live = [u \in Urls |-> None]
        /\ used = {}

\* A new article, under a fresh id, takes a URL no live article holds.
Publish(u, a) ==
    /\ live[u] = None
    /\ a \in Articles \ used
    /\ live' = [live EXCEPT ![u] = a]
    /\ used' = used \cup {a}

\* Any number of live articles leave together (one article, or the cascade
\* of a source).
Withdraw(gone) ==
    /\ live' = [u \in Urls |-> IF u \in gone THEN None ELSE live[u]]
    /\ UNCHANGED used

\* A live article moves to a URL nobody holds.
Move(u, v) ==
    /\ live[u] # None
    /\ live[v] = None
    /\ live' = [live EXCEPT ![u] = None, ![v] = live[u]]
    /\ UNCHANGED used

Next == \/ \E u \in Urls, a \in Articles : Publish(u, a)
        \/ \E gone \in SUBSET Urls : Withdraw(gone)
        \/ \E u, v \in Urls : Move(u, v)

Spec == Init /\ [][Next]_vars
=============================================================================
