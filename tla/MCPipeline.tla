------------------------------ MODULE MCPipeline ------------------------------
(* Pipeline on a small feed: two URLs whose articles link to each other, each
   at its own source where there are two, and in some runs a second item (i3)
   that carries the first URL again. *)
EXTENDS Pipeline, TLC

CONSTANTS s1, s2, u1, u2, i1, i2, i3

MCItemUrl    == [i \in Items |-> IF i = i2 THEN u2 ELSE u1]
MCItemSource == [i \in Items |-> IF i = i1 \/ s2 \notin Sources THEN s1 ELSE s2]
MCItemHrefs  == [i \in Items |-> IF i = i2 THEN {u1} ELSE {u2}]

MCSymmetry == Permutations(Articles) \cup Permutations(Workers)

\* The two articles may also trade places, each with its URL, item and source.
MCSwap == (i1 :> i2) @@ (i2 :> i1) @@ (u1 :> u2) @@ (u2 :> u1) @@ (s1 :> s2) @@ (s2 :> s1)

MCLinksSymmetry == MCSymmetry \cup {MCSwap}
=============================================================================
