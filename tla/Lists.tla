-------------------------------- MODULE Lists --------------------------------
(***************************************************************************)
(* The loops over a list that the code has again and again: keep what      *)
(* passes a test, keep what was not seen before, and put what each element *)
(* gives one after the other.  They are recursive functions of the number  *)
(* of elements looked at, which is what ListsProofs reasons about (the     *)
(* library's SelectSeq and folds are out of its reach).                    *)
(* And the list that ORDER BY makes of a set.                              *)
(***************************************************************************)
EXTENDS Integers, Sequences, FiniteSets, Functions

\* The elements of list that are in S, in the order of list.
Kept(list, S) ==
    LET kept[n \in 0 .. Len(list)] ==
            IF n = 0 THEN <<>>
            ELSE IF list[n] \in S THEN Append(kept[n - 1], list[n]) ELSE kept[n - 1]
    IN  kept[Len(list)]

\* The elements of list, each where it comes first.
Once(list) ==
    LET once[n \in 0 .. Len(list)] ==
            IF n = 0 THEN <<>>
            ELSE IF list[n] \in Range(once[n - 1]) THEN once[n - 1] ELSE Append(once[n - 1], list[n])
    IN  once[Len(list)]

\* The lists of lists, one after the other.
Joined(lists) ==
    LET joined[n \in 0 .. Len(lists)] == IF n = 0 THEN <<>> ELSE joined[n - 1] \o lists[n]
    IN  joined[Len(lists)]

\* The elements of S, each once, by the strict order whose pairs are in before.
InOrder(S, before) ==
    CHOOSE list \in [1 .. Cardinality(S) -> S] :
        \A i, j \in 1 .. Cardinality(S) : i < j => <<list[i], list[j]>> \in before
===============================================================================
