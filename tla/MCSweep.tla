------------------------------- MODULE MCSweep -------------------------------
(* Sweep on two feeds, one of two items and one of a single item. *)
EXTENDS Sweep, TLC

CONSTANTS s1, s2, i1, i2, i3

MCSources == <<s1, s2>>
MCFeedOf  == (s1 :> <<i1, i2>>) @@ (s2 :> <<i3>>)

MCNoCap == -1
=============================================================================
