---------------------------- MODULE MCAudioRing ----------------------------
(* Values of Chunks and Gaps for the configurations of AudioRing. *)
EXTENDS AudioRing

Pairs == {2}
PairsAndLong == {2, 9}   \* 9: more than the ring holds
NoGaps == {0}
ShortGaps == {0, 1}
=============================================================================
