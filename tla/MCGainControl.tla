--------------------------- MODULE MCGainControl ---------------------------
(* GainControl with two callers and volumes below, in and above the range. *)
EXTENDS GainControl

CONSTANTS c1, c2

MCCallers == {c1, c2}
MCRawVolumes == {-10, 50, 200}
=============================================================================
