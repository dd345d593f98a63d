---------------------------------- MODULE MCCga ----------------------------------
(* Instances of CgaHistory for TLC: one visible character beside the blank. *)
EXTENDS CgaHistory

MCGlyphs == {65}
=============================================================================
