------------------------------- MODULE MCReadline -------------------------------
(* Instances of Readline for TLC.  64 stands for every printing character; *)
(* 27 (Escape) is one readline ignores.                                    *)
EXTENDS Readline

MCGlyphs == {64, DEL}
MCTyped == {BS, NL, CR, 27, 64, DEL}
=============================================================================
