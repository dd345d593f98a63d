--------------------------------- MODULE Paper ---------------------------------
(***************************************************************************)
(* A printer's paper: what the display of Cga promises when one looks at   *)
(* the whole output and not only at the rows still on the screen.  Nothing *)
(* moves on paper; the print head only wanders.  Ink can be rubbed out as  *)
(* far back as Window cells before the end of the paper.                   *)
(***************************************************************************)
EXTENDS Integers, Sequences

CONSTANTS Cols, Window, Glyphs, Blank

VARIABLES ink,       \* the character in every cell, row after row
          head       \* how many cells lie before the print head

vars == <<ink, head>>

Init ==
  /\ ink \in [1 .. Window -> Glyphs \cup {Blank}]
  /\ head \in 0 .. Window - 1

(* A head that runs off the paper gets a blank row to print on. *)
Move(paper, h) ==
  /\ head' = h
  /\ ink' = IF h < Len(paper) THEN paper ELSE paper \o [k \in 1 .. Cols |-> Blank]

Strike(c) == Move([ink EXCEPT ![head + 1] = c], head + 1)

RubOut ==
  /\ head > Len(ink) - Window
  /\ Move([ink EXCEPT ![head] = Blank], head - 1)

LineFeed == Move(ink, (head \div Cols + 1) * Cols)

CarriageReturn == Move(ink, (head \div Cols) * Cols)

Next ==
  \/ \E c \in Glyphs \cup {Blank} : Strike(c)
  \/ RubOut
  \/ LineFeed
  \/ CarriageReturn

Spec == Init /\ [][Next]_vars
=============================================================================
