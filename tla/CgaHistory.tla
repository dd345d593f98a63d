------------------------------ MODULE CgaHistory ------------------------------
(***************************************************************************)
(* Cga with the rows that scrolled off the screen remembered, to relate    *)
(* the screen to everything printed so far.                                *)
(***************************************************************************)
EXTENDS Cga, Sequences

CONSTANT MaxGone     \* bounds the cells remembered, for TLC
ASSUME MaxGoneAssumption == MaxGone \in Nat

VARIABLE gone        \* the cells that left the screen, oldest first

TopRow == [k \in 1 .. CRT_COLS |-> crt_buf[k - 1]]

(* A step that brings a new row onto the screen; only a step on the last  *)
(* row can, and then the row that leaves is the one that was on top.      *)
Scrolls(c) == ScrolledOff(Place(Display, c))

Remember(c) == gone' = IF Scrolls(c) THEN gone \o TopRow ELSE gone

HistoryInit == CgaInit /\ gone = <<>>

HistoryNext ==
  \/ \E c \in Glyphs \cup {Blank, BS, NL, CR} :
       /\ Scrolls(c) => Len(gone) < MaxGone
       /\ Putc(c)
       /\ Remember(c)
  \/ Len(gone) < MaxGone /\ TabBegin /\ UNCHANGED gone
  \/ TabSpace /\ Remember(Blank)
  \/ TabEnd /\ UNCHANGED gone

HistorySpec == HistoryInit /\ [][HistoryNext]_<<cgaVars, gone>>

(***************************************************************************)
(* The screen is a window on the paper: with the rows that scrolled off    *)
(* put back on top, every cga_putc prints, rubs out or moves exactly as a  *)
(* printer would, at a margin, on the last row and inside a tab as well.   *)
(***************************************************************************)
OnPaper == INSTANCE Paper WITH
  ink  <- gone \o [k \in 1 .. CRT_SIZE |-> crt_buf[k - 1]],
  head <- Len(gone) + crt_pos,
  Cols <- CRT_COLS,
  Window <- CRT_SIZE

ImplementsPaper == OnPaper!Spec
=============================================================================
