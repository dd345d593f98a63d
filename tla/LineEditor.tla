------------------------------ MODULE LineEditor ------------------------------
(***************************************************************************)
(* What readline promises its caller: the user edits one line, and the     *)
(* line that was edited is what is returned.                               *)
(***************************************************************************)
EXTENDS Integers, Sequences

CONSTANTS Chars,      \* what can be typed into a line
          MaxLine     \* longest line

VARIABLES editing,    \* a line is being read
          text,       \* the line so far
          line        \* the last line returned

vars == <<editing, text, line>>

Init ==
  /\ editing = FALSE
  /\ text = <<>>
  /\ line = <<>>

Begin ==
  /\ ~editing
  /\ editing' = TRUE
  /\ text' = <<>>
  /\ line' = <<>>

Type(c) ==
  /\ editing
  /\ Len(text) < MaxLine
  /\ text' = Append(text, c)
  /\ UNCHANGED <<editing, line>>

Erase ==
  /\ editing
  /\ text # <<>>
  /\ text' = SubSeq(text, 1, Len(text) - 1)
  /\ UNCHANGED <<editing, line>>

Return ==
  /\ editing
  /\ editing' = FALSE
  /\ line' = text
  /\ UNCHANGED text

Next == Begin \/ (\E c \in Chars : Type(c)) \/ Erase \/ Return

Spec == Init /\ [][Next]_vars
=============================================================================
