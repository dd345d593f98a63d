------------------------------ MODULE ConsQueue ------------------------------
(***************************************************************************)
(* What the console input buffer of kern/console.c promises its readers,   *)
(* without its array and positions: a queue of characters, oldest first.   *)
(* A character that finds Capacity others waiting makes the ring look      *)
(* empty, so everything waiting is lost together with the new character.   *)
(***************************************************************************)
EXTENDS Integers, Sequences

CONSTANTS Chars,      \* the characters a device can deliver (never 0)
          Capacity    \* most characters that can wait: CONSBUFSIZE - 1

NoChar == 0           \* what cons_getc returns when nothing is waiting

VARIABLES queue,      \* the characters that can still be read, oldest first
          got         \* the result of the last cons_getc

vars == <<queue, got>>

Init ==
  /\ queue = <<>>
  /\ got = NoChar

(* A device delivers c: it waits its turn, or it overruns the buffer. *)
Stash(c) ==
  /\ queue' = IF Len(queue) < Capacity THEN Append(queue, c) ELSE <<>>
  /\ UNCHANGED got

(* The reader gets the oldest waiting character ... *)
Take ==
  /\ queue # <<>>
  /\ got' = Head(queue)
  /\ queue' = Tail(queue)

(* ... or learns that there is none. *)
TakeNone ==
  /\ queue = <<>>
  /\ got' = NoChar
  /\ UNCHANGED queue

Next ==
  \/ \E c \in Chars : Stash(c)
  \/ Take
  \/ TakeNone

Spec == Init /\ [][Next]_vars
=============================================================================
