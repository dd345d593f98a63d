-------------------------------- MODULE Screen --------------------------------
(***************************************************************************)
(* What cga_putc (kern/console.c) does to the text-mode display, as        *)
(* operators on a screen: the character in every cell of crt_buf and the   *)
(* cell crt_pos the cursor is on.  Attributes are left out (no property is *)
(* about colours), and so are the cursor registers, which repeat crt_pos.  *)
(***************************************************************************)
EXTENDS Integers

CONSTANTS CRT_ROWS, CRT_COLS   \* 25 and 80 in kern/console.h

ASSUME ScreenAssumption ==
  /\ CRT_ROWS \in Nat /\ CRT_ROWS >= 2
  /\ CRT_COLS \in Nat /\ CRT_COLS >= 1
  /\ CRT_ROWS * CRT_COLS + CRT_COLS <= 65536   \* crt_pos is a uint16_t

CRT_SIZE == CRT_ROWS * CRT_COLS
Cells == 0 .. CRT_SIZE - 1

(* The characters with a meaning of their own *)
BS == 8
TAB == 9
NL == 10
CR == 13
Blank == 32

(* crt_pos -= crt_pos % CRT_COLS *)
RowStart(pos) == pos - (pos % CRT_COLS)

(* The switch of cga_putc, for every character but a tab. *)
Place(s, c) ==
  CASE c = BS -> IF s.pos > 0
                 THEN [buf |-> [s.buf EXCEPT ![s.pos - 1] = Blank], pos |-> s.pos - 1]
                 ELSE s
    [] c = NL -> [buf |-> s.buf, pos |-> RowStart(s.pos + CRT_COLS)]
    [] c = CR -> [buf |-> s.buf, pos |-> RowStart(s.pos)]
    [] OTHER  -> [buf |-> [s.buf EXCEPT ![s.pos] = c], pos |-> s.pos + 1]

(* Faulty variants: scrolling one cell too late, and not blanking the last row. *)
ScrolledOffLate(s) == s.pos > CRT_SIZE

(* A cursor that left the last row moves every row up and blanks the last. *)
ScrolledOff(s) == s.pos >= CRT_SIZE

ScrollKeepsLastRow(s) ==
  IF ScrolledOff(s)
  THEN [buf |-> [k \in Cells |-> IF k < CRT_SIZE - CRT_COLS
                                 THEN s.buf[k + CRT_COLS] ELSE s.buf[k]],
        pos |-> s.pos - CRT_COLS]
  ELSE s

Scroll(s) ==
  IF ScrolledOff(s)
  THEN [buf |-> [k \in Cells |-> IF k < CRT_SIZE - CRT_COLS
                                 THEN s.buf[k + CRT_COLS] ELSE Blank],
        pos |-> s.pos - CRT_COLS]
  ELSE s

(* All of cga_putc, for every character but a tab. *)
Put(s, c) == Scroll(Place(s, c))
=============================================================================
