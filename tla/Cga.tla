---------------------------------- MODULE Cga ----------------------------------
(***************************************************************************)
(* The display driver of kern/console.c, one step per cga_putc.  A tab     *)
(* calls cons_putc(' ') five times from inside cga_putc; each of those     *)
(* scrolls for itself before the outer call checks the cursor again.       *)
(***************************************************************************)
EXTENDS Screen

CONSTANT Glyphs      \* characters that reach the switch's default

ASSUME GlyphAssumption == Glyphs \subseteq 1 .. 255 \ {BS, TAB, NL, CR}

VARIABLES crt_buf, crt_pos,
          spaces     \* cons_putc(' ') calls left of a tab (0: no tab in progress)

cgaVars == <<crt_buf, crt_pos, spaces>>

TabSpaces == 5

Display == [buf |-> crt_buf, pos |-> crt_pos]

Show(s) == crt_buf' = s.buf /\ crt_pos' = s.pos

(* cga_init takes over the screen and the cursor the firmware left. *)
CgaInit ==
  /\ crt_buf \in [Cells -> Glyphs \cup {Blank}]
  /\ crt_pos \in Cells
  /\ spaces = 0

(* cga_putc(c) for c other than a tab *)
Putc(c) ==
  /\ spaces = 0
  /\ Show(Put(Display, c))
  /\ UNCHANGED spaces

(* cga_putc('\t'): enter, five spaces, and the rest of the outer call *)
TabBegin ==
  /\ spaces = 0
  /\ spaces' = TabSpaces + 1
  /\ UNCHANGED <<crt_buf, crt_pos>>

TabSpace ==
  /\ spaces > 1
  /\ Show(Put(Display, Blank))
  /\ spaces' = spaces - 1

TabEnd ==
  /\ spaces = 1
  /\ Show(Scroll(Display))
  /\ spaces' = 0

CgaNext ==
  \/ \E c \in Glyphs \cup {Blank, BS, NL, CR} : Putc(c)
  \/ TabBegin
  \/ TabSpace
  \/ TabEnd

CgaSpec == CgaInit /\ [][CgaNext]_cgaVars

-----------------------------------------------------------------------------
(* Properties *)

CgaTypeOK ==
  /\ crt_buf \in [Cells -> Glyphs \cup {Blank}]
  /\ crt_pos \in Nat
  /\ spaces \in 0 .. TabSpaces + 1

(***************************************************************************)
(* Whatever is printed, the cursor is on the screen when cga_putc returns, *)
(* and at every one of the calls a tab makes: the next character is        *)
(* written inside crt_buf, because one row of scrolling is always enough.  *)
(***************************************************************************)
CursorOnScreen == crt_pos \in Cells
=============================================================================
