----------------------------- MODULE ReadlineProofs -----------------------------
(***************************************************************************)
(* Proofs about Cga and Readline for every screen, every line buffer that  *)
(* fits on it and every character: the cursor stays on the screen, what is *)
(* on the screen is what readline holds, readline edits one line, and the  *)
(* screen is a window on everything printed.                               *)
(***************************************************************************)
EXTENDS Readline, CgaHistory, SequenceTheorems, TLAPS

-----------------------------------------------------------------------------
(* The screen *)

LEMMA SizeFacts ==
  /\ CRT_COLS \in Nat /\ CRT_COLS >= 1
  /\ CRT_SIZE \in Nat /\ CRT_SIZE >= 2 * CRT_COLS
<1>1. CRT_ROWS * CRT_COLS >= 2 * CRT_COLS
  BY ScreenAssumption
<1> QED
  BY <1>1, ScreenAssumption DEF CRT_SIZE

(* The start of a row is at most a row's width behind. *)
LEMMA RowStartRange ==
  ASSUME NEW p \in Nat
  PROVE  RowStart(p) \in Nat /\ RowStart(p) <= p /\ RowStart(p) > p - CRT_COLS
<1>1. p % CRT_COLS \in 0 .. CRT_COLS - 1 /\ p % CRT_COLS <= p
  BY SizeFacts
<1> QED
  BY <1>1, SizeFacts DEF RowStart

Contents == Glyphs \cup {Blank}
Printable == Contents \cup {BS, NL, CR}

(* Where the switch of cga_putc leaves the cursor: at most a row too far. *)
LEMMA PlaceRange ==
  ASSUME NEW b \in [Cells -> Contents], NEW p \in Cells, NEW c \in Printable,
         NEW t, t = Place([buf |-> b, pos |-> p], c)
  PROVE  /\ t = [buf |-> t.buf, pos |-> t.pos]
         /\ t.buf \in [Cells -> Contents]
         /\ t.pos \in 0 .. CRT_SIZE + CRT_COLS - 1
<1>1. CASE c = BS
  <2>1. CASE p > 0
    <3>1. t = [buf |-> [b EXCEPT ![p - 1] = Blank], pos |-> p - 1]
      BY <1>1, <2>1, SizeFacts DEF Place, Cells, BS, NL, CR
    <3>2. [b EXCEPT ![p - 1] = Blank] \in [Cells -> Contents]
      BY DEF Contents
    <3> QED
      BY <2>1, <3>1, <3>2, SizeFacts DEF Cells
  <2>2. CASE ~(p > 0)
    <3>1. t = [buf |-> b, pos |-> p]
      BY <1>1, <2>2, SizeFacts DEF Place, Cells, BS, NL, CR
    <3> QED
      BY <3>1, SizeFacts DEF Cells
  <2> QED
    BY <2>1, <2>2
<1>2. CASE c = NL
  <2>1. t = [buf |-> b, pos |-> RowStart(p + CRT_COLS)]
    BY <1>2 DEF Place, NL, BS, CR
  <2>2. p + CRT_COLS \in Nat
    BY SizeFacts DEF Cells
  <2>3. RowStart(p + CRT_COLS) \in Nat /\ RowStart(p + CRT_COLS) <= p + CRT_COLS
    BY <2>2, RowStartRange
  <2> QED
    BY <2>1, <2>3, SizeFacts DEF Cells
<1>3. CASE c = CR
  <2>1. t = [buf |-> b, pos |-> RowStart(p)]
    BY <1>3 DEF Place, CR, NL, BS
  <2>2. p \in Nat
    BY SizeFacts DEF Cells
  <2>3. RowStart(p) \in Nat /\ RowStart(p) <= p
    BY <2>2, RowStartRange
  <2> QED
    BY <2>1, <2>3, SizeFacts DEF Cells
<1>4. CASE c \notin {BS, NL, CR}
  <2>1. t = [buf |-> [b EXCEPT ![p] = c], pos |-> p + 1]
    BY <1>4 DEF Place
  <2>2. c \in Contents
    BY <1>4 DEF Printable
  <2> QED
    BY <2>1, <2>2, SizeFacts DEF Cells
<1> QED
  BY <1>1, <1>2, <1>3, <1>4

(* One row of scrolling brings the cursor back. *)
LEMMA ScrollRange ==
  ASSUME NEW b \in [Cells -> Contents], NEW p \in 0 .. CRT_SIZE + CRT_COLS - 1,
         NEW t, t = Scroll([buf |-> b, pos |-> p])
  PROVE  /\ t.buf \in [Cells -> Contents]
         /\ t.pos \in Cells
<1>1. CASE p >= CRT_SIZE
  <2> DEFINE f == [k \in Cells |-> IF k < CRT_SIZE - CRT_COLS THEN b[k + CRT_COLS] ELSE Blank]
  <2>1. t = [buf |-> f, pos |-> p - CRT_COLS]
    BY <1>1 DEF Scroll, ScrolledOff
  <2>2. f \in [Cells -> Contents]
    BY SizeFacts DEF Cells, Contents
  <2>3. p - CRT_COLS \in Cells
    BY <1>1, SizeFacts DEF Cells
  <2> QED
    BY <2>1, <2>2, <2>3
<1>2. CASE ~(p >= CRT_SIZE)
  <2>1. t = [buf |-> b, pos |-> p]
    BY <1>2 DEF Scroll, ScrolledOff
  <2>2. p \in Cells
    BY <1>2, SizeFacts DEF Cells
  <2> QED
    BY <2>1, <2>2
<1> QED
  BY <1>1, <1>2

LEMMA PutRange ==
  ASSUME NEW b \in [Cells -> Contents], NEW p \in Cells, NEW c \in Printable,
         NEW t, t = Put([buf |-> b, pos |-> p], c)
  PROVE  t.buf \in [Cells -> Contents] /\ t.pos \in Cells
<1> DEFINE m == Place([buf |-> b, pos |-> p], c)
<1>1. /\ m = [buf |-> m.buf, pos |-> m.pos]
      /\ m.buf \in [Cells -> Contents]
      /\ m.pos \in 0 .. CRT_SIZE + CRT_COLS - 1
  BY PlaceRange
<1>2. t = Scroll(m)
  BY DEF Put
<1> HIDE DEF m
<1>3. t = Scroll([buf |-> m.buf, pos |-> m.pos])
  BY <1>1, <1>2
<1> QED
  BY <1>1, <1>3, ScrollRange

-----------------------------------------------------------------------------
(* The display driver *)

CgaInv == CgaTypeOK /\ CursorOnScreen

LEMMA CgaInitInv == CgaInit => CgaInv
BY SizeFacts DEF CgaInit, CgaInv, CgaTypeOK, CursorOnScreen, Cells, TabSpaces

(* A character printed, whoever prints it. *)
LEMMA PutInv ==
  ASSUME CgaInv, NEW c \in Printable, Show(Put(Display, c)),
         spaces' \in 0 .. TabSpaces + 1
  PROVE  CgaInv'
<1> DEFINE t == Put(Display, c)
<1>1. crt_buf \in [Cells -> Contents] /\ crt_pos \in Cells
  BY DEF CgaInv, CgaTypeOK, CursorOnScreen, Contents
<1>2. t = Put([buf |-> crt_buf, pos |-> crt_pos], c)
  BY DEF Display
<1> HIDE DEF t
<1>3. t.buf \in [Cells -> Contents] /\ t.pos \in Cells
  BY <1>1, <1>2, PutRange
<1>4. crt_buf' = t.buf /\ crt_pos' = t.pos
  BY DEF Show, t
<1> QED
  BY <1>3, <1>4, SizeFacts DEF CgaInv, CgaTypeOK, CursorOnScreen, Contents, Cells

LEMMA CgaNextInv == CgaInv /\ [CgaNext]_cgaVars => CgaInv'
<1> SUFFICES ASSUME CgaInv, [CgaNext]_cgaVars
             PROVE  CgaInv'
  OBVIOUS
<1>1. ASSUME NEW c \in Glyphs \cup {Blank, BS, NL, CR}, Putc(c)
      PROVE  CgaInv'
  <2>1. c \in Printable /\ Show(Put(Display, c)) /\ spaces' \in 0 .. TabSpaces + 1
    BY <1>1 DEF Printable, Contents, Putc, CgaInv, CgaTypeOK
  <2> QED
    BY <2>1, PutInv
<1>2. CASE TabBegin
  BY <1>2 DEF TabBegin, CgaInv, CgaTypeOK, CursorOnScreen, TabSpaces
<1>3. CASE TabSpace
  <2>1. Blank \in Printable /\ Show(Put(Display, Blank))
    BY <1>3 DEF Printable, Contents, TabSpace
  <2>2. spaces' \in 0 .. TabSpaces + 1
    BY <1>3 DEF TabSpace, CgaInv, CgaTypeOK, TabSpaces
  <2> QED
    BY <2>1, <2>2, PutInv
<1>4. CASE TabEnd
  <2>1. Scroll(Display) = Display
    BY SizeFacts DEF Scroll, ScrolledOff, Display, CgaInv, CursorOnScreen, Cells
  <2>2. crt_buf' = crt_buf /\ crt_pos' = crt_pos /\ spaces' = 0
    BY <1>4, <2>1 DEF TabEnd, Show, Display
  <2> QED
    BY <2>2 DEF CgaInv, CgaTypeOK, CursorOnScreen, TabSpaces
<1>5. CASE UNCHANGED cgaVars
  BY <1>5 DEF cgaVars, CgaInv, CgaTypeOK, CursorOnScreen
<1> QED
  BY <1>1, <1>2, <1>3, <1>4, <1>5 DEF CgaNext

(***************************************************************************)
(* On a screen of any size cga_putc never writes outside crt_buf.          *)
(***************************************************************************)
THEOREM CursorStays == CgaSpec => []CursorOnScreen
<1>1. CgaInv => CursorOnScreen
  BY DEF CgaInv
<1> QED
  BY CgaInitInv, CgaNextInv, <1>1, PTL DEF CgaSpec

-----------------------------------------------------------------------------
(* The line being read *)

BufferOK ==
  /\ reading \in BOOLEAN
  /\ buf \in [0 .. BUFLEN - 1 -> Typed \cup {0}]
  /\ i \in 0 .. BUFLEN - 1
  /\ start \in Int

(* No tab is being expanded while a line is read. *)
Settled == reading => spaces = 0

RInv == CgaInv /\ BufferOK /\ Settled /\ EchoMatchesBuffer

LEMMA InitRInv == Init => RInv
<1> SUFFICES ASSUME Init
             PROVE  RInv
  OBVIOUS
<1>1. CgaInv
  BY CgaInitInv DEF Init
<1>2. buf \in [0 .. BUFLEN - 1 -> Typed \cup {0}]
  BY DEF Init
<1>3. i \in 0 .. BUFLEN - 1 /\ start \in Int
  BY BufAssumption DEF Init
<1> QED
  BY <1>1, <1>2, <1>3 DEF Init, RInv, BufferOK, Settled, EchoMatchesBuffer

(* What readline stores is something cga_putc just writes. *)
LEMMA StoredIsContents ==
  ASSUME NEW c \in Typed, c >= Blank
  PROVE  c \in Contents /\ c \notin {BS, NL, CR}
BY TypedAssumption DEF Contents, Blank, BS, NL, CR

(* An ordinary character: one cell, and perhaps a scroll. *)
LEMMA StoreShows ==
  ASSUME CgaInv, NEW c \in Contents, c \notin {BS, NL, CR}, Echo(c)
  PROVE  \/ /\ crt_pos + 1 < CRT_SIZE
            /\ crt_buf' = [crt_buf EXCEPT ![crt_pos] = c]
            /\ crt_pos' = crt_pos + 1
            /\ start' = start
         \/ /\ crt_pos + 1 = CRT_SIZE
            /\ crt_buf' = [k \in Cells |-> IF k < CRT_SIZE - CRT_COLS
                               THEN [crt_buf EXCEPT ![crt_pos] = c][k + CRT_COLS] ELSE Blank]
            /\ crt_pos' = crt_pos + 1 - CRT_COLS
            /\ start' = start - CRT_COLS
<1> DEFINE m == Place(Display, c)
<1>1. m = [buf |-> [crt_buf EXCEPT ![crt_pos] = c], pos |-> crt_pos + 1]
  BY DEF Place, Display
<1>2. crt_buf' = Scroll(m).buf /\ crt_pos' = Scroll(m).pos
  BY DEF Echo, Putc, Show, Put
<1>3. start' = IF ScrolledOff(m) THEN start - CRT_COLS ELSE start
  BY DEF Echo
<1> HIDE DEF m
<1>4. crt_pos \in 0 .. CRT_SIZE - 1
  BY DEF CgaInv, CursorOnScreen, Cells
<1>5. CASE crt_pos + 1 < CRT_SIZE
  <2>1. ~ScrolledOff(m)
    BY <1>1, <1>4, <1>5, SizeFacts DEF ScrolledOff
  <2> QED
    BY <1>1, <1>2, <1>3, <1>5, <2>1 DEF Scroll
<1>6. CASE crt_pos + 1 = CRT_SIZE
  <2>1. ScrolledOff(m)
    BY <1>1, <1>4, <1>6, SizeFacts DEF ScrolledOff
  <2> DEFINE w == [crt_buf EXCEPT ![crt_pos] = c]
  <2>2. m.buf = w /\ m.pos = crt_pos + 1
    BY <1>1
  <2> HIDE DEF w
  <2>3. Scroll(m) = [buf |-> [k \in Cells |-> IF k < CRT_SIZE - CRT_COLS
                                             THEN m.buf[k + CRT_COLS] ELSE Blank],
                     pos |-> m.pos - CRT_COLS]
    BY <2>1 DEF Scroll
  <2>4. /\ crt_buf' = [k \in Cells |-> IF k < CRT_SIZE - CRT_COLS
                                       THEN m.buf[k + CRT_COLS] ELSE Blank]
        /\ crt_pos' = m.pos - CRT_COLS
    BY <1>2, <2>3
  <2>5. crt_buf' = [k \in Cells |-> IF k < CRT_SIZE - CRT_COLS
                                    THEN w[k + CRT_COLS] ELSE Blank]
    BY <2>2, <2>4, Zenon
  <2>6. crt_pos' = crt_pos + 1 - CRT_COLS
    BY <1>4, <2>2, <2>4, SizeFacts
  <2> QED
    BY <1>3, <1>6, <2>1, <2>5, <2>6 DEF w
<1> QED
  BY <1>4, <1>5, <1>6, SizeFacts

(* A backspace that has something to erase: one cell back, no scroll. *)
LEMMA EraseShows ==
  ASSUME CgaInv, crt_pos > 0, Echo(BS)
  PROVE  /\ crt_buf' = [crt_buf EXCEPT ![crt_pos - 1] = Blank]
         /\ crt_pos' = crt_pos - 1
         /\ start' = start
<1> DEFINE m == Place(Display, BS)
<1>1. m = [buf |-> [crt_buf EXCEPT ![crt_pos - 1] = Blank], pos |-> crt_pos - 1]
  BY DEF Place, Display, BS, NL, CR
<1>2. crt_buf' = Scroll(m).buf /\ crt_pos' = Scroll(m).pos
  BY DEF Echo, Putc, Show, Put
<1>3. start' = IF ScrolledOff(m) THEN start - CRT_COLS ELSE start
  BY DEF Echo
<1> HIDE DEF m
<1>4. ~ScrolledOff(m)
  BY <1>1, SizeFacts DEF ScrolledOff, CgaInv, CursorOnScreen, Cells
<1> QED
  BY <1>1, <1>2, <1>3, <1>4 DEF Scroll

(* Echoing keeps the display in order. *)
LEMMA EchoInv ==
  ASSUME CgaInv, NEW c \in Printable, Echo(c)
  PROVE  CgaInv'
<1>1. Show(Put(Display, c)) /\ spaces' \in 0 .. TabSpaces + 1
  BY DEF Echo, Putc, CgaInv, CgaTypeOK
<1> QED
  BY <1>1, PutInv

LEMMA StoreRInv ==
  ASSUME RInv, NEW c \in Typed, Store(c)
  PROVE  RInv'
<1>1. c \in Contents /\ c \notin {BS, NL, CR} /\ c >= Blank
  BY StoredIsContents DEF Store, Stores
<1>2. reading /\ reading' /\ i < BUFLEN - 1 /\ i' = i + 1 /\ Echo(c)
  BY DEF Store, Stores
<1>3. CgaInv'
  BY <1>1, <1>2, EchoInv DEF RInv, Printable
<1>4. buf' = [buf EXCEPT ![i] = c]
  BY DEF Store
<1>5. /\ start >= 0 /\ crt_pos = start + i
      /\ \A k \in 0 .. i - 1 : crt_buf[start + k] = buf[k]
  BY <1>2 DEF RInv, EchoMatchesBuffer
<1>6. BufferOK' /\ Settled'
  <2>1. start' \in Int
    BY <1>2, SizeFacts DEF Echo, RInv, BufferOK
  <2>2. spaces' = 0
    BY <1>2 DEF Echo, Putc
  <2> QED
    BY <1>2, <1>4, <2>1, <2>2, BufAssumption DEF RInv, BufferOK, Settled
<1>7. i \in 0 .. BUFLEN - 1 /\ buf \in [0 .. BUFLEN - 1 -> Typed \cup {0}] /\ start \in Int
  BY DEF RInv, BufferOK
<1>8. crt_pos \in Cells /\ crt_buf \in [Cells -> Contents]
  BY DEF RInv, CgaInv, CursorOnScreen, CgaTypeOK, Contents
<1> DEFINE w == [crt_buf EXCEPT ![crt_pos] = c]
<1>9. \A k \in 0 .. i : w[start + k] = buf'[k]
  <2> TAKE k \in 0 .. i
  <2>1. CASE k = i
    BY <1>4, <1>5, <1>7, <1>8, <2>1, BufAssumption
  <2>2. CASE k \in 0 .. i - 1
    <3>1. start + k \in Cells /\ start + k # crt_pos
      BY <1>5, <1>7, <1>8, <2>2, SizeFacts, BufAssumption DEF Cells
    <3>2. buf'[k] = buf[k]
      BY <1>4, <1>7, <2>2, BufAssumption
    <3> QED
      BY <1>5, <1>8, <2>2, <3>1, <3>2
  <2> QED
    BY <1>7, <2>1, <2>2, BufAssumption
<1>10. CASE /\ crt_pos + 1 < CRT_SIZE
            /\ crt_buf' = w
            /\ crt_pos' = crt_pos + 1
            /\ start' = start
  BY <1>2, <1>3, <1>5, <1>6, <1>7, <1>9, <1>10, BufAssumption DEF RInv, EchoMatchesBuffer
<1>11. CASE /\ crt_pos + 1 = CRT_SIZE
            /\ crt_buf' = [k \in Cells |-> IF k < CRT_SIZE - CRT_COLS
                               THEN w[k + CRT_COLS] ELSE Blank]
            /\ crt_pos' = crt_pos + 1 - CRT_COLS
            /\ start' = start - CRT_COLS
  <2> HIDE DEF w
  <2>1. start >= CRT_COLS
    BY <1>2, <1>5, <1>7, <1>11, SizeFacts, BufAssumption
  <2>2. start' >= 0 /\ crt_pos' = start' + i'
    BY <1>2, <1>5, <1>7, <1>11, <2>1, SizeFacts, BufAssumption
  <2>3. ASSUME NEW k \in 0 .. i
        PROVE  crt_buf'[start' + k] = buf'[k]
    <3>1. start' + k \in Cells /\ start' + k < CRT_SIZE - CRT_COLS
          /\ start' + k + CRT_COLS = start + k
      BY <1>5, <1>7, <1>11, <2>1, SizeFacts, BufAssumption DEF Cells
    <3>2. crt_buf'[start' + k] = w[start' + k + CRT_COLS]
      BY <1>11, <3>1
    <3> QED
      BY <1>9, <3>1, <3>2
  <2>4. \A k \in 0 .. i' - 1 : crt_buf'[start' + k] = buf'[k]
    BY <1>2, <1>7, <2>3, BufAssumption
  <2> QED
    BY <1>3, <1>6, <2>2, <2>4 DEF RInv, EchoMatchesBuffer
<1> QED
  BY <1>1, <1>2, <1>10, <1>11, StoreShows DEF RInv

LEMMA EraseRInv ==
  ASSUME RInv, NEW c \in Typed, Erase(c)
  PROVE  RInv'
<1>1. reading /\ reading' /\ i > 0 /\ i' = i - 1 /\ buf' = buf /\ Echo(BS)
  BY DEF Erase, Erases
<1>2. CgaInv'
  BY <1>1, EchoInv DEF RInv, Printable
<1>3. /\ start >= 0 /\ crt_pos = start + i
      /\ \A k \in 0 .. i - 1 : crt_buf[start + k] = buf[k]
  BY <1>1 DEF RInv, EchoMatchesBuffer
<1>4. i \in 0 .. BUFLEN - 1 /\ start \in Int
  BY DEF RInv, BufferOK
<1>5. crt_pos > 0
  BY <1>1, <1>3, <1>4, BufAssumption
<1>6. /\ crt_buf' = [crt_buf EXCEPT ![crt_pos - 1] = Blank]
      /\ crt_pos' = crt_pos - 1
      /\ start' = start
  BY <1>1, <1>5, EraseShows DEF RInv
<1>7. crt_buf \in [Cells -> Contents] /\ crt_pos \in Cells
  BY DEF RInv, CgaInv, CursorOnScreen, CgaTypeOK, Contents
<1>8. \A k \in 0 .. i' - 1 : crt_buf'[start' + k] = buf'[k]
  <2> TAKE k \in 0 .. i' - 1
  <2>1. k \in 0 .. i - 1 /\ start + k \in Cells /\ start + k # crt_pos - 1
    BY <1>1, <1>3, <1>4, <1>7, SizeFacts, BufAssumption DEF Cells
  <2> QED
    BY <1>1, <1>3, <1>6, <1>7, <2>1
<1>9. BufferOK' /\ Settled'
  <2>1. spaces' = 0
    BY <1>1 DEF Echo, Putc
  <2> QED
    BY <1>1, <1>4, <1>6, <2>1, BufAssumption DEF RInv, BufferOK, Settled
<1> QED
  BY <1>1, <1>2, <1>3, <1>4, <1>6, <1>8, <1>9, BufAssumption DEF RInv, EchoMatchesBuffer

LEMMA NextRInv == RInv /\ [Next]_vars => RInv'
<1> SUFFICES ASSUME RInv, [Next]_vars
             PROVE  RInv'
  OBVIOUS
<1>1. CASE Output
  <2>1. CgaInv'
    BY <1>1, CgaNextInv DEF Output, RInv
  <2> QED
    BY <1>1, <2>1 DEF Output, rlVars, RInv, BufferOK, Settled, EchoMatchesBuffer
<1>2. CASE Begin
  <2>1. CgaInv'
    BY <1>2 DEF Begin, cgaVars, RInv, CgaInv, CgaTypeOK, CursorOnScreen
  <2>2. crt_pos \in Nat
    BY DEF RInv, CgaInv, CgaTypeOK
  <2> QED
    BY <1>2, <2>1, <2>2, BufAssumption
       DEF Begin, cgaVars, RInv, BufferOK, Settled, EchoMatchesBuffer
<1>3. ASSUME NEW c \in Typed, Erase(c)
      PROVE  RInv'
  BY <1>3, EraseRInv
<1>4. ASSUME NEW c \in Typed, Store(c)
      PROVE  RInv'
  BY <1>4, StoreRInv
<1>5. ASSUME NEW c \in Typed, Return(c)
      PROVE  RInv'
  <2>1. CgaInv'
    BY <1>5, EchoInv DEF Return, RInv, Printable
  <2>2. ~reading' /\ reading' = FALSE /\ i' = i /\ buf' = [buf EXCEPT ![i] = 0]
    BY <1>5 DEF Return
  <2>3. start' \in Int
    BY <1>5, SizeFacts DEF Return, Echo, RInv, BufferOK
  <2> QED
    BY <2>1, <2>2, <2>3 DEF RInv, BufferOK, Settled, EchoMatchesBuffer
<1>6. ASSUME NEW c \in Typed, Ignore(c)
      PROVE  RInv'
  BY <1>6 DEF Ignore, rlVars, cgaVars, RInv, BufferOK, Settled, EchoMatchesBuffer,
              CgaInv, CgaTypeOK, CursorOnScreen
<1>7. CASE UNCHANGED vars
  BY <1>7 DEF vars, rlVars, cgaVars, RInv, BufferOK, Settled, EchoMatchesBuffer,
              CgaInv, CgaTypeOK, CursorOnScreen
<1> QED
  BY <1>1, <1>2, <1>3, <1>4, <1>5, <1>6, <1>7 DEF Next

(***************************************************************************)
(* Whatever is typed, on a screen of any size with a line buffer that      *)
(* leaves a row of it free, the line on the screen is the line in buf.     *)
(***************************************************************************)
THEOREM EchoIsFaithful == Spec => [](TypeOK /\ CursorOnScreen /\ EchoMatchesBuffer)
<1>1. RInv => TypeOK /\ CursorOnScreen /\ EchoMatchesBuffer
  BY DEF RInv, CgaInv, BufferOK, TypeOK
<1> QED
  BY InitRInv, NextRInv, <1>1, PTL DEF Spec

-----------------------------------------------------------------------------
(* The line that is returned *)

(* What is in front of i is what was typed, never a 0; and once the line   *)
(* has been returned, a 0 stands behind it.                                *)
Line ==
  /\ \A k \in 0 .. i - 1 : buf[k] # 0
  /\ ~reading => buf[i] = 0

LInv == BufferOK /\ Line

LEMMA InitLInv == Init => LInv
<1> SUFFICES ASSUME Init PROVE LInv
  OBVIOUS
<1>1. BufferOK
  BY InitRInv DEF RInv
<1>2. i = 0 /\ \A k \in 0 .. BUFLEN - 1 : buf[k] = 0
  BY DEF Init
<1> QED
  BY <1>1, <1>2, BufAssumption DEF LInv, Line

LEMMA NextLInv == RInv /\ LInv /\ [Next]_vars => LInv'
<1> SUFFICES ASSUME RInv, LInv, [Next]_vars PROVE LInv'
  OBVIOUS
<1>1. BufferOK'
  BY NextRInv DEF RInv
<1>2. /\ i \in 0 .. BUFLEN - 1 /\ buf \in [0 .. BUFLEN - 1 -> Typed \cup {0}]
      /\ \A k \in 0 .. i - 1 : buf[k] # 0
  BY DEF LInv, Line, BufferOK
<1>3. CASE Output \/ UNCHANGED vars \/ \E c \in Typed : Ignore(c)
  BY <1>1, <1>3 DEF Output, Ignore, vars, rlVars, LInv, Line
<1>4. CASE Begin
  BY <1>1, <1>4, SMT DEF Begin, LInv, Line
<1>5. ASSUME NEW c \in Typed, Erase(c) PROVE LInv'
  <2>1. reading /\ reading' = reading /\ i' = i - 1 /\ buf' = buf
    BY <1>5 DEF Erase
  <2> QED
    BY <1>1, <1>2, <2>1, SMT DEF LInv, Line
<1>6. ASSUME NEW c \in Typed, Store(c) PROVE LInv'
  <2>1. reading /\ reading' = reading /\ i' = i + 1 /\ buf' = [buf EXCEPT ![i] = c]
    BY <1>6 DEF Store
  <2>2. c # 0
    BY TypedAssumption, SMT
  <2>3. \A k \in 0 .. i' - 1 : buf'[k] # 0
    BY <1>2, <2>1, <2>2, SMT
  <2> QED
    BY <1>1, <2>1, <2>3 DEF LInv, Line
<1>7. ASSUME NEW c \in Typed, Return(c) PROVE LInv'
  <2>1. i' = i /\ buf' = [buf EXCEPT ![i] = 0]
    BY <1>7 DEF Return
  <2> QED
    BY <1>1, <1>2, <2>1, SMT DEF LInv, Line
<1> QED
  BY <1>3, <1>4, <1>5, <1>6, <1>7 DEF Next

LEMMA Lines == Spec => [](RInv /\ LInv)
  BY InitRInv, NextRInv, InitLInv, NextLInv, PTL DEF Spec

Text == [k \in 1 .. i |-> buf[k - 1]]
Result == IF reading THEN <<>> ELSE CString

(* The C string in buf is the text in front of i. *)
LEMMA ResultIsText ==
  ASSUME LInv
  PROVE  ~reading => Result = Text
<1> SUFFICES ASSUME ~reading PROVE Result = Text
  OBVIOUS
<1> DEFINE Ending(k) == buf[k] = 0 /\ \A j \in 0 .. k - 1 : buf[j] # 0
<1>1. i \in 0 .. BUFLEN - 1 /\ Ending(i)
  BY DEF LInv, Line, BufferOK
<1>2. ASSUME NEW k \in 0 .. BUFLEN - 1, Ending(k) PROVE k = i
  <2>1. ~(k < i)
    BY <1>1, <1>2, SMT
  <2>2. ~(i < k)
    BY <1>1, <1>2, SMT
  <2> QED
    BY <1>1, <2>1, <2>2, SMT
<1>3. Terminator = CHOOSE k \in 0 .. BUFLEN - 1 : Ending(k)
  BY Zenon DEF Terminator
<1> HIDE DEF Ending
<1>4. Terminator = i
  BY <1>1, <1>2, <1>3, Zenon
<1> QED
  BY <1>4, Zenon DEF Result, CString, Text

LEMMA TextIsSeq ==
  ASSUME LInv
  PROVE  Text \in Seq(Typed \cup {0}) /\ Len(Text) = i /\ \A k \in 1 .. i : Text[k] = buf[k - 1]
<1>1. i \in Nat /\ \A k \in 1 .. i : buf[k - 1] \in Typed \cup {0}
  BY BufAssumption, SMT DEF LInv, BufferOK
<1> QED
  BY <1>1, SMT DEF Text

(* The same, to be used of the next state *)
TextOK == Text \in Seq(Typed \cup {0}) /\ Len(Text) = i
ResultOK == ~reading => Result = Text

LEMMA LineFacts == LInv => TextOK /\ ResultOK
  BY TextIsSeq, ResultIsText DEF TextOK, ResultOK

LEMMA LineFactsNext == LInv' => TextOK' /\ ResultOK'
  BY LineFacts, PTL

LEMMA StoreRefines ==
  ASSUME LInv, LInv', NEW c \in Typed, Store(c)
  PROVE  Editor!Type(c) /\ c >= Blank
<1>1. /\ reading /\ reading' = reading /\ i' = i + 1 /\ buf' = [buf EXCEPT ![i] = c]
      /\ c >= Blank /\ i < BUFLEN - 1
  BY DEF Store, Stores
<1>2. i \in 0 .. BUFLEN - 1 /\ buf \in [0 .. BUFLEN - 1 -> Typed \cup {0}]
  BY DEF LInv, BufferOK
<1>3. Text \in Seq(Typed \cup {0}) /\ Len(Text) = i /\ \A k \in 1 .. i : Text[k] = buf[k - 1]
  BY TextIsSeq
<1>4. Text' = Append(Text, c)
  <2>1. Text' \in Seq(Typed \cup {0}) /\ Len(Text') = i + 1
    BY <1>1, LineFactsNext DEF TextOK
  <2>2. /\ Append(Text, c) \in Seq(Typed \cup {0}) /\ Len(Append(Text, c)) = i + 1
        /\ \A k \in 1 .. i : Append(Text, c)[k] = Text[k]
        /\ Append(Text, c)[i + 1] = c
    BY <1>3, AppendProperties
  <2>3. ASSUME NEW k \in 1 .. i + 1 PROVE Text'[k] = Append(Text, c)[k]
    <3>1. Text'[k] = buf'[k - 1]
      BY <1>1 DEF Text
    <3>2. CASE k = i + 1
      BY <1>1, <1>2, <2>2, <3>1, <3>2, BufAssumption, SMT
    <3>3. CASE k \in 1 .. i
      BY <1>1, <1>2, <1>3, <2>2, <3>1, <3>3, BufAssumption, SMT
    <3>4. k = i + 1 \/ k \in 1 .. i
      BY <1>2, BufAssumption, SMT
    <3> QED
      BY <3>2, <3>3, <3>4
  <2> QED
    BY <2>1, <2>2, <2>3, SeqEqual
<1>5. Len(Text) < BUFLEN - 1
  BY <1>1, <1>3
<1>6. Result' = Result
  BY <1>1 DEF Result
<1> QED
  BY <1>1, <1>4, <1>5, <1>6, Zenon DEF Editor!Type, Text, Result

LEMMA EraseRefines ==
  ASSUME LInv, LInv', NEW c \in Typed, Erase(c)
  PROVE  Editor!Erase
<1>1. /\ reading /\ reading' = reading /\ i' = i - 1 /\ buf' = buf /\ i > 0
  BY DEF Erase, Erases
<1>2. i \in 0 .. BUFLEN - 1 /\ buf \in [0 .. BUFLEN - 1 -> Typed \cup {0}]
  BY DEF LInv, BufferOK
<1>3. Text \in Seq(Typed \cup {0}) /\ Len(Text) = i /\ \A k \in 1 .. i : Text[k] = buf[k - 1]
  BY TextIsSeq
<1>4. Text' = SubSeq(Text, 1, Len(Text) - 1)
  <2>1. Text' = [k \in 1 .. i - 1 |-> buf[k - 1]]
    BY <1>1 DEF Text
  <2>2. SubSeq(Text, 1, i - 1) = [k \in 1 .. i - 1 |-> Text[k]]
    BY <1>1, <1>2, <1>3, BufAssumption, SMT
  <2>3. \A k \in 1 .. i - 1 : Text[k] = buf[k - 1]
    BY <1>2, <1>3, BufAssumption, SMT
  <2> QED
    BY <1>3, <2>1, <2>2, <2>3
<1>5. Text # <<>>
  BY <1>1, <1>3
<1>6. Result' = Result
  BY <1>1 DEF Result
<1> QED
  BY <1>1, <1>4, <1>5, <1>6, Zenon DEF Editor!Erase, Text, Result

LEMMA ReturnRefines ==
  ASSUME LInv, LInv', NEW c \in Typed, Return(c)
  PROVE  Editor!Return
<1>1. reading /\ reading' = FALSE /\ i' = i /\ buf' = [buf EXCEPT ![i] = 0]
  BY DEF Return
<1>2. i \in 0 .. BUFLEN - 1 /\ buf \in [0 .. BUFLEN - 1 -> Typed \cup {0}]
  BY DEF LInv, BufferOK
<1>3. Text' = Text
  <2>1. \A k \in 1 .. i : buf'[k - 1] = buf[k - 1]
    BY <1>1, <1>2, BufAssumption, SMT
  <2> QED
    BY <1>1, <2>1 DEF Text
<1>4. Result' = Text
  BY <1>1, <1>3, LineFactsNext DEF ResultOK
<1> QED
  BY <1>1, <1>3, <1>4, Zenon DEF Editor!Return, Text, Result

LEMMA BeginRefines ==
  ASSUME LInv, Begin
  PROVE  Editor!Begin
<1>1. reading' = TRUE /\ i' = 0 /\ ~reading
  BY DEF Begin
<1>2. Text' = <<>>
  <2>1. Text' = [k \in 1 .. 0 |-> buf'[k - 1]]
    BY <1>1 DEF Text
  <2> QED
    BY <2>1, SMT
<1>3. Result' = <<>>
  BY <1>1 DEF Result
<1> QED
  BY <1>1, <1>2, <1>3, Zenon DEF Editor!Begin, Text, Result

LEMMA EditorStep == LInv /\ LInv' /\ [Next]_vars => [Editor!Next]_(Editor!vars)
<1> SUFFICES ASSUME LInv, LInv', [Next]_vars PROVE Editor!Next \/ UNCHANGED Editor!vars
  OBVIOUS
<1>1. CASE Output \/ UNCHANGED vars \/ \E c \in Typed : Ignore(c)
  <2>1. reading' = reading /\ i' = i /\ buf' = buf
    BY <1>1 DEF Output, Ignore, vars, rlVars
  <2>2. Text' = Text /\ Result' = Result
    BY <2>1, Zenon DEF Text, Result, CString, Terminator
  <2> QED
    BY <2>1, <2>2, Zenon DEF Editor!vars, Text, Result
<1>2. CASE Begin
  BY <1>2, BeginRefines DEF Editor!Next
<1>3. ASSUME NEW c \in Typed, Erase(c) PROVE Editor!Next
  BY <1>3, EraseRefines DEF Editor!Next
<1>4. ASSUME NEW c \in Typed, Store(c) PROVE Editor!Next
  BY <1>4, StoreRefines DEF Editor!Next
<1>5. ASSUME NEW c \in Typed, Return(c) PROVE Editor!Next
  BY <1>5, ReturnRefines DEF Editor!Next
<1> QED
  BY <1>1, <1>2, <1>3, <1>4, <1>5 DEF Next

LEMMA EditorInit == Init => Editor!Init
<1> SUFFICES ASSUME Init PROVE Editor!Init
  OBVIOUS
<1>1. LInv /\ reading = FALSE /\ i = 0
  BY InitLInv DEF Init
<1>2. Text = <<>>
  <2>1. Text = [k \in 1 .. 0 |-> buf[k - 1]]
    BY <1>1 DEF Text
  <2> QED
    BY <2>1, SMT
<1>3. Result = <<>>
  BY <1>1, <1>2, ResultIsText
<1> QED
  BY <1>1, <1>2, <1>3, Zenon DEF Editor!Init, Text, Result

(***************************************************************************)
(* On every screen and for every BUFLEN that leaves a row of it free,      *)
(* readline edits one line and returns the line that was edited: no byte   *)
(* of an earlier one behind it, none lost, none that was erased.           *)
(***************************************************************************)
THEOREM EditsOneLine == Spec => ImplementsLineEditor
  BY Lines, EditorInit, EditorStep, PTL DEF Spec, ImplementsLineEditor, Editor!Spec
-----------------------------------------------------------------------------
(* The screen and the paper *)

(* Rows of the screen are rows of the paper. *)
Rows == gone \in Seq(Contents) /\ \E n \in Nat : Len(gone) = n * CRT_COLS

PInv == CgaInv /\ Rows

(* The cells g that are gone with the screen b below them *)
Cell(b) == [k \in 1 .. CRT_SIZE |-> b[k - 1]]
View(g, b) == g \o Cell(b)

LEMMA ViewFacts ==
  ASSUME NEW g \in Seq(Contents), NEW b \in [Cells -> Contents]
  PROVE  /\ Len(g) \in Nat
         /\ View(g, b) \in Seq(Contents)
         /\ Len(View(g, b)) = Len(g) + CRT_SIZE
         /\ \A k \in 1 .. Len(g) : View(g, b)[k] = g[k]
         /\ \A p \in Cells : View(g, b)[Len(g) + p + 1] = b[p]
<1>1. Cell(b) \in Seq(Contents) /\ Len(Cell(b)) = CRT_SIZE /\ \A k \in 1 .. CRT_SIZE : Cell(b)[k] = b[k - 1]
  <2>1. \A k \in 1 .. CRT_SIZE : b[k - 1] \in Contents
    BY SizeFacts, SMT DEF Cells
  <2> QED
    BY <2>1, SizeFacts, SMT DEF Cell
<1>2. Len(g) \in Nat
  BY LenProperties
<1>3. /\ View(g, b) \in Seq(Contents) /\ Len(View(g, b)) = Len(g) + CRT_SIZE
      /\ \A k \in 1 .. Len(g) + CRT_SIZE :
           View(g, b)[k] = IF k <= Len(g) THEN g[k] ELSE Cell(b)[k - Len(g)]
  BY <1>1, ConcatProperties DEF View
<1>4. \A k \in 1 .. Len(g) : View(g, b)[k] = g[k]
  BY <1>2, <1>3, SizeFacts, SMT
<1>5. ASSUME NEW p \in Cells, NEW n, n = Len(g) + p + 1 PROVE View(g, b)[n] = b[p]
  <2>1. /\ n \in 1 .. Len(g) + CRT_SIZE /\ ~(n <= Len(g))
        /\ n - Len(g) \in 1 .. CRT_SIZE /\ n - Len(g) - 1 = p
    BY <1>2, <1>5, SizeFacts, SMT DEF Cells
  <2>2. View(g, b)[n] = Cell(b)[n - Len(g)]
    BY <1>3, <2>1, Zenon
  <2>3. Cell(b)[n - Len(g)] = b[n - Len(g) - 1]
    BY <1>1, <2>1, Zenon
  <2> QED
    BY <2>1, <2>2, <2>3, Zenon
<1> QED
  BY <1>2, <1>3, <1>4, <1>5

(* A character written on the screen is written on the paper. *)
With(f, k, c) == [f EXCEPT ![k] = c]

LEMMA WriteOnPaper ==
  ASSUME NEW g \in Seq(Contents), NEW b \in [Cells -> Contents], NEW p \in Cells, NEW c \in Contents,
         NEW at, at = Len(g) + p + 1
  PROVE  View(g, With(b, p, c)) = With(View(g, b), at, c)
<1> DEFINE w == With(b, p, c)
           v == With(View(g, b), at, c)
<1>1. w \in [Cells -> Contents] /\ w[p] = c /\ \A q \in Cells : q # p => w[q] = b[q]
  BY DEF With
<1>2. /\ Len(g) \in Nat /\ View(g, b) \in Seq(Contents) /\ Len(View(g, b)) = Len(g) + CRT_SIZE
      /\ \A k \in 1 .. Len(g) : View(g, b)[k] = g[k]
      /\ \A q \in Cells : View(g, b)[Len(g) + q + 1] = b[q]
  BY ViewFacts
<1> HIDE DEF w
<1>3. /\ View(g, w) \in Seq(Contents) /\ Len(View(g, w)) = Len(g) + CRT_SIZE
      /\ \A k \in 1 .. Len(g) : View(g, w)[k] = g[k]
      /\ \A q \in Cells : View(g, w)[Len(g) + q + 1] = w[q]
  BY <1>1, ViewFacts
<1>4. at \in 1 .. Len(View(g, b))
  BY <1>2, SizeFacts, SMT DEF Cells
<1>5. /\ v \in Seq(Contents) /\ Len(v) = Len(g) + CRT_SIZE
      /\ \A k \in 1 .. Len(g) + CRT_SIZE : v[k] = IF k = at THEN c ELSE View(g, b)[k]
  BY <1>2, <1>4, ExceptSeq DEF With
<1> HIDE DEF v
<1>6. ASSUME NEW k \in 1 .. Len(g) + CRT_SIZE PROVE View(g, w)[k] = v[k]
  <2>1. CASE k \in 1 .. Len(g)
    <3>1. k # at
      BY <1>2, <2>1, SizeFacts, SMT DEF Cells
    <3> QED
      BY <1>2, <1>3, <1>5, <2>1, <3>1
  <2>2. CASE k \notin 1 .. Len(g)
    <3>1. PICK q \in Cells : k = Len(g) + q + 1
      <4>1. k - Len(g) - 1 \in Cells /\ k = Len(g) + (k - Len(g) - 1) + 1
        BY <1>2, <2>2, SizeFacts, SMT DEF Cells
      <4> QED
        BY <4>1
    <3>2. q = p <=> k = at
      <4>1. q \in Int /\ p \in Int /\ Len(g) \in Int
        BY <1>2, SizeFacts, SMT DEF Cells
      <4> QED
        BY <3>1, <4>1, SMT
    <3> QED
      BY <1>1, <1>2, <1>3, <1>5, <3>1, <3>2
  <2> QED
    BY <2>1, <2>2
<1>7. View(g, w) = v
  BY <1>3, <1>5, <1>6, SeqEqual
<1> QED
  BY <1>7 DEF v, w

(* Scrolling moves no character of the paper: it adds a blank row. *)
BlankRow == [k \in 1 .. CRT_COLS |-> Blank]
Top(b) == [k \in 1 .. CRT_COLS |-> b[k - 1]]
Shifted(b) == [k \in Cells |-> IF k < CRT_SIZE - CRT_COLS THEN b[k + CRT_COLS] ELSE Blank]

LEMMA ScrollOnPaper ==
  ASSUME NEW g \in Seq(Contents), NEW b \in [Cells -> Contents]
  PROVE  /\ Top(b) \in Seq(Contents) /\ Len(Top(b)) = CRT_COLS
         /\ Shifted(b) \in [Cells -> Contents]
         /\ View(g \o Top(b), Shifted(b)) = View(g, b) \o BlankRow
<1>1. Top(b) \in Seq(Contents) /\ Len(Top(b)) = CRT_COLS /\ \A k \in 1 .. CRT_COLS : Top(b)[k] = b[k - 1]
  <2>1. \A k \in 1 .. CRT_COLS : b[k - 1] \in Contents
    BY SizeFacts, SMT DEF Cells
  <2> QED
    BY <2>1, SizeFacts, SMT DEF Top
<1>2. Shifted(b) \in [Cells -> Contents]
  <2>1. \A k \in Cells : k < CRT_SIZE - CRT_COLS => b[k + CRT_COLS] \in Contents
    BY SizeFacts, SMT DEF Cells
  <2>2. Blank \in Contents
    BY DEF Contents
  <2> QED
    BY <2>1, <2>2 DEF Shifted
<1>3. BlankRow \in Seq(Contents) /\ Len(BlankRow) = CRT_COLS /\ \A k \in 1 .. CRT_COLS : BlankRow[k] = Blank
  <2>1. Blank \in Contents
    BY DEF Contents
  <2> QED
    BY <2>1, SizeFacts, SMT DEF BlankRow
<1>4. /\ Len(g) \in Nat /\ View(g, b) \in Seq(Contents) /\ Len(View(g, b)) = Len(g) + CRT_SIZE
      /\ \A k \in 1 .. Len(g) : View(g, b)[k] = g[k]
      /\ \A p \in Cells : View(g, b)[Len(g) + p + 1] = b[p]
  BY ViewFacts
<1> DEFINE h == g \o Top(b)
           left == View(h, Shifted(b))
           right == View(g, b) \o BlankRow
<1>5. /\ h \in Seq(Contents) /\ Len(h) = Len(g) + CRT_COLS
      /\ \A k \in 1 .. Len(g) + CRT_COLS : h[k] = IF k <= Len(g) THEN g[k] ELSE Top(b)[k - Len(g)]
  BY <1>1, <1>4, ConcatProperties
<1> HIDE DEF h
<1>6. /\ left \in Seq(Contents) /\ Len(left) = Len(h) + CRT_SIZE
      /\ \A k \in 1 .. Len(h) : left[k] = h[k]
      /\ \A p \in Cells : left[Len(h) + p + 1] = Shifted(b)[p]
  BY <1>2, <1>5, ViewFacts
<1>7. /\ right \in Seq(Contents) /\ Len(right) = Len(g) + CRT_SIZE + CRT_COLS
      /\ \A k \in 1 .. Len(g) + CRT_SIZE + CRT_COLS :
           right[k] = IF k <= Len(g) + CRT_SIZE THEN View(g, b)[k] ELSE BlankRow[k - (Len(g) + CRT_SIZE)]
  <2>1. /\ right \in Seq(Contents) /\ Len(right) = Len(View(g, b)) + Len(BlankRow)
        /\ \A k \in 1 .. Len(View(g, b)) + Len(BlankRow) :
             right[k] = IF k <= Len(View(g, b)) THEN View(g, b)[k] ELSE BlankRow[k - Len(View(g, b))]
    BY <1>3, <1>4, ConcatProperties
  <2> HIDE DEF right
  <2> QED
    BY <1>3, <1>4, <2>1
<1> HIDE DEF left, right
<1>8. ASSUME NEW k \in 1 .. Len(g) + CRT_SIZE + CRT_COLS PROVE left[k] = right[k]
  <2>1. CASE k \in 1 .. Len(g)
    <3>1. k \in 1 .. Len(h) /\ k \in 1 .. Len(g) + CRT_COLS /\ k <= Len(g) /\ k <= Len(g) + CRT_SIZE
      BY <1>4, <1>5, <2>1, SizeFacts, SMT
    <3> QED
      BY <1>4, <1>5, <1>6, <1>7, <2>1, <3>1
  <2>2. CASE k \in Len(g) + 1 .. Len(g) + CRT_COLS
    <3>1. /\ k \in 1 .. Len(h) /\ k \in 1 .. Len(g) + CRT_COLS /\ ~(k <= Len(g))
          /\ k <= Len(g) + CRT_SIZE
          /\ k - Len(g) \in 1 .. CRT_COLS /\ k - Len(g) - 1 \in Cells
          /\ Len(g) + (k - Len(g) - 1) + 1 = k
      BY <1>4, <1>5, <2>2, SizeFacts, SMT DEF Cells
    <3>2. left[k] = b[k - Len(g) - 1]
      BY <1>1, <1>5, <1>6, <3>1
    <3>3. right[k] = View(g, b)[k]
      BY <1>7, <3>1
    <3>4. View(g, b)[Len(g) + (k - Len(g) - 1) + 1] = b[k - Len(g) - 1]
      BY <1>4, <3>1
    <3> QED
      BY <3>1, <3>2, <3>3, <3>4
  <2>3. CASE k \in Len(g) + CRT_COLS + 1 .. Len(g) + CRT_COLS + CRT_SIZE
    <3>1. PICK p \in Cells : k = Len(h) + p + 1
      <4>1. k - Len(h) - 1 \in Cells /\ k = Len(h) + (k - Len(h) - 1) + 1
        BY <1>4, <1>5, <2>3, SizeFacts, SMT DEF Cells
      <4> QED
        BY <4>1
    <3>2. left[k] = IF p < CRT_SIZE - CRT_COLS THEN b[p + CRT_COLS] ELSE Blank
      BY <1>6, <3>1 DEF Shifted
    <3>3. CASE p < CRT_SIZE - CRT_COLS
      <4>1. p + CRT_COLS \in Cells /\ k = Len(g) + (p + CRT_COLS) + 1 /\ k <= Len(g) + CRT_SIZE
        BY <1>4, <1>5, <3>1, <3>3, SizeFacts, SMT DEF Cells
      <4> QED
        BY <1>4, <1>7, <3>2, <3>3, <4>1
    <3>4. CASE ~(p < CRT_SIZE - CRT_COLS)
      <4>1. ~(k <= Len(g) + CRT_SIZE) /\ k - (Len(g) + CRT_SIZE) \in 1 .. CRT_COLS
        BY <1>4, <1>5, <3>1, <3>4, SizeFacts, SMT DEF Cells
      <4> QED
        BY <1>3, <1>7, <3>2, <3>4, <4>1
    <3> QED
      BY <3>3, <3>4
  <2> QED
    BY <1>4, <2>1, <2>2, <2>3, SizeFacts, SMT
<1>9. left = right
  <2>1. Len(left) = Len(right) /\ Len(left) = Len(g) + CRT_SIZE + CRT_COLS
    BY <1>4, <1>5, <1>6, <1>7, SizeFacts, SMT
  <2> QED
    BY <1>6, <1>7, <1>8, <2>1, SeqEqual
<1> QED
  BY <1>1, <1>2, <1>9 DEF left, right, h

(* Division by a width that is not a constant *)
LEMMA Product ==
  ASSUME NEW d \in Int, NEW b \in Nat \ {0}, -b < d * b, d * b < b
  PROVE  d = 0
BY SMT

LEMMA DivisionUnique ==
  ASSUME NEW q \in Nat, NEW b \in Nat \ {0}, NEW r \in 0 .. b - 1,
         NEW a \in Nat, a = q * b + r
  PROVE  a \div b = q /\ a % b = r
<1> DEFINE p == a \div b
           s == a % b
<1>1. p \in Nat /\ s \in 0 .. b - 1 /\ a = b * p + s
  BY SMT
<1> HIDE DEF p, s
<1>2. (q - p) * b = s - r
  BY <1>1, SMT
<1>3. q - p \in Int /\ s - r \in Int /\ -b < s - r /\ s - r < b
  BY <1>1, SMT
<1>4. q - p = 0
  BY <1>2, <1>3, Product
<1>5. p = q /\ s = r
  BY <1>1, <1>2, <1>4, SMT
<1> QED
  BY <1>5 DEF p, s

(* The column below is the column above. *)
LEMMA NextRow ==
  ASSUME NEW p \in Nat, NEW b \in Nat \ {0}
  PROVE  (p + b) % b = p % b
<1> DEFINE q == p \div b
           r == p % b
<1>1. q \in Nat /\ r \in 0 .. b - 1 /\ p = b * q + r
  BY SMT
<1> HIDE DEF q, r
<1>2. PICK m \in Nat, u \in Nat : u = p + b /\ u = m * b + r
  <2>1. q + 1 \in Nat /\ p + b \in Nat /\ p + b = (q + 1) * b + r
    BY <1>1, SMT
  <2> QED
    BY <2>1
<1>3. u % b = r
  <2>1. r \in 0 .. b - 1 /\ m \in Nat /\ u \in Nat /\ u = m * b + r
    BY <1>1, <1>2
  <2> QED
    BY <2>1, DivisionUnique, SMT
<1> QED
  BY <1>2, <1>3 DEF r

(* Where the rows of the screen start they start on the paper, too. *)
LEMMA RowsAgree ==
  ASSUME NEW n \in Nat, NEW l \in Nat, l = n * CRT_COLS, NEW p \in Nat,
         NEW h \in Nat, h = l + p
  PROVE  /\ l + RowStart(p) = (h \div CRT_COLS) * CRT_COLS
         /\ l + RowStart(p + CRT_COLS) = (h \div CRT_COLS + 1) * CRT_COLS
<1> DEFINE b == CRT_COLS
           q == p \div b
           r == p % b
           u == p + b
<1>1. b \in Nat \ {0}
  BY SizeFacts
<1> HIDE DEF b
<1>2. q \in Nat /\ r \in 0 .. b - 1 /\ p = b * q + r
  BY <1>1, SMT
<1>3. RowStart(p) = p - r /\ RowStart(u) = u - (u % b)
  BY DEF RowStart, b
<1> HIDE DEF q, r, u
<1>4. n + q \in Nat /\ h = (n + q) * b + r
  BY <1>1, <1>2, SMT DEF b
<1>5. h \div b = n + q
  <2> DEFINE m == n + q
  <2>1. m \in Nat /\ h = m * b + r
    BY <1>4
  <2> HIDE DEF m
  <2>2. h \div b = m
    BY <1>1, <1>2, <2>1, DivisionUnique
  <2> QED
    BY <2>2 DEF m
<1>6. u \in Nat /\ q + 1 \in Nat /\ u = (q + 1) * b + r
  BY <1>1, <1>2, SMT DEF u
<1>7. u % b = r
  BY <1>1, <1>6, NextRow DEF u, r
<1>8. l + RowStart(p) = (n + q) * b
  BY <1>1, <1>2, <1>3, SMT DEF b
<1>9. l + RowStart(u) = (n + q + 1) * b
  BY <1>1, <1>2, <1>6, <1>7, <1>3, SMT DEF b
<1> QED
  BY <1>5, <1>8, <1>9 DEF b, u

(* A step that places a character and then scrolls is a move of the head. *)
LEMMA ScrollMoves ==
  ASSUME PInv, NEW w \in [Cells -> Contents], NEW p \in 0 .. CRT_SIZE + CRT_COLS - 1,
         p >= CRT_SIZE => Top(w) = TopRow,
         Show(Scroll([buf |-> w, pos |-> p])),
         gone' = IF ScrolledOff([buf |-> w, pos |-> p]) THEN gone \o TopRow ELSE gone,
         NEW paper, paper = View(gone, w), NEW h, h = Len(gone) + p
  PROVE  OnPaper!Move(paper, h) /\ Rows'
<1>1. /\ gone \in Seq(Contents) /\ Len(gone) \in Nat
      /\ Len(View(gone, w)) = Len(gone) + CRT_SIZE
  BY ViewFacts DEF PInv, Rows
<1>2. CASE p >= CRT_SIZE
  <2>1. /\ crt_buf' = Shifted(w) /\ crt_pos' = p - CRT_COLS /\ gone' = gone \o Top(w)
    BY <1>2 DEF Scroll, ScrolledOff, Show, Shifted
  <2>2. /\ Top(w) \in Seq(Contents) /\ Len(Top(w)) = CRT_COLS
        /\ View(gone \o Top(w), Shifted(w)) = View(gone, w) \o BlankRow
    BY <1>1, ScrollOnPaper
  <2>3. gone' \in Seq(Contents) /\ Len(gone') = Len(gone) + CRT_COLS
    BY <1>1, <2>1, <2>2, ConcatProperties
  <2>4. View(gone', crt_buf') = View(gone, w) \o BlankRow
    BY <2>1, <2>2
  <2>5. ~(Len(gone) + p < Len(View(gone, w)))
    BY <1>1, <1>2, SizeFacts, SMT
  <2>6. Len(gone') + crt_pos' = Len(gone) + p
    <3>1. crt_pos' = p - CRT_COLS
      BY <2>1
    <3>2. ASSUME NEW l \in Nat, NEW m, m = l + CRT_COLS PROVE m + (p - CRT_COLS) = l + p
      BY <3>2, SizeFacts, SMT
    <3> QED
      BY <1>1, <2>3, <3>1, <3>2, Zenon
  <2>7. OnPaper!Move(paper, h)
    BY <2>4, <2>5, <2>6 DEF OnPaper!Move, View, Cell, BlankRow
  <2>8. PICK n \in Nat : Len(gone) = n * CRT_COLS
    BY DEF PInv, Rows
  <2>9. n + 1 \in Nat /\ Len(gone') = (n + 1) * CRT_COLS
    BY <2>3, <2>8, SizeFacts, SMT
  <2> QED
    BY <2>3, <2>7, <2>9 DEF Rows
<1>3. CASE ~(p >= CRT_SIZE)
  <2>1. crt_buf' = w /\ crt_pos' = p /\ gone' = gone
    BY <1>3 DEF Scroll, ScrolledOff, Show
  <2>2. Len(gone) + p < Len(View(gone, w))
    BY <1>1, <1>3, SizeFacts, SMT
  <2>3. View(gone', crt_buf') = View(gone, w) /\ Len(gone') + crt_pos' = Len(gone) + p
    BY <2>1
  <2>4. OnPaper!Move(paper, h)
    BY <2>2, <2>3 DEF OnPaper!Move, View, Cell
  <2> QED
    BY <2>1, <2>4 DEF PInv, Rows
<1> QED
  BY <1>2, <1>3

PaperVars == <<View(gone, crt_buf), Len(gone) + crt_pos>>

(* One cga_putc, by what its switch does with the character *)
LEMMA StrikeRefines ==
  ASSUME PInv, NEW c \in Contents, c \notin {BS, NL, CR}, Show(Put(Display, c)), Remember(c)
  PROVE  OnPaper!Strike(c) /\ Rows'
<1> DEFINE w == With(crt_buf, crt_pos, c)
           p == crt_pos + 1
<1>1. crt_buf \in [Cells -> Contents] /\ crt_pos \in Cells /\ gone \in Seq(Contents)
  BY DEF PInv, Rows, CgaInv, CgaTypeOK, CursorOnScreen, Contents
<1>2. Place(Display, c) = [buf |-> w, pos |-> p]
  BY DEF Place, Display, With
<1>3. w \in [Cells -> Contents] /\ p \in 0 .. CRT_SIZE + CRT_COLS - 1
  BY <1>1, SizeFacts DEF Cells, With
<1>4. p >= CRT_SIZE => Top(w) = TopRow
  <2>1. ASSUME p >= CRT_SIZE, NEW k \in 1 .. CRT_COLS PROVE w[k - 1] = crt_buf[k - 1]
    <3>1. k - 1 \in Cells /\ k - 1 # crt_pos
      BY <1>1, <2>1, SizeFacts, SMT DEF Cells
    <3> QED
      BY <1>1, <3>1 DEF With
  <2> HIDE DEF w
  <2> QED
    BY <2>1 DEF Top, TopRow
<1>5. /\ Show(Scroll([buf |-> w, pos |-> p]))
      /\ gone' = IF ScrolledOff([buf |-> w, pos |-> p]) THEN gone \o TopRow ELSE gone
  BY <1>2 DEF Put, Remember, Scrolls
<1>6. PICK at : at = Len(gone) + crt_pos + 1
  OBVIOUS
<1>7. at = Len(gone) + p
  <2>1. Len(gone) \in Int /\ crt_pos \in Int
    BY <1>1, ViewFacts, SizeFacts DEF Cells
  <2> QED
    BY <1>6, <2>1, SMT
<1>8. View(gone, w) = With(View(gone, crt_buf), at, c)
  BY <1>1, <1>6, WriteOnPaper
<1> HIDE DEF w, p
<1>9. OnPaper!Move(With(View(gone, crt_buf), at, c), at) /\ Rows'
  BY <1>3, <1>4, <1>5, <1>7, <1>8, ScrollMoves
<1> QED
  BY <1>6, <1>9 DEF OnPaper!Strike, OnPaper!Move, View, Cell, With

LEMMA RubOutRefines ==
  ASSUME PInv, Show(Put(Display, BS)), Remember(BS)
  PROVE  (OnPaper!RubOut \/ UNCHANGED PaperVars) /\ Rows'
<1>1. crt_buf \in [Cells -> Contents] /\ crt_pos \in Cells /\ gone \in Seq(Contents)
  BY DEF PInv, Rows, CgaInv, CgaTypeOK, CursorOnScreen, Contents
<1>2. CASE crt_pos > 0
  <2> DEFINE w == With(crt_buf, crt_pos - 1, Blank)
             p == crt_pos - 1
  <2>1. Place(Display, BS) = [buf |-> w, pos |-> p]
    BY <1>2 DEF Place, Display, BS, NL, CR, With
  <2>2. w \in [Cells -> Contents] /\ p \in Cells /\ p \in 0 .. CRT_SIZE + CRT_COLS - 1 /\ ~(p >= CRT_SIZE)
    BY <1>1, <1>2, SizeFacts DEF Cells, Contents, With
  <2>3. /\ Show(Scroll([buf |-> w, pos |-> p]))
        /\ gone' = IF ScrolledOff([buf |-> w, pos |-> p]) THEN gone \o TopRow ELSE gone
    BY <2>1 DEF Put, Remember, Scrolls
  <2>4. Blank \in Contents
    BY DEF Contents
  <2>5. PICK at, h : at = Len(gone) + crt_pos /\ h = (Len(gone) + crt_pos) - 1
    OBVIOUS
  <2>6. /\ at = Len(gone) + p + 1 /\ h = Len(gone) + p
        /\ Len(gone) + crt_pos > Len(View(gone, crt_buf)) - CRT_SIZE
    <3>1. /\ Len(gone) \in Nat /\ crt_pos \in Int
          /\ Len(View(gone, crt_buf)) = Len(gone) + CRT_SIZE
      BY <1>1, ViewFacts, SizeFacts DEF Cells
    <3> QED
      BY <1>2, <2>5, <3>1, SizeFacts, SMT
  <2>7. View(gone, w) = With(View(gone, crt_buf), at, Blank)
    BY <1>1, <2>2, <2>4, <2>6, WriteOnPaper
  <2> HIDE DEF w, p
  <2>8. OnPaper!Move(With(View(gone, crt_buf), at, Blank), h) /\ Rows'
    BY <2>2, <2>3, <2>6, <2>7, ScrollMoves
  <2>9. Len(gone) + crt_pos > Len(gone \o [k \in 1 .. CRT_SIZE |-> crt_buf[k - 1]]) - CRT_SIZE
    BY <2>6, Zenon DEF View, Cell
  <2>10. OnPaper!RubOut
    BY <2>5, <2>8, <2>9, Zenon DEF OnPaper!RubOut, OnPaper!Move, View, Cell, With
  <2> QED
    BY <2>8, <2>10
<1>3. CASE ~(crt_pos > 0)
  <2>1. Place(Display, BS) = Display
    BY <1>3 DEF Place, Display, BS, NL, CR
  <2>2. ~ScrolledOff(Display)
    BY <1>1, SizeFacts DEF ScrolledOff, Display, Cells
  <2>3. gone' = gone /\ crt_buf' = crt_buf /\ crt_pos' = crt_pos
    BY <2>1, <2>2 DEF Put, Scroll, Show, Display, Remember, Scrolls
  <2> QED
    BY <2>3 DEF PaperVars, View, Cell, PInv, Rows
<1> QED
  BY <1>2, <1>3

LEMMA RowMoveRefines ==
  ASSUME PInv, NEW c \in {NL, CR}, Show(Put(Display, c)), Remember(c)
  PROVE  (OnPaper!LineFeed \/ OnPaper!CarriageReturn) /\ Rows'
<1> DEFINE from == IF c = NL THEN crt_pos + CRT_COLS ELSE crt_pos
           p == RowStart(from)
<1>1. crt_buf \in [Cells -> Contents] /\ crt_pos \in Cells /\ gone \in Seq(Contents)
  BY DEF PInv, Rows, CgaInv, CgaTypeOK, CursorOnScreen, Contents
<1>2. Place(Display, c) = [buf |-> crt_buf, pos |-> p]
  BY DEF Place, Display, BS, NL, CR
<1>3. from \in Nat /\ from < CRT_SIZE + CRT_COLS
  BY <1>1, SizeFacts DEF Cells
<1>4. p \in Nat /\ p <= from
  BY <1>3, RowStartRange
<1>5. p \in 0 .. CRT_SIZE + CRT_COLS - 1
  BY <1>3, <1>4, SizeFacts
<1>6. /\ Show(Scroll([buf |-> crt_buf, pos |-> p]))
      /\ gone' = IF ScrolledOff([buf |-> crt_buf, pos |-> p]) THEN gone \o TopRow ELSE gone
  BY <1>2 DEF Put, Remember, Scrolls
<1>7. Top(crt_buf) = TopRow
  BY DEF Top, TopRow
<1> HIDE DEF p, from
<1>8. ASSUME NEW h, h = Len(gone) + p PROVE OnPaper!Move(View(gone, crt_buf), h) /\ Rows'
  BY <1>1, <1>5, <1>6, <1>7, <1>8, ScrollMoves
<1>9. PICK n \in Nat : Len(gone) = n * CRT_COLS
  BY DEF PInv, Rows
<1>10. Len(gone) \in Nat /\ crt_pos \in Nat /\ Len(gone) + crt_pos \in Nat
  BY <1>1, ViewFacts, SizeFacts DEF Cells
<1>11. /\ Len(gone) + RowStart(crt_pos) = ((Len(gone) + crt_pos) \div CRT_COLS) * CRT_COLS
       /\ Len(gone) + RowStart(crt_pos + CRT_COLS) = ((Len(gone) + crt_pos) \div CRT_COLS + 1) * CRT_COLS
  BY <1>9, <1>10, RowsAgree
<1>12. CASE c = NL
  <2>1. Len(gone) + p = ((Len(gone) + crt_pos) \div CRT_COLS + 1) * CRT_COLS
    BY <1>11, <1>12 DEF p, from
  <2>2. PICK h : h = ((Len(gone) + crt_pos) \div CRT_COLS + 1) * CRT_COLS
    OBVIOUS
  <2>3. OnPaper!Move(View(gone, crt_buf), h) /\ Rows'
    BY <1>8, <2>1, <2>2
  <2> QED
    BY <2>2, <2>3 DEF OnPaper!LineFeed, OnPaper!Move, View, Cell
<1>13. CASE c = CR
  <2>1. Len(gone) + p = ((Len(gone) + crt_pos) \div CRT_COLS) * CRT_COLS
    BY <1>11, <1>13 DEF p, from, NL, CR
  <2>2. PICK h : h = ((Len(gone) + crt_pos) \div CRT_COLS) * CRT_COLS
    OBVIOUS
  <2>3. OnPaper!Move(View(gone, crt_buf), h) /\ Rows'
    BY <1>8, <2>1, <2>2
  <2> QED
    BY <2>2, <2>3 DEF OnPaper!CarriageReturn, OnPaper!Move, View, Cell
<1> QED
  BY <1>12, <1>13

OnPaperStep == OnPaper!Next \/ UNCHANGED PaperVars

LEMMA PutRefines ==
  ASSUME PInv, NEW c \in Printable, Show(Put(Display, c)), Remember(c)
  PROVE  OnPaperStep /\ Rows'
<1>1. CASE c \in Contents /\ c \notin {BS, NL, CR}
  BY <1>1, StrikeRefines DEF OnPaperStep, OnPaper!Next, Contents
<1>2. CASE c = BS
  BY <1>2, RubOutRefines DEF OnPaperStep, OnPaper!Next
<1>3. CASE c \in {NL, CR}
  BY <1>3, RowMoveRefines DEF OnPaperStep, OnPaper!Next
<1> QED
  BY <1>1, <1>2, <1>3 DEF Printable

LEMMA PaperStep ==
  PInv /\ [HistoryNext]_<<cgaVars, gone>> => PInv' /\ OnPaperStep
<1> SUFFICES ASSUME PInv, [HistoryNext]_<<cgaVars, gone>>
             PROVE  PInv' /\ OnPaperStep
  OBVIOUS
<1>1. CgaInv'
  <2>1. [CgaNext]_cgaVars
    BY DEF HistoryNext, CgaNext
  <2> QED
    BY <2>1, CgaNextInv DEF PInv
<1> SUFFICES Rows' /\ OnPaperStep
  BY <1>1 DEF PInv
<1>2. ASSUME NEW c \in Glyphs \cup {Blank, BS, NL, CR}, Putc(c), Remember(c)
      PROVE  Rows' /\ OnPaperStep
  <2>1. c \in Printable /\ Show(Put(Display, c))
    BY <1>2 DEF Printable, Contents, Putc
  <2> QED
    BY <1>2, <2>1, PutRefines
<1>3. CASE TabSpace /\ Remember(Blank)
  <2>1. Blank \in Printable /\ Show(Put(Display, Blank))
    BY <1>3 DEF Printable, Contents, TabSpace
  <2> QED
    BY <1>3, <2>1, PutRefines
<1>4. ASSUME crt_buf' = crt_buf, crt_pos' = crt_pos, gone' = gone
      PROVE  Rows' /\ OnPaperStep
  BY <1>4 DEF PInv, Rows, OnPaperStep, PaperVars, View, Cell
<1>5. CASE TabBegin /\ UNCHANGED gone
  BY <1>4, <1>5 DEF TabBegin
<1>6. CASE TabEnd /\ UNCHANGED gone
  <2>1. Scroll(Display) = Display
    BY SizeFacts DEF Scroll, ScrolledOff, Display, PInv, CgaInv, CursorOnScreen, Cells
  <2>2. crt_buf' = crt_buf /\ crt_pos' = crt_pos
    BY <1>6, <2>1 DEF TabEnd, Show, Display
  <2> QED
    BY <1>4, <1>6, <2>2
<1>7. CASE UNCHANGED <<cgaVars, gone>>
  BY <1>4, <1>7 DEF cgaVars
<1> QED
  BY <1>2, <1>3, <1>5, <1>6, <1>7 DEF HistoryNext

LEMMA PaperInit == HistoryInit => PInv /\ OnPaper!Init
<1> SUFFICES ASSUME HistoryInit
             PROVE  PInv /\ OnPaper!Init
  OBVIOUS
<1>1. gone = <<>> /\ crt_buf \in [Cells -> Contents] /\ crt_pos \in Cells
  BY DEF HistoryInit, CgaInit, Contents
<1>2. Rows
  <2>1. gone \in Seq(Contents) /\ Len(gone) = 0
    BY <1>1, EmptySeq
  <2>2. 0 \in Nat /\ 0 = 0 * CRT_COLS
    BY SizeFacts
  <2> QED
    BY <2>1, <2>2 DEF Rows
<1>3. View(gone, crt_buf) \in [1 .. CRT_SIZE -> Contents]
  <2>1. <<>> \in Seq(Contents) /\ Len(<<>>) = 0
    BY EmptySeq
  <2>2. View(gone, crt_buf) \in Seq(Contents) /\ Len(View(gone, crt_buf)) = Len(gone) + CRT_SIZE
    BY <1>1, <2>1, ViewFacts
  <2>3. Len(View(gone, crt_buf)) = CRT_SIZE
    BY <1>1, <2>1, <2>2, SizeFacts
  <2> QED
    BY <2>2, <2>3, LenProperties
<1>4. Len(gone) + crt_pos \in 0 .. CRT_SIZE - 1
  BY <1>1, EmptySeq, SizeFacts DEF Cells
<1> QED
  BY <1>2, <1>3, <1>4, CgaInitInv DEF HistoryInit, PInv, OnPaper!Init, View, Cell, Contents

(***************************************************************************)
(* On a screen of any size, whatever is printed and however much of it has *)
(* scrolled off: cga_putc strikes, rubs out and moves as a printer would.  *)
(***************************************************************************)
THEOREM ScreenIsPaper == HistorySpec => ImplementsPaper
<1>1. PInv /\ [HistoryNext]_<<cgaVars, gone>> => PInv' /\ [OnPaper!Next]_(OnPaper!vars)
  BY PaperStep DEF OnPaperStep, OnPaper!vars, PaperVars, View, Cell
<1> QED
  BY <1>1, PaperInit, PTL DEF HistorySpec, ImplementsPaper, OnPaper!Spec
=============================================================================
