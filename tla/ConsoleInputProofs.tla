-------------------------- MODULE ConsoleInputProofs --------------------------
(***************************************************************************)
(* Proofs about ConsoleInput and ConsoleLedger, for every ring size, every *)
(* set of characters and every environment: the ring's slots are never     *)
(* misread, the ring implements the queue of ConsQueue, and the ledger     *)
(* balances.                                                               *)
(***************************************************************************)
EXTENDS ConsoleLedger, SequenceTheorems, TLAPS

-----------------------------------------------------------------------------
(* The ring's arithmetic *)

(* A position stays inside the ring when it is advanced. *)
LEMMA AdvanceInSlots ==
  ASSUME NEW pos \in Slots
  PROVE  Advance(pos) \in Slots
BY SizeAssumption DEF Advance, Slots

(* Between no and CONSBUFSIZE - 1 characters wait. *)
LEMMA PendingRange ==
  ASSUME TypeOK
  PROVE  /\ Pending \in 0 .. CONSBUFSIZE - 1
         /\ (Pending = 0) <=> (rpos = wpos)
BY SizeAssumption DEF TypeOK, Slots, Pending

(* The slots of the waiting characters are slots of the ring other than wpos. *)
LEMMA SlotInRing ==
  ASSUME TypeOK, NEW k \in 1 .. Pending
  PROVE  Slot(k) \in Slots /\ Slot(k) # wpos
BY SizeAssumption DEF TypeOK, Slots, Pending, Slot

(***************************************************************************)
(* The strengthening that makes the invariants inductive: besides the      *)
(* types, the slots between the positions hold delivered characters.       *)
(***************************************************************************)
IInv == TypeOK /\ PendingSlotsFilled

(* Storing one character: one more waits, unless the ring was full. *)
LEMMA StoreEffect ==
  ASSUME TypeOK, NEW c \in Chars,
         buf' = [buf EXCEPT ![wpos] = c], wpos' = Advance(wpos), rpos' = rpos
  PROVE  /\ Pending < CONSBUFSIZE - 1 => Pending' = Pending + 1
         /\ Pending = CONSBUFSIZE - 1 => Pending' = 0
         /\ \A k \in 1 .. Pending : Slot(k)' = Slot(k) /\ buf'[Slot(k)] = buf[Slot(k)]
         /\ Slot(Pending + 1) = wpos /\ buf'[wpos] = c
<1>1. /\ Pending < CONSBUFSIZE - 1 => Pending' = Pending + 1
      /\ Pending = CONSBUFSIZE - 1 => Pending' = 0
  BY SizeAssumption DEF TypeOK, Slots, Pending, Advance
<1>2. \A k \in 1 .. Pending : Slot(k)' = Slot(k) /\ buf'[Slot(k)] = buf[Slot(k)]
  <2> TAKE k \in 1 .. Pending
  <2>1. Slot(k)' = Slot(k)
    BY DEF Slot
  <2>2. Slot(k) \in Slots /\ Slot(k) # wpos
    BY SlotInRing
  <2> QED
    BY <2>1, <2>2 DEF TypeOK
<1>3. Slot(Pending + 1) = wpos /\ buf'[wpos] = c
  BY SizeAssumption DEF TypeOK, Slots, Pending, Slot
<1> QED
  BY <1>1, <1>2, <1>3

(* Handing out a character: the others move up by one. *)
LEMMA GrabEffect ==
  ASSUME TypeOK, rpos # wpos, rpos' = Advance(rpos), wpos' = wpos
  PROVE  /\ Pending \in 1 .. CONSBUFSIZE - 1
         /\ Pending' = Pending - 1
         /\ Slot(1) = rpos
         /\ \A k \in 1 .. Pending - 1 : Slot(k)' = Slot(k + 1)
<1>1. Pending \in 1 .. CONSBUFSIZE - 1
  BY SizeAssumption DEF TypeOK, Slots, Pending
<1>2. Pending' = Pending - 1
  BY SizeAssumption DEF TypeOK, Slots, Pending, Advance
<1>3. Slot(1) = rpos
  BY SizeAssumption DEF TypeOK, Slots, Slot
<1>4. \A k \in 1 .. Pending - 1 : Slot(k)' = Slot(k + 1)
  BY <1>1, SizeAssumption DEF TypeOK, Slots, Slot, Pending, Advance
<1> QED
  BY <1>1, <1>2, <1>3, <1>4

-----------------------------------------------------------------------------
(* The invariant *)

LEMMA InitIInv == Init => IInv
BY SizeAssumption, CharsAssumption
   DEF Init, IInv, TypeOK, PendingSlotsFilled, Slots, Pending, None

(* A step that stores c in the ring. *)
LEMMA StoreIInv ==
  ASSUME IInv, NEW c \in Chars,
         buf' = [buf EXCEPT ![wpos] = c], wpos' = Advance(wpos), rpos' = rpos
  PROVE  PendingSlotsFilled' /\ buf' \in [Slots -> Chars \cup {0}] /\ wpos' \in Slots
<1>1. buf' \in [Slots -> Chars \cup {0}] /\ wpos' \in Slots
  BY AdvanceInSlots DEF IInv, TypeOK
<1>2. PendingSlotsFilled'
  <2> SUFFICES ASSUME NEW k \in 1 .. Pending'
               PROVE  buf'[Slot(k)'] \in Chars
    BY DEF PendingSlotsFilled
  <2>1. Pending \in 0 .. CONSBUFSIZE - 1
    BY PendingRange DEF IInv
  <2>2. Pending < CONSBUFSIZE - 1 /\ Pending' = Pending + 1
    <3>1. /\ Pending < CONSBUFSIZE - 1 => Pending' = Pending + 1
          /\ Pending = CONSBUFSIZE - 1 => Pending' = 0
      BY StoreEffect DEF IInv
    <3>2. Pending' # 0
      OBVIOUS
    <3> QED
      BY <2>1, <3>1, <3>2, SizeAssumption
  <2>3. CASE k = Pending + 1
    <3>1. Slot(k)' = Slot(k)
      BY DEF Slot
    <3> QED
      BY <2>3, <3>1, StoreEffect DEF IInv
  <2>4. CASE k \in 1 .. Pending
    BY <2>4, StoreEffect DEF IInv, PendingSlotsFilled
  <2> QED
    BY <2>1, <2>2, <2>3, <2>4
<1> QED
  BY <1>1, <1>2

(* A step of cons_intr's loop on a byte c. *)
LEMMA ConsIntrIInv ==
  ASSUME IInv, NEW c \in Chars \cup {0}, ConsIntr(c), rpos' = rpos
  PROVE  PendingSlotsFilled' /\ buf' \in [Slots -> Chars \cup {0}] /\ wpos' \in Slots
<1>1. CASE c = 0
  BY <1>1 DEF ConsIntr, IInv, TypeOK, PendingSlotsFilled, Pending, Slot
<1>2. CASE c # 0
  <2>1. c \in Chars /\ buf' = [buf EXCEPT ![wpos] = c] /\ wpos' = Advance(wpos)
    BY <1>2 DEF ConsIntr
  <2> QED
    BY <2>1, StoreIInv
<1> QED
  BY <1>1, <1>2

LEMMA NextIInv == IInv /\ [Next]_vars => IInv'
<1> SUFFICES ASSUME IInv, [Next]_vars
             PROVE  IInv'
  OBVIOUS
<1>1. ASSUME NEW b \in Chars \cup {0}, SerialArrive(b)
      PROVE  IInv'
  BY <1>1 DEF SerialArrive, IInv, TypeOK, PendingSlotsFilled, Pending, Slot
<1>2. ASSUME NEW b \in Chars \cup {0}, KeyArrive(b)
      PROVE  IInv'
  BY <1>2 DEF KeyArrive, IInv, TypeOK, PendingSlotsFilled, Pending, Slot
<1>3. CASE KeySend
  BY <1>3 DEF KeySend, IInv, TypeOK, PendingSlotsFilled, Pending, Slot
<1>4. CASE MouseSend
  BY <1>4 DEF MouseSend, IInv, TypeOK, PendingSlotsFilled, Pending, Slot
<1>5. CASE Getchar
  BY <1>5 DEF Getchar, IInv, TypeOK, PendingSlotsFilled, Pending, Slot
<1>6. CASE SerialIntr
  <2>1. rx \in Chars \cup {0} /\ ConsIntr(rx) /\ rpos' = rpos
    BY <1>6 DEF SerialIntr, IInv, TypeOK
  <2>2. PendingSlotsFilled' /\ buf' \in [Slots -> Chars \cup {0}] /\ wpos' \in Slots
    BY <2>1, ConsIntrIInv
  <2> QED
    BY <1>6, <2>2 DEF SerialIntr, IInv, TypeOK
<1>7. CASE SerialDrained
  BY <1>7 DEF SerialDrained, IInv, TypeOK, PendingSlotsFilled, Pending, Slot
<1>8. CASE KbdIntr
  <2>1. ob \in Chars \cup {0} /\ ConsIntr(ob) /\ rpos' = rpos
    BY <1>8 DEF KbdIntr, IInv, TypeOK
  <2>2. PendingSlotsFilled' /\ buf' \in [Slots -> Chars \cup {0}] /\ wpos' \in Slots
    BY <2>1, ConsIntrIInv
  <2> QED
    BY <1>8, <2>2 DEF KbdIntr, IInv, TypeOK
<1>9. CASE KbdDrained
  BY <1>9 DEF KbdDrained, IInv, TypeOK, PendingSlotsFilled, Pending, Slot
<1>10. CASE Grab
  <2>1. TypeOK'
    BY <1>10, AdvanceInSlots DEF Grab, IInv, TypeOK
  <2>2. PendingSlotsFilled'
    <3> SUFFICES ASSUME NEW k \in 1 .. Pending'
                 PROVE  buf[Slot(k)'] \in Chars
      BY <1>10 DEF PendingSlotsFilled, Grab
    <3>1. Pending' = Pending - 1 /\ Pending \in Nat /\ Slot(k)' = Slot(k + 1)
      BY <1>10, GrabEffect DEF Grab, IInv
    <3> QED
      BY <3>1 DEF IInv, PendingSlotsFilled
  <2> QED
    BY <2>1, <2>2 DEF IInv
<1>11. CASE GrabNone
  BY <1>11 DEF GrabNone, IInv, TypeOK, PendingSlotsFilled, Pending, Slot
<1>12. CASE UNCHANGED vars
  BY <1>12 DEF vars, IInv, TypeOK, PendingSlotsFilled, Pending, Slot
<1> QED
  BY <1>1, <1>2, <1>3, <1>4, <1>5, <1>6, <1>7, <1>8, <1>9, <1>10, <1>11, <1>12
     DEF Next, Kernel, Devices

(***************************************************************************)
(* The console input buffer is well formed in every reachable state, and   *)
(* cons_getc never reads a slot that no device filled.                     *)
(***************************************************************************)
THEOREM Invariance == Spec => [](TypeOK /\ PendingSlotsFilled)
<1>1. IInv => TypeOK /\ PendingSlotsFilled
  BY DEF IInv
<1> QED
  BY InitIInv, NextIInv, <1>1, PTL DEF Spec

-----------------------------------------------------------------------------
(* The ring implements the queue *)

(* The waiting characters form a sequence as long as Pending says. *)
WaitingSeq ==
  /\ PendingChars \in Seq(Chars)
  /\ Len(PendingChars) = Pending
  /\ \A k \in 1 .. Pending : PendingChars[k] = buf[Slot(k)]

LEMMA PendingCharsSeq == IInv => WaitingSeq
<1> SUFFICES ASSUME IInv
             PROVE  WaitingSeq
  OBVIOUS
<1>1. Pending \in Nat
  BY PendingRange DEF IInv
<1>2. PendingChars \in [1 .. Pending -> Chars]
  BY DEF PendingChars, IInv, PendingSlotsFilled
<1>3. PendingChars \in Seq(Chars)
  BY <1>1, <1>2, SeqDef
<1>4. Len(PendingChars) \in Nat /\ DOMAIN PendingChars = 1 .. Len(PendingChars)
  BY <1>3, LenProperties
<1>5. DOMAIN PendingChars = 1 .. Pending
  BY <1>2
<1>6. Len(PendingChars) = Pending
  <2> DEFINE m == Len(PendingChars)
             n == Pending
  <2>1. m \in Nat /\ n \in Nat /\ 1 .. m = 1 .. n
    BY <1>1, <1>4, <1>5
  <2> HIDE DEF m, n
  <2>2. m = n
    BY <2>1
  <2> QED
    BY <2>2 DEF m, n
<1>7. \A k \in 1 .. Pending : PendingChars[k] = buf[Slot(k)]
  BY DEF PendingChars
<1> QED
  BY <1>3, <1>6, <1>7 DEF WaitingSeq

(* Storing a character appends it, or finds the ring full and empties it. *)
LEMMA StoreRefines ==
  ASSUME IInv, IInv', NEW c \in Chars,
         buf' = [buf EXCEPT ![wpos] = c], wpos' = Advance(wpos), rpos' = rpos
  PROVE  PendingChars' = IF Len(PendingChars) < CONSBUFSIZE - 1
                         THEN Append(PendingChars, c) ELSE <<>>
<1>1. /\ PendingChars \in Seq(Chars)
      /\ Len(PendingChars) = Pending
      /\ \A k \in 1 .. Pending : PendingChars[k] = buf[Slot(k)]
  BY PendingCharsSeq DEF WaitingSeq
<1>2. /\ PendingChars' \in Seq(Chars)
      /\ Len(PendingChars') = Pending'
      /\ \A k \in 1 .. Pending' : PendingChars'[k] = buf'[Slot(k)']
  <2>1. WaitingSeq'
    BY PendingCharsSeq, PTL
  <2> QED
    BY <2>1 DEF WaitingSeq
<1>3. /\ Pending < CONSBUFSIZE - 1 => Pending' = Pending + 1
      /\ Pending = CONSBUFSIZE - 1 => Pending' = 0
      /\ \A k \in 1 .. Pending : Slot(k)' = Slot(k) /\ buf'[Slot(k)] = buf[Slot(k)]
      /\ Slot(Pending + 1) = wpos /\ buf'[wpos] = c
  BY StoreEffect DEF IInv
<1>4. Pending \in 0 .. CONSBUFSIZE - 1
  BY PendingRange DEF IInv
<1>5. CASE Pending < CONSBUFSIZE - 1
  <2> DEFINE q == Append(PendingChars, c)
  <2>1. /\ q \in Seq(Chars)
        /\ Len(q) = Pending + 1
        /\ \A k \in 1 .. Pending + 1 : q[k] = IF k <= Pending THEN PendingChars[k] ELSE c
    BY <1>1, AppendProperties
  <2>2. \A k \in 1 .. Pending + 1 : PendingChars'[k] = q[k]
    <3> TAKE k \in 1 .. Pending + 1
    <3>1. PendingChars'[k] = buf'[Slot(k)']
      BY <1>2, <1>3, <1>5
    <3>2. Slot(k)' = Slot(k)
      BY DEF Slot
    <3>3. CASE k \in 1 .. Pending
      BY <3>1, <3>2, <3>3, <2>1, <1>1, <1>3
    <3>4. CASE k = Pending + 1
      BY <3>1, <3>2, <3>4, <2>1, <1>3, <1>4
    <3>5. k \in 1 .. Pending \/ k = Pending + 1
      BY <1>4, SizeAssumption
    <3> QED
      BY <3>3, <3>4, <3>5
  <2> HIDE DEF q
  <2>3. PendingChars' = q
    BY <1>2, <1>3, <1>5, <2>1, <2>2, SeqEqual
  <2> QED
    BY <1>1, <1>5, <2>3 DEF q
<1>6. CASE Pending = CONSBUFSIZE - 1
  <2>1. PendingChars' = <<>>
    BY <1>2, <1>3, <1>6, EmptySeq
  <2> QED
    BY <1>1, <1>6, <2>1, SizeAssumption
<1> QED
  BY <1>4, <1>5, <1>6, SizeAssumption

(* A step of cons_intr's loop stashes the byte it got, or leaves the queue. *)
LEMMA ConsIntrRefines ==
  ASSUME IInv, IInv', NEW c \in Chars \cup {0}, ConsIntr(c), rpos' = rpos, got' = got
  PROVE  Queue!Next \/ UNCHANGED Queue!vars
<1>1. CASE c = 0
  BY <1>1 DEF ConsIntr, Queue!vars, PendingChars, Pending, Slot
<1>2. CASE c # 0
  <2>1. c \in Chars /\ buf' = [buf EXCEPT ![wpos] = c] /\ wpos' = Advance(wpos)
    BY <1>2 DEF ConsIntr
  <2>2. Queue!Stash(c)
    BY <2>1, StoreRefines DEF Queue!Stash
  <2> QED
    BY <2>1, <2>2 DEF Queue!Next
<1> QED
  BY <1>1, <1>2

(* Handing out the character at rpos removes the head of the queue. *)
LEMMA GrabRefines ==
  ASSUME IInv, IInv', Grab
  PROVE  Queue!Take
<1>1. /\ PendingChars \in Seq(Chars)
      /\ Len(PendingChars) = Pending
      /\ \A k \in 1 .. Pending : PendingChars[k] = buf[Slot(k)]
  BY PendingCharsSeq DEF WaitingSeq
<1>2. /\ PendingChars' \in Seq(Chars)
      /\ Len(PendingChars') = Pending'
      /\ \A k \in 1 .. Pending' : PendingChars'[k] = buf'[Slot(k)']
  <2>1. WaitingSeq'
    BY PendingCharsSeq, PTL
  <2> QED
    BY <2>1 DEF WaitingSeq
<1>3. /\ Pending \in 1 .. CONSBUFSIZE - 1
      /\ Pending' = Pending - 1
      /\ Slot(1) = rpos
      /\ \A k \in 1 .. Pending - 1 : Slot(k)' = Slot(k + 1)
  BY GrabEffect DEF Grab, IInv
<1>4. PendingChars # <<>>
  BY <1>1, <1>3, EmptySeq, SizeAssumption
<1>5. Head(PendingChars) = buf[rpos]
  BY <1>1, <1>3, <1>4, SizeAssumption
<1>6. /\ Tail(PendingChars) \in Seq(Chars)
      /\ Len(Tail(PendingChars)) = Pending - 1
      /\ \A k \in 1 .. Pending - 1 : Tail(PendingChars)[k] = PendingChars[k + 1]
  <2>1. /\ Tail(PendingChars) \in Seq(Chars)
        /\ Len(Tail(PendingChars)) = Len(PendingChars) - 1
        /\ \A k \in 1 .. Len(Tail(PendingChars)) : Tail(PendingChars)[k] = PendingChars[k + 1]
    BY <1>1, <1>4, HeadTailProperties
  <2> QED
    BY <1>1, <2>1
<1>7. \A k \in 1 .. Pending - 1 : PendingChars'[k] = Tail(PendingChars)[k]
  <2> TAKE k \in 1 .. Pending - 1
  <2>1. k + 1 \in 1 .. Pending /\ buf' = buf
    BY <1>3, SizeAssumption DEF Grab
  <2> QED
    BY <2>1, <1>1, <1>2, <1>3, <1>6
<1>8. PendingChars' = Tail(PendingChars)
  BY <1>2, <1>3, <1>6, <1>7, SeqEqual
<1> QED
  BY <1>4, <1>5, <1>8 DEF Grab, Queue!Take

(* An empty queue is what GrabNone sees. *)
LEMMA GrabNoneRefines ==
  ASSUME IInv, GrabNone
  PROVE  Queue!TakeNone
<1>1. PendingChars \in Seq(Chars) /\ Len(PendingChars) = Pending
  BY PendingCharsSeq DEF WaitingSeq
<1>2. Pending = 0
  BY PendingRange DEF IInv, GrabNone
<1>3. PendingChars = <<>>
  BY <1>1, <1>2, EmptySeq
<1>4. PendingChars' = PendingChars
  BY DEF GrabNone, PendingChars, Pending, Slot
<1> QED
  BY <1>3, <1>4 DEF Queue!TakeNone, Queue!NoChar, GrabNone

LEMMA StepRefines == IInv /\ IInv' /\ [Next]_vars => [Queue!Next]_(Queue!vars)
<1> SUFFICES ASSUME IInv, IInv', [Next]_vars
             PROVE  Queue!Next \/ UNCHANGED Queue!vars
  OBVIOUS
<1>1. CASE SerialIntr
  BY <1>1, ConsIntrRefines DEF SerialIntr, IInv, TypeOK
<1>2. CASE KbdIntr
  BY <1>2, ConsIntrRefines DEF KbdIntr, IInv, TypeOK
<1>3. CASE Grab
  BY <1>3, GrabRefines DEF Queue!Next
<1>4. CASE GrabNone
  BY <1>4, GrabNoneRefines DEF Queue!Next
<1>5. CASE Devices \/ Getchar \/ SerialDrained \/ KbdDrained \/ UNCHANGED vars
  <2>1. UNCHANGED <<buf, rpos, wpos, got>>
    BY <1>5 DEF Devices, SerialArrive, KeyArrive, KeySend, MouseSend, Getchar,
                SerialDrained, KbdDrained, vars
  <2> QED
    BY <2>1 DEF Queue!vars, PendingChars, Pending, Slot
<1> QED
  BY <1>1, <1>2, <1>3, <1>4, <1>5 DEF Next, Kernel

LEMMA InitRefines == Init => Queue!Init
<1> SUFFICES ASSUME Init
             PROVE  Queue!Init
  OBVIOUS
<1>1. IInv
  BY InitIInv
<1>2. PendingChars \in Seq(Chars) /\ Len(PendingChars) = Pending
  BY <1>1, PendingCharsSeq DEF WaitingSeq
<1>3. Pending = 0
  BY DEF Init, Pending
<1>4. PendingChars = <<>>
  BY <1>2, <1>3, EmptySeq
<1> QED
  BY <1>4 DEF Queue!Init, Queue!NoChar, Init

(***************************************************************************)
(* For every ring size and every environment, the two positions in the     *)
(* array behave as the queue: characters come out in the order they went   *)
(* in, and only an overrun loses any.                                      *)
(***************************************************************************)
THEOREM Refinement == Spec => ImplementsConsQueue
<1>1. Spec => []IInv
  BY InitIInv, NextIInv, PTL DEF Spec
<1> QED
  BY <1>1, InitRefines, StepRefines, PTL DEF Spec, ImplementsConsQueue, Queue!Spec

-----------------------------------------------------------------------------
(* A patient user loses nothing *)

(* What keeps the ring from filling: a character waits in the ring, in a *)
(* device or with the user, and at most TypeAhead are not with the user. *)
Patience == Pending + InFlight <= TypeAhead

PInv == IInv /\ Patience

LEMMA InitPInv == Init => PInv
<1> SUFFICES ASSUME Init
             PROVE  PInv
  OBVIOUS
<1>1. Pending = 0 /\ InFlight = 0
  BY CharsAssumption DEF Init, Pending, InFlight, None
<1> QED
  BY <1>1, InitIInv, TypeAheadAssumption DEF PInv, Patience

(* Taking a byte out of a device and putting it into the ring. *)
LEMMA DrainStep ==
  ASSUME PInv, TypeAhead < CONSBUFSIZE, NEW c \in Chars \cup {0},
         ConsIntr(c), rpos' = rpos,
         InFlight' = IF c \in Chars THEN InFlight - 1 ELSE InFlight,
         InFlight \in Nat, c \in Chars => InFlight >= 1
  PROVE  /\ Patience'
         /\ wpos' # wpos => Pending' = Pending + 1
<1>1. Pending \in 0 .. CONSBUFSIZE - 1
  BY PendingRange DEF PInv, IInv
<1>2. CASE c = 0
  <2>1. Pending' = Pending /\ wpos' = wpos
    BY <1>2 DEF ConsIntr, Pending
  <2>2. InFlight' = InFlight
    BY <1>2, CharsAssumption
  <2> QED
    BY <2>1, <2>2 DEF PInv, Patience
<1>3. CASE c # 0
  <2>1. c \in Chars /\ buf' = [buf EXCEPT ![wpos] = c] /\ wpos' = Advance(wpos)
    BY <1>3 DEF ConsIntr
  <2>2. Pending < CONSBUFSIZE - 1
    BY <1>1, <2>1, SizeAssumption, TypeAheadAssumption DEF PInv, Patience
  <2>3. Pending' = Pending + 1
    <3>1. Pending < CONSBUFSIZE - 1 => Pending' = Pending + 1
      BY <2>1, StoreEffect DEF PInv, IInv
    <3> QED
      BY <2>2, <3>1
  <2> QED
    BY <1>1, <2>1, <2>3, TypeAheadAssumption DEF PInv, Patience
<1> QED
  BY <1>2, <1>3

LEMMA NextPInv ==
  ASSUME TypeAhead < CONSBUFSIZE, PInv, [Next]_vars
  PROVE  PInv' /\ (wpos' # wpos => Pending' = Pending + 1)
<1>1. IInv'
  BY NextIInv DEF PInv
<1>2. Pending \in Nat
  BY PendingRange DEF PInv, IInv
<1>3. InFlight \in Nat
  BY DEF InFlight
<1>4. ASSUME NEW b \in Chars \cup {0}, SerialArrive(b) \/ KeyArrive(b)
      PROVE  Patience' /\ wpos' = wpos
  <2>1. Pending' = Pending /\ wpos' = wpos
    BY <1>4 DEF SerialArrive, KeyArrive, Pending
  <2>2. Pending + InFlight < TypeAhead
    BY <1>4 DEF SerialArrive, KeyArrive
  <2>3. InFlight' \in Nat /\ InFlight' <= InFlight + 1
    BY <1>4 DEF SerialArrive, KeyArrive, InFlight
  <2>4. Pending' + InFlight' <= TypeAhead
    <3> DEFINE p == Pending
               f == InFlight
               f2 == InFlight'
    <3>1. p \in Nat /\ f \in Nat /\ f2 \in Nat /\ f2 <= f + 1 /\ p + f < TypeAhead
      BY <1>2, <1>3, <2>2, <2>3
    <3> HIDE DEF p, f, f2
    <3>2. p + f2 <= TypeAhead
      BY <3>1, TypeAheadAssumption
    <3> QED
      BY <2>1, <3>2 DEF p, f2
  <2> QED
    BY <2>1, <2>4 DEF Patience
<1>5. CASE KeySend \/ MouseSend
  <2>1. Pending' = Pending /\ wpos' = wpos
    BY <1>5 DEF KeySend, MouseSend, Pending
  <2>2. InFlight' = InFlight
    BY <1>5, CharsAssumption DEF KeySend, MouseSend, InFlight, None, Mouse
  <2> QED
    BY <1>1, <2>1, <2>2 DEF PInv, Patience
<1>6. CASE SerialIntr
  <2>1. rx \in Chars \cup {0} /\ ConsIntr(rx) /\ rpos' = rpos
    BY <1>6 DEF SerialIntr, PInv, IInv, TypeOK
  <2>2. /\ InFlight' = IF rx \in Chars THEN InFlight - 1 ELSE InFlight
        /\ rx \in Chars => InFlight >= 1
    BY <1>6, CharsAssumption DEF SerialIntr, InFlight, None
  <2>3. Patience' /\ (wpos' # wpos => Pending' = Pending + 1)
    BY <1>3, <2>1, <2>2, DrainStep
  <2> QED
    BY <1>1, <2>3 DEF PInv
<1>7. CASE KbdIntr
  <2>1. ob \in Chars \cup {0} /\ ConsIntr(ob) /\ rpos' = rpos
    BY <1>7 DEF KbdIntr, PInv, IInv, TypeOK
  <2>2. /\ InFlight' = IF ob \in Chars THEN InFlight - 1 ELSE InFlight
        /\ ob \in Chars => InFlight >= 1
    BY <1>7, CharsAssumption DEF KbdIntr, InFlight, None
  <2>3. Patience' /\ (wpos' # wpos => Pending' = Pending + 1)
    BY <1>3, <2>1, <2>2, DrainStep
  <2> QED
    BY <1>1, <2>3 DEF PInv
<1>8. CASE Grab
  <2>1. Pending' = Pending - 1 /\ wpos' = wpos
    BY <1>8, GrabEffect DEF Grab, PInv, IInv
  <2>2. InFlight' = InFlight
    BY <1>8 DEF Grab, InFlight
  <2> QED
    BY <1>1, <1>2, <1>3, <2>1, <2>2, TypeAheadAssumption DEF PInv, Patience
<1>9. CASE Getchar \/ SerialDrained \/ KbdDrained \/ GrabNone \/ UNCHANGED vars
  <2>1. Pending' = Pending /\ InFlight' = InFlight /\ wpos' = wpos
    BY <1>9 DEF Getchar, SerialDrained, KbdDrained, GrabNone, vars, Pending, InFlight
  <2> QED
    BY <1>1, <2>1 DEF PInv, Patience
<1> QED
  BY <1>1, <1>4, <1>5, <1>6, <1>7, <1>8, <1>9 DEF Next, Kernel, Devices, PInv

(***************************************************************************)
(* Whatever the ring's size, a user who keeps fewer than CONSBUFSIZE       *)
(* characters undelivered never overruns it.                               *)
(***************************************************************************)
THEOREM NeverOverrun ==
  ASSUME TypeAhead < CONSBUFSIZE
  PROVE  Spec => NoOverrun
<1>1. PInv /\ [Next]_vars => PInv'
  BY NextPInv
<1>2. PInv /\ [Next]_vars => [wpos' # wpos => Pending' = Pending + 1]_vars
  BY NextPInv
<1> QED
  BY InitPInv, <1>1, <1>2, PTL DEF Spec, NoOverrun

-----------------------------------------------------------------------------
(* The ledger *)

LInv ==
  /\ IInv
  /\ stored \in Nat /\ taken \in Nat /\ laps \in Nat
  /\ Conservation

LEMMA InitLInv == LedgerInit => LInv
<1> SUFFICES ASSUME LedgerInit
             PROVE  LInv
  OBVIOUS
<1>1. Pending = 0
  BY DEF LedgerInit, Init, Pending
<1> QED
  BY <1>1, InitIInv, SizeAssumption DEF LedgerInit, LInv, Conservation

(* A step on a byte c enters it in the books. *)
LEMMA BookStore ==
  ASSUME LInv, NEW c \in Chars \cup {0}, ConsIntr(c), rpos' = rpos, Observe
  PROVE  stored' \in Nat /\ taken' = taken /\ laps' \in Nat /\ Conservation'
<1>1. Pending \in 0 .. CONSBUFSIZE - 1 /\ (Pending = 0 <=> rpos = wpos)
  BY PendingRange DEF LInv, IInv
<1>2. CASE c = 0
  <2>1. wpos' = wpos /\ Pending' = Pending
    BY <1>2 DEF ConsIntr, Pending
  <2> QED
    BY <2>1 DEF Observe, LInv, Conservation
<1>3. CASE c # 0
  <2>1. c \in Chars /\ buf' = [buf EXCEPT ![wpos] = c] /\ wpos' = Advance(wpos)
    BY <1>3 DEF ConsIntr
  <2>2. /\ Pending < CONSBUFSIZE - 1 => Pending' = Pending + 1
        /\ Pending = CONSBUFSIZE - 1 => Pending' = 0
    BY <2>1, StoreEffect DEF LInv, IInv
  <2>3. wpos' # wpos /\ (wpos' = rpos <=> Pending = CONSBUFSIZE - 1)
    BY <2>1, SizeAssumption DEF LInv, IInv, TypeOK, Slots, Advance, Pending
  <2>4. stored' = stored + 1 /\ taken' = taken
    BY <2>3 DEF Observe
  <2>5. CASE Pending < CONSBUFSIZE - 1
    BY <1>1, <2>2, <2>3, <2>4, <2>5, SizeAssumption DEF Observe, LInv, Conservation
  <2>6. CASE Pending = CONSBUFSIZE - 1
    <3>1. laps' = laps + 1 /\ Pending' = 0
      BY <2>2, <2>3, <2>6 DEF Observe
    <3>2. CONSBUFSIZE * (laps + 1) = CONSBUFSIZE * laps + CONSBUFSIZE
      BY SizeAssumption DEF LInv
    <3> QED
      BY <2>4, <2>6, <3>1, <3>2, SizeAssumption DEF LInv, Conservation
  <2> QED
    BY <1>1, <2>5, <2>6, SizeAssumption
<1> QED
  BY <1>2, <1>3

LEMMA NextLInv == LInv /\ [LedgerNext]_<<vars, ledger>> => LInv'
<1> SUFFICES ASSUME LInv, [LedgerNext]_<<vars, ledger>>
             PROVE  LInv'
  OBVIOUS
<1>1. IInv'
  BY NextIInv DEF LInv, LedgerNext, Next
<1>2. CASE SerialIntr /\ Observe
  <2>1. rx \in Chars \cup {0} /\ ConsIntr(rx) /\ rpos' = rpos
    BY <1>2 DEF SerialIntr, LInv, IInv, TypeOK
  <2> QED
    BY <1>1, <1>2, <2>1, BookStore DEF LInv
<1>3. CASE KbdIntr /\ Observe
  <2>1. ob \in Chars \cup {0} /\ ConsIntr(ob) /\ rpos' = rpos
    BY <1>3 DEF KbdIntr, LInv, IInv, TypeOK
  <2> QED
    BY <1>1, <1>3, <2>1, BookStore DEF LInv
<1>4. CASE Grab /\ Observe
  <2>1. /\ Pending \in 1 .. CONSBUFSIZE - 1
        /\ Pending' = Pending - 1
    BY <1>4, GrabEffect DEF Grab, LInv, IInv
  <2>2. wpos' = wpos /\ rpos' # rpos
    BY <1>4, SizeAssumption DEF Grab, LInv, IInv, TypeOK, Slots, Advance
  <2>3. stored' = stored /\ laps' = laps /\ taken' = taken + 1
    BY <1>4, <2>2 DEF Observe
  <2> QED
    BY <1>1, <2>1, <2>3, SizeAssumption DEF LInv, Conservation
<1>5. CASE /\ Devices \/ Getchar \/ SerialDrained \/ KbdDrained \/ GrabNone
           /\ Observe
  <2>1. rpos' = rpos /\ wpos' = wpos
    BY <1>5 DEF Devices, SerialArrive, KeyArrive, KeySend, MouseSend, Getchar,
                SerialDrained, KbdDrained, GrabNone
  <2>2. UNCHANGED ledger /\ Pending' = Pending
    BY <1>5, <2>1 DEF Observe, ledger, Pending
  <2> QED
    BY <1>1, <2>2 DEF LInv, Conservation, ledger
<1>6. CASE UNCHANGED <<vars, ledger>>
  BY <1>1, <1>6 DEF vars, ledger, LInv, Conservation, Pending
<1> QED
  BY <1>2, <1>3, <1>4, <1>5, <1>6 DEF LedgerNext, Kernel

(***************************************************************************)
(* For every ring size: no character is lost but in whole laps of the      *)
(* ring, and none is handed out twice.                                     *)
(***************************************************************************)
THEOREM BooksBalance == LedgerSpec => []Conservation
<1>1. LInv => Conservation
  BY DEF LInv
<1> QED
  BY InitLInv, NextLInv, <1>1, PTL DEF LedgerSpec
=============================================================================
