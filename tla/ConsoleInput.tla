---------------------------- MODULE ConsoleInput ----------------------------
(***************************************************************************)
(* The console input path of kern/console.c: getchar polls cons_getc, which *)
(* drains the serial port and then the keyboard controller into the        *)
(* circular buffer cons and hands out the oldest character.  Interrupts    *)
(* are off (boot.S executes cli and nothing sets up an IDT), so the two    *)
(* devices run concurrently with the kernel but never preempt it; each     *)
(* turn of a drain loop is a step, because a device can deliver more data  *)
(* between two turns.                                                      *)
(*                                                                         *)
(* kbd_proc_data's decoding is the module Keyboard's subject; here a       *)
(* keyboard byte is the value kbd_proc_data returns for it: a character,   *)
(* or 0 when the byte completes none.                                      *)
(***************************************************************************)
EXTENDS Integers, Sequences

CONSTANTS CONSBUFSIZE,   \* slots of cons.buf
          Chars,         \* nonzero values a device can deliver
          MouseActive,   \* TRUE if the mouse sends bytes to the controller
          TypeAhead      \* most characters the user leaves undelivered

None == -1               \* a proc's result when its device has no data
Mouse == -2              \* a mouse byte in the controller's output buffer

ASSUME SizeAssumption == CONSBUFSIZE \in Nat /\ CONSBUFSIZE >= 2
ASSUME CharsAssumption == Chars \subseteq 1 .. 255
ASSUME MouseAssumption == MouseActive \in BOOLEAN
ASSUME TypeAheadAssumption == TypeAhead \in Nat

VARIABLES
  serial_exists,   \* whether serial_init found a serial port
  rx,              \* UART receive register: None, or the byte waiting (0: NUL)
  key,             \* the byte the keyboard has ready to send, or None
  ob,              \* 8042 output buffer: None, Mouse, or a keyboard byte
  buf, rpos, wpos, \* struct cons
  pc,              \* where getchar is: "caller", "serial", "kbd", "grab"
  got              \* result of the last cons_getc

vars == <<serial_exists, rx, key, ob, buf, rpos, wpos, pc, got>>

Slots == 0 .. CONSBUFSIZE - 1

(* A faulty variant of Advance: it wraps one slot too early. *)
AdvanceEarly(pos) == IF pos + 1 >= CONSBUFSIZE - 1 THEN 0 ELSE pos + 1

(* The wrap-around of a position that has just been incremented. *)
Advance(pos) == IF pos + 1 = CONSBUFSIZE THEN 0 ELSE pos + 1

(* How many characters lie between the two positions. *)
Pending == IF wpos >= rpos THEN wpos - rpos ELSE wpos - rpos + CONSBUFSIZE

(* cons lives in the BSS, so it starts zeroed; serial_init sets serial_exists *)
(* and leaves the receive register empty.                                    *)
Init ==
  /\ serial_exists \in BOOLEAN
  /\ rx = None
  /\ key = None
  /\ ob = None
  /\ buf = [i \in Slots |-> 0]
  /\ rpos = 0
  /\ wpos = 0
  /\ pc = "caller"
  /\ got = 0

-----------------------------------------------------------------------------
(* The devices *)

InFlight ==
  (IF rx \in Chars THEN 1 ELSE 0) + (IF key \in Chars THEN 1 ELSE 0)
                                 + (IF ob \in Chars THEN 1 ELSE 0)

(* A byte arrives on the serial line.  serial_init turned the FIFO off, so a *)
(* byte that was not read in time is overwritten.                            *)
SerialArrive(b) ==
  /\ serial_exists
  /\ Pending + InFlight < TypeAhead
  /\ rx' = b
  /\ UNCHANGED <<serial_exists, key, ob, buf, rpos, wpos, pc, got>>

(* The user hits a key: the keyboard keeps its byte until it can send it. *)
KeyArrive(b) ==
  /\ key = None
  /\ Pending + InFlight < TypeAhead
  /\ key' = b
  /\ UNCHANGED <<serial_exists, rx, ob, buf, rpos, wpos, pc, got>>

(* The controller takes a byte only while its output buffer is free. *)
KeySend ==
  /\ key # None
  /\ ob = None
  /\ ob' = key
  /\ key' = None
  /\ UNCHANGED <<serial_exists, rx, buf, rpos, wpos, pc, got>>

MouseSend ==
  /\ MouseActive
  /\ ob = None
  /\ ob' = Mouse
  /\ UNCHANGED <<serial_exists, rx, key, buf, rpos, wpos, pc, got>>

-----------------------------------------------------------------------------
(* The kernel *)

(* A faulty variant of ConsIntr: the position is incremented before the    *)
(* character is stored.                                                    *)
ConsIntrAdvancesFirst(c) ==
  IF c = 0
  THEN UNCHANGED <<buf, wpos>>
  ELSE /\ buf' = [buf EXCEPT ![Advance(wpos)] = c]
       /\ wpos' = Advance(wpos)

(* The body of cons_intr's loop for a result c other than -1. *)
ConsIntr(c) ==
  IF c = 0
  THEN UNCHANGED <<buf, wpos>>
  ELSE /\ buf' = [buf EXCEPT ![wpos] = c]
       /\ wpos' = Advance(wpos)

(* readline asks for the next character. *)
Getchar ==
  /\ pc = "caller"
  /\ pc' = "serial"
  /\ UNCHANGED <<serial_exists, rx, key, ob, buf, rpos, wpos, got>>

(* serial_intr: one turn of the drain loop over serial_proc_data ... *)
SerialIntr ==
  /\ pc = "serial"
  /\ serial_exists
  /\ rx # None
  /\ ConsIntr(rx)
  /\ rx' = None
  /\ UNCHANGED <<serial_exists, key, ob, rpos, pc, got>>

(* A faulty variant of SerialDrained: the keyboard is only polled when there *)
(* is no serial port.                                                        *)
SerialDrainedSkipsKbd ==
  /\ pc = "serial"
  /\ ~serial_exists \/ rx = None
  /\ pc' = IF serial_exists THEN "grab" ELSE "kbd"
  /\ UNCHANGED <<serial_exists, rx, key, ob, buf, rpos, wpos, got>>

(* ... which ends when the port has no data, or there is no port. *)
SerialDrained ==
  /\ pc = "serial"
  /\ ~serial_exists \/ rx = None
  /\ pc' = "kbd"
  /\ UNCHANGED <<serial_exists, rx, key, ob, buf, rpos, wpos, got>>

(* kbd_intr: one turn of the drain loop over kbd_proc_data ... *)
KbdIntr ==
  /\ pc = "kbd"
  /\ ob \notin {None, Mouse}
  /\ ConsIntr(ob)
  /\ ob' = None
  /\ UNCHANGED <<serial_exists, rx, key, rpos, pc, got>>

(* ... which ends when the output buffer is empty or holds a mouse byte; *)
(* kbd_proc_data returns -1 for a mouse byte without reading it.         *)
KbdDrained ==
  /\ pc = "kbd"
  /\ ob \in {None, Mouse}
  /\ pc' = "grab"
  /\ UNCHANGED <<serial_exists, rx, key, ob, buf, rpos, wpos, got>>

(* The end of cons_getc: the oldest character goes to getchar's caller ... *)
Grab ==
  /\ pc = "grab"
  /\ rpos # wpos
  /\ got' = buf[rpos]
  /\ rpos' = Advance(rpos)
  /\ pc' = "caller"
  /\ UNCHANGED <<serial_exists, rx, key, ob, buf, wpos>>

(* ... or there is none and getchar polls again. *)
GrabNone ==
  /\ pc = "grab"
  /\ rpos = wpos
  /\ got' = 0
  /\ pc' = "serial"
  /\ UNCHANGED <<serial_exists, rx, key, ob, buf, rpos, wpos>>

Kernel ==
  Getchar \/ SerialIntr \/ SerialDrained \/ KbdIntr \/ KbdDrained \/ Grab \/ GrabNone

Devices ==
  \/ \E b \in Chars \cup {0} : SerialArrive(b) \/ KeyArrive(b)
  \/ KeySend
  \/ MouseSend

Next == Kernel \/ Devices

Spec == Init /\ [][Next]_vars

(***************************************************************************)
(* The kernel runs whenever it can: readline is called in an endless loop. *)
(* The strong fairness of the two loop exits says that a drain loop that   *)
(* keeps finding its device empty between bytes leaves: one byte takes     *)
(* 1 ms on a 9600 baud line and a turn of the loop takes a few port reads. *)
(* That of KeySend says that the controller does not let the mouse shut    *)
(* the keyboard out of an output buffer that keeps becoming free.          *)
(***************************************************************************)
Fairness ==
  /\ WF_vars(Kernel)
  /\ SF_vars(SerialDrained)
  /\ SF_vars(KbdDrained)
  /\ SF_vars(KeySend)

FairSpec == Spec /\ Fairness

-----------------------------------------------------------------------------
(* Properties *)

TypeOK ==
  /\ serial_exists \in BOOLEAN
  /\ rx \in Chars \cup {0, None}
  /\ key \in Chars \cup {0, None}
  /\ ob \in Chars \cup {0, None, Mouse}
  /\ buf \in [Slots -> Chars \cup {0}]
  /\ rpos \in Slots
  /\ wpos \in Slots
  /\ pc \in {"caller", "serial", "kbd", "grab"}
  /\ got \in Chars \cup {0}

(* The slot of the k-th waiting character. *)
Slot(k) ==
  IF rpos + (k - 1) < CONSBUFSIZE THEN rpos + (k - 1) ELSE rpos + (k - 1) - CONSBUFSIZE

(* The waiting characters, oldest first: what a reader would see. *)
PendingChars == [k \in 1 .. Pending |-> buf[Slot(k)]]

(***************************************************************************)
(* Every slot between the two positions holds a character that a device    *)
(* delivered, through every wrap and every overrun of the ring: cons_getc  *)
(* can never hand out a slot that was not filled (a 0 would make getchar   *)
(* spin on a character it has already consumed).                           *)
(***************************************************************************)
PendingSlotsFilled == \A k \in 1 .. Pending : buf[Slot(k)] \in Chars

(***************************************************************************)
(* The ring with its two positions, filled by two polled devices, behaves  *)
(* as the queue of ConsQueue: characters come out in the order they were   *)
(* stored, none twice, and the only loss is an overrun, which loses        *)
(* exactly everything that was waiting.                                    *)
(***************************************************************************)
Queue == INSTANCE ConsQueue WITH queue <- PendingChars,
                                 Capacity <- CONSBUFSIZE - 1

ImplementsConsQueue == Queue!Spec

(***************************************************************************)
(* A user who never leaves CONSBUFSIZE or more characters undelivered      *)
(* loses none in the ring: storing a character always makes one more wait. *)
(***************************************************************************)
NoOverrun == [][wpos' # wpos => Pending' = Pending + 1]_vars

(***************************************************************************)
(* Whatever arrives on the serial line, a character typed at the keyboard  *)
(* is returned by getchar.  With an active mouse this is what              *)
(* console.c:325 "Ignore data from mouse." calls for; but a controller     *)
(* holding a mouse byte that nobody reads never takes another key.         *)
(***************************************************************************)
KeyDelivered == \A c \in Chars : key = c ~> (pc = "caller" /\ got = c)
=============================================================================
