-------------------------------- MODULE Keyboard --------------------------------
(***************************************************************************)
(* kbd_proc_data (kern/console.c): the decoding of scan codes into         *)
(* characters, with the shift flags it keeps between calls, fed by a       *)
(* keyboard that sends the bytes of every key event in order.              *)
(*                                                                         *)
(* One step handles one byte.  How bytes get lost or wait is the subject   *)
(* of ConsoleInput; here every byte sent is handled.                       *)
(***************************************************************************)
EXTENDS Integers, Sequences, FiniteSets

CONSTANTS Keys,        \* the keys of the keyboard
          Make, Break, \* the bytes each sends when it goes down and up
          Layout,      \* what each means to the user, see KeyEvents
          MaxHeld,     \* most keys held down at once
          MaxEvents    \* most key events on their way

Modifiers == {"SHIFT", "CTL", "ALT"}
Locks == {"CAPSLOCK", "NUMLOCK", "SCROLLLOCK"}
Flags == Modifiers \cup Locks \cup {"E0ESC"}

KEY_HOME == 224
KEY_DEL == 233

VARIABLES
  held,        \* the keys that are down
  line,        \* bytes on their way: each is the at-th of a key event's
  shift,       \* kbd_proc_data's static shift, as a set of flags
  resetting,   \* port 0x92 was written: the machine is about to restart
  seen,        \* history: the keys that are down as far as bytes were handled
  partial,     \* history: characters returned since the key event began
  event,       \* history: the last complete key event, as in KeyEvents
  view, typed  \* history: flags in force and characters typed at its end

hist == <<seen, partial, event, view, typed>>
vars == <<held, line, shift, resetting, hist>>

Init ==
  /\ held = {}
  /\ line = <<>>
  /\ shift = {}
  /\ resetting = FALSE
  /\ seen = {} /\ partial = {} /\ event = {} /\ view = {} /\ typed = {}

-----------------------------------------------------------------------------
(* The keyboard *)

Codes(k, down) == IF down THEN Make[k] ELSE Break[k]
Bytes(k, down) ==
  [n \in 1 .. Len(Codes(k, down)) |-> [key |-> k, down |-> down, at |-> n]]
Last(b) == b.at = Len(Codes(b.key, b.down))

EventsSent == Cardinality({n \in DOMAIN line : Last(line[n])})

(* A key goes down, or repeats because it stays down.  A key that sends  *)
(* nothing when released (Pause) is pressed with no other key held.      *)
KeyDown(k) ==
  /\ Cardinality(held \cup {k}) <= MaxHeld
  /\ EventsSent < MaxEvents
  /\ Break[k] = <<>> => held = {}
  /\ line' = line \o Bytes(k, TRUE)
  /\ held' = IF Break[k] = <<>> THEN held ELSE held \cup {k}
  /\ UNCHANGED <<shift, resetting, hist>>

KeyUp(k) ==
  /\ k \in held
  /\ EventsSent < MaxEvents
  /\ line' = line \o Bytes(k, FALSE)
  /\ held' = held \ {k}
  /\ UNCHANGED <<shift, resetting, hist>>

-----------------------------------------------------------------------------
(* The tables *)

NO == 0

ShiftCode(d) == CASE d \in {29, 157} -> {"CTL"}       \* 0x1D, 0x9D
                  [] d \in {42, 54} -> {"SHIFT"}      \* 0x2A, 0x36
                  [] d \in {56, 184} -> {"ALT"}       \* 0x38, 0xB8
                  [] OTHER -> {}

ToggleCode(d) == CASE d = 58 -> {"CAPSLOCK"}
                   [] d = 69 -> {"NUMLOCK"}
                   [] d = 70 -> {"SCROLLLOCK"}
                   [] OTHER -> {}

NormalRows == <<
    NO,  27,  49,  50,  51,  52,  53,  54,  55,  56,  57,  48,  45,  61,   8,   9,
   113, 119, 101, 114, 116, 121, 117, 105, 111, 112,  91,  93,  10,  NO,  97, 115,
   100, 102, 103, 104, 106, 107, 108,  59,  39,  96,  NO,  92, 122, 120,  99, 118,
    98, 110, 109,  44,  46,  47,  NO,  42,  NO,  32,  NO,  NO,  NO,  NO,  NO,  NO,
    NO,  NO,  NO,  NO,  NO,  NO,  NO,  55,  56,  57,  45,  52,  53,  54,  43,  49,
    50,  51,  48,  46,  NO,  NO,  NO,  NO>>

ShiftRows == <<
    NO,  27,  33,  64,  35,  36,  37,  94,  38,  42,  40,  41,  95,  43,   8,   9,
    81,  87,  69,  82,  84,  89,  85,  73,  79,  80, 123, 125,  10,  NO,  65,  83,
    68,  70,  71,  72,  74,  75,  76,  58,  34, 126,  NO, 124,  90,  88,  67,  86,
    66,  78,  77,  60,  62,  63,  NO,  42,  NO,  32,  NO,  NO,  NO,  NO,  NO,  NO,
    NO,  NO,  NO,  NO,  NO,  NO,  NO,  55,  56,  57,  45,  52,  53,  54,  43,  49,
    50,  51,  48,  46,  NO,  NO,  NO,  NO>>

(* The keys behind an escape, which type the same with and without Shift: *)
(* the cursor keys Home, Up, PgUp, Left, Right, End, Down, PgDn, Ins and  *)
(* Del, and Enter and / of the keypad.                                    *)
EscapedMap(d) == CASE d = 199 -> KEY_HOME [] d = 200 -> 226 [] d = 201 -> 230 [] d = 203 -> 228
                   [] d = 205 -> 229 [] d = 207 -> 225 [] d = 208 -> 227 [] d = 209 -> 231
                   [] d = 210 -> 232 [] d = 211 -> KEY_DEL [] d = 156 -> 10 [] d = 181 -> 47
                   [] OTHER -> NO

NormalMap(d) == IF d < 88 THEN NormalRows[d + 1] ELSE EscapedMap(d)
ShiftMap(d) == IF d < 88 THEN ShiftRows[d + 1] ELSE EscapedMap(d)

(* C('/') = '/' - '@' is negative and wraps in the uint8_t; Home has its *)
(* entry at 0x97, and keypad Enter has none.                             *)
C(x) == (256 + (x - 64)) % 256

CtlRows == <<      \* from 0x10 on
   C(81), C(87), C(69), C(82), C(84), C(89), C(85), C(73),
   C(79), C(80),  NO,  NO,    13,  NO, C(65), C(83),
   C(68), C(70), C(71), C(72), C(74), C(75), C(76),  NO,
    NO,  NO,  NO, C(92), C(90), C(88), C(67), C(86),
   C(66), C(78), C(77),  NO,  NO, C(47),  NO,  NO>>

CtlMap(d) == CASE d \in 16 .. 55 -> CtlRows[d - 15]
               [] d = 151 -> KEY_HOME
               [] d = 181 -> C(47)
               [] d \in 200 .. 211 -> EscapedMap(d)
               [] OTHER -> NO

CharCode(s, d) ==
  IF "CTL" \in s THEN CtlMap(d) ELSE IF "SHIFT" \in s THEN ShiftMap(d) ELSE NormalMap(d)

(***************************************************************************)
(* The keyboard: which bytes its keys send, in scan code set 1.  A plain   *)
(* key sends one byte, an extended one the same after an E0; released they *)
(* send it with the top bit set.  Print Screen wraps itself in a fake      *)
(* shift, and Pause sends everything when it goes down.                    *)
(***************************************************************************)
Means(k, d) ==            \* k is the key whose code in the tables is d
  /\ {Layout[k].modifier} = IF ShiftCode(d) = {} THEN {"none"} ELSE ShiftCode(d)
  /\ Layout[k].lock <=> ToggleCode(d) = {"CAPSLOCK"}
  /\ Layout[k].plain = NormalMap(d)
  /\ Layout[k].shifted = ShiftMap(d)
  /\ Layout[k].ctl = CtlMap(d)
  /\ Layout[k].letter <=> NormalMap(d) \in 97 .. 122

Silent(k) ==
  /\ Layout[k].modifier = "none" /\ ~Layout[k].lock /\ ~Layout[k].letter
  /\ Layout[k].plain = 0 /\ Layout[k].shifted = 0 /\ Layout[k].ctl = 0

BaseCodes == (1 .. 127) \ {96}            \* 96 released would be E0

PlainKey(k) == \E d \in BaseCodes :
  Make[k] = <<d>> /\ Break[k] = <<d + 128>> /\ Means(k, d)
ExtendedKey(k) == \E d \in BaseCodes :
  Make[k] = <<224, d>> /\ Break[k] = <<224, d + 128>> /\ Means(k, d + 128)
PrintScreen(k) ==
  Make[k] = <<224, 42, 224, 55>> /\ Break[k] = <<224, 183, 224, 170>> /\ Silent(k)
Pause(k) ==
  Make[k] = <<225, 29, 69, 225, 157, 197>> /\ Break[k] = <<>> /\ Silent(k)

ASSUME KeyboardAssumption ==
  \A k \in Keys : PlainKey(k) \/ ExtendedKey(k) \/ PrintScreen(k) \/ Pause(k)

-----------------------------------------------------------------------------
(* kbd_proc_data *)

SwapCase(c) == CASE c \in 97 .. 122 -> c - 32
                 [] c \in 65 .. 90 -> c + 32
                 [] OTHER -> c

AnyOfChord(s) == {"CTL", "ALT"} \cap s # {}         \* faulty variant of Chord
Chord(s) == {"CTL", "ALT"} \subseteq s

(* The call returns c: note what the byte did to its key event. *)
Returns(c) ==
  LET e == Head(line)
      chars == partial \cup ({c} \ {0})
  IN /\ line' = Tail(line)
     /\ IF Last(e)
        THEN /\ event' = {<<e.key, IF e.down THEN "down" ELSE "up">>}
             /\ view' = shift' \cap (Modifiers \cup {"CAPSLOCK"})
             /\ typed' = chars
             /\ partial' = {}
             /\ seen' = IF e.down /\ Break[e.key] # <<>>
                        THEN seen \cup {e.key} ELSE seen \ {e.key}
        ELSE partial' = chars /\ UNCHANGED <<event, view, typed, seen>>

Waiting == line # <<>> /\ ~resetting
Data == LET b == Head(line) IN Codes(b.key, b.down)[b.at]

KbdEscape ==
  /\ Waiting
  /\ Data = 224
  /\ shift' = shift \cup {"E0ESC"}
  /\ Returns(0)
  /\ UNCHANGED <<held, resetting>>

KbdReleaseMasksAlways ==                   \* faulty variant of KbdRelease
  /\ Waiting
  /\ Data >= 128 /\ Data # 224
  /\ shift' = shift \ (ShiftCode(Data - 128) \cup {"E0ESC"})
  /\ Returns(0)
  /\ UNCHANGED <<held, resetting>>

KbdRelease ==
  /\ Waiting
  /\ Data >= 128 /\ Data # 224
  /\ LET data == IF "E0ESC" \in shift THEN Data ELSE Data - 128
     IN shift' = shift \ (ShiftCode(data) \cup {"E0ESC"})
  /\ Returns(0)
  /\ UNCHANGED <<held, resetting>>

Xor(s, t) == (s \ t) \cup (t \ s)

(* The code a press stands for: an escaped one has its top bit set. *)
CodeIgnoresEscape == Data                  \* faulty variant of Code
Code == IF "E0ESC" \in shift THEN Data + 128 ELSE Data

KbdPress ==
  /\ Waiting
  /\ Data < 128
  /\ shift' = Xor((shift \ {"E0ESC"}) \cup ShiftCode(Code), ToggleCode(Code))
  /\ LET plain == CharCode(shift', Code)
         c == IF "CAPSLOCK" \in shift' THEN SwapCase(plain) ELSE plain
     IN /\ Returns(c)
        /\ resetting' = (Chord(shift') /\ c = KEY_DEL)
  /\ UNCHANGED held

(* The machine restarts: the kernel is loaded afresh, with its BSS zeroed, *)
(* but the user's fingers stay where they are.                             *)
Reset ==
  /\ resetting
  /\ resetting' = FALSE
  /\ line' = <<>>
  /\ shift' = {}
  /\ seen' = {} /\ partial' = {} /\ event' = {} /\ view' = {} /\ typed' = {}
  /\ UNCHANGED held

Next ==
  \/ \E k \in Keys : KeyDown(k) \/ KeyUp(k)
  \/ KbdEscape \/ KbdRelease \/ KbdPress
  \/ Reset

Spec == Init /\ [][Next]_vars

-----------------------------------------------------------------------------
(* Properties *)

(***************************************************************************)
(* No modifier is stuck: once the keyboard has nothing more to say, a      *)
(* modifier is only in force while one of its keys is held, whatever keys  *)
(* were pressed, released and repeated in between, in any order, with or   *)
(* without E0 escapes, and across a restart.                               *)
(***************************************************************************)
NoStuckModifier ==
  line = <<>> => \A f \in shift \cap Modifiers :
                   \E k \in held : Layout[k].modifier = f

(***************************************************************************)
(* Only Ctrl, Alt and Delete held together restart the machine: no other   *)
(* combination of presses and releases decodes to it.                      *)
(***************************************************************************)
OnlyChordResets ==
  [][resetting' => /\ \E k \in seen' : Layout[k].modifier = "CTL"
                   /\ \E k \in seen' : Layout[k].modifier = "ALT"
                   /\ \E k \in seen' : Layout[k].plain = KEY_DEL]_vars

(***************************************************************************)
(* Byte by byte, kbd_proc_data decodes what the keys mean: the escapes,    *)
(* release bits and fake shifts of the scan codes leave no trace.          *)
(***************************************************************************)
Events == INSTANCE KeyEvents WITH mods <- view, Attention <- KEY_DEL

ImplementsKeyEvents == Events!Spec
=============================================================================
