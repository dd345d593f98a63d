----------------------------- MODULE ConsoleProofs -----------------------------
(***************************************************************************)
(* Proofs about both ends of the console.                                  *)
(*                                                                         *)
(* Keyboard: whatever keys go down and up, in any order, the scan codes    *)
(* decode to what the keys mean, no modifier stays in force without a key, *)
(* and only the chord restarts the machine.                                *)
(*                                                                         *)
(* ConsoleOutput: everything is printed, for texts of any length, any      *)
(* number of polls, and devices that take their characters whenever they   *)
(* like or never.                                                          *)
(***************************************************************************)
EXTENDS Keyboard, ConsoleOutput, SequenceTheorems, TLAPS

InForce == Modifiers \cup {"CAPSLOCK"}

(* The keys that go up again, which is all of them but Pause. *)
Released == {k \in Keys : Break[k] # <<>>}

LineByte == [key : Keys, down : BOOLEAN, at : Nat \ {0}]

Types ==
  /\ held \subseteq Released
  /\ seen \subseteq Released
  /\ line \in Seq(LineByte)
  /\ shift \subseteq (Modifiers \cup Locks \cup {"E0ESC"})
  /\ view \subseteq InForce
  /\ resetting \in BOOLEAN
  /\ partial = {}

(* The bytes of one key event follow one another, and the last byte on the *)
(* line is the last of its event.                                          *)
Whole ==
  \A i \in DOMAIN line :
    /\ line[i].at <= Len(Codes(line[i].key, line[i].down))
    /\ ~Last(line[i]) => /\ i < Len(line)
                         /\ line[i + 1].key = line[i].key
                         /\ line[i + 1].down = line[i].down
                         /\ line[i + 1].at = line[i].at + 1
    /\ (Last(line[i]) /\ i < Len(line)) => line[i + 1].at = 1

(* After the first n bytes of line s, key k will have been seen to be up.  *)
Quiet(s, k, m, n) == \A j \in m .. n : s[j].key = k => ~s[j].down
UpAfter(s, known, k, n) ==
  \/ k \notin known /\ Quiet(s, k, 1, n)
  \/ \E i \in 1 .. n : s[i].key = k /\ ~s[i].down /\ Quiet(s, k, i + 1, n)
Up(k, n) == UpAfter(line, seen, k, n)

(* A key that is up will be seen to be up, and Pause finds every key up. *)
UpArrives == \A k \in Released \ held : Up(k, Len(line))
PauseAlone ==
  \A n \in DOMAIN line : line[n].key \notin Released => \A k \in Released : Up(k, n - 1)

(* Before the n-th byte of an event, shift differs from what is in force   *)
(* by the escape just handled, and by the Ctrl that Pause holds for three  *)
(* bytes.                                                                  *)
InStep(k, down, n, s) ==
  /\ "E0ESC" \in s <=> n > 1 /\ Codes(k, down)[n - 1] = 224
  /\ s \cap InForce = IF k \notin Released /\ n \in 3 .. 5 THEN view \cup {"CTL"} ELSE view
Decoded ==
  IF line = <<>> THEN "E0ESC" \notin shift /\ shift \cap InForce = view
  ELSE InStep(Head(line).key, Head(line).down, Head(line).at, shift)

Backed == \A f \in view \cap Modifiers : \E k \in seen : Layout[k].modifier = f
Chorded ==
  resetting => /\ {"CTL", "ALT"} \subseteq view
               /\ typed = {KEY_DEL}
               /\ \E k \in seen : Layout[k].plain = KEY_DEL

IInv == /\ Types /\ Whole /\ UpArrives /\ PauseAlone
        /\ Decoded /\ Backed /\ Chorded

-----------------------------------------------------------------------------
(* What the bytes of an event are *)

(* A key sends something when it goes down, and all but Pause when it goes *)
(* up.                                                                     *)
LEMMA CodesSent ==
  ASSUME NEW k \in Keys, NEW down \in BOOLEAN
  PROVE  /\ Codes(k, down) \in Seq(Nat)
         /\ Len(Codes(k, down)) \in Nat
         /\ down \/ k \in Released => Len(Codes(k, down)) > 0
         /\ ~down /\ k \notin Released => Len(Codes(k, down)) = 0
<1>1. CASE PlainKey(k)
  BY <1>1 DEF PlainKey, Codes, Released, BaseCodes
<1>2. CASE ExtendedKey(k)
  BY <1>2 DEF ExtendedKey, Codes, Released, BaseCodes
<1>3. CASE PrintScreen(k)
  BY <1>3 DEF PrintScreen, Codes, Released
<1>4. CASE Pause(k)
  BY <1>4 DEF Pause, Codes, Released
<1> QED  BY <1>1, <1>2, <1>3, <1>4, KeyboardAssumption

Lower == 97 .. 122
Capitals == 65 .. 90

(* A key that types a letter types the same one, as a capital, with Shift; *)
(* the others type no letter, and no key does with Ctrl.                   *)
LEMMA Letters ==
  ASSUME NEW d \in 1 .. 255
  PROVE  /\ NormalMap(d) \in Lower => ShiftMap(d) = NormalMap(d) - 32
         /\ NormalMap(d) \notin Lower => /\ NormalMap(d) \notin Capitals
                                       /\ ShiftMap(d) \notin Lower \cup Capitals
<1>1. \A i \in 1 .. 88 :
        /\ NormalRows[i] \in Lower => ShiftRows[i] = NormalRows[i] - 32
        /\ NormalRows[i] \notin Lower => /\ NormalRows[i] \notin Capitals
                                       /\ ShiftRows[i] \notin Lower \cup Capitals
  BY DEF NormalRows, ShiftRows, Lower, Capitals, NO
<1>2. EscapedMap(d) \notin Lower \cup Capitals
  BY DEF EscapedMap, Lower, Capitals, KEY_HOME, KEY_DEL, NO
<1>3. CASE d < 88
  <2>1. PICK i \in 1 .. 88 : i = d + 1
    BY <1>3
  <2> QED  BY <1>1, <1>3, <2>1 DEF NormalMap, ShiftMap
<1>4. CASE ~(d < 88)
  BY <1>2, <1>4 DEF NormalMap, ShiftMap
<1> QED  BY <1>3, <1>4

LEMMA ControlCharacters ==
  ASSUME NEW d \in 1 .. 255
  PROVE  /\ CtlMap(d) \notin Lower \cup Capitals
         /\ CtlMap(d) = KEY_DEL => d = 211
<1>1. \A i \in 1 .. 40 : CtlRows[i] \in (0 .. 31) \cup {239}
  <2>1. C(47) = 239 /\ \A x \in 65 .. 92 : C(x) \in 0 .. 31
    BY DEF C
  <2> QED  BY <2>1 DEF CtlRows, NO
<1>2. CASE d \in 16 .. 55
  <2>1. PICK i \in 1 .. 40 : i = d - 15
    BY <1>2
  <2>2. CtlMap(d) = CtlRows[i]
    BY <1>2, <2>1 DEF CtlMap
  <2>3. CtlMap(d) \in (0 .. 31) \cup {239}
    BY <1>1, <2>2
  <2> QED  BY <2>3 DEF Lower, Capitals, KEY_DEL
<1>3. CASE d \notin 16 .. 55
  BY <1>3 DEF CtlMap, EscapedMap, C, Lower, Capitals, KEY_HOME, KEY_DEL, NO
<1> QED  BY <1>2, <1>3

(* The codes of fake shifts, and of Pause, stand for no character. *)
LEMMA NoCharacters ==
  /\ \A d \in {170, 183} : NormalMap(d) = 0 /\ ShiftMap(d) = 0 /\ CtlMap(d) = 0
  /\ \A d \in {29, 69} : CtlMap(d) = 0
<1>1. \A d \in {170, 183} : NormalMap(d) = 0 /\ ShiftMap(d) = 0 /\ CtlMap(d) = 0
  BY DEF NormalMap, ShiftMap, CtlMap, EscapedMap, NO
<1>2. CtlMap(69) = 0
  BY DEF CtlMap, NO
<1>3. CtlRows[14] = 0 /\ CtlMap(29) = CtlRows[14]
  BY DEF CtlMap, CtlRows, NO
<1> QED  BY <1>1, <1>2, <1>3

(* A key press under the code its table entries mean types what the key    *)
(* means, and puts its modifier or lock in force.                          *)
Decodes(k, s, s2, m, c) ==
  /\ s2 \subseteq Modifiers \cup Locks
  /\ m = CASE Layout[k].modifier # "none" -> (s \cap InForce) \cup {Layout[k].modifier}
           [] Layout[k].lock -> Events!Toggle(s \cap InForce, "CAPSLOCK")
           [] OTHER -> s \cap InForce
  /\ c = Events!Meaning(k, m)
  /\ Chord(s2) /\ c = KEY_DEL => Layout[k].plain = KEY_DEL

LEMMA PressDecodes ==
  ASSUME NEW k \in Keys, NEW d \in 1 .. 255, Means(k, d),
         NEW s, s \subseteq Modifiers \cup Locks,
         NEW s2, s2 = Xor(s \cup ShiftCode(d), ToggleCode(d)),
         NEW m, m = s2 \cap InForce,
         NEW plain, plain = CharCode(s2, d),
         NEW c, c = IF "CAPSLOCK" \in s2 THEN SwapCase(plain) ELSE plain
  PROVE  Decodes(k, s, s2, m, c)
<1> USE DEF Decodes
<1>1. s2 \subseteq Modifiers \cup Locks
  BY DEF Xor, ShiftCode, ToggleCode, Modifiers, Locks
<1>2. m = CASE Layout[k].modifier # "none" -> (s \cap InForce) \cup {Layout[k].modifier}
            [] Layout[k].lock -> Events!Toggle(s \cap InForce, "CAPSLOCK")
            [] OTHER -> s \cap InForce
  <2>1. CASE ShiftCode(d) # {}
    <3>1. PICK f \in Modifiers : ShiftCode(d) = {f} /\ ToggleCode(d) = {}
      BY <2>1 DEF ShiftCode, ToggleCode, Modifiers
    <3>2. Layout[k].modifier = f /\ f # "none" /\ ~Layout[k].lock
      BY <2>1, <3>1 DEF Means, Modifiers
    <3>3. m = (s \cap InForce) \cup {Layout[k].modifier}
      BY <3>1, <3>2 DEF Xor, InForce
    <3> QED  BY <3>2, <3>3
  <2>2. CASE ShiftCode(d) = {} /\ ToggleCode(d) = {"CAPSLOCK"}
    <3>1. Layout[k].modifier = "none" /\ Layout[k].lock
      BY <2>2 DEF Means
    <3>2. m = Xor(s \cap InForce, {"CAPSLOCK"})
      BY <2>2 DEF Xor, InForce
    <3>3. m = Events!Toggle(s \cap InForce, "CAPSLOCK")
      BY <3>2 DEF Xor, Events!Toggle
    <3> QED  BY <3>1, <3>3
  <2>3. CASE ShiftCode(d) = {} /\ ToggleCode(d) # {"CAPSLOCK"}
    <3>1. ToggleCode(d) \cap InForce = {}
      BY <2>3 DEF ToggleCode, Modifiers, InForce
    <3>2. m = s \cap InForce
      BY <3>1, <2>3 DEF Xor
    <3> QED  BY <3>2, <2>3 DEF Means
  <2> QED  BY <2>1, <2>2, <2>3
<1>3. c = Events!Meaning(k, m)
  <2>1. /\ "CTL" \in s2 <=> "CTL" \in m
        /\ "SHIFT" \in s2 <=> "SHIFT" \in m
        /\ "CAPSLOCK" \in s2 <=> "CAPSLOCK" \in m
    BY DEF InForce, Modifiers
  <2>2. SwapCase(CtlMap(d)) = CtlMap(d)
    BY ControlCharacters DEF SwapCase, Lower, Capitals
  <2>3. IF Layout[k].letter
        THEN /\ SwapCase(NormalMap(d)) = ShiftMap(d)
             /\ SwapCase(ShiftMap(d)) = NormalMap(d)
        ELSE /\ SwapCase(NormalMap(d)) = NormalMap(d)
             /\ SwapCase(ShiftMap(d)) = ShiftMap(d)
    <3>1. CASE NormalMap(d) \in Lower
      <4>1. ShiftMap(d) = NormalMap(d) - 32
        BY <3>1, Letters
      <4>2. Layout[k].letter
        BY <3>1 DEF Means, Lower
      <4> QED  BY <3>1, <4>1, <4>2 DEF SwapCase, Lower
    <3>2. CASE NormalMap(d) \notin Lower
      <4>1. ~Layout[k].letter
        BY <3>2 DEF Means, Lower
      <4> QED  BY <3>2, <4>1, Letters DEF SwapCase, Lower, Capitals
    <3> QED  BY <3>1, <3>2
  <2> QED  BY <2>1, <2>2, <2>3 DEF Means, CharCode, Events!Meaning
<1>4. Chord(s2) /\ c = KEY_DEL => Layout[k].plain = KEY_DEL
  <2> SUFFICES ASSUME Chord(s2), c = KEY_DEL PROVE NormalMap(d) = KEY_DEL
    BY DEF Means
  <2>1. plain = CtlMap(d)
    BY DEF Chord, CharCode
  <2>2. SwapCase(CtlMap(d)) = CtlMap(d)
    BY ControlCharacters DEF SwapCase, Lower, Capitals
  <2>3. CtlMap(d) = KEY_DEL
    BY <2>1, <2>2
  <2>4. d = 211
    BY <2>3, ControlCharacters
  <2> QED  BY <2>4 DEF NormalMap, EscapedMap
<1> QED  BY <1>1, <1>2, <1>3, <1>4

-----------------------------------------------------------------------------
(* One byte *)

(* The byte about to be handled, and the state kbd_proc_data finds. *)
LEMMA HeadByte ==
  ASSUME IInv, Waiting, NEW b, b = Head(line)
  PROVE  /\ b = line[1] /\ b \in LineByte
         /\ b.at \in 1 .. Len(Codes(b.key, b.down))
         /\ Data = Codes(b.key, b.down)[b.at]
         /\ b.down \/ b.key \in Released
         /\ InStep(b.key, b.down, b.at, shift)
         /\ b.key \notin Released => view \cap Modifiers = {}
<1>1. line # <<>> /\ line \in Seq(LineByte)
  BY DEF IInv, Types, Waiting
<1>2. b = line[1] /\ b \in LineByte /\ 1 \in DOMAIN line
  BY <1>1
<1>3. b.key \in Keys /\ b.down \in BOOLEAN /\ b.at \in Nat \ {0}
  BY <1>2 DEF LineByte
<1>4. b.at <= Len(Codes(b.key, b.down))
  BY <1>2 DEF IInv, Whole
<1>5. b.at \in 1 .. Len(Codes(b.key, b.down))
  BY <1>3, <1>4, CodesSent
<1>6. b.down \/ b.key \in Released
  BY <1>3, <1>5, CodesSent
<1>7. b.key \notin Released => view \cap Modifiers = {}
  <2> SUFFICES ASSUME b.key \notin Released PROVE view \cap Modifiers = {}
    OBVIOUS
  <2>1. \A k \in Released : Up(k, 1 - 1)
    BY <1>2 DEF IInv, PauseAlone
  <2>2. \A k \in Released : k \notin seen
    BY <2>1 DEF Up, UpAfter, Quiet
  <2>3. seen = {}
    BY <2>2 DEF IInv, Types
  <2> QED  BY <2>3 DEF IInv, Backed
<1>8. InStep(b.key, b.down, b.at, shift)
  BY <1>1 DEF IInv, Decoded
<1> QED  BY <1>2, <1>5, <1>6, <1>7, <1>8 DEF Data

(* What handling byte b has to leave behind. *)
Handled(b) ==
  /\ shift' \subseteq Modifiers \cup Locks \cup {"E0ESC"}
  /\ partial' = {}
  /\ resetting' \in BOOLEAN
  /\ resetting' => /\ Last(b) /\ b.down
                   /\ Chord(shift') /\ typed' = {KEY_DEL} /\ Layout[b.key].plain = KEY_DEL
  /\ Last(b) => /\ "E0ESC" \notin shift' /\ view' = shift' \cap InForce
                /\ IF b.down THEN Events!Press(b.key) ELSE Events!Release(b.key)
  /\ ~Last(b) => /\ UNCHANGED <<event, view, typed>>
                 /\ InStep(b.key, b.down, b.at + 1, shift')

(* E0 is never the last byte of an event. *)
LEMMA EscapeHandled ==
  ASSUME IInv, KbdEscape, NEW b, b = Head(line)
  PROVE  Handled(b)
<1>1. Waiting /\ Data = 224 /\ shift' = shift \cup {"E0ESC"} /\ resetting' = resetting /\ ~resetting
  BY DEF KbdEscape, Waiting
<1>2. /\ b \in LineByte
      /\ b.at \in 1 .. Len(Codes(b.key, b.down))
      /\ Codes(b.key, b.down)[b.at] = 224
      /\ InStep(b.key, b.down, b.at, shift)
      /\ b.down \/ b.key \in Released
  BY <1>1, HeadByte
<1> DEFINE k == b.key
           n == b.at
<1>3. k \in Keys /\ n \in Nat /\ b.down \in BOOLEAN
  BY <1>2 DEF LineByte
<1>4. ~Last(b) /\ k \in Released
  <2>1. CASE PlainKey(k)
    BY <1>2, <1>3, <2>1 DEF PlainKey, Codes, Released, BaseCodes, Last
  <2>2. CASE ExtendedKey(k)
    BY <1>2, <1>3, <2>2 DEF ExtendedKey, Codes, Released, BaseCodes, Last
  <2>3. CASE PrintScreen(k)
    BY <1>2, <1>3, <2>3 DEF PrintScreen, Codes, Released, Last
  <2>4. CASE Pause(k)
    BY <1>2, <1>3, <2>4 DEF Pause, Codes, Released, Last
  <2> QED  BY <1>3, <2>1, <2>2, <2>3, <2>4, KeyboardAssumption
<1>5. partial' = {} /\ UNCHANGED <<event, view, typed>>
  <2>1. Returns(0)
    BY DEF KbdEscape
  <2> QED  BY <2>1, <1>4 DEF Returns, IInv, Types
<1>6. shift' \cap InForce = view
  BY <1>1, <1>2, <1>4 DEF InStep, InForce, Modifiers
<1>7. InStep(k, b.down, n + 1, shift')
  <2>1. (n + 1) - 1 = n /\ n + 1 > 1
    BY <1>2, <1>3
  <2> QED  BY <2>1, <1>1, <1>2, <1>4, <1>6 DEF InStep
<1> QED  BY <1>1, <1>4, <1>5, <1>7 DEF Handled, IInv, Types

(* A byte that has the top bit set and is no escape is the last of a key   *)
(* going up, or a fake shift, or in the middle of what Pause sends.        *)
ReleaseOf(k, down, n, d) ==
  \/ ~down /\ n = Len(Codes(k, down)) /\ d \in 1 .. 255 /\ Means(k, d) /\ k \in Released
  \/ ~down /\ Silent(k) /\ ShiftCode(d) = {} /\ k \in Released
  \/ /\ down /\ Silent(k) /\ k \notin Released /\ Len(Codes(k, down)) = 6
     /\ \/ n = 5 /\ ShiftCode(d) = {"CTL"}
        \/ n \in {1, 4, 6} /\ ShiftCode(d) = {}

LEMMA ReleaseBytes ==
  ASSUME NEW k \in Keys, NEW down \in BOOLEAN, NEW n \in 1 .. Len(Codes(k, down)),
         down \/ k \in Released,
         NEW e, e = Codes(k, down)[n], e >= 128, e # 224,
         NEW d, d = IF n > 1 /\ Codes(k, down)[n - 1] = 224 THEN e ELSE e - 128
  PROVE  ReleaseOf(k, down, n, d)
<1> USE DEF ReleaseOf
<1>1. CASE PlainKey(k)
  <2>1. PICK c \in BaseCodes : Make[k] = <<c>> /\ Break[k] = <<c + 128>> /\ Means(k, c)
    BY <1>1 DEF PlainKey
  <2>2. ~down
    BY <2>1 DEF Codes, BaseCodes
  <2>3. n = 1 /\ Len(Codes(k, down)) = 1 /\ e = c + 128
    BY <2>1, <2>2 DEF Codes
  <2>4. d = c
    BY <2>3 DEF BaseCodes
  <2> QED  BY <2>1, <2>2, <2>3, <2>4 DEF BaseCodes
<1>2. CASE ExtendedKey(k)
  <2>1. PICK c \in BaseCodes :
          Make[k] = <<224, c>> /\ Break[k] = <<224, c + 128>> /\ Means(k, c + 128)
    BY <1>2 DEF ExtendedKey
  <2>2. ~down
    BY <2>1 DEF Codes, BaseCodes
  <2>3. n = 2 /\ Len(Codes(k, down)) = 2 /\ e = c + 128 /\ Codes(k, down)[1] = 224
    BY <2>1, <2>2 DEF Codes
  <2>4. d = c + 128
    BY <2>3 DEF BaseCodes
  <2> QED  BY <2>1, <2>2, <2>3, <2>4 DEF BaseCodes
<1>3. CASE PrintScreen(k)
  <2>1. ~down
    BY <1>3 DEF PrintScreen, Codes
  <2>2. k \in Released
    BY <2>1
  <2>3. d \in {183, 170}
    BY <1>3, <2>1 DEF PrintScreen, Codes
  <2>4. ShiftCode(183) = {} /\ ShiftCode(170) = {}
    BY DEF ShiftCode
  <2>5. Silent(k)
    BY <1>3 DEF PrintScreen
  <2> QED  BY <2>1, <2>2, <2>3, <2>4, <2>5
<1>4. CASE Pause(k)
  <2>1. down /\ k \notin Released /\ Len(Codes(k, down)) = 6
    BY <1>4 DEF Pause, Codes, Released
  <2>2. Codes(k, down) = <<225, 29, 69, 225, 157, 197>> /\ Silent(k)
    BY <1>4, <2>1 DEF Pause, Codes
  <2>3. \/ n = 5 /\ d = 29
        \/ n = 6 /\ d = 69
        \/ n \in {1, 4} /\ d = 97
    <3>1. n \in 1 .. 6
      BY <2>1
    <3>2. CASE n = 1
      BY <2>2, <3>2
    <3>3. CASE n = 2
      BY <2>2, <3>3
    <3>4. CASE n = 3
      BY <2>2, <3>4
    <3>5. CASE n = 4
      BY <2>2, <3>5
    <3>6. CASE n = 5
      BY <2>2, <3>6
    <3>7. CASE n = 6
      BY <2>2, <3>7
    <3> QED  BY <3>1, <3>2, <3>3, <3>4, <3>5, <3>6, <3>7
  <2>4. ShiftCode(29) = {"CTL"} /\ ShiftCode(69) = {} /\ ShiftCode(97) = {}
    BY DEF ShiftCode
  <2> QED  BY <2>1, <2>2, <2>3, <2>4
<1> QED  BY <1>1, <1>2, <1>3, <1>4, KeyboardAssumption

LEMMA ReleaseHandled ==
  ASSUME IInv, KbdRelease, NEW b, b = Head(line)
  PROVE  Handled(b)
<1> DEFINE k == b.key
           n == b.at
<1>1. /\ Waiting /\ Data >= 128 /\ Data # 224 /\ Returns(0)
      /\ resetting' = resetting /\ ~resetting
  BY DEF KbdRelease, Waiting
<1>2. /\ b \in LineByte
      /\ n \in 1 .. Len(Codes(k, b.down))
      /\ Data = Codes(k, b.down)[n]
      /\ b.down \/ k \in Released
      /\ InStep(k, b.down, n, shift)
      /\ k \notin Released => view \cap Modifiers = {}
  BY <1>1, HeadByte
<1>3. k \in Keys /\ n \in Nat /\ b.down \in BOOLEAN
  BY <1>2 DEF LineByte
<1>5. PICK d : d = IF "E0ESC" \in shift THEN Data ELSE Data - 128
  OBVIOUS
<1>6. shift' = shift \ (ShiftCode(d) \cup {"E0ESC"})
  BY <1>5 DEF KbdRelease
<1>7. d = IF n > 1 /\ Codes(k, b.down)[n - 1] = 224 THEN Data ELSE Data - 128
  BY <1>2, <1>5 DEF InStep
<1>8. ReleaseOf(k, b.down, n, d)
  <2>1. PICK e : e = Data
    OBVIOUS
  <2>2. PICK down \in BOOLEAN : down = b.down
    BY <1>3
  <2>3. /\ k \in Keys /\ n \in 1 .. Len(Codes(k, down))
        /\ down \/ k \in Released
        /\ e = Codes(k, down)[n] /\ e >= 128 /\ e # 224
        /\ d = IF n > 1 /\ Codes(k, down)[n - 1] = 224 THEN e ELSE e - 128
    BY <1>1, <1>2, <1>3, <1>7, <2>1, <2>2
  <2>4. ReleaseOf(k, down, n, d)
    <3> HIDE DEF k, n
    <3> QED  BY <2>3, ReleaseBytes
  <2> QED  BY <2>2, <2>4
<1>9. partial' = {} /\ (Last(b) => typed' = {}) /\ (~Last(b) => UNCHANGED <<event, view, typed>>)
  BY <1>1 DEF Returns, IInv, Types
<1>10. Last(b) => /\ event' = {<<k, IF b.down THEN "down" ELSE "up">>}
                  /\ view' = shift' \cap InForce
  BY <1>1 DEF Returns, InForce
<1>11. "E0ESC" \notin shift' /\ shift' \subseteq Modifiers \cup Locks \cup {"E0ESC"}
  BY <1>6 DEF IInv, Types
<1>12. ~Last(b) => InStep(k, b.down, n + 1, shift')
  <2> SUFFICES ASSUME ~Last(b) PROVE InStep(k, b.down, n + 1, shift')
    OBVIOUS
  <2>1. (n + 1) - 1 = n
    BY <1>3
  <2>2. shift' \cap InForce = IF k \notin Released /\ n + 1 \in 3 .. 5
                             THEN view \cup {"CTL"} ELSE view
    <3>1. n # Len(Codes(k, b.down))
      BY DEF Last
    <3>2. CASE k \in Released
      <4>1. ShiftCode(d) = {}
        BY <1>8, <3>1, <3>2 DEF ReleaseOf
      <4>2. shift \cap InForce = view
        BY <1>2, <3>2 DEF InStep
      <4> QED  BY <1>6, <3>2, <4>1, <4>2 DEF InForce, Modifiers
    <3>3. CASE k \notin Released
      <4>1. view \cap Modifiers = {}
        BY <1>2, <3>3
      <4>2. CASE n = 1
        <5>1. ShiftCode(d) = {} /\ shift \cap InForce = view
          BY <1>2, <1>8, <3>3, <4>2 DEF InStep, ReleaseOf
        <5> QED  BY <1>6, <3>3, <4>2, <5>1 DEF InForce, Modifiers
      <4>3. CASE n = 4
        <5>1. ShiftCode(d) = {} /\ shift \cap InForce = view \cup {"CTL"}
          BY <1>2, <1>8, <3>3, <4>3 DEF InStep, ReleaseOf
        <5> QED  BY <1>6, <3>3, <4>3, <5>1 DEF InForce, Modifiers
      <4>4. CASE n = 5
        <5>1. ShiftCode(d) = {"CTL"} /\ shift \cap InForce = view \cup {"CTL"}
          BY <1>2, <1>8, <3>3, <4>4 DEF InStep, ReleaseOf
        <5> QED  BY <1>6, <3>3, <4>1, <4>4, <5>1 DEF InForce, Modifiers
      <4> QED  BY <1>8, <3>1, <3>3, <4>2, <4>3, <4>4 DEF ReleaseOf
    <3> QED  BY <3>2, <3>3
  <2> QED  BY <2>1, <2>2, <1>1, <1>2, <1>11 DEF InStep
<1>13. Last(b) => IF b.down THEN Events!Press(k) ELSE Events!Release(k)
  <2> SUFFICES ASSUME Last(b)
      PROVE IF b.down THEN Events!Press(k) ELSE Events!Release(k)
    OBVIOUS
  <2>1. n = Len(Codes(k, b.down))
    BY DEF Last
  <2>2. CASE ~b.down /\ d \in 1 .. 255 /\ Means(k, d) /\ k \in Released
    <3>1. shift \cap InForce = view
      BY <1>2, <2>2 DEF InStep
    <3>2. view' = view \ ShiftCode(d)
      BY <1>6, <1>10, <3>1 DEF InForce, Modifiers
    <3>3. view \ ShiftCode(d) = view \ {Layout[k].modifier}
      BY <2>2 DEF Means, ShiftCode, IInv, Types, InForce, Modifiers
    <3> QED  BY <2>2, <1>9, <1>10, <3>2, <3>3 DEF Events!Release
  <2>3. CASE ~b.down /\ Silent(k) /\ ShiftCode(d) = {} /\ k \in Released
    <3>1. shift \cap InForce = view
      BY <1>2, <2>3 DEF InStep
    <3>2. view' = view
      BY <1>6, <1>10, <2>3, <3>1 DEF InForce, Modifiers
    <3>3. view = view \ {Layout[k].modifier}
      BY <2>3 DEF Silent, IInv, Types, InForce, Modifiers
    <3> QED  BY <2>3, <1>9, <1>10, <3>2, <3>3 DEF Events!Release
  <2>4. CASE b.down /\ Silent(k) /\ k \notin Released /\ n = 6 /\ ShiftCode(d) = {}
    <3>1. shift \cap InForce = view
      BY <1>2, <2>4 DEF InStep
    <3>2. view' = view
      BY <1>6, <1>10, <2>4, <3>1 DEF InForce, Modifiers
    <3> QED  BY <2>4, <1>9, <1>10, <3>2 DEF Events!Press, Events!Meaning, Events!NoModifier, Silent
  <2>5. b.down => Silent(k) /\ k \notin Released /\ n = 6 /\ ShiftCode(d) = {}
    <3> SUFFICES ASSUME b.down PROVE Silent(k) /\ k \notin Released /\ n = 6 /\ ShiftCode(d) = {}
      OBVIOUS
    <3>1. /\ Silent(k) /\ k \notin Released /\ Len(Codes(k, b.down)) = 6
          /\ n = 5 \/ ShiftCode(d) = {}
      BY <1>8 DEF ReleaseOf
    <3>2. n = 6
      BY <2>1, <3>1
    <3>3. ShiftCode(d) = {}
      BY <3>1, <3>2
    <3> QED  BY <3>1, <3>2, <3>3
  <2>6. ~b.down => \/ d \in 1 .. 255 /\ Means(k, d) /\ k \in Released
                   \/ Silent(k) /\ ShiftCode(d) = {} /\ k \in Released
    BY <1>8 DEF ReleaseOf
  <2> QED  BY <2>2, <2>3, <2>4, <2>5, <2>6
<1> QED  BY <1>1, <1>9, <1>10, <1>11, <1>12, <1>13 DEF Handled, IInv, Types

(* A byte that has the top bit clear is the last of a key going down, or a *)
(* fake shift, or in the middle of what Pause sends.                       *)
PressOf(k, down, n, d) ==
  /\ down
  /\ \/ n = Len(Codes(k, down)) /\ d \in 1 .. 255 /\ Means(k, d) /\ k \in Released
     \/ Silent(k) /\ k \in Released /\ d \in {170, 183}
     \/ /\ Silent(k) /\ k \notin Released /\ Len(Codes(k, down)) = 6
        /\ \/ n = 2 /\ d = 29
           \/ n = 3 /\ d = 69

LEMMA PressBytes ==
  ASSUME NEW k \in Keys, NEW down \in BOOLEAN, NEW n \in 1 .. Len(Codes(k, down)),
         down \/ k \in Released,
         NEW e, e = Codes(k, down)[n], e < 128,
         NEW d, d = IF n > 1 /\ Codes(k, down)[n - 1] = 224 THEN e + 128 ELSE e
  PROVE  PressOf(k, down, n, d)
<1> USE DEF PressOf
<1>1. CASE PlainKey(k)
  <2>1. PICK c \in BaseCodes : Make[k] = <<c>> /\ Break[k] = <<c + 128>> /\ Means(k, c)
    BY <1>1 DEF PlainKey
  <2>2. down
    BY <2>1 DEF Codes, BaseCodes
  <2>3. n = 1 /\ Len(Codes(k, down)) = 1 /\ e = c
    BY <2>1, <2>2 DEF Codes
  <2>4. k \in Released
    <3>1. Len(Break[k]) = 1 /\ Len(<<>>) # 1
      BY <2>1
    <3>2. Break[k] # <<>>
      BY <3>1, Zenon
    <3> QED
      BY <3>2 DEF Released
  <2>5. d = c /\ c \in 1 .. 255
    BY <2>3 DEF BaseCodes
  <2> QED  BY <2>1, <2>2, <2>3, <2>4, <2>5
<1>2. CASE ExtendedKey(k)
  <2>1. PICK c \in BaseCodes :
          Make[k] = <<224, c>> /\ Break[k] = <<224, c + 128>> /\ Means(k, c + 128)
    BY <1>2 DEF ExtendedKey
  <2>7. PICK x : x = c + 128
    OBVIOUS
  <2>8. Means(k, x)
    BY <2>1, <2>7
  <2>2. down
    BY <2>1 DEF Codes, BaseCodes
  <2>3. n = 2 /\ Len(Codes(k, down)) = 2 /\ e = c /\ Codes(k, down)[1] = 224
    BY <2>1, <2>2 DEF Codes
  <2>4. k \in Released
    <3>1. Len(Break[k]) = 2 /\ Len(<<>>) # 2
      BY <2>1
    <3>2. Break[k] # <<>>
      BY <3>1, Zenon
    <3> QED
      BY <3>2 DEF Released
  <2>5. d = x /\ x \in 1 .. 255
    BY <2>7, <2>3 DEF BaseCodes
  <2>6. Means(k, d) /\ d \in 1 .. 255
    BY <2>8, <2>5
  <2> QED  BY <2>2, <2>3, <2>4, <2>6
<1>3. CASE PrintScreen(k)
  <2>1. down
    BY <1>3 DEF PrintScreen, Codes
  <2>2. k \in Released
    BY <1>3 DEF PrintScreen, Released
  <2>3. Codes(k, down) = <<224, 42, 224, 55>>
    BY <1>3, <2>1 DEF PrintScreen, Codes
  <2>4. n = 2 \/ n = 4
    BY <2>3
  <2>5. d \in {183, 170}
    BY <2>3, <2>4
  <2>6. Silent(k)
    BY <1>3 DEF PrintScreen
  <2> QED  BY <2>1, <2>2, <2>5, <2>6
<1>4. CASE Pause(k)
  <2>1. down /\ k \notin Released /\ Len(Codes(k, down)) = 6
    BY <1>4 DEF Pause, Codes, Released
  <2>2. Codes(k, down) = <<225, 29, 69, 225, 157, 197>> /\ Silent(k)
    BY <1>4, <2>1 DEF Pause, Codes
  <2>3. n = 2 \/ n = 3
    BY <2>2
  <2>4. n = 2 => d = 29
    BY <2>2
  <2>5. n = 3 => d = 69
    BY <2>2
  <2> QED  BY <2>1, <2>2, <2>3, <2>4, <2>5
<1> QED  BY <1>1, <1>2, <1>3, <1>4, KeyboardAssumption

LEMMA PressHandled ==
  ASSUME IInv, KbdPress, NEW b, b = Head(line)
  PROVE  Handled(b)
<1> DEFINE k == b.key
           n == b.at
           s == shift \ {"E0ESC"}
<1>1. Waiting /\ Data < 128
  BY DEF KbdPress
<1>2. /\ b \in LineByte
      /\ n \in 1 .. Len(Codes(k, b.down))
      /\ Data = Codes(k, b.down)[n]
      /\ b.down \/ k \in Released
      /\ InStep(k, b.down, n, shift)
      /\ k \notin Released => view \cap Modifiers = {}
  BY <1>1, HeadByte
<1>3. k \in Keys /\ n \in Nat /\ b.down \in BOOLEAN
  BY <1>2 DEF LineByte
<1>4. PICK d : d = Code
  OBVIOUS
<1>5. d = IF n > 1 /\ Codes(k, b.down)[n - 1] = 224 THEN Data + 128 ELSE Data
  BY <1>2, <1>4 DEF InStep, Code
<1>6. PICK plain : plain = CharCode(shift', d)
  OBVIOUS
<1>7. PICK c : c = IF "CAPSLOCK" \in shift' THEN SwapCase(plain) ELSE plain
  OBVIOUS
<1>8. /\ shift' = Xor(s \cup ShiftCode(d), ToggleCode(d))
      /\ Returns(c)
      /\ resetting' \in BOOLEAN
      /\ resetting' => Chord(shift') /\ c = KEY_DEL
  BY <1>4, <1>6, <1>7 DEF KbdPress
<1>9. PressOf(k, b.down, n, d)
  <2>1. PICK e : e = Data
    OBVIOUS
  <2>2. PICK down \in BOOLEAN : down = b.down
    BY <1>3
  <2>3. /\ k \in Keys /\ n \in 1 .. Len(Codes(k, down))
        /\ down \/ k \in Released
        /\ e = Codes(k, down)[n] /\ e < 128
        /\ d = IF n > 1 /\ Codes(k, down)[n - 1] = 224 THEN e + 128 ELSE e
    BY <1>1, <1>2, <1>3, <1>5, <2>1, <2>2
  <2>4. PressOf(k, down, n, d)
    <3> HIDE DEF k, n
    <3> QED  BY <2>3, PressBytes
  <2> QED  BY <2>2, <2>4
<1>10. b.down
  BY <1>9 DEF PressOf
<1>11. partial = {} /\ s \subseteq Modifiers \cup Locks
  BY DEF IInv, Types
<1>12. /\ Last(b) => /\ partial' = {}
                     /\ event' = {<<k, "down">>}
                     /\ view' = shift' \cap InForce
                     /\ typed' = {c} \ {0}
       /\ ~Last(b) => partial' = {c} \ {0} /\ UNCHANGED <<event, view, typed>>
  BY <1>8, <1>10, <1>11 DEF Returns, InForce
<1>13. CASE n = Len(Codes(k, b.down)) /\ d \in 1 .. 255 /\ Means(k, d) /\ k \in Released
  <2>1. Last(b)
    BY <1>13 DEF Last
  <2>2. PICK m : m = shift' \cap InForce
    OBVIOUS
  <2>3. s \cap InForce = view
    BY <1>2, <1>13 DEF InStep, InForce, Modifiers
  <2>4. PICK s2 : s2 = shift'
    OBVIOUS
  <2>5. Decodes(k, s, s2, m, c)
    <3>1. /\ s2 = Xor(s \cup ShiftCode(d), ToggleCode(d))
          /\ m = s2 \cap InForce
          /\ plain = CharCode(s2, d)
          /\ c = IF "CAPSLOCK" \in s2 THEN SwapCase(plain) ELSE plain
      BY <1>6, <1>7, <1>8, <2>2, <2>4
    <3> HIDE DEF s, k
    <3> QED  BY <1>3, <1>11, <1>13, <3>1, PressDecodes
  <2>6. Events!Press(k)
    BY <1>12, <2>1, <2>2, <2>3, <2>5 DEF Decodes, Events!Press, Events!NoModifier
  <2>7. "E0ESC" \notin shift' /\ shift' \subseteq Modifiers \cup Locks
    BY <2>4, <2>5 DEF Decodes, Modifiers, Locks
  <2>8. resetting' => typed' = {KEY_DEL} /\ Layout[k].plain = KEY_DEL
    BY <1>8, <1>12, <2>1, <2>4, <2>5 DEF Decodes, KEY_DEL
  <2> QED  BY <1>8, <1>10, <1>12, <2>1, <2>6, <2>7, <2>8 DEF Handled
<1>14. CASE Silent(k) /\ k \in Released /\ d \in {170, 183}
  <2>1. shift' = s
    BY <1>8, <1>14 DEF Xor, ShiftCode, ToggleCode
  <2>2. s \cap InForce = view
    BY <1>2, <1>14 DEF InStep, InForce, Modifiers
  <2>3. c = 0
    <3>1. plain = 0
      BY <1>6, <1>14, NoCharacters DEF CharCode
    <3> QED  BY <1>7, <3>1 DEF SwapCase
  <2>4. ~resetting'
    BY <1>8, <2>3 DEF KEY_DEL
  <2>5. Last(b) => Events!Press(k)
    BY <1>12, <1>14, <2>1, <2>2, <2>3 DEF Events!Press, Events!Meaning, Events!NoModifier, Silent
  <2>6. ~Last(b) => InStep(k, b.down, n + 1, shift')
    <3>1. (n + 1) - 1 = n
      BY <1>3
    <3>2. Codes(k, b.down)[n] # 224
      BY <1>1, <1>2
    <3> QED  BY <1>14, <2>1, <2>2, <3>1, <3>2 DEF InStep
  <2>7. partial' = {}
    BY <1>12, <2>3
  <2> QED  BY <1>8, <1>10, <1>11, <1>12, <2>1, <2>4, <2>5, <2>6, <2>7 DEF Handled
<1>15. CASE /\ Silent(k) /\ k \notin Released /\ Len(Codes(k, b.down)) = 6
            /\ \/ n = 2 /\ d = 29
               \/ n = 3 /\ d = 69
  <2>1. ~Last(b)
    <3>1. n # 6
      BY <1>15
    <3> QED  BY <1>15, <3>1 DEF Last
  <2>2. shift' \cap InForce = view \cup {"CTL"} /\ "E0ESC" \notin shift'
    <3>1. CASE n = 2 /\ d = 29
      <4>1. s \cap InForce = view
        BY <1>2, <3>1 DEF InStep, InForce, Modifiers
      <4>2. shift' = s \cup {"CTL"}
        BY <1>8, <3>1 DEF Xor, ShiftCode, ToggleCode
      <4> QED  BY <4>1, <4>2 DEF InForce, Modifiers
    <3>2. CASE n = 3 /\ d = 69
      <4>1. s \cap InForce = view \cup {"CTL"}
        BY <1>2, <1>15, <3>2 DEF InStep, InForce, Modifiers
      <4>2. shift' = Xor(s, {"NUMLOCK"})
        BY <1>8, <3>2 DEF ShiftCode, ToggleCode
      <4> QED  BY <4>1, <4>2 DEF Xor, InForce, Modifiers
    <3> QED  BY <1>15, <3>1, <3>2
  <2>3. c = 0
    <3>1. "CTL" \in shift'
      BY <2>2 DEF InForce
    <3>2. plain = 0
      BY <1>6, <1>15, <3>1, NoCharacters DEF CharCode
    <3> QED  BY <1>7, <3>2 DEF SwapCase
  <2>4. ~resetting'
    BY <1>8, <2>3 DEF KEY_DEL
  <2>5. InStep(k, b.down, n + 1, shift')
    <3>1. (n + 1) - 1 = n /\ n + 1 \in 3 .. 5
      BY <1>15
    <3>2. Codes(k, b.down)[n] # 224
      BY <1>1, <1>2
    <3> QED  BY <1>15, <2>2, <3>1, <3>2 DEF InStep
  <2>6. shift' \subseteq Modifiers \cup Locks
    BY <1>8, <1>11 DEF Xor, ShiftCode, ToggleCode, Modifiers, Locks
  <2>7. partial' = {}
    BY <1>12, <2>1, <2>3
  <2> QED  BY <1>8, <1>12, <2>1, <2>4, <2>5, <2>6, <2>7 DEF Handled
<1> QED  BY <1>9, <1>13, <1>14, <1>15 DEF PressOf

-----------------------------------------------------------------------------
(* The line: an event joins it whole, and one byte leaves it *)

(* What the line is once the event (k, down) has joined it. *)
Extends(s, t, k, down, L, n) ==
  /\ t \in Seq(LineByte)
  /\ L \in Nat /\ n \in Nat /\ n > L
  /\ n = L + Len(Codes(k, down))
  /\ \A i \in 1 .. L : t[i] = s[i]
  /\ \A i \in 1 .. n : i > L => /\ t[i].key = k /\ t[i].down = down
                              /\ t[i].at = i - L

LEMMA Joined ==
  ASSUME NEW s \in Seq(LineByte), NEW k \in Keys, NEW down \in BOOLEAN, down \/ k \in Released,
         NEW t, t = s \o Bytes(k, down), NEW L, L = Len(s), NEW n, n = Len(t)
  PROVE  Extends(s, t, k, down, L, n)
<1> USE DEF Extends
<1>1. Len(Codes(k, down)) \in Nat \ {0}
  BY CodesSent
<1>2. PICK B : B = Bytes(k, down)
  OBVIOUS
<1>8. B \in Seq(LineByte) /\ Len(B) = Len(Codes(k, down))
  BY <1>1, <1>2 DEF Bytes, LineByte
<1>3. \A j \in 1 .. Len(B) : B[j].key = k /\ B[j].down = down /\ B[j].at = j
  BY <1>1, <1>2, <1>8 DEF Bytes
<1>4. t = s \o B
  BY <1>2
<1>5. t \in Seq(LineByte) /\ n = L + Len(B) /\ L \in Nat
  BY <1>4, <1>8, ConcatProperties
<1>6. \A i \in 1 .. L : t[i] = s[i]
  BY <1>4, <1>8
<1>7. \A i \in 1 .. n : i > L => t[i] = B[i - L] /\ i - L \in 1 .. Len(B)
  BY <1>4, <1>5, <1>8, ConcatProperties
<1>9. ASSUME NEW i \in 1 .. n, i > L
      PROVE  t[i].key = k /\ t[i].down = down /\ t[i].at = i - L
  <2>1. PICK j : j = i - L
    OBVIOUS
  <2>2. t[i] = B[j] /\ j \in 1 .. Len(B)
    BY <1>7, <1>9, <2>1
  <2> QED  BY <1>3, <2>1, <2>2
<1>10. n \in Nat /\ n > L
  BY <1>1, <1>5, <1>8
<1> QED  BY <1>5, <1>6, <1>8, <1>9, <1>10

(* Up looks no further than the first n bytes. *)
LEMMA UpPrefix ==
  ASSUME NEW s, NEW t, NEW known, NEW k, NEW n \in Nat, UpAfter(s, known, k, n),
         \A i \in 1 .. n : t[i] = s[i]
  PROVE  UpAfter(t, known, k, n)
BY DEF UpAfter, Quiet

(* The bytes of other keys change nothing. *)
LEMMA UpOthers ==
  ASSUME NEW s, NEW known, NEW k, NEW m \in Nat, NEW n \in Nat, m <= n,
         UpAfter(s, known, k, m),
         \A i \in 1 .. n : i > m => s[i].key # k
  PROVE  UpAfter(s, known, k, n)
<1>1. ASSUME NEW j \in Nat, Quiet(s, k, j, m), j > 0 PROVE Quiet(s, k, j, n)
  BY <1>1 DEF Quiet
<1>2. CASE k \notin known /\ Quiet(s, k, 1, m)
  BY <1>1, <1>2 DEF UpAfter
<1>3. ASSUME NEW i \in 1 .. m, s[i].key = k /\ ~s[i].down /\ Quiet(s, k, i + 1, m)
      PROVE  UpAfter(s, known, k, n)
  <2>1. PICK j \in Nat : j = i + 1
    OBVIOUS
  <2>2. Quiet(s, k, j, n)
    BY <1>1, <1>3, <2>1
  <2>3. i \in 1 .. n
    OBVIOUS
  <2> QED  BY <1>3, <2>1, <2>2, <2>3 DEF UpAfter
<1> QED  BY <1>2, <1>3 DEF UpAfter

LEMMA EventJoins ==
  ASSUME IInv, NEW k \in Keys, NEW down \in BOOLEAN, down \/ k \in Released,
         line' = line \o Bytes(k, down),
         held' = IF down /\ k \in Released THEN held \cup {k} ELSE held \ {k},
         down /\ k \notin Released => held = {},
         UNCHANGED <<shift, resetting, hist>>
  PROVE  IInv'
<1>1. PICK s : s = line
  OBVIOUS
<1>2. PICK t : t = line'
  OBVIOUS
<1>3. PICK L : L = Len(s)
  OBVIOUS
<1>4. PICK n : n = Len(t)
  OBVIOUS
<1>5. s \in Seq(LineByte)
  BY <1>1 DEF IInv, Types
<1>6. t = s \o Bytes(k, down)
  BY <1>1, <1>2
<1>7. Extends(s, t, k, down, L, n)
  BY <1>3, <1>4, <1>5, <1>6, Joined
<1> USE DEF Extends
<1>8. /\ seen' = seen /\ view' = view /\ shift' = shift /\ typed' = typed
      /\ partial' = partial /\ resetting' = resetting
  BY DEF hist
<1>9. Types'
  BY <1>2, <1>7, <1>8 DEF IInv, Types
<1>10. ASSUME NEW k2, NEW m \in 0 .. L, UpAfter(s, seen, k2, m)
       PROVE  UpAfter(t, seen, k2, m)
  <2>1. m \in Nat /\ \A i \in 1 .. m : t[i] = s[i]
    BY <1>7
  <2> QED  BY <1>10, <2>1, UpPrefix
<1>11. ASSUME NEW k2, k2 # k, UpAfter(s, seen, k2, L), NEW m \in L .. n
       PROVE  UpAfter(t, seen, k2, m)
  <2>1. UpAfter(t, seen, k2, L)
    BY <1>7, <1>10, <1>11
  <2>2. \A i \in 1 .. m : i > L => t[i].key # k2
    BY <1>7, <1>11
  <2>3. m \in Nat /\ L <= m
    BY <1>7
  <2> QED  BY <1>7, <2>1, <2>2, <2>3, UpOthers
<1>12. ~down => UpAfter(t, seen, k, n)
  <2> SUFFICES ASSUME ~down PROVE UpAfter(t, seen, k, n)
    OBVIOUS
  <2>1. n \in 1 .. n
    BY <1>7
  <2>2. t[n].key = k /\ ~t[n].down
    BY <1>7, <2>1
  <2>3. Quiet(t, k, n + 1, n)
    BY <1>7 DEF Quiet
  <2> QED  BY <2>1, <2>2, <2>3 DEF UpAfter
<1>13. UpArrives'
  <2> SUFFICES ASSUME NEW k2 \in Released \ held' PROVE UpAfter(t, seen, k2, n)
    BY <1>2, <1>4, <1>8 DEF UpArrives, Up
  <2>1. CASE k2 = k
    BY <1>12, <2>1
  <2>2. CASE k2 # k
    <3>1. UpAfter(s, seen, k2, L)
      BY <1>1, <1>3, <2>2 DEF IInv, UpArrives, Up
    <3> QED  BY <1>7, <1>11, <2>2, <3>1
  <2> QED  BY <2>1, <2>2
<1>14. PauseAlone'
  <2> SUFFICES ASSUME NEW i \in 1 .. n, t[i].key \notin Released, NEW k2 \in Released
      PROVE  UpAfter(t, seen, k2, i - 1)
    <3>1. DOMAIN line' = 1 .. n /\ line' = t
      <4>1. t \in Seq(LineByte)
        BY <1>7
      <4> QED  BY <1>2, <1>4, <4>1
    <3> QED  BY <3>1, <1>8 DEF PauseAlone, Up
  <2>1. PICK j \in Nat : j = i - 1
    BY <1>7
  <2>2. CASE i <= L
    <3>1. UpAfter(s, seen, k2, j)
      <4>1. i \in DOMAIN line /\ line[i].key \notin Released
        BY <1>1, <1>3, <1>5, <1>7, <2>2
      <4>2. Up(k2, i - 1)
        BY <4>1 DEF IInv, PauseAlone
      <4> QED  BY <1>1, <2>1, <4>2 DEF Up
    <3> QED  BY <1>7, <1>10, <2>1, <2>2, <3>1
  <2>3. CASE i > L
    <3>1. k \notin Released /\ k2 # k /\ held = {}
      BY <1>7, <2>3
    <3>2. UpAfter(s, seen, k2, L)
      BY <1>1, <1>3, <3>1 DEF IInv, UpArrives, Up
    <3> QED  BY <1>7, <1>11, <2>1, <2>3, <3>1, <3>2
  <2> QED  BY <1>7, <2>2, <2>3
<1>15. Whole'
  <2>1. DOMAIN line' = 1 .. n /\ Len(line') = n /\ line' = t /\ DOMAIN line = 1 .. L
    <3>1. t \in Seq(LineByte)
      BY <1>7
    <3> QED  BY <1>1, <1>2, <1>3, <1>4, <1>5, <3>1
  <2> SUFFICES ASSUME NEW i \in 1 .. n
      PROVE  /\ t[i].at <= Len(Codes(t[i].key, t[i].down))
             /\ ~Last(t[i]) => /\ i < n
                               /\ t[i + 1].key = t[i].key
                               /\ t[i + 1].down = t[i].down
                               /\ t[i + 1].at = t[i].at + 1
             /\ (Last(t[i]) /\ i < n) => t[i + 1].at = 1
    BY <2>1 DEF Whole
  <2>2. PICK j : j = i + 1
    OBVIOUS
  <2>3. i \in Nat /\ j \in Nat /\ L \in Nat /\ n \in Nat /\ L < n
    BY <1>7, <2>2
  <2>4. CASE i <= L
    <3>1. i \in 1 .. L /\ t[i] = s[i]
      BY <1>7, <2>3, <2>4
    <3>2. /\ s[i].at <= Len(Codes(s[i].key, s[i].down))
          /\ ~Last(s[i]) => /\ i < L
                            /\ s[j].key = s[i].key
                            /\ s[j].down = s[i].down
                            /\ s[j].at = s[i].at + 1
          /\ (Last(s[i]) /\ i < L) => s[j].at = 1
      BY <1>1, <1>3, <2>1, <2>2, <3>1 DEF IInv, Whole
    <3>3. CASE i < L
      <4>1. j \in 1 .. L
        BY <2>2, <2>3, <3>3
      <4>2. t[j] = s[j]
        BY <1>7, <4>1
      <4> QED  BY <2>2, <2>3, <3>1, <3>2, <3>3, <4>2
    <3>4. CASE i = L
      <4>1. Last(s[i]) /\ j \in 1 .. n /\ j > L /\ j - L = 1
        BY <2>2, <2>3, <3>2, <3>4
      <4>2. t[j].at = 1
        BY <1>7, <4>1
      <4> QED  BY <2>2, <3>1, <3>2, <4>1, <4>2
    <3> QED  BY <2>3, <2>4, <3>3, <3>4
  <2>5. CASE i > L
    <3>1. t[i].key = k /\ t[i].down = down /\ t[i].at = i - L
      BY <1>7, <2>5
    <3>2. n = L + Len(Codes(k, down)) /\ Len(Codes(k, down)) \in Nat
      BY <1>7, CodesSent
    <3>3. t[i].at <= Len(Codes(t[i].key, t[i].down))
      BY <2>3, <3>1, <3>2
    <3>4. Last(t[i]) <=> i = n
      BY <2>3, <3>1, <3>2 DEF Last
    <3>5. i < n => /\ t[j].key = k /\ t[j].down = down /\ t[j].at = j - L
      BY <1>7, <2>2, <2>3, <2>5
    <3>6. j - L = (i - L) + 1
      BY <2>2, <2>3
    <3> QED  BY <2>2, <2>3, <3>1, <3>3, <3>4, <3>5, <3>6
  <2> QED  BY <2>3, <2>4, <2>5
<1>16. Decoded'
  <2>1. line' # <<>> /\ Head(line') = t[1] /\ 1 \in 1 .. n
    <3>1. t \in Seq(LineByte) /\ n > 0
      BY <1>7
    <3> QED  BY <1>2, <1>4, <3>1
  <2>2. CASE line = <<>>
    <3>1. L = 0
      BY <1>1, <1>3, <2>2
    <3>2. t[1].at = 1
      BY <1>7, <2>1, <3>1
    <3>3. "E0ESC" \notin shift /\ shift \cap InForce = view
      BY <2>2 DEF IInv, Decoded
    <3>4. InStep(t[1].key, t[1].down, 1, shift)'
      BY <1>8, <3>3 DEF InStep
    <3> QED  BY <1>2, <2>1, <3>2, <3>4 DEF Decoded
  <2>3. CASE line # <<>>
    <3>1. 1 \in 1 .. L /\ Head(line) = s[1]
      BY <1>1, <1>3, <1>5, <2>3
    <3>2. t[1] = s[1]
      BY <1>7, <3>1
    <3>3. InStep(s[1].key, s[1].down, s[1].at, shift)
      BY <2>3, <3>1 DEF IInv, Decoded
    <3>4. InStep(s[1].key, s[1].down, s[1].at, shift)'
      BY <1>8, <3>3 DEF InStep
    <3> QED  BY <1>2, <2>1, <3>2, <3>4 DEF Decoded
  <2> QED  BY <2>2, <2>3
<1>17. Backed' /\ Chorded'
  BY <1>8 DEF IInv, Backed, Chorded
<1> QED  BY <1>9, <1>13, <1>14, <1>15, <1>16, <1>17 DEF IInv

(* The keys known to be down once byte b has been handled. *)
Learnt(known, b) ==
  IF Last(b)
  THEN IF b.down /\ b.key \in Released THEN known \cup {b.key} ELSE known \ {b.key}
  ELSE known

(* Handling the first byte brings every later moment one byte closer. *)
Arriving(s, t, b, c, known, k, n, m) ==
  /\ s \in Seq(LineByte) /\ s # <<>> /\ t = Tail(s)
  /\ b = s[1] /\ c = s[2]
  /\ k \in Released /\ n \in 0 .. Len(t) /\ m = n + 1
  /\ UpAfter(s, known, k, m)
  /\ ~Last(b) /\ b.key = k => n > 0 /\ c.key = k /\ c.down = b.down

LEMMA UpTail ==
  ASSUME NEW s, NEW t, NEW b, NEW c, NEW known, NEW k, NEW n, NEW m,
         Arriving(s, t, b, c, known, k, n, m),
         NEW known2, known2 = Learnt(known, b)
  PROVE  UpAfter(t, known2, k, n)
<1> USE DEF Arriving, Learnt
<1>1. n \in Nat /\ m \in Nat /\ m > 0
  OBVIOUS
<1>2. \A j \in 1 .. n, i \in 1 .. m : i = j + 1 => t[j] = s[i]
  OBVIOUS
<1>3. ASSUME NEW i \in Nat, NEW j \in Nat, j > 0, i = j + 1, Quiet(s, k, i, m)
      PROVE  Quiet(t, k, j, n)
  <2> SUFFICES ASSUME NEW x \in j .. n, t[x].key = k PROVE ~t[x].down
    BY DEF Quiet
  <2>1. PICK y : y = x + 1
    OBVIOUS
  <2>2. y \in i .. m /\ t[x] = s[y]
    BY <1>1, <1>2, <1>3, <2>1
  <2> QED  BY <1>3, <2>2 DEF Quiet
<1>4. CASE k \notin known /\ Quiet(s, k, 1, m)
  <2>1. b.key = k => ~b.down
    BY <1>1, <1>4 DEF Quiet
  <2>2. k \notin known2
    BY <1>4, <2>1
  <2>3. Quiet(s, k, 2, m)
    BY <1>1, <1>4 DEF Quiet
  <2>4. Quiet(t, k, 1, n)
    BY <1>3, <2>3
  <2> QED  BY <2>2, <2>4 DEF UpAfter
<1>5. ASSUME NEW i \in 1 .. m, s[i].key = k /\ ~s[i].down /\ Quiet(s, k, i + 1, m)
      PROVE  UpAfter(t, known2, k, n)
  <2>1. PICK i2 : i2 = i + 1
    OBVIOUS
  <2>2. Quiet(s, k, i2, m)
    BY <1>5, <2>1
  <2>3. CASE i > 1
    <3>1. PICK j : j = i - 1
      OBVIOUS
    <3>2. j \in 1 .. n /\ t[j] = s[i]
      BY <1>1, <1>2, <2>3, <3>1
    <3>3. Quiet(t, k, i, n)
      BY <1>1, <1>3, <2>1, <2>2
    <3>4. j + 1 = i
      BY <3>1
    <3>5. Quiet(t, k, j + 1, n)
      BY <3>3, <3>4
    <3> QED  BY <1>5, <3>2, <3>5 DEF UpAfter
  <2>4. CASE i = 1
    <3>1. b.key = k /\ ~b.down
      BY <1>5, <2>4
    <3>2. Quiet(s, k, 2, m)
      BY <2>1, <2>2, <2>4
    <3>3. CASE Last(b)
      <4>1. k \notin known2
        BY <3>1, <3>3
      <4>2. Quiet(t, k, 1, n)
        BY <1>3, <3>2
      <4> QED  BY <4>1, <4>2 DEF UpAfter
    <3>4. CASE ~Last(b)
      <4>1. n > 0 /\ c.key = k /\ ~c.down
        BY <3>1, <3>4
      <4>2. 1 \in 1 .. n /\ t[1] = c
        BY <1>1, <1>2, <4>1
      <4>3. Quiet(s, k, 3, m)
        BY <1>1, <3>2 DEF Quiet
      <4>4. Quiet(t, k, 2, n)
        BY <1>3, <4>3
      <4>5. Quiet(t, k, 1 + 1, n)
        BY <4>4
      <4> QED  BY <4>1, <4>2, <4>5 DEF UpAfter
    <3> QED  BY <3>3, <3>4
  <2> QED  BY <2>3, <2>4
<1> QED  BY <1>4, <1>5 DEF UpAfter

(* What the three cases of kbd_proc_data have in common. *)
LEMMA ByteHandled ==
  ASSUME IInv, KbdEscape \/ KbdRelease \/ KbdPress, NEW b, b = Head(line)
  PROVE  /\ Waiting /\ Handled(b)
         /\ line' = Tail(line) /\ held' = held
         /\ seen' = Learnt(seen, b)
<1>1. Handled(b)
  BY EscapeHandled, ReleaseHandled, PressHandled
<1>2. Waiting /\ held' = held /\ \E c : Returns(c)
  BY DEF KbdEscape, KbdRelease, KbdPress
<1>3. b.key \in Keys
  BY <1>2, HeadByte DEF LineByte
<1>4. PICK c : Returns(c)
  BY <1>2
<1>5. line' = Tail(line)
  BY <1>4 DEF Returns
<1>6. seen' = Learnt(seen, b)
  BY <1>3, <1>4 DEF Returns, Released, Learnt
<1> QED  BY <1>1, <1>2, <1>5, <1>6

LEMMA ByteLeaves ==
  ASSUME IInv, KbdEscape \/ KbdRelease \/ KbdPress
  PROVE  IInv'
<1>1. PICK s : s = line
  OBVIOUS
<1>2. PICK t : t = line'
  OBVIOUS
<1>3. PICK b : b = Head(line)
  OBVIOUS
<1>4. /\ Waiting /\ Handled(b)
      /\ t = Tail(s) /\ held' = held
      /\ seen' = Learnt(seen, b)
  BY <1>1, <1>2, <1>3, ByteHandled
<1>5. s \in Seq(LineByte) /\ s # <<>>
  BY <1>1, <1>4 DEF IInv, Types, Waiting
<1>6. PICK L \in Nat : L = Len(s)
  BY <1>5
<1>7. PICK n \in Nat : n = Len(t)
  BY <1>4, <1>5
<1>8. /\ t \in Seq(LineByte) /\ L = n + 1
      /\ DOMAIN s = 1 .. L /\ DOMAIN t = 1 .. n
      /\ \A i \in 1 .. n, j \in 1 .. L : j = i + 1 => t[i] = s[j]
  BY <1>4, <1>5, <1>6, <1>7
<1>9. PICK c : c = s[2]
  OBVIOUS
<1>10. b = s[1] /\ 1 \in 1 .. L
  BY <1>1, <1>3, <1>5, <1>6
<1>11. b \in LineByte /\ (b.down \/ b.key \in Released)
  BY <1>3, <1>4, HeadByte
<1>12. ~Last(b) => /\ n > 0 /\ c.key = b.key /\ c.down = b.down /\ c.at = b.at + 1
  <2>1. ~Last(s[1]) => /\ 1 < L
                      /\ s[1 + 1].key = s[1].key
                      /\ s[1 + 1].down = s[1].down
                      /\ s[1 + 1].at = s[1].at + 1
    BY <1>1, <1>6, <1>8, <1>10 DEF IInv, Whole
  <2>2. 1 + 1 = 2 /\ (1 < L => n > 0)
    BY <1>8
  <2> QED  BY <1>9, <1>10, <2>1, <2>2
<1>13. Types'
  <2>1. seen' \subseteq Released
    BY <1>4, <1>11 DEF Learnt, IInv, Types
  <2>2. view' \subseteq InForce
    BY <1>4 DEF Handled, IInv, Types
  <2> QED  BY <1>2, <1>4, <1>8, <2>1, <2>2 DEF IInv, Types, Handled
<1>14. Whole'
  <2> SUFFICES ASSUME NEW i \in 1 .. n
      PROVE  /\ t[i].at <= Len(Codes(t[i].key, t[i].down))
             /\ ~Last(t[i]) => /\ i < n
                               /\ t[i + 1].key = t[i].key
                               /\ t[i + 1].down = t[i].down
                               /\ t[i + 1].at = t[i].at + 1
             /\ (Last(t[i]) /\ i < n) => t[i + 1].at = 1
    BY <1>2, <1>7, <1>8 DEF Whole
  <2>1. PICK j : j = i + 1
    OBVIOUS
  <2>2. PICK x : x = j + 1
    OBVIOUS
  <2>3. j \in 1 .. L /\ t[i] = s[j] /\ (i < n <=> j < L)
    BY <1>8, <2>1
  <2>4. j < L => t[j] = s[x]
    BY <1>8, <2>1, <2>2
  <2>5. /\ s[j].at <= Len(Codes(s[j].key, s[j].down))
        /\ ~Last(s[j]) => /\ j < L
                          /\ s[x].key = s[j].key
                          /\ s[x].down = s[j].down
                          /\ s[x].at = s[j].at + 1
        /\ (Last(s[j]) /\ j < L) => s[x].at = 1
    BY <1>1, <1>6, <1>8, <2>2, <2>3 DEF IInv, Whole
  <2> QED  BY <2>1, <2>3, <2>4, <2>5
<1>15. ASSUME NEW k \in Released, NEW m \in 0 .. n, NEW m1, m1 = m + 1,
              UpAfter(s, seen, k, m1),
              ~Last(b) /\ b.key = k => m > 0
       PROVE  UpAfter(t, seen', k, m)
  <2>1. PICK known2 : known2 = seen'
    OBVIOUS
  <2>2. PICK known : known = seen
    OBVIOUS
  <2>3. known2 = Learnt(known, b)
    BY <1>4, <2>1, <2>2
  <2>4. ~Last(b) /\ b.key = k => m > 0 /\ c.key = k /\ c.down = b.down
    BY <1>12, <1>15
  <2>5. m \in 0 .. Len(t) /\ t = Tail(s)
    BY <1>4, <1>7
  <2>6. UpAfter(s, known, k, m1)
    BY <1>15, <2>2
  <2>7. UpAfter(t, known2, k, m)
    <3>1. Arriving(s, t, b, c, known, k, m, m1)
      BY <1>5, <1>9, <1>10, <1>15, <2>4, <2>5, <2>6 DEF Arriving
    <3> QED  BY <2>3, <3>1, UpTail
  <2> QED  BY <2>1, <2>7
<1>16. UpArrives'
  <2> SUFFICES ASSUME NEW k \in Released \ held PROVE UpAfter(t, seen', k, n)
    BY <1>2, <1>4, <1>7 DEF UpArrives, Up
  <2>1. UpAfter(s, seen, k, L)
    BY <1>1, <1>6 DEF IInv, UpArrives, Up
  <2> QED  BY <1>8, <1>12, <1>15, <2>1
<1>17. PauseAlone'
  <2> SUFFICES ASSUME NEW i \in 1 .. n, t[i].key \notin Released, NEW k \in Released
      PROVE  UpAfter(t, seen', k, i - 1)
    BY <1>2, <1>8 DEF PauseAlone, Up
  <2>1. PICK m : m = i - 1
    OBVIOUS
  <2>2. PICK j : j = i + 1
    OBVIOUS
  <2>3. m \in 0 .. n /\ i = m + 1 /\ j - 1 = i /\ j \in 1 .. L
    BY <1>8, <2>1, <2>2
  <2>4. t[i] = s[j]
    BY <1>8, <2>2, <2>3
  <2>5. UpAfter(s, seen, k, j - 1)
    BY <1>1, <1>8, <2>3, <2>4 DEF IInv, PauseAlone, Up
  <2>6. UpAfter(s, seen, k, i)
    BY <2>3, <2>5
  <2>7. ~Last(b) /\ b.key = k => m > 0
    <3> SUFFICES ASSUME ~Last(b), b.key = k, m = 0 PROVE FALSE
      BY <2>3
    <3>1. j = 2
      BY <2>1, <2>2
    <3> QED  BY <1>9, <1>12, <2>4, <3>1
  <2>8. UpAfter(t, seen', k, m)
    BY <1>15, <2>3, <2>6, <2>7
  <2> QED  BY <2>1, <2>8
<1>18. Decoded'
  <2>1. CASE Last(b)
    <3>1. "E0ESC" \notin shift' /\ shift' \cap InForce = view'
      BY <1>4, <2>1 DEF Handled
    <3>2. CASE t = <<>>
      BY <1>2, <3>1, <3>2 DEF Decoded
    <3>3. CASE t # <<>>
      <4>1. Head(t) = t[1] /\ 1 \in 1 .. n /\ 1 < L
        BY <1>7, <1>8, <3>3
      <4>2. 1 + 1 = 2 /\ t[1] = s[2]
        BY <1>8, <4>1
      <4>3. s[1 + 1].at = 1
        BY <1>1, <1>6, <1>8, <1>10, <2>1, <4>1 DEF IInv, Whole
      <4>4. Head(t).at = 1
        BY <4>1, <4>2, <4>3
      <4>5. InStep(Head(t).key, Head(t).down, 1, shift)'
        BY <3>1 DEF InStep
      <4> QED  BY <1>2, <3>3, <4>4, <4>5 DEF Decoded
    <3> QED  BY <3>2, <3>3
  <2>2. CASE ~Last(b)
    <3>1. InStep(b.key, b.down, b.at + 1, shift') /\ view' = view
      BY <1>4, <2>2 DEF Handled
    <3>2. t # <<>> /\ Head(t) = c
      <4>1. n > 0 /\ 1 \in 1 .. n /\ 2 \in 1 .. L /\ 2 = 1 + 1
        BY <1>8, <1>12, <2>2
      <4>2. t[1] = s[2]
        BY <1>8, <4>1
      <4> QED  BY <1>7, <1>8, <1>9, <4>1, <4>2
    <3>3. InStep(c.key, c.down, c.at, shift')
      BY <1>12, <2>2, <3>1
    <3>4. InStep(c.key, c.down, c.at, shift)'
      BY <3>1, <3>3 DEF InStep
    <3> QED  BY <1>2, <3>2, <3>4 DEF Decoded
  <2> QED  BY <2>1, <2>2
<1>19. Backed'
  <2> SUFFICES ASSUME NEW f \in view' \cap Modifiers
      PROVE  \E k \in seen' : Layout[k].modifier = f
    BY DEF Backed
  <2>1. CASE ~Last(b)
    BY <1>4, <2>1 DEF Learnt, Handled, IInv, Backed
  <2>2. CASE Last(b) /\ b.down
    <3>1. Events!Press(b.key)
      BY <1>4, <2>2 DEF Handled
    <3>2. CASE f \in view
      <4>1. PICK k \in seen : Layout[k].modifier = f
        BY <3>2 DEF IInv, Backed
      <4>2. k \in Released
        BY <4>1 DEF IInv, Types
      <4>3. k \in seen'
        BY <1>4, <2>2, <4>1, <4>2 DEF Learnt
      <4> QED  BY <4>1, <4>3
    <3>3. CASE f \notin view
      <4>1. Layout[b.key].modifier = f
        BY <3>1, <3>3 DEF Events!Press, Events!Toggle, Events!NoModifier, Modifiers
      <4>2. b.key \in Released
        <5>1. b.key \in Keys
          BY <1>11 DEF LineByte
        <5>2. Layout[b.key].modifier # "none"
          BY <4>1 DEF Modifiers
        <5> QED  BY <5>1, <5>2, KeyboardAssumption
                 DEF Released, PlainKey, ExtendedKey, PrintScreen, Pause, Silent, BaseCodes
      <4> QED  BY <1>4, <2>2, <4>1, <4>2 DEF Learnt
    <3> QED  BY <3>2, <3>3
  <2>3. CASE Last(b) /\ ~b.down
    <3>1. view' = view \ {Layout[b.key].modifier}
      BY <1>4, <2>3 DEF Handled, Events!Release
    <3>2. PICK k \in seen : Layout[k].modifier = f
      BY <3>1 DEF IInv, Backed
    <3>3. k # b.key
      BY <3>1, <3>2
    <3> QED  BY <1>4, <2>3, <3>2, <3>3 DEF Learnt
  <2> QED  BY <2>1, <2>2, <2>3
<1>20. Chorded'
  <2> SUFFICES ASSUME resetting'
      PROVE  /\ {"CTL", "ALT"} \subseteq view'
             /\ typed' = {KEY_DEL}
             /\ \E k \in seen' : Layout[k].plain = KEY_DEL
    BY DEF Chorded
  <2>1. /\ Last(b) /\ b.down /\ Chord(shift') /\ typed' = {KEY_DEL}
        /\ Layout[b.key].plain = KEY_DEL /\ view' = shift' \cap InForce
    BY <1>4 DEF Handled
  <2>2. {"CTL", "ALT"} \subseteq view'
    BY <2>1 DEF Chord, InForce, Modifiers
  <2>3. b.key \in Released
    <3>1. b.key \in Keys
      BY <1>11 DEF LineByte
    <3>2. Layout[b.key].plain # 0
      BY <2>1 DEF KEY_DEL
    <3> QED  BY <3>1, <3>2, KeyboardAssumption
             DEF Released, PlainKey, ExtendedKey, PrintScreen, Pause, Silent, BaseCodes
  <2> QED  BY <1>4, <2>1, <2>2, <2>3 DEF Learnt
<1> QED  BY <1>13, <1>14, <1>16, <1>17, <1>18, <1>19, <1>20 DEF IInv

-----------------------------------------------------------------------------
(* The invariant *)

LEMMA InitIInv == Init => IInv
<1> SUFFICES ASSUME Init PROVE IInv
  OBVIOUS
<1>1. Types
  <2>1. <<>> \in Seq(LineByte)
    OBVIOUS
  <2> QED  BY <2>1 DEF Init, Types
<1>2. Whole /\ PauseAlone
  BY DEF Init, Whole, PauseAlone
<1>3. UpArrives
  BY DEF Init, UpArrives, Up, UpAfter, Quiet
<1>4. Decoded /\ Backed /\ Chorded
  BY DEF Init, Decoded, Backed, Chorded, Modifiers
<1> QED  BY <1>1, <1>2, <1>3, <1>4 DEF IInv

LEMMA NextIInv == IInv /\ [Next]_vars => IInv'
<1> SUFFICES ASSUME IInv, [Next]_vars PROVE IInv'
  OBVIOUS
<1>1. CASE \E k \in Keys : KeyDown(k)
  <2>1. PICK k \in Keys : KeyDown(k)
    BY <1>1
  <2>2. held' = IF TRUE /\ k \in Released THEN held \cup {k} ELSE held \ {k}
    BY <2>1 DEF KeyDown, Released, IInv, Types
  <2>3. k \notin Released => held = {}
    BY <2>1 DEF KeyDown, Released
  <2> QED  BY <2>1, <2>2, <2>3, EventJoins DEF KeyDown
<1>2. CASE \E k \in Keys : KeyUp(k)
  <2>1. PICK k \in Keys : KeyUp(k)
    BY <1>2
  <2>2. k \in Released
    BY <2>1 DEF KeyUp, IInv, Types
  <2> QED  BY <2>1, <2>2, EventJoins DEF KeyUp
<1>3. CASE KbdEscape \/ KbdRelease \/ KbdPress
  BY <1>3, ByteLeaves
<1>4. CASE Reset
  <2>1. Types'
    <3>1. <<>> \in Seq(LineByte)
      OBVIOUS
    <3> QED  BY <1>4, <3>1 DEF Reset, IInv, Types
  <2>2. Whole' /\ PauseAlone'
    BY <1>4 DEF Reset, Whole, PauseAlone
  <2>3. UpArrives'
    BY <1>4 DEF Reset, UpArrives, Up, UpAfter, Quiet
  <2>4. Decoded' /\ Backed' /\ Chorded'
    BY <1>4 DEF Reset, Decoded, Backed, Chorded, Modifiers
  <2> QED  BY <2>1, <2>2, <2>3, <2>4 DEF IInv
<1>5. CASE UNCHANGED vars
  BY <1>5 DEF vars, hist, IInv, Types, Whole, UpArrives, PauseAlone, Up, UpAfter, Quiet,
              Decoded, InStep, Backed, Chorded
<1> QED  BY <1>1, <1>2, <1>3, <1>4, <1>5 DEF Next

(***************************************************************************)
(* The inductive invariant: what the bytes of a key event that were        *)
(* handled have made of shift since the last whole event.                  *)
(***************************************************************************)
LEMMA Decoding == Spec => []IInv
<1>1. Init => IInv
  BY InitIInv
<1>2. IInv /\ [Next]_vars => IInv'
  BY NextIInv
<1> QED  BY <1>1, <1>2, PTL DEF Spec

(***************************************************************************)
(* E0ESC, which shift keeps from one call to the next, is set exactly when *)
(* the byte before the next one was an E0 of the same key event: the byte  *)
(* behind an escape always consumes it, be it a press or a release, of the *)
(* fake shifts too, and nothing of one key event reaches the codes of      *)
(* another (console.c:331, 338, 343).                                      *)
(***************************************************************************)
EscapePending ==
  "E0ESC" \in shift <=>
    /\ line # <<>> /\ Head(line).at > 1
    /\ Codes(Head(line).key, Head(line).down)[Head(line).at - 1] = 224

THEOREM EscapesConsumed == Spec => []EscapePending
<1>1. ASSUME IInv PROVE EscapePending
  BY <1>1 DEF EscapePending, IInv, Decoded, InStep
<1> QED  BY <1>1, Decoding, PTL

(***************************************************************************)
(* NoStuckModifier: with nothing left on the line, every Shift, Ctrl or    *)
(* Alt in force is that of a key held down.                                *)
(***************************************************************************)
THEOREM ModifiersReleased == Spec => []NoStuckModifier
<1>1. ASSUME IInv PROVE NoStuckModifier
  <2> SUFFICES ASSUME line = <<>>, NEW f \in shift \cap Modifiers
      PROVE  \E k \in held : Layout[k].modifier = f
    BY DEF NoStuckModifier
  <2>1. f \in view \cap Modifiers
    BY <1>1 DEF IInv, Decoded, InForce
  <2>2. PICK k \in seen : Layout[k].modifier = f
    BY <1>1, <2>1 DEF IInv, Backed
  <2>3. k \in held
    <3> SUFFICES ASSUME k \notin held PROVE FALSE
      OBVIOUS
    <3>1. k \in Released
      BY <1>1, <2>2 DEF IInv, Types
    <3>2. Up(k, Len(line))
      BY <1>1, <3>1 DEF IInv, UpArrives
    <3>3. Len(line) = 0
      OBVIOUS
    <3> QED  BY <2>2, <3>2, <3>3 DEF Up, UpAfter
  <2> QED  BY <2>2, <2>3
<1> QED  BY <1>1, Decoding, PTL

Fingers ==
  resetting => /\ \E k \in seen : Layout[k].modifier = "CTL"
               /\ \E k \in seen : Layout[k].modifier = "ALT"
               /\ \E k \in seen : Layout[k].plain = KEY_DEL

(***************************************************************************)
(* OnlyChordResets: port 0x92 is written only with a Ctrl, an Alt and a    *)
(* Delete key down.                                                        *)
(***************************************************************************)
THEOREM ChordResets == Spec => OnlyChordResets
<1>1. IInv => Fingers
  <2> SUFFICES ASSUME IInv, resetting
      PROVE  /\ \E k \in seen : Layout[k].modifier = "CTL"
             /\ \E k \in seen : Layout[k].modifier = "ALT"
             /\ \E k \in seen : Layout[k].plain = KEY_DEL
    BY DEF Fingers
  <2>1. {"CTL", "ALT"} \subseteq view /\ \E k \in seen : Layout[k].plain = KEY_DEL
    BY DEF IInv, Chorded
  <2>2. "CTL" \in view \cap Modifiers /\ "ALT" \in view \cap Modifiers
    BY <2>1 DEF Modifiers
  <2> QED  BY <2>1, <2>2 DEF IInv, Backed
<1>2. Fingers' =>
        [resetting' => /\ \E k \in seen' : Layout[k].modifier = "CTL"
                       /\ \E k \in seen' : Layout[k].modifier = "ALT"
                       /\ \E k \in seen' : Layout[k].plain = KEY_DEL]_vars
  BY DEF Fingers
<1> QED  BY <1>1, <1>2, Decoding, PTL DEF OnlyChordResets

-----------------------------------------------------------------------------
(* The decoder implements the keyboard as its user thinks of it *)

LEMMA InitEvents == Init => Events!Init
BY DEF Init, Events!Init

LEMMA StepEvents == IInv /\ [Next]_vars => [Events!Next]_(Events!vars)
<1> SUFFICES ASSUME IInv, [Next]_vars PROVE Events!Next \/ UNCHANGED <<event, view, typed>>
  BY DEF Events!vars
<1>1. CASE \E k \in Keys : KeyDown(k) \/ KeyUp(k)
  BY <1>1 DEF KeyDown, KeyUp, hist
<1>2. CASE KbdEscape \/ KbdRelease \/ KbdPress
  <2>1. PICK b : b = Head(line)
    OBVIOUS
  <2>2. Waiting /\ Handled(b)
    BY <1>2, <2>1, ByteHandled
  <2>3. b.key \in Keys
    BY <2>1, <2>2, HeadByte DEF LineByte
  <2>4. CASE Last(b)
    BY <2>2, <2>3, <2>4 DEF Handled, Events!Next
  <2>5. CASE ~Last(b)
    BY <2>2, <2>5 DEF Handled
  <2> QED  BY <2>4, <2>5
<1>3. CASE Reset
  BY <1>3 DEF Reset, IInv, Chorded, Events!Next, Events!Restart
<1>4. CASE UNCHANGED vars
  BY <1>4 DEF vars, hist
<1> QED  BY <1>1, <1>2, <1>3, <1>4 DEF Next

(***************************************************************************)
(* ImplementsKeyEvents: what kbd_proc_data makes of the bytes of any key   *)
(* events is what the keys mean, one step of KeyEvents for the last byte   *)
(* of each event and none for the others.                                  *)
(***************************************************************************)
THEOREM DecodesKeyEvents == Spec => ImplementsKeyEvents
<1>1. Init => Events!Init
  BY InitEvents
<1>2. IInv /\ [Next]_vars => [Events!Next]_(Events!vars)
  BY StepEvents
<1> QED  BY <1>1, <1>2, Decoding, PTL DEF Spec, ImplementsKeyEvents, Events!Spec

-----------------------------------------------------------------------------
(* ConsoleOutput: what is still to come, and the invariant *)

Text == Chars \cup {TAB}

(* The characters being output: a tab on its own, or some that are none *)
Outputs == {<<TAB>>} \cup (Seq(Chars) \ {<<>>})
Busy == pc # "idle"

OutputTypes ==
  /\ present \subseteq Ports
  /\ register \in [Ports -> Seq(Text)]
  /\ received \in [Ports -> Seq(Text)]
  /\ pc \in {"idle", "poll", "write", "cga"}
  /\ port \in Ports
  /\ screen \in Seq(Text)
  /\ Busy => out \in Outputs
  /\ pc = "cga" => port = "lpt"

(* What a device gets of the characters s, before and after the first of   *)
(* them was written to it                                                  *)
WholeText(s) == IF s = <<TAB>> THEN <<TAB>> \o FiveSpaces ELSE s
Rest(s) == IF s = <<TAB>> THEN FiveSpaces ELSE Tail(s)

(* The printer's turn comes after the serial line's. *)
Unwritten(p) == pc \in {"poll", "write"} /\ (port = "serial" \/ p = "lpt")

ToCome(p) == IF pc = "idle" THEN <<>> ELSE IF Unwritten(p) THEN WholeText(out) ELSE Rest(out)
StillToShow == IF pc = "idle" THEN <<>> ELSE IF out = <<TAB>> THEN FiveSpaces ELSE out

(* Nothing is lost or doubled on its way. *)
Device(p) == (received[p] \o register[p]) \o ToCome(p) = due
Emptied(p) == pc = "write" /\ port = p => register[p] = <<>>
Devices == \A p \in present \ gaveUp : Device(p) /\ Emptied(p)
Displayed == screen \o StillToShow = toShow

OInv == OutputTypes /\ Devices /\ Displayed

-----------------------------------------------------------------------------
(* Sequences of characters *)

LEMMA Spaces == FiveSpaces \in Seq(Chars) /\ FiveSpaces # <<>> /\ FiveSpaces # <<TAB>>
<1>1. FiveSpaces \in Seq(Chars) /\ Len(FiveSpaces) = 5
  BY CharsAssumption DEF FiveSpaces
<1>2. Len(<<>>) = 0 /\ Len(<<TAB>>) = 1
  OBVIOUS
<1> QED
  BY <1>1, <1>2

LEMMA OneCharacter ==
  ASSUME NEW c \in Text
  PROVE  /\ <<c>> \in Outputs /\ <<c>> \in Seq(Text)
         /\ WholeText(<<c>>) = Printed(c)
         /\ (IF <<c>> = <<TAB>> THEN FiveSpaces ELSE <<c>>) = Shown(c)
<1>1. <<c>> = <<TAB>> <=> c = TAB
  OBVIOUS
<1>2. <<c>> \in Outputs /\ <<c>> \in Seq(Text)
  <2>1. c # TAB => <<c>> \in Seq(Chars) /\ <<c>> # <<>>
    BY DEF Text
  <2> QED
    BY <2>1 DEF Outputs
<1> QED
  BY <1>1, <1>2 DEF WholeText, Printed, Shown

(* The first character and what follows it *)
LEMMA HeadAndRest ==
  ASSUME NEW s \in Outputs
  PROVE  /\ s \in Seq(Text) /\ Head(s) \in Text
         /\ WholeText(s) = <<Head(s)>> \o Rest(s)
         /\ Rest(s) \in Seq(Chars) /\ Rest(s) \in Seq(Text)
         /\ Head(s) = TAB <=> s = <<TAB>>
<1>1. CASE s = <<TAB>>
  <2>1. s \in Seq(Text) /\ Head(s) = TAB
    BY <1>1 DEF Text
  <2> QED
    BY <1>1, <2>1, Spaces DEF WholeText, Rest, Text
<1>2. CASE s # <<TAB>>
  <2>1. s \in Seq(Chars) /\ s # <<>>
    BY <1>2 DEF Outputs
  <2>2. Head(s) \in Chars /\ Tail(s) \in Seq(Chars) /\ s = <<Head(s)>> \o Tail(s)
    BY <2>1, HeadTailProperties
  <2>3. Head(s) # TAB
    BY <2>2, CharsAssumption
  <2> QED
    BY <1>2, <2>1, <2>2, <2>3 DEF WholeText, Rest, Text
<1> QED
  BY <1>1, <1>2

LEMMA OneMore ==
  ASSUME NEW r \in Seq(Text), NEW s \in Outputs
  PROVE  (r \o <<Head(s)>>) \o Rest(s) = r \o WholeText(s)
<1> DEFINE h == <<Head(s)>>
           t == Rest(s)
<1>1. h \in Seq(Text) /\ t \in Seq(Text) /\ WholeText(s) = h \o t
  BY HeadAndRest
<1> HIDE DEF h, t
<1>2. (r \o h) \o t = r \o (h \o t)
  BY <1>1, ConcatAssociative
<1> QED
  BY <1>1, <1>2 DEF h, t

LEMMA RestEndsTab ==
  ASSUME NEW s \in Outputs, Tail(s) # <<>>
  PROVE  s # <<TAB>> /\ Tail(s) \in Outputs
<1>1. s # <<TAB>>
  <2>1. Tail(<<TAB>>) = <<>>
    OBVIOUS
  <2> QED
    BY <2>1, Zenon
<1> QED
  BY <1>1, HeadAndRest DEF Outputs, Rest

-----------------------------------------------------------------------------
(* The steps *)

LEMMA InitOInv == OutputInit => OInv
<1> SUFFICES ASSUME OutputInit PROVE OInv
  OBVIOUS
<1>1. <<>> \in Seq(Text) /\ <<>> \o <<>> = <<>> /\ (<<>> \o <<>>) \o <<>> = <<>>
  BY EmptySeq, ConcatEmptySeq
<1>2. OutputTypes
  BY <1>1 DEF OutputInit, OutputTypes, Ports, Busy
<1> QED
  BY <1>1, <1>2 DEF OutputInit, OInv, Devices, Device, Emptied, Displayed, ToCome, StillToShow, Ports

LEMMA CputcharStep == ASSUME OInv, NEW c \in Text, Cputchar(c) PROVE OInv'
<1>1. /\ pc = "idle" /\ pc' = "poll" /\ port' = "serial" /\ out' = <<c>>
      /\ due' = due \o Printed(c) /\ toShow' = toShow \o Shown(c)
      /\ present' = present /\ register' = register /\ received' = received
      /\ screen' = screen /\ gaveUp' = gaveUp
  BY DEF Cputchar, Begin
<1>2. /\ <<c>> \in Outputs /\ <<c>> \in Seq(Text) /\ WholeText(<<c>>) = Printed(c)
      /\ (IF <<c>> = <<TAB>> THEN FiveSpaces ELSE <<c>>) = Shown(c)
  BY OneCharacter
<1>3. OutputTypes'
  BY <1>1, <1>2 DEF OInv, OutputTypes, Ports, Busy
<1>4. Displayed'
  <2>1. screen \o <<>> = toShow /\ screen \o <<>> = screen
    BY <1>1, ConcatEmptySeq DEF OInv, OutputTypes, Displayed, StillToShow
  <2>2. StillToShow' = Shown(c)
    BY <1>1, <1>2 DEF StillToShow
  <2> QED
    BY <1>1, <2>1, <2>2 DEF Displayed
<1>5. ASSUME NEW p \in present \ gaveUp PROVE Device(p)' /\ Emptied(p)'
  <2>1. ToCome(p)' = Printed(c)
    BY <1>1, <1>2 DEF ToCome, Unwritten
  <2>2. received[p] \o register[p] \in Seq(Text)
    BY <1>5, ConcatProperties DEF OInv, OutputTypes
  <2>3. received[p] \o register[p] = due
    BY <1>1, <1>5, <2>2, ConcatEmptySeq DEF OInv, Devices, Device, ToCome
  <2> QED
    BY <1>1, <2>1, <2>3 DEF Device, Emptied
<1> QED
  BY <1>1, <1>3, <1>4, <1>5 DEF OInv, Devices

LEMMA PollStep == ASSUME OInv, NEW p \in Ports, Poll(p) PROVE OInv'
<1>1. /\ pc = "poll" /\ port = p /\ pc' \in {"poll", "write"} /\ port' = port /\ out' = out
      /\ due' = due /\ toShow' = toShow /\ present' = present /\ register' = register
      /\ received' = received /\ screen' = screen /\ gaveUp \subseteq gaveUp'
  BY DEF Poll, printed
<1>2. OutputTypes'
  BY <1>1 DEF OInv, OutputTypes, Busy
<1>3. Displayed'
  BY <1>1 DEF OInv, Displayed, StillToShow
<1>4. ASSUME NEW q \in present' \ gaveUp' PROVE Device(q)' /\ Emptied(q)'
  <2>1. q \in present \ gaveUp
    BY <1>1
  <2>2. ToCome(q)' = ToCome(q)
    BY <1>1 DEF ToCome, Unwritten
  <2>3. Device(q)'
    BY <1>1, <2>1, <2>2 DEF OInv, Devices, Device
  <2>4. pc' = "write" /\ port' = q => register[q] = <<>>
    BY <1>1, <1>4 DEF Poll, Ready
  <2> QED
    BY <1>1, <2>3, <2>4 DEF Emptied
<1> QED
  BY <1>2, <1>3, <1>4 DEF OInv, Devices

LEMMA WriteStep == ASSUME OInv, NEW p \in Ports, Write(p) PROVE OInv'
<1>1. /\ pc = "write" /\ port = p /\ out' = out
      /\ IF p = "serial" THEN pc' = "poll" /\ port' = "lpt" ELSE pc' = "cga" /\ port' = "lpt"
      /\ due' = due /\ toShow' = toShow /\ present' = present
      /\ received' = received /\ screen' = screen /\ gaveUp' = gaveUp
      /\ \A q \in Ports : register'[q] = IF q = p /\ p \in present THEN <<Head(out)>> ELSE register[q]
  BY DEF Write, printed, Ports, OInv, OutputTypes
<1>2. out \in Outputs
  BY <1>1 DEF OInv, OutputTypes, Busy
<1>3. /\ Head(out) \in Text /\ WholeText(out) = <<Head(out)>> \o Rest(out)
      /\ Rest(out) \in Seq(Text) /\ <<Head(out)>> \in Seq(Text)
  BY <1>2, HeadAndRest
<1>4. OutputTypes'
  <2>1. register' \in [Ports -> Seq(Text)]
    BY <1>3 DEF Write, OInv, OutputTypes
  <2> QED
    BY <1>1, <1>2, <2>1 DEF OInv, OutputTypes, Busy, Ports
<1>5. Displayed'
  BY <1>1 DEF OInv, Displayed, StillToShow
<1>6. ASSUME NEW q \in present \ gaveUp PROVE Device(q)' /\ Emptied(q)'
  <2>1. q \in Ports /\ register[q] \in Seq(Text) /\ received[q] \in Seq(Text)
    BY DEF OInv, OutputTypes
  <2>2. CASE q = p
    <3>1. register[q] = <<>> /\ register'[q] = <<Head(out)>>
      BY <1>1, <1>6, <2>2 DEF OInv, Devices, Emptied
    <3>2. ToCome(q) = WholeText(out) /\ ToCome(q)' = Rest(out)
      BY <1>1, <2>2 DEF ToCome, Unwritten, Ports
    <3>3. (received[q] \o <<Head(out)>>) \o Rest(out) = received[q] \o WholeText(out)
      BY <1>2, <2>1, OneMore
    <3>4. received[q] \o <<>> = received[q]
      BY <2>1, ConcatEmptySeq
    <3>5. (received[q] \o <<>>) \o WholeText(out) = due
      BY <1>6, <3>1, <3>2 DEF OInv, Devices, Device
    <3> QED
      BY <1>1, <2>2, <3>1, <3>2, <3>3, <3>4, <3>5 DEF Device, Emptied
  <2>3. CASE q # p
    <3>1. register'[q] = register[q]
      BY <1>1, <2>1, <2>3
    <3>2. ToCome(q)' = ToCome(q)
      BY <1>1, <2>1, <2>3 DEF ToCome, Unwritten, Ports
    <3> QED
      BY <1>1, <1>6, <3>1, <3>2 DEF OInv, Devices, Device, Emptied
  <2> QED
    BY <2>2, <2>3
<1> QED
  BY <1>1, <1>4, <1>5, <1>6 DEF OInv, Devices

(* The display's turn, with c the character it is given: what each device  *)
(* still gets, and what is still to be shown, is what is output next.      *)
LEMMA CgaTurn ==
  ASSUME OInv, Cga
  PROVE  /\ pc = "cga" /\ port = "lpt" /\ pc' \in {"idle", "poll"}
         /\ pc' = "idle" \/ (port' = "serial" /\ out' \in Outputs)
         /\ pc' = "idle" => port' = "lpt" /\ Rest(out) = <<>>
         /\ pc' # "idle" => WholeText(out') = Rest(out) /\ out' # <<TAB>> /\ out' = Rest(out)
         /\ out \in Outputs
         /\ screen' = IF out = <<TAB>> THEN screen ELSE Append(screen, Head(out))
<1>1. pc = "cga" /\ out \in Outputs /\ port = "lpt"
  BY DEF Cga, OInv, OutputTypes, Busy
<1>2. Head(out) = TAB <=> out = <<TAB>>
  BY <1>1, HeadAndRest
<1>3. CASE out = <<TAB>>
  <2>1. FiveSpaces \o Tail(out) = FiveSpaces
    <3>1. Tail(out) = <<>>
      BY <1>3
    <3> QED
      BY <3>1, Spaces, ConcatEmptySeq
  <2>2. screen' = screen /\ Continue(FiveSpaces)
    BY <1>2, <1>3, <2>1 DEF Cga
  <2>3. out' = FiveSpaces /\ pc' = "poll" /\ port' = "serial"
    BY <2>2, Spaces DEF Continue, Begin
  <2> QED
    BY <1>1, <1>3, <2>2, <2>3, Spaces DEF WholeText, Rest, Outputs
<1>4. CASE out # <<TAB>>
  <2>1. screen' = Append(screen, Head(out)) /\ Continue(Tail(out)) /\ Rest(out) = Tail(out)
    BY <1>2, <1>4 DEF Cga, Rest
  <2>2. CASE Tail(out) = <<>>
    <3>1. pc' = "idle" /\ port' = port
      BY <2>1, <2>2 DEF Continue
    <3> QED
      BY <1>1, <1>4, <2>1, <2>2, <3>1
  <2>3. CASE Tail(out) # <<>>
    <3>1. out' = Tail(out) /\ pc' = "poll" /\ port' = "serial"
      BY <2>1, <2>3 DEF Continue, Begin
    <3>2. Tail(out) \in Outputs /\ Tail(out) \in Seq(Chars)
      BY <1>1, <2>1, <2>3, RestEndsTab, HeadAndRest
    <3>3. Tail(out) # <<TAB>>
      <4>1. <<TAB>> \notin Seq(Chars)
        BY CharsAssumption, ElementOfSeq
      <4> QED
        BY <3>2, <4>1
    <3> QED
      BY <1>1, <1>4, <2>1, <3>1, <3>2, <3>3 DEF WholeText
  <2> QED
    BY <2>2, <2>3
<1> QED
  BY <1>3, <1>4

LEMMA CgaStep == ASSUME OInv, Cga PROVE OInv'
<1>1. /\ pc = "cga" /\ port = "lpt" /\ pc' \in {"idle", "poll"}
      /\ pc' = "idle" \/ (port' = "serial" /\ out' \in Outputs)
      /\ pc' = "idle" => port' = "lpt" /\ Rest(out) = <<>>
      /\ pc' # "idle" => WholeText(out') = Rest(out) /\ out' # <<TAB>> /\ out' = Rest(out)
      /\ out \in Outputs
      /\ screen' = IF out = <<TAB>> THEN screen ELSE Append(screen, Head(out))
  BY CgaTurn
<1>2. /\ due' = due /\ toShow' = toShow /\ present' = present /\ register' = register
      /\ received' = received /\ gaveUp' = gaveUp
  BY DEF Cga, printed
<1>3. /\ out \in Seq(Text) /\ Head(out) \in Text /\ <<Head(out)>> \in Seq(Text)
      /\ WholeText(out) = <<Head(out)>> \o Rest(out) /\ Rest(out) \in Seq(Text)
  BY <1>1, HeadAndRest
<1>4. Append(screen, Head(out)) = screen \o <<Head(out)>> /\ Append(screen, Head(out)) \in Seq(Text)
  <2>1. screen \in Seq(Text)
    BY DEF OInv, OutputTypes
  <2> QED
    BY <1>3, <2>1, AppendProperties, AppendIsConcat
<1>5. OutputTypes'
  BY <1>1, <1>2, <1>4 DEF OInv, OutputTypes, Busy, Ports
<1>6. StillToShow' = Rest(out)
  BY <1>1 DEF StillToShow
<1>7. Displayed'
  <2>1. CASE out = <<TAB>>
    BY <1>1, <1>2, <1>6, <2>1 DEF OInv, Displayed, StillToShow, Rest
  <2>2. CASE out # <<TAB>>
    <3>1. out = <<Head(out)>> \o Rest(out)
      BY <1>3, <2>2 DEF WholeText
    <3>2. screen \o out = toShow
      BY <1>1, <2>2 DEF OInv, Displayed, StillToShow
    <3>3. (screen \o <<Head(out)>>) \o Rest(out) = screen \o (<<Head(out)>> \o Rest(out))
      <4>1. screen \in Seq(Text)
        BY DEF OInv, OutputTypes
      <4> QED
        BY <1>3, <4>1, ConcatAssociative
    <3>4. screen' = screen \o <<Head(out)>>
      BY <1>1, <1>4, <2>2
    <3> QED
      BY <1>2, <1>6, <3>1, <3>2, <3>3, <3>4 DEF Displayed
  <2> QED
    BY <2>1, <2>2
<1>8. ASSUME NEW p \in present \ gaveUp PROVE Device(p)' /\ Emptied(p)'
  <2>1. ToCome(p) = Rest(out) /\ ToCome(p)' = Rest(out)
    BY <1>1 DEF ToCome, Unwritten
  <2> QED
    BY <1>1, <1>2, <1>8, <2>1 DEF OInv, Devices, Device, Emptied
<1> QED
  BY <1>2, <1>5, <1>7, <1>8 DEF OInv, Devices

LEMMA TakeStep == ASSUME OInv, NEW p \in Ports, Take(p) PROVE OInv'
<1>1. /\ pc' = pc /\ port' = port /\ out' = out /\ due' = due /\ toShow' = toShow
      /\ present' = present /\ screen' = screen /\ gaveUp' = gaveUp
      /\ \A q \in Ports : /\ received'[q] = IF q = p THEN received[p] \o register[p] ELSE received[q]
                          /\ register'[q] = IF q = p THEN <<>> ELSE register[q]
  BY DEF Take, printed, OInv, OutputTypes
<1>2. OutputTypes'
  <2>1. <<>> \in Seq(Text) /\ received[p] \o register[p] \in Seq(Text)
    BY EmptySeq, ConcatProperties DEF OInv, OutputTypes
  <2>2. received' \in [Ports -> Seq(Text)] /\ register' \in [Ports -> Seq(Text)]
    BY <2>1 DEF Take, OInv, OutputTypes
  <2> QED
    BY <1>1, <2>2 DEF OInv, OutputTypes, Busy
<1>3. Displayed'
  BY <1>1 DEF OInv, Displayed, StillToShow
<1>4. ASSUME NEW q \in present \ gaveUp PROVE Device(q)' /\ Emptied(q)'
  <2>1. q \in Ports /\ ToCome(q)' = ToCome(q)
    BY <1>1 DEF OInv, OutputTypes, ToCome, Unwritten
  <2>2. received'[q] \o register'[q] = received[q] \o register[q]
    <3>1. received[q] \o register[q] \in Seq(Text)
      BY <2>1, ConcatProperties DEF OInv, OutputTypes
    <3>2. (received[q] \o register[q]) \o <<>> = received[q] \o register[q]
      BY <3>1, ConcatEmptySeq
    <3> QED
      BY <1>1, <2>1, <3>2
  <2>3. Emptied(q)'
    BY <1>1, <1>4, <2>1 DEF OInv, Devices, Emptied
  <2> QED
    BY <1>1, <1>4, <2>1, <2>2, <2>3 DEF OInv, Devices, Device
<1> QED
  BY <1>1, <1>2, <1>3, <1>4 DEF OInv, Devices

LEMMA StutterStep == ASSUME OInv, UNCHANGED outputVars PROVE OInv'
BY DEF OInv, OutputTypes, Busy, Devices, Device, Emptied, Displayed, ToCome, Unwritten,
       StillToShow, outputVars, printed

LEMMA NextOInv == OInv /\ [OutputNext]_outputVars => OInv'
<1> SUFFICES ASSUME OInv, [OutputNext]_outputVars PROVE OInv'
  OBVIOUS
<1> QED
  BY CputcharStep, PollStep, WriteStep, CgaStep, TakeStep, StutterStep DEF OutputNext, ConsPutc, Text

(***************************************************************************)
(* For texts of any length and every LIMIT: between calls the display has  *)
(* shown everything, and what a device was not given up on has reached it, *)
(* once and in order.                                                      *)
(***************************************************************************)
THEOREM PrintsEverything == OutputSpec => []EverythingPrinted
<1>1. OInv => EverythingPrinted
  <2> SUFFICES ASSUME OInv, pc = "idle"
               PROVE  screen = toShow /\ \A p \in present \ gaveUp : received[p] \o register[p] = due
    BY DEF EverythingPrinted
  <2>1. screen = toShow
    BY ConcatEmptySeq DEF OInv, OutputTypes, Displayed, StillToShow
  <2>2. ASSUME NEW p \in present \ gaveUp PROVE received[p] \o register[p] = due
    <3>1. received[p] \o register[p] \in Seq(Text)
      BY <2>2, ConcatProperties DEF OInv, OutputTypes
    <3> QED
      BY <2>2, <3>1, ConcatEmptySeq DEF OInv, Devices, Device, ToCome
  <2> QED
    BY <2>1, <2>2
<1> QED
  BY InitOInv, NextOInv, <1>1, PTL DEF OutputSpec
=============================================================================
