------------------------------ MODULE Directives ------------------------------
(***************************************************************************)
(* What a caller of printf means: a format is a sequence of directives,    *)
(* each with its own arguments, and what is printed is what they mean one  *)
(* after the other.  Nothing is carried over from one to the next.         *)
(* Three meanings are the code's and not its comments': a string padded to *)
(* a width, a number padded by -, and %o; see MCDocumentedFormats.         *)
(*                                                                         *)
(* A character is a string of its own ("bell" is an unprintable one); a    *)
(* text whose letters do not matter is a single character.                 *)
(***************************************************************************)
EXTENDS Integers, Sequences

CONSTANTS
  Characters,   \* of formats, strings and messages
  Word,         \* number of values of an unsigned int
  Strings,      \* the strings in memory: a pointer is an index, 0 is NULL
  Glyph,        \* the character of every code
  Messages      \* the text of every error code that has one

NUL == "nul"
Decimals == {"0", "1", "2", "3", "4", "5", "6", "7", "8", "9"}
DigitChar ==
  <<"0", "1", "2", "3", "4", "5", "6", "7", "8", "9", "a", "b", "c", "d", "e", "f">>

(* A word holds every digit; what printfmt.c prints of itself consists of characters. *)
ASSUME WordAssumption == Word \in Nat /\ Word >= 16
ASSUME TextAssumption ==
  /\ Decimals \cup {"a", "b", "c", "d", "e", "f", " ", "-", "%", "X", "x", "?"} \subseteq Characters
  /\ {"(", "n", "u", "l", ")", "error ", NUL} \subseteq Characters
  /\ Strings \in Seq(Seq(Characters))
  /\ Glyph \in [0 .. Word - 1 -> Characters]
  /\ Messages \in [DOMAIN Messages -> Characters] /\ DOMAIN Messages \subseteq Nat

Signed(n, w) == IF 2 * n < w THEN n ELSE n - w
Unprintable == {"bell"}
Copies(c, n) == [k \in 1 .. (IF n > 0 THEN n ELSE 0) |-> c]

(***************************************************************************)
(* A directive: its conversion, padding flag, width and precision (written *)
(* as text, in words of the argument list, with their value, -1 if absent),*)
(* the l's of its length, and the words of its argument.  "plain" is text  *)
(* without a %, "end" the end of the format inside a directive.            *)
(***************************************************************************)
Text(d) ==
  IF d.conv = "plain" THEN d.pad
  ELSE <<"%">> \o d.pad \o d.width.text \o d.precision.text \o d.long
       \o (IF d.conv = "end" THEN <<>> ELSE <<d.conv>>)
Words(d) == d.width.words \o d.precision.words \o d.arg

Integer(d) == IF Len(d.arg) = 2 THEN d.arg[1] + Word * d.arg[2] ELSE d.arg[1]
Value(d) == IF d.conv = "d" THEN Signed(Integer(d), IF Len(d.arg) = 2 THEN Word * Word ELSE Word)
                            ELSE Integer(d)
Magnitude(n) == IF n < 0 THEN -n ELSE n

(* the shortest numeral, by its value *)
PowersOf(base) == LET power[k \in Nat] == IF k = 0 THEN 1 ELSE base * power[k - 1] IN power
Places(n, base) ==
  CHOOSE k \in 1 .. n + 1 : PowersOf(base)[k] > n /\ \A j \in 1 .. k - 1 : PowersOf(base)[j] <= n
Numeral(n, base) ==
  LET size == Places(n, base)
  IN [k \in 1 .. size |-> DigitChar[((n \div PowersOf(base)[size - k]) % base) + 1]]

(***************************************************************************)
(* The last of the flags for padding counts.  A 0 behind the point is taken*)
(* for one (printfmt.c:113).                                               *)
(***************************************************************************)
PadFlags == {"-", "0"}
LastPad(flags) ==
  LET pads == {k \in 1 .. Len(flags) : flags[k] \in PadFlags}
  IN IF pads = {} THEN " " ELSE flags[CHOOSE k \in pads : \A j \in pads : j <= k]
Filler(d) == IF d.precision.text = <<".", "0">> THEN "0" ELSE LastPad(d.pad)
Alternate(flags) == \E k \in 1 .. Len(flags) : flags[k] = "#"
Padding(text, d) == Copies(Filler(d), d.width.value - Len(text))

(* a number: the sign stands before the field, outside its width *)
Number(d, base) ==
  LET numeral == Numeral(Magnitude(Value(d)), base)
  IN (IF Value(d) < 0 THEN <<"-">> ELSE <<>>) \o Padding(numeral, d) \o numeral

(* a string: cut to the precision, then padded on the left or, with -, on the right *)
Shown(d) ==
  LET whole == IF d.arg[1] = 0 THEN <<"(", "n", "u", "l", "l", ")">> ELSE Strings[d.arg[1]]
      cut == 0 <= d.precision.value /\ d.precision.value < Len(whole)
  IN [k \in 1 .. (IF cut THEN d.precision.value ELSE Len(whole)) |->
        IF Alternate(d.pad) /\ whole[k] \in Unprintable THEN "?" ELSE whole[k]]
Field(d) ==
  IF Filler(d) = "-" THEN Shown(d) \o Copies(" ", d.width.value - Len(Shown(d)))
                     ELSE Padding(Shown(d), d) \o Shown(d)

(* An error code means the same with either sign (printfmt.c:15). *)
ErrorMeans(d) ==
  LET code == Magnitude(Signed(d.arg[1], Word))
  IN IF code \in DOMAIN Messages THEN <<Messages[code]>> ELSE <<"error ">> \o Numeral(code, 10)

Meaning(d) ==
  CASE d.conv \in {"d", "u"} -> Number(d, 10)
    [] d.conv = "x" -> Number(d, 16)
    [] d.conv = "p" -> <<"0", "x">> \o Number(d, 16)
    [] d.conv = "o" -> <<"X", "X", "X">>
    [] d.conv = "s" -> Field(d)
    [] d.conv = "c" -> <<Glyph[d.arg[1]]>>
    [] d.conv = "e" -> ErrorMeans(d)
    [] d.conv = "%" -> <<"%">>
    [] OTHER -> Text(d)                  \* not a conversion: printed as it stands

(* texts one after the other, as many as are asked for *)
Joined(s) == LET first[k \in 0 .. Len(s)] == IF k = 0 THEN <<>> ELSE first[k - 1] \o s[k] IN first
Concat(F(_), ds) == Joined([k \in 1 .. Len(ds) |-> F(ds[k])])[Len(ds)]

-----------------------------------------------------------------------------
(***************************************************************************)
(* What a caller may write.  A width or precision is a numeral or a *, and *)
(* an argument is of the type its conversion takes.  A letter that is no   *)
(* conversion may stand in the place of one.                               *)
(***************************************************************************)
Modifiers == {"-", ".", "#", "l", "*"}
Integral == {"d", "u", "x"}
Quantity == [text : Seq(Characters), words : Seq(0 .. Word - 1), value : Int]
Directive ==
  [conv : Characters \cup {"plain", "end"}, pad : Seq(Characters), long : Seq(Characters),
   width : Quantity, precision : Quantity, arg : Seq(0 .. Word - 1)]

Digit(c) == CHOOSE n \in 0 .. 9 : DigitChar[n + 1] = c
DecimalValue(text) ==
  LET value[k \in 0 .. Len(text)] == IF k = 0 THEN 0 ELSE value[k - 1] * 10 + Digit(text[k])
  IN value[Len(text)]

Absent == [text |-> <<>>, words |-> <<>>, value |-> -1]
IsNumber(n) ==
  \/ /\ n.text # <<>> /\ n.text \in Seq(Decimals) /\ n.text[1] # "0" /\ n.words = <<>>
     /\ n.value = DecimalValue(n.text)
  \/ n.text = <<"*">> /\ Len(n.words) = 1 /\ n.value = Signed(n.words[1], Word)
IsPrecision(n) ==
  \/ n.text \in {<<".">>, <<".", "0">>} /\ n.words = <<>> /\ n.value = -1
  \/ n.text # <<>> /\ n.text[1] = "." /\ IsNumber([n EXCEPT !.text = Tail(@)])
ArgumentFits(d) ==
  /\ Len(d.arg) = IF d.conv \in Integral /\ Len(d.long) >= 2 THEN 2
                  ELSE IF d.conv \in Integral \cup {"c", "e", "p", "s"} THEN 1 ELSE 0
  /\ d.conv = "s" => d.arg[1] <= Len(Strings)
WellFormed(d) ==
  /\ d \in Directive
  /\ IF d.conv = "plain"
       THEN /\ d.pad # <<>> /\ \A k \in 1 .. Len(d.pad) : d.pad[k] \notin {"%", NUL}
            /\ d.width = Absent /\ d.precision = Absent /\ d.long = <<>> /\ d.arg = <<>>
       ELSE /\ d.conv \notin Modifiers \cup Decimals \cup {NUL}
            /\ d.pad \in Seq(PadFlags \cup {"#"}) /\ d.long \in Seq({"l"})
            /\ d.width = Absent \/ IsNumber(d.width)
            /\ d.precision = Absent \/ IsPrecision(d.precision)
            /\ ArgumentFits(d)
=============================================================================
