------------------------------- MODULE Printfmt -------------------------------
(***************************************************************************)
(* vprintfmt (lib/printfmt.c), which scans a format character by character *)
(* and takes the arguments from the list as it meets their conversions,    *)
(* with its two sinks: the bounded buffer of vsnprintf and the console of  *)
(* vcprintf (kern/printf.c).  One step per character of the format, but    *)
(* for the digits of a number.                                             *)
(***************************************************************************)
EXTENDS Directives

CONSTANTS Calls,     \* sequences of directives a caller passes
          Sinks      \* where to: the console, or a buffer (or NULL) with its size

MAXERROR == 7
Console == [kind |-> "console", size |-> 0]

(* error_string has MAXERROR entries; a format may end inside its last directive *)
ASSUME MessagesAssumption == DOMAIN Messages \subseteq 0 .. MAXERROR - 1
ASSUME CallsAssumption ==
  \A c \in Calls :
    /\ c \in Seq(Directive)
    /\ \A k \in 1 .. Len(c) : WellFormed(c[k]) /\ (c[k].conv = "end" => k = Len(c))
ASSUME SinksAssumption == Sinks \subseteq {Console} \cup [kind : {"buffer", "null"}, size : Int]

VARIABLES
  call, sink,        \* what the caller passes ...
  fmt,               \* ... and its format
  pos,               \* fmt, counted from the start of the format
  ap,                \* the words of the argument list not yet taken
  esc,               \* padc, width, precision, lflag, altflag
  out,               \* the characters given to putch
  buf,               \* sprintbuf: what has been stored
  ret,               \* what vsnprintf or vcprintf returns
  pc                 \* "text", "escape", "done", "wild" (read outside error_string)

given == <<call, sink, fmt>>
vars == <<given, pos, ap, esc, out, buf, ret, pc>>

Ch == fmt[pos]

Fresh == [padc |-> " ", width |-> -1, precision |-> -1, lflag |-> 0, altflag |-> FALSE]

Called ==
  /\ call \in Calls
  /\ sink \in Sinks
  /\ fmt = Append(Concat(Text, call), NUL)
  /\ pos = 1
  /\ esc = Fresh
  /\ out = <<>> /\ buf = <<>> /\ ret = 0
  /\ pc = "text"
Init == Called /\ ap = Concat(Words, call)

(* sprintputch once for every character; cputchar for the console *)
EbufLate == sink.size                  \* faulty variant: no room for the 0
Ebuf == sink.size - 1
Putch(s) ==
  /\ out' = out \o s
  /\ buf' = IF sink = Console \/ Len(buf) >= Ebuf THEN buf
            ELSE LET room == Ebuf - Len(buf)
                 IN buf \o SubSeq(s, 1, IF Len(s) < room THEN Len(s) ELSE room)

(* vsnprintf refuses NULL, and a buffer that cannot hold the 0 (-E_INVAL) *)
Accepted == sink = Console \/ (sink.kind = "buffer" /\ sink.size >= 1)
Refuse ==
  /\ pc = "text" /\ pos = 1 /\ ~Accepted
  /\ ret' = -3
  /\ pc' = "done"
  /\ UNCHANGED <<given, pos, ap, esc, out, buf>>

Scanning(state) == pc = state /\ Accepted
Step(next) == pos' = pos + 1 /\ pc' = next /\ UNCHANGED <<given, ret>>

PlainText ==
  /\ Scanning("text") /\ Ch \notin {"%", NUL}
  /\ Putch(<<Ch>>)
  /\ Step("text")
  /\ UNCHANGED <<ap, esc>>

(* cnt of vcprintf stays 0: printf.c:13 increments the pointer to it *)
Return ==
  /\ Scanning("text") /\ Ch = NUL
  /\ buf' = IF sink = Console THEN buf ELSE Append(buf, NUL)
  /\ ret' = IF sink = Console THEN 0 ELSE Len(out)
  /\ pc' = "done"
  /\ UNCHANGED <<given, pos, ap, esc, out>>

EscapeKeeps ==                         \* faulty variant: the precision survives
  /\ Scanning("text") /\ Ch = "%"
  /\ esc' = [Fresh EXCEPT !.precision = esc.precision]
  /\ Step("escape")
  /\ UNCHANGED <<ap, out, buf>>

Escape ==
  /\ Scanning("text") /\ Ch = "%"
  /\ esc' = Fresh
  /\ Step("escape")
  /\ UNCHANGED <<ap, out, buf>>

Flag ==
  /\ Scanning("escape")
  /\ \/ Ch \in PadFlags /\ esc' = [esc EXCEPT !.padc = Ch]
     \/ Ch = "." /\ esc' = [esc EXCEPT !.width = IF @ < 0 THEN 0 ELSE @]
     \/ Ch = "#" /\ esc' = [esc EXCEPT !.altflag = TRUE]
     \/ Ch = "l" /\ esc' = [esc EXCEPT !.lflag = @ + 1]
  /\ Step("escape")
  /\ UNCHANGED <<ap, out, buf>>

(* process_precision: the first number is the width, later ones the precision *)
ProcessPrecision(n) ==
  [esc EXCEPT !.width = IF @ < 0 THEN n ELSE @,
              !.precision = IF esc.width < 0 THEN -1 ELSE n]

IsDigit(c) == c \in Decimals
Digits ==
  /\ Scanning("escape") /\ IsDigit(Ch) /\ Ch # "0"
  /\ \E end \in pos .. Len(fmt) - 1 :
       /\ \A k \in pos .. end : IsDigit(fmt[k])
       /\ ~IsDigit(fmt[end + 1])
       /\ esc' = ProcessPrecision(DecimalValue(SubSeq(fmt, pos, end)))
       /\ pos' = end + 1
  /\ UNCHANGED <<given, ap, out, buf, ret, pc>>

Star ==
  /\ Scanning("escape") /\ Ch = "*"
  /\ esc' = ProcessPrecision(Signed(ap[1], Word))
  /\ ap' = Tail(ap)
  /\ Step("escape")
  /\ UNCHANGED <<out, buf>>

(* printnum: the digits of higher value first, by recursion, the padding before them all *)
Printnum(n0, base, w0, padc) ==
  LET print[n \in Nat] == [w \in Int |->
        (IF n >= base THEN print[n \div base][w - 1] ELSE Copies(padc, w - 1))
        \o <<DigitChar[(n % base) + 1]>>]
  IN print[n0][w0]

(* va_arg for an int, long (both one word) or long long (two) *)
ArgWords == IF esc.lflag >= 2 THEN 2 ELSE 1
Getuint == IF ArgWords = 2 THEN ap[1] + Word * ap[2] ELSE ap[1]
Getint == Signed(Getuint, IF ArgWords = 2 THEN Word * Word ELSE Word)

Converted(text, words) ==
  /\ Putch(text)
  /\ ap' = SubSeq(ap, words + 1, Len(ap))
  /\ Step("text")
  /\ UNCHANGED esc

Character == /\ Scanning("escape") /\ Ch = "c"
             /\ Converted(<<Glyph[ap[1]]>>, 1)
DecimalText(n, width, padc) ==
  (IF n < 0 THEN <<"-">> ELSE <<>>) \o Printnum(Magnitude(n), 10, width, padc)
Decimal ==
  /\ Scanning("escape") /\ Ch = "d"
  /\ Converted(DecimalText(Getint, esc.width, esc.padc), ArgWords)
Unsigned ==
  /\ Scanning("escape") /\ Ch \in {"u", "x"}
  /\ Converted(Printnum(Getuint, IF Ch = "u" THEN 10 ELSE 16, esc.width, esc.padc), ArgWords)
Octal == /\ Scanning("escape") /\ Ch = "o"
         /\ Converted(<<"X", "X", "X">>, 0)
Pointer ==
  /\ Scanning("escape") /\ Ch = "p"
  /\ Converted(<<"0", "x">> \o Printnum(ap[1], 16, esc.width, esc.padc), 1)
Percent == /\ Scanning("escape") /\ Ch = "%"
           /\ Converted(<<"%">>, 0)

(***************************************************************************)
(* -err overflows for the smallest int: it stays negative and indexes      *)
(* error_string, or the compiler, for which it cannot, has dropped the     *)
(* sign and the bound applies.                                             *)
(***************************************************************************)
Negations(err) == IF 2 * err = -Word THEN {err, -err} ELSE {Magnitude(err)}
ErrorString(err) == IF err \in DOMAIN Messages THEN <<Messages[err]>> ELSE <<>>   \* <<>>: NULL

BoundLate == MAXERROR + 1              \* faulty variant: > for >=
Bound == MAXERROR
ErrorText ==
  /\ Scanning("escape") /\ Ch = "e"
  /\ \E err \in Negations(Signed(ap[1], Word)) :
       /\ err >= Bound \/ err \in 0 .. MAXERROR - 1
       /\ Converted(IF err >= Bound \/ ErrorString(err) = <<>>
                      THEN <<"error ">> \o DecimalText(Signed(err, Word), -1, " ")
                      ELSE ErrorString(err), 1)
ErrorWild ==
  /\ Scanning("escape") /\ Ch = "e"
  /\ \E err \in Negations(Signed(ap[1], Word)) : err < Bound /\ err \notin 0 .. MAXERROR - 1
  /\ pc' = "wild"
  /\ UNCHANGED <<given, pos, ap, esc, out, buf, ret>>

(***************************************************************************)
(* %s: the three loops of lines 178-187.  width counts down through all of *)
(* them; a precision of -1 is no limit to strnlen, whose size_t it becomes.*)
(***************************************************************************)
Strnlen(s, n) == IF n < 0 \/ Len(s) < n THEN Len(s) ELSE n
StringText(s) ==
  LET left == esc.width > 0 /\ esc.padc # "-"
      n == Strnlen(s, esc.precision)
      before == IF left THEN Copies(esc.padc, esc.width - n) ELSE <<>>
      width == IF left /\ n < esc.width THEN 0 ELSE IF left THEN esc.width - n ELSE esc.width
      chars == [k \in 1 .. n |-> IF esc.altflag /\ s[k] \in Unprintable THEN "?" ELSE s[k]]
  IN before \o chars \o Copies(" ", width - n)
String ==
  /\ Scanning("escape") /\ Ch = "s"
  /\ LET s == IF ap[1] = 0 THEN <<"(", "n", "u", "l", "l", ")">> ELSE Strings[ap[1]]
     IN Converted(StringText(s), 1)

Conversions == {"c", "e", "s", "d", "u", "o", "p", "x", "%"}

(* walk the format back to the last %: what followed it is printed as text *)
LastPercent == CHOOSE k \in 1 .. pos - 1 : fmt[k] = "%" /\ \A j \in k + 1 .. pos - 1 : fmt[j] # "%"
UnrecognizedRescans ==                 \* faulty variant: goto reswitch for break
  /\ Scanning("escape") /\ Ch \notin Conversions \cup Modifiers /\ ~IsDigit(Ch)
  /\ UNCHANGED vars
Unrecognized ==
  /\ Scanning("escape") /\ Ch \notin Conversions \cup Modifiers /\ ~IsDigit(Ch)
  /\ Putch(<<"%">>)
  /\ pos' = LastPercent + 1
  /\ pc' = "text"
  /\ UNCHANGED <<given, ap, esc, ret>>

Next ==
  \/ Refuse \/ PlainText \/ Return \/ Escape \/ Flag \/ Digits \/ Star
  \/ Character \/ Decimal \/ Unsigned \/ Octal \/ Pointer \/ Percent
  \/ ErrorText \/ ErrorWild \/ String \/ Unrecognized

(* sequential code that runs until it returns *)
Spec == Init /\ [][Next]_vars /\ WF_vars(Next)

-----------------------------------------------------------------------------
(* Properties *)

SmallestError(d) == d.conv = "e" /\ 2 * d.arg[1] = Word

(***************************************************************************)
(* vprintfmt prints what the directives mean, one after the other, and     *)
(* takes exactly their arguments: no flag, width or length is left over    *)
(* from one directive to the next, a number's recursion and a string's     *)
(* three loops pad once, and what is not a directive is printed as it      *)
(* stands (printfmt.c:91-243).  That %4s, %-4d and %o mean something else  *)
(* to the repository is the subject of MCDocumentedFormats.                *)
(***************************************************************************)
PrintsMeaning ==
  pc = "done" /\ Accepted /\ (\A k \in 1 .. Len(call) : ~SmallestError(call[k]))
    => out = Concat(Meaning, call) /\ ap = <<>>

(***************************************************************************)
(* The scan never passes the 0 at the format's end, also when the format   *)
(* ends inside a directive (printfmt.c:105, 129, 239), and error_string is *)
(* only indexed inside, except for the one int whose negation is itself    *)
(* (printfmt.c:166-168).                                                   *)
(***************************************************************************)
IndexesInside ==
  /\ pc \in {"text", "escape"} => pos \in 1 .. Len(fmt)
  /\ pc = "wild" => \E k \in 1 .. Len(call) : SmallestError(call[k])

(***************************************************************************)
(* vsnprintf never writes through NULL and never behind the buffer's end;  *)
(* on return the buffer holds the beginning of the output, cut to leave a  *)
(* place for the 0, and the result tells how long the output is            *)
(* (printfmt.c:262-285).                                                   *)
(***************************************************************************)
BufferHoldsPrefix ==
  sink # Console =>
    /\ Len(buf) <= IF sink.kind = "null" \/ sink.size < 0 THEN 0 ELSE sink.size
    /\ pc = "done" /\ Accepted =>
         /\ buf = Append(SubSeq(out, 1, Len(buf) - 1), NUL)
         /\ Len(out) < sink.size => Len(buf) = Len(out) + 1
         /\ ret = Len(out)

(* Every call returns, though an unrecognized directive sends the scan back. *)
Returns == <>(pc \in {"done", "wild"})
=============================================================================
