----------------------------- MODULE MonitorProofs -----------------------------
(***************************************************************************)
(* runcmd takes every line apart as a reader would, argv has room for it,  *)
(* the line is answered, and only the first panic speaks.                  *)
(***************************************************************************)
EXTENDS Monitor, SequenceTheorems, FiniteSetTheorems, WellFoundedInduction, TLAPS

Chars == STRING \cup {Nul, Old}
Notices == {"head", NotYet, "assertion", "other"}

(* Between readline's return and the lookup: the line stands in front of   *)
(* its 0, but for blanks replaced by 0, and the pointer is not behind it.  *)
LineInBuffer ==
  /\ Len(buf) = Len(line) + 2
  /\ at <= Len(line) + 1
  /\ buf[Len(line) + 1] = Nul
  /\ \A k \in 1 .. Len(line) : buf[k] # Old

Said ==
  /\ said \in Seq(Notices) /\ Len(said) <= 2
  /\ Len(said) >= 1 => said[1] = "head"
  /\ Len(said) = 2 => said[2] = panicstr
  /\ panicstr = NotYet => Len(said) = 0
  /\ pc = "panic.head" => Len(said) = 0 /\ panicstr # NotYet
  /\ pc = "panic.text" => Len(said) = 1 /\ panicstr # NotYet

Parser ==
  /\ TypeOK
  /\ buf \in Seq(Chars) /\ line \in Seq(Chars)
  /\ argv \in [0 .. MAXARGS - 1 -> Int]
  /\ pc = "reading" => at = 1 /\ argc = 0 /\ Len(buf) = 1
  /\ pc \in {"gobble", "scan"} => LineInBuffer

MInv == Parser /\ Said

-----------------------------------------------------------------------------
LEMMA InitMInv == Init => MInv
<1> SUFFICES ASSUME Init PROVE MInv
  OBVIOUS
<1>1. MAXARGS \in Nat /\ MAXARGS > 0 /\ MaxPanics \in Nat
  BY MonitorAssumption
<1>2. Len(buf) = 1 /\ buf \in Seq(Chars) /\ line \in Seq(Chars)
  <2>1. buf = <<"0">> /\ line = <<"0">>
    BY DEF Init, NoLine, Nul
  <2>2. "0" \in Chars
    BY DEF Chars, Nul
  <2>4. \A c \in Chars : <<c>> \in Seq(Chars) /\ Len(<<c>>) = 1
    OBVIOUS
  <2>3. QED
    BY <2>1, <2>2, <2>4
<1>3. TypeOK
  BY <1>1, <1>2, SMT DEF Init, TypeOK, Junk, NotYet
<1>4. QED
  BY <1>2, <1>3, <1>1, SMT DEF Init, MInv, Parser, Said, Junk, NotYet

-----------------------------------------------------------------------------
(* runcmd *)

(* The steps that leave the parser alone *)
LEMMA ParserKept ==
  ASSUME Parser, UNCHANGED parser, panicstr' \in {NotYet, "assertion", "other"},
         panics' \in 0 .. MaxPanics,
         pc' \notin {"reading", "gobble", "scan"} \/ (pc = "scan" /\ pc' = "gobble") \/ pc' = pc
  PROVE  Parser'
<1>1. TypeOK'
  BY DEF Parser, TypeOK, parser
<1>2. LineInBuffer => LineInBuffer'
  BY DEF LineInBuffer, parser
<1>3. QED
  BY <1>1, <1>2 DEF Parser, parser

LEMMA SaidKept ==
  ASSUME Said, UNCHANGED panic, pc' \notin {"panic.head", "panic.text"} \/ pc' = pc
  PROVE  Said'
BY DEF Said, panic

LEMMA StartUp ==
  MInv /\ (ConsInit \/ Octal \/ Enter \/ Leave \/ Welcome \/ NoCommand \/ Unknown \/ Warn \/ EndOfArgument) => MInv'
<1> SUFFICES ASSUME MInv, ConsInit \/ Octal \/ Enter \/ Leave \/ Welcome \/ NoCommand \/ Unknown \/ Warn \/ EndOfArgument
             PROVE  MInv'
  OBVIOUS
<1>1. UNCHANGED <<parser, panic>>
  BY DEF ConsInit, Octal, Enter, Leave, Welcome, NoCommand, Unknown, Warn, EndOfArgument
<1>2. \/ pc' \in {"octal", "enter", "leave", "monitor", "prompt"} 
      \/ pc = "scan" /\ pc' = "gobble"
      \/ pc' = pc
  BY DEF ConsInit, Octal, Enter, Leave, Welcome, NoCommand, Unknown, Warn, EndOfArgument, Goes
<1>3. panicstr' \in {NotYet, "assertion", "other"} /\ panics' \in 0 .. MaxPanics
  BY <1>1 DEF MInv, Parser, TypeOK, panic
<1>4. Parser'
  BY <1>1, <1>2, <1>3, ParserKept DEF MInv
<1>5. Said'
  BY <1>1, <1>2, SaidKept DEF MInv
<1>6. QED
  BY <1>4, <1>5 DEF MInv

LEMMA Commanded ==
  ASSUME MInv, NEW c \in Commands, Lookup(c) \/ Command(c)
  PROVE  MInv'
<1>1. UNCHANGED <<parser, panic>> /\ pc' \in Commands \cup {"prompt"}
  BY DEF Lookup, Command, Goes
<1>2. panicstr' \in {NotYet, "assertion", "other"} /\ panics' \in 0 .. MaxPanics
  BY <1>1 DEF MInv, Parser, TypeOK, panic
<1>3. Parser'
  BY <1>1, <1>2, ParserKept DEF MInv, Commands
<1>4. Said'
  BY <1>1, SaidKept DEF MInv, Commands
<1>5. QED
  BY <1>3, <1>4 DEF MInv

LEMMA Panics ==
  MInv /\ ((\E fmt \in {"assertion", "other"} : Panic(fmt)) \/ PanicAgain \/ PanicHead \/ PanicText) => MInv'
<1> SUFFICES ASSUME MInv, (\E fmt \in {"assertion", "other"} : Panic(fmt)) \/ PanicAgain \/ PanicHead \/ PanicText
             PROVE  MInv'
  OBVIOUS
<1>1. MaxPanics \in Nat /\ panics \in 0 .. MaxPanics /\ panicstr \in {NotYet, "assertion", "other"}
  BY MonitorAssumption DEF MInv, Parser, TypeOK
<1>2. UNCHANGED parser /\ pc' \in {"panic.head", "panic.text", "monitor"}
  BY DEF Panic, PanicAgain, PanicHead, PanicText, Goes
<1>3. panics' \in 0 .. MaxPanics
  BY <1>1, SMT DEF Panic, PanicAgain, PanicHead, PanicText, CanPanic
<1>4. panicstr' \in {NotYet, "assertion", "other"}
  BY <1>1 DEF Panic, PanicAgain, PanicHead, PanicText
<1>5. Parser'
  BY <1>2, <1>3, <1>4, ParserKept DEF MInv
<1>6. Said'
  <2>1. CASE \E fmt \in {"assertion", "other"} : Panic(fmt)
    BY <2>1 DEF Panic, MInv, Said, NotYet
  <2>2. CASE PanicAgain
    BY <2>2 DEF PanicAgain, MInv, Said
  <2>3. CASE PanicHead
    <3>1. /\ said \in Seq(Notices) /\ Len(said) = 0 /\ panicstr # NotYet
          /\ said' = Append(said, "head") /\ panicstr' = panicstr /\ pc' = "panic.text"
      BY <2>3 DEF PanicHead, MInv, Said, Goes
    <3>2. said' \in Seq(Notices) /\ Len(said') = 1 /\ said'[1] = "head"
      BY <3>1, AppendProperties DEF Notices
    <3>3. QED
      BY <3>1, <3>2, SMT DEF Said
  <2>4. CASE PanicText
    <3>1. /\ said \in Seq(Notices) /\ Len(said) = 1 /\ said[1] = "head" /\ panicstr # NotYet
          /\ said' = Append(said, panicstr) /\ panicstr' = panicstr /\ pc' = "monitor"
      BY <2>4 DEF PanicText, MInv, Said, Goes
    <3>4. panicstr \in Notices
      BY <1>1 DEF Notices
    <3>5. said' = Append(said, panicstr) /\ said \in Seq(Notices)
      BY <3>1
    <3>6. /\ said' \in Seq(Notices) /\ Len(said') = Len(said) + 1
          /\ said'[Len(said) + 1] = panicstr /\ \A k \in 1 .. Len(said) : said'[k] = said[k]
      BY <3>4, <3>5, AppendProperties
    <3>2. said' \in Seq(Notices) /\ Len(said') = 2 /\ said'[1] = "head" /\ said'[2] = panicstr'
      BY <3>1, <3>6, SMT
    <3>3. QED
      BY <3>1, <3>2, SMT DEF Said
  <2>5. QED
    BY <2>1, <2>2, <2>3, <2>4
<1>7. QED
  BY <1>5, <1>6 DEF MInv

-----------------------------------------------------------------------------
(* The parser.  Blank, Nul and Old are different characters. *)

LEMMA Silent ==
  ASSUME MInv, UNCHANGED panic, pc' \notin {"panic.head", "panic.text"}
  PROVE  /\ Said'
         /\ panicstr' \in {NotYet, "assertion", "other"}
         /\ panics' \in 0 .. MaxPanics
BY SaidKept DEF MInv, Parser, TypeOK, panic

LEMMA Reads == MInv /\ Readline => MInv'
<1> SUFFICES ASSUME MInv, Readline PROVE MInv'
  OBVIOUS
<1>1. /\ Said' /\ panicstr' \in {NotYet, "assertion", "other"} /\ panics' \in 0 .. MaxPanics
  BY Silent DEF Readline, Goes
<1>2. MAXARGS \in Nat /\ MAXARGS > 0
  BY MonitorAssumption
<1>3. Old \in Chars /\ Nul \in Chars
  BY DEF Chars
<1>4. buf' \in Seq(Chars) /\ Len(buf') = 1
  BY <1>3 DEF Readline
<1>5. line' \in Seq(Chars)
  BY <1>3 DEF Readline, NoLine
<1>6. argv' \in [0 .. MAXARGS - 1 -> Int] /\ \A k \in 0 .. MAXARGS - 1 : argv'[k] = -1
  BY SMT DEF Readline, Junk
<1>7. pc' = "reading" /\ at' = 1 /\ argc' = 0
  BY DEF Readline, Goes
<1>8. TypeOK'
  BY <1>1, <1>2, <1>4, <1>6, <1>7, SMT DEF TypeOK
<1>9. QED
  BY <1>1, <1>4, <1>5, <1>6, <1>7, <1>8 DEF MInv, Parser

(* readline's result stands in the buffer with its 0. *)
LEMMA Gets ==
  ASSUME MInv, NEW l_1 \in Lines, LineRead(l_1)
  PROVE  MInv'
<1>1. /\ Said' /\ panicstr' \in {NotYet, "assertion", "other"} /\ panics' \in 0 .. MaxPanics
  BY Silent DEF LineRead, Goes
<1>2. MAXARGS \in Nat /\ MAXARGS > 0
  BY MonitorAssumption
<1>3. l_1 \in Seq(STRING) /\ \A k \in 1 .. Len(l_1) : l_1[k] \notin {Nul, Old}
  BY MonitorAssumption
<1>4. l_1 \in Seq(Chars)
  BY <1>3, SeqMonotonic DEF Chars
<1>5. <<Nul, Old>> \in Seq(Chars) /\ Len(<<Nul, Old>>) = 2 /\ <<Nul, Old>>[1] = Nul
  BY DEF Chars
<1>6. Len(l_1) \in Nat
  BY <1>4
<1>7. /\ buf' \in Seq(Chars) /\ Len(buf') = Len(l_1) + 2
      /\ \A k \in 1 .. Len(l_1) + 2 : buf'[k] = IF k <= Len(l_1) THEN l_1[k] ELSE <<Nul, Old>>[k - Len(l_1)]
  BY <1>4, <1>5, ConcatProperties DEF LineRead
<1>8. buf'[Len(l_1) + 1] = Nul
  BY <1>5, <1>6, <1>7, SMT
<1>9. \A k \in 1 .. Len(l_1) : buf'[k] # Old
  BY <1>3, <1>6, <1>7, SMT
<1>10. /\ line' = l_1 /\ at' = at /\ argc' = argc /\ at = 1 /\ argc = 0
       /\ pc' = "gobble" /\ argv' = [argv EXCEPT ![0] = NULL]
  BY DEF LineRead, Goes, MInv, Parser
<1>11. LineInBuffer'
  BY <1>6, <1>7, <1>8, <1>9, <1>10, SMT DEF LineInBuffer
<1>12. argv' \in [0 .. MAXARGS - 1 -> Int] /\ \A k \in 0 .. MAXARGS - 1 : argv'[k] \in -1 .. Len(buf')
  <2>1. Len(buf) = 1
    BY DEF LineRead, Goes, MInv, Parser
  <2>2. argv \in [0 .. MAXARGS - 1 -> Int] /\ \A k \in 0 .. MAXARGS - 1 : argv[k] \in -1 .. Len(buf)
    BY DEF MInv, Parser, TypeOK
  <2>3. argv' \in [0 .. MAXARGS - 1 -> Int]
    <3>1. NULL \in Int /\ argv \in [0 .. MAXARGS - 1 -> Int] /\ argv' = [argv EXCEPT ![0] = NULL]
      BY <2>2, <1>10, SMT DEF NULL
    <3>2. QED
      BY <3>1
  <2>4. ASSUME NEW k \in 0 .. MAXARGS - 1
        PROVE  argv'[k] \in -1 .. Len(buf')
    <3>1. argv[k] \in -1 .. 1 /\ (argv'[k] = 0 \/ argv'[k] = argv[k])
      BY <2>1, <2>2, <1>10 DEF NULL
    <3>2. QED
      BY <3>1, <1>6, <1>7, SMT
  <2>5. QED
    BY <2>3, <2>4
<1>13. TypeOK'
  BY <1>1, <1>2, <1>6, <1>7, <1>10, <1>12, SMT DEF TypeOK
<1>14. QED
  BY <1>1, <1>4, <1>7, <1>10, <1>11, <1>12, <1>13 DEF MInv, Parser

(* What runcmd does to a line that stands in the buffer *)
LEMMA Scans ==
  ASSUME MInv, Gobble \/ EndOfLine \/ TooMany \/ SaveArgument \/ ScanArgument
  PROVE  MInv'
<1>1. /\ Said' /\ panicstr' \in {NotYet, "assertion", "other"} /\ panics' \in 0 .. MaxPanics
  BY Silent DEF Gobble, EndOfLine, TooMany, SaveArgument, ScanArgument, Goes
<1>2. MAXARGS \in Nat /\ MAXARGS > 0
  BY MonitorAssumption
<1>3. /\ LineInBuffer /\ at \in 1 .. Len(buf) /\ argc \in 0 .. MAXARGS - 1
      /\ buf \in Seq(Chars) /\ line \in Seq(Chars)
      /\ argv \in [0 .. MAXARGS - 1 -> Int] /\ \A k \in 0 .. MAXARGS - 1 : argv[k] \in -1 .. Len(buf)
  BY DEF MInv, Parser, TypeOK, Gobble, EndOfLine, TooMany, SaveArgument, ScanArgument, AtArgument, Goes
<1>4. Len(line) \in Nat /\ Len(buf) \in Nat
  BY <1>3
(* a character that is not the final 0 is before it *)
<1>5. ASSUME buf[at] # Nul
      PROVE  at <= Len(line)
  BY <1>3, <1>4, <1>5, SMT DEF LineInBuffer
<1>6. line' = line
  BY DEF Gobble, EndOfLine, TooMany, SaveArgument, ScanArgument, parser
<1>7. CASE Gobble
  <2>1. buf[at] # Nul /\ at' = at + 1 /\ argc' = argc /\ argv' = argv /\ pc' = "gobble"
    BY <1>7 DEF Gobble, Goes, Blank, Nul
  <2>2. Nul \in Chars /\ Nul # Old
    BY DEF Chars, Nul, Old
  <2>3. /\ buf' \in Seq(Chars) /\ Len(buf') = Len(buf)
        /\ \A k \in 1 .. Len(buf) : buf'[k] = IF k = at THEN Nul ELSE buf[k]
    BY <1>7, <1>3, <2>2, ExceptSeq DEF Gobble
  <2>4. LineInBuffer'
    <3>1. at <= Len(line) /\ at \in Nat /\ Len(buf) = Len(line) + 2
      BY <1>3, <1>5, <2>1 DEF LineInBuffer
    <3>2. at' <= Len(line) + 1
      BY <3>1, <1>4, <2>1, SMT
    <3>3. buf'[Len(line) + 1] = Nul
      <4>1. Len(line) + 1 \in 1 .. Len(buf) /\ buf[Len(line) + 1] = Nul
        BY <1>3, <1>4, <3>1, SMT DEF LineInBuffer
      <4>2. QED
        BY <4>1, <2>3
    <3>4. ASSUME NEW k \in 1 .. Len(line)
          PROVE  buf'[k] # Old
      <4>1. k \in 1 .. Len(buf) /\ buf[k] # Old
        BY <1>3, <1>4, <3>1, SMT DEF LineInBuffer
      <4>2. QED
        BY <4>1, <2>2, <2>3
    <3>5. QED
      BY <1>6, <2>3, <3>1, <3>2, <3>3, <3>4 DEF LineInBuffer
  <2>5. TypeOK'
    BY <1>1, <1>3, <1>4, <1>5, <2>1, <2>3, SMT DEF TypeOK, LineInBuffer
  <2>6. QED
    BY <1>1, <1>3, <1>6, <2>1, <2>3, <2>4, <2>5 DEF MInv, Parser
<1>8. CASE ScanArgument
  <2>1. buf[at] # Nul /\ at' = at + 1 /\ UNCHANGED <<buf, argc, argv>> /\ pc' = "scan"
    BY <1>8 DEF ScanArgument, InArgument, Goes
  <2>2. LineInBuffer'
    BY <1>3, <1>4, <1>5, <1>6, <2>1, SMT DEF LineInBuffer
  <2>3. TypeOK'
    BY <1>1, <1>3, <1>4, <1>5, <2>1, SMT DEF TypeOK, LineInBuffer
  <2>4. QED
    BY <1>1, <1>3, <1>6, <2>1, <2>2, <2>3 DEF MInv, Parser
<1>9. CASE SaveArgument
  <2>1. /\ argc # MAXARGS - 1 /\ argv' = [argv EXCEPT ![argc] = at] /\ argc' = argc + 1
        /\ UNCHANGED <<buf, at>> /\ pc' = "scan"
    BY <1>9 DEF SaveArgument, Full
  <2>2. LineInBuffer'
    BY <1>3, <1>6, <2>1 DEF LineInBuffer
  <2>3. argv' \in [0 .. MAXARGS - 1 -> Int] /\ \A k \in 0 .. MAXARGS - 1 : argv'[k] \in -1 .. Len(buf)
    BY <1>3, <1>4, <2>1, SMT
  <2>4. TypeOK'
    BY <1>1, <1>2, <1>3, <2>1, <2>3, SMT DEF TypeOK
  <2>5. QED
    BY <1>1, <1>3, <1>6, <2>1, <2>2, <2>3, <2>4 DEF MInv, Parser
<1>10. CASE EndOfLine
  <2>1. argv' = [argv EXCEPT ![argc] = NULL] /\ UNCHANGED <<buf, at, argc>> /\ pc' = "lookup"
    BY <1>10 DEF EndOfLine, Goes
  <2>2. argv' \in [0 .. MAXARGS - 1 -> Int] /\ \A k \in 0 .. MAXARGS - 1 : argv'[k] \in -1 .. Len(buf)
    BY <1>3, <1>4, <2>1, SMT DEF NULL
  <2>3. TypeOK'
    BY <1>1, <1>3, <2>1, <2>2, SMT DEF TypeOK
  <2>4. QED
    BY <1>1, <1>3, <1>6, <2>1, <2>2, <2>3 DEF MInv, Parser
<1>11. CASE TooMany
  <2>1. UNCHANGED parser /\ pc' = "prompt"
    BY <1>11 DEF TooMany
  <2>2. QED
    BY <1>1, <2>1, ParserKept DEF MInv
<1>12. QED
  BY <1>7, <1>8, <1>9, <1>10, <1>11

-----------------------------------------------------------------------------
LEMMA NextMInv == MInv /\ [Next]_vars => MInv'
<1>1. ASSUME MInv, UNCHANGED vars
      PROVE  MInv'
  <2>1. UNCHANGED <<parser, panic, pc>>
    BY <1>1 DEF vars
  <2>2. panicstr' \in {NotYet, "assertion", "other"} /\ panics' \in 0 .. MaxPanics
    BY <1>1, <2>1 DEF MInv, Parser, TypeOK, panic
  <2>3. QED
    BY <1>1, <2>1, <2>2, ParserKept, SaidKept DEF MInv
<1>2. MInv /\ (\E l_1 \in Lines : LineRead(l_1)) => MInv'
  BY Gets
<1>3. MInv /\ (\E c \in Commands : Lookup(c) \/ Command(c)) => MInv'
  BY Commanded
<1>4. QED
  BY <1>1, <1>2, <1>3, StartUp, Panics, Reads, Scans DEF Next

LEMMA MInvAlways == Spec => []MInv
  BY InitMInv, NextMInv, PTL DEF Spec

-----------------------------------------------------------------------------
(***************************************************************************)
(* However many arguments a line has, the pointer stays in the buffer and  *)
(* argc leaves argv a slot for its NULL (monitor.c:78-97).                 *)
(***************************************************************************)
THEOREM ArgvHasRoom == Spec => []TypeOK
<1>1. MInv => TypeOK
  BY DEF MInv, Parser
<1>2. QED
  BY <1>1, MInvAlways, PTL

(***************************************************************************)
(* Only the first panic speaks, and it says nothing twice, however panics  *)
(* and monitors are nested (init.c:47-50, 62-64).                          *)
(***************************************************************************)
THEOREM FirstPanicSpeaks == Spec => []PanicSaidOnce
<1>1. MInv => PanicSaidOnce
  <2> SUFFICES ASSUME Said
               PROVE  PanicSaidOnce
    BY DEF MInv
  <2>1. said \in Seq(Notices) /\ Len(said) \in 0 .. 2
    BY SMT DEF Said
  <2>2. CASE Len(said) = 0
    BY <2>1, <2>2 DEF PanicSaidOnce
  <2>3. CASE Len(said) = 1
    BY <2>1, <2>3 DEF PanicSaidOnce, Said
  <2>4. CASE Len(said) = 2
    BY <2>1, <2>4 DEF PanicSaidOnce, Said
  <2>5. QED
    BY <2>1, <2>2, <2>3, <2>4
<1>2. QED
  BY <1>1, MInvAlways, PTL

-----------------------------------------------------------------------------
(* The line stands in the buffer, its blanks overwritten up to the pointer. *)
Parsing == pc \in {"gobble", "scan", "lookup"} \cup Commands
Cleaned(k) == IF line[k] = Blank THEN Nul ELSE line[k]
LineSplit ==
  /\ Len(buf) = Len(line) + 2
  /\ at \in 1 .. Len(line) + 1
  /\ buf[Len(line) + 1] = Nul
  /\ \A k \in 1 .. Len(line) :
       /\ line[k] \notin {Nul, Old}
       /\ buf[k] = IF k < at THEN Cleaned(k) ELSE line[k]

(* argv holds the starts before the pointer, in their order. *)
StartsBefore(q) == {p \in Starts : p < q}
ArgvSoFar ==
  /\ \A k \in 0 .. argc - 1 : argv[k] \in Starts /\ Cardinality(StartsBefore(argv[k])) = k
  /\ pc = "gobble" => /\ argc = Cardinality(StartsBefore(at))
                      /\ at <= Len(line) /\ line[at] # Blank => at \in Starts
  /\ pc = "scan" => argc = Cardinality(StartsBefore(at + 1))
  /\ pc \in {"lookup"} \cup Commands =>
       at = Len(line) + 1 /\ argc = Cardinality(Starts) /\ argv[argc] = NULL

Spoken ==
  /\ pc \in {"reading", "gobble", "scan", "lookup"} => out = <<>>
  /\ pc \in Commands => /\ out \in {<<>>, <<<<"warning">>>>}
                        /\ argc > 0 /\ Matches(pc)
  /\ EveryLineAnswered

LInv ==
  /\ \E Messages : out \in Seq(Messages)
  /\ Parsing => LineSplit /\ ArgvSoFar
  /\ Spoken

-----------------------------------------------------------------------------
(* Counting the arguments that start before a position *)

LEMMA Least ==
  ASSUME NEW T \in SUBSET Nat, T # {}
  PROVE  \E x \in T : \A y \in T : x <= y
<1>1. PICK x \in T : \A y \in T : ~(<<y, x>> \in OpToRel(<, Nat))
  BY NatLessThanWellFounded, WFMin
<1>2. \A y \in T : x <= y
  <2> SUFFICES ASSUME NEW y \in T, y < x PROVE FALSE
    BY SMT
  <2>1. <<y, x>> \in OpToRel(<, Nat)
    BY DEF OpToRel
  <2>2. QED
    BY <1>1, <2>1
<1>3. QED
  BY <1>2

LEMMA StartsFinite ==
  ASSUME line \in Seq(Chars)
  PROVE  /\ Len(line) \in Nat /\ Starts \subseteq 1 .. Len(line)
         /\ IsFiniteSet(Starts) /\ Cardinality(Starts) \in Nat
         /\ \A q : /\ IsFiniteSet(StartsBefore(q)) /\ Cardinality(StartsBefore(q)) \in Nat
                   /\ Cardinality(StartsBefore(q)) <= Cardinality(Starts)
<1>1. Len(line) \in Nat /\ Starts \subseteq 1 .. Len(line)
  BY DEF Starts
<1>2. IsFiniteSet(1 .. Len(line))
  BY <1>1, FS_Interval
<1>3. IsFiniteSet(Starts)
  BY <1>1, <1>2, FS_Subset
<1>4. ASSUME NEW q
      PROVE  /\ IsFiniteSet(StartsBefore(q)) /\ Cardinality(StartsBefore(q)) \in Nat
             /\ Cardinality(StartsBefore(q)) <= Cardinality(Starts)
  <2>1. StartsBefore(q) \in SUBSET Starts
    BY DEF StartsBefore
  <2>2. QED
    BY <1>3, <2>1, FS_Subset, FS_CardinalityType
<1>5. QED
  BY <1>1, <1>3, <1>4, FS_CardinalityType

LEMMA OneMoreStart ==
  ASSUME line \in Seq(Chars), NEW q \in Int, NEW n \in Int, n = q + 1
  PROVE  /\ q \notin Starts => StartsBefore(n) = StartsBefore(q)
         /\ q \in Starts => Cardinality(StartsBefore(n)) = Cardinality(StartsBefore(q)) + 1
<1>1. Starts \subseteq Int
  BY StartsFinite, SMT
<1>2. \A p \in Starts : p < n <=> p < q \/ p = q
  BY <1>1, SMT
<1>3. q \notin Starts => StartsBefore(n) = StartsBefore(q)
  BY <1>2 DEF StartsBefore
<1>4. ASSUME q \in Starts
      PROVE  Cardinality(StartsBefore(n)) = Cardinality(StartsBefore(q)) + 1
  <2>1. StartsBefore(n) = StartsBefore(q) \cup {q}
    BY <1>2, <1>4 DEF StartsBefore
  <2>2. q \notin StartsBefore(q)
    BY SMT DEF StartsBefore
  <2>3. QED
    BY <2>1, <2>2, StartsFinite, FS_AddElement
<1>5. QED
  BY <1>3, <1>4

LEMMA AllStarts ==
  ASSUME line \in Seq(Chars)
  PROVE  StartsBefore(Len(line) + 1) = Starts
<1>1. \A p \in Starts : p < Len(line) + 1
  BY StartsFinite, SMT
<1>2. QED
  BY <1>1 DEF StartsBefore

(* A start is known by the number of starts before it. *)
LEMMA NumberedStarts ==
  ASSUME line \in Seq(Chars), NEW p \in Starts, NEW q \in Starts,
         Cardinality(StartsBefore(p)) = Cardinality(StartsBefore(q))
  PROVE  p = q
<1>1. p \in Int /\ q \in Int
  BY StartsFinite, SMT
<1>2. ASSUME NEW a \in Starts, NEW b \in Starts, a < b
      PROVE  Cardinality(StartsBefore(a)) < Cardinality(StartsBefore(b))
  <2>1. a \in Int /\ b \in Int
    BY StartsFinite, SMT
  <2>2. \A r \in Starts : r < a => r < b
    <3>1. \A r \in Starts : r \in Int
      BY StartsFinite, SMT
    <3>2. QED
      BY <1>2, <2>1, <3>1, SMT
  <2>3. StartsBefore(a) \in SUBSET StartsBefore(b)
    BY <2>2 DEF StartsBefore
  <2>4. a \in StartsBefore(b) /\ a \notin StartsBefore(a)
    BY <1>2, <2>1, SMT DEF StartsBefore
  <2>5. /\ Cardinality(StartsBefore(a)) <= Cardinality(StartsBefore(b))
        /\ Cardinality(StartsBefore(b)) # Cardinality(StartsBefore(a))
    BY <2>3, <2>4, StartsFinite, FS_Subset
  <2>6. QED
    BY <2>5, StartsFinite, SMT
<1>3. ~(p < q) /\ ~(q < p)
  BY <1>2, StartsFinite, SMT
<1>4. QED
  BY <1>1, <1>3, SMT

(* Once the line is split, the string at a start is the argument there. *)
LEMMA SplitString ==
  ASSUME line \in Seq(Chars), buf \in Seq(Chars), LineSplit, at = Len(line) + 1, NEW p \in Starts
  PROVE  StringAt(p) = SubSeq(line, p, Last(p))
<1>1. /\ Len(line) \in Nat /\ Len(buf) = Len(line) + 2 /\ p \in 1 .. Len(line)
      /\ buf[Len(line) + 1] = Nul
      /\ \A k \in 1 .. Len(line) : line[k] \notin {Nul, Old}
      /\ \A k \in 1 .. Len(line) : buf[k] = Cleaned(k)
  <2>1. Len(line) \in Nat /\ p \in 1 .. Len(line)
    BY StartsFinite
  <2>2. \A k \in 1 .. Len(line) : k < at
    BY <2>1, SMT
  <2>3. QED
    BY <2>1, <2>2 DEF LineSplit
<1>2. \A k \in 1 .. Len(line) : /\ buf[k] = Nul <=> line[k] = Blank
                                /\ line[k] # Blank => buf[k] = line[k]
  BY <1>1 DEF Cleaned
<1>3. buf[p] # Nul
  BY <1>1, <1>2 DEF Starts
<1> DEFINE Zeros == {q \in p .. Len(line) + 1 : buf[q] = Nul}
<1>4. PICK end \in Zeros : \A q \in Zeros : end <= q
  <2>1. Len(line) + 1 \in Zeros
    BY <1>1, SMT
  <2>2. Zeros \in SUBSET Nat
    BY <1>1, SMT
  <2>3. QED
    BY <2>1, <2>2, Least
<1>5. /\ end \in p .. Len(line) + 1 /\ buf[end] = Nul /\ \A r \in p .. end - 1 : buf[r] # Nul
  <2>1. \A r \in p .. end - 1 : r \in p .. Len(line) + 1 /\ ~(end <= r)
    BY <1>1, SMT
  <2>2. QED
    BY <1>4, <2>1
<1>6. end - 1 \in p .. Len(line) /\ end \in p .. Len(buf)
  BY <1>1, <1>3, <1>5, SMT
<1>7. StringAt(p) = SubSeq(buf, p, end - 1)
  <2> DEFINE IsEnd(q) == buf[q] = Nul /\ \A r \in p .. q - 1 : buf[r] # Nul
  <2>1. IsEnd(end)
    BY <1>5
  <2>2. ASSUME NEW q \in p .. Len(buf), IsEnd(q)
        PROVE  q = end
    <3>1. ~(q < end)
      BY <1>1, <1>5, <2>2, SMT
    <3>2. ~(end < q)
      BY <1>1, <1>5, <2>2, SMT
    <3>3. QED
      BY <1>1, <1>5, <3>1, <3>2, SMT
  <2>3. (CHOOSE q \in p .. Len(buf) : IsEnd(q)) = end
    BY <1>6, <2>1, <2>2, Zenon
  <2>4. QED
    BY <2>3 DEF StringAt
<1>8. Last(p) = end - 1
  <2> DEFINE IsLast(q) == (\A r \in p .. q : line[r] # Blank) /\ (q = Len(line) \/ line[q + 1] = Blank)
  <2>1. \A r \in p .. end - 1 : line[r] # Blank
    <3>1. \A r \in p .. end - 1 : r \in 1 .. Len(line)
      BY <1>1, <1>5, SMT
    <3>2. QED
      BY <1>2, <1>5, <3>1
  <2>2. end - 1 = Len(line) \/ line[(end - 1) + 1] = Blank
    <3>1. end = Len(line) + 1 \/ end \in 1 .. Len(line)
      BY <1>1, <1>5, SMT
    <3>2. CASE end = Len(line) + 1
      BY <1>1, <3>2, SMT
    <3>3. CASE end \in 1 .. Len(line)
      <4>1. line[end] = Blank /\ (end - 1) + 1 = end
        BY <1>2, <1>5, <3>3, SMT
      <4>2. QED
        BY <4>1
    <3>4. QED
      BY <3>1, <3>2, <3>3
  <2>3. IsLast(end - 1)
    BY <2>1, <2>2
  <2>4. ASSUME NEW q \in p .. Len(line), IsLast(q)
        PROVE  q = end - 1
    <3>1. q \in Int /\ end \in Int /\ p \in Int /\ p <= q /\ p <= end - 1 /\ q <= Len(line) /\ end - 1 <= Len(line)
      BY <1>1, <1>6, SMT
    <3>2. ~(q < end - 1)
      <4> SUFFICES ASSUME q < end - 1 PROVE FALSE
        OBVIOUS
      <4> DEFINE r == q + 1
      <4>1. r \in p .. end - 1 /\ q # Len(line)
        BY <1>1, <3>1, SMT
      <4>2. line[r] = Blank
        BY <2>4, <4>1
      <4>3. QED
        BY <2>1, <4>1, <4>2
    <3>3. ~(end - 1 < q)
      <4> SUFFICES ASSUME end - 1 < q PROVE FALSE
        OBVIOUS
      <4>1. end \in p .. q /\ end \in 1 .. Len(line)
        BY <1>1, <3>1, SMT
      <4>2. line[end] = Blank
        BY <1>2, <1>5, <4>1
      <4>3. QED
        BY <2>4, <4>1, <4>2
    <3>4. QED
      BY <3>1, <3>2, <3>3, SMT
  <2>5. (CHOOSE q \in p .. Len(line) : IsLast(q)) = end - 1
    BY <1>6, <2>3, <2>4, Zenon
  <2>6. QED
    BY <2>5 DEF Last
<1>9. SubSeq(buf, p, end - 1) = SubSeq(line, p, end - 1)
  <2>1. \A r \in p .. end - 1 : buf[r] = line[r] /\ buf[r] \in Chars /\ line[r] \in Chars
    <3>1. \A r \in p .. end - 1 : r \in 1 .. Len(line)
      BY <1>1, <1>5, SMT
    <3>2. \A r \in 1 .. Len(line) : line[r] \in Chars
      OBVIOUS
    <3>3. QED
      BY <1>2, <1>5, <3>1, <3>2
  <2>2. p \in Int /\ end - 1 \in Int /\ p <= end - 1
    BY <1>1, <1>6, SMT
  <2>3. /\ SubSeq(buf, p, end - 1) \in Seq(Chars) /\ SubSeq(line, p, end - 1) \in Seq(Chars)
        /\ Len(SubSeq(buf, p, end - 1)) = Len(SubSeq(line, p, end - 1))
        /\ Len(SubSeq(buf, p, end - 1)) = (end - 1) - p + 1
        /\ \A i \in 1 .. (end - 1) - p + 1 : /\ SubSeq(buf, p, end - 1)[i] = buf[p + i - 1]
                                             /\ SubSeq(line, p, end - 1)[i] = line[p + i - 1]
    BY <2>1, <2>2, SubSeqProperties
  <2>4. \A i \in 1 .. (end - 1) - p + 1 : p + i - 1 \in p .. end - 1
    BY <2>2, SMT
  <2>5. \A i \in 1 .. (end - 1) - p + 1 : SubSeq(buf, p, end - 1)[i] = SubSeq(line, p, end - 1)[i]
    BY <2>1, <2>3, <2>4
  <2>6. QED
    BY <2>3, <2>5, SeqEqual
<1>10. QED
  BY <1>7, <1>8, <1>9

LEMMA SplitArguments ==
  ASSUME line \in Seq(Chars), buf \in Seq(Chars), LineSplit, at = Len(line) + 1, ArgvSoFar,
         NEW k \in 0 .. argc - 1
  PROVE  StringAt(argv[k]) = Argument(k)
<1>1. argv[k] \in Starts /\ Cardinality(StartsBefore(argv[k])) = k
  BY DEF ArgvSoFar
<1> DEFINE p == CHOOSE q \in Starts : Cardinality(StartsBefore(q)) = k
<1>2. p \in Starts /\ Cardinality(StartsBefore(p)) = k
  BY <1>1
<1> HIDE DEF p
<1>3. p = argv[k]
  BY <1>1, <1>2, NumberedStarts
<1>4. Argument(k) = SubSeq(line, p, Last(p))
  BY DEF Argument, p, StartsBefore
<1>5. QED
  BY <1>1, <1>3, <1>4, SplitString

-----------------------------------------------------------------------------
(* A message is appended to whatever has been said. *)
LEMMA SaysMore ==
  ASSUME NEW m, Says(m), \E Messages : out \in Seq(Messages)
  PROVE  /\ \E Messages : out' \in Seq(Messages)
         /\ \E k \in 1 .. Len(out') : out'[k] = m
         /\ out = <<>> => out' = <<m>>
         /\ \A w : out = <<w>> => out' = <<w>> \o <<m>>
<1>1. PICK Messages : out \in Seq(Messages)
  OBVIOUS
<1> DEFINE More == Messages \cup {m}
<1>2. out \in Seq(More) /\ m \in More
  BY <1>1
<1>3. out' = Append(out, m)
  BY DEF Says
<1>4. /\ out' \in Seq(More) /\ Len(out') = Len(out) + 1 /\ Len(out) \in Nat
      /\ out'[Len(out) + 1] = m
  BY <1>2, <1>3, AppendProperties
<1>5. out' = out \o <<m>>
  BY <1>2, <1>3, AppendIsConcat
<1>6. out = <<>> => out' = <<m>>
  BY <1>2, <1>5, ConcatEmptySeq
<1>7. Len(out) + 1 \in 1 .. Len(out')
  BY <1>4, SMT
<1>8. QED
  BY <1>4, <1>5, <1>6, <1>7

(* What does not concern the parser's view of the line *)
LEMMA ViewKept ==
  ASSUME UNCHANGED parser
  PROVE  /\ LineSplit => LineSplit'
         /\ \A k \in 0 .. argc - 1 : StringAt(argv[k])' = StringAt(argv[k])
         /\ \A c \in Commands : Matches(c)' <=> Matches(c)
         /\ Starts' = Starts /\ Answer' = Answer
         /\ \A q : StartsBefore(q)' = StartsBefore(q)
  BY DEF LineSplit, Cleaned, StringAt, Matches, Starts, Answer, Argument, Last, StartsBefore, parser

LEMMA InitLInv == Init => LInv
<1> SUFFICES ASSUME Init PROVE LInv
  OBVIOUS
<1>1. pc = "start" /\ out = <<>>
  BY DEF Init
<1>2. out \in Seq({})
  BY <1>1
<1>3. QED
  BY <1>1, <1>2 DEF LInv, Parsing, Commands, Spoken, EveryLineAnswered

(* Outside the monitor's loop nothing is claimed. *)
LEMMA Elsewhere ==
  ASSUME LInv, ConsInit \/ Octal \/ Enter \/ Leave \/ (\E fmt \in {"assertion", "other"} : Panic(fmt))
                 \/ PanicAgain \/ PanicHead \/ PanicText
  PROVE  LInv'
<1>1. pc' \in {"octal", "enter", "leave", "monitor", "panic.head", "panic.text"}
  BY DEF ConsInit, Octal, Enter, Leave, Panic, PanicAgain, PanicHead, PanicText, Goes
<1>2. \E Messages : out' \in Seq(Messages)
  <2>1. CASE ConsInit
    <3>1. out' \in {<<>>, <<<<"no serial port">>>>}
      BY <2>1 DEF ConsInit
    <3>2. \A x : <<>> \in Seq({x}) /\ <<x>> \in Seq({x})
      OBVIOUS
    <3>3. QED
      BY <3>1, <3>2
  <2>2. CASE \E m : Says(m)
    BY <2>2, SaysMore DEF LInv
  <2>3. CASE out' = out
    BY <2>3 DEF LInv
  <2>4. QED
    BY <2>1, <2>2, <2>3 DEF Octal, Enter, Leave, Panic, PanicAgain, PanicHead, PanicText
<1>3. QED
  BY <1>1, <1>2 DEF LInv, Parsing, Commands, Spoken, EveryLineAnswered

(* The welcome, and the start of a line *)
LEMMA Prompts == LInv /\ (Welcome \/ Readline) => LInv'
<1> SUFFICES ASSUME LInv, Welcome \/ Readline PROVE LInv'
  OBVIOUS
<1>1. CASE Welcome
  <2>1. Says(<<"welcome">>) /\ pc' = "prompt"
    BY <1>1 DEF Welcome, Goes
  <2>2. /\ \E Messages : out' \in Seq(Messages)
        /\ \E k \in 1 .. Len(out') : out'[k] = <<"welcome">>
    BY <2>1, SaysMore DEF LInv
  <2>3. QED
    BY <2>1, <2>2 DEF LInv, Parsing, Commands, Spoken, EveryLineAnswered
<1>2. CASE Readline
  <2>1. pc' = "reading" /\ out' = <<>>
    BY <1>2 DEF Readline, Goes
  <2>2. out' \in Seq({})
    BY <2>1
  <2>3. QED
    BY <2>1, <2>2 DEF LInv, Parsing, Commands, Spoken, EveryLineAnswered
<1>3. QED
  BY <1>1, <1>2

LEMMA LineReadLInv ==
  ASSUME MInv, LInv, NEW l_1 \in Lines, LineRead(l_1)
  PROVE  LInv'
<1>1. /\ line' = l_1 /\ buf' = l_1 \o <<Nul, Old>> /\ at' = at /\ argc' = argc /\ out' = out
      /\ pc = "reading" /\ pc' = "gobble" /\ at = 1 /\ argc = 0 /\ out = <<>>
  BY DEF LineRead, Goes, MInv, Parser, LInv, Spoken
<1>2. l_1 \in Seq(STRING) /\ \A k \in 1 .. Len(l_1) : l_1[k] \notin {Nul, Old}
  BY MonitorAssumption
<1>3. l_1 \in Seq(Chars) /\ Len(l_1) \in Nat
  BY <1>2, SeqMonotonic DEF Chars
<1>4. <<Nul, Old>> \in Seq(Chars) /\ Len(<<Nul, Old>>) = 2 /\ <<Nul, Old>>[1] = Nul
  BY DEF Chars
<1>5. /\ Len(buf') = Len(l_1) + 2
      /\ \A k \in 1 .. Len(l_1) + 2 : buf'[k] = IF k <= Len(l_1) THEN l_1[k] ELSE <<Nul, Old>>[k - Len(l_1)]
  BY <1>1, <1>3, <1>4, ConcatProperties
<1>6. LineSplit'
  <2>1. buf'[Len(l_1) + 1] = Nul
    BY <1>3, <1>4, <1>5, SMT
  <2>2. \A k \in 1 .. Len(l_1) : buf'[k] = l_1[k] /\ ~(k < 1)
    BY <1>3, <1>5, SMT
  <2>3. 1 \in 1 .. Len(l_1) + 1
    BY <1>3, SMT
  <2>4. QED
    BY <1>1, <1>2, <1>5, <2>1, <2>2, <2>3 DEF LineSplit
<1>7. ArgvSoFar'
  <2>1. line' \in Seq(Chars) /\ at' = 1 /\ argc' = 0 /\ pc' = "gobble"
    BY <1>1, <1>3
  <2>2. Starts' \subseteq 1 .. Len(line')
    BY DEF Starts
  <2>3. StartsBefore(at)' = {}
    <3>1. \A p \in Starts' : ~(p < 1)
      BY <1>1, <1>3, <2>2, SMT
    <3>2. StartsBefore(at)' = {p \in Starts' : p < 1}
      BY <2>1 DEF StartsBefore
    <3>3. QED
      BY <3>1, <3>2
  <2>4. at' <= Len(line') /\ line'[at'] # Blank => at' \in Starts'
    BY <1>1, <1>3, SMT DEF Starts
  <2>5. \A k \in 0 .. 0 - 1 : FALSE
    BY SMT
  <2>6. QED
    BY <2>1, <2>3, <2>4, <2>5, FS_EmptySet DEF ArgvSoFar, Commands
<1>8. Spoken' /\ \E Messages : out' \in Seq(Messages)
  BY <1>1 DEF LInv, Spoken, EveryLineAnswered, Commands
<1>9. QED
  BY <1>6, <1>7, <1>8 DEF LInv

-----------------------------------------------------------------------------
(* runcmd *)

(* A character that is not the final 0 is the line's. *)
LEMMA AtCharacter ==
  ASSUME MInv, LInv, Parsing
  PROVE  /\ line \in Seq(Chars) /\ buf \in Seq(Chars) /\ Len(line) \in Nat
         /\ LineSplit /\ ArgvSoFar
         /\ at \in 1 .. Len(line) + 1 /\ argc \in 0 .. MAXARGS - 1 /\ MAXARGS \in Nat
         /\ argv \in [0 .. MAXARGS - 1 -> Int]
         /\ buf[at] = Nul <=> at = Len(line) + 1
         /\ buf[at] # Nul => at \in 1 .. Len(line) /\ buf[at] = line[at]
<1>1. /\ line \in Seq(Chars) /\ buf \in Seq(Chars) /\ LineSplit /\ ArgvSoFar
      /\ argc \in 0 .. MAXARGS - 1 /\ MAXARGS \in Nat /\ argv \in [0 .. MAXARGS - 1 -> Int]
  BY MonitorAssumption DEF MInv, Parser, TypeOK, LInv
<1>2. Len(line) \in Nat /\ at \in 1 .. Len(line) + 1 /\ buf[Len(line) + 1] = Nul
  BY <1>1 DEF LineSplit
<1>3. at = Len(line) + 1 \/ at \in 1 .. Len(line)
  BY <1>2, SMT
<1>4. at \in 1 .. Len(line) => buf[at] = line[at] /\ line[at] # Nul /\ at # Len(line) + 1
  <2>1. \A k \in 1 .. Len(line) : k = at => ~(k < at) /\ k # Len(line) + 1
    BY <1>2, SMT
  <2>2. QED
    BY <1>1, <2>1 DEF LineSplit
<1>5. QED
  BY <1>1, <1>2, <1>3, <1>4

LEMMA GobbleLInv == MInv /\ LInv /\ Gobble => LInv'
<1> SUFFICES ASSUME MInv, LInv, Gobble PROVE LInv'
  OBVIOUS
<1>1. /\ pc = "gobble" /\ pc' = "gobble" /\ buf[at] = Blank /\ buf' = [buf EXCEPT ![at] = Nul]
      /\ at' = at + 1 /\ UNCHANGED <<line, argc, argv, out>> /\ Parsing /\ Blank # Nul
  BY DEF Gobble, Goes, Parsing, Blank, Nul
<1>2. /\ line \in Seq(Chars) /\ buf \in Seq(Chars) /\ Len(line) \in Nat /\ LineSplit /\ ArgvSoFar
      /\ at \in 1 .. Len(line) /\ line[at] = Blank
  BY <1>1, AtCharacter
<1>3. Nul \in Chars
  BY DEF Chars
<1>4. /\ buf' \in Seq(Chars) /\ Len(buf') = Len(buf)
      /\ \A k \in 1 .. Len(buf) : buf'[k] = IF k = at THEN Nul ELSE buf[k]
  <2>1. at \in 1 .. Len(buf)
    BY <1>2, SMT DEF LineSplit
  <2>2. QED
    BY <1>1, <1>2, <1>3, <2>1, ExceptSeq
<1>5. LineSplit'
  <2>1. Len(line) + 1 \in 1 .. Len(buf) /\ Len(line) + 1 # at /\ at + 1 \in 1 .. Len(line) + 1
        /\ \A k \in 1 .. Len(line) : k \in 1 .. Len(buf) /\ (k < at + 1 <=> k < at \/ k = at)
    BY <1>2, SMT DEF LineSplit
  <2>2. ASSUME NEW k \in 1 .. Len(line)
        PROVE  /\ line[k] \notin {Nul, Old}
               /\ buf'[k] = IF k < at + 1 THEN Cleaned(k) ELSE line[k]
    BY <1>2, <1>4, <2>1 DEF LineSplit, Cleaned
  <2>3. QED
    BY <1>1, <1>2, <1>4, <2>1, <2>2 DEF LineSplit, Cleaned
<1>6. Starts' = Starts /\ \A q : StartsBefore(q)' = StartsBefore(q)
  BY <1>1 DEF Starts, StartsBefore
<1>7. at \notin Starts
  BY <1>2 DEF Starts
<1>8. StartsBefore(at') = StartsBefore(at)
  BY <1>1, <1>2, <1>7, OneMoreStart, SMT
<1>9. at' <= Len(line) /\ line[at'] # Blank => at' \in Starts
  <2>1. at' - 1 = at /\ (at' <= Len(line) => at' \in 1 .. Len(line))
    BY <1>1, <1>2, SMT
  <2>2. QED
    BY <1>2, <2>1 DEF Starts
<1>10. ArgvSoFar'
  <2>1. StartsBefore(at)' = StartsBefore(at')
    BY <1>1 DEF Starts, StartsBefore
  <2>2. QED
    BY <1>1, <1>2, <1>6, <1>8, <1>9, <2>1 DEF ArgvSoFar, Commands
<1>11. QED
  BY <1>1, <1>5, <1>10 DEF LInv, Spoken, EveryLineAnswered, Commands

LEMMA ScanLInv == MInv /\ LInv /\ ScanArgument => LInv'
<1> SUFFICES ASSUME MInv, LInv, ScanArgument PROVE LInv'
  OBVIOUS
<1>1. /\ pc = "scan" /\ pc' = "scan" /\ buf[at] \notin {Blank, Nul}
      /\ at' = at + 1 /\ UNCHANGED <<line, buf, argc, argv, out>> /\ Parsing
  BY DEF ScanArgument, InArgument, Goes, Parsing
<1>2. /\ line \in Seq(Chars) /\ Len(line) \in Nat /\ LineSplit /\ ArgvSoFar
      /\ at \in 1 .. Len(line) /\ line[at] # Blank
  BY <1>1, AtCharacter
<1>3. LineSplit'
  <2>1. /\ at + 1 \in 1 .. Len(line) + 1
        /\ \A k \in 1 .. Len(line) : k < at + 1 <=> k < at \/ k = at
    BY <1>2, SMT
  <2>2. ASSUME NEW k \in 1 .. Len(line)
        PROVE  /\ line[k] \notin {Nul, Old}
               /\ buf[k] = IF k < at + 1 THEN Cleaned(k) ELSE line[k]
    BY <1>2, <2>1 DEF LineSplit, Cleaned
  <2>3. QED
    BY <1>1, <1>2, <2>1, <2>2 DEF LineSplit, Cleaned
<1>4. Starts' = Starts /\ \A q : StartsBefore(q)' = StartsBefore(q)
  BY <1>1 DEF Starts, StartsBefore
<1> DEFINE n == at + 1
           n2 == n + 1
<1>5. n \notin Starts
  <2>1. n - 1 = at /\ n # 1
    BY <1>2, SMT
  <2>2. QED
    BY <1>2, <2>1 DEF Starts
<1>6. StartsBefore(n2) = StartsBefore(n)
  <2>1. n \in Int /\ n2 \in Int /\ n2 = n + 1
    BY <1>2, SMT
  <2>2. QED
    BY <1>2, <1>5, <2>1, OneMoreStart
<1>7. ArgvSoFar'
  <2>1. StartsBefore(at + 1)' = StartsBefore(n2)
    BY <1>1 DEF Starts, StartsBefore
  <2>2. QED
    BY <1>1, <1>2, <1>4, <1>6, <2>1 DEF ArgvSoFar, Commands
<1>8. QED
  BY <1>1, <1>3, <1>7 DEF LInv, Spoken, EveryLineAnswered, Commands

LEMMA SaveLInv == MInv /\ LInv /\ SaveArgument => LInv'
<1> SUFFICES ASSUME MInv, LInv, SaveArgument PROVE LInv'
  OBVIOUS
<1>1. /\ pc = "gobble" /\ pc' = "scan" /\ buf[at] \notin {Blank, Nul} /\ argc # MAXARGS - 1
      /\ argv' = [argv EXCEPT ![argc] = at] /\ argc' = argc + 1
      /\ UNCHANGED <<line, buf, at, out>> /\ Parsing
  BY DEF SaveArgument, AtArgument, Full, Parsing
<1>2. /\ line \in Seq(Chars) /\ Len(line) \in Nat /\ LineSplit /\ ArgvSoFar
      /\ at \in 1 .. Len(line) /\ line[at] # Blank
      /\ argc \in 0 .. MAXARGS - 1 /\ MAXARGS \in Nat /\ argv \in [0 .. MAXARGS - 1 -> Int]
  BY <1>1, AtCharacter
<1>3. LineSplit'
  BY <1>1, <1>2 DEF LineSplit, Cleaned
<1>4. Starts' = Starts /\ \A q : StartsBefore(q)' = StartsBefore(q)
  BY <1>1 DEF Starts, StartsBefore
<1>5. at \in Starts /\ argc = Cardinality(StartsBefore(at))
  <2>1. at <= Len(line)
    BY <1>2, SMT
  <2>2. QED
    BY <1>1, <1>2, <2>1 DEF ArgvSoFar
<1> DEFINE n == at + 1
<1>6. argc + 1 = Cardinality(StartsBefore(n))
  <2>1. at \in Int /\ n \in Int /\ n = at + 1
    BY <1>2, SMT
  <2>2. QED
    BY <1>2, <1>5, <2>1, OneMoreStart
<1>7. ASSUME NEW k \in 0 .. argc' - 1
      PROVE  argv'[k] \in Starts /\ Cardinality(StartsBefore(argv'[k])) = k
  <2>1. k = argc \/ k \in 0 .. argc - 1
    BY <1>1, <1>2, SMT
  <2>2. k \in 0 .. MAXARGS - 1 /\ (k \in 0 .. argc - 1 => k # argc)
    BY <1>1, <1>2, SMT
  <2>3. CASE k = argc
    BY <1>1, <1>2, <1>5, <2>2, <2>3
  <2>4. CASE k \in 0 .. argc - 1
    <3>1. argv'[k] = argv[k]
      BY <1>1, <1>2, <2>2, <2>4
    <3>2. QED
      BY <1>2, <2>4, <3>1 DEF ArgvSoFar
  <2>5. QED
    BY <2>1, <2>3, <2>4
<1>8. ArgvSoFar'
  <2>1. StartsBefore(at + 1)' = StartsBefore(n)
    BY <1>1 DEF Starts, StartsBefore
  <2>2. \A k \in 0 .. argc' - 1 : argv'[k] \in Starts' /\ Cardinality(StartsBefore(argv[k])') = k
    <3>1. \A k : StartsBefore(argv[k])' = StartsBefore(argv'[k])
      BY <1>4 DEF StartsBefore
    <3>2. QED
      BY <1>4, <1>7, <3>1
  <2>3. QED
    BY <1>1, <1>6, <2>1, <2>2 DEF ArgvSoFar, Commands
<1>9. QED
  BY <1>1, <1>3, <1>8 DEF LInv, Spoken, EveryLineAnswered, Commands

LEMMA EndOfArgumentLInv == MInv /\ LInv /\ EndOfArgument => LInv'
<1> SUFFICES ASSUME MInv, LInv, EndOfArgument PROVE LInv'
  OBVIOUS
<1>1. /\ pc = "scan" /\ pc' = "gobble" /\ buf[at] \in {Blank, Nul} /\ UNCHANGED parser /\ out' = out /\ Parsing
  BY DEF EndOfArgument, InArgument, Goes, Parsing
<1>2. UNCHANGED <<line, buf, at, argc, argv>>
  BY <1>1 DEF parser
<1>3. /\ line \in Seq(Chars) /\ Len(line) \in Nat /\ LineSplit /\ ArgvSoFar
      /\ at \in 1 .. Len(line) + 1
      /\ at = Len(line) + 1 \/ (at \in 1 .. Len(line) /\ line[at] = Blank)
  BY <1>1, AtCharacter
<1>4. at \notin Starts /\ ~(at <= Len(line) /\ line[at] # Blank)
  <2>1. at = Len(line) + 1 => at \notin 1 .. Len(line) /\ ~(at <= Len(line))
    BY <1>3, SMT
  <2>2. QED
    BY <1>3, <2>1 DEF Starts
<1> DEFINE n == at + 1
<1>5. argc = Cardinality(StartsBefore(n))
  BY <1>1, <1>3 DEF ArgvSoFar
<1>6. StartsBefore(n) = StartsBefore(at)
  <2>1. at \in Int /\ n \in Int /\ n = at + 1
    BY <1>3, SMT
  <2>2. QED
    BY <1>3, <1>4, <2>1, OneMoreStart
<1>7. LineSplit' /\ Starts' = Starts /\ \A q : StartsBefore(q)' = StartsBefore(q)
  BY <1>1, <1>3, ViewKept
<1>8. ArgvSoFar'
  <2>1. StartsBefore(at)' = StartsBefore(at)
    BY <1>2 DEF StartsBefore, Starts
  <2>2. \A k : StartsBefore(argv[k])' = StartsBefore(argv[k])
    BY <1>2 DEF StartsBefore, Starts
  <2>3. QED
    BY <1>1, <1>2, <1>3, <1>4, <1>5, <1>6, <1>7, <2>1, <2>2 DEF ArgvSoFar, Commands
<1>9. QED
  BY <1>1, <1>2, <1>7, <1>8 DEF LInv, Spoken, EveryLineAnswered, Commands

LEMMA EndOfLineLInv == MInv /\ LInv /\ EndOfLine => LInv'
<1> SUFFICES ASSUME MInv, LInv, EndOfLine PROVE LInv'
  OBVIOUS
<1>1. /\ pc = "gobble" /\ pc' = "lookup" /\ buf[at] = Nul /\ argv' = [argv EXCEPT ![argc] = NULL]
      /\ UNCHANGED <<line, buf, at, argc, out>> /\ Parsing
  BY DEF EndOfLine, Goes, Parsing
<1>2. /\ line \in Seq(Chars) /\ Len(line) \in Nat /\ LineSplit /\ ArgvSoFar
      /\ at = Len(line) + 1 /\ argc \in 0 .. MAXARGS - 1 /\ MAXARGS \in Nat
      /\ argv \in [0 .. MAXARGS - 1 -> Int]
  BY <1>1, AtCharacter
<1>3. LineSplit' /\ Starts' = Starts /\ \A q : StartsBefore(q)' = StartsBefore(q)
  BY <1>1, <1>2 DEF LineSplit, Cleaned, Starts, StartsBefore
<1>4. argc = Cardinality(Starts)
  BY <1>1, <1>2, AllStarts DEF ArgvSoFar
<1>5. argv'[argc] = NULL /\ \A k \in 0 .. argc - 1 : argv'[k] = argv[k]
  BY <1>1, <1>2, SMT
<1>6. ArgvSoFar'
  <2>1. \A k \in 0 .. argc - 1 : StartsBefore(argv[k])' = StartsBefore(argv[k])
    BY <1>1, <1>5 DEF StartsBefore, Starts
  <2>2. QED
    BY <1>1, <1>2, <1>3, <1>4, <1>5, <2>1 DEF ArgvSoFar, Commands
<1>7. QED
  BY <1>1, <1>3, <1>6 DEF LInv, Spoken, EveryLineAnswered, Commands

(* The lookup and what follows it: the steps that answer the line *)
LEMMA TooManyLInv == MInv /\ LInv /\ TooMany => LInv'
<1> SUFFICES ASSUME MInv, LInv, TooMany PROVE LInv'
  OBVIOUS
<1>1. /\ pc = "gobble" /\ pc' = "prompt" /\ buf[at] \notin {Blank, Nul} /\ argc = MAXARGS - 1
      /\ Says(<<"too many arguments">>) /\ UNCHANGED parser /\ Parsing
  BY DEF TooMany, AtArgument, Full, Parsing
<1>2. /\ line \in Seq(Chars) /\ Len(line) \in Nat /\ ArgvSoFar
      /\ at \in 1 .. Len(line) /\ line[at] # Blank /\ MAXARGS \in Nat
  BY <1>1, AtCharacter
<1>3. at \in Starts /\ Cardinality(StartsBefore(at)) = MAXARGS - 1
  <2>1. at <= Len(line)
    BY <1>2, SMT
  <2>2. QED
    BY <1>1, <1>2, <2>1 DEF ArgvSoFar
<1> DEFINE n == at + 1
<1>4. Cardinality(Starts) >= MAXARGS /\ Starts # {}
  <2>1. at \in Int /\ n \in Int /\ n = at + 1
    BY <1>2, SMT
  <2>2. Cardinality(StartsBefore(n)) = (MAXARGS - 1) + 1
    BY <1>2, <1>3, <2>1, OneMoreStart
  <2>3. Cardinality(StartsBefore(n)) <= Cardinality(Starts) /\ Cardinality(Starts) \in Nat
    BY <1>2, StartsFinite
  <2> HIDE DEF n
  <2>4. QED
    BY <1>2, <1>3, <2>2, <2>3, SMT
<1>5. Answer = <<<<"too many arguments">>>>
  BY <1>4 DEF Answer
<1>6. out = <<>>
  BY <1>1 DEF LInv, Spoken
<1>7. out' = <<<<"too many arguments">>>> /\ \E Messages : out' \in Seq(Messages)
  BY <1>1, <1>6, SaysMore DEF LInv
<1>8. out' = Answer'
  BY <1>1, <1>5, <1>7, ViewKept
<1>9. QED
  BY <1>1, <1>7, <1>8 DEF LInv, Parsing, Commands, Spoken, EveryLineAnswered

(* At the lookup argv[0] is the first argument, if there is one. *)
LEMMA LookupFacts ==
  ASSUME MInv, LInv, pc \in {"lookup"} \cup Commands
  PROVE  /\ LineSplit /\ ArgvSoFar /\ argc = Cardinality(Starts)
         /\ argc = 0 => Starts = {}
         /\ argc > 0 => /\ Starts # {} /\ ~(Cardinality(Starts) >= MAXARGS)
                        /\ StringAt(argv[0]) = Argument(0)
         /\ argv[argc] = NULL
         /\ \A k \in 0 .. argc - 1 : StringAt(argv[k]) = Argument(k)
<1>1. /\ line \in Seq(Chars) /\ buf \in Seq(Chars) /\ LineSplit /\ ArgvSoFar
      /\ argc \in 0 .. MAXARGS - 1 /\ MAXARGS \in Nat
  BY AtCharacter DEF Parsing
<1>2. at = Len(line) + 1 /\ argc = Cardinality(Starts) /\ argv[argc] = NULL
  BY <1>1 DEF ArgvSoFar
<1>3. \A k \in 0 .. argc - 1 : StringAt(argv[k]) = Argument(k)
  BY <1>1, <1>2, SplitArguments
<1>4. Cardinality(Starts) = 0 <=> Starts = {}
  BY <1>1, StartsFinite, FS_EmptySet
<1>5. argc > 0 => 0 \in 0 .. argc - 1 /\ argc # 0 /\ ~(argc >= MAXARGS)
  BY <1>1, SMT
<1>6. QED
  BY <1>1, <1>2, <1>3, <1>4, <1>5

LEMMA NoCommandLInv == MInv /\ LInv /\ NoCommand => LInv'
<1> SUFFICES ASSUME MInv, LInv, NoCommand PROVE LInv'
  OBVIOUS
<1>1. pc = "lookup" /\ pc' = "prompt" /\ argc = 0 /\ UNCHANGED parser /\ out' = out
  BY DEF NoCommand, Goes
<1>2. Answer = <<>>
  BY <1>1, LookupFacts DEF Answer
<1>3. out' = Answer'
  BY <1>1, <1>2, ViewKept DEF LInv, Spoken
<1>4. QED
  BY <1>1, <1>3 DEF LInv, Parsing, Commands, Spoken, EveryLineAnswered

LEMMA UnknownLInv == MInv /\ LInv /\ Unknown => LInv'
<1> SUFFICES ASSUME MInv, LInv, Unknown PROVE LInv'
  OBVIOUS
<1>1. /\ pc = "lookup" /\ pc' = "prompt" /\ argc > 0 /\ UNCHANGED parser
      /\ \A c \in Commands : ~Matches(c)
      /\ Says(<<"unknown command", StringAt(argv[0])>>)
  BY DEF Unknown, Goes
<1>2. Starts # {} /\ ~(Cardinality(Starts) >= MAXARGS) /\ StringAt(argv[0]) = Argument(0)
  BY <1>1, LookupFacts
<1>3. \A c \in Commands : CommandNames[c] # Argument(0)
  BY <1>1, <1>2 DEF Matches
<1>4. Answer = <<<<"unknown command", Argument(0)>>>>
  BY <1>2, <1>3 DEF Answer
<1>5. out = <<>>
  BY <1>1 DEF LInv, Spoken
<1>6. /\ out' = <<<<"unknown command", StringAt(argv[0])>>>>
      /\ \E Messages : out' \in Seq(Messages)
  BY <1>1, <1>5, SaysMore DEF LInv
<1>7. out' = Answer'
  BY <1>1, <1>2, <1>4, <1>6, ViewKept
<1>8. QED
  BY <1>1, <1>6, <1>7 DEF LInv, Parsing, Commands, Spoken, EveryLineAnswered

(* A command that has been found, warns or is done *)
LEMMA CommandLInv ==
  ASSUME MInv, LInv, NEW c \in Commands, Lookup(c) \/ Command(c) \/ Warn
  PROVE  LInv'
<1>1. UNCHANGED parser /\ pc \in {"lookup"} \cup Commands
  BY DEF Lookup, Command, Warn, Goes
<1>2. /\ LineSplit /\ ArgvSoFar /\ argc = Cardinality(Starts) /\ argv[argc] = NULL
      /\ argc > 0 => /\ Starts # {} /\ ~(Cardinality(Starts) >= MAXARGS)
                     /\ StringAt(argv[0]) = Argument(0)
  BY <1>1, LookupFacts
<1>3. at = Len(line) + 1
  BY <1>1, <1>2 DEF ArgvSoFar
<1>4. LineSplit' /\ UNCHANGED <<line, buf, at, argc, argv>>
      /\ Starts' = Starts /\ Answer' = Answer /\ \A d \in Commands : Matches(d)' <=> Matches(d)
  BY <1>1, <1>2, ViewKept DEF parser
<1>5. pc' \in Commands => ArgvSoFar'
  <2>1. \A k : StartsBefore(argv[k])' = StartsBefore(argv[k])
    BY <1>4 DEF StartsBefore
  <2>2. QED
    BY <1>2, <1>3, <1>4, <2>1 DEF ArgvSoFar, Commands
<1>6. CASE Lookup(c)
  <2>1. pc = "lookup" /\ argc > 0 /\ Matches(c) /\ pc' = c /\ out' = out
    BY <1>6 DEF Lookup
  <2>2. out' = <<>>
    BY <2>1 DEF LInv, Spoken
  <2>3. pc' \in Commands /\ argc' > 0
    BY <1>4, <2>1
  <2>4. Matches(pc)'
    BY <1>4, <2>1 DEF Matches, StringAt
  <2>5. pc' \notin {"reading", "gobble", "scan", "lookup", "prompt"}
    BY <2>3 DEF Commands
  <2>6. QED
    BY <1>4, <1>5, <2>1, <2>2, <2>3, <2>4, <2>5 DEF LInv, Spoken, EveryLineAnswered
<1>7. CASE Warn
  <2>1. pc \in Commands /\ pc' = pc /\ Says(<<"warning">>) /\ \A k \in 1 .. Len(out) : out[k] # <<"warning">>
    BY <1>7 DEF Warn
  <2>2. out \in {<<>>, <<<<"warning">>>>} /\ argc > 0 /\ Matches(pc)
    BY <2>1 DEF LInv, Spoken
  <2>3. out = <<>>
    <3>1. ASSUME out = <<<<"warning">>>> PROVE FALSE
      <4>1. \A x : Len(<<x>>) = 1 /\ <<x>>[1] = x
        OBVIOUS
      <4>2. Len(out) = 1 /\ out[1] = <<"warning">>
        BY <3>1, <4>1
      <4>3. 1 \in 1 .. Len(out)
        BY <4>2, SMT
      <4>4. QED
        BY <2>1, <4>2, <4>3
    <3>2. QED
      BY <2>2, <3>1
  <2>4. out' = <<<<"warning">>>> /\ \E Messages : out' \in Seq(Messages)
    BY <2>1, <2>3, SaysMore DEF LInv
  <2>5. Matches(pc)' /\ argc' > 0
    BY <1>4, <2>1, <2>2 DEF Matches, StringAt
  <2>6. pc' \notin {"reading", "gobble", "scan", "lookup", "prompt"}
    BY <2>1 DEF Commands
  <2>7. QED
    BY <1>4, <1>5, <2>1, <2>4, <2>5, <2>6 DEF LInv, Spoken, EveryLineAnswered
<1>8. CASE Command(c)
  <2>1. pc = c /\ pc' = "prompt" /\ Says(<<"output of", c>>)
    BY <1>8 DEF Command, Goes
  <2>2. out \in {<<>>, <<<<"warning">>>>} /\ argc > 0 /\ Matches(c)
    BY <2>1 DEF LInv, Spoken
  <2>3. CommandNames[c] = Argument(0)
    BY <1>2, <2>2 DEF Matches
  <2>4. \A d \in Commands : CommandNames[d] = Argument(0) => d = c
    BY <2>3, MonitorAssumption DEF Commands
  <2>5. (CHOOSE d \in Commands : CommandNames[d] = Argument(0)) = c
    BY <2>3, <2>4
  <2>6. Answer = <<<<"output of", c>>>>
    BY <1>2, <2>2, <2>3, <2>5 DEF Answer
  <2>7. out' \in {Answer, <<<<"warning">>>> \o Answer} /\ \E Messages : out' \in Seq(Messages)
    BY <2>1, <2>2, <2>6, SaysMore DEF LInv
  <2>8. out' \in {Answer', <<<<"warning">>>> \o Answer'}
    BY <1>4, <2>7
  <2>9. QED
    BY <2>1, <2>7, <2>8 DEF LInv, Parsing, Commands, Spoken, EveryLineAnswered
<1>9. QED
  BY <1>6, <1>7, <1>8

LEMMA NextLInv == MInv /\ LInv /\ [Next]_vars => LInv'
<1> SUFFICES ASSUME MInv, LInv, [Next]_vars PROVE LInv'
  OBVIOUS
<1>1. CASE UNCHANGED vars
  <2>1. UNCHANGED <<parser, out, pc>> /\ UNCHANGED <<line, buf, at, argc, argv>>
    BY <1>1 DEF vars, parser
  <2>2. ArgvSoFar => ArgvSoFar'
    <3>1. Starts' = Starts /\ StartsBefore(at)' = StartsBefore(at) /\ StartsBefore(at + 1)' = StartsBefore(at + 1)
      BY <2>1 DEF StartsBefore, Starts
    <3>2. \A k : StartsBefore(argv[k])' = StartsBefore(argv[k])
      BY <2>1 DEF StartsBefore, Starts
    <3>3. QED
      BY <2>1, <3>1, <3>2 DEF ArgvSoFar
  <2>3. (LineSplit => LineSplit') /\ Answer' = Answer
    BY <2>1, ViewKept
  <2>4. (pc \in Commands /\ Matches(pc)) => Matches(pc)'
    BY <2>1 DEF Matches, StringAt
  <2>5. Spoken'
    BY <2>1, <2>3, <2>4 DEF LInv, Spoken, EveryLineAnswered
  <2>6. QED
    BY <2>1, <2>2, <2>3, <2>5 DEF LInv, Parsing
<1>2. CASE \E l_1 \in Lines : LineRead(l_1)
  BY <1>2, LineReadLInv
<1>3. CASE (\E c \in Commands : Lookup(c) \/ Command(c)) \/ Warn
  <2>1. "help" \in Commands
    BY DEF Commands
  <2>2. QED
    BY <1>3, <2>1, CommandLInv
<1>4. QED
  BY <1>1, <1>2, <1>3, Elsewhere, Prompts, GobbleLInv, EndOfLineLInv, TooManyLInv, SaveLInv, ScanLInv,
     EndOfArgumentLInv, NoCommandLInv, UnknownLInv DEF Next

LEMMA LInvAlways == Spec => [](MInv /\ LInv)
<1>1. Init => MInv /\ LInv
  BY InitMInv, InitLInv
<1>2. MInv /\ LInv /\ [Next]_vars => (MInv /\ LInv)'
  BY NextMInv, NextLInv
<1>3. QED
  BY <1>1, <1>2, PTL DEF Spec

-----------------------------------------------------------------------------
(***************************************************************************)
(* Whatever the line and MAXARGS, a command finds in argv the line's       *)
(* arguments, whole, in their order and with a NULL behind them, and       *)
(* runcmd does not look behind the line for them (monitor.c:78-101).       *)
(***************************************************************************)
THEOREM ArgumentsFound == Spec => []ArgvHoldsArguments
<1>1. MInv /\ LInv => ArgvHoldsArguments
  <2> SUFFICES ASSUME MInv, LInv PROVE ArgvHoldsArguments
    OBVIOUS
  <2>1. ASSUME pc \in {"gobble", "scan"} PROVE buf[at] # Old
    <3>1. /\ LineSplit
          /\ buf[at] # Nul => at \in 1 .. Len(line) /\ buf[at] = line[at]
      BY <2>1, AtCharacter DEF Parsing
    <3>2. QED
      BY <3>1 DEF LineSplit, Nul, Old
  <2>2. ASSUME pc \in {"lookup"} \cup Commands
        PROVE  /\ argc = Cardinality(Starts)
               /\ \A k \in 0 .. argc - 1 : StringAt(argv[k]) = Argument(k)
               /\ argv[argc] = NULL
    BY <2>2, LookupFacts
  <2>3. QED
    BY <2>1, <2>2 DEF ArgvHoldsArguments
<1>2. QED
  BY <1>1, LInvAlways, PTL

(***************************************************************************)
(* Every line of any length gets the answer it asks for and no other one,  *)
(* whatever warnings and panics come between (monitor.c:102-111).          *)
(***************************************************************************)
THEOREM LinesAnswered == Spec => []EveryLineAnswered
<1>1. LInv => EveryLineAnswered
  BY DEF LInv, Spoken
<1>2. QED
  BY <1>1, LInvAlways, PTL
=============================================================================
