-------------------------------- MODULE Monitor --------------------------------
(***************************************************************************)
(* i386_init from the console on, the kernel monitor with its command      *)
(* parser, and _panic and _warn, which a command may call                  *)
(* (kern/init.c, kern/monitor.c).  What is printed is a sequence of        *)
(* messages; a line from readline is taken apart in readline's own buffer, *)
(* one step per character.                                                 *)
(***************************************************************************)
EXTENDS Integers, Sequences, FiniteSets

CONSTANTS MAXARGS,
          Lines,        \* what the user enters: sequences of characters
          CommandNames, \* the commands' names, as such sequences
          Depth,        \* the argument of test_backtrace: 5
          MaxPanics     \* bounds the calls of panic, for TLC

Blank == " "            \* readline stores no other character of WHITESPACE
Nul == "0"
Old == "old"            \* what an earlier line has left behind the terminating 0
NULL == 0               \* in argv; positions in buf start at 1
Junk == -1              \* in argv: not initialized
NotYet == "NULL"        \* in panicstr
NoLine == <<Nul>>       \* none has been read
Commands == {"help", "kerninfo"}

ASSUME MonitorAssumption ==
  /\ MAXARGS \in Nat \ {0} /\ Depth \in Nat /\ MaxPanics \in Nat
  /\ DOMAIN CommandNames = Commands /\ CommandNames["help"] # CommandNames["kerninfo"]
  /\ \A l \in Lines \cup {CommandNames[c] : c \in Commands} :
       l \in Seq(STRING) /\ \A k \in 1 .. Len(l) : l[k] \notin {Nul, Old}

VARIABLES
  pc,
  frames,              \* the calls of test_backtrace, the last one first
  line,                \* history: what readline returned
  buf, at,             \* the buffer and runcmd's pointer into it
  argc, argv,
  out,                 \* messages since the line was read
  panicstr,
  panics,              \* calls of panic, for the bound
  said                 \* history: the messages of panics, all of them

parser == <<line, buf, at, argc, argv>>
panic == <<panicstr, panics, said>>
vars == <<pc, frames, parser, out, panic>>

Says(m) == out' = Append(out, m)
Goes(from, to) == pc = from /\ pc' = to

Init ==
  /\ pc = "start" /\ frames = <<>> /\ out = <<>>
  /\ line = NoLine /\ buf = <<Nul>> /\ at = 1 /\ argc = 0 /\ argv = [k \in 0 .. MAXARGS - 1 |-> Junk]
  /\ panicstr = NotYet /\ panics = 0 /\ said = <<>>

-----------------------------------------------------------------------------
(* i386_init *)

ConsInit ==            \* says so if there is no serial port
  /\ Goes("start", "octal")
  /\ out' \in {<<>>, <<<<"no serial port">>>>}
  /\ UNCHANGED <<frames, parser, panic>>

Octal ==
  /\ Goes("octal", "enter")
  /\ Says(<<"6828 decimal">>)
  /\ frames' = <<Depth>>
  /\ UNCHANGED <<parser, panic>>

Enter ==               \* and mon_backtrace, a stub, at the end of the recursion
  /\ pc = "enter"
  /\ Says(<<"entering", Head(frames)>>)
  /\ IF Head(frames) > 0
       THEN frames' = <<Head(frames) - 1>> \o frames /\ UNCHANGED pc
       ELSE pc' = "leave" /\ UNCHANGED frames
  /\ UNCHANGED <<parser, panic>>

Leave ==
  /\ pc = "leave"
  /\ Says(<<"leaving", Head(frames)>>)
  /\ frames' = Tail(frames)
  /\ pc' = IF frames' = <<>> THEN "monitor" ELSE "leave"
  /\ UNCHANGED <<parser, panic>>

-----------------------------------------------------------------------------
(* monitor: its loop is never left, since no command returns -1. *)

Welcome ==
  /\ Goes("monitor", "prompt")
  /\ Says(<<"welcome">>)
  /\ UNCHANGED <<frames, parser, panic>>

(* readline is called; the last line is over, its characters still in the buffer ... *)
Readline ==
  /\ Goes("prompt", "reading")
  /\ line' = NoLine
  /\ buf' = <<Old>>
  /\ at' = 1 /\ argc' = 0 /\ argv' = [k \in 0 .. MAXARGS - 1 |-> Junk]
  /\ out' = <<>>
  /\ UNCHANGED <<frames, panic>>

(* ... and returns the next one to runcmd *)
LineRead(l) ==
  /\ Goes("reading", "gobble")
  /\ line' = l
  /\ buf' = l \o <<Nul, Old>>
  /\ argv' = [argv EXCEPT ![0] = NULL]
  /\ UNCHANGED <<frames, at, argc, out, panic>>

-----------------------------------------------------------------------------
(* runcmd *)

GobbleKeeps ==         \* faulty variant: the blank stays
  /\ Goes("gobble", "gobble") /\ buf[at] = Blank
  /\ at' = at + 1
  /\ UNCHANGED <<frames, line, buf, argc, argv, out, panic>>

GobbleStays ==         \* faulty variant: the pointer stays
  /\ Goes("gobble", "gobble") /\ buf[at] = Blank
  /\ UNCHANGED <<frames, parser, out, panic>>

Gobble ==
  /\ Goes("gobble", "gobble") /\ buf[at] = Blank
  /\ buf' = [buf EXCEPT ![at] = Nul]
  /\ at' = at + 1
  /\ UNCHANGED <<frames, line, argc, argv, out, panic>>

EndOfLine ==
  /\ Goes("gobble", "lookup") /\ buf[at] = Nul
  /\ argv' = [argv EXCEPT ![argc] = NULL]
  /\ UNCHANGED <<frames, line, buf, at, argc, out, panic>>

FullLate == argc = MAXARGS     \* faulty variant: no room for the NULL
Full == argc = MAXARGS - 1
AtArgument == pc = "gobble" /\ buf[at] \notin {Blank, Nul}

TooMany ==
  /\ AtArgument /\ Full
  /\ Says(<<"too many arguments">>)
  /\ pc' = "prompt"
  /\ UNCHANGED <<frames, parser, panic>>

SaveArgument ==
  /\ AtArgument /\ ~Full
  /\ argv' = [argv EXCEPT ![argc] = at]
  /\ argc' = argc + 1
  /\ pc' = "scan"
  /\ UNCHANGED <<frames, line, buf, at, out, panic>>

InArgument == buf[at] \notin {Blank, Nul}

ScanArgument ==
  /\ Goes("scan", "scan") /\ InArgument
  /\ at' = at + 1
  /\ UNCHANGED <<frames, line, buf, argc, argv, out, panic>>

EndOfArgument ==
  /\ Goes("scan", "gobble") /\ ~InArgument
  /\ UNCHANGED <<frames, parser, out, panic>>

(* the string at a position of the buffer: up to its terminating 0 *)
StringAt(p) ==
  LET end == CHOOSE q \in p .. Len(buf) : buf[q] = Nul /\ \A r \in p .. q - 1 : buf[r] # Nul
  IN SubSeq(buf, p, end - 1)

MatchesStart(c) ==     \* faulty variant: strncmp with the length of the name
  LET n == Len(CommandNames[c])
  IN n <= Len(StringAt(argv[0])) /\ SubSeq(StringAt(argv[0]), 1, n) = CommandNames[c]
Matches(c) == StringAt(argv[0]) = CommandNames[c]

NoCommand ==
  /\ Goes("lookup", "prompt") /\ argc = 0
  /\ UNCHANGED <<frames, parser, out, panic>>

Lookup(c) ==
  /\ pc = "lookup" /\ argc > 0
  /\ Matches(c)
  /\ pc' = c
  /\ UNCHANGED <<frames, parser, out, panic>>

Unknown ==
  /\ Goes("lookup", "prompt") /\ argc > 0
  /\ \A c \in Commands : ~Matches(c)
  /\ Says(<<"unknown command", StringAt(argv[0])>>)
  /\ UNCHANGED <<frames, parser, panic>>

(* mon_help prints a line per command, mon_kerninfo about the kernel's symbols *)
Command(c) ==
  /\ Goes(c, "prompt")
  /\ Says(<<"output of", c>>)
  /\ UNCHANGED <<frames, parser, panic>>

-----------------------------------------------------------------------------
(***************************************************************************)
(* _panic may be called by a command, and by what _panic itself calls to   *)
(* print its message.  It never returns, so the monitor it ends in is one  *)
(* more call on the stack.                                                 *)
(***************************************************************************)
CanPanic == pc \in Commands \cup {"panic.head", "panic.text"} /\ panics < MaxPanics

PanicUnmarked(fmt) ==  \* faulty variant: panicstr is not set
  /\ CanPanic
  /\ panicstr = NotYet
  /\ pc' = "panic.head"
  /\ panics' = panics + 1
  /\ UNCHANGED <<frames, parser, out, said, panicstr>>

Panic(fmt) ==
  /\ CanPanic
  /\ panicstr = NotYet
  /\ panicstr' = fmt
  /\ pc' = "panic.head"
  /\ panics' = panics + 1
  /\ UNCHANGED <<frames, parser, out, said>>

PanicAgain ==          \* dead:
  /\ CanPanic
  /\ panicstr # NotYet
  /\ pc' = "monitor"
  /\ panics' = panics + 1
  /\ UNCHANGED <<frames, parser, out, panicstr, said>>

PanicHead ==           \* file and line
  /\ Goes("panic.head", "panic.text")
  /\ said' = Append(said, "head")
  /\ UNCHANGED <<frames, parser, out, panicstr, panics>>

PanicText ==
  /\ Goes("panic.text", "monitor")
  /\ said' = Append(said, panicstr)
  /\ UNCHANGED <<frames, parser, out, panicstr, panics>>

(* _warn: prints and returns; at most once per command, for TLC *)
Warn ==
  /\ pc \in Commands
  /\ \A k \in 1 .. Len(out) : out[k] # <<"warning">>
  /\ Says(<<"warning">>)
  /\ UNCHANGED <<pc, frames, parser, panic>>

Next ==
  \/ ConsInit \/ Octal \/ Enter \/ Leave \/ Welcome
  \/ Readline
  \/ \E l \in Lines : LineRead(l)
  \/ Gobble \/ EndOfLine \/ TooMany \/ SaveArgument \/ ScanArgument \/ EndOfArgument
  \/ NoCommand \/ Unknown
  \/ \E c \in Commands : Lookup(c) \/ Command(c)
  \/ \E fmt \in {"assertion", "other"} : Panic(fmt)
  \/ PanicAgain \/ PanicHead \/ PanicText \/ Warn

(* The kernel runs; the user enters a line. *)
Spec == Init /\ [][Next]_vars /\ WF_vars(Next)

-----------------------------------------------------------------------------
TypeOK ==
  /\ at \in 1 .. Len(buf)
  /\ argc \in 0 .. MAXARGS - 1
  /\ DOMAIN argv = 0 .. MAXARGS - 1
  /\ \A k \in 0 .. MAXARGS - 1 : argv[k] \in -1 .. Len(buf)
  /\ panicstr \in {NotYet, "assertion", "other"}
  /\ panics \in 0 .. MaxPanics

(* The line's arguments, as a reader sees them: where they start and end *)
Starts == {p \in 1 .. Len(line) : line[p] # Blank /\ (p = 1 \/ line[p - 1] = Blank)}
Last(p) ==
  CHOOSE q \in p .. Len(line) :
    (\A r \in p .. q : line[r] # Blank) /\ (q = Len(line) \/ line[q + 1] = Blank)
Argument(k) ==
  LET p == CHOOSE p \in Starts : Cardinality({q \in Starts : q < p}) = k
  IN SubSeq(line, p, Last(p))

(***************************************************************************)
(* runcmd never reads behind the line: what an earlier, longer line left   *)
(* in the static buffer is not taken for arguments (readline.c:5).  When a *)
(* command is looked up and runs, argv holds the line's arguments, each    *)
(* ended by a 0 in the shared buffer, and NULL after the last, which is    *)
(* still in argv (monitor.c:89, 97).                                       *)
(***************************************************************************)
ArgvHoldsArguments ==
  /\ pc \in {"gobble", "scan"} => buf[at] # Old
  /\ pc \in {"lookup"} \cup Commands =>
       /\ argc = Cardinality(Starts)
       /\ \A k \in 0 .. argc - 1 : StringAt(argv[k]) = Argument(k)
       /\ argv[argc] = NULL

(***************************************************************************)
(* Every line is answered, and by nothing else than what it asks for, but  *)
(* for a warning that comes before it, unless the kernel panics.           *)
(***************************************************************************)
Answer ==
  IF Starts = {} THEN <<>>
  ELSE IF Cardinality(Starts) >= MAXARGS THEN <<<<"too many arguments">>>>
  ELSE IF \E c \in Commands : CommandNames[c] = Argument(0)
    THEN <<<<"output of", CHOOSE c \in Commands : CommandNames[c] = Argument(0)>>>>
  ELSE <<<<"unknown command", Argument(0)>>>>
EveryLineAnswered ==
  pc = "prompt" /\ line # NoLine /\ (\A k \in 1 .. Len(out) : out[k] # <<"welcome">>)
    => out \in {Answer, <<<<"warning">>>> \o Answer}

(***************************************************************************)
(* The message of the first panic is printed, whole or as far as the next  *)
(* panic let it, and never another one (init.c:47-50).                     *)
(***************************************************************************)
PanicSaidOnce == said = SubSeq(<<"head", panicstr>>, 1, Len(said)) /\ Len(said) <= 2

(* Whatever happens, the user gets a prompt again. *)
BackToPrompt == []<>(pc = "prompt")
=============================================================================
