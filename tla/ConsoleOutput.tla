----------------------------- MODULE ConsoleOutput -----------------------------
(***************************************************************************)
(* cons_putc (kern/console.c): every character goes to the serial line, to *)
(* the printer and to the display, in that order.  The first two are slow: *)
(* they are polled until they can take a character, but not forever.       *)
(*                                                                         *)
(* A device takes a character from its register whenever it likes, between *)
(* any two steps of the kernel, or never.  What the display shows is the   *)
(* subject of Cga; here it is the text handed to it.                       *)
(***************************************************************************)
EXTENDS Integers, Sequences

CONSTANTS Chars,     \* the characters the kernel prints, the tab apart
          TAB, SPACE,
          LIMIT,     \* 12800: polls before a device is given up
          MaxChars   \* bound: calls of cputchar

ASSUME CharsAssumption == SPACE \in Chars /\ TAB \notin Chars
ASSUME LimitAssumption == LIMIT \in Nat

Ports == {"serial", "lpt"}

VARIABLES
  present,    \* the ports with a device behind them
  register,   \* what each device has been given and not yet taken
  pc,         \* "idle", or what cons_putc is doing: "poll", "write", "cga"
  port,       \* the port it polls or writes
  out,        \* the character being output, and those still to follow it
  polls,      \* polls made
  calls,      \* calls of cputchar so far
  due,        \* history: what all calls together must print
  toShow,     \* history: what they must put on the display
  received,   \* history: what each device has taken
  screen,     \* history: what was put there
  gaveUp      \* history: the ports that were written to without being ready

printed == <<calls, due, toShow>>
outputVars == <<present, register, pc, port, out, polls, printed, received, screen, gaveUp>>

OutputInit ==
  /\ present \in SUBSET Ports
  /\ register = [p \in Ports |-> <<>>]
  /\ pc = "idle"
  /\ port = "serial"
  /\ out = <<>>
  /\ polls = 0
  /\ calls = 0 /\ due = <<>> /\ toShow = <<>>
  /\ received = [p \in Ports |-> <<>>]
  /\ screen = <<>>
  /\ gaveUp = {}

(* The device behind p takes its character: it is ready again.  A port     *)
(* without a device reads as all ones, which looks ready.                  *)
Take(p) ==
  /\ register[p] # <<>>
  /\ received' = [received EXCEPT ![p] = @ \o register[p]]
  /\ register' = [register EXCEPT ![p] = <<>>]
  /\ UNCHANGED <<present, pc, port, out, polls, printed, screen, gaveUp>>

Ready(p) == p \notin present \/ register[p] = <<>>

(* cons_putc begins with the serial line. *)
Begin(s) == out' = s /\ pc' = "poll" /\ port' = "serial" /\ polls' = 0

FiveSpaces == [n \in 1 .. 5 |-> SPACE]

(* What c is on a device and on the display: a tab is printed, and then the *)
(* spaces that stand for it.                                                *)
Printed(c) == IF c = TAB THEN <<TAB>> \o FiveSpaces ELSE <<c>>
Shown(c) == IF c = TAB THEN FiveSpaces ELSE <<c>>

Cputchar(c) ==
  /\ pc = "idle"
  /\ calls < MaxChars
  /\ calls' = calls + 1
  /\ due' = due \o Printed(c)
  /\ toShow' = toShow \o Shown(c)
  /\ Begin(<<c>>)
  /\ UNCHANGED <<present, register, received, screen, gaveUp>>

PollForever(p) ==                  \* faulty variant: no limit
  /\ pc = "poll" /\ port = p
  /\ IF Ready(p) THEN pc' = "write" ELSE pc' = pc
  /\ polls' = polls /\ gaveUp' = gaveUp
  /\ UNCHANGED <<present, register, port, out, printed, received, screen>>

(* One turn of the loop: the port may become ready after it was read. *)
Poll(p) ==
  /\ pc = "poll" /\ port = p
  /\ IF Ready(p) \/ polls >= LIMIT
     THEN /\ pc' = "write" /\ polls' = polls
          /\ gaveUp' = IF Ready(p) THEN gaveUp ELSE gaveUp \cup {p}
     ELSE pc' = pc /\ polls' = polls + 1 /\ gaveUp' = gaveUp
  /\ UNCHANGED <<present, register, port, out, printed, received, screen>>

(* Writing to a device that has not taken the last character replaces it. *)
Write(p) ==
  /\ pc = "write" /\ port = p
  /\ register' = IF p \in present THEN [register EXCEPT ![p] = <<Head(out)>>] ELSE register
  /\ IF p = "serial" THEN pc' = "poll" /\ port' = "lpt" ELSE pc' = "cga" /\ port' = p
  /\ polls' = 0
  /\ UNCHANGED <<present, out, printed, received, screen, gaveUp>>

(* The rest of the characters, if any, go through cons_putc from its start. *)
Continue(s) ==
  IF s # <<>> THEN Begin(s) ELSE out' = s /\ pc' = "idle" /\ port' = port /\ polls' = polls

CgaTabOnScreen ==               \* faulty variant: the spaces go to the display only
  /\ pc = "cga"
  /\ screen' = screen \o IF Head(out) = TAB THEN FiveSpaces ELSE <<Head(out)>>
  /\ Continue(Tail(out))
  /\ UNCHANGED <<present, register, printed, received, gaveUp>>

(* cga_putc hands the five spaces of a tab to cons_putc, not to itself. *)
Cga ==
  /\ pc = "cga"
  /\ IF Head(out) = TAB
     THEN screen' = screen /\ Continue(FiveSpaces \o Tail(out))
     ELSE screen' = Append(screen, Head(out)) /\ Continue(Tail(out))
  /\ UNCHANGED <<present, register, printed, received, gaveUp>>

ConsPutc == Cga \/ \E p \in Ports : Poll(p) \/ Write(p)

OutputNext ==
  \/ \E c \in Chars \cup {TAB} : Cputchar(c)
  \/ ConsPutc
  \/ \E p \in Ports : Take(p)

OutputSpec == OutputInit /\ [][OutputNext]_outputVars

(* cons_putc runs on the only processor with interrupts off. *)
FairSpec == OutputSpec /\ WF_outputVars(ConsPutc)

-----------------------------------------------------------------------------
(* Properties *)

(***************************************************************************)
(* Between calls the display has shown everything, and every device that   *)
(* was never given up has taken, or is about to take, everything, once and *)
(* in order: whatever the other device does, and whenever it was polled.   *)
(***************************************************************************)
EverythingPrinted ==
  pc = "idle" =>
    /\ screen = toShow
    /\ \A p \in present \ gaveUp : received[p] \o register[p] = due

(***************************************************************************)
(* Every cputchar returns, even with devices that never become ready.      *)
(***************************************************************************)
PutcReturns == pc # "idle" ~> pc = "idle"
=============================================================================
