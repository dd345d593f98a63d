-------------------------------- MODULE Readline --------------------------------
(***************************************************************************)
(* readline (lib/readline.c) on the display of Cga: the kernel monitor     *)
(* prints, reads a line, prints again.  One step per character that        *)
(* getchar returns, with the echo it causes.                               *)
(*                                                                         *)
(* getchar returns bytes from the console buffer, so c < 0 ("read error")  *)
(* cannot happen, and iscons always answers that readline shall echo.      *)
(***************************************************************************)
EXTENDS Cga, Sequences

CONSTANTS BUFLEN,    \* size of readline's static buffer
          Typed      \* the bytes getchar returns

DEL == 127

ASSUME TypedAssumption ==
  /\ Typed \subseteq 1 .. 255
  /\ {c \in Typed : c >= Blank} \subseteq Glyphs \cup {Blank}

(* The line fits on the screen under a full row; 1023 <= 2000 - 80 in JOS. *)
ASSUME BufAssumption ==
  /\ BUFLEN \in Nat /\ BUFLEN >= 2
  /\ BUFLEN - 1 <= CRT_SIZE - CRT_COLS

VARIABLES
  reading,     \* whether readline has been called and not returned
  buf,         \* readline's static buf
  i,           \* characters of it in use
  start        \* history: the cell the line being read starts on

rlVars == <<reading, buf, i, start>>

Init ==
  /\ CgaInit
  /\ reading = FALSE
  /\ buf = [k \in 0 .. BUFLEN - 1 |-> 0]
  /\ i = 0
  /\ start = 0

(* Commands and the prompt print through cprintf while no line is read. *)
Output ==
  /\ ~reading
  /\ CgaNext
  /\ UNCHANGED rlVars

(* readline, after its prompt was printed *)
Begin ==
  /\ ~reading
  /\ spaces = 0
  /\ reading' = TRUE
  /\ i' = 0
  /\ start' = crt_pos
  /\ UNCHANGED <<buf, cgaVars>>

(* cputchar(c); if that scrolls, the line's first cell moves up a row too. *)
Echo(c) ==
  /\ Putc(c)
  /\ start' = IF ScrolledOff(Place(Display, c)) THEN start - CRT_COLS ELSE start

Erases(c) == c \in {BS, DEL} /\ i > 0
Stores(c) == ~Erases(c) /\ c >= Blank /\ i < BUFLEN - 1
Ends(c) == ~Erases(c) /\ ~Stores(c) /\ c \in {NL, CR}

(* A faulty variant of Erase: the key itself is echoed. *)
EraseEchoesKey(c) ==
  /\ reading
  /\ Erases(c)
  /\ Echo(c)
  /\ i' = i - 1
  /\ UNCHANGED <<reading, buf>>

Erase(c) ==
  /\ reading
  /\ Erases(c)
  /\ Echo(BS)
  /\ i' = i - 1
  /\ UNCHANGED <<reading, buf>>

Store(c) ==
  /\ reading
  /\ Stores(c)
  /\ Echo(c)
  /\ buf' = [buf EXCEPT ![i] = c]
  /\ i' = i + 1
  /\ UNCHANGED reading

(* A faulty variant of Return: the line is not terminated. *)
ReturnUnterminated(c) ==
  /\ reading
  /\ Ends(c)
  /\ Echo(NL)
  /\ reading' = FALSE
  /\ UNCHANGED <<buf, i>>

Return(c) ==
  /\ reading
  /\ Ends(c)
  /\ Echo(NL)
  /\ buf' = [buf EXCEPT ![i] = 0]
  /\ reading' = FALSE
  /\ UNCHANGED i

Ignore(c) ==
  /\ reading
  /\ ~Erases(c) /\ ~Stores(c) /\ ~Ends(c)
  /\ UNCHANGED <<rlVars, cgaVars>>

Next ==
  \/ Output
  \/ Begin
  \/ \E c \in Typed : Erase(c) \/ Store(c) \/ Return(c) \/ Ignore(c)

vars == <<cgaVars, rlVars>>

Spec == Init /\ [][Next]_vars

-----------------------------------------------------------------------------
(* Properties *)

TypeOK ==
  /\ CgaTypeOK
  /\ reading \in BOOLEAN
  /\ buf \in [0 .. BUFLEN - 1 -> Typed \cup {0}]
  /\ i \in 0 .. BUFLEN - 1
  /\ start \in Int

(***************************************************************************)
(* What the user sees is what readline holds: at every moment of an edit   *)
(* the characters in buf stand on the screen from the cell where the line  *)
(* started up to the cursor, across line wraps, scrolling and backspaces   *)
(* over a row's end.  It needs BUFLEN to leave a row of the screen free:   *)
(* a longer line would scroll off the top and could not be erased.         *)
(***************************************************************************)
EchoMatchesBuffer ==
  reading => /\ start >= 0
             /\ crt_pos = start + i
             /\ \A k \in 0 .. i - 1 : crt_buf[start + k] = buf[k]

(* The C string in buf *)
Terminator == CHOOSE k \in 0 .. BUFLEN - 1 :
                buf[k] = 0 /\ \A j \in 0 .. k - 1 : buf[j] # 0
CString == [k \in 1 .. Terminator |-> buf[k - 1]]

(***************************************************************************)
(* The caller gets the line the user edited, not a byte of an earlier and  *)
(* longer one still lying in the static buffer.                            *)
(***************************************************************************)
Editor == INSTANCE LineEditor WITH
  editing <- reading,
  text <- [k \in 1 .. i |-> buf[k - 1]],
  line <- IF reading THEN <<>> ELSE CString,
  Chars <- {c \in Typed : c >= Blank},
  MaxLine <- BUFLEN - 1

ImplementsLineEditor == Editor!Spec
=============================================================================
