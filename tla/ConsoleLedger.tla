---------------------------- MODULE ConsoleLedger ----------------------------
(***************************************************************************)
(* ConsoleInput with the books kept: how many characters were stored in    *)
(* the console buffer, how many were handed out, and how often the ring    *)
(* overran.  The history variables only observe the steps of ConsoleInput. *)
(***************************************************************************)
EXTENDS ConsoleInput

CONSTANT MaxStored       \* bounds the characters stored, for TLC
ASSUME MaxStoredAssumption == MaxStored \in Nat

VARIABLES stored,        \* characters cons_intr has put into cons.buf
          taken,         \* characters cons_getc has handed out
          laps           \* times wpos caught up with rpos

ledger == <<stored, taken, laps>>

LedgerInit == Init /\ stored = 0 /\ taken = 0 /\ laps = 0

Observe ==
  /\ stored' = IF wpos' # wpos THEN stored + 1 ELSE stored
  /\ laps' = IF wpos' # wpos /\ wpos' = rpos THEN laps + 1 ELSE laps
  /\ taken' = IF rpos' # rpos THEN taken + 1 ELSE taken

(* No more bytes arrive once the bound is reached; the rest goes on. *)
LedgerNext ==
  \/ Kernel /\ Observe
  \/ Devices /\ stored + InFlight' <= MaxStored /\ Observe

LedgerSpec == LedgerInit /\ [][LedgerNext]_<<vars, ledger>>
FairLedgerSpec == LedgerSpec /\ Fairness

(***************************************************************************)
(* Nothing is lost but by overruns, and an overrun loses exactly one ring  *)
(* of characters: every character stored was handed out, still waits, or   *)
(* went with the CONSBUFSIZE characters of one lap of cons_intr.           *)
(***************************************************************************)
Conservation == stored = taken + Pending + CONSBUFSIZE * laps

(***************************************************************************)
(* Only the mouse and an overrun lose a key: as long as the mouse never    *)
(* sends a byte and the ring never overruns, whatever arrives on the       *)
(* serial line, getchar returns every character typed.                     *)
(***************************************************************************)
DeliveredUnlessLost == [](ob # Mouse /\ laps = 0) => KeyDelivered
=============================================================================
