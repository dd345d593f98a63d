---------------------------- MODULE MCConsoleLedger ----------------------------
(* Instances of ConsoleLedger for TLC: two distinguishable characters, and *)
(* more of them undelivered and stored than the ring holds.                *)
EXTENDS ConsoleLedger

MCChars == {65, 66}
=============================================================================
