---------------------------- MODULE MCConsoleInput ----------------------------
(* Instances of ConsoleInput for TLC. *)
EXTENDS ConsoleInput

(* Two distinguishable characters; TypeAhead is set per run, above the ring's *)
(* capacity to make it overrun and below it to keep it lossless.              *)
MCChars == {65, 66}
=============================================================================
