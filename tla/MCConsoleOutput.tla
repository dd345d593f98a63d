---------------------------- MODULE MCConsoleOutput ----------------------------
(* ConsoleOutput with a printable character apart from the space. *)
EXTENDS ConsoleOutput
CONSTANTS x
MCChars == {x, SPACE}
=============================================================================
