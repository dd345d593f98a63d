------------------------------- MODULE MCMonitor -------------------------------
(* One command's name begins the other's; every line of up to 5 characters. *)
EXTENDS Monitor

MCCommandNames == [help |-> <<"h">>, kerninfo |-> <<"h", "k">>]
MCLines == UNION {[1 .. n -> {"h", "k", Blank}] : n \in 0 .. 5}
=============================================================================
