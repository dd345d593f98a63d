------------------------------- MODULE KeyEvents -------------------------------
(***************************************************************************)
(* A keyboard as its user thinks of it: keys go down and up, the modifier  *)
(* pressed or released last counts, Caps Lock swaps the case of letters,   *)
(* and a key going down types at most one character.                       *)
(*                                                                         *)
(* Layout gives the characters of every key: for a letter its two cases,   *)
(* for the others what it types plain, with Shift and with Ctrl.           *)
(***************************************************************************)
EXTENDS Integers

CONSTANTS Keys, Layout,
          Attention     \* the character of the Delete key

NoModifier == "none"

VARIABLES event,     \* the last key event: {} or {<<key, "down" or "up">>}
          mods,      \* the modifiers and locks in force
          typed      \* the characters that event typed: none or one

vars == <<event, mods, typed>>

Init ==
  /\ event = {}
  /\ mods = {}
  /\ typed = {}

(* What key k types under the modifiers and locks m. *)
Meaning(k, m) ==
  IF "CTL" \in m THEN Layout[k].ctl
  ELSE IF Layout[k].letter /\ "CAPSLOCK" \in m
       THEN IF "SHIFT" \in m THEN Layout[k].plain ELSE Layout[k].shifted
       ELSE IF "SHIFT" \in m THEN Layout[k].shifted ELSE Layout[k].plain

Toggle(m, f) == IF f \in m THEN m \ {f} ELSE m \cup {f}

Press(k) ==
  /\ event' = {<<k, "down">>}
  /\ mods' = CASE Layout[k].modifier # NoModifier -> mods \cup {Layout[k].modifier}
               [] Layout[k].lock -> Toggle(mods, "CAPSLOCK")
               [] OTHER -> mods
  /\ typed' = {Meaning(k, mods')} \ {0}

Release(k) ==
  /\ event' = {<<k, "up">>}
  /\ mods' = mods \ {Layout[k].modifier}
  /\ typed' = {}

(* Ctrl, Alt and Delete together restart the machine. *)
Restart ==
  /\ {"CTL", "ALT"} \subseteq mods
  /\ typed = {Attention}
  /\ event' = {}
  /\ mods' = {}
  /\ typed' = {}

Next == Restart \/ \E k \in Keys : Press(k) \/ Release(k)

Spec == Init /\ [][Next]_vars
=============================================================================
