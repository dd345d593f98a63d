------------------------------ MODULE MCDebugInfo ------------------------------
(***************************************************************************)
(* debuginfo_eip on every table of a compiler and the linker; and          *)
(* stab_binsearch called by itself on every table and region of one entry  *)
(* less, which debuginfo_eip would not ask it for.                         *)
(***************************************************************************)
EXTENDS DebugInfo

SearchAlone ==
  /\ Init
  /\ match \subseteq 0 .. NStabs - 2 /\ last < NStabs - 1
  /\ types = [k \in Indices |-> "UNDF"] /\ named = {} /\ stabstrValid = FALSE /\ eip = 0
  /\ LocalsInit
  /\ stage = "returned"
SearchGoesOn ==
  /\ stage = "returned"
  /\ Next
  /\ UNCHANGED <<debug, locals, stage>>

MCInit == DInit \/ SearchAlone
MCNext == DNext \/ SearchGoesOn
MCSpec == MCInit /\ [][MCNext]_dvars /\ WF_dvars(MCNext)
=============================================================================
