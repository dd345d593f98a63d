------------------------------- MODULE DebugInfo -------------------------------
(***************************************************************************)
(* debuginfo_eip (kern/kdebug.c): finds the file, the function and its     *)
(* arguments for an instruction address, with stab_binsearch called once   *)
(* for the entries of type N_SO and once, in the region that leaves, for   *)
(* those of type N_FUN.  The search for the line number is missing in the  *)
(* code (line 181), so what follows it starts at the function's entry.     *)
(***************************************************************************)
EXTENDS StabSearch

CONSTANT ULIM          \* where the kernel's addresses begin

(* the table has its header *)
ASSUME HeaderAssumption == NStabs > 0 /\ ULIM \in Nat

Types == {"UNDF", "SO", "SOL", "FUN", "PSYM", "SLINE"}
Unknown == -1          \* "<unknown>"

VARIABLES
  types,               \* n_type of every entry
  named,               \* the entries whose n_strx lies in the string table
  stabstrValid,        \* the string table is not empty and ends in a 0
  eip,                 \* the address asked for
  lfile, rfile, lfun, rfun, lline,
  info,                \* struct Eipdebuginfo; an entry stands for its string
  ret,
  stage                \* "start", "file", "fun", "names", "args", "returned", "panic"

debug == <<types, value, named, stabstrValid, eip>>
locals == <<lfile, rfile, lfun, rfun, lline, info, ret>>
dvars == <<vars, debug, locals, stage>>

OfType(t) == {k \in Indices : types[k] = t}

(* stab_binsearch(stabs, &left, &right, t, eip) *)
Search(t, left, right) ==
  /\ match' = OfType(t)
  /\ first' = left /\ last' = right /\ target' = eip
  /\ region_left' = left /\ region_right' = right
  /\ addr' = eip /\ l' = left /\ r' = right
  /\ m' = 0 /\ true_m' = 0 /\ any_matches' = FALSE
  /\ pc' = "loop"
NoSearch == UNCHANGED vars

Return(n) == ret' = n /\ stage' = "returned"

Start ==
  /\ stage = "start"
  /\ info' = [eip_file |-> Unknown, eip_fn_name |-> Unknown, eip_fn_addr |-> eip, eip_fn_narg |-> 0]
  /\ UNCHANGED <<debug, lfile, rfile, lfun, rfun, lline>>
  /\ \/ eip < ULIM /\ stage' = "panic" /\ NoSearch /\ UNCHANGED ret
     \/ eip >= ULIM /\ ~stabstrValid /\ Return(-1) /\ NoSearch
     \/ eip >= ULIM /\ stabstrValid /\ Search("SO", 0, NStabs - 1) /\ stage' = "file" /\ UNCHANGED ret

Searching ==
  /\ stage \in {"file", "fun"}
  /\ Next
  /\ UNCHANGED <<debug, locals, stage>>

FileFoundUnchecked ==  \* faulty variant: the region alone says whether there is a file
  /\ stage = "file" /\ pc = "done"
  /\ lfile' = region_left /\ rfile' = region_right
  /\ UNCHANGED <<debug, lfun, rfun, lline, info>>
  /\ \/ region_left > region_right /\ Return(-1) /\ NoSearch
     \/ region_left <= region_right /\ Search("FUN", region_left, region_right) /\ stage' = "fun" /\ UNCHANGED ret

(* entry 0 is the table's header: lfile is 0 if no file was found *)
FileFound ==
  /\ stage = "file" /\ pc = "done"
  /\ lfile' = region_left /\ rfile' = region_right
  /\ UNCHANGED <<debug, lfun, rfun, lline, info>>
  /\ \/ region_left = 0 /\ Return(-1) /\ NoSearch
     \/ region_left # 0 /\ Search("FUN", region_left, region_right) /\ stage' = "fun" /\ UNCHANGED ret

FunInRegionStrict == region_left < region_right     \* faulty variant: < for <=
FunInRegion == region_left <= region_right
FunFound ==
  /\ stage = "fun" /\ pc = "done"
  /\ lfun' = region_left /\ rfun' = region_right
  /\ IF FunInRegion
       THEN /\ info' = [info EXCEPT !.eip_fn_name = IF region_left \in named THEN region_left ELSE @,
                                    !.eip_fn_addr = value[region_left]]
            /\ lline' = region_left
       ELSE /\ info' = [info EXCEPT !.eip_fn_addr = eip]
            /\ lline' = lfile
  /\ stage' = "names"
  /\ NoSearch /\ UNCHANGED <<debug, lfile, rfile, ret>>

(* back to the entry that names the source file *)
NamesFile(k) == types[k] = "SOL" \/ (types[k] = "SO" /\ value[k] # 0)
BackwardUnbounded ==   \* faulty variant: lline >= lfile forgotten
  /\ stage = "names" /\ ~NamesFile(lline)
  /\ lline' = lline - 1
  /\ NoSearch /\ UNCHANGED <<debug, lfile, rfile, lfun, rfun, info, ret, stage>>
BackwardStays ==       \* faulty variant: nothing is decremented
  /\ stage = "names" /\ lline >= lfile /\ ~NamesFile(lline)
  /\ UNCHANGED dvars
Backward ==
  /\ stage = "names" /\ lline >= lfile /\ ~NamesFile(lline)
  /\ lline' = lline - 1
  /\ NoSearch /\ UNCHANGED <<debug, lfile, rfile, lfun, rfun, info, ret, stage>>

NameFile ==
  /\ stage = "names" /\ (lline < lfile \/ NamesFile(lline))
  /\ info' = [info EXCEPT !.eip_file = IF lline >= lfile /\ lline \in named THEN lline ELSE @]
  /\ IF lfun < rfun THEN lline' = lfun + 1 /\ stage' = "args" /\ UNCHANGED ret
                    ELSE Return(0) /\ UNCHANGED lline
  /\ NoSearch /\ UNCHANGED <<debug, lfile, rfile, lfun, rfun>>

Parameter(k) == k < rfun /\ types[k] = "PSYM"
CountArg ==
  /\ stage = "args" /\ Parameter(lline)
  /\ info' = [info EXCEPT !.eip_fn_narg = @ + 1]
  /\ lline' = lline + 1
  /\ NoSearch /\ UNCHANGED <<debug, lfile, rfile, lfun, rfun, ret, stage>>
EndArgs ==
  /\ stage = "args" /\ ~Parameter(lline)
  /\ Return(0)
  /\ NoSearch /\ UNCHANGED <<debug, lfile, rfile, lfun, rfun, lline, info>>

DNext == Start \/ Searching \/ FileFound \/ FunFound \/ Backward \/ NameFile \/ CountArg \/ EndArgs

(***************************************************************************)
(* Tables as a compiler and the linker make them: a header; files in the   *)
(* order of their addresses, each with its functions behind it in theirs;  *)
(* a function's parameters directly behind it, and its lines behind those. *)
(***************************************************************************)
Starts == OfType("SO") \cup OfType("FUN")
FileOf(k) == CHOOSE f \in {0} \cup OfType("SO") :
               f <= k /\ \A g \in OfType("SO") : g <= k => g <= f
WellTyped ==
  /\ \A k \in Indices : (types[k] = "UNDF") <=> (k = 0)
  /\ \A k \in OfType("FUN") : FileOf(k) # 0
  /\ \A k \in OfType("PSYM") : /\ types[k - 1] \in {"FUN", "PSYM"}
                               /\ k + 1 \in Indices /\ types[k + 1] \in {"PSYM", "SLINE"}
WellAddressed ==
  /\ \A j, k \in Starts : j < k => value[j] <= value[k]
  /\ \A k \in OfType("FUN"), f \in OfType("SO") : k < f => value[k] < value[f]

LocalsInit ==
  /\ lfile = 0 /\ rfile = 0 /\ lfun = 0 /\ rfun = 0 /\ lline = 0
  /\ info = [eip_file |-> Unknown, eip_fn_name |-> Unknown, eip_fn_addr |-> 0, eip_fn_narg |-> 0]
  /\ ret = 0

(* before the call, with no search made: its region is empty *)
DInit ==
  /\ types \in [Indices -> Types]
  /\ WellTyped
  /\ \E v \in [Starts -> Addrs] : value = [k \in Indices |-> IF k \in Starts THEN v[k] ELSE 0]
  /\ WellAddressed
  /\ named \in {Indices, {}} /\ stabstrValid \in BOOLEAN
  /\ eip \in Addrs
  /\ match = {} /\ first = 0 /\ last = 0 /\ target = 0
  /\ region_left = 0 /\ region_right = -1 /\ addr = 0 /\ l = 0 /\ r = 0
  /\ m = 0 /\ true_m = 0 /\ any_matches = FALSE /\ pc = "done"
  /\ LocalsInit
  /\ stage = "start"

(* sequential code that runs until it returns *)
DSpec == DInit /\ [][DNext]_dvars /\ WF_dvars(DNext)

-----------------------------------------------------------------------------
(* Properties *)

(***************************************************************************)
(* Every entry the three loops and the two searches read lies in the file  *)
(* that was found, for the searches in what was given to them              *)
(* (kdebug.c:142-202).                                                     *)
(***************************************************************************)
TableReadsInside ==
  /\ stage \in {"file", "fun"} => ReadsInside
  /\ stage = "names" => lline \in lfile - 1 .. rfile      \* read from lfile on
  /\ stage = "args" => lline \in lfun .. rfun             \* read before rfun

(* the file and, in it, the function whose code the address lies in *)
Files == {k \in OfType("SO") : value[k] <= eip}
Functions == {k \in OfType("FUN") : value[k] <= eip /\ FileOf(k) = FileOf(lfile)}
Last(S) == CHOOSE k \in S : \A j \in S : j <= k
(* entries one byte long, which the search passes over (see FindsContainer) *)
OneByteLong == \E j, k \in Starts : types[j] = types[k] /\ value[j] = eip /\ value[k] = eip + 1
Answered == stage = "returned" /\ stabstrValid /\ ~OneByteLong /\ eip < AddrMax

(* debuginfo_eip fails exactly for an address before the first file (kdebug.c:143). *)
FailsWithoutFile == Answered => (ret = -1 <=> Files = {})

(***************************************************************************)
(* The function reported is the one the address lies in, if there is one,  *)
(* with all of its parameters; and the file is the one last named before   *)
(* its entry (kdebug.c:152-203).                                           *)
(***************************************************************************)
ArgumentsOf(f) ==
  {k \in OfType("PSYM") : k > f /\ \A j \in f + 1 .. k : types[j] = "PSYM"}
FunctionFound ==
  Answered /\ ret = 0 /\ Functions # {} =>
    LET f == Last(Functions)
        source == Last({k \in FileOf(f) .. f : NamesFile(k)} \cup {Unknown})
    IN /\ info.eip_fn_addr = value[f]
       /\ info.eip_fn_name = IF f \in named THEN f ELSE Unknown
       /\ info.eip_fn_narg = \* as many as there are
            (CHOOSE n \in 0 .. NStabs : ArgumentsOf(f) = f + 1 .. f + n)
       /\ info.eip_file = IF source \in named THEN source ELSE Unknown

(* debuginfo_eip returns or panics: neither search nor walk goes on for ever (kdebug.c:100-206). *)
Answers == <>(stage \in {"returned", "panic"})
=============================================================================
