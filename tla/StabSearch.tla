------------------------------ MODULE StabSearch ------------------------------
(***************************************************************************)
(* stab_binsearch (kern/kdebug.c): the binary search of a table in which   *)
(* only the entries of the wanted type are sorted by address.  One step    *)
(* per turn of a loop.                                                     *)
(*                                                                         *)
(* The entries of other types only matter for not being of the wanted      *)
(* type, so the table is the set of indices of the wanted type with an     *)
(* address for each.                                                       *)
(***************************************************************************)
EXTENDS Integers

CONSTANTS NStabs,    \* number of entries of the table
          AddrMax    \* largest uintptr_t

ASSUME StabsAssumption == NStabs \in Nat
ASSUME AddrAssumption == AddrMax \in Nat

Indices == 0 .. NStabs - 1
Addrs == 0 .. AddrMax

VARIABLES
  match,          \* the indices of the entries of the wanted type ...
  value,          \* ... and the n_value of every entry
  first, last,    \* the region the caller asked for
  target,         \* the address the caller asked for
  region_left, region_right,
  addr, l, r, m, true_m, any_matches,
  pc              \* "loop", "scan", "compare", "narrow", "done"

table == <<match, value, first, last, target>>
vars == <<table, region_left, region_right, addr, l, r, m, true_m, any_matches, pc>>

Sorted == \A j, k \in match : j < k => value[j] <= value[k]

Init ==
  /\ match \in SUBSET Indices
  /\ value \in [Indices -> Addrs]
  /\ Sorted
  /\ \A k \in Indices \ match : value[k] = 0
  /\ first \in Indices
  /\ last \in Indices /\ first <= last
  /\ target \in Addrs
  /\ region_left = first
  /\ region_right = last
  /\ addr = target
  /\ l = first
  /\ r = last
  /\ m = 0 /\ true_m = 0
  /\ any_matches = FALSE
  /\ pc = "loop"

(* while (l <= r): probe the middle *)
Probe ==
  /\ pc = "loop"
  /\ l <= r
  /\ true_m' = (l + r) \div 2
  /\ m' = (l + r) \div 2
  /\ pc' = "scan"
  /\ UNCHANGED <<table, region_left, region_right, addr, l, r, any_matches>>

(* look for an entry of the right type at or before the middle *)
Scan ==
  /\ pc = "scan"
  /\ m >= l
  /\ m \notin match
  /\ m' = m - 1
  /\ UNCHANGED <<table, region_left, region_right, addr, l, r, true_m, any_matches, pc>>

NoMatch ==
  /\ pc = "scan"
  /\ m < l
  /\ l' = true_m + 1
  /\ pc' = "loop"
  /\ UNCHANGED <<table, region_left, region_right, addr, r, m, true_m, any_matches>>

Found ==
  /\ pc = "scan"
  /\ m >= l
  /\ m \in match
  /\ any_matches' = TRUE
  /\ pc' = "compare"
  /\ UNCHANGED <<table, region_left, region_right, addr, l, r, m, true_m>>

Below ==
  /\ pc = "compare"
  /\ value[m] < addr
  /\ region_left' = m
  /\ l' = true_m + 1
  /\ pc' = "loop"
  /\ UNCHANGED <<table, region_right, addr, r, m, true_m, any_matches>>

AboveKeepsRight ==              \* faulty variant: region_right forgotten
  /\ pc = "compare"
  /\ value[m] > addr
  /\ r' = m - 1
  /\ pc' = "loop"
  /\ UNCHANGED <<table, region_left, region_right, addr, l, m, true_m, any_matches>>

Above ==
  /\ pc = "compare"
  /\ value[m] > addr
  /\ region_right' = m - 1
  /\ r' = m - 1
  /\ pc' = "loop"
  /\ UNCHANGED <<table, region_left, addr, l, m, true_m, any_matches>>

(* an exact match: go on looking for region_right, one address further *)
Exact ==
  /\ pc = "compare"
  /\ value[m] = addr
  /\ region_left' = m
  /\ l' = m
  /\ addr' = (addr + 1) % (AddrMax + 1)
  /\ pc' = "loop"
  /\ UNCHANGED <<table, region_right, r, m, true_m, any_matches>>

EmptyKeepsRight ==              \* faulty variant: the region left as it was
  /\ pc = "loop"
  /\ l > r
  /\ ~any_matches
  /\ pc' = "done"
  /\ UNCHANGED <<table, region_left, region_right, addr, l, r, m, true_m, any_matches>>

(* after the loop: no entry of the type at all ... *)
Empty ==
  /\ pc = "loop"
  /\ l > r
  /\ ~any_matches
  /\ region_right' = region_left - 1
  /\ pc' = "done"
  /\ UNCHANGED <<table, region_left, addr, l, r, m, true_m, any_matches>>

WidestPastRight ==              \* faulty variant: one entry too far
  /\ pc = "loop"
  /\ l > r
  /\ any_matches
  /\ l' = region_right + 1
  /\ pc' = "narrow"
  /\ UNCHANGED <<table, region_left, region_right, addr, r, m, true_m, any_matches>>

(* ... or find the rightmost region containing addr *)
Widest ==
  /\ pc = "loop"
  /\ l > r
  /\ any_matches
  /\ l' = region_right
  /\ pc' = "narrow"
  /\ UNCHANGED <<table, region_left, region_right, addr, r, m, true_m, any_matches>>

Narrow ==
  /\ pc = "narrow"
  /\ l > region_left
  /\ l \notin match
  /\ l' = l - 1
  /\ UNCHANGED <<table, region_left, region_right, addr, r, m, true_m, any_matches, pc>>

Finish ==
  /\ pc = "narrow"
  /\ l <= region_left \/ l \in match
  /\ region_left' = l
  /\ pc' = "done"
  /\ UNCHANGED <<table, region_right, addr, l, r, m, true_m, any_matches>>

Next ==
  \/ Probe \/ Scan \/ NoMatch \/ Found
  \/ Below \/ Above \/ Exact
  \/ Empty \/ Widest \/ Narrow \/ Finish

Spec == Init /\ [][Next]_vars

-----------------------------------------------------------------------------
(* Properties *)

TypeOK ==
  /\ match \subseteq Indices /\ value \in [Indices -> Addrs]
  /\ first \in Indices /\ last \in Indices /\ first <= last
  /\ target \in Addrs /\ addr \in Addrs
  /\ region_left \in Int /\ region_right \in Int
  /\ l \in Int /\ r \in Int /\ m \in Int /\ true_m \in Int
  /\ any_matches \in BOOLEAN
  /\ pc \in {"loop", "scan", "compare", "narrow", "done"}

(***************************************************************************)
(* Every entry that is read lies in the region the caller asked for: in    *)
(* the scan, the comparison, and the final loop, whose bounds come from    *)
(* two variables that different turns of the search set.                   *)
(***************************************************************************)
ReadsInside ==
  /\ pc = "scan" /\ m >= l => m \in first .. last
  /\ pc = "compare" => m \in first .. last
  /\ pc = "narrow" /\ l > region_left => l \in first .. last

(* The entries of the region that start at or before the target *)
Region == {k \in match : first <= k /\ k <= last}
Containing == {k \in Region : value[k] <= target}

(* The last entry of the type with an address up to the target, and where *)
(* the following one begins.                                               *)
IsContainer(k) == k \in Containing /\ \A j \in Containing : j <= k
EndsBefore(k, e) ==
  /\ e \in k .. last
  /\ \A j \in Region : j <= k \/ j > e
  /\ e = last \/ e + 1 \in Region

(* An entry starts exactly at the target and another one byte later. *)
OneByteEntry == \E j, k \in Region : value[j] = target /\ value[k] = target + 1
(* Entry k comes behind the target and one-byte entries only. *)
BehindOneByte(k) ==
  /\ k \in Region /\ value[k] > target
  /\ \A a \in target .. value[k] : \E j \in Region : value[j] = a
(* addr++ never passes the last address. *)
Unwrapped == target < AddrMax /\ (OneByteEntry => \A k \in Region : value[k] < AddrMax)

(***************************************************************************)
(* What the comment at kdebug.c:20-34 promises, as far as it holds: if     *)
(* some entry contains the target the search returns that entry and the    *)
(* end of its region.  Only if the entry is one byte long, and starts at   *)
(* the target, may addr++ (kdebug.c:80) have taken it to one behind, and   *)
(* then it has passed one-byte entries only.                               *)
(***************************************************************************)
FindsContainer ==
  pc = "done" /\ Containing # {} /\ Unwrapped
    => \/ IsContainer(region_left) /\ EndsBefore(region_left, region_right)
       \/ BehindOneByte(region_left)

(***************************************************************************)
(* Without any entry of the type in the region the result is empty.        *)
(***************************************************************************)
EmptyWithoutMatch == pc = "done" /\ Region = {} => region_left > region_right

=============================================================================
