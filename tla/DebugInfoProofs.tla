---------------------------- MODULE DebugInfoProofs ----------------------------
(***************************************************************************)
(* Proof that stab_binsearch reads no entry outside the region it was      *)
(* given and finds the entry containing the address; and that with it      *)
(* debuginfo_eip reads no entry outside the file it found, fails exactly   *)
(* for an address before the first file, and reports the function the      *)
(* address lies in, with its file and its parameters, for tables and       *)
(* addresses of any size.                                                  *)
(***************************************************************************)
EXTENDS DebugInfo, WellFoundedInduction, TLAPS

-----------------------------------------------------------------------------
(* stab_binsearch *)

(* Where the positions stand at every point of the code.  region_left and  *)
(* region_right, which bound the final loop, never leave the region: the   *)
(* probe does not, and the scan stops at l.                                *)
Positions ==
  /\ r <= last
  /\ pc # "narrow" => first <= l
  /\ region_left \in first .. last
  /\ region_right <= last
  /\ pc \in {"scan", "compare"} => l <= true_m /\ true_m <= r /\ l - 1 <= m /\ m <= true_m
  /\ pc = "compare" => l <= m
  /\ pc = "narrow" => l <= last

(* Before the search returns; afterwards nothing is read any more. *)
IInv == TypeOK /\ (pc # "done" => Positions)

LEMMA Middle ==
  ASSUME NEW a \in Int, NEW b \in Int, a <= b
  PROVE  (a + b) \div 2 \in Int /\ a <= (a + b) \div 2 /\ (a + b) \div 2 <= b
  BY SMT

LEMMA WrappedAddr ==
  ASSUME NEW a \in Addrs
  PROVE  (a + 1) % (AddrMax + 1) \in Addrs
  BY AddrAssumption, SMT DEF Addrs

(* What a caller hands to the search.  The entries of other types may hold *)
(* any value.                                                              *)
Begun ==
  /\ match \subseteq Indices /\ value \in [Indices -> Addrs] /\ Sorted
  /\ first \in Indices /\ last \in Indices /\ first <= last /\ target \in Addrs
  /\ region_left = first /\ region_right = last /\ l = first /\ r = last
  /\ addr = target /\ m = 0 /\ true_m = 0 /\ any_matches = FALSE /\ pc = "loop"

LEMMA InitBegun == Init => Begun
  BY DEF Init, Begun

LEMMA BegunIInv == Begun => IInv
<1> SUFFICES ASSUME Begun PROVE IInv
  OBVIOUS
<1> USE DEF Begun, Indices
<1>1. match \subseteq Indices /\ value \in [Indices -> Addrs] /\ target \in Addrs /\ addr \in Addrs
  OBVIOUS
<1>2. first \in Indices /\ last \in Indices /\ first <= last
  OBVIOUS
<1>3. first \in Int /\ last \in Int
  BY <1>2, StabsAssumption
<1>4. Positions
  BY <1>2, <1>3, SMT DEF Positions
<1>5. any_matches \in BOOLEAN /\ pc \in {"loop", "scan", "compare", "narrow", "done"}
  OBVIOUS
<1>6. TypeOK
  BY <1>1, <1>2, <1>3, <1>5 DEF TypeOK
<1> QED
  BY <1>4, <1>6 DEF IInv

LEMMA StepIInv == IInv /\ [Next]_vars => IInv'
<1> SUFFICES ASSUME IInv, [Next]_vars PROVE IInv'
  OBVIOUS
<1> USE DEF IInv, TypeOK, Positions, Indices, table
<1>1. CASE Probe
  BY <1>1, Middle, StabsAssumption, SMT DEF Probe
<1>2. CASE Scan
  BY <1>2, StabsAssumption, SMT DEF Scan
<1>3. CASE NoMatch
  BY <1>3, StabsAssumption, SMT DEF NoMatch
<1>4. CASE Found
  BY <1>4, StabsAssumption, SMT DEF Found
<1>5. CASE Below
  BY <1>5, StabsAssumption, SMT DEF Below
<1>6. CASE Above
  BY <1>6, StabsAssumption, SMT DEF Above
<1>7. CASE Exact
  BY <1>7, WrappedAddr, StabsAssumption, SMT DEF Exact
<1>8. CASE Empty
  BY <1>8, StabsAssumption, SMT DEF Empty
<1>9. CASE Widest
  BY <1>9, StabsAssumption, SMT DEF Widest
<1>10. CASE Narrow
  BY <1>10, StabsAssumption, SMT DEF Narrow
<1>11. CASE Finish
  BY <1>11, StabsAssumption, SMT DEF Finish
<1>12. CASE UNCHANGED vars
  BY <1>12, SMT DEF vars
<1> QED
  BY <1>1, <1>2, <1>3, <1>4, <1>5, <1>6, <1>7, <1>8, <1>9, <1>10, <1>11, <1>12 DEF Next

LEMMA IInvReads == IInv => ReadsInside
  BY StabsAssumption, SMT DEF IInv, TypeOK, Positions, ReadsInside, Indices

(***************************************************************************)
(* For every table, every region of it and every address, the entries that *)
(* stab_binsearch reads lie in the region.                                 *)
(***************************************************************************)
THEOREM StaysInside == Spec => [](TypeOK /\ ReadsInside)
<1>1. IInv => TypeOK
  BY DEF IInv
<1> QED
  BY InitBegun, BegunIInv, StepIInv, IInvReads, <1>1, PTL DEF Spec

-----------------------------------------------------------------------------
(* What the search finds *)

(* What the turns so far have settled.  Every address that addr has passed *)
(* is an entry's.  Below l there is nothing at addr or behind it, beyond r *)
(* nothing up to the target; region_left is an entry before addr or still  *)
(* untouched; and region_right moves with r.                               *)
Passed(n) == \A a \in target .. n - 1 : \E j \in Region : value[j] = a
Settled ==
  /\ target <= addr /\ Passed(addr)
  /\ \/ region_left = first
     \/ region_left \in Region /\ value[region_left] < addr /\ region_left <= r
  /\ region_right = r
  /\ r = last \/ r + 1 \in Region
  /\ \A k \in Region : k > r => value[k] > target
  /\ pc # "narrow" => \A k \in Region : k < l => value[k] < addr
  /\ pc = "narrow" => /\ \A k \in Region : k <= r => k <= l
                      /\ \A k \in Region : k <= r => value[k] < addr
                      /\ l <= r

(* Whatever the addresses: the scan passes over no entry, and as long as   *)
(* none was found the search only moves right, with none behind it.        *)
Witnessed ==
  /\ any_matches => Region # {}
  /\ pc \in {"compare", "narrow"} => any_matches
  /\ pc \in {"scan", "compare"} => \A k \in Region : k <= m \/ k > true_m
  /\ pc = "compare" => m \in Region
  /\ pc \in {"loop", "scan"} => any_matches \/ (r = last /\ \A k \in Region : k >= l)
  /\ pc = "done" => any_matches \/ region_right = region_left - 1

Ordinary == ~OneByteEntry /\ target < AddrMax

SearchInv ==
  /\ IInv
  /\ Sorted
  /\ Witnessed
  /\ FindsContainer
  /\ Unwrapped /\ pc # "done" => Settled

LEMMA RegionFacts ==
  ASSUME TypeOK
  PROVE  \A k \in Region : /\ k \in Int /\ first <= k /\ k <= last
                            /\ k \in match /\ value[k] \in Int
  BY StabsAssumption, AddrAssumption, SMT DEF TypeOK, Region, Indices, Addrs

LEMMA RegionSorted ==
  ASSUME Sorted
  PROVE  \A j, k \in Region : j < k => value[j] <= value[k]
  BY Zenon DEF Sorted, Region

(* The search never writes the table it searches. *)
LEMMA TableStays ==
  ASSUME [Next]_vars
  PROVE  UNCHANGED table
  BY DEF Next, vars, Probe, Scan, NoMatch, Found, Below, Above, Exact, Empty, Widest, Narrow,
         Finish

LEMMA TableDetermines ==
  ASSUME UNCHANGED table
  PROVE  /\ Region' = Region /\ Containing' = Containing
         /\ Sorted' = Sorted /\ OneByteEntry' = OneByteEntry
         /\ Ordinary' = Ordinary /\ Unwrapped' = Unwrapped
  BY Zenon DEF table, Region, Containing, Sorted, OneByteEntry, Ordinary, Unwrapped

LEMMA StepWitnessed == SearchInv /\ [Next]_vars => Witnessed'
<1> SUFFICES ASSUME SearchInv, [Next]_vars PROVE Witnessed'
  OBVIOUS
<1>1. UNCHANGED table /\ Region' = Region
  BY TableStays, TableDetermines
<1>2. \A k \in Region : k \in Int /\ first <= k /\ k <= last /\ k \in match
  BY RegionFacts DEF SearchInv, IInv
<1>3. \A k \in match : k \in Int /\ (first <= k /\ k <= last => k \in Region)
  BY StabsAssumption, SMT DEF SearchInv, IInv, TypeOK, Indices, Region
<1> HIDE DEF Region
<1> USE <1>1, <1>2, <1>3 DEF SearchInv, IInv, TypeOK, Positions, Witnessed, table
<1>4. CASE Probe
  BY <1>4 DEF Probe
<1>5. CASE Scan
  BY <1>5 DEF Scan
<1>6. CASE NoMatch
  BY <1>6, SMT DEF NoMatch
<1>7. CASE Found
  BY <1>7, StabsAssumption, SMT DEF Found, Indices
<1>8. CASE Below
  BY <1>8 DEF Below
<1>9. CASE Above
  BY <1>9 DEF Above
<1>10. CASE Exact
  BY <1>10 DEF Exact
<1>11. CASE Empty
  BY <1>11 DEF Empty
<1>12. CASE Widest
  BY <1>12 DEF Widest
<1>13. CASE Narrow
  BY <1>13 DEF Narrow
<1>14. CASE Finish
  BY <1>14 DEF Finish
<1>15. CASE UNCHANGED vars
  BY <1>15 DEF vars
<1> QED
  BY <1>4, <1>5, <1>6, <1>7, <1>8, <1>9, <1>10, <1>11, <1>12, <1>13, <1>14, <1>15 DEF Next

LEMMA PassedOneMore ==
  ASSUME NEW n \in Int, target \in Int, Passed(n), NEW k \in Region, value[k] = n
  PROVE  Passed(n + 1)
<1> SUFFICES ASSUME NEW a \in target .. (n + 1) - 1
             PROVE  \E j \in Region : value[j] = a
  BY DEF Passed
<1>1. a = n \/ a \in target .. n - 1
  BY SMT
<1> QED
  BY <1>1 DEF Passed

(* addr has passed the target only if an entry starts there, and two bytes *)
(* only if that entry is one byte long.                                    *)
LEMMA PassedTarget ==
  ASSUME TypeOK, NEW n \in Int, Passed(n)
  PROVE  /\ n > target => \E j \in Region : value[j] = target
         /\ n > target + 1 => OneByteEntry
<1>1. target \in Int
  BY AddrAssumption, SMT DEF TypeOK, Addrs
<1>2. ASSUME n > target PROVE \E j \in Region : value[j] = target
  <2>1. target \in target .. n - 1
    BY <1>1, <1>2, SMT
  <2> QED
    BY <2>1 DEF Passed
<1>3. ASSUME n > target + 1 PROVE OneByteEntry
  <2>1. n > target /\ target + 1 \in target .. n - 1
    BY <1>1, <1>3, SMT
  <2>2. PICK j \in Region : value[j] = target
    BY <1>2, <2>1
  <2>3. PICK k \in Region : value[k] = target + 1
    BY <2>1 DEF Passed
  <2> QED
    BY <2>2, <2>3 DEF OneByteEntry
<1> QED
  BY <1>2, <1>3

LEMMA NextAddr ==
  ASSUME TypeOK, Unwrapped, target <= addr, Passed(addr), NEW k \in Region, value[k] = addr
  PROVE  (addr + 1) % (AddrMax + 1) = addr + 1
<1>1. addr \in 0 .. AddrMax /\ target \in Int /\ AddrMax \in Int
  BY AddrAssumption, SMT DEF TypeOK, Addrs
<1>2. Passed(addr + 1)
  BY <1>1, PassedOneMore, SMT
<1>3. CASE addr = target
  <2>1. addr < AddrMax
    BY <1>3 DEF Unwrapped
  <2> QED
    BY <1>1, <2>1, SMT
<1>4. CASE addr # target
  <2>1. addr + 1 > target + 1 /\ addr + 1 \in Int
    BY <1>1, <1>4, SMT
  <2>2. OneByteEntry
    BY <1>2, <2>1, PassedTarget
  <2>3. addr < AddrMax
    BY <2>2 DEF Unwrapped
  <2> QED
    BY <1>1, <2>3, SMT
<1> QED
  BY <1>3, <1>4

LEMMA StepSettled ==
  ASSUME SearchInv, [Next]_vars, Unwrapped, pc # "done", pc' # "done"
  PROVE  Settled'
<1>1. UNCHANGED table /\ Region' = Region
  BY TableStays, TableDetermines
<1>2. \A k \in Region : /\ k \in Int /\ first <= k /\ k <= last
                        /\ k \in match /\ value[k] \in Int
  BY RegionFacts DEF SearchInv, IInv
<1>3. \A j, k \in Region : j < k => value[j] <= value[k]
  BY RegionSorted DEF SearchInv
<1>4. \A k \in match : k \in Int /\ (first <= k /\ k <= last => k \in Region)
  BY StabsAssumption, SMT DEF SearchInv, IInv, TypeOK, Indices, Region
<1>5. /\ first \in Int /\ last \in Int /\ l \in Int /\ r \in Int /\ m \in Int /\ true_m \in Int
      /\ region_left \in Int /\ region_right \in Int /\ addr \in Int /\ target \in Int
  BY StabsAssumption, AddrAssumption, SMT DEF SearchInv, IInv, TypeOK, Indices, Addrs
<1>6. Settled /\ Positions /\ Witnessed
  BY DEF SearchInv, IInv
<1>7. \A n \in Int : Passed(n)' <=> Passed(n)
  BY <1>1 DEF Passed, table
<1> HIDE DEF Region, Passed
<1> USE <1>1, <1>2, <1>5, <1>6 DEF Positions, Witnessed, Settled, table
<1>10. CASE Probe
  BY <1>10, <1>7, SMT DEF Probe
<1>11. CASE Scan
  BY <1>11, <1>7, SMT DEF Scan
<1>12. CASE NoMatch
  BY <1>12, <1>7, SMT DEF NoMatch
<1>13. CASE Found
  BY <1>13, <1>7, SMT DEF Found
<1>14. CASE Below
  <2>1. m \in Region /\ m <= r /\ \A k \in Region : k <= m => value[k] < addr
    BY <1>14, <1>3, SMT DEF Below
  <2> QED
    BY <1>14, <1>7, <2>1, SMT DEF Below
<1>15. CASE Above
  <2>1. m \in Region /\ \A k \in Region : k >= m => value[k] > addr
    BY <1>15, <1>3, SMT DEF Above
  <2>2. region_left \in Region /\ value[region_left] < addr => region_left <= m - 1
    BY <2>1, SMT
  <2> QED
    BY <1>15, <1>7, <2>1, <2>2, SMT DEF Above
<1>16. CASE Exact
  <2>1. m \in Region /\ m <= r /\ value[m] = addr
    BY <1>16, SMT DEF Exact
  <2>2. addr' = addr + 1
    BY <1>16, <2>1, NextAddr DEF Exact, SearchInv, IInv
  <2>3. Passed(addr)' <=> Passed(addr + 1)
    <3>1. Passed(addr)' <=> \A a \in target .. (addr + 1) - 1 : \E j \in Region : value[j] = a
      BY <2>2 DEF Passed
    <3> QED
      BY <3>1 DEF Passed
  <2>4. Passed(addr + 1)
    BY <2>1, PassedOneMore
  <2>5. \A k \in Region : k < m => value[k] < addr + 1
    BY <2>1, <1>3, SMT
  <2> QED
    BY <1>16, <2>1, <2>2, <2>3, <2>4, <2>5, SMT DEF Exact
<1>17. CASE Empty
  BY <1>17 DEF Empty
<1>18. CASE Widest
  BY <1>18, <1>7, SMT DEF Widest
<1>19. CASE Narrow
  BY <1>19, <1>7, SMT DEF Narrow
<1>20. CASE Finish
  BY <1>20 DEF Finish
<1>21. CASE UNCHANGED vars
  BY <1>21, <1>7, SMT DEF vars
<1> QED
  BY <1>10, <1>11, <1>12, <1>13, <1>14, <1>15, <1>16, <1>17, <1>18, <1>19, <1>20, <1>21 DEF Next

LEMMA NothingFoundNothingThere ==
  ASSUME SearchInv, Empty
  PROVE  Containing = {}
<1>1. \A k \in Region : k \in Int /\ k <= last
  BY RegionFacts DEF SearchInv, IInv
<1>2. l > r /\ r = last /\ l \in Int /\ last \in Int /\ \A k \in Region : k >= l
  BY StabsAssumption, SMT DEF SearchInv, IInv, TypeOK, Indices, Witnessed, Empty
<1>3. Region = {}
  BY <1>1, <1>2, SMT
<1> QED
  BY <1>3 DEF Containing

LEMMA FinishFinds ==
  ASSUME SearchInv, Unwrapped, Finish, Containing # {}
  PROVE  \/ IsContainer(l) /\ EndsBefore(l, region_right)
         \/ BehindOneByte(l)
<1>1. \A k \in Region : /\ k \in Int /\ first <= k /\ k <= last /\ k \in match
                        /\ value[k] \in Int
  BY RegionFacts DEF SearchInv, IInv
<1>2. /\ first \in Int /\ last \in Int /\ l \in Int /\ r \in Int /\ region_left \in Int
      /\ target \in Int /\ addr \in Int
      /\ \A k \in match : k \in Int /\ (first <= k /\ k <= last => k \in Region)
  BY StabsAssumption, AddrAssumption, SMT DEF SearchInv, IInv, TypeOK, Indices, Addrs, Region
<1>3. Settled /\ Positions /\ pc = "narrow" /\ (l <= region_left \/ l \in match)
  BY DEF SearchInv, IInv, Finish
<1>4. \A j, k \in Region : j < k => value[j] <= value[k]
  BY RegionSorted DEF SearchInv
<1>5. PICK c \in Region : c <= r
  <2>1. PICK c \in Region : value[c] <= target
    BY DEF Containing
  <2>2. c \in Int /\ value[c] \in Int /\ (c > r => value[c] > target)
    BY <1>1, <1>3 DEF Settled
  <2> QED
    BY <1>2, <2>1, <2>2, SMT
<1>6. \A k \in Region : k <= r => k <= l /\ value[k] < addr
  BY <1>3 DEF Settled
<1>7. l \in Region /\ l <= r
  <2> HIDE DEF Region
  <2>1. c <= l /\ first <= l /\ l <= r /\ r <= last
    BY <1>1, <1>2, <1>3, <1>5, <1>6, SMT DEF Settled, Positions
  <2>2. CASE l \in match
    BY <2>1, <2>2, <1>2, SMT
  <2>3. CASE l <= region_left
    <3>1. CASE region_left = first
      BY <2>1, <2>3, <3>1, <1>1, <1>2, <1>5, SMT
    <3>2. CASE region_left \in Region /\ region_left <= r
      BY <2>1, <2>3, <3>2, <1>2, <1>6, SMT
    <3> QED
      BY <3>1, <3>2, <1>3, Zenon DEF Settled
  <2> QED
    BY <2>2, <2>3, <1>3, <2>1
<1>8. CASE value[l] <= target
  <2>1. \A k \in Region : k <= r => value[k] <= target
    <3> SUFFICES ASSUME NEW k \in Region, k <= r PROVE value[k] <= target
      OBVIOUS
    <3>1. k \in Int /\ k <= l /\ value[k] \in Int /\ value[l] \in Int /\ (k < l => value[k] <= value[l])
      BY <1>1, <1>4, <1>6, <1>7
    <3> QED
      BY <1>2, <1>8, <3>1, SMT
  <2>2. \A k \in Region : k > r => ~(value[k] <= target)
    <3>1. \A k \in Region : value[k] \in Int /\ (k > r => value[k] > target)
      BY <1>1, <1>3 DEF Settled
    <3> QED
      BY <1>2, <3>1, SMT
  <2>3. \A k \in Region : k \in Containing <=> k <= r
    BY <1>1, <1>2, <2>1, <2>2, SMT DEF Containing
  <2>4. \A k \in Region : k <= r => k <= l
    BY <1>6
  <2>5. IsContainer(l)
    BY <1>7, <2>3, <2>4 DEF IsContainer, Containing
  <2>6. EndsBefore(l, region_right)
    BY <1>1, <1>2, <1>3, <1>7, <2>4, SMT DEF EndsBefore, Settled, Positions
  <2> QED
    BY <2>5, <2>6
<1>9. CASE ~(value[l] <= target)
  <2>1. value[l] \in Int /\ value[l] < addr /\ value[l] > target
    BY <1>1, <1>2, <1>6, <1>7, <1>9, SMT
  <2>2. \A a \in target .. value[l] : a \in target .. addr - 1
    BY <1>2, <2>1, SMT
  <2>3. \A a \in target .. value[l] : \E j \in Region : value[j] = a
    BY <1>3, <2>2 DEF Settled, Passed
  <2> QED
    BY <1>7, <2>1, <2>3 DEF BehindOneByte
<1> QED
  BY <1>8, <1>9

LEMMA StepFinds ==
  ASSUME SearchInv, [Next]_vars
  PROVE  FindsContainer'
<1>1. /\ UNCHANGED table /\ Region' = Region /\ Containing' = Containing
      /\ target' = target /\ value' = value /\ Unwrapped' = Unwrapped
  BY TableStays, TableDetermines DEF table
<1>2. CASE Empty
  <2>1. Containing' = {}
    BY <1>1, <1>2, NothingFoundNothingThere
  <2> QED
    BY <2>1, Zenon DEF FindsContainer
<1>3. CASE Finish
  <2>1. region_left' = l /\ region_right' = region_right /\ last' = last
    BY <1>3, <1>1 DEF Finish, table
  <2>2. value' = value
    BY <1>1 DEF table
  <2>3. CASE Containing = {}
    BY <2>3, <1>1, Zenon DEF FindsContainer
  <2>4. CASE ~Unwrapped
    BY <2>4, <1>1, Zenon DEF FindsContainer
  <2>5. CASE Containing # {} /\ Unwrapped
    <3>1. \/ IsContainer(l) /\ EndsBefore(l, region_right)
          \/ BehindOneByte(l)
      BY <2>5, <1>3, FinishFinds
    <3>2. IsContainer(l) => IsContainer(region_left)'
      BY <2>1, <1>1, Zenon DEF IsContainer
    <3>3. EndsBefore(l, region_right) => EndsBefore(region_left, region_right)'
      BY <2>1, <1>1, Zenon DEF EndsBefore
    <3>4. BehindOneByte(l) => BehindOneByte(region_left)'
      BY <2>1, <2>2, <1>1, Zenon DEF BehindOneByte
    <3> QED
      BY <3>1, <3>2, <3>3, <3>4, Zenon DEF FindsContainer
  <2> QED
    BY <2>3, <2>4, <2>5
<1>4. CASE UNCHANGED vars
  <2>1. UNCHANGED <<pc, region_left, region_right>> /\ UNCHANGED table
    BY <1>4 DEF vars
  <2> QED
    BY <2>1, <1>1, Zenon DEF SearchInv, FindsContainer, IsContainer, EndsBefore, BehindOneByte,
       table
<1>5. CASE Next /\ ~Empty /\ ~Finish
  <2>1. pc' # "done"
    BY <1>5 DEF Next, Probe, Scan, NoMatch, Found, Below, Above, Exact, Widest, Narrow
  <2> QED
    BY <2>1 DEF FindsContainer
<1> QED
  BY <1>2, <1>3, <1>4, <1>5

LEMMA BegunSearch == Begun => SearchInv
<1> SUFFICES ASSUME Begun PROVE SearchInv
  OBVIOUS
<1>1. IInv /\ Sorted
  BY BegunIInv DEF Begun
<1>2. /\ pc = "loop" /\ any_matches = FALSE /\ addr = target
      /\ l = first /\ r = last /\ region_left = first /\ region_right = last
  BY DEF Begun
<1>3. \A k \in Region : k \in Int /\ first <= k /\ k <= last
  BY <1>1, RegionFacts DEF IInv
<1>4. first \in Int /\ last \in Int
  BY <1>1, StabsAssumption, SMT DEF IInv, TypeOK, Indices
<1> HIDE DEF Region
<1>5. Witnessed
  BY <1>2, <1>3, SMT DEF Witnessed
<1>6. Settled
  <2>1. target \in Int
    BY <1>1, AddrAssumption, SMT DEF IInv, TypeOK, Addrs
  <2>2. Passed(target)
    BY <2>1, SMT DEF Passed
  <2> HIDE DEF Passed
  <2> QED
    BY <1>2, <1>3, <1>4, <2>1, <2>2, SMT DEF Settled
<1>7. FindsContainer
  BY <1>2 DEF FindsContainer
<1> QED
  BY <1>1, <1>5, <1>6, <1>7 DEF SearchInv

LEMMA StepSearch == SearchInv /\ [Next]_vars => SearchInv'
<1> SUFFICES ASSUME SearchInv, [Next]_vars PROVE SearchInv'
  OBVIOUS
<1>1. IInv' /\ Witnessed'
  BY StepIInv, StepWitnessed DEF SearchInv
<1>2. Sorted' /\ Unwrapped' = Unwrapped
  BY TableStays, TableDetermines DEF SearchInv
<1>3. FindsContainer'
  BY StepFinds
<1>4. ASSUME Unwrapped, pc' # "done" PROVE Settled'
  <2>1. pc # "done"
    BY <1>4 DEF Next, vars, Probe, Scan, NoMatch, Found, Below, Above, Exact, Empty, Widest, Narrow,
                Finish
  <2> QED
    BY <1>4, <2>1, StepSettled
<1> QED
  BY <1>1, <1>2, <1>3, <1>4 DEF SearchInv

(***************************************************************************)
(* For every table sorted by address, every region and every address, as   *)
(* long as no search comes to the last one: if some entry contains the     *)
(* address stab_binsearch returns that entry and where it ends, or one     *)
(* that only one-byte entries separate from the address.                   *)
(***************************************************************************)
THEOREM SearchFinds == Spec => []FindsContainer
<1>1. SearchInv => FindsContainer
  BY DEF SearchInv
<1> QED
  BY InitBegun, BegunSearch, StepSearch, <1>1, PTL DEF Spec

(***************************************************************************)
(* A search that meets no entry of the type returns an empty region.       *)
(***************************************************************************)
THEOREM SearchEmpty == Spec => []EmptyWithoutMatch
<1>1. SearchInv => EmptyWithoutMatch
  BY SMT DEF SearchInv, IInv, TypeOK, Witnessed, EmptyWithoutMatch
<1> QED
  BY InitBegun, BegunSearch, StepSearch, <1>1, PTL DEF Spec

-----------------------------------------------------------------------------
(* What the search leaves in its two bounds, for a caller that goes on     *)
(* with them: region_right is the region's last entry or ends before an    *)
(* entry of the type, and region_left lies behind the region's beginning   *)
(* only if an entry contains the target.                                   *)
RightEnd == region_right = last \/ region_right + 1 \in Region
Bounds ==
  /\ pc # "done" => RightEnd /\ (any_matches \/ region_left = first)
  /\ pc = "narrow" => l <= region_right /\ (first <= l \/ l = region_right)
  /\ pc = "done" =>
       \/ region_left = first /\ region_right = first - 1
       \/ /\ region_left <= region_right /\ region_right <= last /\ RightEnd
          /\ first <= region_left \/ region_left = region_right
  /\ pc = "done" /\ Ordinary /\ Containing = {} => region_left <= first

LEMMA BegunBounds == Begun => Bounds
  BY SMT DEF Begun, Bounds, RightEnd

LEMMA FinishEmpty ==
  ASSUME SearchInv, Ordinary, Finish, Containing = {}
  PROVE  l <= first
<1>1. \A k \in Region : k \notin Containing
  OBVIOUS
<1>2. \A k \in Region : ~(value[k] <= target)
  BY <1>1, Zenon DEF Containing
<1>3. Settled /\ Positions /\ pc = "narrow" /\ (l <= region_left \/ l \in match)
  BY DEF SearchInv, IInv, Finish, Ordinary, Unwrapped
<1>4. /\ first \in Int /\ l \in Int /\ r \in Int /\ addr \in Int /\ target \in Int
      /\ \A k \in match : k \in Int /\ (first <= k /\ k <= last => k \in Region)
      /\ \A k \in Region : value[k] \in Int
  BY RegionFacts, StabsAssumption, AddrAssumption, SMT
     DEF SearchInv, IInv, TypeOK, Indices, Addrs, Region
<1>5. addr = target
  <2>1. addr > target => \E j \in Region : value[j] = target
    BY <1>3, <1>4, PassedTarget DEF Settled, SearchInv, IInv
  <2>2. ~(\E j \in Region : value[j] = target)
    BY <1>2, <1>4, SMT
  <2> QED
    BY <1>3, <1>4, <2>1, <2>2, SMT DEF Settled
<1>6. region_left = first
  BY <1>2, <1>3, <1>4, <1>5, SMT DEF Settled
<1>7. l \in match /\ first <= l => FALSE
  <2> SUFFICES ASSUME l \in match, first <= l PROVE FALSE
    OBVIOUS
  <2>1. l \in Region /\ l <= r
    BY <1>3, <1>4 DEF Positions, Settled
  <2>2. value[l] < target
    BY <1>3, <1>5, <2>1 DEF Settled
  <2> QED
    BY <1>2, <1>4, <2>1, <2>2, SMT
<1> QED
  BY <1>3, <1>4, <1>6, <1>7, SMT

LEMMA StepBounds == SearchInv /\ Bounds /\ [Next]_vars => Bounds'
<1> SUFFICES ASSUME SearchInv, Bounds, [Next]_vars PROVE Bounds'
  OBVIOUS
<1>1. /\ UNCHANGED table /\ Region' = Region /\ Containing' = Containing
      /\ Ordinary' = Ordinary /\ first' = first /\ last' = last
  BY TableStays, TableDetermines DEF table
<1>2. /\ first \in Int /\ last \in Int /\ l \in Int /\ r \in Int /\ m \in Int
      /\ region_left \in Int /\ region_right \in Int
      /\ (pc # "done" => Positions) /\ Witnessed
  BY StabsAssumption, SMT DEF SearchInv, IInv, TypeOK, Indices
<1> HIDE DEF Region, Containing, Ordinary
<1> USE <1>1, <1>2 DEF Bounds, RightEnd
<1>3. CASE Probe \/ Scan \/ NoMatch \/ Found
  BY <1>3 DEF Probe, Scan, NoMatch, Found
<1>4. CASE Below \/ Exact
  BY <1>4 DEF Below, Exact, Witnessed
<1>5. CASE Above
  BY <1>5, SMT DEF Above, Witnessed
<1>6. CASE Empty
  BY <1>6, SMT DEF Empty
<1>7. CASE Widest
  BY <1>7, SMT DEF Widest
<1>8. CASE Narrow
  BY <1>8, SMT DEF Narrow, Positions
<1>9. CASE Finish
  <2>1. Ordinary /\ Containing = {} => l <= first
    BY <1>9, FinishEmpty
  <2> QED
    BY <1>9, <2>1, SMT DEF Finish, Positions
<1>10. CASE UNCHANGED vars
  BY <1>10 DEF vars
<1> QED
  BY <1>3, <1>4, <1>5, <1>6, <1>7, <1>8, <1>9, <1>10 DEF Next

-----------------------------------------------------------------------------
(* debuginfo_eip *)

Tables ==
  /\ types \in [Indices -> Types] /\ value \in [Indices -> Addrs] /\ eip \in Addrs
  /\ WellTyped /\ WellAddressed
  /\ named \in {Indices, {}}
  /\ info \in [eip_file : Int, eip_fn_name : Int, eip_fn_addr : Int, eip_fn_narg : Int]

(* A search of the table for the entries of type t *)
Searches(t) == SearchInv /\ Bounds /\ match = OfType(t) /\ target = eip

(* The addresses for which both searches keep their promise *)
Regular == ~OneByteLong /\ eip < AddrMax

(* left .. right is a file's part of the table: the file the address lies  *)
(* in.                                                                     *)
FileRegion(left, right) ==
  /\ left \in Int /\ right \in Int
  /\ 1 <= left /\ left <= right /\ right <= NStabs - 1
  /\ right = NStabs - 1 \/ right + 1 \in OfType("SO")
  /\ Regular => left \in Files /\ \A k \in OfType("SO") : k <= left \/ k > right

(* left .. right is a function's part of lfile .. rfile *)
FunRegion(left, right) ==
  /\ FileRegion(lfile, rfile)
  /\ left \in Int /\ right \in Int
  /\ lfile - 1 <= left /\ left <= rfile /\ right <= rfile
  /\ Regular /\ Functions # {} =>
       /\ left \in Functions /\ \A k \in Functions : k <= left
       /\ lfile <= left /\ left <= right
       /\ right = rfile \/ right + 1 \in OfType("FUN")

(* The address lies in a function the search can find. *)
InFunction == Regular /\ Functions # {}

(* The name of the entry at index k *)
NameAt(k) == IF k \in named THEN k ELSE Unknown
FunctionReported(f) == info.eip_fn_addr = value[f] /\ info.eip_fn_name = NameAt(f)
SourceOf(f) == Last({k \in lfile .. f : NamesFile(k)} \cup {Unknown})
FileReported(f) == info.eip_file = NameAt(SourceOf(f))

(* What holds while the files are searched, while the file's functions     *)
(* are, on the walk back, among the parameters, and at the end             *)
NothingReported ==
  info.eip_file = Unknown /\ info.eip_fn_name = Unknown /\ info.eip_fn_narg = 0
FileStage == Searches("SO") /\ first = 0 /\ last = NStabs - 1 /\ NothingReported
FunStage ==
  /\ Searches("FUN") /\ first = lfile /\ last = rfile /\ NothingReported
  /\ FileRegion(lfile, rfile)
NamesStage ==
  /\ FunRegion(lfun, rfun) /\ lline \in lfile - 1 .. rfile
  /\ InFunction => /\ FunctionReported(lfun)
                   /\ info.eip_file = Unknown /\ info.eip_fn_narg = 0
                   /\ lline <= lfun /\ \A k \in lline + 1 .. lfun : ~NamesFile(k)
ArgsStage ==
  /\ FunRegion(lfun, rfun) /\ lline \in lfun + 1 .. rfun
  /\ InFunction => /\ FunctionReported(lfun) /\ FileReported(lfun)
                   /\ info.eip_fn_narg = lline - lfun - 1
                   /\ lfun + 1 .. lline - 1 \subseteq OfType("PSYM")
ParametersCounted ==
  \E n \in Nat : /\ info.eip_fn_narg = n
                /\ lfun + 1 .. lfun + n \subseteq OfType("PSYM")
                /\ lfun + n + 1 \notin OfType("PSYM")
Outcome ==
  \/ ret = -1 /\ Files = {}
  \/ /\ ret = 0 /\ FunRegion(lfun, rfun)
     /\ InFunction => FunctionReported(lfun) /\ FileReported(lfun) /\ ParametersCounted

DInv ==
  /\ Tables
  /\ stage = "file" => FileStage
  /\ stage = "fun" => FunStage
  /\ stage = "names" => NamesStage
  /\ stage = "args" => ArgsStage
  /\ stage = "returned" /\ stabstrValid /\ Regular => Outcome

-----------------------------------------------------------------------------
(* The table *)

LEMMA Greatest ==
  ASSUME NEW n \in Nat, NEW T \in SUBSET (0 .. n), T # {}
  PROVE  \E x \in T : \A y \in T : y <= x
<1> DEFINE Flipped == {n - x : x \in T}
<1>1. Flipped \subseteq Nat /\ Flipped # {}
  <2>1. \A x \in T : n - x \in Nat
    BY SMT
  <2> QED
    BY <2>1
<1> HIDE DEF Flipped
<1>2. PICK z \in Flipped : \A y \in Flipped : ~(<<y, z>> \in OpToRel(<, Nat))
  BY <1>1, NatLessThanWellFounded, WFMin
<1>3. PICK x \in T : z = n - x
  BY <1>2 DEF Flipped
<1>4. ASSUME NEW y \in T, x < y PROVE FALSE
  <2>1. n - y \in Flipped
    BY DEF Flipped
  <2>2. n - y \in Nat /\ z \in Nat /\ n - y < z
    BY <1>3, <1>4, SMT
  <2>3. <<n - y, z>> \in OpToRel(<, Nat)
    BY <2>2 DEF OpToRel
  <2> QED
    BY <1>2, <2>1, <2>3
<1>5. \A y \in T : y <= x
  BY <1>4, SMT
<1> QED
  BY <1>5

LEMMA Entries ==
  ASSUME Tables
  PROVE  /\ \A t : \A k \in OfType(t) : k \in Int /\ 0 <= k /\ k <= NStabs - 1 /\ value[k] \in Int
         /\ \A k \in OfType("SO") \cup OfType("FUN") \cup OfType("PSYM") : 1 <= k
         /\ eip \in Int /\ NStabs \in Int /\ NStabs > 0
<1>1. NStabs \in Int /\ NStabs > 0 /\ eip \in Int
  BY HeaderAssumption, StabsAssumption, AddrAssumption, SMT DEF Tables, Addrs
<1>2. \A k \in Indices : k \in Int /\ 0 <= k /\ k <= NStabs - 1 /\ value[k] \in Int
  BY <1>1, AddrAssumption, SMT DEF Tables, Indices, Addrs
<1>3. \A k \in Indices : types[k] \in {"SO", "FUN", "PSYM"} => k # 0
  BY DEF Tables, WellTyped
<1> QED
  BY <1>1, <1>2, <1>3, SMT DEF OfType

LEMMA FilesOrdered ==
  ASSUME Tables, NEW k \in Indices
  PROVE  /\ FileOf(k) \in {0} \cup OfType("SO") /\ FileOf(k) \in Int /\ FileOf(k) <= k
         /\ \A g \in OfType("SO") : g <= k => g <= FileOf(k)
<1> DEFINE Before == {f \in {0} \cup OfType("SO") : f <= k}
<1>1. k \in Nat /\ k \in 0 .. NStabs - 1 /\ \A f \in {0} \cup OfType("SO") : f \in Int /\ 0 <= f
  BY Entries, StabsAssumption, SMT DEF Indices
<1>2. Before \in SUBSET (0 .. k) /\ 0 \in Before
  <2>1. \A f \in Before : f \in 0 .. k
    BY <1>1, SMT
  <2>2. 0 \in Before
    BY <1>1, SMT
  <2> QED
    BY <2>1, <2>2
<1>3. PICK x \in Before : \A y \in Before : y <= x
  BY <1>1, <1>2, Greatest
<1> DEFINE IsFile(f) == f <= k /\ \A g \in OfType("SO") : g <= k => g <= f
<1>4. x \in {0} \cup OfType("SO") /\ IsFile(x)
  BY <1>3
<1>5. FileOf(k) = CHOOSE f \in {0} \cup OfType("SO") : IsFile(f)
  BY Zenon DEF FileOf
<1> HIDE DEF IsFile
<1>6. FileOf(k) \in {0} \cup OfType("SO") /\ IsFile(FileOf(k))
  BY <1>4, <1>5, Zenon
<1> QED
  BY <1>1, <1>6 DEF IsFile

(* The file of an entry in the file's part of the table is that file, and  *)
(* of no other entry.                                                      *)
LEMMA FileOfRegion ==
  ASSUME Tables, Regular, FileRegion(lfile, rfile)
  PROVE  /\ FileOf(lfile) = lfile
         /\ \A k \in OfType("FUN") : FileOf(k) = lfile <=> lfile <= k /\ k <= rfile
<1>1. /\ lfile \in OfType("SO") /\ lfile \in Int /\ rfile \in Int /\ 1 <= lfile /\ lfile <= rfile
      /\ \A k \in OfType("SO") : k <= lfile \/ k > rfile
      /\ rfile = NStabs - 1 \/ rfile + 1 \in OfType("SO")
  BY DEF FileRegion, Files
<1>2. \A k \in OfType("SO") \cup OfType("FUN") : k \in Indices /\ k \in Int /\ k <= NStabs - 1
  BY Entries DEF OfType
<1>3. FileOf(lfile) = lfile
  <2>1. FileOf(lfile) \in Int /\ FileOf(lfile) <= lfile /\ lfile <= FileOf(lfile)
    BY <1>1, <1>2, FilesOrdered
  <2> QED
    BY <1>1, <2>1, SMT
<1>4. ASSUME NEW k \in OfType("FUN")
      PROVE  FileOf(k) = lfile <=> lfile <= k /\ k <= rfile
  <2>1. /\ FileOf(k) \in {0} \cup OfType("SO") /\ FileOf(k) \in Int /\ FileOf(k) <= k
        /\ \A g \in OfType("SO") : g <= k => g <= FileOf(k)
    BY <1>2, FilesOrdered
  <2>2. k \in Int /\ k <= NStabs - 1 /\ NStabs \in Int
    BY <1>2, Entries
  <2> HIDE DEF OfType, FileOf
  <2>3. ASSUME lfile <= k, k <= rfile PROVE FileOf(k) = lfile
    <3>1. lfile <= FileOf(k)
      BY <1>1, <2>1, <2>3
    <3>2. FileOf(k) \in OfType("SO")
      BY <1>1, <2>1, <3>1, SMT
    <3>3. FileOf(k) <= lfile \/ FileOf(k) > rfile
      BY <1>1, <3>2
    <3> QED
      BY <1>1, <2>1, <2>2, <2>3, <3>1, <3>3, SMT
  <2>4. ASSUME FileOf(k) = lfile PROVE lfile <= k /\ k <= rfile
    <3>1. lfile <= k
      BY <2>1, <2>4
    <3>2. ASSUME k > rfile PROVE FALSE
      <4>1. rfile + 1 \in OfType("SO") /\ rfile + 1 <= k
        BY <1>1, <2>2, <3>2, SMT
      <4>2. rfile + 1 <= lfile
        BY <2>1, <2>4, <4>1
      <4> QED
        BY <1>1, <4>2, SMT
    <3> QED
      BY <1>1, <2>2, <3>1, <3>2, SMT
  <2> QED
    BY <2>3, <2>4
<1> QED
  BY <1>3, <1>4

LEMMA FunctionsInRegion ==
  ASSUME Tables, Regular, FileRegion(lfile, rfile)
  PROVE  Functions = {k \in OfType("FUN") : lfile <= k /\ k <= rfile /\ value[k] <= eip}
<1>1. FileOf(lfile) = lfile
  BY FileOfRegion
<1>2. \A k \in OfType("FUN") : FileOf(k) = lfile <=> lfile <= k /\ k <= rfile
  BY FileOfRegion
<1> QED
  BY <1>1, <1>2, Zenon DEF Functions

-----------------------------------------------------------------------------
(* What the two searches hand over *)

LEMMA RegularOrdinary ==
  ASSUME Regular, NEW t \in {"SO", "FUN"}, match = OfType(t), target = eip
  PROVE  Ordinary
<1>1. target < AddrMax
  BY DEF Regular
<1>2. ASSUME OneByteEntry PROVE FALSE
  <2>1. PICK j \in Region, k \in Region : value[j] = target /\ value[k] = target + 1
    BY <1>2 DEF OneByteEntry
  <2>2. j \in OfType(t) /\ k \in OfType(t)
    BY DEF Region
  <2>3. j \in Starts /\ k \in Starts /\ types[j] = types[k]
    BY <2>2 DEF Starts, OfType
  <2> QED
    BY <2>1, <2>3, Zenon DEF Regular, OneByteLong
<1> QED
  BY <1>1, <1>2 DEF Ordinary

(* A search that is over has kept its promise. *)
LEMMA SearchPromise ==
  ASSUME Regular, NEW t \in {"SO", "FUN"}, Searches(t), pc = "done"
  PROVE  /\ Containing # {} => IsContainer(region_left) /\ EndsBefore(region_left, region_right)
         /\ Containing = {} => region_left <= first
<1>1. Ordinary
  BY RegularOrdinary DEF Searches
<1>2. BehindOneByte(region_left) => OneByteEntry
  <2> SUFFICES ASSUME BehindOneByte(region_left) PROVE OneByteEntry
    OBVIOUS
  <2>1. region_left \in Region /\ value[region_left] > target /\ target \in Int
    BY AddrAssumption, SMT DEF BehindOneByte, Searches, SearchInv, IInv, TypeOK, Addrs
  <2>2. value[region_left] \in Int
    BY <2>1, RegionFacts DEF Searches, SearchInv, IInv
  <2>3. target \in target .. value[region_left] /\ target + 1 \in target .. value[region_left]
    BY <2>1, <2>2, SMT
  <2> QED
    BY <2>3 DEF BehindOneByte, OneByteEntry
<1> QED
  BY <1>1, <1>2, Zenon DEF Searches, SearchInv, FindsContainer, Bounds, Ordinary, Unwrapped

LEMMA Handed ==
  ASSUME Tables, NEW t, Searches(t), pc = "done"
  PROVE  /\ region_left \in Int /\ region_right \in Int
         /\ Region = {k \in OfType(t) : first <= k /\ k <= last}
         /\ Containing = {k \in OfType(t) : first <= k /\ k <= last /\ value[k] <= eip}
         /\ \/ region_left = first /\ region_right = first - 1
            \/ /\ region_left <= region_right /\ region_right <= last
               /\ region_right = last \/ region_right + 1 \in Region
               /\ first <= region_left \/ region_left = region_right
<1>1. region_left \in Int /\ region_right \in Int
  BY DEF Searches, SearchInv, IInv, TypeOK
<1>2. Region = {k \in OfType(t) : first <= k /\ k <= last}
  BY DEF Searches, Region
<1>3. Containing = {k \in OfType(t) : first <= k /\ k <= last /\ value[k] <= eip}
  BY <1>2, Zenon DEF Searches, Containing
<1> QED
  BY <1>1, <1>2, <1>3, Zenon DEF Searches, Bounds, RightEnd

LEMMA FileHandedOver ==
  ASSUME Tables, Searches("SO"), first = 0, last = NStabs - 1, pc = "done"
  PROVE  /\ region_left # 0 => FileRegion(region_left, region_right)
         /\ region_left = 0 /\ Regular => Files = {}
<1>1. /\ \A k \in OfType("SO") : k \in Int /\ 1 <= k /\ k <= NStabs - 1
      /\ NStabs \in Int /\ NStabs > 0
  BY Entries
<1> HIDE DEF OfType
<1>2. /\ region_left \in Int /\ region_right \in Int
      /\ Region = {k \in OfType("SO") : first <= k /\ k <= last}
      /\ Containing = {k \in OfType("SO") : first <= k /\ k <= last /\ value[k] <= eip}
      /\ \/ region_left = first /\ region_right = first - 1
         \/ /\ region_left <= region_right /\ region_right <= last
            /\ region_right = last \/ region_right + 1 \in Region
            /\ first <= region_left \/ region_left = region_right
  BY Handed
<1>3. Region = OfType("SO")
  BY <1>1, <1>2, SMT
<1>4. Containing = Files
  <2>1. Files = {k \in OfType("SO") : value[k] <= eip}
    BY DEF Files
  <2> QED
    BY <1>1, <1>2, <2>1, SMT
<1> HIDE DEF Region, Containing, Files
<1>5. ASSUME region_left # 0 PROVE FileRegion(region_left, region_right)
  <2>1. 1 <= region_left /\ region_left <= region_right /\ region_right <= NStabs - 1
    BY <1>1, <1>2, <1>3, <1>5, SMT
  <2>2. region_right = NStabs - 1 \/ region_right + 1 \in OfType("SO")
    BY <1>2, <1>3, <1>5
  <2>3. ASSUME Regular
        PROVE  region_left \in Files /\ \A k \in OfType("SO") : k <= region_left \/ k > region_right
    <3>1. Files # {}
      BY <2>1, <2>3, <1>2, <1>4, SearchPromise, SMT
    <3>2. IsContainer(region_left) /\ EndsBefore(region_left, region_right)
      BY <2>3, <3>1, <1>4, SearchPromise
    <3> QED
      BY <3>2, <1>3, <1>4, Zenon DEF IsContainer, EndsBefore
  <2> QED
    BY <1>2, <2>1, <2>2, <2>3 DEF FileRegion
<1>6. ASSUME region_left = 0, Regular, Files # {} PROVE FALSE
  <2>1. region_left \in Files
    BY <1>4, <1>6, SearchPromise DEF IsContainer
  <2>2. region_left \in OfType("SO")
    BY <2>1 DEF Files
  <2> QED
    BY <1>1, <1>6, <2>2, SMT
<1> QED
  BY <1>5, <1>6

LEMMA FunctionHandedOver ==
  ASSUME Tables, Searches("FUN"), first = lfile, last = rfile, FileRegion(lfile, rfile),
         pc = "done"
  PROVE  FunRegion(region_left, region_right)
<1>1. lfile \in Int /\ rfile \in Int /\ lfile <= rfile /\ 1 <= lfile
  BY DEF FileRegion
<1>2. \A k \in OfType("FUN") : k \in Int
  BY Entries
<1>3. /\ region_left \in Int /\ region_right \in Int
      /\ Region = {k \in OfType("FUN") : first <= k /\ k <= last}
      /\ Containing = {k \in OfType("FUN") : first <= k /\ k <= last /\ value[k] <= eip}
      /\ \/ region_left = first /\ region_right = first - 1
         \/ /\ region_left <= region_right /\ region_right <= last
            /\ region_right = last \/ region_right + 1 \in Region
            /\ first <= region_left \/ region_left = region_right
  BY Handed
<1> HIDE DEF Region, Containing, OfType
<1>4. lfile - 1 <= region_left /\ region_left <= rfile /\ region_right <= rfile
  <2>1. \A k \in Region : k \in Int /\ lfile <= k
    BY <1>2, <1>3
  <2> QED
    BY <1>1, <1>3, <2>1, SMT
<1>5. ASSUME Regular, Functions # {}
      PROVE  /\ region_left \in Functions /\ \A k \in Functions : k <= region_left
             /\ lfile <= region_left /\ region_left <= region_right
             /\ region_right = rfile \/ region_right + 1 \in OfType("FUN")
  <2>1. Containing = Functions
    BY <1>3, <1>5, FunctionsInRegion
  <2>2. IsContainer(region_left) /\ EndsBefore(region_left, region_right)
    BY <1>5, <2>1, SearchPromise
  <2>3. region_left \in Functions /\ \A k \in Functions : k <= region_left
    BY <2>1, <2>2, Zenon DEF IsContainer
  <2>4. lfile <= region_left
    BY <1>3, <2>1, <2>3
  <2>5. region_right \in region_left .. rfile /\ (region_right = rfile \/ region_right + 1 \in Region)
    BY <2>2 DEF EndsBefore
  <2> QED
    BY <1>1, <1>3, <2>3, <2>4, <2>5, SMT
<1> QED
  BY <1>3, <1>4, <1>5 DEF FunRegion

-----------------------------------------------------------------------------
(* The walk back to the file's name, and the parameters *)

LEMMA LastIs ==
  ASSUME NEW S \in SUBSET Int, NEW x \in S, \A y \in S : y <= x
  PROVE  Last(S) = x
<1> DEFINE IsLast(k) == \A j \in S : j <= k
<1>1. IsLast(x)
  OBVIOUS
<1>2. ASSUME NEW y \in S, IsLast(y) PROVE y = x
  <2>1. y <= x /\ x <= y /\ x \in Int /\ y \in Int
    BY <1>1, <1>2
  <2> QED
    BY <2>1, SMT
<1>3. Last(S) = CHOOSE k \in S : IsLast(k)
  BY Zenon DEF Last
<1> HIDE DEF IsLast
<1> QED
  BY <1>1, <1>2, <1>3, Zenon

LEMMA SourceReached ==
  ASSUME Tables, lfile \in Int, 1 <= lfile, lfun \in Int, lline \in Int,
         lfile - 1 <= lline, lline <= lfun, \A k \in lline + 1 .. lfun : ~NamesFile(k),
         lline < lfile \/ NamesFile(lline)
  PROVE  (IF lline >= lfile /\ lline \in named THEN lline ELSE Unknown) = NameAt(SourceOf(lfun))
<1> DEFINE S == {k \in lfile .. lfun : NamesFile(k)} \cup {Unknown}
<1>1. SourceOf(lfun) = Last(S)
  BY DEF SourceOf
<1>2. S \in SUBSET Int /\ Unknown \in S /\ \A k \in S : k # Unknown => k >= lfile /\ k <= lfun /\ NamesFile(k)
  BY SMT DEF Unknown
<1>3. CASE lline < lfile
  <2>1. \A k \in S : k = Unknown
    <3>1. \A k \in lfile .. lfun : k \in lline + 1 .. lfun
      BY <1>3, SMT
    <3> QED
      BY <3>1
  <2>2. \A k \in S : k <= Unknown
    BY <2>1, SMT DEF Unknown
  <2>3. Last(S) = Unknown
    BY <1>2, <2>2, LastIs
  <2>4. ~(lline >= lfile)
    BY <1>3, SMT
  <2> QED
    BY <1>1, <2>3, <2>4 DEF NameAt
<1>4. CASE lline >= lfile /\ NamesFile(lline)
  <2>1. lline \in S
    BY <1>4, SMT
  <2>2. \A k \in S : k <= lline
    <3>1. \A k \in lfile .. lfun : NamesFile(k) => ~(k \in lline + 1 .. lfun)
      OBVIOUS
    <3>2. \A k \in lfile .. lfun : NamesFile(k) => k <= lline
      BY <3>1, SMT
    <3>3. Unknown <= lline
      BY <1>4, SMT DEF Unknown
    <3> QED
      BY <3>2, <3>3
  <2>3. Last(S) = lline
    BY <1>2, <2>1, <2>2, LastIs
  <2> QED
    BY <1>1, <1>4, <2>3 DEF NameAt
<1> QED
  BY <1>3, <1>4, SMT

(* The function's part of the table does not end in a parameter. *)
LEMMA NoParameterBehind ==
  ASSUME Tables, FunRegion(lfun, rfun), InFunction
  PROVE  rfun \notin OfType("PSYM") /\ rfun + 1 \notin OfType("PSYM")
<1>1. rfun = NStabs - 1 \/ rfun + 1 \in OfType("SO") \/ rfun + 1 \in OfType("FUN")
  BY DEF FunRegion, FileRegion, InFunction
<1>2. rfun + 1 \notin OfType("PSYM")
  <2>1. rfun = NStabs - 1 => rfun + 1 \notin Indices
    BY Entries, SMT DEF Indices
  <2> QED
    BY <1>1, <2>1 DEF OfType
<1>3. ASSUME rfun \in OfType("PSYM") PROVE FALSE
  <2>1. rfun + 1 \in Indices /\ types[rfun + 1] \in {"PSYM", "SLINE"}
    BY <1>3 DEF Tables, WellTyped
  <2>2. rfun # NStabs - 1
    BY <2>1, Entries, SMT DEF Indices
  <2> QED
    BY <1>1, <2>1, <2>2 DEF OfType
<1> QED
  BY <1>2, <1>3

-----------------------------------------------------------------------------
(* The invariant *)

LEMMA TableKept ==
  ASSUME UNCHANGED debug
  PROVE  /\ Regular' <=> Regular
         /\ Files' = Files
         /\ \A t : OfType(t)' = OfType(t)
         /\ \A k : NamesFile(k)' <=> NamesFile(k)
         /\ \A k : NameAt(k)' = NameAt(k)
<1>1. types' = types /\ value' = value /\ named' = named /\ eip' = eip
  BY DEF debug
<1>2. \A t : OfType(t)' = OfType(t)
  BY <1>1 DEF OfType
<1>3. Starts' = Starts
  BY <1>1, Zenon DEF Starts, OfType
<1>4. Regular' <=> Regular
  BY <1>1, <1>3, Zenon DEF Regular, OneByteLong
<1>5. Files' = Files
  BY <1>1, Zenon DEF Files, OfType
<1>6. \A k : NamesFile(k)' <=> NamesFile(k)
  BY <1>1, Zenon DEF NamesFile
<1>7. \A k : NameAt(k)' = NameAt(k)
  BY <1>1, Zenon DEF NameAt
<1> QED
  BY <1>2, <1>4, <1>5, <1>6, <1>7

LEMMA FileOfKept ==
  ASSUME UNCHANGED debug, NEW k
  PROVE  FileOf(k)' = FileOf(k)
<1>1. OfType("SO")' = OfType("SO")
  BY Zenon DEF debug, OfType
<1> QED
  BY <1>1, Zenon DEF FileOf

LEMMA TablesKept ==
  ASSUME Tables, UNCHANGED debug,
         info' \in [eip_file : Int, eip_fn_name : Int, eip_fn_addr : Int, eip_fn_narg : Int]
  PROVE  Tables'
<1>1. types' = types /\ value' = value /\ named' = named /\ eip' = eip
  BY DEF debug
<1>2. WellTyped'
  <2>1. \A k : FileOf(k)' = FileOf(k)
    BY FileOfKept
  <2> QED
    BY <1>1, <2>1, Zenon DEF Tables, WellTyped, OfType
<1>3. WellAddressed'
  BY <1>1, Zenon DEF Tables, WellAddressed, OfType, Starts
<1> QED
  BY <1>1, <1>2, <1>3, Zenon DEF Tables

LEMMA FunctionsKept ==
  ASSUME UNCHANGED debug, lfile' = lfile
  PROVE  Functions' = Functions
<1>1. \A k : FileOf(k)' = FileOf(k)
  BY FileOfKept
<1>2. FileOf(lfile)' = FileOf(lfile)
  BY FileOfKept, Zenon
<1> QED
  BY <1>1, <1>2, Zenon DEF debug, Functions, OfType

LEMMA FileRegionKept ==
  ASSUME UNCHANGED debug, lfile' = lfile, rfile' = rfile, FileRegion(lfile, rfile)
  PROVE  FileRegion(lfile, rfile)'
  BY Zenon DEF debug, FileRegion, Files, Regular, OneByteLong, Starts, OfType

LEMMA FunRegionKept ==
  ASSUME UNCHANGED debug, lfile' = lfile, rfile' = rfile, lfun' = lfun, rfun' = rfun,
         FunRegion(lfun, rfun)
  PROVE  FunRegion(lfun, rfun)' /\ (InFunction' <=> InFunction)
<1>1. FileRegion(lfile, rfile)'
  BY FileRegionKept DEF FunRegion
<1>2. Functions' = Functions /\ (Regular' <=> Regular)
  BY FunctionsKept, TableKept
<1>3. OfType("FUN")' = OfType("FUN")
  BY TableKept
<1> QED
  BY <1>1, <1>2, <1>3, Zenon DEF FunRegion, InFunction

LEMMA ReportsKept ==
  ASSUME UNCHANGED debug, lfile' = lfile, lfun' = lfun
  PROVE  /\ /\ info'.eip_fn_addr = info.eip_fn_addr /\ info'.eip_fn_name = info.eip_fn_name
            /\ FunctionReported(lfun)
            => FunctionReported(lfun)'
         /\ info'.eip_file = NameAt(SourceOf(lfun)) => FileReported(lfun)'
<1>1. SourceOf(lfun)' = SourceOf(lfun)
  BY Zenon DEF debug, SourceOf, Last, NamesFile
<1>2. NameAt(SourceOf(lfun))' = NameAt(SourceOf(lfun))
  BY <1>1, Zenon DEF debug, NameAt
<1>3. value'[lfun'] = value[lfun] /\ NameAt(lfun)' = NameAt(lfun)
  BY Zenon DEF debug, NameAt
<1> QED
  BY <1>2, <1>3, Zenon DEF FunctionReported, FileReported

LEMMA InitDInv == DInit => DInv
<1> SUFFICES ASSUME DInit PROVE DInv
  OBVIOUS
<1>1. stage = "start"
  BY DEF DInit
<1>2. PICK v \in [Starts -> Addrs] : value = [k \in Indices |-> IF k \in Starts THEN v[k] ELSE 0]
  BY DEF DInit
<1>3. 0 \in Addrs
  BY AddrAssumption, SMT DEF Addrs
<1>4. value \in [Indices -> Addrs]
  BY <1>2, <1>3
<1>5. eip \in Addrs /\ eip \in Int /\ types \in [Indices -> Types] /\ named \in {Indices, {}}
  BY AddrAssumption, SMT DEF DInit, Addrs
<1>6. info \in [eip_file : Int, eip_fn_name : Int, eip_fn_addr : Int, eip_fn_narg : Int]
  BY <1>5, SMT DEF DInit, LocalsInit, Unknown
<1>7. WellTyped /\ WellAddressed
  BY DEF DInit
<1> QED
  BY <1>1, <1>4, <1>5, <1>6, <1>7 DEF DInv, Tables

LEMMA BegunNext == Begun' => SearchInv' /\ Bounds'
  BY BegunSearch, BegunBounds, PTL

(* A search begins in the table it is given. *)
LEMMA SearchBegins ==
  ASSUME Tables, UNCHANGED debug, NEW t \in {"SO", "FUN"},
         NEW left \in Indices, NEW right \in Indices, left <= right,
         Search(t, left, right)
  PROVE  Searches(t)' /\ first' = left /\ last' = right
<1>1. /\ types' = types /\ value' = value /\ eip' = eip /\ eip \in Addrs
      /\ value \in [Indices -> Addrs]
  BY DEF Tables, debug
<1>2. match' = OfType(t) /\ OfType(t) \subseteq Indices /\ OfType(t) \subseteq Starts
  BY DEF Search, OfType, Starts
<1>3. Sorted'
  <2>1. \A j, k \in match' : j < k => value'[j] <= value'[k]
    BY <1>1, <1>2, Zenon DEF Tables, WellAddressed
  <2> QED
    BY <2>1, Zenon DEF Sorted
<1>4. Begun'
  BY <1>1, <1>2, <1>3 DEF Begun, Search
<1>5. OfType(t)' = OfType(t)
  BY TableKept
<1> QED
  BY <1>2, <1>4, <1>5, <1>1, BegunNext DEF Searches, Search

LEMMA StartStep == DInv /\ Start => DInv'
<1> SUFFICES ASSUME DInv, Start PROVE DInv'
  OBVIOUS
<1>1. UNCHANGED debug /\ Tables
  BY DEF Start, DInv
<1>2. Tables'
  <2>1. info' \in [eip_file : Int, eip_fn_name : Int, eip_fn_addr : Int, eip_fn_narg : Int]
    BY <1>1, Entries, SMT DEF Start, Unknown
  <2> QED
    BY <1>1, <2>1, TablesKept
<1>3. NothingReported'
  BY DEF Start, NothingReported
<1>4. CASE stage' = "panic"
  BY <1>1, <1>2, <1>4 DEF DInv
<1>5. CASE ~stabstrValid /\ Return(-1)
  BY <1>1, <1>2, <1>5 DEF DInv, debug, Return
<1>6. CASE Search("SO", 0, NStabs - 1) /\ stage' = "file"
  <2>1. 0 \in Indices /\ NStabs - 1 \in Indices /\ 0 <= NStabs - 1
    BY <1>1, Entries, SMT DEF Indices
  <2>2. Searches("SO")' /\ first' = 0 /\ last' = NStabs - 1
    BY <1>1, <1>6, <2>1, SearchBegins
  <2> QED
    BY <1>2, <1>3, <1>6, <2>2 DEF DInv, FileStage
<1> QED
  BY <1>4, <1>5, <1>6 DEF Start

LEMMA SearchingStep == DInv /\ Searching => DInv'
<1> SUFFICES ASSUME DInv, Searching PROVE DInv'
  OBVIOUS
<1>1. UNCHANGED debug /\ Tables /\ lfile' = lfile /\ rfile' = rfile /\ info' = info /\ stage' = stage
  BY DEF Searching, DInv, locals
<1>2. Tables'
  BY <1>1, TablesKept DEF Tables
<1>3. ASSUME NEW t, Searches(t)
      PROVE  Searches(t)' /\ first' = first /\ last' = last
  <2>1. SearchInv' /\ Bounds'
    BY <1>3, StepSearch, StepBounds DEF Searching, Searches
  <2>2. UNCHANGED table
    BY TableStays DEF Searching
  <2>3. OfType(t)' = OfType(t)
    BY <1>1, TableKept
  <2> QED
    BY <1>1, <1>3, <2>1, <2>2, <2>3 DEF Searches, table, debug
<1>4. NothingReported => NothingReported'
  BY <1>1 DEF NothingReported
<1>5. CASE stage = "file"
  BY <1>1, <1>2, <1>3, <1>4, <1>5 DEF DInv, FileStage
<1>6. CASE stage = "fun"
  BY <1>1, <1>2, <1>3, <1>4, <1>6, FileRegionKept DEF DInv, FunStage
<1> QED
  BY <1>5, <1>6 DEF Searching

LEMMA FileFoundStep == DInv /\ FileFound => DInv'
<1> SUFFICES ASSUME DInv, FileFound PROVE DInv'
  OBVIOUS
<1>1. UNCHANGED debug /\ Tables /\ FileStage /\ pc = "done" /\ info' = info
  BY DEF FileFound, DInv
<1>2. Tables'
  BY <1>1, TablesKept DEF Tables
<1>3. /\ region_left # 0 => FileRegion(region_left, region_right)
      /\ region_left = 0 /\ Regular => Files = {}
  BY <1>1, FileHandedOver DEF FileStage
<1>4. CASE region_left = 0 /\ Return(-1)
  <2>1. (Regular' <=> Regular) /\ Files' = Files
    BY <1>1, TableKept
  <2>2. Regular' => Outcome'
    BY <1>3, <1>4, <2>1 DEF Outcome, Return
  <2> QED
    BY <1>2, <1>4, <2>2 DEF DInv, Return
<1>5. CASE region_left # 0 /\ Search("FUN", region_left, region_right) /\ stage' = "fun"
  <2>1. region_left \in Indices /\ region_right \in Indices /\ region_left <= region_right
    BY <1>1, <1>3, <1>5, Entries, SMT DEF FileRegion, Indices
  <2>2. Searches("FUN")' /\ first' = region_left /\ last' = region_right
    BY <1>1, <1>5, <2>1, SearchBegins
  <2>3. lfile' = region_left /\ rfile' = region_right
    BY DEF FileFound
  <2>4. FileRegion(lfile, rfile)'
    BY <1>1, <1>3, <1>5, <2>3, Zenon DEF debug, FileRegion, Files, Regular, OneByteLong, Starts, OfType
  <2>5. NothingReported'
    BY <1>1 DEF FileStage, NothingReported
  <2> QED
    BY <1>2, <1>5, <2>2, <2>3, <2>4, <2>5 DEF DInv, FunStage
<1> QED
  BY <1>4, <1>5 DEF FileFound

LEMMA FunFoundStep == DInv /\ FunFound => DInv'
<1> SUFFICES ASSUME DInv, FunFound PROVE DInv'
  OBVIOUS
<1>1. /\ UNCHANGED debug /\ Tables /\ FunStage /\ pc = "done" /\ stage' = "names"
      /\ lfile' = lfile /\ rfile' = rfile /\ lfun' = region_left /\ rfun' = region_right
  BY DEF FunFound, DInv
<1>2. FunRegion(region_left, region_right)
  BY <1>1, FunctionHandedOver DEF FunStage
<1>3. /\ lfile \in Int /\ rfile \in Int /\ 1 <= lfile /\ lfile <= rfile /\ rfile <= NStabs - 1
      /\ region_left \in Int /\ region_right \in Int
      /\ lfile - 1 <= region_left /\ region_left <= rfile /\ region_right <= rfile
  BY <1>2 DEF FunRegion, FileRegion
<1>4. /\ region_left \in Indices /\ value[region_left] \in Int
      /\ lfile \in Int /\ eip \in Int
  BY <1>1, <1>3, Entries, AddrAssumption, SMT DEF Tables, Indices, Addrs
<1>5. Tables'
  <2>1. info' \in [eip_file : Int, eip_fn_name : Int, eip_fn_addr : Int, eip_fn_narg : Int]
    <3>1. info \in [eip_file : Int, eip_fn_name : Int, eip_fn_addr : Int, eip_fn_narg : Int]
      BY <1>1 DEF Tables
    <3>2. (IF region_left \in named THEN region_left ELSE info.eip_fn_name) \in Int
      BY <3>1, <1>3
    <3> QED
      BY <3>1, <3>2, <1>4 DEF FunFound
  <2> QED
    BY <1>1, <2>1, TablesKept
<1>6. FileRegion(lfile, rfile)'
  BY <1>1, <1>2, FileRegionKept DEF FunRegion
<1>7. Functions' = Functions /\ (Regular' <=> Regular) /\ OfType("FUN")' = OfType("FUN")
  BY <1>1, FunctionsKept, TableKept
<1>8. FunRegion(lfun, rfun)'
  BY <1>1, <1>2, <1>6, <1>7, Zenon DEF FunRegion
<1>9. lline' \in lfile' - 1 .. rfile'
  BY <1>1, <1>3, SMT DEF FunFound
<1>10. ASSUME InFunction'
       PROVE  /\ FunctionReported(lfun)'
              /\ info'.eip_file = Unknown /\ info'.eip_fn_narg = 0
              /\ lline' <= lfun' /\ \A k \in lline' + 1 .. lfun' : ~NamesFile(k)'
  <2>1. Regular /\ Functions # {}
    BY <1>7, <1>10 DEF InFunction
  <2>2. FunInRegion
    BY <1>2, <2>1 DEF FunRegion, FunInRegion
  <2>3. /\ lline' = region_left
        /\ info' = [info EXCEPT !.eip_fn_name = IF region_left \in named THEN region_left ELSE @,
                               !.eip_fn_addr = value[region_left]]
    BY <2>2 DEF FunFound
  <2>4. /\ info'.eip_file = Unknown /\ info'.eip_fn_narg = 0
        /\ info'.eip_fn_addr = value[region_left]
        /\ info'.eip_fn_name = IF region_left \in named THEN region_left ELSE Unknown
    BY <1>1, <2>3 DEF Tables, FunStage, NothingReported
  <2>5. FunctionReported(lfun)'
    BY <1>1, <2>4 DEF FunctionReported, NameAt, debug
  <2>6. lline' <= lfun' /\ \A k \in lline' + 1 .. lfun' : FALSE
    BY <1>1, <1>3, <2>3, SMT
  <2> QED
    BY <2>4, <2>5, <2>6
<1> QED
  BY <1>1, <1>5, <1>8, <1>9, <1>10 DEF DInv, NamesStage

LEMMA BackwardStep == DInv /\ Backward => DInv'
<1> SUFFICES ASSUME DInv, Backward PROVE DInv'
  OBVIOUS
<1>1. /\ UNCHANGED debug /\ Tables /\ NamesStage /\ stage' = "names"
      /\ lfile' = lfile /\ rfile' = rfile /\ lfun' = lfun /\ rfun' = rfun /\ info' = info
      /\ lline' = lline - 1 /\ lline >= lfile /\ ~NamesFile(lline)
  BY DEF Backward, DInv
<1>2. Tables'
  BY <1>1, TablesKept DEF Tables
<1>3. FunRegion(lfun, rfun)' /\ (InFunction' <=> InFunction)
  BY <1>1, FunRegionKept DEF NamesStage
<1>4. lfile \in Int /\ rfile \in Int /\ lline \in Int /\ lfun \in Int /\ lline <= rfile
  BY <1>1 DEF NamesStage, FunRegion, FileRegion
<1>5. lline' \in lfile' - 1 .. rfile'
  BY <1>1, <1>4, SMT
<1>6. ASSUME InFunction
      PROVE  /\ FunctionReported(lfun)' /\ info'.eip_file = Unknown /\ info'.eip_fn_narg = 0
             /\ lline' <= lfun' /\ \A k \in lline' + 1 .. lfun' : ~NamesFile(k)'
  <2>1. FunctionReported(lfun)'
    BY <1>1, <1>6, ReportsKept DEF NamesStage
  <2>2. lline' <= lfun'
    BY <1>1, <1>4, <1>6, SMT DEF NamesStage
  <2>3. \A k \in lline' + 1 .. lfun' : k = lline \/ k \in lline + 1 .. lfun
    BY <1>1, <1>4, SMT
  <2>4. \A k \in lline' + 1 .. lfun' : ~NamesFile(k)
    BY <1>1, <1>6, <2>3 DEF NamesStage
  <2>5. \A k : NamesFile(k)' <=> NamesFile(k)
    BY <1>1, TableKept
  <2> QED
    BY <1>1, <1>6, <2>1, <2>2, <2>4, <2>5, Zenon DEF NamesStage
<1> QED
  BY <1>1, <1>2, <1>3, <1>5, <1>6 DEF DInv, NamesStage

LEMMA NameFileStep == DInv /\ NameFile => DInv'
<1> SUFFICES ASSUME DInv, NameFile PROVE DInv'
  OBVIOUS
<1>1. /\ UNCHANGED debug /\ Tables /\ NamesStage /\ (lline < lfile \/ NamesFile(lline))
      /\ lfile' = lfile /\ rfile' = rfile /\ lfun' = lfun /\ rfun' = rfun
      /\ info' = [info EXCEPT !.eip_file = IF lline >= lfile /\ lline \in named THEN lline ELSE @]
  BY DEF NameFile, DInv
<1>2. /\ lfile \in Int /\ rfile \in Int /\ lline \in Int /\ lfun \in Int /\ rfun \in Int
      /\ lfile - 1 <= lline /\ 1 <= lfile
  BY <1>1, SMT DEF NamesStage, FunRegion, FileRegion
<1>3. /\ info \in [eip_file : Int, eip_fn_name : Int, eip_fn_addr : Int, eip_fn_narg : Int]
      /\ info' \in [eip_file : Int, eip_fn_name : Int, eip_fn_addr : Int, eip_fn_narg : Int]
      /\ info'.eip_file = IF lline >= lfile /\ lline \in named THEN lline ELSE info.eip_file
      /\ info'.eip_fn_addr = info.eip_fn_addr /\ info'.eip_fn_name = info.eip_fn_name
      /\ info'.eip_fn_narg = info.eip_fn_narg
  <2>1. info \in [eip_file : Int, eip_fn_name : Int, eip_fn_addr : Int, eip_fn_narg : Int]
    BY <1>1 DEF Tables
  <2>2. (IF lline >= lfile /\ lline \in named THEN lline ELSE info.eip_file) \in Int
    BY <1>2, <2>1
  <2> QED
    BY <1>1, <2>1, <2>2
<1>4. Tables'
  BY <1>1, <1>3, TablesKept
<1>5. FunRegion(lfun, rfun)' /\ (InFunction' <=> InFunction)
  BY <1>1, FunRegionKept DEF NamesStage
<1>6. ASSUME InFunction
      PROVE  FunctionReported(lfun)' /\ FileReported(lfun)' /\ info'.eip_fn_narg = 0
  <2>1. FunctionReported(lfun)'
    BY <1>1, <1>3, <1>6, ReportsKept DEF NamesStage
  <2>2. info'.eip_file = NameAt(SourceOf(lfun))
    <3>1. (IF lline >= lfile /\ lline \in named THEN lline ELSE Unknown) = NameAt(SourceOf(lfun))
      BY <1>1, <1>2, <1>6, SourceReached DEF NamesStage
    <3> QED
      BY <1>1, <1>3, <1>6, <3>1 DEF NamesStage
  <2> QED
    BY <1>1, <1>3, <1>6, <2>1, <2>2, ReportsKept DEF NamesStage
<1>7. CASE lfun < rfun /\ lline' = lfun + 1 /\ stage' = "args"
  <2>1. lline' \in lfun' + 1 .. rfun'
    BY <1>1, <1>2, <1>7, SMT
  <2>2. 0 = lline' - lfun' - 1 /\ \A k \in lfun' + 1 .. lline' - 1 : FALSE
    BY <1>1, <1>2, <1>7, SMT
  <2> QED
    BY <1>4, <1>5, <1>6, <1>7, <2>1, <2>2 DEF DInv, ArgsStage
<1>8. CASE ~(lfun < rfun) /\ Return(0)
  <2>1. ASSUME InFunction
        PROVE  ParametersCounted'
    <3>1. lfun = rfun
      BY <1>1, <1>2, <1>8, <2>1, SMT DEF NamesStage, FunRegion, InFunction
    <3>2. rfun + 1 \notin OfType("PSYM")
      BY <1>1, <2>1, NoParameterBehind DEF NamesStage
    <3>3. lfun + 0 + 1 = rfun + 1 /\ \A k \in lfun + 1 .. lfun + 0 : FALSE
      BY <1>2, <3>1, SMT
    <3>4. lfun + 1 .. lfun + 0 \subseteq OfType("PSYM") /\ lfun + 0 + 1 \notin OfType("PSYM")
      BY <3>2, <3>3
    <3>5. OfType("PSYM")' = OfType("PSYM") /\ 0 \in Nat
      BY <1>1, TableKept
    <3>6. /\ info'.eip_fn_narg = 0 /\ lfun' + 1 .. lfun' + 0 \subseteq OfType("PSYM")'
          /\ lfun' + 0 + 1 \notin OfType("PSYM")'
      BY <1>1, <1>6, <2>1, <3>4, <3>5, Zenon
    <3> QED
      BY <3>5, <3>6, Zenon DEF ParametersCounted
  <2>2. Outcome'
    BY <1>5, <1>6, <1>8, <2>1 DEF Outcome, Return
  <2> QED
    BY <1>4, <1>8, <2>2 DEF DInv, Return
<1> QED
  BY <1>7, <1>8 DEF NameFile

LEMMA CountArgStep == DInv /\ CountArg => DInv'
<1> SUFFICES ASSUME DInv, CountArg PROVE DInv'
  OBVIOUS
<1>1. /\ UNCHANGED debug /\ Tables /\ ArgsStage /\ stage' = "args" /\ Parameter(lline)
      /\ lfile' = lfile /\ rfile' = rfile /\ lfun' = lfun /\ rfun' = rfun
      /\ info' = [info EXCEPT !.eip_fn_narg = @ + 1] /\ lline' = lline + 1
  BY DEF CountArg, DInv
<1>2. /\ lfile \in Int /\ rfile \in Int /\ lline \in Int /\ lfun \in Int /\ rfun \in Int
      /\ 1 <= lfile /\ lfile - 1 <= lfun /\ rfun <= rfile /\ rfile <= NStabs - 1
      /\ lfun + 1 <= lline /\ lline <= rfun
  BY <1>1, SMT DEF ArgsStage, FunRegion, FileRegion
<1>3. /\ info' \in [eip_file : Int, eip_fn_name : Int, eip_fn_addr : Int, eip_fn_narg : Int]
      /\ info'.eip_file = info.eip_file
      /\ info'.eip_fn_addr = info.eip_fn_addr /\ info'.eip_fn_name = info.eip_fn_name
      /\ info'.eip_fn_narg = info.eip_fn_narg + 1
  <2>1. info \in [eip_file : Int, eip_fn_name : Int, eip_fn_addr : Int, eip_fn_narg : Int]
    BY <1>1 DEF Tables
  <2>2. info.eip_fn_narg + 1 \in Int
    BY <2>1
  <2> QED
    BY <1>1, <2>1, <2>2
<1>4. Tables'
  BY <1>1, <1>3, TablesKept
<1>5. FunRegion(lfun, rfun)' /\ (InFunction' <=> InFunction)
  BY <1>1, FunRegionKept DEF ArgsStage
<1>6. lline < rfun /\ types[lline] = "PSYM"
  BY <1>1 DEF Parameter
<1>7. lline' \in lfun' + 1 .. rfun'
  BY <1>1, <1>2, <1>6, SMT
<1>8. ASSUME InFunction
      PROVE  /\ FunctionReported(lfun)' /\ FileReported(lfun)'
             /\ info'.eip_fn_narg = lline' - lfun' - 1
             /\ lfun' + 1 .. lline' - 1 \subseteq OfType("PSYM")'
  <2>1. FunctionReported(lfun)' /\ FileReported(lfun)'
    BY <1>1, <1>3, <1>8, ReportsKept DEF ArgsStage, FileReported
  <2>2. info'.eip_fn_narg = lline' - lfun' - 1
    BY <1>1, <1>2, <1>3, <1>8, SMT DEF ArgsStage
  <2>3. lline \in OfType("PSYM")
    BY <1>1, <1>2, <1>6, Entries, SMT DEF OfType, Indices
  <2>4. \A k \in lfun + 1 .. lline' - 1 : k = lline \/ k \in lfun + 1 .. lline - 1
    BY <1>1, <1>2, SMT
  <2>5. lfun + 1 .. lline' - 1 \subseteq OfType("PSYM")
    BY <1>1, <1>8, <2>3, <2>4 DEF ArgsStage
  <2>6. OfType("PSYM")' = OfType("PSYM")
    BY <1>1, TableKept
  <2> QED
    BY <1>1, <2>1, <2>2, <2>5, <2>6
<1> QED
  BY <1>1, <1>4, <1>5, <1>7, <1>8 DEF DInv, ArgsStage

LEMMA EndArgsStep == DInv /\ EndArgs => DInv'
<1> SUFFICES ASSUME DInv, EndArgs PROVE DInv'
  OBVIOUS
<1>1. /\ UNCHANGED debug /\ Tables /\ ArgsStage /\ ~Parameter(lline) /\ Return(0)
      /\ lfile' = lfile /\ rfile' = rfile /\ lfun' = lfun /\ rfun' = rfun /\ info' = info
  BY DEF EndArgs, DInv
<1>2. Tables'
  BY <1>1, TablesKept DEF Tables
<1>3. FunRegion(lfun, rfun)' /\ (InFunction' <=> InFunction)
  BY <1>1, FunRegionKept DEF ArgsStage
<1>4. lline \in Int /\ lfun \in Int /\ rfun \in Int /\ lfun + 1 <= lline /\ lline <= rfun
  BY <1>1, SMT DEF ArgsStage, FunRegion
<1>5. ASSUME InFunction
      PROVE  FunctionReported(lfun)' /\ FileReported(lfun)' /\ ParametersCounted'
  <2>1. FunctionReported(lfun)' /\ FileReported(lfun)'
    BY <1>1, <1>5, ReportsKept DEF ArgsStage, FileReported
  <2>2. lline \notin OfType("PSYM")
    <3>1. rfun \notin OfType("PSYM")
      BY <1>1, <1>5, NoParameterBehind DEF ArgsStage
    <3>2. lline = rfun \/ types[lline] # "PSYM"
      BY <1>1, <1>4, SMT DEF Parameter
    <3> QED
      BY <3>1, <3>2 DEF OfType
  <2>3. PICK n \in Nat : n = lline - lfun - 1
    BY <1>4, SMT
  <2>4. lfun + n = lline - 1 /\ lfun + n + 1 = lline
    BY <1>4, <2>3, SMT
  <2>5. /\ info.eip_fn_narg = n /\ lfun + 1 .. lfun + n \subseteq OfType("PSYM")
        /\ lfun + n + 1 \notin OfType("PSYM")
    BY <1>1, <1>5, <2>2, <2>3, <2>4 DEF ArgsStage
  <2>6. OfType("PSYM")' = OfType("PSYM")
    BY <1>1, TableKept
  <2>7. ParametersCounted'
    BY <1>1, <2>5, <2>6, Zenon DEF ParametersCounted
  <2> QED
    BY <2>1, <2>7
<1>6. Outcome'
  BY <1>1, <1>3, <1>5 DEF Outcome, Return
<1> QED
  BY <1>1, <1>2, <1>6 DEF DInv, Return

LEMMA StutterStep == DInv /\ UNCHANGED dvars => DInv'
<1> SUFFICES ASSUME DInv, UNCHANGED dvars PROVE DInv'
  OBVIOUS
<1>1. UNCHANGED vars /\ UNCHANGED debug /\ UNCHANGED locals /\ stage' = stage
  BY DEF dvars
<1>2. /\ info' = info /\ lfile' = lfile /\ rfile' = rfile /\ lfun' = lfun /\ rfun' = rfun
      /\ lline' = lline /\ ret' = ret
  BY <1>1 DEF locals
<1>3. Tables'
  BY <1>1, <1>2, TablesKept DEF DInv, Tables
<1>4. ASSUME NEW t, Searches(t)
      PROVE  Searches(t)' /\ first' = first /\ last' = last
  <2>1. SearchInv' /\ Bounds'
    BY <1>1, <1>4, StepSearch, StepBounds DEF Searches
  <2>2. UNCHANGED table
    BY <1>1 DEF vars
  <2>3. OfType(t)' = OfType(t)
    BY <1>1, TableKept
  <2> QED
    BY <1>1, <1>4, <2>1, <2>2, <2>3 DEF Searches, table, debug
<1>5. CASE stage = "file"
  BY <1>1, <1>2, <1>3, <1>4, <1>5 DEF DInv, FileStage, NothingReported
<1>6. CASE stage = "fun"
  BY <1>1, <1>2, <1>3, <1>4, <1>6, FileRegionKept DEF DInv, FunStage, NothingReported
<1>7. FunRegion(lfun, rfun) => /\ FunRegion(lfun, rfun)' /\ (InFunction' <=> InFunction)
                               /\ (FunctionReported(lfun) => FunctionReported(lfun)')
                               /\ (FileReported(lfun) => FileReported(lfun)')
  BY <1>1, <1>2, FunRegionKept, ReportsKept DEF FileReported
<1>8. /\ OfType("PSYM")' = OfType("PSYM") /\ (Regular' <=> Regular) /\ Files' = Files
      /\ \A k : NamesFile(k)' <=> NamesFile(k)
  BY <1>1, TableKept
<1>9. CASE stage = "names"
  BY <1>1, <1>2, <1>3, <1>7, <1>8, <1>9, Zenon DEF DInv, NamesStage
<1>10. CASE stage = "args"
  BY <1>1, <1>2, <1>3, <1>7, <1>8, <1>10, Zenon DEF DInv, ArgsStage
<1>11. CASE stage = "returned"
  <2>1. ParametersCounted => ParametersCounted'
    BY <1>2, <1>8, Zenon DEF ParametersCounted
  <2>2. Outcome => Outcome'
    BY <1>2, <1>7, <1>8, <2>1, Zenon DEF Outcome
  <2>3. stabstrValid' = stabstrValid
    BY <1>1 DEF debug
  <2> QED
    BY <1>1, <1>3, <1>8, <1>11, <2>2, <2>3 DEF DInv
<1> QED
  BY <1>1, <1>3, <1>5, <1>6, <1>9, <1>10, <1>11 DEF DInv

LEMMA DInvariant == DSpec => []DInv
<1>1. DInv /\ [DNext]_dvars => DInv'
  BY StartStep, SearchingStep, FileFoundStep, FunFoundStep, BackwardStep, NameFileStep,
     CountArgStep, EndArgsStep, StutterStep DEF DNext
<1> QED
  BY InitDInv, <1>1, PTL DEF DSpec

(***************************************************************************)
(* For tables of any size, the two searches and the three walks read no    *)
(* entry outside the file that was found.                                  *)
(***************************************************************************)
THEOREM LookupStaysInside == DSpec => []TableReadsInside
<1>1. DInv => TableReadsInside
  <2> SUFFICES ASSUME DInv PROVE TableReadsInside
    OBVIOUS
  <2>1. stage \in {"file", "fun"} => ReadsInside
    BY IInvReads DEF DInv, FileStage, FunStage, Searches, SearchInv
  <2>2. stage = "names" => lline \in lfile - 1 .. rfile
    BY DEF DInv, NamesStage
  <2>3. stage = "args" => lline \in lfun .. rfun
    BY SMT DEF DInv, ArgsStage, FunRegion
  <2> QED
    BY <2>1, <2>2, <2>3 DEF TableReadsInside
<1> QED
  BY DInvariant, <1>1, PTL

(***************************************************************************)
(* For tables of any size and every address but the last that no file one  *)
(* byte long starts at, debuginfo_eip fails exactly if no file starts at   *)
(* or before the address.                                                  *)
(***************************************************************************)
THEOREM FailsRightly == DSpec => []FailsWithoutFile
<1>1. DInv => FailsWithoutFile
  <2> SUFFICES ASSUME DInv, Answered PROVE ret = -1 <=> Files = {}
    BY DEF FailsWithoutFile
  <2>1. Regular /\ Outcome
    BY DEF DInv, Answered, Regular
  <2>2. CASE ret = -1 /\ Files = {}
    BY <2>2
  <2>3. CASE ret = 0 /\ FunRegion(lfun, rfun)
    <3>1. lfile \in Files
      BY <2>1, <2>3 DEF FunRegion, FileRegion
    <3> QED
      BY <2>3, <3>1, SMT
  <2> QED
    BY <2>1, <2>2, <2>3 DEF Outcome
<1> QED
  BY DInvariant, <1>1, PTL

(* The parameters counted are all that there are. *)
LEMMA ArgumentsAre ==
  ASSUME Tables, NEW f \in Int, 0 <= f, NEW n \in Nat,
         f + 1 .. f + n \subseteq OfType("PSYM"), f + n + 1 \notin OfType("PSYM")
  PROVE  (CHOOSE a \in 0 .. NStabs : ArgumentsOf(f) = f + 1 .. f + a) = n
<1>1. /\ \A k \in OfType("PSYM") : k \in Int /\ k <= NStabs - 1 /\ types[k] = "PSYM"
      /\ NStabs \in Int /\ NStabs > 0
      /\ \A k \in Int : 0 <= k /\ k <= NStabs - 1 /\ types[k] = "PSYM" => k \in OfType("PSYM")
  BY Entries, SMT DEF OfType, Indices
<1> HIDE DEF OfType
<1>2. n \in 0 .. NStabs
  <2>1. n > 0 => f + n \in f + 1 .. f + n
    BY SMT
  <2> QED
    BY <1>1, <2>1, SMT
<1>3. ASSUME NEW k \in f + 1 .. f + n PROVE k \in ArgumentsOf(f)
  <2>1. k \in OfType("PSYM") /\ k > f
    BY <1>3, SMT
  <2>2. \A j \in f + 1 .. k : j \in f + 1 .. f + n
    BY SMT
  <2>3. \A j \in f + 1 .. k : types[j] = "PSYM"
    BY <1>1, <2>2
  <2> QED
    BY <2>1, <2>3 DEF ArgumentsOf
<1>4. ASSUME NEW k \in ArgumentsOf(f) PROVE k \in f + 1 .. f + n
  <2>1. k \in OfType("PSYM") /\ k > f /\ \A j \in f + 1 .. k : types[j] = "PSYM"
    BY DEF ArgumentsOf
  <2>2. k \in Int /\ k <= NStabs - 1
    BY <1>1, <2>1
  <2>3. ASSUME k > f + n PROVE FALSE
    <3>1. f + n + 1 \in f + 1 .. k
      BY <2>2, <2>3, SMT
    <3>2. types[f + n + 1] = "PSYM"
      BY <2>1, <3>1
    <3>3. f + n + 1 \in Int /\ 0 <= f + n + 1 /\ f + n + 1 <= NStabs - 1
      BY <1>1, <2>2, <2>3, SMT
    <3> QED
      BY <1>1, <3>2, <3>3
  <2> QED
    BY <2>1, <2>2, <2>3, SMT
<1>5. ArgumentsOf(f) = f + 1 .. f + n
  BY <1>3, <1>4
<1> DEFINE Counts(a) == ArgumentsOf(f) = f + 1 .. f + a
<1>6. ASSUME NEW a \in 0 .. NStabs, Counts(a) PROVE a = n
  <2>1. f + 1 .. f + a = f + 1 .. f + n
    BY <1>5, <1>6
  <2>2. a > n => f + a \in f + 1 .. f + a /\ f + a \notin f + 1 .. f + n
    BY SMT
  <2>3. n > a => f + n \in f + 1 .. f + n /\ f + n \notin f + 1 .. f + a
    BY <1>1, SMT
  <2> QED
    BY <1>1, <2>1, <2>2, <2>3, SMT
<1>7. Counts(n)
  BY <1>5
<1> HIDE DEF Counts
<1>8. (CHOOSE a \in 0 .. NStabs : Counts(a)) = n
  BY <1>2, <1>6, <1>7, Zenon
<1> QED
  BY <1>8, Zenon DEF Counts

(***************************************************************************)
(* For tables of any size, every address in a function the searches can    *)
(* find is answered with that function, the file named last before it, and *)
(* as many arguments as it has parameters.                                 *)
(***************************************************************************)
THEOREM LookupRight == DSpec => []FunctionFound
<1>1. DInv => FunctionFound
  <2> SUFFICES ASSUME DInv, Answered, ret = 0, Functions # {} PROVE FunctionFound
    BY DEF FunctionFound
  <2>1. Tables /\ Regular /\ Outcome /\ InFunction
    BY DEF DInv, Answered, Regular, InFunction
  <2>2. FunRegion(lfun, rfun) /\ FunctionReported(lfun) /\ FileReported(lfun) /\ ParametersCounted
    BY <2>1, SMT DEF Outcome
  <2>3. /\ lfun \in Functions /\ \A k \in Functions : k <= lfun
        /\ FileRegion(lfile, rfile) /\ lfun \in Int /\ lfile \in Int /\ 1 <= lfile /\ lfile <= lfun
    BY <2>1, <2>2 DEF FunRegion, InFunction, FileRegion
  <2>4. Functions \in SUBSET Int
    BY <2>1, Entries DEF Functions
  <2>5. Last(Functions) = lfun
    BY <2>3, <2>4, LastIs
  <2>6. FileOf(lfun) = lfile
    BY <2>1, <2>3, FileOfRegion DEF Functions
  <2>7. Last({k \in FileOf(lfun) .. lfun : NamesFile(k)} \cup {Unknown}) = SourceOf(lfun)
    BY <2>6 DEF SourceOf
  <2>8. info.eip_fn_narg = CHOOSE n \in 0 .. NStabs : ArgumentsOf(lfun) = lfun + 1 .. lfun + n
    <3>1. PICK n \in Nat : /\ info.eip_fn_narg = n
                           /\ lfun + 1 .. lfun + n \subseteq OfType("PSYM")
                           /\ lfun + n + 1 \notin OfType("PSYM")
      BY <2>2 DEF ParametersCounted
    <3>2. 0 <= lfun
      BY <2>3, SMT
    <3>3. (CHOOSE a \in 0 .. NStabs : ArgumentsOf(lfun) = lfun + 1 .. lfun + a) = n
      BY <2>1, <2>3, <3>1, <3>2, ArgumentsAre
    <3> QED
      BY <3>1, <3>3
  <2> QED
    BY <2>2, <2>5, <2>7, <2>8, Zenon DEF FunctionFound, FunctionReported, FileReported, NameAt
<1> QED
  BY DInvariant, <1>1, PTL
=============================================================================
