----------------------------- MODULE StringsProofs -----------------------------
(***************************************************************************)
(* Proofs about lib/string.c: memmove and memset are right for memories    *)
(* and regions of any size, alignment and overlap, moved by bytes or by    *)
(* words; and so is every other function for strings of any length.        *)
(***************************************************************************)
EXTENDS Strings, WellFoundedInduction, TLAPS

-----------------------------------------------------------------------------
(* Induction and recursion on the natural numbers *)

LEMMA LeastElement ==
  ASSUME NEW U \in SUBSET Nat, U # {}
  PROVE  \E x \in U : \A y \in U : x <= y
<1>1. PICK x \in U : \A y \in U : ~(<<y, x>> \in OpToRel(<, Nat))
  BY NatLessThanWellFounded, WFMin
<1>2. \A y \in U : x <= y
  <2> SUFFICES ASSUME NEW y \in U, y < x PROVE FALSE
    BY SMT
  <2>1. <<y, x>> \in OpToRel(<, Nat)
    BY DEF OpToRel
  <2>2. QED
    BY <1>1, <2>1
<1>3. QED
  BY <1>2

(* Induction, on a set of numbers in the place of a predicate *)
LEMMA Inductive ==
  ASSUME NEW U \in SUBSET Nat, 0 \in U, \A n \in U : n + 1 \in U
  PROVE  U = Nat
<1> SUFFICES ASSUME Nat \ U # {} PROVE FALSE
  OBVIOUS
<1>1. PICK x \in Nat \ U : \A y \in Nat \ U : x <= y
  BY LeastElement
<1>2. x # 0 /\ x - 1 \in Nat /\ ~(x <= x - 1) /\ (x - 1) + 1 = x
  BY SMT
<1>3. x - 1 \in U
  BY <1>1, <1>2
<1> QED
  BY <1>2, <1>3

(***************************************************************************)
(* A function may be defined by what it is at 0 and how it goes on.        *)
(***************************************************************************)
Grows(g, n, S, base, step) ==
  /\ g \in [0 .. n -> S] /\ g[0] = base
  /\ \A k \in 0 .. n - 1 : g[k + 1] = step[k][g[k]]

LEMMA GrowsTheSame ==
  ASSUME NEW S, NEW base \in S, NEW step \in [Nat -> [S -> S]],
         NEW n \in Nat, NEW m \in Nat, NEW g, NEW h,
         Grows(g, n, S, base, step), Grows(h, m, S, base, step)
  PROVE  \A k \in Nat : k <= n /\ k <= m => g[k] = h[k]
<1> DEFINE U == {k \in Nat : k <= n /\ k <= m => g[k] = h[k]}
<1>1. 0 \in U
  BY DEF Grows
<1>2. ASSUME NEW k \in U PROVE k + 1 \in U
  <2> SUFFICES ASSUME k + 1 <= n, k + 1 <= m PROVE g[k + 1] = h[k + 1]
    BY SMT
  <2>1. k \in 0 .. n - 1 /\ k \in 0 .. m - 1 /\ k <= n /\ k <= m
    BY SMT
  <2>2. g[k + 1] = step[k][g[k]] /\ h[k + 1] = step[k][h[k]]
    BY <2>1 DEF Grows
  <2> QED
    BY <2>1, <2>2
<1> HIDE DEF U
<1>3. U = Nat
  <2>1. U \in SUBSET Nat
    BY DEF U
  <2> QED
    BY <1>1, <1>2, <2>1, Inductive
<1> QED
  BY <1>3 DEF U

Follows(f, S, base, step) ==
  f \in [Nat -> S] /\ f[0] = base /\ \A n \in Nat : f[n + 1] = step[n][f[n]]

LEMMA Recursion ==
  ASSUME NEW S, NEW base \in S, NEW step \in [Nat -> [S -> S]]
  PROVE  \E f : Follows(f, S, base, step)
<1> DEFINE Is(g, n) == Grows(g, n, S, base, step)
           U == {n \in Nat : \E g : Is(g, n)}
<1>1. 0 \in U
  <2>1. Is([k \in 0 .. 0 |-> base], 0)
    BY SMT DEF Grows
  <2> QED
    BY <2>1
<1>2. ASSUME NEW n \in U PROVE n + 1 \in U
  <2>1. PICK g : Is(g, n)
    OBVIOUS
  <2> DEFINE h == [k \in 0 .. n + 1 |-> IF k <= n THEN g[k] ELSE step[n][g[n]]]
  <2>2. n \in Nat /\ g \in [0 .. n -> S] /\ g[n] \in S /\ step[n][g[n]] \in S
    BY <2>1, SMT DEF Grows
  <2>3. h \in [0 .. n + 1 -> S] /\ h[0] = base
    BY <2>1, <2>2, SMT DEF Grows
  <2>4. ASSUME NEW k \in 0 .. n PROVE h[k + 1] = step[k][h[k]]
    <3>1. CASE k = n
      BY <2>2, <3>1, SMT
    <3>2. CASE k # n
      <4>1. k \in 0 .. n - 1 /\ k + 1 <= n /\ k <= n /\ k + 1 \in 0 .. n + 1 /\ k \in 0 .. n + 1
        BY <2>2, <3>2, SMT
      <4>2. h[k + 1] = g[k + 1] /\ h[k] = g[k]
        BY <4>1
      <4> QED
        BY <2>1, <4>1, <4>2 DEF Grows
    <3> QED
      BY <3>1, <3>2
  <2> HIDE DEF h
  <2>5. Is(h, n + 1)
    <3>1. n + 1 - 1 = n
      BY <2>2, SMT
    <3> QED
      BY <2>3, <2>4, <3>1 DEF Grows
  <2> QED
    BY <2>5
<1> DEFINE G == [n \in Nat |-> CHOOSE g : Is(g, n)]
<1>3. \A n \in Nat : Grows(G[n], n, S, base, step)
  <2>1. U \in SUBSET Nat
    OBVIOUS
  <2> HIDE DEF U
  <2>2. U = Nat
    BY <1>1, <1>2, <2>1, Inductive
  <2>3. \A n \in Nat : \E g : Is(g, n)
    BY <2>2 DEF U
  <2> QED
    BY <2>3, Zenon
<1> DEFINE f == [n \in Nat |-> G[n][n]]
<1> HIDE DEF G
<1>4. \A n \in Nat : G[n][n] \in S
  BY <1>3, SMT DEF Grows
<1>5. f \in [Nat -> S] /\ f[0] = base
  BY <1>3, <1>4, SMT DEF Grows
<1>6. ASSUME NEW n \in Nat PROVE f[n + 1] = step[n][f[n]]
  <2>1. n + 1 \in Nat /\ n \in 0 .. (n + 1) - 1 /\ n <= n /\ n <= n + 1
    BY SMT
  <2>2. G[n + 1][n] = G[n][n]
    <3>1. Grows(G[n], n, S, base, step) /\ Grows(G[n + 1], n + 1, S, base, step)
      BY <1>3, <2>1
    <3> QED
      BY <3>1, <2>1, GrowsTheSame
  <2>3. G[n + 1][n + 1] = step[n][G[n + 1][n]]
    BY <1>3, <2>1 DEF Grows
  <2> QED
    BY <2>1, <2>2, <2>3
<1> QED
  BY <1>5, <1>6 DEF Follows

-----------------------------------------------------------------------------
(* memmove and memset *)

(* The bytes the string instruction has still to move *)
Left == IF unit = 4 THEN 4 * cx ELSE cx

(* Where a byte of the destination came from *)
Source(a) == call.src + (a - call.dst)

(* Moved are those from lo up to hi, and no others. *)
MovedBytes(lo, hi) ==
  \A a \in Addrs : mem[a] = IF lo <= a /\ a < hi THEN before[Source(a)] ELSE before[a]
FilledBytes(hi) ==
  \A a \in Addrs : mem[a] = IF call.dst <= a /\ a < hi THEN call.c % 256 ELSE before[a]

(***************************************************************************)
(* Upwards, what lies below di is done; the regions may overlap only so    *)
(* that it is no longer read.  Downwards, what lies above.                 *)
(***************************************************************************)
Upwards ==
  /\ df = 1 /\ ~Downwards(call)
  /\ di = call.dst + (call.n - Left) /\ si = call.src + (call.n - Left)
  /\ MovedBytes(call.dst, di)
Descending ==
  /\ df = -1 /\ Downwards(call)
  /\ di = call.dst + Left - unit /\ si = call.src + Left - unit
  /\ MovedBytes(call.dst + Left, call.dst + call.n)
Moving ==
  /\ call.fn \in {"memmove", "memcpy"} /\ cx >= 0 /\ Left <= call.n
  /\ Upwards \/ Descending
Filling ==
  /\ call.fn = "memset" /\ cx >= 0 /\ Left <= call.n /\ df = 1
  /\ di = call.dst + (call.n - Left)
  /\ FilledBytes(di)

MTypeOK ==
  /\ call \in Regions /\ Fits(call)
  /\ before \in [Addrs -> Bytes] /\ mem \in [Addrs -> Bytes]
  /\ di \in Int /\ si \in Int /\ cx \in Int /\ unit \in {1, 4}
  /\ pc \in {"call", "move", "fill", "done"}

Finished ==
  /\ df = 1
  /\ call.fn \in {"memmove", "memcpy"} => MovedBytes(call.dst, call.dst + call.n)
  /\ call.fn = "memset" => FilledBytes(call.dst + call.n)

MInv ==
  /\ MTypeOK
  /\ pc = "call" => mem = before /\ df = 1
  /\ pc = "move" => Moving
  /\ pc = "fill" => Filling
  /\ pc = "done" => Finished

-----------------------------------------------------------------------------
LEMMA RegionFacts ==
  ASSUME call \in Regions, Fits(call)
  PROVE  /\ call.dst \in Int /\ call.src \in Int /\ call.n \in Int /\ call.c \in Int
         /\ 0 <= call.dst /\ 0 <= call.src /\ 0 <= call.n
         /\ call.dst + call.n <= Top /\ call.src + call.n <= Top
         /\ Top \in Int
  BY TopAssumption, SMT DEF Regions, Fits, Addrs

LEMMA WordsLeft ==
  ASSUME NEW n \in Nat, n % 4 = 0
  PROVE  /\ n \div 4 \in Nat
         /\ 4 * (n \div 4) = n
  BY SMT

(* The source of a byte of the region lies inside the memory. *)
LEMMA SourceInside ==
  ASSUME MTypeOK, NEW a \in Addrs, call.dst <= a, a < call.dst + call.n
  PROVE  Source(a) \in Addrs
<1>1. a \in Int
  BY TopAssumption DEF Addrs
<1>2. QED
  BY <1>1, RegionFacts, TopAssumption, SMT DEF MTypeOK, Source, Addrs

LEMMA InitMInv == Init => MInv
  BY DEF Init, Machine, MInv, MTypeOK

-----------------------------------------------------------------------------
(* A call starts with everything left to do. *)
LEMMA StartsMoving == MInv /\ Memmove => MInv'
<1> SUFFICES ASSUME MInv, Memmove
             PROVE  MInv'
  OBVIOUS
<1>1. MTypeOK /\ mem = before /\ call.fn \in {"memmove", "memcpy"}
  BY DEF MInv, Memmove
<1>2. /\ call.dst \in Int /\ call.src \in Int /\ call.n \in Nat
      /\ UNCHANGED <<call, asm, before, mem>> /\ pc' = "move"
  BY <1>1, RegionFacts, SMT DEF MTypeOK, Memmove
<1>3. unit' \in {1, 4} /\ (unit' = 4 => call.n % 4 = 0)
  BY DEF Memmove, Width, Aligned
<1>4. cx' \in Nat /\ Left' = call.n
  <2>1. CASE unit' = 4
    BY <2>1, <1>2, <1>3, WordsLeft DEF Memmove, Left
  <2>2. CASE unit' = 1
    BY <2>2, <1>2, SMT DEF Memmove, Left
  <2>3. QED
    BY <2>1, <2>2, <1>3
<1>5. MTypeOK'
  <2>1. di' \in Int /\ si' \in Int
    BY <1>2, <1>3, SMT DEF Memmove
  <2>2. QED
    BY <2>1, <1>1, <1>2, <1>3, <1>4 DEF MTypeOK, Fits
<1>6. \A lo, hi : lo = hi /\ lo \in Int => MovedBytes(lo, hi)'
  <2>1. \A a \in Addrs : a \in Int
    BY TopAssumption, SMT DEF Addrs
  <2>2. QED
    BY <2>1, <1>1, <1>2, SMT DEF MovedBytes
<1>7. CASE Downwards(call)
  <2>1. /\ df' = -1 /\ di' = call.dst + call.n - unit' /\ si' = call.src + call.n - unit'
    BY <1>7 DEF Memmove
  <2>2. MovedBytes(call.dst + Left, call.dst + call.n)'
    BY <1>2, <1>4, <1>6
  <2>3. Descending'
    BY <2>1, <2>2, <1>2, <1>4, <1>7 DEF Descending, Downwards
  <2>4. QED
    BY <2>3, <1>1, <1>2, <1>4, <1>5, SMT DEF MInv, Moving
<1>8. CASE ~Downwards(call)
  <2>1. df' = 1 /\ di' = call.dst /\ si' = call.src
    BY <1>8 DEF Memmove
  <2>2. MovedBytes(call.dst, di)'
    BY <2>1, <1>2, <1>6
  <2>3. di' = call.dst + (call.n - Left') /\ si' = call.src + (call.n - Left')
    BY <2>1, <1>2, <1>4, SMT
  <2>4. Upwards'
    BY <2>1, <2>2, <2>3, <1>2, <1>8 DEF Upwards, Downwards
  <2>5. QED
    BY <2>4, <1>1, <1>2, <1>4, <1>5, SMT DEF MInv, Moving
<1>9. QED
  BY <1>7, <1>8

LEMMA StartsFilling == MInv /\ Memset => MInv'
<1> SUFFICES ASSUME MInv, Memset
             PROVE  MInv'
  OBVIOUS
<1>1. MTypeOK /\ mem = before /\ call.fn = "memset"
  BY DEF MInv, Memset
<1>2. /\ call.dst \in Int /\ call.n \in Nat
      /\ UNCHANGED <<call, asm, before, mem>>
      /\ di' = call.dst /\ si' = si /\ df' = 1
  BY <1>1, RegionFacts, SMT DEF MTypeOK, Memset
<1>3. unit' \in {1, 4} /\ (unit' = 4 => call.n % 4 = 0)
  BY DEF Memset, Width, Wide
<1>4. cx' \in Nat /\ Left' = call.n
  <2>1. CASE unit' = 4
    BY <2>1, <1>2, <1>3, WordsLeft DEF Memset, Left
  <2>2. CASE unit' = 1
    BY <2>2, <1>2, SMT DEF Memset, Left
  <2>3. QED
    BY <2>1, <2>2, <1>3
<1>5. MTypeOK'
  BY <1>1, <1>2, <1>3, <1>4 DEF MTypeOK, Fits, Memset
<1>6. FilledBytes(call.dst)'
  <2>1. \A a \in Addrs : a \in Int
    BY TopAssumption, SMT DEF Addrs
  <2>2. QED
    BY <2>1, <1>1, <1>2, SMT DEF FilledBytes
<1>7. CASE call.n = 0
  <2>1. pc' = "done" /\ call.dst + call.n = call.dst
    BY <1>7, <1>2, SMT DEF Memset
  <2>2. Finished'
    BY <2>1, <1>1, <1>2, <1>6 DEF Finished
  <2>3. QED
    BY <2>1, <2>2, <1>5 DEF MInv
<1>8. CASE call.n # 0
  <2>1. pc' = "fill" /\ di' = call.dst + (call.n - Left')
    BY <1>8, <1>2, <1>4, SMT DEF Memset
  <2>2. Filling'
    BY <2>1, <1>1, <1>2, <1>4, <1>6, SMT DEF Filling
  <2>3. QED
    BY <2>1, <2>2, <1>5 DEF MInv
<1>9. QED
  BY <1>7, <1>8

-----------------------------------------------------------------------------
(* One turn moves the bytes of one unit. *)
LEMMA TurnLeft ==
  ASSUME MTypeOK, cx > 0, cx' = cx - 1, unit' = unit
  PROVE  /\ cx' \in Int /\ cx' >= 0
         /\ Left \in Int /\ Left' \in Int
         /\ Left' = Left - unit /\ Left' >= 0 /\ unit \in Int /\ 0 < unit
  BY SMT DEF MTypeOK, Left

LEMMA KeepsMoving == MInv /\ Move => MInv'
<1> SUFFICES ASSUME MInv, Move
             PROVE  MInv'
  OBVIOUS
<1>1. MTypeOK /\ Moving /\ pc = "move" /\ cx > 0 /\ cx' = cx - 1 /\ unit' = unit
  BY DEF MInv, Move
<1>2. /\ UNCHANGED <<call, asm, before, unit, df, pc>>
      /\ di' = di + df * unit /\ si' = si + df * unit
      /\ mem' = [a \in Addrs |-> IF di <= a /\ a < di + unit THEN mem[si + a - di] ELSE mem[a]]
  BY DEF Move
<1>3. /\ cx' \in Int /\ cx' >= 0
      /\ Left \in Int /\ Left' \in Int
      /\ Left' = Left - unit /\ Left' >= 0 /\ unit \in Int /\ 0 < unit
  BY <1>1, TurnLeft
<1>4. /\ call.dst \in Int /\ call.src \in Int /\ call.n \in Int
      /\ 0 <= call.dst /\ 0 <= call.src /\ 0 <= call.n
      /\ call.dst + call.n <= Top /\ call.src + call.n <= Top /\ Top \in Int
  BY <1>1, RegionFacts DEF MTypeOK
<1>5. /\ di \in Int /\ si \in Int /\ Left <= call.n
      /\ before \in [Addrs -> Bytes] /\ mem \in [Addrs -> Bytes]
  BY <1>1 DEF MTypeOK, Moving
<1>6. \A a \in Addrs : a \in Int
  BY TopAssumption, SMT DEF Addrs
(* what a byte of this unit gets is what its source held in the beginning *)
<1>7. ASSUME NEW a \in Addrs, di <= a, a < di + unit
      PROVE  /\ call.dst <= a /\ a < call.dst + call.n
             /\ si + a - di = Source(a) /\ Source(a) \in Addrs
             /\ mem[Source(a)] = before[Source(a)]
  <2>1. a \in Int
    BY <1>6
  <2>2. /\ call.dst <= a /\ a < call.dst + call.n
        /\ si + a - di = Source(a) /\ Source(a) \in Int
    <3>1. CASE Upwards
      BY <3>1, <2>1, <1>3, <1>4, <1>5, <1>7, SMT DEF Upwards, Source
    <3>2. CASE Descending
      BY <3>2, <2>1, <1>3, <1>4, <1>5, <1>7, SMT DEF Descending, Source
    <3>3. QED
      BY <3>1, <3>2, <1>1 DEF Moving
  <2>3. Source(a) \in Addrs
    BY <2>2, <1>1, SourceInside
  <2>4. CASE Upwards
    <3>1. ~(call.dst <= Source(a) /\ Source(a) < di)
      BY <2>4, <2>1, <2>2, <1>3, <1>4, <1>5, <1>7, SMT DEF Upwards, Downwards, Source
    <3>2. MovedBytes(call.dst, di)
      BY <2>4 DEF Upwards
    <3>3. QED
      BY <3>1, <3>2, <2>2, <2>3 DEF MovedBytes
  <2>5. CASE Descending
    <3>1. ~(call.dst + Left <= Source(a) /\ Source(a) < call.dst + call.n)
      BY <2>5, <2>1, <2>2, <1>3, <1>4, <1>5, <1>7, SMT DEF Descending, Downwards, Source
    <3>2. MovedBytes(call.dst + Left, call.dst + call.n)
      BY <2>5 DEF Descending
    <3>3. QED
      BY <3>1, <3>2, <2>2, <2>3 DEF MovedBytes
  <2>6. QED
    BY <2>2, <2>3, <2>4, <2>5, <1>1 DEF Moving
<1>8. mem' \in [Addrs -> Bytes]
  <2>1. ASSUME NEW a \in Addrs
        PROVE  (IF di <= a /\ a < di + unit THEN mem[si + a - di] ELSE mem[a]) \in Bytes
    BY <1>5, <1>7
  <2>2. QED
    BY <2>1, <1>2
<1>9. MTypeOK'
  <2>1. df \in {1, -1}
    BY <1>1 DEF Moving, Upwards, Descending
  <2>2. di' \in Int /\ si' \in Int
    BY <2>1, <1>2, <1>3, <1>5, SMT
  <2>3. QED
    BY <2>2, <1>1, <1>2, <1>3, <1>8 DEF MTypeOK, Fits
<1>10. Left' <= call.n
  BY <1>3, <1>4, <1>5, SMT
<1>11. CASE Upwards
  <2>1. /\ di' = di + unit /\ si' = si + unit
        /\ di = call.dst + (call.n - Left) /\ si = call.src + (call.n - Left)
    BY <1>11, <1>2, <1>3, <1>5, SMT DEF Upwards
  <2>2. di' = call.dst + (call.n - Left') /\ si' = call.src + (call.n - Left')
    BY <2>1, <1>3, <1>4, SMT
  <2>3. ASSUME NEW a \in Addrs
        PROVE  mem'[a] = IF call.dst <= a /\ a < di' THEN before[Source(a)] ELSE before[a]
    <3>1. a \in Int
      BY <1>6
    <3>2. mem[a] = IF call.dst <= a /\ a < di THEN before[Source(a)] ELSE before[a]
      BY <1>11 DEF Upwards, MovedBytes
    <3>3. CASE di <= a /\ a < di + unit
      <4>1. mem'[a] = before[Source(a)]
        BY <3>3, <1>2, <1>7
      <4>2. call.dst <= a /\ a < di'
        BY <3>1, <3>3, <2>1, <1>7
      <4>3. QED
        BY <4>1, <4>2
    <3>4. CASE ~(di <= a /\ a < di + unit)
      <4>1. mem'[a] = mem[a]
        BY <3>4, <1>2
      <4>2. (call.dst <= a /\ a < di') <=> (call.dst <= a /\ a < di)
        BY <3>1, <3>4, <2>1, <1>3, <1>4, <1>5, SMT
      <4>3. QED
        BY <4>1, <4>2, <3>2
    <3>5. QED
      BY <3>3, <3>4
  <2>4. MovedBytes(call.dst, di)'
    BY <2>3, <1>2 DEF MovedBytes, Source
  <2>5. Upwards'
    BY <2>2, <2>4, <1>2, <1>11 DEF Upwards, Downwards
  <2>6. QED
    BY <2>5, <1>1, <1>2, <1>3, <1>9, <1>10 DEF MInv, Moving
<1>12. CASE Descending
  <2>1. /\ di' = di - unit /\ si' = si - unit
        /\ di = call.dst + Left - unit /\ si = call.src + Left - unit
    BY <1>12, <1>2, <1>3, <1>5, SMT DEF Descending
  <2>2. di' = call.dst + Left' - unit /\ si' = call.src + Left' - unit /\ di = call.dst + Left'
    BY <2>1, <1>3, <1>4, SMT
  <2>3. ASSUME NEW a \in Addrs
        PROVE  mem'[a] = IF call.dst + Left' <= a /\ a < call.dst + call.n
                           THEN before[Source(a)] ELSE before[a]
    <3>1. a \in Int
      BY <1>6
    <3>2. mem[a] = IF call.dst + Left <= a /\ a < call.dst + call.n
                     THEN before[Source(a)] ELSE before[a]
      BY <1>12 DEF Descending, MovedBytes
    <3>3. CASE di <= a /\ a < di + unit
      <4>1. mem'[a] = before[Source(a)]
        BY <3>3, <1>2, <1>7
      <4>2. call.dst + Left' <= a /\ a < call.dst + call.n
        BY <3>1, <3>3, <2>2, <1>7
      <4>3. QED
        BY <4>1, <4>2
    <3>4. CASE ~(di <= a /\ a < di + unit)
      <4>1. mem'[a] = mem[a]
        BY <3>4, <1>2
      <4>2. call.dst + Left' <= a <=> call.dst + Left <= a
        BY <3>1, <3>4, <2>2, <1>3, <1>4, <1>5, SMT
      <4>3. QED
        BY <4>1, <4>2, <3>2
    <3>5. QED
      BY <3>3, <3>4
  <2>4. MovedBytes(call.dst + Left, call.dst + call.n)'
    BY <2>3, <1>2 DEF MovedBytes, Source
  <2>5. Descending'
    BY <2>2, <2>4, <1>2, <1>12 DEF Descending, Downwards
  <2>6. QED
    BY <2>5, <1>1, <1>2, <1>3, <1>9, <1>10 DEF MInv, Moving
<1>13. QED
  BY <1>11, <1>12, <1>1 DEF Moving

(* A byte has no higher bytes, so each byte of the word is the one to fill with. *)
LEMMA WordOfBytes ==
  ASSUME NEW c \in Int
  PROVE  Byte(c, 1) = c % 256 /\ \A k \in 1 .. 4 : FillWord(c)[k] = c % 256
<1>1. Byte(c, 1) = c % 256
  BY SMT DEF Byte
<1>2. PICK b \in 0 .. 255 : b = c % 256
  BY SMT
<1>3. Byte(b, 1) = b /\ Byte(b, 2) = 0 /\ Byte(b, 3) = 0 /\ Byte(b, 4) = 0
  BY SMT DEF Byte
<1>4. Spread(b) = <<b, 0 + b, 0 + 0 + b, 0 + 0 + 0 + b>>
  BY <1>3 DEF Spread
<1>5. 0 + b = b /\ 0 + 0 + b = b /\ 0 + 0 + 0 + b = b
  BY SMT
<1>6. \A k \in 1 .. 4 : <<b, b, b, b>>[k] = b
  BY SMT
<1> QED
  BY <1>1, <1>2, <1>4, <1>5, <1>6 DEF FillWord

LEMMA KeepsFilling == MInv /\ Fill => MInv'
<1> SUFFICES ASSUME MInv, Fill
             PROVE  MInv'
  OBVIOUS
<1>1. MTypeOK /\ Filling /\ pc = "fill" /\ cx > 0 /\ cx' = cx - 1 /\ unit' = unit
  BY DEF MInv, Fill
<1>2. /\ UNCHANGED <<call, asm, before, si, unit, df, pc>>
      /\ di' = di + unit
      /\ mem' = [a \in Addrs |-> IF di <= a /\ a < di + unit THEN call.c % 256 ELSE mem[a]]
  <2>1. call.c \in Int /\ di \in Int
    BY <1>1, RegionFacts DEF MTypeOK
  <2>2. ASSUME NEW a \in Addrs, di <= a, a < di + unit, unit = 4
        PROVE  FillWord(call.c)[a - di + 1] = call.c % 256
    <3>1. a - di + 1 \in 1 .. 4
      BY <2>1, <2>2, TopAssumption, SMT DEF Addrs
    <3> QED
      BY <2>1, <3>1, WordOfBytes
  <2>3. Byte(call.c, 1) = call.c % 256
    BY <2>1, WordOfBytes
  <2>4. mem' = [a \in Addrs |-> IF di <= a /\ a < di + unit
                                 THEN IF unit = 4 THEN FillWord(call.c)[a - di + 1] ELSE Byte(call.c, 1)
                                 ELSE mem[a]]
    BY DEF Fill
  <2>5. mem' = [a \in Addrs |-> IF di <= a /\ a < di + unit THEN call.c % 256 ELSE mem[a]]
    BY <2>2, <2>3, <2>4, Zenon
  <2> QED
    BY <2>5 DEF Fill
<1>3. /\ cx' \in Int /\ cx' >= 0
      /\ Left \in Int /\ Left' \in Int
      /\ Left' = Left - unit /\ Left' >= 0 /\ unit \in Int /\ 0 < unit
  BY <1>1, TurnLeft
<1>4. call.dst \in Int /\ call.n \in Int /\ call.c \in Int /\ 0 <= call.n
  BY <1>1, RegionFacts DEF MTypeOK
<1>5. di \in Int /\ Left <= call.n /\ di = call.dst + (call.n - Left) /\ mem \in [Addrs -> Bytes]
  BY <1>1 DEF MTypeOK, Filling
<1>6. MTypeOK'
  <2>1. call.c % 256 \in Bytes
    BY <1>4, SMT DEF Bytes
  <2>2. mem' \in [Addrs -> Bytes]
    BY <2>1, <1>2, <1>5
  <2>3. di' \in Int
    BY <1>2, <1>3, <1>5, SMT
  <2>4. QED
    BY <2>2, <2>3, <1>1, <1>2, <1>3 DEF MTypeOK, Fits
<1>7. ASSUME NEW a \in Addrs
      PROVE  mem'[a] = IF call.dst <= a /\ a < di' THEN call.c % 256 ELSE before[a]
  <2>1. a \in Int
    BY TopAssumption, SMT DEF Addrs
  <2>2. mem[a] = IF call.dst <= a /\ a < di THEN call.c % 256 ELSE before[a]
    BY <1>1 DEF Filling, FilledBytes
  <2>3. CASE di <= a /\ a < di + unit
    <3>1. call.dst <= a /\ a < di'
      BY <2>1, <2>3, <1>2, <1>3, <1>4, <1>5, SMT
    <3>2. QED
      BY <3>1, <2>3, <1>2
  <2>4. CASE ~(di <= a /\ a < di + unit)
    <3>1. (call.dst <= a /\ a < di') <=> (call.dst <= a /\ a < di)
      BY <2>1, <2>4, <1>2, <1>3, <1>4, <1>5, SMT
    <3>2. mem'[a] = mem[a]
      BY <2>4, <1>2
    <3>3. QED
      BY <3>1, <3>2, <2>2
  <2>5. QED
    BY <2>3, <2>4
<1>8. FilledBytes(di)'
  BY <1>7, <1>2 DEF FilledBytes
<1>9. di' = call.dst + (call.n - Left') /\ Left' <= call.n
  BY <1>2, <1>3, <1>4, <1>5, SMT
<1>10. QED
  BY <1>1, <1>2, <1>3, <1>6, <1>8, <1>9 DEF MInv, Filling

-----------------------------------------------------------------------------
(* With nothing left, everything is done. *)
LEMMA Finishes == MInv /\ (Moved \/ Filled) => MInv'
<1> SUFFICES ASSUME MInv, Moved \/ Filled
             PROVE  MInv'
  OBVIOUS
<1>1. /\ MTypeOK /\ cx = 0 /\ pc' = "done"
      /\ UNCHANGED <<call, before, mem, di, si, cx, unit>>
  BY DEF MInv, Moved, Filled, regs
<1>2. Left = 0
  BY <1>1, SMT DEF Left
<1>3. call.dst \in Int /\ call.n \in Int
  BY <1>1, RegionFacts DEF MTypeOK
<1>4. call.dst + (call.n - Left) = call.dst + call.n /\ call.dst + Left = call.dst
  BY <1>2, <1>3, SMT
<1>5. MTypeOK'
  BY <1>1 DEF MTypeOK, Fits
<1>6. CASE Moved
  <2>1. Moving /\ df' = 1
    BY <1>6 DEF MInv, Moved
  <2>2. MovedBytes(call.dst, call.dst + call.n)
    BY <2>1, <1>4 DEF Moving, Upwards, Descending
  <2>3. MovedBytes(call.dst, call.dst + call.n)'
    BY <2>2, <1>1 DEF MovedBytes, Source
  <2>4. Finished'
    BY <2>1, <2>3, <1>1 DEF Finished, Moving
  <2>5. QED
    BY <2>4, <1>1, <1>5 DEF MInv
<1>7. CASE Filled
  <2>1. Filling /\ df' = df
    BY <1>7 DEF MInv, Filled, regs
  <2>2. FilledBytes(call.dst + call.n)'
    BY <2>1, <1>1, <1>4 DEF Filling, FilledBytes
  <2>3. Finished'
    BY <2>1, <2>2, <1>1 DEF Finished, Filling
  <2>4. QED
    BY <2>3, <1>1, <1>5 DEF MInv
<1>8. QED
  BY <1>6, <1>7

LEMMA NextMInv == MInv /\ [Next]_vars => MInv'
<1>1. MInv /\ UNCHANGED vars => MInv'
  BY DEF MInv, MTypeOK, Finished, Moving, Filling, Upwards, Descending, MovedBytes, FilledBytes,
         Left, Source, Fits, Downwards, vars, regs
<1>2. QED
  BY <1>1, StartsMoving, StartsFilling, KeepsMoving, KeepsFilling, Finishes DEF Next

LEMMA MInvAlways == Spec => []MInv
  BY InitMInv, NextMInv, PTL DEF Spec

LEMMA MInvRight == MInv => MoveCopies /\ SetFills /\ DirectionClear
<1> SUFFICES ASSUME MInv PROVE MoveCopies /\ SetFills /\ DirectionClear
  OBVIOUS
<1>1. MoveCopies
  <2> SUFFICES ASSUME pc = "done", call.fn \in {"memmove", "memcpy"}
               PROVE  mem = [a \in Addrs |-> IF Within(a, call.dst, call.n)
                               THEN before[call.src + (a - call.dst)] ELSE before[a]]
    BY DEF MoveCopies
  <2>1. mem \in [Addrs -> Bytes] /\ MovedBytes(call.dst, call.dst + call.n)
    BY DEF MInv, MTypeOK, Finished
  <2>2. QED
    BY <2>1 DEF MovedBytes, Source, Within
<1>2. SetFills
  <2> SUFFICES ASSUME pc = "done", call.fn = "memset"
               PROVE  mem = [a \in Addrs |-> IF Within(a, call.dst, call.n)
                               THEN call.c % 256 ELSE before[a]]
    BY DEF SetFills
  <2>1. mem \in [Addrs -> Bytes] /\ FilledBytes(call.dst + call.n)
    BY DEF MInv, MTypeOK, Finished
  <2>2. QED
    BY <2>1 DEF FilledBytes, Within
<1>3. DirectionClear
  BY DEF MInv, Finished, DirectionClear
<1> QED
  BY <1>1, <1>2, <1>3

-----------------------------------------------------------------------------
(* The value of a numeral *)

LEMMA DigitRange == \A c : DigitOf(c) \in Int /\ DigitOf(c) >= 0
  BY SMT DEF DigitOf

LEMMA Powers ==
  ASSUME NEW b \in Int
  PROVE  /\ PowersOf(b) \in [Nat -> Int] /\ PowersOf(b)[0] = 1
         /\ \A n \in Nat : PowersOf(b)[n + 1] = b * PowersOf(b)[n]
<1> DEFINE step == [k \in Nat |-> [v \in Int |-> b * v]]
<1>1. step \in [Nat -> [Int -> Int]]
  BY SMT
<1>2. PICK f : Follows(f, Int, 1, step)
  <2> HIDE DEF step
  <2>1. 1 \in Int
    BY SMT
  <2> QED
    BY <1>1, <2>1, Recursion, Zenon
<1>3. f = [k \in Nat |-> IF k = 0 THEN 1 ELSE b * f[k - 1]]
  <2>1. ASSUME NEW k \in Nat PROVE f[k] = IF k = 0 THEN 1 ELSE b * f[k - 1]
    <3>1. CASE k = 0
      BY <1>2, <3>1 DEF Follows
    <3>2. CASE k # 0
      <4>1. k - 1 \in Nat /\ (k - 1) + 1 = k
        BY <3>2, SMT
      <4> QED
        <5> HIDE DEF step
        <5>2. f \in [Nat -> Int] /\ f[(k - 1) + 1] = step[k - 1][f[k - 1]]
          BY <1>2, <4>1, Zenon DEF Follows
        <5>1. f[k] = step[k - 1][f[k - 1]] /\ f[k - 1] \in Int
          BY <4>1, <5>2
        <5> USE DEF step
        <5> QED
          BY <3>2, <4>1, <5>1
    <3> QED
      BY <3>1, <3>2
  <2> HIDE DEF step
  <2>2. f \in [Nat -> Int]
    BY <1>2 DEF Follows
  <2> QED
    BY <2>1, <2>2, Zenon
<1> DEFINE Def(p) == p = [k \in Nat |-> IF k = 0 THEN 1 ELSE b * p[k - 1]]
           c == CHOOSE p : Def(p)
<1>4. Def(c)
  BY <1>3, Zenon
<1>5. PowersOf(b) = c
  BY Zenon DEF PowersOf
<1> HIDE DEF c
<1>6. c[0] = 1 /\ \A n \in Nat : c[n + 1] = b * c[n]
  BY <1>4, SMT
<1>7. c \in [Nat -> Int]
  <2> DEFINE U == {n \in Nat : c[n] \in Int}
  <2>1. 0 \in U
    BY <1>6
  <2>2. ASSUME NEW n \in U PROVE n + 1 \in U
    BY <1>6, SMT
  <2>3. U \in SUBSET Nat
    OBVIOUS
  <2> HIDE DEF U
  <2>4. U = Nat
    BY <2>1, <2>2, <2>3, Inductive
  <2> QED
    BY <1>4, <2>4 DEF U
<1> QED
  BY <1>5, <1>6, <1>7

LEMMA Weights ==
  ASSUME NEW m, NEW b \in Int, NEW e \in Int
  PROVE  /\ LastDigits(m, b, e) \in [Nat -> Int] /\ LastDigits(m, b, e)[0] = 0
         /\ \A n \in Nat :
              LastDigits(m, b, e)[n + 1] = DigitOf(m[e - (n + 1)]) * PowersOf(b)[n] + LastDigits(m, b, e)[n]
<1> DEFINE place(k) == DigitOf(m[e - k]) * PowersOf(b)[k - 1]
           step == [k \in Nat |-> [v \in Int |-> place(k + 1) + v]]
<1>1. \A k \in Nat : place(k + 1) \in Int
  <2> SUFFICES ASSUME NEW k \in Nat PROVE place(k + 1) \in Int
    OBVIOUS
  <2>1. DigitOf(m[e - (k + 1)]) \in Int
    BY DigitRange
  <2>2. PowersOf(b)[(k + 1) - 1] \in Int
    <3>1. (k + 1) - 1 = k
      BY SMT
    <3> QED
      BY <3>1, Powers
  <2> QED
    BY <2>1, <2>2, SMT
<1> HIDE DEF place
<1>2. step \in [Nat -> [Int -> Int]]
  BY <1>1, SMT
<1>3. PICK f : Follows(f, Int, 0, step)
  <2> HIDE DEF step
  <2>1. 0 \in Int
    BY SMT
  <2> QED
    BY <1>2, <2>1, Recursion, Zenon
<1>4. f = [k \in Nat |-> IF k = 0 THEN 0 ELSE place(k) + f[k - 1]]
  <2>1. ASSUME NEW k \in Nat PROVE f[k] = IF k = 0 THEN 0 ELSE place(k) + f[k - 1]
    <3>1. CASE k = 0
      BY <1>3, <3>1 DEF Follows
    <3>2. CASE k # 0
      <4>1. k - 1 \in Nat /\ (k - 1) + 1 = k
        BY <3>2, SMT
      <4> HIDE DEF step
      <4>2. f \in [Nat -> Int] /\ f[(k - 1) + 1] = step[k - 1][f[k - 1]]
        BY <1>3, <4>1, Zenon DEF Follows
      <4>3. f[k] = step[k - 1][f[k - 1]] /\ f[k - 1] \in Int
        BY <4>1, <4>2
      <4> USE DEF step
      <4> QED
        BY <3>2, <4>1, <4>3
    <3> QED
      BY <3>1, <3>2
  <2> HIDE DEF step
  <2>2. f \in [Nat -> Int]
    BY <1>3 DEF Follows
  <2> QED
    BY <2>1, <2>2, Zenon
<1> DEFINE Def(p) == p = [k \in Nat |-> IF k = 0 THEN 0 ELSE place(k) + p[k - 1]]
           c == CHOOSE p : Def(p)
<1>5. Def(c)
  BY <1>4, Zenon
<1>6. LastDigits(m, b, e) = c
  BY Zenon DEF LastDigits, place
<1> HIDE DEF c
<1>7. c[0] = 0 /\ \A n \in Nat : c[n + 1] = place(n + 1) + c[n]
  BY <1>5, SMT
<1>8. c \in [Nat -> Int]
  <2> DEFINE U == {n \in Nat : c[n] \in Int}
  <2>1. 0 \in U
    BY <1>7
  <2>2. ASSUME NEW n \in U PROVE n + 1 \in U
    BY <1>1, <1>7, SMT
  <2>3. U \in SUBSET Nat
    OBVIOUS
  <2> HIDE DEF U
  <2>4. U = Nat
    BY <2>1, <2>2, <2>3, Inductive
  <2> QED
    BY <1>5, <2>4 DEF U
<1>9. \A n \in Nat : place(n + 1) = DigitOf(m[e - (n + 1)]) * PowersOf(b)[n]
  <2>1. \A n \in Nat : (n + 1) - 1 = n
    BY SMT
  <2> QED
    BY <2>1 DEF place
<1> QED
  BY <1>6, <1>7, <1>8, <1>9

(* Reading one digit more multiplies what was read by the base. *)
LEMMA OneMoreDigit ==
  ASSUME NEW m, NEW b \in Int, NEW e \in Int
  PROVE  \A n \in Nat :
           LastDigits(m, b, e + 1)[n + 1] = LastDigits(m, b, e)[n] * b + DigitOf(m[e])
<1> DEFINE U == {n \in Nat : LastDigits(m, b, e + 1)[n + 1] = LastDigits(m, b, e)[n] * b + DigitOf(m[e])}
<1>1. 0 \in U
  <2>1. /\ LastDigits(m, b, e + 1)[0 + 1] = DigitOf(m[(e + 1) - (0 + 1)]) * PowersOf(b)[0] + LastDigits(m, b, e + 1)[0]
        /\ LastDigits(m, b, e + 1)[0] = 0 /\ LastDigits(m, b, e)[0] = 0 /\ PowersOf(b)[0] = 1
    BY Weights, Powers, SMT
  <2>2. (e + 1) - (0 + 1) = e
    BY SMT
  <2>3. DigitOf(m[e]) \in Int
    BY DigitRange
  <2> QED
    BY <2>1, <2>2, <2>3, SMT
<1>2. ASSUME NEW n \in U PROVE n + 1 \in U
  <2> DEFINE d == DigitOf(m[e - (n + 1)])
             p == PowersOf(b)[n]
             v == LastDigits(m, b, e)[n]
             last == DigitOf(m[e])
  <2>1. n \in Nat /\ n + 1 \in Nat /\ e + 1 \in Int /\ (e + 1) - ((n + 1) + 1) = e - (n + 1)
    BY SMT
  <2>2. LastDigits(m, b, e + 1)[(n + 1) + 1]
          = DigitOf(m[(e + 1) - ((n + 1) + 1)]) * PowersOf(b)[n + 1] + LastDigits(m, b, e + 1)[n + 1]
    BY <2>1, Weights, Zenon
  <2>3. PowersOf(b)[n + 1] = b * p /\ p \in Int
    BY <2>1, Powers
  <2>4. LastDigits(m, b, e + 1)[n + 1] = v * b + last
    OBVIOUS
  <2>5. LastDigits(m, b, e)[n + 1] = d * p + v /\ v \in Int
    BY <2>1, Weights
  <2>6. d \in Int /\ last \in Int
    BY DigitRange
  <2>7. LastDigits(m, b, e + 1)[(n + 1) + 1] = d * (b * p) + (v * b + last)
    BY <2>1, <2>2, <2>3, <2>4
  <2> HIDE DEF d, p, v, last
  <2>8. d * (b * p) + (v * b + last) = (d * p + v) * b + last
    BY <2>3, <2>5, <2>6, SMT
  <2>9. LastDigits(m, b, e + 1)[(n + 1) + 1] = LastDigits(m, b, e)[n + 1] * b + last
    BY <2>5, <2>7, <2>8
  <2> QED
    BY <2>1, <2>9 DEF last
<1>3. U \in SUBSET Nat
  OBVIOUS
<1> HIDE DEF U
<1>4. U = Nat
  BY <1>1, <1>2, <1>3, Inductive
<1> QED
  BY <1>4 DEF U

-----------------------------------------------------------------------------
(* Arithmetic in a long *)

LEMMA Remainder ==
  ASSUME NEW M \in Nat \ {0}, NEW v \in Int
  PROVE  \E q \in Int, r \in 0 .. M - 1 : v = M * q + r /\ v % M = r
<1> DEFINE d == v \div M
           r == v % M
<1>1. M > 0 /\ M \in Int
  BY SMT
<1>2. d \in Int /\ r \in 0 .. M - 1 /\ r \in Int
  BY <1>1, SMT
<1>3. r = v - M * d
  BY <1>1, Z3
<1>4. v % M = r
  OBVIOUS
<1> HIDE DEF d, r
<1>5. v = M * d + r
  BY <1>1, <1>2, <1>3, SMT
<1> QED
  BY <1>2, <1>4, <1>5, Zenon

LEMMA OneRemainder ==
  ASSUME NEW M \in Nat \ {0}, NEW p \in Int, NEW q \in Int, NEW r \in 0 .. M - 1, NEW s \in 0 .. M - 1,
         M * p + r = M * q + s
  PROVE  r = s
<1> DEFINE d == p - q
<1>1. d \in Int /\ M * d = s - r
  BY SMT
<1> HIDE DEF d
<1>2. d <= 0
  <2> SUFFICES ASSUME d >= 1 PROVE FALSE
    BY <1>1, SMT
  <2>1. M * d >= M
    BY <1>1, SMT
  <2> QED
    BY <1>1, <2>1, SMT
<1>3. d >= 0
  <2> SUFFICES ASSUME -d >= 1 PROVE FALSE
    BY <1>1, SMT
  <2>1. M * (-d) >= M /\ M * (-d) = -(M * d)
    BY <1>1, SMT
  <2> QED
    BY <1>1, <2>1, SMT
<1>4. d = 0
  BY <1>1, <1>2, <1>3, SMT
<1> QED
  BY <1>1, <1>4, SMT

(* Wrapping loses nothing that a product or a sum needs. *)
LEMMA WrapsOnce ==
  ASSUME NEW v \in Int, NEW b \in Int, NEW c \in Int
  PROVE  Wrap(v) \in Int /\ Wrap(Wrap(v) * b + c) = Wrap(v * b + c)
<1> DEFINE M == 2 * Half
<1>1. M \in Nat \ {0} /\ Half \in Int
  BY LongAssumption, SMT
<1> HIDE DEF M
<1>2. PICK q \in Int, r \in 0 .. M - 1 : v + Half = M * q + r /\ (v + Half) % M = r
  <2>1. v + Half \in Int
    BY <1>1, SMT
  <2> QED
    BY <2>1, <1>1, Remainder
<1>3. Wrap(v) = r - Half
  BY <1>2 DEF Wrap, M
<1>4. Wrap(v) \in Int /\ Wrap(v) = v - M * q
  BY <1>1, <1>2, <1>3, SMT
<1> DEFINE x == Wrap(v) * b + c + Half
           y == v * b + c + Half
<1>5. x \in Int /\ y \in Int /\ y = x + M * (q * b)
  BY <1>1, <1>4, SMT
<1>6. Wrap(Wrap(v) * b + c) = (x % M) - Half /\ Wrap(v * b + c) = (y % M) - Half
  BY DEF Wrap, M
<1> HIDE DEF x, y
<1>7. PICK m \in Int, s \in 0 .. M - 1 : x = M * m + s /\ x % M = s
  BY <1>1, <1>5, Remainder
<1>8. PICK n \in Int, t \in 0 .. M - 1 : y = M * n + t /\ y % M = t
  BY <1>1, <1>5, Remainder
<1>9. M * (m + q * b) + s = M * n + t /\ m + q * b \in Int
  BY <1>1, <1>5, <1>7, <1>8, SMT
<1>10. s = t
  BY <1>1, <1>7, <1>8, <1>9, OneRemainder
<1> QED
  BY <1>4, <1>6, <1>7, <1>8, <1>10

LEMMA WrapsToInt == \A v \in Int : Wrap(v) \in Int
  BY WrapsOnce, SMT

LEMMA ZeroFits == Wrap(0) = 0
<1> DEFINE M == 2 * Half
<1>1. M \in Nat \ {0} /\ Half \in 0 .. M - 1 /\ 0 + Half = Half /\ 0 \in Int /\ Half \in Int
      /\ Half = M * 0 + Half
  BY LongAssumption, SMT
<1>2. Wrap(0) = (Half % M) - Half
  BY <1>1 DEF Wrap
<1> HIDE DEF M
<1>3. PICK q \in Int, r \in 0 .. M - 1 : Half = M * q + r /\ Half % M = r
  BY <1>1, Remainder
<1>4. M * q + r = M * 0 + Half
  BY <1>1, <1>3
<1>5. r = Half
  BY <1>1, <1>3, <1>4, OneRemainder
<1> QED
  BY <1>1, <1>2, <1>3, <1>5, SMT

-----------------------------------------------------------------------------
(* The inductive invariant of the other functions *)

(* Where the string of the call ends, how long it is, and what of it is copied *)
End == EndOf(call.src)
Length == End - call.src
Dest == Target(call, before)
Text == IF call.fn = "strlcpy" THEN Least(call.n - 1, Length) ELSE Length

SType ==
  /\ Callable(call, before)
  /\ mem \in [Addrs -> Bytes]
  /\ di \in Int /\ si \in Int /\ cx \in Int /\ ret \in Int
  /\ pc \in {"call", "loop", "end", "blanks", "sign", "prefix", "digits", "done"}
  /\ pc = "end" => call.fn = "strcat"
  /\ pc \in {"blanks", "sign", "prefix", "digits"} => call.fn = "strtol"
  /\ call.fn \notin Copying => mem = before

Counting ==
  /\ ret >= 0 /\ si = call.src + ret /\ si <= End
  /\ call.fn = "strnlen" => cx = call.n - ret /\ cx >= 0

ToTheEnd == mem = before /\ si = call.src /\ call.dst <= di /\ di <= Dest

(* the text may not be exceeded, unless nothing is copied or 0s follow it *)
Bounded == call.fn # "strncpy" /\ (call.fn = "strlcpy" => call.n # 0)

(* so many bytes have been copied *)
Copied(j) ==
  /\ j >= 0 /\ di = Dest + j
  /\ si = Least(call.src + j, End)
  /\ mem = Overlaid(Dest, Text, j)
  /\ call.fn = "strncpy" => cx = call.n - j /\ cx >= 0
  /\ call.fn = "strlcpy" => IF call.n = 0 THEN cx = 0 /\ j = 0 ELSE cx = call.n - j /\ cx >= 1
  /\ Bounded => j <= Text

(* so many bytes have been compared *)
Compared(j) ==
  /\ j >= 0 /\ di = call.dst + j /\ si = call.src + j
  /\ \A k \in 0 .. j - 1 : before[call.dst + k] = before[call.src + k]
  /\ call.fn # "memcmp" => di <= EndOf(call.dst) /\ si <= End
  /\ call.fn \in Sized => cx = call.n - j /\ cx >= 0

Searched(c) ==
  /\ call.src <= si
  /\ \A a \in call.src .. si - 1 : before[a] # c
Searching ==
  /\ call.fn \in {"strchr", "strfind"} => Searched(call.c) /\ si <= End
  /\ call.fn = "memfind" => Searched(call.c % 256) /\ si <= call.src + call.n

AfterBlanks(p) == call.src <= p /\ p <= End /\ \A a \in call.src .. p - 1 : before[a] \in Blanks
SignAt(p) == IF before[p] = 45 THEN -1 ELSE 1
Header(blanks, signs) ==
  LET sign == call.src + blanks
  IN /\ AfterBlanks(sign)
     /\ before[sign] \notin Blanks
     /\ (signs = 1) <=> (before[sign] \in {43, 45})
     /\ di = SignAt(sign)
InNumber(number) ==
  LET first == number + PrefixOf(number)
  IN /\ cx = BaseAt(number) /\ cx <= 36
     /\ first <= si
     /\ \A a \in first .. si - 1 : DigitOf(before[a]) < cx
     /\ ret = Wrap(LastDigits(before, cx, si)[si - first])
Reading(blanks, signs) ==
  LET number == call.src + blanks + signs
  IN /\ Header(blanks, signs) /\ si <= End
     /\ pc = "prefix" => si = number /\ ret = 0 /\ cx = call.n
     /\ pc = "digits" => InNumber(number)

AllRight == ReadersRight /\ CopiesRight /\ StrtolRight

SInv ==
  call.fn \in StringFns =>
    /\ SType
    /\ pc = "call" => mem = before
    /\ pc = "end" => ToTheEnd
    /\ pc = "loop" /\ call.fn \in {"strlen", "strnlen"} => Counting
    /\ pc = "loop" /\ call.fn \in Copying => Copied(di - Dest)
    /\ pc = "loop" /\ call.fn \in Comparing => Compared(di - call.dst)
    /\ pc = "loop" /\ call.fn \in Finding => Searching
    /\ pc \in {"blanks", "sign"} => AfterBlanks(si) /\ ret = 0 /\ cx = call.n
    /\ pc = "sign" => before[si] \notin Blanks
    /\ pc \in {"prefix", "digits"} => \E blanks \in 0 .. Top - 1, signs \in 0 .. 1 : Reading(blanks, signs)
    /\ pc = "done" => AllRight

-----------------------------------------------------------------------------
(* What the steps rely on *)

LEMMA AddrFacts == Top \in Nat /\ \A a : a \in Addrs <=> a \in Int /\ 0 <= a /\ a < Top
  BY TopAssumption, SMT DEF Addrs

(* A string ends at its first 0, or the memory does. *)
LEMMA EndFacts ==
  ASSUME NEW m \in [Addrs -> Bytes], NEW p \in Addrs
  PROVE  /\ EndIn(m, p) \in Int /\ p <= EndIn(m, p) /\ EndIn(m, p) <= Top
         /\ \A k \in Int : p <= k /\ k < EndIn(m, p) => m[k] # 0
         /\ EndIn(m, p) < Top => m[EndIn(m, p)] = 0
<1> DEFINE U == {k \in Nat : p <= k /\ (k = Top \/ (k < Top /\ m[k] = 0))}
<1>1. p \in Int /\ 0 <= p /\ p < Top /\ Top \in Nat
  BY AddrFacts
<1>2. PICK e \in U : \A k \in U : e <= k
  <2>1. Top \in U
    BY <1>1
  <2>2. U \in SUBSET Nat
    OBVIOUS
  <2> HIDE DEF U
  <2> QED
    BY <2>1, <2>2, LeastElement
<1>3. e \in p .. Top /\ (\A k \in p .. e - 1 : m[k] # 0) /\ (e < Top => m[e] = 0)
  <2>1. ASSUME NEW k \in p .. e - 1 PROVE m[k] # 0
    <3>1. k \in Nat /\ p <= k /\ k < Top /\ ~(e <= k)
      BY <1>1, <1>2, SMT
    <3> QED
      BY <3>1, <1>2
  <2> QED
    BY <1>1, <1>2, <2>1, SMT
<1> DEFINE Ends(x) == /\ \A k \in p .. x - 1 : m[k] # 0
                      /\ x < Top => m[x] = 0
<1>4. EndIn(m, p) \in p .. Top /\ Ends(EndIn(m, p))
  <2>1. \E x \in p .. Top : Ends(x)
    BY <1>3
  <2>2. EndIn(m, p) = CHOOSE x \in p .. Top : Ends(x)
    BY Zenon DEF EndIn
  <2> HIDE DEF Ends
  <2> QED
    BY <2>1, <2>2, Zenon
<1> HIDE DEF U
<1>5. EndIn(m, p) \in Int /\ p <= EndIn(m, p) /\ EndIn(m, p) <= Top
  BY <1>1, <1>4, SMT
<1> QED
  BY <1>1, <1>4, <1>5, SMT

LEMMA LeastFacts ==
  ASSUME NEW a \in Int, NEW b \in Int
  PROVE  /\ Least(a, b) \in Int /\ Least(a, b) <= a /\ Least(a, b) <= b
         /\ Least(a, b) = a \/ Least(a, b) = b
  BY SMT DEF Least

(* What every step may rely on *)
Sound ==
  /\ call.dst \in Int /\ call.src \in Addrs /\ call.n \in Nat /\ call.c \in Int
  /\ before \in [Addrs -> Bytes] /\ mem \in [Addrs -> Bytes]
  /\ call.fn \in StringFns
  /\ End \in Int /\ call.src <= End /\ End <= Top /\ Length \in Nat
  /\ \A a \in Int : call.src <= a /\ a < End => a \in Addrs /\ before[a] # 0
  /\ End < Top => End \in Addrs /\ before[End] = 0
  /\ call.fn \notin {"memcmp", "memfind"} =>
       End < Top \/ (call.fn \in Sized /\ call.src + call.n <= Top)
  /\ call.fn \in {"memcmp", "memfind"} => call.src + call.n <= Top

LEMMA SoundFacts ==
  ASSUME call.fn \in StringFns, SType
  PROVE  Sound
<1>1. /\ Callable(call, before) /\ mem \in [Addrs -> Bytes]
  BY DEF SType
<1>2. /\ call.dst \in Int /\ call.src \in Addrs /\ call.n \in Nat /\ call.c \in Int
      /\ before \in [Addrs -> Bytes]
      /\ Readable(call, before, call.src)
  BY <1>1 DEF Callable, Readable
<1>3. /\ End \in Int /\ call.src <= End /\ End <= Top
      /\ \A a \in Int : call.src <= a /\ a < End => before[a] # 0
      /\ End < Top => before[End] = 0
  BY <1>2, EndFacts, Zenon DEF End, EndOf
<1>4. call.src \in Int /\ 0 <= call.src /\ Top \in Nat
  BY <1>2, AddrFacts
<1>5. Length \in Nat
  BY <1>3, <1>4, SMT DEF Length
<1>6. \A a \in Int : call.src <= a /\ a < End => a \in Addrs
  BY <1>3, <1>4, AddrFacts, SMT
<1>7. End < Top => End \in Addrs
  BY <1>3, <1>4, AddrFacts, SMT
<1>8. call.fn \notin {"memcmp", "memfind"} => End < Top \/ (call.fn \in Sized /\ call.src + call.n <= Top)
  BY <1>2 DEF Readable, End, EndOf
<1>9. call.fn \in {"memcmp", "memfind"} => call.src + call.n <= Top
  BY <1>2 DEF Readable
<1> QED
  BY <1>1, <1>2, <1>3, <1>5, <1>6, <1>7, <1>8, <1>9 DEF Sound

(* A copy finds room where it writes, and reads what it has not written. *)
LEMMA RoomFacts ==
  ASSUME SType, call.fn \in Copying
  PROVE  /\ Dest \in Int /\ 0 <= Dest /\ Written(call, before) \in Int
         /\ Dest + Written(call, before) <= Top
         /\ Dest <= call.src \/ call.src + Written(call, before) <= Dest
         /\ call.fn = "strncpy" => Written(call, before) = call.n
         /\ call.fn = "strlcpy" => Written(call, before) = Least(Length + 1, call.n)
         /\ call.fn \in {"strcpy", "strcat"} => Written(call, before) = Length + 1
         /\ call.fn = "strcat" => Dest < Top /\ call.dst <= Dest /\ before[Dest] = 0
              /\ \A a \in Int : call.dst <= a /\ a < Dest => before[a] # 0
         /\ call.fn # "strcat" => Dest = call.dst
<1>1. Callable(call, before) /\ call.fn \in StringFns
  BY DEF SType, StringFns
<1>2. Sound
  BY <1>1, SoundFacts
<1>3. /\ call.dst \in Addrs
      /\ Dest + Written(call, before) <= Top
      /\ Dest <= call.src \/ call.src + Written(call, before) <= Dest
      /\ call.fn = "strcat" => Readable(call, before, call.dst)
  BY <1>1 DEF Callable, Dest
<1>4. call.dst \in Int /\ 0 <= call.dst
  BY <1>3, AddrFacts
<1>5. /\ call.fn = "strncpy" => Written(call, before) = call.n
      /\ call.fn = "strlcpy" => Written(call, before) = Least(Length + 1, call.n)
      /\ call.fn \in {"strcpy", "strcat"} => Written(call, before) = Length + 1
  BY DEF Written, Length, End, EndOf, Copying
<1>6. Written(call, before) \in Int
  <2>1. Length + 1 \in Int /\ call.n \in Int
    BY <1>2, SMT DEF Sound
  <2> QED
    BY <2>1, <1>5, LeastFacts DEF Copying
<1>7. CASE call.fn = "strcat"
  <2>1. Dest = EndIn(before, call.dst) /\ before \in [Addrs -> Bytes]
    BY <1>2, <1>7 DEF Dest, Target, Sound
  <2>2. Dest < Top
    BY <2>1, <1>3, <1>7 DEF Readable, Sized
  <2>3. /\ Dest \in Int /\ call.dst <= Dest
        /\ \A a \in Int : call.dst <= a /\ a < Dest => before[a] # 0
        /\ Dest < Top => before[Dest] = 0
    BY <2>1, <1>3, EndFacts, Zenon
  <2>4. 0 <= Dest
    BY <2>3, <1>4, SMT
  <2> QED
    BY <2>2, <2>3, <2>4, <1>3, <1>5, <1>6, <1>7
<1>8. CASE call.fn # "strcat"
  <2>1. Dest = call.dst
    BY <1>8 DEF Dest, Target
  <2> QED
    BY <2>1, <1>3, <1>4, <1>5, <1>6, <1>8
<1> QED
  BY <1>7, <1>8

(* Writing one byte more *)
LEMMA OverlaidNext ==
  ASSUME before \in [Addrs -> Bytes], NEW d \in Int, NEW n \in Int, NEW j \in Nat,
         d >= 0, d + j < Top, NEW v, v = IF j < n THEN before[call.src + j] ELSE 0
  PROVE  [Overlaid(d, n, j) EXCEPT ![d + j] = v] = Overlaid(d, n, j + 1)
<1>1. \A a \in Addrs : a \in Int
  BY AddrFacts
<1>2. ASSUME NEW a \in Addrs
      PROVE  [Overlaid(d, n, j) EXCEPT ![d + j] = v][a] = Overlaid(d, n, j + 1)[a]
  <2>0. a \in Int
    BY <1>1
  <2>1. CASE a = d + j
    <3>1. Within(a, d, j + 1) /\ (Within(a, d, n) <=> j < n) /\ a - d = j
      BY <2>0, <2>1, SMT DEF Within
    <3>2. Overlaid(d, n, j + 1)[a] = v
      BY <3>1, SMT DEF Overlaid
    <3>3. Overlaid(d, n, j) = [x \in Addrs |-> Overlaid(d, n, j)[x]]
      BY DEF Overlaid
    <3> QED
      BY <3>2, <3>3, <2>1, SMT
  <2>2. CASE a # d + j
    <3>1. Within(a, d, j + 1) <=> Within(a, d, j)
      BY <2>0, <2>2, SMT DEF Within
    <3>2. Overlaid(d, n, j + 1)[a] = Overlaid(d, n, j)[a]
      BY <3>1, SMT DEF Overlaid
    <3>3. Overlaid(d, n, j) = [x \in Addrs |-> Overlaid(d, n, j)[x]]
      BY DEF Overlaid
    <3> QED
      BY <3>2, <3>3, <2>2, SMT
  <2> QED
    BY <2>1, <2>2
<1>3. Overlaid(d, n, j + 1) = [x \in Addrs |-> Overlaid(d, n, j + 1)[x]]
  BY DEF Overlaid
<1>4. [Overlaid(d, n, j) EXCEPT ![d + j] = v]
        = [x \in Addrs |-> [Overlaid(d, n, j) EXCEPT ![d + j] = v][x]]
  <2>1. Overlaid(d, n, j) = [x \in Addrs |-> Overlaid(d, n, j)[x]]
    BY DEF Overlaid
  <2> QED
    BY <2>1, SMT
<1> QED
  BY <1>2, <1>3, <1>4, SMT

LEMMA OverlaidNone ==
  ASSUME before \in [Addrs -> Bytes], NEW d \in Int, NEW n \in Int
  PROVE  Overlaid(d, n, 0) = before
<1>1. \A a \in Addrs : ~Within(a, d, 0)
  BY AddrFacts, SMT DEF Within
<1>2. Overlaid(d, n, 0) = [a \in Addrs |-> before[a]]
  BY <1>1, SMT DEF Overlaid
<1> QED
  BY <1>2

(* What is said of the call stays true while it runs. *)
LEMMA SameCall ==
  ASSUME call' = call, before' = before
  PROVE  /\ End' = End /\ Length' = Length /\ Dest' = Dest /\ Text' = Text
         /\ \A p : EndOf(p)' = EndOf(p)
         /\ \A d, n, size : Overlaid(d, n, size)' = Overlaid(d, n, size)
         /\ \A p, n : Block(p, n)' = Block(p, n)
         /\ \A c, n, none : FirstOr(c, n, none)' = FirstOr(c, n, none)
         /\ \A p : BaseAt(p)' = BaseAt(p) /\ PrefixOf(p)' = PrefixOf(p) /\ SignAt(p)' = SignAt(p)
<1>1. \A p : EndOf(p)' = EndOf(p)
  BY DEF EndOf
<1>2. End' = End /\ Length' = Length /\ Dest' = Dest /\ Text' = Text
  BY <1>1 DEF End, Length, Dest, Text, EndOf
<1>3. \A d, n, size : Overlaid(d, n, size)' = Overlaid(d, n, size)
  BY DEF Overlaid
<1>4. \A p, n : Block(p, n)' = Block(p, n)
  BY DEF Block
<1>5. \A c, n, none : FirstOr(c, n, none)' = FirstOr(c, n, none)
  BY DEF FirstOr
<1>6. \A p : BaseAt(p)' = BaseAt(p) /\ PrefixOf(p)' = PrefixOf(p) /\ SignAt(p)' = SignAt(p)
  BY DEF BaseAt, PrefixOf, HasHexPrefix, HasOctPrefix, SignAt
<1> QED
  BY <1>1, <1>2, <1>3, <1>4, <1>5, <1>6

(* A copy in progress reads the source's next byte, and 0 once it is at the end. *)
LEMMA ReadsTheSource ==
  ASSUME SType, call.fn \in Copying, NEW j \in Nat, Copied(j),
         j < Written(call, before), call.fn # "strncpy" => j <= Text
  PROVE  /\ si \in Addrs /\ di \in Addrs
         /\ mem[si] = IF j < Length THEN before[call.src + j] ELSE 0
         /\ j < Length => si = call.src + j /\ mem[si] # 0
         /\ j >= Length => si = End
<1> DEFINE W == Written(call, before)
<1>1. /\ Dest \in Int /\ 0 <= Dest /\ W \in Int /\ Dest + W <= Top
      /\ Dest <= call.src \/ call.src + W <= Dest
      /\ call.fn = "strncpy" => W = call.n
      /\ call.fn = "strlcpy" => W = Least(Length + 1, call.n)
      /\ call.fn \in {"strcpy", "strcat"} => W = Length + 1
  BY RoomFacts
<1>2. Sound
  <2>1. call.fn \in StringFns
    BY DEF StringFns
  <2> QED
    BY <2>1, SoundFacts
<1>3. /\ call.src \in Int /\ 0 <= call.src /\ call.n \in Nat /\ End \in Int /\ Length \in Nat
      /\ Length = End - call.src /\ Top \in Nat
  BY <1>2, AddrFacts DEF Sound, Length
<1>4. Text \in Int /\ (Text = Length \/ (j <= Text /\ Text < Length))
  <2>1. CASE call.fn = "strlcpy"
    <3>1. Text = Least(call.n - 1, Length) /\ call.n - 1 \in Int /\ Length \in Int
      BY <2>1, <1>3, SMT DEF Text
    <3>2. Text \in Int /\ Text <= Length
      BY <3>1, LeastFacts
    <3>3. j <= Text
      BY <2>1
    <3> QED
      BY <3>2, <3>3, <1>3, SMT
  <2>2. CASE call.fn # "strlcpy"
    BY <2>2, <1>3 DEF Text
  <2> QED
    BY <2>1, <2>2
<1>5. call.fn \in Sized /\ j >= Length => j < call.n
  <2>1. CASE call.fn = "strlcpy"
    BY <2>1, <1>1, <1>3, SMT DEF Least
  <2>2. CASE call.fn # "strlcpy"
    BY <2>2, <1>1, <1>3, SMT DEF Copying, Sized
  <2> QED
    BY <2>1, <2>2
<1>6. /\ di = Dest + j /\ si = Least(call.src + j, End) /\ mem = Overlaid(Dest, Text, j)
  BY DEF Copied
<1> HIDE DEF W
<1>7. di \in Addrs
  BY <1>1, <1>3, <1>6, AddrFacts, SMT DEF W
<1>8. CASE j < Length
  <2>1. si = call.src + j /\ si < End /\ si \in Int /\ call.src <= si
    BY <1>3, <1>6, <1>8, SMT DEF Least
  <2>2. si \in Addrs /\ before[si] # 0
    BY <2>1, <1>2 DEF Sound
  <2>3. ~Within(si, Dest, j)
    BY <2>1, <1>1, <1>3, SMT DEF Within, W
  <2>4. mem[si] = before[si]
    BY <2>2, <2>3, <1>6 DEF Overlaid
  <2> QED
    BY <2>1, <2>2, <2>4, <1>3, <1>7, <1>8
<1>9. CASE j >= Length
  <2>1. si = End /\ Text = Length
    BY <1>3, <1>4, <1>6, <1>9, SMT DEF Least
  <2>2. End < Top
    <3>1. CASE call.fn \in Sized
      <4>1. j < call.n
        BY <3>1, <1>5, <1>9
      <4>2. End < Top \/ call.src + call.n <= Top
        BY <1>2, <3>1 DEF Sound, Sized
      <4> QED
        BY <4>1, <4>2, <1>3, <1>9, SMT
    <3>2. CASE call.fn \notin Sized
      BY <3>2, <1>2 DEF Sound, Copying
    <3> QED
      BY <3>1, <3>2
  <2>3. End \in Addrs /\ before[End] = 0
    BY <2>2, <1>2 DEF Sound
  <2>4. Within(End, Dest, j) => ~Within(End, Dest, Text)
    BY <2>1, <1>1, <1>3, <1>9, SMT DEF Within, W
  <2>5. mem[End] = 0
    BY <2>3, <2>4, <1>6 DEF Overlaid
  <2> QED
    BY <2>1, <2>3, <2>5, <1>3, <1>7, <1>9
<1> QED
  BY <1>3, <1>8, <1>9, SMT

(* and writes it where it belongs *)
LEMMA WritesNext ==
  ASSUME SType, call.fn \in Copying, NEW j \in Nat, Copied(j), NEW v,
         Dest \in Int, 0 <= Dest, Dest + j < Top, Text \in Int,
         v = IF j < Text THEN before[call.src + j] ELSE 0
  PROVE  /\ [mem EXCEPT ![di] = v] = Overlaid(Dest, Text, j + 1)
         /\ v \in Bytes => [mem EXCEPT ![di] = v] \in [Addrs -> Bytes]
<1>1. before \in [Addrs -> Bytes] /\ mem \in [Addrs -> Bytes]
  BY DEF SType, Callable
<1>2. di = Dest + j /\ mem = Overlaid(Dest, Text, j)
  BY DEF Copied
<1>3. [mem EXCEPT ![di] = v] = Overlaid(Dest, Text, j + 1)
  BY <1>1, <1>2, OverlaidNext
<1> QED
  BY <1>1, <1>3

-----------------------------------------------------------------------------
(* The steps *)

(* A function is judged only by the properties that are about it. *)
LEMMA OtherCalls ==
  /\ (call.fn \notin {"strlen", "strnlen"} => Lengths)'
  /\ (call.fn \notin Comparing => Comparisons)'
  /\ (call.fn \notin Finding => Occurrences)'
  /\ (call.fn \notin Copying => CopiesRight)'
  /\ (call.fn # "strtol" => StrtolRight)'
<1>1. (call.fn \notin {"strlen", "strnlen"} => Lengths)'
  BY DEF Lengths, Returned
<1>2. (call.fn \notin Comparing => Comparisons)'
  BY DEF Comparisons, Returned, Comparing
<1>3. (call.fn \notin Finding => Occurrences)'
  BY DEF Occurrences, Returned, Finding
<1>4. (call.fn \notin Copying => CopiesRight)'
  BY DEF CopiesRight, Returned, Copying
<1>5. (call.fn # "strtol" => StrtolRight)'
  BY DEF StrtolRight, Returned
<1> QED
  BY <1>1, <1>2, <1>3, <1>4, <1>5

LEMMA TypeKept ==
  ASSUME SType, call' = call, before' = before, mem' \in [Addrs -> Bytes],
         di' \in Int, si' \in Int, cx' \in Int, ret' \in Int,
         pc' \in {pc, "done"}, call.fn \notin Copying => mem' = mem
  PROVE  SType'
  BY DEF SType

(* strlen and strnlen *)
LEMMA Counts == SInv /\ Count => SInv'
<1> SUFFICES ASSUME SInv, Count PROVE SInv'
  OBVIOUS
<1>1. /\ call.fn \in {"strlen", "strnlen"} /\ pc = "loop" /\ SType /\ Counting
      /\ call' = call /\ before' = before /\ mem' = mem
  BY DEF Count, Loop, SInv, StringFns, Turn, Return
<1>2. Sound /\ mem = before /\ si \in Int /\ di \in Int /\ cx \in Int /\ ret \in Int /\ mem \in [Addrs -> Bytes]
  <2>1. call.fn \in StringFns /\ call.fn \notin Copying
    BY <1>1 DEF StringFns, Copying
  <2> QED
    BY <1>1, <2>1, SoundFacts DEF SType
<1>3. call.src \in Int /\ call.n \in Nat /\ End \in Int /\ Length \in Nat /\ Length = End - call.src /\ End <= Top
  BY <1>2, AddrFacts DEF Sound, Length
<1>4. call.fn \notin Comparing \cup Finding \cup Copying /\ call.fn # "strtol" /\ call.fn \in StringFns
  BY <1>1 DEF Comparing, Finding, Copying, StringFns
<1>5. CASE More /\ mem[si] # 0 /\ ret' = ret + 1 /\ Turn(0, 1)
  <2>1. /\ ret' = ret + 1 /\ si' = si + 1 /\ di' = di + 0 /\ pc' = pc
        /\ call.fn = "strnlen" => cx' = cx - 1 /\ cx > 0
        /\ cx' \in Int
    BY <1>2, <1>5, SMT DEF Turn, More, Sized
  <2>2. si < End
    <3>1. si = End => End < Top
      <4>1. End < Top \/ (call.fn \in Sized /\ call.src + call.n <= Top)
        BY <1>1, <1>2 DEF Sound
      <4>2. CASE call.fn = "strnlen"
        <5>1. si = call.src + ret /\ cx = call.n - ret /\ cx > 0
          BY <4>2, <2>1, <1>1 DEF Counting
        <5>2. cx \in Int /\ ret \in Int /\ Top \in Int
          BY <1>2, AddrFacts
        <5>3. End < Top \/ call.src + call.n <= Top
          BY <4>1
        <5> QED
          BY <5>1, <5>2, <5>3, <1>3, SMT
      <4>3. CASE call.fn = "strlen"
        BY <4>1, <4>3 DEF Sized
      <4> QED
        BY <4>2, <4>3, <1>1
    <3>2. End < Top => before[End] = 0
      BY <1>2 DEF Sound
    <3>3. si <= End
      BY <1>1 DEF Counting
    <3> QED
      BY <3>1, <3>2, <3>3, <1>2, <1>3, <1>5
  <2>3. Counting'
    <3>1. End' = End
      BY <1>1, SameCall
    <3> QED
      BY <3>1, <2>1, <2>2, <1>1, <1>2, <1>3, SMT DEF Counting
  <2>4. SType'
    <3>1. di' \in Int /\ si' \in Int /\ ret' \in Int
      BY <2>1, <1>2, SMT
    <3> QED
      BY <3>1, <2>1, <1>1, <1>2, TypeKept
  <2>5. pc' = "loop" /\ call'.fn \in {"strlen", "strnlen"}
    BY <2>1, <1>1
  <2> QED
    BY <2>3, <2>4, <2>5, <1>1, <1>4 DEF SInv
<1>6. CASE ~(More /\ mem[si] # 0) /\ Return(ret)
  <2>1. pc' = "done" /\ ret' = ret /\ si' = si /\ di' = di /\ cx' = cx
    BY <1>6 DEF Return, regs
  <2>2. SType'
    BY <2>1, <1>1, <1>2, TypeKept
  <2>3. ASSUME More PROVE si = End
    <3>1. mem[si] = 0 /\ si <= End /\ call.src <= si
      BY <2>3, <1>6, <1>1, <1>2, <1>3, SMT DEF Counting
    <3> QED
      BY <3>1, <1>2, <1>3 DEF Sound
  <2>4. call.fn = "strlen" => ret = Length
    <3>1. call.fn = "strlen" => More
      BY DEF More, Sized
    <3> QED
      BY <3>1, <2>3, <1>1, <1>2, <1>3, SMT DEF Counting
  <2>5. call.fn = "strnlen" => ret = Least(call.n, Length)
    <3> SUFFICES ASSUME call.fn = "strnlen" PROVE ret = Least(call.n, Length)
      OBVIOUS
    <3>1. si = call.src + ret /\ si <= End /\ cx = call.n - ret /\ cx >= 0
      BY <1>1 DEF Counting
    <3>2. cx > 0 => si = End
      BY <2>3 DEF More
    <3> QED
      BY <3>1, <3>2, <1>2, <1>3, SMT DEF Least
  <2>6. Lengths'
    <3>1. (EndOf(call.src) - call.src)' = Length
      <4>1. \A p : EndOf(p)' = EndOf(p)
        BY <1>1, SameCall
      <4> QED
        BY <4>1, <1>1 DEF Length, End
    <3> QED
      BY <3>1, <2>1, <2>4, <2>5, <1>1 DEF Lengths, Returned
  <2>7. AllRight'
    BY <2>6, <1>1, <1>4, OtherCalls DEF AllRight, ReadersRight
  <2> QED
    BY <2>1, <2>2, <2>7 DEF SInv
<1> QED
  BY <1>5, <1>6 DEF Count

-----------------------------------------------------------------------------
LEMMA ComparedFacts ==
  ASSUME SType, call.fn \in Comparing
  PROVE  /\ call.dst \in Addrs
         /\ call.fn = "memcmp" => call.dst + call.n <= Top
         /\ call.fn # "memcmp" =>
              /\ EndOf(call.dst) < Top \/ (call.fn \in Sized /\ call.dst + call.n <= Top)
         /\ EndOf(call.dst) \in Int /\ call.dst <= EndOf(call.dst) /\ EndOf(call.dst) <= Top
         /\ \A a \in Int : call.dst <= a /\ a < EndOf(call.dst) => before[a] # 0
         /\ EndOf(call.dst) < Top => before[EndOf(call.dst)] = 0
<1>1. Readable(call, before, call.dst) /\ before \in [Addrs -> Bytes]
  BY DEF SType, Callable
<1>2. call.dst \in Addrs
  BY <1>1 DEF Readable
<1>3. call.fn \notin {"memfind"}
  BY DEF Comparing
<1>4. /\ call.fn = "memcmp" => call.dst + call.n <= Top
      /\ call.fn # "memcmp" => EndOf(call.dst) < Top \/ (call.fn \in Sized /\ call.dst + call.n <= Top)
  BY <1>1, <1>3 DEF Readable, EndOf
<1>5. /\ EndOf(call.dst) \in Int /\ call.dst <= EndOf(call.dst) /\ EndOf(call.dst) <= Top
      /\ \A a \in Int : call.dst <= a /\ a < EndOf(call.dst) => before[a] # 0
      /\ EndOf(call.dst) < Top => before[EndOf(call.dst)] = 0
  BY <1>1, <1>2, EndFacts, Zenon DEF EndOf
<1> QED
  BY <1>2, <1>4, <1>5

LEMMA Starts == SInv /\ Call => SInv'
<1> SUFFICES ASSUME SInv, Call PROVE SInv'
  OBVIOUS
<1>1. /\ call.fn \in StringFns /\ pc = "call" /\ SType /\ mem = before
      /\ call' = call /\ before' = before /\ mem' = mem
      /\ di' = call.dst /\ si' = call.src /\ cx' = call.n /\ ret' = 0
      /\ pc' = IF call.fn = "strcat" THEN "end" ELSE IF call.fn = "strtol" THEN "blanks" ELSE "loop"
  BY DEF Call, SInv
<1>2. Sound
  BY <1>1, SoundFacts
<1>3. /\ call.dst \in Int /\ call.src \in Int /\ call.n \in Nat /\ End \in Int /\ Length \in Nat
      /\ Length = End - call.src /\ call.src <= End
  BY <1>2, AddrFacts DEF Sound, Length
<1>4. SType'
  BY <1>1, <1>2, <1>3, SMT DEF SType, Sound
<1>5. /\ End' = End /\ Length' = Length /\ Dest' = Dest /\ Text' = Text
      /\ \A p : EndOf(p)' = EndOf(p)
      /\ \A d, n, size : Overlaid(d, n, size)' = Overlaid(d, n, size)
  BY <1>1, SameCall
<1>6. CASE call.fn = "strcat"
  <2>1. ToTheEnd'
    <3>1. call.dst <= Dest
      BY <1>1, <1>6, RoomFacts DEF Copying
    <3> QED
      BY <3>1, <1>1, <1>3, <1>5 DEF ToTheEnd
  <2> QED
    BY <2>1, <1>1, <1>4, <1>6 DEF SInv
<1>7. CASE call.fn = "strtol"
  <2>1. AfterBlanks(si)'
    BY <1>1, <1>3, <1>5 DEF AfterBlanks
  <2> QED
    BY <2>1, <1>1, <1>4, <1>7 DEF SInv
<1>8. CASE call.fn \in {"strlen", "strnlen"}
  <2>1. Counting'
    BY <1>1, <1>3, <1>5 DEF Counting
  <2>2. call.fn \notin Comparing \cup Finding \cup Copying
    BY <1>8 DEF Comparing, Finding, Copying
  <2>3. pc' = "loop"
    BY <1>1, <1>8
  <2> QED
    BY <2>1, <2>2, <2>3, <1>1, <1>4, <1>8 DEF SInv
<1>9. CASE call.fn \in Copying /\ call.fn # "strcat"
  <2>1. Dest = call.dst
    BY <1>1, <1>9, RoomFacts
  <2>2. mem' = Overlaid(Dest, Text, 0)
    <3>1. Text \in Int
      <4>1. call.n - 1 \in Int /\ Length \in Int
        BY <1>3, SMT
      <4> QED
        BY <4>1, LeastFacts DEF Text
    <3> QED
      BY <3>1, <2>1, <1>1, <1>2, <1>3, OverlaidNone DEF Sound
  <2>3. Bounded => 0 <= Text
    BY <1>3, SMT DEF Bounded, Text, Least
  <2>4. Least(call.src + 0, End) = call.src
    BY <1>3, SMT DEF Least
  <2>5. (di - Dest)' = 0 /\ Dest + 0 = Dest
    BY <2>1, <1>1, <1>3, <1>5, SMT
  <2>6. /\ call.n - 0 = call.n /\ call.n >= 0
        /\ call.n # 0 => call.n >= 1
    BY <1>3, SMT
  <2>7. Copied(0)'
    <3>1. 0 >= 0 /\ Bounded' = Bounded
      BY <1>1, SMT DEF Bounded
    <3> QED
      BY <3>1, <2>1, <2>2, <2>3, <2>4, <2>5, <2>6, <1>1, <1>5 DEF Copied
  <2>8. Copied(di - Dest)'
    BY <2>5, <2>7 DEF Copied
  <2>9. call.fn \notin Comparing \cup Finding \cup {"strlen", "strnlen"}
    BY <1>9 DEF Comparing, Finding, Copying
  <2>10. pc' = "loop"
    BY <1>1, <1>9 DEF Copying
  <2> QED
    BY <2>8, <2>9, <2>10, <1>1, <1>4 DEF SInv
<1>10. CASE call.fn \in Comparing
  <2>1. call.dst <= EndOf(call.dst)
    BY <1>1, <1>10, ComparedFacts
  <2>2. (di - call.dst)' = 0
    BY <1>1, <1>3, SMT
  <2>3. Compared(0)'
    BY <2>1, <1>1, <1>3, <1>5, SMT DEF Compared
  <2>4. Compared(di - call.dst)'
    BY <2>2, <2>3 DEF Compared
  <2>5. call.fn \notin Copying \cup Finding \cup {"strlen", "strnlen"}
    BY <1>10 DEF Comparing, Finding, Copying
  <2>6. pc' = "loop"
    BY <1>1, <1>10 DEF Comparing
  <2> QED
    BY <2>4, <2>5, <2>6, <1>1, <1>4 DEF SInv
<1>11. CASE call.fn \in Finding
  <2>1. Searching'
    BY <1>1, <1>3, <1>5, SMT DEF Searching, Searched
  <2>2. call.fn \notin Copying \cup Comparing \cup {"strlen", "strnlen"}
    BY <1>11 DEF Comparing, Finding, Copying
  <2>3. pc' = "loop"
    BY <1>1, <1>11 DEF Finding
  <2> QED
    BY <2>1, <2>2, <2>3, <1>1, <1>4 DEF SInv
<1> QED
  BY <1>1, <1>6, <1>7, <1>8, <1>9, <1>10, <1>11 DEF StringFns

LEMMA Appends == SInv /\ Append0 => SInv'
<1> SUFFICES ASSUME SInv, call.fn \in StringFns, Append0 PROVE SInv'
  BY DEF SInv, Append0
<1>1. /\ pc = "end" /\ SType /\ ToTheEnd /\ call.fn = "strcat"
      /\ call' = call /\ before' = before /\ mem' = mem /\ si' = si /\ cx' = cx /\ ret' = ret
  BY DEF Append0, SInv, SType
<1>2. Sound /\ call.fn \in Copying
  BY <1>1, SoundFacts DEF Copying
<1>3. /\ Dest \in Int /\ call.dst <= Dest /\ before[Dest] = 0
      /\ \A a \in Int : call.dst <= a /\ a < Dest => before[a] # 0
  BY <1>1, <1>2, RoomFacts
<1>4. /\ di \in Int /\ si \in Int /\ cx \in Int /\ ret \in Int /\ mem \in [Addrs -> Bytes]
      /\ mem = before /\ si = call.src /\ call.dst <= di /\ di <= Dest
      /\ call.dst \in Int
  BY <1>1, <1>2 DEF SType, ToTheEnd, Sound
<1>5. /\ End' = End /\ Length' = Length /\ Dest' = Dest /\ Text' = Text
      /\ \A d, n, size : Overlaid(d, n, size)' = Overlaid(d, n, size)
  BY <1>1, SameCall
<1>12. Bounded' = Bounded
  BY <1>1 DEF Bounded
<1>6. CASE mem[di] # 0 /\ di' = di + 1 /\ UNCHANGED pc
  <2>1. di < Dest
    BY <1>3, <1>4, <1>6, SMT
  <2>2. di' \in Int /\ call.dst <= di' /\ di' <= Dest
    BY <2>1, <1>3, <1>4, <1>6, SMT
  <2>3. ToTheEnd'
    BY <2>2, <1>1, <1>4, <1>5 DEF ToTheEnd
  <2>4. SType'
    BY <2>2, <1>1, <1>4, <1>6, TypeKept
  <2> QED
    BY <2>3, <2>4, <1>1, <1>6 DEF SInv
<1>7. CASE mem[di] = 0 /\ pc' = "loop" /\ UNCHANGED di
  <2>1. di = Dest
    BY <1>3, <1>4, <1>7, SMT
  <2>2. /\ call.src \in Int /\ End \in Int /\ call.src <= End /\ Length \in Nat /\ before \in [Addrs -> Bytes]
    BY <1>2, AddrFacts DEF Sound
  <2>3. Text = Length
    BY <1>1 DEF Text
  <2>4. mem' = Overlaid(Dest, Text, 0)
    <3>1. Text \in Int
      BY <2>2, <2>3, SMT
    <3> QED
      BY <3>1, <2>2, <1>1, <1>3, <1>4, OverlaidNone
  <2>5. Least(call.src + 0, End) = call.src /\ Dest + 0 = Dest /\ Dest - Dest = 0 /\ 0 <= Text /\ 0 >= 0
    BY <2>2, <2>3, <1>3, SMT DEF Least
  <2>6. Copied(0)'
    BY <2>1, <2>4, <2>5, <1>1, <1>4, <1>5, <1>7, <1>12 DEF Copied
  <2>7. Copied(di - Dest)'
    BY <2>1, <2>5, <2>6, <1>5, <1>7 DEF Copied
  <2>8. call.fn \notin Comparing \cup Finding \cup {"strlen", "strnlen"}
    BY <1>1 DEF Comparing, Finding
  <2>9. SType'
    BY <1>1, <1>4, <1>7 DEF SType
  <2> QED
    BY <2>7, <2>8, <2>9, <1>1, <1>2, <1>7 DEF SInv
<1> QED
  BY <1>6, <1>7 DEF Append0

(* What remains to be shown when a copy returns, and when it goes on *)
LEMMA CopyGoesOn ==
  ASSUME SType, call.fn \in Copying, call' = call, before' = before, pc' = "loop", SType',
         NEW j \in Nat, di' = Dest + j, Copied(j)'
  PROVE  SInv'
<1>1. Dest \in Int
  BY RoomFacts
<1>2. (di - Dest)' = j
  <2>1. Dest' = Dest
    BY SameCall
  <2> QED
    BY <1>1, <2>1, SMT
<1>3. Copied(di - Dest)'
  BY <1>2 DEF Copied
<1>4. call.fn \notin Comparing \cup Finding \cup {"strlen", "strnlen"}
  BY DEF Comparing, Finding, Copying
<1> QED
  BY <1>3, <1>4 DEF SInv

LEMMA CopyReturns ==
  ASSUME SType, call.fn \in Copying, call' = call, before' = before, pc' = "done", SType', CopiesRight'
  PROVE  SInv'
<1>1. call.fn \notin Comparing \cup Finding \cup {"strlen", "strnlen"} /\ call.fn # "strtol"
  BY DEF Comparing, Finding, Copying
<1>2. AllRight'
  BY <1>1, OtherCalls DEF AllRight, ReadersRight
<1> QED
  BY <1>2 DEF SInv

LEMMA CopyFacts ==
  ASSUME SInv, pc = "loop", call.fn \in Copying
  PROVE  \E j \in Nat : /\ Copied(j) /\ di = Dest + j
                        /\ SType /\ Sound /\ Dest \in Int /\ 0 <= Dest /\ Text \in Int
                        /\ call.src \in Int /\ End \in Int /\ Length = End - call.src
                        /\ di \in Int /\ si \in Int /\ cx \in Int /\ ret \in Int /\ mem \in [Addrs -> Bytes]
<1>1. call.fn \in StringFns
  BY DEF StringFns
<1>2. SType /\ Copied(di - Dest)
  BY <1>1 DEF SInv
<1>3. Sound
  BY <1>1, <1>2, SoundFacts
<1>4. Dest \in Int /\ 0 <= Dest
  BY <1>2, RoomFacts
<1>5. di \in Int /\ si \in Int /\ cx \in Int /\ ret \in Int /\ mem \in [Addrs -> Bytes]
  BY <1>2 DEF SType
<1>6. /\ call.src \in Int /\ End \in Int /\ Length \in Int /\ call.n - 1 \in Int
      /\ Length = End - call.src
  BY <1>3, AddrFacts, SMT DEF Sound, Length
<1>7. Text \in Int
  BY <1>6, LeastFacts DEF Text
<1>8. di - Dest \in Nat /\ di = Dest + (di - Dest)
  <2>1. di - Dest >= 0
    BY <1>2 DEF Copied
  <2> QED
    BY <2>1, <1>4, <1>5, SMT
<1> QED
  BY <1>2, <1>3, <1>4, <1>5, <1>6, <1>7, <1>8, Zenon

LEMMA SameBounded == call' = call => Bounded' = Bounded
  BY DEF Bounded

(* strcpy, and strcat once it is at the end *)
LEMMA CopiesString == SInv /\ Strcpy => SInv'
<1> SUFFICES ASSUME SInv, Strcpy PROVE SInv'
  OBVIOUS
<1>1. /\ call.fn \in {"strcpy", "strcat"} /\ call.fn \in Copying /\ pc = "loop"
      /\ call' = call /\ before' = before /\ mem' = [mem EXCEPT ![di] = mem[si]]
  BY DEF Strcpy, Loop, Turn, Return, CopyByte, Copying
<1>2. PICK j \in Nat : /\ Copied(j) /\ di = Dest + j
                       /\ SType /\ Sound /\ Dest \in Int /\ 0 <= Dest /\ Text \in Int
                       /\ call.src \in Int /\ End \in Int /\ Length = End - call.src
                       /\ di \in Int /\ si \in Int /\ cx \in Int /\ ret \in Int /\ mem \in [Addrs -> Bytes]
  BY <1>1, CopyFacts
<1>3. Text = Length /\ j <= Length
  BY <1>1, <1>2 DEF Text, Copied, Bounded
<1>4. Dest + (Length + 1) <= Top /\ Written(call, before) = Length + 1
  BY <1>1, <1>2, RoomFacts
<1>5. /\ si \in Addrs /\ di \in Addrs
      /\ mem[si] = IF j < Length THEN before[call.src + j] ELSE 0
      /\ j < Length => si = call.src + j /\ mem[si] # 0
  <2>1. j < Written(call, before) /\ (call.fn # "strncpy" => j <= Text)
    BY <1>2, <1>3, <1>4, SMT
  <2> QED
    BY <2>1, <1>1, <1>2, ReadsTheSource
<1>6. mem' = Overlaid(Dest, Text, j + 1) /\ mem' \in [Addrs -> Bytes]
  <2>1. Dest + j < Top
    BY <1>2, <1>3, <1>4, AddrFacts, SMT
  <2>2. mem[si] = IF j < Text THEN before[call.src + j] ELSE 0
    BY <1>3, <1>5
  <2>3. mem[si] \in Bytes
    BY <1>2, <1>5
  <2> QED
    BY <2>1, <2>2, <2>3, <1>1, <1>2, WritesNext
<1>7. /\ End' = End /\ Length' = Length /\ Dest' = Dest /\ Text' = Text
      /\ \A p : EndOf(p)' = EndOf(p)
      /\ \A d, n, size : Overlaid(d, n, size)' = Overlaid(d, n, size)
      /\ Bounded' = Bounded
  BY <1>1, SameCall, SameBounded
<1>8. CASE mem[si] # 0 /\ Turn(1, 1) /\ UNCHANGED ret
  <2>1. di' = di + 1 /\ si' = si + 1 /\ pc' = "loop" /\ cx' = cx /\ ret' = ret
    BY <1>1, <1>8 DEF Turn, Sized
  <2>2. j < Length /\ si = call.src + j
    BY <1>5, <1>8
  <2>3. /\ j + 1 \in Nat /\ j + 1 >= 0 /\ di' = Dest + (j + 1) /\ si' = Least(call.src + (j + 1), End)
        /\ j + 1 <= Text /\ di' \in Int /\ si' \in Int
    BY <2>1, <2>2, <1>2, <1>3, SMT DEF Least
  <2>4. Copied(j + 1)'
    BY <2>3, <1>1, <1>6, <1>7 DEF Copied
  <2>5. SType'
    BY <2>1, <2>3, <1>1, <1>2, <1>6, TypeKept
  <2> QED
    BY <2>1, <2>3, <2>4, <2>5, <1>1, <1>2, CopyGoesOn
<1>9. CASE mem[si] = 0 /\ Return(call.dst)
  <2>1. di' = di /\ si' = si /\ pc' = "done" /\ cx' = cx /\ ret' = call.dst
    BY <1>9 DEF Return, regs
  <2>2. j = Length
    <3>1. ~(j < Length)
      BY <1>5, <1>9
    <3> QED
      BY <3>1, <1>2, <1>3, SMT
  <2>3. SType'
    BY <2>1, <1>1, <1>2, <1>6, TypeKept DEF Sound
  <2>4. CopiesRight'
    <3>1. call.fn = "strcpy" => Dest = call.dst
      BY <1>1, <1>2, RoomFacts
    <3>2. call.fn = "strcat" => Dest = EndOf(call.dst)
      BY DEF Dest, Target, EndOf
    <3>3. mem' = Overlaid(Dest, Length, Length + 1)
      BY <2>2, <1>3, <1>6
    <3>4. (EndOf(call.src) - call.src)' = Length /\ (EndOf(call.dst))' = EndOf(call.dst)
      BY <1>1, <1>7 DEF Length, End
    <3> QED
      BY <3>1, <3>2, <3>3, <3>4, <2>1, <1>1, <1>7 DEF CopiesRight, Returned
  <2> QED
    BY <2>1, <2>3, <2>4, <1>1, <1>2, CopyReturns
<1> QED
  BY <1>8, <1>9 DEF Strcpy

LEMMA CopiesSized == SInv /\ Strncpy => SInv'
<1> SUFFICES ASSUME SInv, Strncpy PROVE SInv'
  OBVIOUS
<1>1. /\ call.fn = "strncpy" /\ call.fn \in Copying /\ pc = "loop" /\ call.fn \in Sized
      /\ call' = call /\ before' = before
  BY DEF Strncpy, Loop, Turn, Return, Copying, Sized
<1>2. PICK j \in Nat : /\ Copied(j) /\ di = Dest + j
                       /\ SType /\ Sound /\ Dest \in Int /\ 0 <= Dest /\ Text \in Int
                       /\ call.src \in Int /\ End \in Int /\ Length = End - call.src
                       /\ di \in Int /\ si \in Int /\ cx \in Int /\ ret \in Int /\ mem \in [Addrs -> Bytes]
  BY <1>1, CopyFacts
<1>3. /\ Text = Length /\ cx = call.n - j /\ cx >= 0 /\ call.n \in Nat
      /\ mem = Overlaid(Dest, Text, j)
  BY <1>1, <1>2 DEF Text, Copied, Sound
<1>4. Dest + call.n <= Top /\ Written(call, before) = call.n /\ Dest = call.dst
  BY <1>1, <1>2, RoomFacts
<1>5. /\ End' = End /\ Length' = Length /\ Dest' = Dest /\ Text' = Text
      /\ \A p : EndOf(p)' = EndOf(p)
      /\ \A d, n, size : Overlaid(d, n, size)' = Overlaid(d, n, size)
      /\ Bounded' = Bounded
  BY <1>1, SameCall, SameBounded
<1>6. CASE More /\ CopyByte /\ Turn(1, IF mem'[si] # 0 THEN 1 ELSE 0) /\ UNCHANGED ret
  <2>1. j < call.n /\ cx > 0
    BY <1>1, <1>2, <1>3, <1>6, SMT DEF More
  <2>2. /\ si \in Addrs /\ di \in Addrs
        /\ mem[si] = IF j < Length THEN before[call.src + j] ELSE 0
        /\ j < Length => si = call.src + j /\ mem[si] # 0
        /\ j >= Length => si = End
    BY <2>1, <1>1, <1>2, <1>4, ReadsTheSource
  <2>3. mem' = [mem EXCEPT ![di] = mem[si]]
    BY <1>6 DEF CopyByte
  <2>4. mem' = Overlaid(Dest, Text, j + 1) /\ mem' \in [Addrs -> Bytes]
    <3>1. Dest + j < Top
      BY <2>1, <1>2, <1>3, <1>4, AddrFacts, SMT
    <3>2. mem[si] \in Bytes /\ mem[si] = IF j < Text THEN before[call.src + j] ELSE 0
      BY <2>2, <1>2, <1>3
    <3> QED
      BY <3>1, <3>2, <2>3, <1>1, <1>2, WritesNext
  <2>5. mem'[si] = mem[si]
    BY <2>2, <2>3, <1>2
  <2>6. /\ di' = di + 1 /\ pc' = "loop" /\ cx' = cx - 1 /\ ret' = ret
        /\ si' = si + (IF mem[si] # 0 THEN 1 ELSE 0)
    BY <2>5, <1>1, <1>6 DEF Turn
  <2>7. si' = Least(call.src + (j + 1), End)
    <3>1. CASE j < Length
      <4>1. si' = call.src + j + 1
        BY <3>1, <2>2, <2>6, <1>2, SMT
      <4> QED
        BY <3>1, <4>1, <1>2, SMT DEF Least
    <3>2. CASE j >= Length
      <4>1. si' = End
        BY <3>2, <2>2, <2>6, <1>2, <1>3, SMT
      <4> QED
        BY <3>2, <4>1, <1>2, SMT DEF Least
    <3> QED
      BY <3>1, <3>2, <1>2, SMT
  <2>8. /\ j + 1 \in Nat /\ j + 1 >= 0 /\ di' = Dest + (j + 1)
        /\ cx' = call.n - (j + 1) /\ cx' >= 0
        /\ di' \in Int /\ si' \in Int /\ cx' \in Int
    BY <2>1, <2>6, <1>2, <1>3, SMT
  <2>9. Copied(j + 1)'
    BY <2>4, <2>7, <2>8, <1>1, <1>5 DEF Copied, Bounded
  <2>10. SType'
    BY <2>4, <2>6, <2>8, <1>1, <1>2, TypeKept
  <2> QED
    BY <2>6, <2>8, <2>9, <2>10, <1>1, <1>2, CopyGoesOn
<1>7. CASE ~More /\ Return(call.dst) /\ UNCHANGED mem
  <2>1. di' = di /\ si' = si /\ pc' = "done" /\ cx' = cx /\ ret' = call.dst /\ mem' = mem
    BY <1>7 DEF Return, regs
  <2>2. j = call.n
    BY <1>1, <1>2, <1>3, <1>7, SMT DEF More
  <2>3. SType'
    BY <2>1, <1>1, <1>2, TypeKept DEF Sound
  <2>4. CopiesRight'
    <3>1. (EndOf(call.src) - call.src)' = Length
      BY <1>1, <1>5 DEF Length, End
    <3> QED
      BY <3>1, <2>1, <2>2, <1>1, <1>3, <1>4, <1>5 DEF CopiesRight, Returned
  <2> QED
    BY <2>1, <2>3, <2>4, <1>1, <1>2, CopyReturns
<1> QED
  BY <1>6, <1>7 DEF Strncpy

LEMMA CopiesBounded == SInv /\ Strlcpy => SInv'
<1> SUFFICES ASSUME SInv, Strlcpy PROVE SInv'
  OBVIOUS
<1>1. /\ call.fn = "strlcpy" /\ call.fn \in Copying /\ pc = "loop" /\ call.fn \in Sized
      /\ call' = call /\ before' = before
  BY DEF Strlcpy, Loop, Turn, Return, Copying, Sized
<1>2. PICK j \in Nat : /\ Copied(j) /\ di = Dest + j
                       /\ SType /\ Sound /\ Dest \in Int /\ 0 <= Dest /\ Text \in Int
                       /\ call.src \in Int /\ End \in Int /\ Length = End - call.src
                       /\ di \in Int /\ si \in Int /\ cx \in Int /\ ret \in Int /\ mem \in [Addrs -> Bytes]
  BY <1>1, CopyFacts
<1>3. /\ Text = Least(call.n - 1, Length) /\ call.n \in Nat /\ Length \in Nat
      /\ mem = Overlaid(Dest, Text, j) /\ si = Least(call.src + j, End)
      /\ IF call.n = 0 THEN cx = 0 /\ j = 0 ELSE cx = call.n - j /\ cx >= 1
      /\ call.n # 0 => j <= Text
      /\ before \in [Addrs -> Bytes]
  BY <1>1, <1>2 DEF Text, Copied, Bounded, Sound
<1>4. /\ Dest + Least(Length + 1, call.n) <= Top /\ Written(call, before) = Least(Length + 1, call.n)
      /\ Dest = call.dst
  BY <1>1, <1>2, RoomFacts
<1>5. /\ End' = End /\ Length' = Length /\ Dest' = Dest /\ Text' = Text
      /\ \A p : EndOf(p)' = EndOf(p)
      /\ \A d, n, size : Overlaid(d, n, size)' = Overlaid(d, n, size)
      /\ Bounded' = Bounded
  BY <1>1, SameCall, SameBounded
<1>6. ASSUME cx > 0
      PROVE  /\ call.n > 0 /\ cx = call.n - j /\ j <= Text /\ j < Least(Length + 1, call.n) /\ Dest + j < Top
             /\ si \in Addrs /\ di \in Addrs
             /\ mem[si] = IF j < Length THEN before[call.src + j] ELSE 0
             /\ j < Length => si = call.src + j /\ mem[si] # 0
  <2>1. call.n > 0 /\ j <= Text /\ cx = call.n - j
    BY <1>3, <1>6, SMT
  <2>2. j < Least(Length + 1, call.n) /\ Dest + j < Top
    BY <2>1, <1>2, <1>3, <1>4, <1>6, AddrFacts, SMT DEF Least
  <2> QED
    BY <2>1, <2>2, <1>1, <1>2, <1>4, ReadsTheSource
<1>7. CASE Room /\ mem[si] # 0 /\ CopyByte /\ Turn(1, 1) /\ UNCHANGED ret
  <2>1. /\ di' = di + 1 /\ si' = si + 1 /\ pc' = "loop" /\ cx' = cx - 1 /\ ret' = ret
        /\ mem' = [mem EXCEPT ![di] = mem[si]] /\ cx > 1
    BY <1>1, <1>7 DEF Turn, CopyByte, Room
  <2>2. cx > 0
    BY <2>1, <1>2, SMT
  <2>3. j < Length /\ si = call.src + j /\ j < Text
    BY <2>1, <2>2, <1>2, <1>3, <1>6, <1>7, SMT DEF Least
  <2>4. mem' = Overlaid(Dest, Text, j + 1) /\ mem' \in [Addrs -> Bytes]
    <3>1. mem[si] \in Bytes /\ mem[si] = IF j < Text THEN before[call.src + j] ELSE 0
      BY <2>2, <2>3, <1>2, <1>6
    <3> QED
      BY <3>1, <2>1, <2>2, <1>1, <1>2, <1>6, WritesNext
  <2>5. /\ j + 1 \in Nat /\ j + 1 >= 0 /\ di' = Dest + (j + 1) /\ j + 1 <= Text
        /\ cx' = call.n - (j + 1) /\ cx' >= 1 /\ call.n # 0
        /\ di' \in Int /\ si' \in Int /\ cx' \in Int
    BY <2>1, <2>2, <2>3, <1>2, <1>3, <1>6, SMT
  <2>6. si' = Least(call.src + (j + 1), End)
    BY <2>1, <2>3, <1>2, <1>3, SMT DEF Least
  <2>7. Copied(j + 1)'
    BY <2>4, <2>5, <2>6, <1>1, <1>5 DEF Copied
  <2>8. SType'
    BY <2>1, <2>4, <2>5, <1>1, <1>2, TypeKept
  <2> QED
    BY <2>1, <2>5, <2>7, <2>8, <1>1, <1>2, CopyGoesOn
<1>8. (EndOf(call.src) - call.src)' = Length
  BY <1>1, <1>5 DEF Length, End
<1>9. CASE More /\ ~(Room /\ mem[si] # 0) /\ mem' = [mem EXCEPT ![di] = 0] /\ Return(di - call.dst)
  <2>1. di' = di /\ si' = si /\ pc' = "done" /\ cx' = cx /\ ret' = di - call.dst
    BY <1>9 DEF Return, regs
  <2>2. cx > 0
    BY <1>1, <1>9 DEF More
  <2>3. j = Text
    <3>1. j >= Length \/ cx <= 1
      <4>1. ~(cx > 1) \/ mem[si] = 0
        BY <1>9 DEF Room
      <4>2. j < Length => mem[si] # 0
        BY <2>2, <1>6
      <4> QED
        BY <4>1, <4>2, <1>2, <1>3, SMT
    <3> QED
      BY <3>1, <2>2, <1>2, <1>3, <1>6, SMT DEF Least
  <2>4. mem' = Overlaid(Dest, Text, j + 1) /\ mem' \in [Addrs -> Bytes]
    <3>1. 0 = IF j < Text THEN before[call.src + j] ELSE 0
      BY <2>3, <1>2, SMT
    <3>2. 0 \in Bytes
      BY SMT DEF Bytes
    <3> QED
      BY <3>1, <3>2, <2>2, <1>1, <1>2, <1>6, <1>9, WritesNext
  <2>5. ret' = j /\ j \in Int
    BY <2>1, <1>2, <1>4, SMT
  <2>6. SType'
    BY <2>1, <2>4, <2>5, <1>1, <1>2, TypeKept
  <2>7. CopiesRight'
    <3>1. call.n # 0
      BY <2>2, <1>6, SMT
    <3> QED
      BY <3>1, <2>1, <2>3, <2>4, <2>5, <1>1, <1>3, <1>4, <1>5, <1>8 DEF CopiesRight, Returned
  <2> QED
    BY <2>1, <2>6, <2>7, <1>1, <1>2, CopyReturns
<1>10. CASE ~More /\ Return(0) /\ UNCHANGED mem
  <2>1. di' = di /\ si' = si /\ pc' = "done" /\ cx' = cx /\ ret' = 0 /\ mem' = mem
    BY <1>10 DEF Return, regs
  <2>2. call.n = 0 /\ j = 0
    BY <1>1, <1>2, <1>3, <1>10, SMT DEF More
  <2>3. mem = before
    BY <2>2, <1>2, <1>3, OverlaidNone
  <2>4. SType'
    <3>1. 0 \in Int
      BY SMT
    <3> QED
      BY <3>1, <2>1, <1>1, <1>2, TypeKept
  <2>5. CopiesRight'
    BY <2>1, <2>2, <2>3, <1>1, <1>8 DEF CopiesRight, Returned
  <2> QED
    BY <2>1, <2>4, <2>5, <1>1, <1>2, CopyReturns
<1> QED
  BY <1>7, <1>9, <1>10 DEF Strlcpy

-----------------------------------------------------------------------------
(* The comparisons *)

(* Texts that agree in their first k bytes are ordered by what comes next. *)
LEMMA FirstDifference ==
  ASSUME NEW la \in Nat, NEW lb \in Nat, NEW k \in Nat, NEW a, NEW b,
         DOMAIN a = 1 .. la, DOMAIN b = 1 .. lb,
         \A i \in 1 .. la : a[i] \in Int, \A i \in 1 .. lb : b[i] \in Int,
         k <= la, k <= lb, \A i \in 1 .. k : a[i] = b[i],
         k = la \/ k = lb \/ a[k + 1] # b[k + 1]
  PROVE  Less(a, b) <=> k < lb /\ (k = la \/ a[k + 1] < b[k + 1])
<1>1. ASSUME k < lb, k = la \/ a[k + 1] < b[k + 1] PROVE Less(a, b)
  <2>1. k + 1 \in DOMAIN b /\ (k + 1) - 1 = k
    BY <1>1, SMT
  <2>2. \A j \in 1 .. (k + 1) - 1 : j \in DOMAIN a /\ a[j] = b[j]
    BY <2>1, SMT
  <2>3. k + 1 \notin DOMAIN a \/ a[k + 1] < b[k + 1]
    BY <1>1, SMT
  <2> QED
    BY <2>1, <2>2, <2>3, Zenon DEF Less
<1>2. ASSUME Less(a, b) PROVE k < lb /\ (k = la \/ a[k + 1] < b[k + 1])
  <2>1. PICK i \in DOMAIN b : /\ \A j \in 1 .. i - 1 : j \in DOMAIN a /\ a[j] = b[j]
                              /\ (i \notin DOMAIN a \/ a[i] < b[i])
    BY <1>2 DEF Less
  <2>2. i \in 1 .. lb
    BY <2>1
  <2>3. ~(i <= k)
    BY <2>1, <2>2, SMT
  <2>4. CASE i = k + 1
    BY <2>1, <2>2, <2>4, SMT
  <2>5. CASE i # k + 1
    <3>1. k + 1 \in 1 .. i - 1 /\ k < lb
      BY <2>2, <2>3, <2>5, SMT
    <3>2. k + 1 \in 1 .. la /\ a[k + 1] = b[k + 1]
      BY <2>1, <3>1
    <3> QED
      BY <3>1, <3>2, SMT
  <2> QED
    BY <2>4, <2>5
<1> QED
  BY <1>1, <1>2

(* so the sign of the difference there tells their order *)
LEMMA OrderFound ==
  ASSUME NEW la \in Nat, NEW lb \in Nat, NEW k \in Nat,
         before \in [Addrs -> Bytes], call.src \in Int, call.dst \in Int,
         0 <= call.src, 0 <= call.dst, call.src + lb <= Top, call.dst + la <= Top,
         k <= la, k <= lb,
         \A i \in 0 .. k - 1 : before[call.dst + i] = before[call.src + i],
         NEW x \in Int, NEW y \in Int,
         x = IF k < la THEN before[call.dst + k] ELSE 0,
         y = IF k < lb THEN before[call.src + k] ELSE 0,
         k < la \/ k < lb => x # y,
         k = la => k = lb \/ y > 0, k = lb => k = la \/ x > 0,
         ret' = x - y, call' = call, before' = before
  PROVE  Orders(Block(call.dst, la), Block(call.src, lb))'
<1> DEFINE a == Block(call.dst, la)
           b == Block(call.src, lb)
<1>1. DOMAIN a = 1 .. la /\ DOMAIN b = 1 .. lb
  BY DEF Block
<1>2. \A i \in 1 .. la : a[i] = before[call.dst + i - 1] /\ call.dst + i - 1 \in Addrs
  BY AddrFacts, SMT DEF Block
<1>3. \A i \in 1 .. lb : b[i] = before[call.src + i - 1] /\ call.src + i - 1 \in Addrs
  BY AddrFacts, SMT DEF Block
<1>4. \A v \in Bytes : v \in Int
  BY SMT DEF Bytes
<1>5. (\A i \in 1 .. la : a[i] \in Int) /\ (\A i \in 1 .. lb : b[i] \in Int)
  BY <1>2, <1>3, <1>4
<1>6. ASSUME NEW i \in 1 .. k PROVE a[i] = b[i]
  <2>1. i \in Int /\ i - 1 \in 0 .. k - 1 /\ i \in 1 .. la /\ i \in 1 .. lb
    BY SMT
  <2>2. before[call.dst + (i - 1)] = before[call.src + (i - 1)]
    BY <2>1
  <2>3. call.dst + (i - 1) = call.dst + i - 1 /\ call.src + (i - 1) = call.src + i - 1
    BY <2>1, SMT
  <2> QED
    BY <2>1, <2>2, <2>3, <1>2, <1>3
<1>7. k < la => a[k + 1] = x
  <2>1. k < la => k + 1 \in 1 .. la /\ call.dst + (k + 1) - 1 = call.dst + k
    BY SMT
  <2> QED
    BY <2>1, <1>2
<1>8. k < lb => b[k + 1] = y
  <2>1. k < lb => k + 1 \in 1 .. lb /\ call.src + (k + 1) - 1 = call.src + k
    BY SMT
  <2> QED
    BY <2>1, <1>3
<1> HIDE DEF a, b
<1>9. k = la \/ k = lb \/ a[k + 1] # b[k + 1]
  BY <1>7, <1>8, SMT
<1>10. Less(a, b) <=> k < lb /\ (k = la \/ a[k + 1] < b[k + 1])
  BY <1>1, <1>5, <1>6, <1>9, FirstDifference
<1>11. Less(b, a) <=> k < la /\ (k = lb \/ b[k + 1] < a[k + 1])
  <2>1. \A i \in 1 .. k : b[i] = a[i]
    BY <1>6
  <2> QED
    BY <2>1, <1>1, <1>5, <1>9, FirstDifference
<1>12. ret' < 0 <=> Less(a, b)
  BY <1>7, <1>8, <1>10, SMT
<1>13. ret' > 0 <=> Less(b, a)
  BY <1>7, <1>8, <1>11, SMT
<1>14. (Block(call.dst, la))' = a /\ (Block(call.src, lb))' = b
  BY SameCall DEF a, b
<1> QED
  BY <1>14, <1>12, <1>13 DEF Orders

(* The lengths of the two texts that are compared *)
TextLength(p) ==
  IF call.fn = "memcmp" THEN call.n
  ELSE IF call.fn = "strncmp" THEN Least(call.n, EndOf(p) - p) ELSE EndOf(p) - p

LEMMA ComparesTexts ==
  ASSUME call.fn \in Comparing, call' = call, before' = before, pc' = "done",
         NEW la, NEW lb, la = TextLength(call.dst), lb = TextLength(call.src),
         Orders(Block(call.dst, la), Block(call.src, lb))'
  PROVE  Comparisons'
<1>1. \A p : TextLength(p)' = TextLength(p)
  BY SameCall DEF TextLength
<1> QED
  BY <1>1 DEF Comparing, Comparisons, Returned, TextLength, Chars, FirstChars

LEMMA Compares == SInv /\ Compare => SInv'
<1> SUFFICES ASSUME SInv, Compare PROVE SInv'
  OBVIOUS
<1>1. /\ call.fn \in Comparing /\ call.fn \in StringFns /\ pc = "loop"
      /\ call' = call /\ before' = before /\ mem' = mem
  BY DEF Compare, Loop, Turn, Return, StringFns
<1>2. /\ SType /\ Sound /\ Compared(di - call.dst) /\ mem = before
  <2>1. call.fn \notin Copying
    BY <1>1 DEF Comparing, Copying
  <2> QED
    BY <2>1, <1>1, SoundFacts DEF SInv, SType
<1>3. /\ call.src \in Int /\ 0 <= call.src /\ call.src <= End /\ End <= Top /\ call.n \in Nat /\ End \in Int
      /\ Top \in Nat
      /\ di \in Int /\ si \in Int /\ cx \in Int /\ ret \in Int
      /\ mem \in [Addrs -> Bytes] /\ before \in [Addrs -> Bytes]
  BY <1>2, AddrFacts DEF Sound, SType
<1>4. /\ call.dst \in Int /\ 0 <= call.dst /\ call.dst < Top
      /\ call.fn = "memcmp" => call.dst + call.n <= Top /\ call.src + call.n <= Top
      /\ call.fn # "memcmp" =>
           /\ EndOf(call.dst) < Top \/ (call.fn \in Sized /\ call.dst + call.n <= Top)
           /\ EndOf(call.src) < Top \/ (call.fn \in Sized /\ call.src + call.n <= Top)
      /\ EndOf(call.dst) \in Int /\ call.dst <= EndOf(call.dst) /\ EndOf(call.dst) <= Top
      /\ \A x \in Int : call.dst <= x /\ x < EndOf(call.dst) => before[x] # 0
      /\ EndOf(call.dst) < Top => before[EndOf(call.dst)] = 0
  BY <1>1, <1>2, ComparedFacts, AddrFacts DEF Sound, End, Comparing
<1>14. PICK k : k = di - call.dst
  OBVIOUS
<1>15. PICK x : x = before[di]
  OBVIOUS
<1>16. PICK y : y = before[si]
  OBVIOUS
<1>17. PICK la : la = TextLength(call.dst)
  OBVIOUS
<1>18. PICK lb : lb = TextLength(call.src)
  OBVIOUS
<1>5. /\ k \in Nat /\ di = call.dst + k /\ si = call.src + k
      /\ \A j \in 0 .. k - 1 : before[call.dst + j] = before[call.src + j]
      /\ call.fn # "memcmp" => di <= EndOf(call.dst) /\ si <= End
      /\ call.fn \in Sized => cx = call.n - k /\ cx >= 0
  <2>1. Compared(k)
    BY <1>2, <1>14
  <2> QED
    BY <2>1, <1>3, <1>4, <1>14, SMT DEF Compared
<1>6. call.fn \in {"strncmp", "memcmp"} <=> call.fn \in Sized
  BY <1>1 DEF Comparing, Sized
<1>7. /\ la \in Nat /\ lb \in Nat /\ k <= la /\ k <= lb
      /\ call.dst + la <= Top /\ call.src + lb <= Top
      /\ call.fn # "memcmp" => la <= EndOf(call.dst) - call.dst /\ lb <= End - call.src
      /\ call.fn \in Sized => la <= call.n /\ lb <= call.n
  <2>1. CASE call.fn = "memcmp"
    <3>1. la = call.n /\ lb = call.n
      BY <2>1, <1>17, <1>18 DEF TextLength
    <3> QED
      BY <2>1, <3>1, <1>3, <1>4, <1>5, <1>6, SMT
  <2>2. CASE call.fn = "strncmp"
    <3>1. la = Least(call.n, EndOf(call.dst) - call.dst) /\ lb = Least(call.n, End - call.src)
      BY <2>2, <1>17, <1>18 DEF TextLength, End
    <3>2. di <= EndOf(call.dst) /\ si <= End /\ cx = call.n - k /\ cx >= 0
      BY <2>2, <1>5, <1>6
    <3> QED
      BY <3>1, <3>2, <1>3, <1>4, <1>5, SMT DEF Least
  <2>3. CASE call.fn = "strcmp"
    <3>1. la = EndOf(call.dst) - call.dst /\ lb = End - call.src /\ call.fn \notin Sized
      BY <2>3, <1>17, <1>18 DEF TextLength, End, Sized
    <3> QED
      BY <2>3, <3>1, <1>3, <1>4, <1>5, SMT
  <2> QED
    BY <2>1, <2>2, <2>3, <1>1 DEF Comparing
(* as long as there is more to compare, a text is at its end where its 0 is *)
<1>8. ASSUME More
      PROVE  /\ di \in Addrs /\ si \in Addrs
             /\ call.fn = "memcmp" => k < la /\ k < lb
             /\ call.fn # "memcmp" => (k < la <=> x # 0) /\ (k < lb <=> y # 0)
  <2>1. call.fn \in Sized => k < call.n
    BY <1>3, <1>5, <1>8, SMT DEF More
  <2>2. CASE call.fn = "memcmp"
    <3>1. k < call.n /\ call.dst + call.n <= Top /\ call.src + call.n <= Top
      BY <2>1, <2>2, <1>4 DEF Sized
    <3>2. la = call.n /\ lb = call.n
      BY <2>2, <1>17, <1>18 DEF TextLength
    <3> QED
      BY <2>2, <3>1, <3>2, <1>3, <1>4, <1>5, AddrFacts, SMT
  <2>3. CASE call.fn # "memcmp"
    <3>1. EndOf(call.dst) < Top \/ (k < call.n /\ call.dst + call.n <= Top)
      BY <2>1, <2>3, <1>4
    <3>2. EndOf(call.src) < Top \/ (k < call.n /\ call.src + call.n <= Top)
      BY <2>1, <2>3, <1>4
    <3>3. di <= EndOf(call.dst) /\ si <= End /\ End = EndOf(call.src)
      BY <2>3, <1>5 DEF End
    <3>4. di < Top /\ si < Top
      BY <3>1, <3>2, <3>3, <1>3, <1>4, <1>5, SMT
    <3>5. x # 0 <=> di < EndOf(call.dst)
      BY <3>3, <3>4, <1>3, <1>4, <1>5, <1>15, SMT
    <3>6. y # 0 <=> si < End
      BY <3>3, <3>4, <1>2, <1>3, <1>5, <1>16, SMT DEF Sound
    <3>7. (k < la <=> di < EndOf(call.dst)) /\ (k < lb <=> si < End)
      <4>1. CASE call.fn = "strncmp"
        <5>1. k < call.n
          BY <2>1, <4>1 DEF Sized
        <5>2. la = Least(call.n, EndOf(call.dst) - call.dst) /\ lb = Least(call.n, End - call.src)
          BY <4>1, <1>17, <1>18 DEF TextLength, End
        <5> QED
          BY <5>1, <5>2, <1>3, <1>4, <1>5, SMT DEF Least
      <4>2. CASE call.fn = "strcmp"
        <5>1. la = EndOf(call.dst) - call.dst /\ lb = End - call.src
          BY <4>2, <1>17, <1>18 DEF TextLength, End
        <5> QED
          BY <5>1, <1>3, <1>4, <1>5, SMT
      <4> QED
        BY <4>1, <4>2, <2>3, <1>1 DEF Comparing
    <3>8. di \in Addrs /\ si \in Addrs
      BY <3>4, <1>3, <1>4, <1>5, AddrFacts, SMT
    <3> QED
      BY <2>3, <3>5, <3>6, <3>7, <3>8
  <2> QED
    BY <2>2, <2>3
<1>9. call.fn \notin Copying \cup Finding \cup {"strlen", "strnlen"} /\ call.fn # "strtol"
  BY <1>1 DEF Comparing, Finding, Copying
<1>10. CASE More /\ Alike /\ Turn(1, 1) /\ UNCHANGED ret
  <2>1. /\ di' = di + 1 /\ si' = si + 1 /\ pc' = "loop" /\ ret' = ret
        /\ cx' = IF call.fn \in Sized THEN cx - 1 ELSE cx
        /\ x = y /\ (call.fn # "memcmp" => x # 0)
    BY <1>1, <1>2, <1>10, <1>15, <1>16 DEF Turn, Alike
  <2>2. /\ k + 1 \in Nat /\ k + 1 >= 0 /\ di' = call.dst + (k + 1) /\ si' = call.src + (k + 1)
        /\ di' \in Int /\ si' \in Int /\ cx' \in Int /\ (di - call.dst)' = k + 1
    BY <2>1, <1>1, <1>3, <1>4, <1>5, SMT
  <2>3. ASSUME NEW j \in 0 .. (k + 1) - 1 PROVE before[call.dst + j] = before[call.src + j]
    <3>1. j \in 0 .. k - 1 \/ j = k
      BY <1>5, SMT
    <3> QED
      BY <3>1, <2>1, <1>5, <1>15, <1>16
  <2>4. call.fn # "memcmp" => di' <= EndOf(call.dst) /\ si' <= End
    <3> SUFFICES ASSUME call.fn # "memcmp" PROVE di' <= EndOf(call.dst) /\ si' <= End
      OBVIOUS
    <3>1. k < la /\ k < lb
      BY <2>1, <1>8, <1>10
    <3>2. la <= EndOf(call.dst) - call.dst /\ lb <= End - call.src
      BY <1>7
    <3> QED
      BY <3>1, <3>2, <2>1, <1>3, <1>4, <1>5, <1>7, SMT
  <2>5. call.fn \in Sized => cx' = call.n - (k + 1) /\ cx' >= 0
    BY <2>1, <1>3, <1>5, <1>10, SMT DEF More
  <2>6. Compared(k + 1)'
    <3>1. EndOf(call.dst)' = EndOf(call.dst) /\ End' = End
      BY <1>1, SameCall
    <3> QED
      BY <3>1, <2>2, <2>3, <2>4, <2>5, <1>1 DEF Compared
  <2>7. Compared(di - call.dst)'
    BY <2>2, <2>6 DEF Compared
  <2>8. SType'
    BY <2>1, <2>2, <1>1, <1>2, <1>3, TypeKept
  <2> QED
    BY <2>1, <2>7, <2>8, <1>1, <1>9 DEF SInv
(* it returns *)
<1>11. ASSUME NEW v, Return(v), v \in Int, Orders(Block(call.dst, la), Block(call.src, lb))'
       PROVE  SInv'
  <2>1. di' = di /\ si' = si /\ pc' = "done" /\ cx' = cx /\ ret' = v
    BY <1>11 DEF Return, regs
  <2>2. SType'
    BY <2>1, <1>1, <1>2, <1>3, <1>11, TypeKept
  <2>3. Comparisons'
    BY <2>1, <1>1, <1>11, <1>17, <1>18, ComparesTexts
  <2>4. AllRight'
    BY <2>3, <1>1, <1>9, OtherCalls DEF AllRight, ReadersRight
  <2> QED
    BY <2>1, <2>2, <2>4 DEF SInv
<1>19. /\ la \in Nat /\ lb \in Nat /\ k \in Nat
       /\ before \in [Addrs -> Bytes] /\ call.src \in Int /\ call.dst \in Int
       /\ 0 <= call.src /\ 0 <= call.dst /\ call.src + lb <= Top /\ call.dst + la <= Top
       /\ k <= la /\ k <= lb
       /\ \A i \in 0 .. k - 1 : before[call.dst + i] = before[call.src + i]
  BY <1>3, <1>4, <1>5, <1>7
<1>12. CASE More /\ ~Alike /\ Return(Difference)
  <2>1. x \in Int /\ y \in Int /\ x >= 0 /\ y >= 0
    BY <1>3, <1>8, <1>12, <1>15, <1>16, SMT DEF Bytes
  <2>2. ret' = x - y /\ (x # y \/ (x = 0 /\ y = 0 /\ call.fn # "memcmp"))
    BY <1>2, <1>12, <1>15, <1>16, SMT DEF Return, Difference, Alike
  <2>3. /\ x = IF k < la THEN before[call.dst + k] ELSE 0
        /\ y = IF k < lb THEN before[call.src + k] ELSE 0
    BY <2>1, <1>5, <1>8, <1>12, <1>15, <1>16
  <2>4. k < la \/ k < lb => x # y
    BY <2>2, <1>8, <1>12
  <2>5. k = la => k = lb \/ y > 0
    BY <2>1, <1>5, <1>7, <1>8, <1>12, SMT
  <2>6. k = lb => k = la \/ x > 0
    BY <2>1, <1>5, <1>7, <1>8, <1>12, SMT
  <2>7. Return(x - y) /\ x - y \in Int
    BY <2>1, <1>2, <1>12, <1>15, <1>16, SMT DEF Difference
  <2>8. Orders(Block(call.dst, la), Block(call.src, lb))'
    <3>1. ret' = x - y /\ x \in Int /\ y \in Int
      BY <2>1, <2>2
    <3> QED
      BY <3>1, <2>3, <2>4, <2>5, <2>6, <1>1, <1>19, OrderFound, SMTT(60)
  <2> QED
    BY <2>7, <2>8, <1>11
<1>13. CASE ~More /\ Return(0)
  <2>1. call.fn \in Sized /\ k = call.n
    BY <1>3, <1>5, <1>13, SMT DEF More
  <2>2. la = k /\ lb = k
    <3>1. la <= call.n /\ lb <= call.n
      BY <2>1, <1>7
    <3> QED
      BY <3>1, <2>1, <1>3, <1>5, <1>7, SMT
  <2>3. ret' = 0
    BY <1>13 DEF Return
  <2> DEFINE z == 0
  <2>4. /\ z \in Int /\ ret' = z - z /\ ~(k < la) /\ ~(k < lb)
    BY <2>2, <2>3, <1>5, SMT
  <2>5. /\ z = IF k < la THEN before[call.dst + k] ELSE 0
        /\ z = IF k < lb THEN before[call.src + k] ELSE 0
    BY <2>4
  <2> HIDE DEF z
  <2>8. Orders(Block(call.dst, la), Block(call.src, lb))'
    BY <2>2, <2>4, <2>5, <1>1, <1>19, OrderFound
  <2>9. 0 \in Int
    BY SMT
  <2> QED
    BY <2>8, <2>9, <1>11, <1>13
<1> QED
  BY <1>10, <1>12, <1>13 DEF Compare

-----------------------------------------------------------------------------
(* The searches *)

(* The first occurrence, and none *)
LEMMA FirstFound ==
  ASSUME NEW c, NEW n \in Int, NEW none, NEW a \in Int, call.src \in Int,
         call.src <= a, \A o \in call.src .. a - 1 : before[o] # c
  PROVE  /\ a < call.src + n /\ before[a] = c => FirstOr(c, n, none) = a
         /\ call.src + n <= a => FirstOr(c, n, none) = none
<1> DEFINE found == {o \in call.src .. call.src + n - 1 : before[o] = c}
<1>1. ASSUME a < call.src + n, before[a] = c PROVE FirstOr(c, n, none) = a
  <2>1. a \in found
    BY <1>1, SMT
  <2>2. \A o \in found : a <= o
    BY SMT
  <2>3. \A o \in found : (\A other \in found : o <= other) => o = a
    BY <2>1, <2>2, SMT
  <2>4. FirstOr(c, n, none) = CHOOSE o \in found : \A other \in found : o <= other
    BY <2>1, Zenon DEF FirstOr
  <2> HIDE DEF found
  <2> QED
    BY <2>1, <2>2, <2>3, <2>4, Zenon
<1>2. ASSUME call.src + n <= a PROVE FirstOr(c, n, none) = none
  <2>1. found = {}
    BY <1>2, SMT
  <2> QED
    BY <2>1, Zenon DEF FirstOr
<1> QED
  BY <1>1, <1>2

LEMMA SearchFacts ==
  ASSUME SInv, pc = "loop", call.fn \in Finding
  PROVE  /\ call.fn \in StringFns /\ call.fn \notin Copying \cup Comparing \cup Sized \cup {"strlen", "strnlen", "strtol"}
         /\ SType /\ Sound /\ Searching /\ mem = before
         /\ call.src \in Int /\ call.n \in Nat /\ End \in Int /\ Length = End - call.src /\ Length \in Int
         /\ di \in Int /\ si \in Int /\ cx \in Int /\ ret \in Int /\ mem \in [Addrs -> Bytes]
<1>1. call.fn \in StringFns /\ call.fn \notin Copying \cup Comparing \cup Sized \cup {"strlen", "strnlen", "strtol"}
  BY DEF StringFns, Finding, Copying, Comparing, Sized
<1>2. SType /\ Searching /\ mem = before
  BY <1>1 DEF SInv, SType
<1>3. Sound
  BY <1>1, <1>2, SoundFacts
<1>4. /\ call.src \in Int /\ call.n \in Nat /\ End \in Int /\ Length = End - call.src /\ Length \in Int
  BY <1>3, AddrFacts, SMT DEF Sound, Length
<1> QED
  BY <1>1, <1>2, <1>3, <1>4 DEF SType

LEMMA SearchReturns ==
  ASSUME SInv, pc = "loop", call.fn \in Finding, call' = call, before' = before, mem' = mem,
         NEW value \in Int, Return(value), Occurrences'
  PROVE  SInv'
<1>1. di' = di /\ si' = si /\ pc' = "done" /\ cx' = cx /\ ret' = value
  BY DEF Return, regs
<1>2. SType'
  BY <1>1, SearchFacts, TypeKept
<1>3. AllRight'
  BY OtherCalls, SearchFacts DEF AllRight, ReadersRight
<1> QED
  BY <1>1, <1>2, <1>3 DEF SInv

LEMMA SearchGoesOn ==
  ASSUME SInv, pc = "loop", call.fn \in Finding, call' = call, before' = before, mem' = mem,
         UNCHANGED ret, Turn(0, 1), Searching'
  PROVE  SInv'
<1>1. di' = di + 0 /\ si' = si + 1 /\ pc' = pc /\ cx' = cx /\ ret' = ret
  BY SearchFacts DEF Turn
<1>2. di' \in Int /\ si' \in Int
  BY <1>1, SearchFacts, SMT
<1>3. SType'
  BY <1>1, <1>2, SearchFacts, TypeKept
<1> QED
  BY <1>1, <1>3, SearchFacts DEF SInv

LEMMA Finds == SInv /\ Find => SInv'
<1> SUFFICES ASSUME SInv, Find PROVE SInv'
  OBVIOUS
<1>1. /\ call.fn \in {"strchr", "strfind"} /\ call.fn \in Finding /\ pc = "loop"
      /\ call' = call /\ before' = before /\ mem' = mem
  BY DEF Find, Loop, Turn, Return, Finding
<1>2. /\ call.fn \notin Sized
      /\ SType /\ Sound /\ Searching /\ mem = before
      /\ call.src \in Int /\ End \in Int /\ Length = End - call.src /\ Length \in Int
      /\ si \in Int
  BY <1>1, SearchFacts
<1>3. Searched(call.c) /\ si <= End /\ call.src <= si
  BY <1>1, <1>2 DEF Searching, Searched
<1>4. End < Top /\ before[End] = 0 /\ call.src + Length = End
  BY <1>1, <1>2, SMT DEF Sound
<1>5. \A none : /\ si < End /\ before[si] = call.c => FirstOr(call.c, Length, none) = si
                /\ End <= si => FirstOr(call.c, Length, none) = none
  <2>1. \A none : /\ si < call.src + Length /\ before[si] = call.c => FirstOr(call.c, Length, none) = si
                  /\ call.src + Length <= si => FirstOr(call.c, Length, none) = none
    <3>1. \A o \in call.src .. si - 1 : before[o] # call.c
      BY <1>3 DEF Searched
    <3>2. call.src \in Int /\ Length \in Int /\ si \in Int /\ call.src <= si
      BY <1>2, <1>3
    <3> QED
      BY <3>1, <3>2, FirstFound
  <2>2. /\ si < End => si < call.src + Length
        /\ End <= si => call.src + Length <= si
    BY <1>4
  <2> QED
    BY <2>1, <2>2, Zenon
<1>6. /\ End' = End /\ (EndOf(call.src) - call.src)' = Length /\ EndOf(call.src)' = End
      /\ \A c, n, none : FirstOr(c, n, none)' = FirstOr(c, n, none)
  BY <1>1, SameCall DEF Length, End
<1>7. mem[si] # 0 => si < End
  <2>1. mem[End] = 0
    BY <1>2, <1>4
  <2>2. mem[si] # 0 => si # End
    BY <2>1
  <2> QED
    BY <2>2, <1>2, <1>3, SMT
<1>8. CASE mem[si] # 0 /\ mem[si] # call.c /\ Turn(0, 1) /\ UNCHANGED ret
  <2>1. si' = si + 1 /\ si' <= End
    BY <1>2, <1>7, <1>8, SMT DEF Turn
  <2>2. \A a \in call.src .. si' - 1 : a \in call.src .. si - 1 \/ a = si
    BY <2>1, <1>2, SMT
  <2>3. \A a \in call.src .. si' - 1 : before[a] # call.c
    BY <2>2, <1>2, <1>3, <1>8 DEF Searched
  <2>4. call.src <= si'
    BY <2>1, <1>2, <1>3, SMT
  <2>5. Searching'
    BY <2>1, <2>3, <2>4, <1>1, <1>6 DEF Searching, Searched
  <2> QED
    BY <2>5, <1>1, <1>8, SearchGoesOn
<1>9. CASE mem[si] # 0 /\ mem[si] = call.c /\ Return(si)
  <2>1. ret' = si
    BY <1>9 DEF Return
  <2>2. Occurrences'
    BY <2>1, <1>1, <1>2, <1>5, <1>6, <1>7, <1>9 DEF Occurrences, Returned
  <2> QED
    BY <2>2, <1>1, <1>2, <1>9, SearchReturns
<1>10. CASE mem[si] = 0 /\ Return(IF call.fn = "strchr" THEN NULL ELSE si)
  <2>1. si = End
    BY <1>2, <1>3, <1>10, SMT DEF Sound
  <2>2. ret' = IF call.fn = "strchr" THEN NULL ELSE End
    BY <2>1, <1>10 DEF Return
  <2>3. \A none : FirstOr(call.c, Length, none) = none
    BY <2>1, <1>2, <1>5, SMT
  <2>4. Occurrences'
    BY <2>2, <2>3, <1>1, <1>6 DEF Occurrences, Returned
  <2>5. (IF call.fn = "strchr" THEN NULL ELSE si) \in Int
    BY <1>2, SMT DEF NULL
  <2> QED
    BY <2>4, <2>5, <1>1, <1>10, SearchReturns
<1> QED
  BY <1>8, <1>9, <1>10 DEF Find

LEMMA FindsInMemory == SInv /\ Memfind => SInv'
<1> SUFFICES ASSUME SInv, Memfind PROVE SInv'
  OBVIOUS
<1>1. /\ call.fn = "memfind" /\ call.fn \in Finding /\ pc = "loop"
      /\ call' = call /\ before' = before /\ mem' = mem
  BY DEF Memfind, Loop, Turn, Return, Finding
<1>2. /\ SType /\ Searching /\ mem = before
      /\ call.src \in Int /\ call.n \in Nat /\ call.n \in Int /\ si \in Int
  BY <1>1, SearchFacts, SMT
<1>3. Searched(call.c % 256) /\ si <= call.src + call.n /\ call.src <= si
  BY <1>1, <1>2 DEF Searching, Searched
<1>4. \A none :
        /\ si < call.src + call.n /\ before[si] = call.c % 256 => FirstOr(call.c % 256, call.n, none) = si
        /\ call.src + call.n <= si => FirstOr(call.c % 256, call.n, none) = none
  <2>1. \A o \in call.src .. si - 1 : before[o] # call.c % 256
    BY <1>3 DEF Searched
  <2>2. call.src \in Int /\ call.n \in Int /\ si \in Int /\ call.src <= si
    BY <1>2, <1>3
  <2> QED
    BY <2>1, <2>2, FirstFound
<1>5. \A c, n, none : FirstOr(c, n, none)' = FirstOr(c, n, none)
  BY <1>1, SameCall
<1>6. CASE si < call.src + call.n /\ mem[si] # call.c % 256 /\ Turn(0, 1) /\ UNCHANGED ret
  <2>1. si' = si + 1 /\ si' <= call.src + call.n
    BY <1>2, <1>6, SMT DEF Turn
  <2>2. \A a \in call.src .. si' - 1 : a \in call.src .. si - 1 \/ a = si
    BY <2>1, <1>2, SMT
  <2>3. \A a \in call.src .. si' - 1 : before[a] # call.c % 256
    BY <2>2, <1>2, <1>3, <1>6 DEF Searched
  <2>4. call.src <= si'
    BY <2>1, <1>2, <1>3, SMT
  <2>5. Searching'
    BY <2>1, <2>3, <2>4, <1>1 DEF Searching, Searched
  <2> QED
    BY <2>5, <1>1, <1>6, SearchGoesOn
<1>7. CASE ~(si < call.src + call.n /\ mem[si] # call.c % 256) /\ Return(si)
  <2>1. ret' = si
    BY <1>7 DEF Return
  <2>2. FirstOr(call.c % 256, call.n, call.src + call.n) = si
    <3>1. CASE si < call.src + call.n
      BY <3>1, <1>2, <1>4, <1>7
    <3>2. CASE ~(si < call.src + call.n)
      <4>1. call.src + call.n <= si /\ si = call.src + call.n
        BY <3>2, <1>2, <1>3, SMT
      <4> QED
        BY <4>1, <1>4
    <3> QED
      BY <3>1, <3>2
  <2>3. Occurrences'
    <3>1. (FirstOr(call.c % 256, call.n, call.src + call.n))' = FirstOr(call.c % 256, call.n, call.src + call.n)
      BY <1>1 DEF FirstOr
    <3> QED
      BY <3>1, <2>1, <2>2, <1>1 DEF Occurrences, Returned
  <2> QED
    BY <2>3, <1>1, <1>2, <1>7, SearchReturns
<1> QED
  BY <1>6, <1>7 DEF Memfind

-----------------------------------------------------------------------------
(* strtol *)

LEMMA NumberFacts ==
  ASSUME SInv, pc \in {"blanks", "sign", "prefix", "digits"}, call.fn \in StringFns
  PROVE  /\ call.fn = "strtol" /\ call.fn \notin Copying
         /\ SType /\ Sound /\ mem = before
         /\ call.src \in Int /\ 0 <= call.src /\ call.n \in Nat /\ call.n <= 36
         /\ End \in Int /\ call.src <= End /\ End < Top /\ before[End] = 0 /\ Top \in Nat
         /\ \A a \in Int : call.src <= a /\ a <= End => a \in Addrs /\ (before[a] # 0 => a < End)
         /\ di \in Int /\ si \in Int /\ cx \in Int /\ ret \in Int /\ mem \in [Addrs -> Bytes]
<1>1. call.fn = "strtol" /\ call.fn \notin Copying /\ call.fn \notin Sized /\ SType /\ mem = before
  BY DEF SInv, SType, Copying, Sized
<1>2. Sound
  BY <1>1, SoundFacts
<1>3. call.src \in Int /\ 0 <= call.src /\ call.n \in Nat /\ End \in Int /\ call.src <= End /\ Top \in Nat
  BY <1>2, AddrFacts DEF Sound
<1>4. call.n <= 36
  <2>1. call.n \in {0} \cup 2 .. 36
    BY <1>1 DEF SType, Callable
  <2> QED
    BY <2>1, SMT
<1>5. End < Top /\ End \in Addrs /\ before[End] = 0
  BY <1>1, <1>2 DEF Sound
<1>6. \A a \in Int : call.src <= a /\ a <= End => a \in Addrs /\ (before[a] # 0 => a < End)
  <2> SUFFICES ASSUME NEW a \in Int, call.src <= a, a <= End PROVE a \in Addrs /\ (before[a] # 0 => a < End)
    OBVIOUS
  <2>1. CASE a = End
    BY <2>1, <1>5
  <2>2. CASE a # End
    <3>1. a < End
      BY <2>2, <1>3, SMT
    <3> QED
      BY <3>1, <1>2 DEF Sound
  <2> QED
    BY <2>1, <2>2
<1> QED
  BY <1>1, <1>2, <1>3, <1>4, <1>5, <1>6 DEF SType

LEMMA SkipsBlanks == SInv /\ call.fn \in StringFns /\ SkipBlanks => SInv'
<1> SUFFICES ASSUME SInv, call.fn \in StringFns, SkipBlanks PROVE SInv'
  OBVIOUS
<1>1. /\ pc = "blanks" /\ call' = call /\ before' = before /\ mem' = mem
      /\ di' = di /\ cx' = cx /\ ret' = ret
  BY DEF SkipBlanks
<1>2. /\ call.fn = "strtol" /\ SType /\ mem = before
      /\ call.src \in Int /\ End \in Int /\ before[End] = 0
      /\ \A a \in Int : call.src <= a /\ a <= End => a \in Addrs /\ (before[a] # 0 => a < End)
      /\ di \in Int /\ si \in Int /\ cx \in Int /\ ret \in Int /\ mem \in [Addrs -> Bytes]
  BY <1>1, NumberFacts
<1>3. AfterBlanks(si) /\ ret = 0 /\ cx = call.n
  BY <1>1 DEF SInv
<1>4. call.src <= si /\ si <= End /\ \A a \in call.src .. si - 1 : before[a] \in Blanks
  BY <1>3 DEF AfterBlanks
<1>5. End' = End
  BY <1>1, SameCall
<1>6. CASE mem[si] \in Blanks /\ si' = si + 1 /\ UNCHANGED pc
  <2>1. si < End
    <3>1. before[si] # 0
      BY <1>2, <1>6, SMT DEF Blanks
    <3> QED
      BY <3>1, <1>2, <1>4
  <2>2. si' \in Int /\ call.src <= si' /\ si' <= End
    BY <2>1, <1>2, <1>4, <1>6, SMT
  <2>3. \A a \in call.src .. si' - 1 : a \in call.src .. si - 1 \/ a = si
    BY <1>2, <1>6, SMT
  <2>4. \A a \in call.src .. si' - 1 : before[a] \in Blanks
    BY <2>3, <1>2, <1>4, <1>6
  <2>5. AfterBlanks(si)'
    BY <2>2, <2>4, <1>1, <1>5 DEF AfterBlanks
  <2>6. SType'
    BY <2>2, <1>1, <1>2, <1>6, TypeKept
  <2> QED
    BY <2>5, <2>6, <1>1, <1>2, <1>3, <1>6 DEF SInv
<1>7. CASE mem[si] \notin Blanks /\ pc' = "sign" /\ UNCHANGED si
  <2>1. AfterBlanks(si)'
    BY <1>1, <1>4, <1>5, <1>7 DEF AfterBlanks
  <2>2. SType'
    BY <1>1, <1>2, <1>7 DEF SType
  <2> QED
    BY <2>1, <2>2, <1>1, <1>2, <1>3, <1>7 DEF SInv
<1> QED
  BY <1>6, <1>7 DEF SkipBlanks

LEMMA ReadsSign == SInv /\ call.fn \in StringFns /\ Sign => SInv'
<1> SUFFICES ASSUME SInv, call.fn \in StringFns, Sign PROVE SInv'
  OBVIOUS
<1>1. /\ pc = "sign" /\ call' = call /\ before' = before /\ mem' = mem
      /\ cx' = cx /\ ret' = ret /\ pc' = "prefix"
      /\ si' = IF mem[si] \in {43, 45} THEN si + 1 ELSE si
      /\ di' = IF mem[si] = 45 THEN -1 ELSE 1
  BY DEF Sign
<1>2. /\ call.fn = "strtol" /\ SType /\ mem = before
      /\ call.src \in Int /\ 0 <= call.src /\ End \in Int /\ End < Top /\ Top \in Nat
      /\ \A a \in Int : call.src <= a /\ a <= End => a \in Addrs /\ (before[a] # 0 => a < End)
      /\ di \in Int /\ si \in Int /\ cx \in Int /\ ret \in Int /\ mem \in [Addrs -> Bytes]
  BY <1>1, NumberFacts
<1>3. AfterBlanks(si) /\ ret = 0 /\ cx = call.n /\ before[si] \notin Blanks
  BY <1>1 DEF SInv
<1>4. PICK blanks : blanks = si - call.src
  OBVIOUS
<1>5. PICK signs : signs = IF before[si] \in {43, 45} THEN 1 ELSE 0
  OBVIOUS
<1>6. call.src <= si /\ si <= End
  BY <1>3 DEF AfterBlanks
<1>7. /\ blanks \in 0 .. Top - 1 /\ signs \in 0 .. 1
      /\ call.src + blanks = si /\ si' = call.src + blanks + signs
      /\ di' = SignAt(si) /\ si' \in Int /\ di' \in Int
  BY <1>1, <1>2, <1>4, <1>5, <1>6, SMT DEF SignAt
<1>8. si' <= End
  <2>1. before[si] \in {43, 45} => si < End
    BY <1>2, <1>6, SMT
  <2> QED
    BY <2>1, <1>1, <1>2, <1>6, SMT
<1>9. End' = End /\ \A p : SignAt(p)' = SignAt(p)
  BY <1>1, SameCall
<1>10. Reading(blanks, signs)'
  <2>1. (signs = 1) <=> (before[si] \in {43, 45})
    BY <1>5, SMT
  <2>2. AfterBlanks(call.src + blanks)'
    BY <1>1, <1>3, <1>7, <1>9 DEF AfterBlanks
  <2>3. SignAt(call.src + blanks)' = SignAt(si)
    BY <1>1, <1>7 DEF SignAt
  <2>4. Header(blanks, signs)'
    BY <2>1, <2>2, <2>3, <1>1, <1>3, <1>7 DEF Header
  <2> QED
    BY <2>4, <1>1, <1>3, <1>7, <1>8, <1>9 DEF Reading
<1>11. SType'
  BY <1>1, <1>2, <1>7 DEF SType
<1>12. (\E bs \in 0 .. Top - 1, ss \in 0 .. 1 : Reading(bs, ss))'
  BY <1>7, <1>10, Zenon
<1> QED
  BY <1>1, <1>2, <1>11, <1>12 DEF SInv

LEMMA ReadingGoesOn ==
  ASSUME SInv, pc \in {"prefix", "digits"}, call.fn \in StringFns, call' = call, before' = before, mem' = mem,
         pc' = "digits", di' = di, si' \in Int, si' <= End, cx' \in Int, ret' \in Int,
         NEW blanks \in 0 .. Top - 1, NEW signs \in 0 .. 1,
         Header(blanks, signs), InNumber(call.src + blanks + signs)'
  PROVE  SInv'
<1>1. /\ call.fn = "strtol" /\ SType /\ di \in Int /\ mem \in [Addrs -> Bytes]
  BY NumberFacts
<1>2. End' = End /\ \A p : SignAt(p)' = SignAt(p)
  BY SameCall
<1>3. Reading(blanks, signs)'
  <2>1. SignAt(call.src + blanks)' = SignAt(call.src + blanks)
    BY DEF SignAt
  <2>2. AfterBlanks(call.src + blanks)' = AfterBlanks(call.src + blanks)
    BY <1>2 DEF AfterBlanks
  <2>3. Header(blanks, signs)'
    BY <2>1, <2>2 DEF Header
  <2> QED
    BY <2>3, <1>2 DEF Reading
<1>4. SType'
  BY <1>1 DEF SType
<1>5. (\E bs \in 0 .. Top - 1, ss \in 0 .. 1 : Reading(bs, ss))'
  BY <1>3, Zenon
<1> QED
  BY <1>1, <1>4, <1>5 DEF SInv

LEMMA ReadsPrefix == SInv /\ call.fn \in StringFns /\ Prefix => SInv'
<1> SUFFICES ASSUME SInv, call.fn \in StringFns, Prefix PROVE SInv'
  OBVIOUS
<1>1. /\ pc = "prefix" /\ call' = call /\ before' = before /\ mem' = mem
      /\ di' = di /\ ret' = ret /\ pc' = "digits"
  BY DEF Prefix
<1>2. /\ mem = before /\ SType
      /\ call.src \in Int /\ 0 <= call.src /\ call.n \in Nat /\ call.n <= 36
      /\ End \in Int /\ End < Top /\ Top \in Nat
      /\ \A a \in Int : call.src <= a /\ a <= End => a \in Addrs /\ (before[a] # 0 => a < End)
      /\ si \in Int /\ ret \in Int
  BY <1>1, NumberFacts
<1>3. PICK blanks \in 0 .. Top - 1, signs \in 0 .. 1 : Reading(blanks, signs)
  BY <1>1 DEF SInv
<1>4. PICK number : number = call.src + blanks + signs
  OBVIOUS
<1>5. /\ Header(blanks, signs) /\ si = number /\ ret = 0 /\ cx = call.n
      /\ si <= End /\ call.src <= si
  <2>1. Header(blanks, signs) /\ si = number /\ ret = 0 /\ cx = call.n /\ si <= End
    BY <1>1, <1>3, <1>4 DEF Reading
  <2>2. call.src <= si
    BY <2>1, <1>2, <1>4, SMT
  <2> QED
    BY <2>1, <2>2
<1>6. Hex <=> HasHexPrefix(number)
  BY <1>2, <1>5 DEF Hex, HasHexPrefix
<1>7. ~Hex => (cx = 0 /\ mem[si] = 48 <=> HasOctPrefix(number))
  <2> SUFFICES ASSUME ~Hex PROVE cx = 0 /\ mem[si] = 48 <=> HasOctPrefix(number)
    OBVIOUS
  <2>1. cx = 0 /\ mem[si] = 48 => mem[si + 1] # 120
    BY DEF Hex
  <2> QED
    BY <2>1, <1>2, <1>5 DEF HasOctPrefix
<1>8. si < End \/ PrefixOf(number) = 0
  <2>1. HasHexPrefix(number) \/ HasOctPrefix(number) => before[si] # 0
    BY <1>5, SMT DEF HasHexPrefix, HasOctPrefix
  <2>2. before[si] # 0 => si < End
    BY <1>2, <1>5
  <2> QED
    BY <2>1, <2>2 DEF PrefixOf
<1>9. /\ si' = number + PrefixOf(number) /\ cx' = BaseAt(number)
      /\ PrefixOf(number) \in 0 .. 2 /\ BaseAt(number) \in Int /\ BaseAt(number) <= 36
  <2>1. CASE Hex /\ si' = si + 2 /\ cx' = 16
    <3>1. PrefixOf(number) = 2 /\ BaseAt(number) = 16
      BY <2>1, <1>6 DEF PrefixOf, BaseAt
    <3> QED
      BY <2>1, <3>1, <1>5, SMT
  <2>2. CASE ~Hex /\ cx = 0 /\ mem[si] = 48 /\ si' = si + 1 /\ cx' = 8
    <3>1. PrefixOf(number) = 1 /\ BaseAt(number) = 8
      BY <2>2, <1>6, <1>7 DEF PrefixOf, BaseAt
    <3> QED
      BY <2>2, <3>1, <1>5, SMT
  <2>3. CASE ~Hex /\ ~(cx = 0 /\ mem[si] = 48) /\ si' = si /\ cx' = IF cx = 0 THEN 10 ELSE cx
    <3>1. PrefixOf(number) = 0 /\ BaseAt(number) = cx'
      BY <2>3, <1>5, <1>6, <1>7 DEF PrefixOf, BaseAt
    <3> QED
      BY <2>3, <3>1, <1>2, <1>5, SMT
  <2> QED
    BY <2>1, <2>2, <2>3 DEF Prefix
<1>10. si' \in Int /\ si' <= End
  <2>1. CASE Hex
    <3>1. /\ PrefixOf(number) = 2 /\ before[si + 1] # 0 /\ si < End
      BY <2>1, <1>2, <1>6, <1>8, SMT DEF PrefixOf, Hex
    <3>2. si + 1 \in Int /\ call.src <= si + 1 /\ si + 1 <= End
      BY <3>1, <1>2, <1>5, SMT
    <3>3. si + 1 < End
      BY <3>1, <3>2, <1>2
    <3> QED
      BY <3>1, <3>3, <1>2, <1>5, <1>9, SMT
  <2>2. CASE ~Hex
    <3>1. PrefixOf(number) <= 1
      BY <2>2, <1>6, SMT DEF PrefixOf
    <3> QED
      BY <3>1, <1>2, <1>5, <1>8, <1>9, SMT
  <2> QED
    BY <2>1, <2>2
<1>11. InNumber(call.src + blanks + signs)'
  <2>1. Wrap(LastDigits(before, cx', si')[0]) = 0
    BY <1>9, <1>10, Weights, ZeroFits
  <2>2. BaseAt(number)' = BaseAt(number) /\ PrefixOf(number)' = PrefixOf(number)
    BY <1>1, SameCall
  <2>3. (call.src + blanks + signs)' = number
    BY <1>1, <1>4
  <2>4. si' - (number + PrefixOf(number)) = 0 /\ number + PrefixOf(number) <= si'
        /\ \A a \in number + PrefixOf(number) .. si' - 1 : FALSE
    BY <1>9, <1>10, SMT
  <2>5. InNumber(number)'
    BY <2>1, <2>2, <2>4, <1>1, <1>5, <1>9 DEF InNumber
  <2> QED
    BY <2>3, <2>5, <1>1 DEF InNumber
<1> QED
  BY <1>1, <1>2, <1>3, <1>5, <1>9, <1>10, <1>11, ReadingGoesOn

LEMMA ReadsDigits == SInv /\ call.fn \in StringFns /\ Digits => SInv'
<1> SUFFICES ASSUME SInv, call.fn \in StringFns, Digits PROVE SInv'
  OBVIOUS
<1>1. /\ pc = "digits" /\ call' = call /\ before' = before /\ mem' = mem
  BY DEF Digits, Return
<1>2. /\ call.fn = "strtol" /\ call.fn \notin Copying /\ mem = before /\ SType
      /\ call.src \in Int /\ 0 <= call.src /\ End \in Int /\ before[End] = 0 /\ End < Top /\ Top \in Nat
      /\ di \in Int /\ si \in Int /\ cx \in Int /\ ret \in Int /\ mem \in [Addrs -> Bytes]
  BY <1>1, NumberFacts
<1>3. PICK blanks \in 0 .. Top - 1, signs \in 0 .. 1 : Reading(blanks, signs)
  BY <1>1 DEF SInv
<1>4. PICK number : number = call.src + blanks + signs
  OBVIOUS
<1>5. PICK first : first = number + PrefixOf(number)
  OBVIOUS
<1>6. Header(blanks, signs) /\ si <= End /\ InNumber(number)
  BY <1>1, <1>3, <1>4 DEF Reading
<1>7. /\ cx = BaseAt(number) /\ cx <= 36 /\ first <= si
      /\ \A a \in first .. si - 1 : DigitOf(before[a]) < cx
      /\ ret = Wrap(LastDigits(before, cx, si)[si - first])
  BY <1>5, <1>6 DEF InNumber
<1>8. number \in Int /\ first \in Int
  BY <1>2, <1>4, <1>5, SMT DEF PrefixOf
<1>9. (call.src + blanks + signs)' = number
  BY <1>1, <1>4
<1>10. CASE /\ DigitOf(mem[si]) < cx
            /\ si' = si + 1 /\ ret' = Wrap(ret * cx + DigitOf(mem[si]))
            /\ UNCHANGED <<call, asm, before, di, cx, unit, df, pc>>
  <2>1. DigitOf(mem[si]) \in Int /\ DigitOf(mem[si]) = DigitOf(before[si])
    BY <1>2, DigitRange
  <2>2. si < End
    <3>1. DigitOf(0) = 255
      BY SMT DEF DigitOf
    <3>2. si # End
      BY <3>1, <2>1, <1>2, <1>7, <1>10, SMT
    <3> QED
      BY <3>2, <1>2, <1>6, SMT
  <2>3. si' \in Int /\ si' <= End /\ first <= si' /\ si - first \in Nat /\ si' - first = (si - first) + 1
    BY <2>2, <1>2, <1>7, <1>8, <1>10, SMT
  <2>4. ret' \in Int /\ ret' = Wrap(LastDigits(before, cx, si')[si' - first])
    <3>1. LastDigits(before, cx, si + 1)[(si - first) + 1]
            = LastDigits(before, cx, si)[si - first] * cx + DigitOf(before[si])
      BY <2>3, <1>2, OneMoreDigit
    <3>2. PICK v \in Int : v = LastDigits(before, cx, si)[si - first]
      BY <2>3, <1>2, Weights
    <3>3. Wrap(Wrap(v) * cx + DigitOf(before[si])) = Wrap(v * cx + DigitOf(before[si]))
      BY <2>1, <1>2, WrapsOnce
    <3>4. ret' = Wrap(LastDigits(before, cx, si')[si' - first])
      BY <3>1, <3>2, <3>3, <2>1, <2>3, <1>7, <1>10
    <3>5. ret * cx + DigitOf(mem[si]) \in Int
      BY <2>1, <1>2, SMT
    <3> QED
      BY <3>4, <3>5, <1>10, WrapsToInt
  <2>5. \A a \in first .. si' - 1 : DigitOf(before[a]) < cx
    <3>1. \A a \in first .. si' - 1 : a \in first .. si - 1 \/ a = si
      BY <1>2, <1>8, <1>10, SMT
    <3> QED
      BY <3>1, <2>1, <1>7, <1>10
  <2>6. InNumber(call.src + blanks + signs)'
    <3>1. BaseAt(number)' = BaseAt(number) /\ PrefixOf(number)' = PrefixOf(number)
      BY <1>1, SameCall
    <3>2. InNumber(number)'
      BY <3>1, <2>3, <2>4, <2>5, <1>1, <1>5, <1>7, <1>10 DEF InNumber
    <3> QED
      BY <3>2, <1>9, <1>1 DEF InNumber
  <2>7. di' = di /\ cx' \in Int /\ pc' = "digits"
    BY <1>1, <1>2, <1>10
  <2> QED
    BY <2>3, <2>4, <2>6, <2>7, <1>1, <1>3, <1>6, ReadingGoesOn
<1>11. CASE DigitOf(mem[si]) >= cx /\ Return(Wrap(di * ret))
  <2>1. di' = di /\ si' = si /\ pc' = "done" /\ cx' = cx /\ ret' = Wrap(di * ret) /\ ret' \in Int
    <3>1. di * ret \in Int
      BY <1>2, SMT
    <3> QED
      BY <3>1, <1>11, WrapsToInt DEF Return, regs
  <2>2. SType'
    BY <2>1, <1>1, <1>2, TypeKept
  <2>3. call.src + blanks \in Int /\ call.src + blanks + signs = number
    BY <1>2, <1>4, SMT
  <2>4. PICK value : value = Wrap(di * ret)
    OBVIOUS
  <2>5. PICK end : end = si
    OBVIOUS
  <2>7. PICK sign : sign = call.src + blanks
    OBVIOUS
  <2>8. NumberRead(blanks, signs, end, value)
    <3>1. /\ \A a \in call.src .. sign - 1 : before[a] \in Blanks
          /\ before[sign] \notin Blanks
          /\ (signs = 1) <=> (before[sign] \in {43, 45})
          /\ di = IF before[sign] = 45 THEN -1 ELSE 1
      BY <1>6, <2>7 DEF Header, AfterBlanks, SignAt
    <3>2. DigitOf(before[end]) >= BaseAt(number)
      BY <2>5, <1>2, <1>7, <1>11
    <3>3. /\ first <= end
          /\ \A a \in first .. end - 1 : DigitOf(before[a]) < BaseAt(number)
          /\ value = Wrap((IF before[sign] = 45 THEN -1 ELSE 1)
                            * LastDigits(before, BaseAt(number), end)[end - first])
      <4>1. si - first \in Nat
        BY <1>2, <1>7, <1>8, SMT
      <4>2. PICK v \in Int : v = LastDigits(before, cx, si)[si - first]
        BY <4>1, <1>2, Weights
      <4>3. Wrap(Wrap(v) * di + 0) = Wrap(v * di + 0) /\ Wrap(v) \in Int
        <5>1. \A c \in Int : Wrap(Wrap(v) * di + c) = Wrap(v * di + c) /\ Wrap(v) \in Int
          BY <1>2, WrapsOnce
        <5> QED
          BY <5>1, SMT
      <4>4. Wrap(v) * di + 0 = di * Wrap(v) /\ v * di + 0 = di * v
        BY <4>3, <1>2, SMT
      <4>5. value = Wrap(di * v)
        BY <4>2, <4>3, <4>4, <2>4, <1>7
      <4> QED
        BY <3>1, <4>2, <4>5, <2>5, <1>7
    <3>4. number = sign + signs
      BY <2>7, <1>4
    <3> QED
      BY <3>1, <3>2, <3>3, <3>4, <2>7, <1>5, Zenon DEF NumberRead
  <2>9. NumberRead(blanks, signs, end, value)'
    BY <2>8, <1>1, SameCall DEF NumberRead
  <2>10. StrtolRight'
    <3>1. NumberRead(blanks, signs, si, ret)'
      BY <2>9, <2>1, <2>4, <2>5 DEF NumberRead
    <3> QED
      BY <3>1, Zenon DEF StrtolRight
  <2>6. AllRight'
    <3>1. call.fn \notin Comparing \cup Finding \cup {"strlen", "strnlen"}
      BY <1>2 DEF Comparing, Finding
    <3> QED
      BY <3>1, <2>10, <1>1, <1>2, OtherCalls DEF AllRight, ReadersRight
  <2> QED
    BY <2>1, <2>2, <2>6 DEF SInv
<1> QED
  BY <1>10, <1>11 DEF Digits

-----------------------------------------------------------------------------
(* Every step *)

LEMMA InitSInv == StringsInit => SInv
<1> SUFFICES ASSUME StringsInit, call.fn \in StringFns PROVE SInv
  BY DEF SInv
<1>1. Callable(call, before)
  <2>1. call.fn \notin MemoryFns
    BY DEF StringFns, MemoryFns, Copying, Comparing, Finding
  <2> QED
    BY <2>1, CallsAssumption DEF StringsInit
<1>2. SType /\ pc = "call" /\ mem = before
  <2>1. /\ di = 0 /\ si = 0 /\ cx = 0 /\ ret = 0 /\ pc = "call" /\ mem = before
        /\ before \in [Addrs -> Bytes] /\ 0 \in Int
    BY <1>1, SMT DEF StringsInit, Machine, Callable
  <2> QED
    BY <2>1, <1>1 DEF SType
<1> QED
  BY <1>2 DEF SInv

LEMMA SInvStutters == SInv /\ UNCHANGED svars => SInv'
<1> SUFFICES ASSUME SInv, UNCHANGED svars, call.fn \in StringFns PROVE SInv'
  BY DEF SInv, svars, vars
<1>1. /\ call' = call /\ before' = before /\ mem' = mem /\ di' = di /\ si' = si /\ cx' = cx
      /\ ret' = ret /\ pc' = pc
  BY DEF svars, vars, regs
<1>2. SType'
  BY <1>1 DEF SInv, SType
<1>3. /\ End' = End /\ Length' = Length /\ Dest' = Dest /\ Text' = Text
      /\ \A p : EndOf(p)' = EndOf(p)
      /\ \A d, n, size : Overlaid(d, n, size)' = Overlaid(d, n, size)
      /\ \A p : BaseAt(p)' = BaseAt(p) /\ PrefixOf(p)' = PrefixOf(p) /\ SignAt(p)' = SignAt(p)
      /\ Bounded' = Bounded
  BY <1>1, SameCall, SameBounded
<1>4. (pc = "end" => ToTheEnd)'
  BY <1>1, <1>3 DEF SInv, ToTheEnd
<1>5. (pc = "loop" /\ call.fn \in {"strlen", "strnlen"} => Counting)'
  BY <1>1, <1>3 DEF SInv, Counting
<1>6. (pc = "loop" /\ call.fn \in Copying => Copied(di - Dest))'
  BY <1>1, <1>3 DEF SInv, Copied
<1>7. (pc = "loop" /\ call.fn \in Comparing => Compared(di - call.dst))'
  BY <1>1, <1>3 DEF SInv, Compared
<1>8. (pc = "loop" /\ call.fn \in Finding => Searching)'
  BY <1>1, <1>3 DEF SInv, Searching, Searched
<1>9. \A p : AfterBlanks(p)' = AfterBlanks(p)
  BY <1>1, <1>3 DEF AfterBlanks
<1>10. (pc \in {"blanks", "sign"} => AfterBlanks(si) /\ ret = 0 /\ cx = call.n)'
  BY <1>1, <1>3 DEF SInv, AfterBlanks
<1>11. (pc = "sign" => before[si] \notin Blanks)'
  BY <1>1 DEF SInv
<1>12. (pc \in {"prefix", "digits"} => \E blanks \in 0 .. Top - 1, signs \in 0 .. 1 : Reading(blanks, signs))'
  <2> SUFFICES ASSUME pc \in {"prefix", "digits"}
               PROVE  (\E blanks \in 0 .. Top - 1, signs \in 0 .. 1 : Reading(blanks, signs))'
    BY <1>1
  <2>1. PICK blanks \in 0 .. Top - 1, signs \in 0 .. 1 : Reading(blanks, signs)
    BY DEF SInv
  <2>2. PICK number : number = call.src + blanks + signs
    OBVIOUS
  <2>3. (call.src + blanks + signs)' = number
    BY <2>2, <1>1
  <2>4. PICK sign : sign = call.src + blanks
    OBVIOUS
  <2>5. (call.src + blanks)' = sign
    BY <2>4, <1>1
  <2>6. Header(blanks, signs)'
    <3>1. /\ AfterBlanks(sign) /\ before[sign] \notin Blanks
          /\ (signs = 1) <=> (before[sign] \in {43, 45})
          /\ di = SignAt(sign)
      BY <2>1, <2>4 DEF Reading, Header
    <3>2. AfterBlanks(sign)' /\ SignAt(sign)' = SignAt(sign)
      BY <3>1, <1>3, <1>9
    <3> QED
      BY <3>1, <3>2, <2>5, <1>1 DEF Header, AfterBlanks, SignAt
  <2>7. pc = "digits" => InNumber(number)'
    <3>1. pc = "digits" => InNumber(number)
      BY <2>1, <2>2 DEF Reading
    <3> QED
      BY <3>1, <1>1, <1>3 DEF InNumber
  <2>8. Reading(blanks, signs)'
    <3>1. pc = "digits" => InNumber(call.src + blanks + signs)'
      BY <2>2, <2>7, <1>1 DEF InNumber
    <3> QED
      BY <3>1, <2>1, <2>2, <2>6, <1>1, <1>3 DEF Reading
  <2> QED
    BY <2>8, Zenon
<1>13. (pc = "done" => AllRight)'
  <2> SUFFICES ASSUME pc = "done" PROVE AllRight'
    BY <1>1
  <2>1. ReadersRight /\ CopiesRight /\ StrtolRight
    BY DEF SInv, AllRight
  <2>2. Lengths'
    BY <2>1, <1>1, <1>3 DEF ReadersRight, Lengths, Returned
  <2>3. Comparisons'
    BY <2>1, <1>1, <1>3, SameCall DEF ReadersRight, Comparisons, Returned, Orders, Chars, FirstChars
  <2>4. Occurrences'
    BY <2>1, <1>1, <1>3, SameCall DEF ReadersRight, Occurrences, Returned, FirstOr
  <2>5. CopiesRight'
    BY <2>1, <1>1, <1>3 DEF CopiesRight, Returned
  <2>6. StrtolRight'
    BY <2>1, <1>1, <1>3 DEF StrtolRight, Returned, NumberRead
  <2> QED
    BY <2>2, <2>3, <2>4, <2>5, <2>6 DEF AllRight, ReadersRight
<1>14. (pc = "call" => mem = before)'
  BY <1>1 DEF SInv
<1> QED
  BY <1>2, <1>4, <1>5, <1>6, <1>7, <1>8, <1>10, <1>11, <1>12, <1>13, <1>14 DEF SInv

(* The steps of memmove and memset are not about these functions. *)
LEMMA OtherSteps == SInv /\ Next => SInv'
<1> SUFFICES ASSUME SInv, Next, call.fn \in StringFns PROVE FALSE
  <2>1. Next => call' = call
    BY DEF Next, Memmove, Move, Moved, Memset, Fill, Filled
  <2> QED
    BY <2>1 DEF SInv
<1>1. call.fn \notin {"memmove", "memcpy", "memset"}
  BY DEF StringFns, Copying, Comparing, Finding
<1>2. pc \notin {"move", "fill"}
  BY DEF SInv, SType
<1> QED
  BY <1>1, <1>2 DEF Next, Memmove, Move, Moved, Memset, Fill, Filled

LEMMA NumberSteps == SInv /\ (SkipBlanks \/ Sign \/ Prefix \/ Digits) => SInv'
<1>1. CASE call.fn \in StringFns
  BY <1>1, SkipsBlanks, ReadsSign, ReadsPrefix, ReadsDigits
<1>2. CASE call.fn \notin StringFns
  BY <1>2 DEF SInv, SkipBlanks, Sign, Prefix, Digits, Return
<1> QED
  BY <1>1, <1>2

LEMMA NextSInv == SInv /\ [StringsNext]_svars => SInv'
<1> SUFFICES ASSUME SInv, [StringsNext]_svars PROVE SInv'
  OBVIOUS
<1>1. CASE Next
  BY <1>1, OtherSteps
<1>2. CASE Call
  BY <1>2, Starts
<1>3. CASE Count
  BY <1>3, Counts
<1>4. CASE Append0
  <2>1. CASE call.fn \in StringFns
    BY <2>1, <1>4, Appends
  <2>2. CASE call.fn \notin StringFns
    BY <2>2, <1>4 DEF SInv, Append0
  <2> QED
    BY <2>1, <2>2
<1>5. CASE Strcpy \/ Strncpy \/ Strlcpy
  BY <1>5, CopiesString, CopiesSized, CopiesBounded
<1>6. CASE Compare
  BY <1>6, Compares
<1>7. CASE Find \/ Memfind
  BY <1>7, Finds, FindsInMemory
<1>8. CASE SkipBlanks \/ Sign \/ Prefix \/ Digits
  BY <1>8, NumberSteps
<1>9. CASE UNCHANGED svars
  BY <1>9, SInvStutters
<1> QED
  BY <1>1, <1>2, <1>3, <1>4, <1>5, <1>6, <1>7, <1>8, <1>9 DEF StringsNext

LEMMA SInvAlways == StringsSpec => []SInv
  BY InitSInv, NextSInv, PTL DEF StringsSpec

(* While another function is called, the properties are about none of these. *)
LEMMA RightWhenDone == SInv => AllRight
<1>1. CASE call.fn \in StringFns /\ pc = "done"
  BY <1>1 DEF SInv
<1>2. CASE ~(call.fn \in StringFns /\ pc = "done")
  <2>1. Lengths
    BY <1>2 DEF Lengths, Returned, StringFns
  <2>2. Comparisons
    BY <1>2 DEF Comparisons, Returned, StringFns, Comparing
  <2>3. Occurrences
    BY <1>2 DEF Occurrences, Returned, StringFns, Finding
  <2>4. CopiesRight
    BY <1>2 DEF CopiesRight, Returned, StringFns, Copying
  <2>5. StrtolRight
    BY <1>2 DEF StrtolRight, Returned, StringFns
  <2> QED
    BY <2>1, <2>2, <2>3, <2>4, <2>5 DEF AllRight, ReadersRight
<1> QED
  BY <1>1, <1>2

-----------------------------------------------------------------------------
(***************************************************************************)
(* The memory functions, when they are called among the others: no other   *)
(* function touches the direction flag or takes a step of theirs.          *)
(***************************************************************************)
AmongOthers ==
  /\ call.fn \in MemoryFns => MInv
  /\ call.fn \notin MemoryFns => call.fn \in StringFns /\ df = 1 /\ pc \notin {"move", "fill"}

LEMMA AmongOthersAlways == StringsSpec => []AmongOthers
<1>1. StringsInit => AmongOthers
  <2> SUFFICES ASSUME StringsInit PROVE AmongOthers
    OBVIOUS
  <2>1. CASE call.fn \in MemoryFns
    <3>1. Init
      BY <2>1, CallsAssumption DEF StringsInit, Init
    <3> QED
      BY <2>1, <3>1, InitMInv DEF AmongOthers
  <2>2. CASE call.fn \notin MemoryFns
    <3>1. Callable(call, before)
      BY <2>2, CallsAssumption DEF StringsInit
    <3> QED
      BY <2>2, <3>1 DEF StringsInit, Machine, AmongOthers, Callable
  <2> QED
    BY <2>1, <2>2
<1>2. AmongOthers /\ [StringsNext]_svars => AmongOthers'
  <2> SUFFICES ASSUME AmongOthers, [StringsNext]_svars PROVE AmongOthers'
    OBVIOUS
  <2>1. ASSUME [Next]_vars PROVE AmongOthers'
    <3>1. call' = call
      BY <2>1 DEF Next, Memmove, Move, Moved, Memset, Fill, Filled, vars
    <3>2. CASE call.fn \in MemoryFns
      BY <2>1, <3>1, <3>2, NextMInv DEF AmongOthers
    <3>3. CASE call.fn \notin MemoryFns
      BY <2>1, <3>1, <3>3 DEF AmongOthers, MemoryFns, Next, Memmove, Move, Moved, Memset, Fill, Filled, vars, regs
    <3> QED
      BY <3>2, <3>3
  <2>2. ASSUME Call \/ Count \/ Append0 \/ Strcpy \/ Strncpy \/ Strlcpy \/ Compare \/ Find \/ Memfind
               \/ SkipBlanks \/ Sign \/ Prefix \/ Digits
        PROVE  AmongOthers'
    <3>1. CASE call.fn \in MemoryFns
      <4>1. pc \in {"call", "move", "fill", "done"}
        BY <3>1 DEF AmongOthers, MInv, MTypeOK
      <4> QED
        BY <2>2, <3>1, <4>1 DEF MemoryFns, StringFns, Copying, Comparing, Finding, Loop,
              Call, Count, Append0, Strcpy, Strncpy, Strlcpy, Compare, Find, Memfind,
              SkipBlanks, Sign, Prefix, Digits
    <3>2. CASE call.fn \notin MemoryFns
      <4>1. call' = call /\ df' = df /\ pc' \notin {"move", "fill"}
        BY <2>2, <3>2 DEF AmongOthers, Turn, Return, regs,
             Call, Count, Append0, Strcpy, Strncpy, Strlcpy, Compare, Find, Memfind,
             SkipBlanks, Sign, Prefix, Digits
      <4> QED
        BY <3>2, <4>1 DEF AmongOthers
    <3> QED
      BY <3>1, <3>2
  <2> QED
    BY <2>1, <2>2 DEF StringsNext, svars
<1> QED
  BY <1>1, <1>2, PTL DEF StringsSpec

LEMMA AmongOthersRight == AmongOthers => MoveCopies /\ SetFills /\ DirectionClear
<1>1. call.fn \in MemoryFns /\ AmongOthers => MoveCopies /\ SetFills /\ DirectionClear
  BY MInvRight DEF AmongOthers
<1>2. call.fn \notin MemoryFns /\ AmongOthers => MoveCopies /\ SetFills /\ DirectionClear
  BY DEF AmongOthers, MemoryFns, MoveCopies, SetFills, DirectionClear
<1> QED
  BY <1>1, <1>2

-----------------------------------------------------------------------------
(***************************************************************************)
(* memmove and memcpy leave at the destination what the source held when   *)
(* they were called, whatever the overlap, and nothing else changed        *)
(* (string.c:141-169, 187-205).                                            *)
(***************************************************************************)
THEOREM MovesAnyOverlap == (Spec => []MoveCopies) /\ (StringsSpec => []MoveCopies)
<1>1. Spec => []MoveCopies
  BY MInvRight, MInvAlways, PTL
<1>2. StringsSpec => []MoveCopies
  BY AmongOthersRight, AmongOthersAlways, PTL
<1> QED
  BY <1>1, <1>2

(* memset fills the region with the byte and nothing else (string.c:121-139, 173-185). *)
THEOREM FillsAnyRegion == (Spec => []SetFills) /\ (StringsSpec => []SetFills)
<1>1. Spec => []SetFills
  BY MInvRight, MInvAlways, PTL
<1>2. StringsSpec => []SetFills
  BY AmongOthersRight, AmongOthersAlways, PTL
<1> QED
  BY <1>1, <1>2

(* Every function returns with the direction flag clear (string.c:158). *)
THEOREM FlagRestored == (Spec => []DirectionClear) /\ (StringsSpec => []DirectionClear)
<1>1. Spec => []DirectionClear
  BY MInvRight, MInvAlways, PTL
<1>2. StringsSpec => []DirectionClear
  BY AmongOthersRight, AmongOthersAlways, PTL
<1> QED
  BY <1>1, <1>2

(***************************************************************************)
(* strlen, strnlen, the comparisons and the searches return what they      *)
(* should, for texts and sizes of any length (string.c:11-29, 79-118,      *)
(* 214-237).                                                               *)
(***************************************************************************)
THEOREM ReadersReturnRight == StringsSpec => []ReadersRight
<1>1. SInv => ReadersRight
  BY RightWhenDone DEF AllRight
<1> QED
  BY <1>1, SInvAlways, PTL

(***************************************************************************)
(* strcpy, strcat, strncpy and strlcpy leave their text at the destination *)
(* and every other byte as it was, for texts and sizes of any length, also *)
(* when destination and source overlap as they may (string.c:31-77).       *)
(***************************************************************************)
THEOREM CopiesLeaveTheText == StringsSpec => []CopiesRight
<1>1. SInv => CopiesRight
  BY RightWhenDone DEF AllRight
<1> QED
  BY <1>1, SInvAlways, PTL

(***************************************************************************)
(* strtol returns the value of all the digits there are, in every base and *)
(* for numerals of any length (string.c:239-284).                          *)
(***************************************************************************)
THEOREM StrtolReadsNumerals == StringsSpec => []StrtolRight
<1>1. SInv => StrtolRight
  BY RightWhenDone DEF AllRight
<1> QED
  BY <1>1, SInvAlways, PTL
=============================================================================
