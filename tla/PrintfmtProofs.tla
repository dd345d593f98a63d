---------------------------- MODULE PrintfmtProofs ----------------------------
(***************************************************************************)
(* For every call and every sink: vprintfmt prints what the directives     *)
(* mean, its scan stays inside the format, and vsnprintf keeps the         *)
(* beginning of the output in its buffer.                                  *)
(***************************************************************************)
EXTENDS Printfmt, SequenceTheorems, WellFoundedInduction, TLAPS

-----------------------------------------------------------------------------
(* Induction and recursion on the natural numbers *)

LEMMA LeastElement ==
  ASSUME NEW U \in SUBSET Nat, U # {}
  PROVE  \E x \in U : \A y \in U : x <= y
<1>1. PICK x \in U : \A y \in U : ~(<<y, x>> \in OpToRel(<, Nat))
  BY NatLessThanWellFounded, WFMin
<1>2. \A y \in U : x <= y
  <2> SUFFICES ASSUME NEW y \in U, y < x PROVE FALSE
    BY SMT
  <2>1. <<y, x>> \in OpToRel(<, Nat)
    BY DEF OpToRel
  <2>2. QED
    BY <1>1, <2>1
<1>3. QED
  BY <1>2

(* Induction, on a set of numbers in the place of a predicate *)
LEMMA Inductive ==
  ASSUME NEW U \in SUBSET Nat, 0 \in U, \A n \in U : n + 1 \in U
  PROVE  U = Nat
<1> SUFFICES ASSUME Nat \ U # {} PROVE FALSE
  OBVIOUS
<1>1. PICK x \in Nat \ U : \A y \in Nat \ U : x <= y
  BY LeastElement
<1>2. x # 0 /\ x - 1 \in Nat /\ ~(x <= x - 1) /\ (x - 1) + 1 = x
  BY SMT
<1>3. x - 1 \in U
  BY <1>1, <1>2
<1> QED
  BY <1>2, <1>3

(***************************************************************************)
(* A function may be defined by what it is at 0 and how it goes on.        *)
(***************************************************************************)
Grows(g, n, S, base, step) ==
  /\ g \in [0 .. n -> S] /\ g[0] = base
  /\ \A k \in 0 .. n - 1 : g[k + 1] = step[k][g[k]]

LEMMA GrowsTheSame ==
  ASSUME NEW S, NEW base \in S, NEW step \in [Nat -> [S -> S]],
         NEW n \in Nat, NEW m \in Nat, NEW g, NEW h,
         Grows(g, n, S, base, step), Grows(h, m, S, base, step)
  PROVE  \A k \in Nat : k <= n /\ k <= m => g[k] = h[k]
<1> DEFINE U == {k \in Nat : k <= n /\ k <= m => g[k] = h[k]}
<1>1. 0 \in U
  BY DEF Grows
<1>2. ASSUME NEW k \in U PROVE k + 1 \in U
  <2> SUFFICES ASSUME k + 1 <= n, k + 1 <= m PROVE g[k + 1] = h[k + 1]
    BY SMT
  <2>1. k \in 0 .. n - 1 /\ k \in 0 .. m - 1 /\ k <= n /\ k <= m
    BY SMT
  <2>2. g[k + 1] = step[k][g[k]] /\ h[k + 1] = step[k][h[k]]
    BY <2>1 DEF Grows
  <2> QED
    BY <2>1, <2>2
<1> HIDE DEF U
<1>3. U = Nat
  <2>1. U \in SUBSET Nat
    BY DEF U
  <2> QED
    BY <1>1, <1>2, <2>1, Inductive
<1> QED
  BY <1>3 DEF U

Follows(f, S, base, step) ==
  f \in [Nat -> S] /\ f[0] = base /\ \A n \in Nat : f[n + 1] = step[n][f[n]]

LEMMA Recursion ==
  ASSUME NEW S, NEW base \in S, NEW step \in [Nat -> [S -> S]]
  PROVE  \E f : Follows(f, S, base, step)
<1> DEFINE Is(g, n) == Grows(g, n, S, base, step)
           U == {n \in Nat : \E g : Is(g, n)}
<1>1. 0 \in U
  <2>1. Is([k \in 0 .. 0 |-> base], 0)
    BY SMT DEF Grows
  <2> QED
    BY <2>1
<1>2. ASSUME NEW n \in U PROVE n + 1 \in U
  <2>1. PICK g : Is(g, n)
    OBVIOUS
  <2> DEFINE h == [k \in 0 .. n + 1 |-> IF k <= n THEN g[k] ELSE step[n][g[n]]]
  <2>2. n \in Nat /\ g \in [0 .. n -> S] /\ g[n] \in S /\ step[n][g[n]] \in S
    BY <2>1, SMT DEF Grows
  <2>3. h \in [0 .. n + 1 -> S] /\ h[0] = base
    BY <2>1, <2>2, SMT DEF Grows
  <2>4. ASSUME NEW k \in 0 .. n PROVE h[k + 1] = step[k][h[k]]
    <3>1. CASE k = n
      BY <2>2, <3>1, SMT
    <3>2. CASE k # n
      <4>1. k \in 0 .. n - 1 /\ k + 1 <= n /\ k <= n /\ k + 1 \in 0 .. n + 1 /\ k \in 0 .. n + 1
        BY <2>2, <3>2, SMT
      <4>2. h[k + 1] = g[k + 1] /\ h[k] = g[k]
        BY <4>1
      <4> QED
        BY <2>1, <4>1, <4>2 DEF Grows
    <3> QED
      BY <3>1, <3>2
  <2> HIDE DEF h
  <2>5. Is(h, n + 1)
    <3>1. n + 1 - 1 = n
      BY <2>2, SMT
    <3> QED
      BY <2>3, <2>4, <3>1 DEF Grows
  <2> QED
    BY <2>5
<1> DEFINE G == [n \in Nat |-> CHOOSE g : Is(g, n)]
<1>3. \A n \in Nat : Grows(G[n], n, S, base, step)
  <2>1. U \in SUBSET Nat
    OBVIOUS
  <2> HIDE DEF U
  <2>2. U = Nat
    BY <1>1, <1>2, <2>1, Inductive
  <2>3. \A n \in Nat : \E g : Is(g, n)
    BY <2>2 DEF U
  <2> QED
    BY <2>3, Zenon
<1> DEFINE f == [n \in Nat |-> G[n][n]]
<1> HIDE DEF G
<1>4. \A n \in Nat : G[n][n] \in S
  BY <1>3, SMT DEF Grows
<1>5. f \in [Nat -> S] /\ f[0] = base
  BY <1>3, <1>4, SMT DEF Grows
<1>6. ASSUME NEW n \in Nat PROVE f[n + 1] = step[n][f[n]]
  <2>1. n + 1 \in Nat /\ n \in 0 .. (n + 1) - 1 /\ n <= n /\ n <= n + 1
    BY SMT
  <2>2. G[n + 1][n] = G[n][n]
    <3>1. Grows(G[n], n, S, base, step) /\ Grows(G[n + 1], n + 1, S, base, step)
      BY <1>3, <2>1
    <3> QED
      BY <3>1, <2>1, GrowsTheSame
  <2>3. G[n + 1][n + 1] = step[n][G[n + 1][n]]
    BY <1>3, <2>1 DEF Grows
  <2> QED
    BY <2>1, <2>2, <2>3
<1> QED
  BY <1>5, <1>6 DEF Follows

-----------------------------------------------------------------------------
(* Texts one after the other *)

LEMMA Glued ==
  ASSUME NEW E, NEW a \in Seq(E), NEW b \in Seq(E), NEW c, c = a \o b
  PROVE  /\ c \in Seq(E) /\ Len(a) \in Nat /\ Len(b) \in Nat /\ Len(c) = Len(a) + Len(b)
         /\ \A j \in 1 .. Len(a) : c[j] = a[j]
         /\ \A j \in 1 .. Len(b) : c[Len(a) + j] = b[j]
  BY SMT

Pieces(s, n, E) == n \in Nat /\ s \in [1 .. n -> Seq(E)] /\ Len(s) = n

LEMMA JoinedFacts ==
  ASSUME NEW E, NEW s, NEW n, Pieces(s, n, E)
  PROVE  /\ Joined(s) \in [0 .. n -> Seq(E)] /\ Joined(s)[0] = <<>>
         /\ \A k \in 1 .. n : Joined(s)[k] = Joined(s)[k - 1] \o s[k]
<1> USE DEF Pieces
<1> DEFINE step == [k \in Nat |-> [v \in Seq(E) |-> IF k < n THEN v \o s[k + 1] ELSE v]]
<1>1. step \in [Nat -> [Seq(E) -> Seq(E)]]
  <2>1. ASSUME NEW k \in Nat, NEW v \in Seq(E), k < n PROVE v \o s[k + 1] \in Seq(E)
    <3>1. k + 1 \in 1 .. n
      BY <2>1, SMT
    <3>2. s[k + 1] \in Seq(E)
      BY <3>1
    <3> QED
      BY <3>2, ConcatProperties
  <2> QED
    BY <2>1
<1>2. PICK g : Follows(g, Seq(E), <<>>, step)
  <2> HIDE DEF step
  <2>1. <<>> \in Seq(E)
    BY EmptySeq
  <2> QED
    BY <1>1, <2>1, Recursion, Zenon
<1> DEFINE f == [k \in 0 .. n |-> g[k]]
<1>3. f = [k \in 0 .. n |-> IF k = 0 THEN <<>> ELSE f[k - 1] \o s[k]]
  <2>1. ASSUME NEW k \in 0 .. n PROVE g[k] = IF k = 0 THEN <<>> ELSE f[k - 1] \o s[k]
    <3>1. CASE k = 0
      BY <1>2, <3>1 DEF Follows
    <3>2. CASE k # 0
      <4>1. k - 1 \in Nat /\ (k - 1) + 1 = k /\ k - 1 < n /\ k - 1 \in 0 .. n
        BY <3>2, SMT
      <4> HIDE DEF step
      <4>2. g \in [Nat -> Seq(E)] /\ g[(k - 1) + 1] = step[k - 1][g[k - 1]]
        BY <1>2, <4>1, Zenon DEF Follows
      <4>3. g[k] = step[k - 1][g[k - 1]] /\ g[k - 1] \in Seq(E) /\ f[k - 1] = g[k - 1]
        BY <4>1, <4>2
      <4> USE DEF step
      <4>4. step[k - 1][g[k - 1]] = g[k - 1] \o s[(k - 1) + 1]
        BY <4>1, <4>3
      <4> HIDE DEF step, f
      <4> QED
        BY <3>2, <4>1, <4>3, <4>4
    <3> HIDE DEF f, step
    <3> QED
      BY <3>1, <3>2
  <2> QED
    BY <2>1, Zenon
<1> DEFINE Def(p) == p = [k \in 0 .. Len(s) |-> IF k = 0 THEN <<>> ELSE p[k - 1] \o s[k]]
           c == CHOOSE p : Def(p)
<1>4. Def(c)
  <2>1. Def(f)
    <3> HIDE DEF f
    <3> QED
      BY <1>3
  <2> HIDE DEF f, Def
  <2> QED
    BY <2>1, Zenon
<1>5. Joined(s) = c
  BY Zenon DEF Joined
<1> HIDE DEF c
<1>6. /\ c[0] = <<>> /\ c = [k \in 0 .. n |-> c[k]]
      /\ \A k \in 1 .. n : c[k] = c[k - 1] \o s[k]
  <2>1. c = [k \in 0 .. n |-> IF k = 0 THEN <<>> ELSE c[k - 1] \o s[k]]
    BY <1>4
  <2>2. ASSUME NEW k \in 1 .. n PROVE c[k] = c[k - 1] \o s[k]
    <3>1. k \in 0 .. n /\ k # 0
      BY SMT
    <3> QED
      BY <2>1, <3>1, Zenon
  <2>3. c[0] = <<>>
    <3>1. 0 \in 0 .. n
      BY SMT
    <3> QED
      BY <2>1, <3>1, Zenon
  <2>4. c = [k \in 0 .. n |-> c[k]]
    <3>1. DOMAIN c = 0 .. n /\ c = [k \in DOMAIN c |-> c[k]]
      BY <2>1, Zenon
    <3> QED
      BY <3>1, Zenon
  <2> QED
    BY <2>2, <2>3, <2>4
<1>7. \A k \in 0 .. n : c[k] \in Seq(E)
  <2> DEFINE U == {k \in Nat : k <= n => c[k] \in Seq(E)}
  <2>1. 0 \in U
    BY <1>6, EmptySeq
  <2>2. ASSUME NEW k \in U PROVE k + 1 \in U
    <3> SUFFICES ASSUME k + 1 <= n PROVE c[k + 1] \in Seq(E)
      OBVIOUS
    <3>1. k \in Nat /\ k <= n /\ k + 1 \in 1 .. n /\ (k + 1) - 1 = k
      BY SMT
    <3>2. c[k] \in Seq(E) /\ s[k + 1] \in Seq(E)
      BY <3>1
    <3>3. c[k + 1] = c[k] \o s[k + 1]
      BY <1>6, <3>1
    <3> QED
      BY <3>2, <3>3, ConcatProperties
  <2>3. U \in SUBSET Nat
    OBVIOUS
  <2> HIDE DEF U
  <2>4. U = Nat
    BY <2>1, <2>2, <2>3, Inductive
  <2>5. \A k \in 0 .. n : k \in U /\ k <= n
    BY <2>4, SMT
  <2> QED
    BY <2>5 DEF U
<1>8. c \in [0 .. n -> Seq(E)]
  BY <1>6, <1>7, Zenon
<1> QED
  BY <1>5, <1>6, <1>8

-----------------------------------------------------------------------------
LEMMA JoinedPrefix ==
  ASSUME NEW E, NEW s, NEW n, Pieces(s, n, E),
         NEW m \in 0 .. n
  PROVE  /\ Len(Joined(s)[m]) <= Len(Joined(s)[n])
         /\ \A j \in 1 .. Len(Joined(s)[m]) : Joined(s)[n][j] = Joined(s)[m][j]
<1> DEFINE J == Joined(s)
           L == Len(J[m])
           Prefix(k) == L <= Len(J[k]) /\ \A j \in 1 .. L : J[k][j] = J[m][j]
           U == {k \in Nat : m <= k /\ k <= n => Prefix(k)}
<1>1. /\ J \in [0 .. n -> Seq(E)] /\ J[0] = <<>>
      /\ \A k \in 1 .. n : J[k] = J[k - 1] \o s[k]
  BY JoinedFacts, Zenon
<1> HIDE DEF J
<1> USE DEF Pieces
<1>2. J[m] \in Seq(E) /\ L \in Nat
  BY <1>1, LenProperties
<1> HIDE DEF L
<1>3. ASSUME NEW k \in Nat, m <= k, k < n, Prefix(k) PROVE Prefix(k + 1)
  <2>1. k \in 0 .. n /\ k + 1 \in 1 .. n /\ (k + 1) - 1 = k
    BY <1>3, SMT
  <2>2. J[k] \in Seq(E) /\ s[k + 1] \in Seq(E) /\ J[k + 1] = J[k] \o s[k + 1]
    BY <1>1, <2>1
  <2> DEFINE l == Len(J[k])
             r == Len(s[k + 1])
  <2>3. /\ l \in Nat /\ r \in Nat /\ Len(J[k + 1]) = l + r
        /\ \A j \in 1 .. l : J[k + 1][j] = J[k][j]
    <3>1a. PICK a \in Seq(E), b \in Seq(E) : a = J[k] /\ b = s[k + 1]
      BY <2>2, Zenon
    <3>1. PICK c : a = J[k] /\ b = s[k + 1] /\ c = J[k + 1] /\ c = a \o b
      BY <3>1a, <2>2, Zenon
    <3>2. Len(a) \in Nat /\ Len(b) \in Nat /\ Len(c) = Len(a) + Len(b) /\ \A j \in 1 .. Len(a) : c[j] = a[j]
      <4>1. c = a \o b
        BY <3>1
      <4> QED
        BY <4>1, Glued
    <3> QED
      BY <3>1, <3>2, Zenon
  <2>4. L <= l /\ \A j \in 1 .. L : J[k][j] = J[m][j]
    BY <1>3
  <2> HIDE DEF l, r
  <2>5. ASSUME NEW j \in 1 .. L PROVE j \in 1 .. l
    BY <1>2, <2>3, <2>4, SMT
  <2>6. L <= l + r
    BY <1>2, <2>3, <2>4, SMT
  <2> QED
    BY <2>3, <2>4, <2>5, <2>6
<1> HIDE DEF Prefix
<1>4. Prefix(m)
  BY <1>2 DEF Prefix, L
<1>5. 0 \in U
  <2> SUFFICES ASSUME m <= 0 PROVE Prefix(0)
    OBVIOUS
  <2>1. m = 0
    BY SMT
  <2> QED
    BY <1>4, <2>1
<1>6. ASSUME NEW k \in U PROVE k + 1 \in U
  <2> SUFFICES ASSUME m <= k + 1, k + 1 <= n PROVE Prefix(k + 1)
    BY SMT
  <2>1. CASE m = k + 1
    BY <1>4, <2>1
  <2>2. CASE m # k + 1
    <3>1. m <= k /\ k < n /\ k \in Nat /\ k <= n
      BY <2>2, SMT
    <3> QED
      BY <1>3, <3>1
  <2> QED
    BY <2>1, <2>2
<1>7. Prefix(n)
  <2>1. U \in SUBSET Nat
    OBVIOUS
  <2> HIDE DEF U
  <2>2. n \in U
    BY <1>5, <1>6, <2>1, Inductive
  <2>3. m <= n /\ n <= n
    BY SMT
  <2> QED
    BY <2>2, <2>3 DEF U
<1> QED
  BY <1>7 DEF Prefix, L, J

LiesAt(s, n, k) ==
  /\ Len(Joined(s)[k - 1]) \in Nat /\ Len(Joined(s)[n]) \in Nat
  /\ Len(Joined(s)[k]) = Len(Joined(s)[k - 1]) + Len(s[k])
  /\ Len(Joined(s)[k]) <= Len(Joined(s)[n])
  /\ \A j \in 1 .. Len(s[k]) : Joined(s)[n][Len(Joined(s)[k - 1]) + j] = s[k][j]
LEMMA JoinedAt ==
  ASSUME NEW E, NEW s, NEW n, Pieces(s, n, E),
         NEW k \in 1 .. n
  PROVE  LiesAt(s, n, k)
<1> DEFINE J == Joined(s)
<1>1. /\ J \in [0 .. n -> Seq(E)] /\ J[k] = J[k - 1] \o s[k]
  BY JoinedFacts, Zenon
<1>2. k \in 0 .. n /\ k - 1 \in 0 .. n /\ n \in 0 .. n
  BY SMT DEF Pieces
<1>3. /\ Len(J[k]) <= Len(J[n])
      /\ \A j \in 1 .. Len(J[k]) : J[n][j] = J[k][j]
  BY <1>2, JoinedPrefix
<1> HIDE DEF J
<1> USE DEF Pieces
<1>4. J[k - 1] \in Seq(E) /\ s[k] \in Seq(E) /\ J[n] \in Seq(E)
  BY <1>1, <1>2
<1> DEFINE l == Len(J[k - 1])
           r == Len(s[k])
<1>5. /\ l \in Nat /\ r \in Nat /\ Len(J[k]) = l + r
      /\ \A j \in 1 .. r : J[k][l + j] = s[k][j]
  BY <1>1, <1>4, Glued
<1>6. Len(J[n]) \in Nat
  BY <1>4, LenProperties
<1> HIDE DEF l, r
<1>7. ASSUME NEW j \in 1 .. r PROVE J[n][l + j] = s[k][j]
  <2>1. l + j \in 1 .. l + r
    BY <1>5, SMT
  <2> QED
    BY <1>3, <1>5, <2>1
<1> QED
  BY <1>3, <1>5, <1>6, <1>7 DEF J, l, r, LiesAt

-----------------------------------------------------------------------------
(* Numerals *)

LEMMA Powers ==
  ASSUME NEW b \in Nat, b >= 2
  PROVE  /\ PowersOf(b) \in [Nat -> Nat] /\ PowersOf(b)[0] = 1
         /\ \A n \in Nat : PowersOf(b)[n + 1] = b * PowersOf(b)[n]
         /\ \A n \in Nat : PowersOf(b)[n] > n
<1> DEFINE step == [k \in Nat |-> [v \in Nat |-> b * v]]
<1>1. step \in [Nat -> [Nat -> Nat]]
  BY SMT
<1>2. PICK f : Follows(f, Nat, 1, step)
  <2> HIDE DEF step
  <2>1. 1 \in Nat
    BY SMT
  <2> QED
    BY <1>1, <2>1, Recursion, Zenon
<1>3. f = [k \in Nat |-> IF k = 0 THEN 1 ELSE b * f[k - 1]]
  <2>1. ASSUME NEW k \in Nat PROVE f[k] = IF k = 0 THEN 1 ELSE b * f[k - 1]
    <3>1. CASE k = 0
      BY <1>2, <3>1 DEF Follows
    <3>2. CASE k # 0
      <4>1. k - 1 \in Nat /\ (k - 1) + 1 = k
        BY <3>2, SMT
      <4> HIDE DEF step
      <4>2. f \in [Nat -> Nat] /\ f[(k - 1) + 1] = step[k - 1][f[k - 1]]
        BY <1>2, <4>1, Zenon DEF Follows
      <4>3. f[k] = step[k - 1][f[k - 1]] /\ f[k - 1] \in Nat
        BY <4>1, <4>2
      <4> USE DEF step
      <4> QED
        BY <3>2, <4>1, <4>3
    <3> QED
      BY <3>1, <3>2
  <2> HIDE DEF step
  <2>2. f \in [Nat -> Nat]
    BY <1>2 DEF Follows
  <2> QED
    BY <2>1, <2>2, Zenon
<1> DEFINE Def(p) == p = [k \in Nat |-> IF k = 0 THEN 1 ELSE b * p[k - 1]]
           c == CHOOSE p : Def(p)
<1>4. Def(c)
  BY <1>3, Zenon
<1>5. PowersOf(b) = c
  BY Zenon DEF PowersOf
<1> HIDE DEF c
<1>6. c[0] = 1 /\ \A n \in Nat : c[n + 1] = b * c[n]
  BY <1>4, SMT
<1>7. c \in [Nat -> Nat] /\ \A n \in Nat : c[n] > n
  <2> DEFINE U == {n \in Nat : c[n] \in Nat /\ c[n] > n}
  <2>1. 0 \in U
    BY <1>6
  <2>2. ASSUME NEW n \in U PROVE n + 1 \in U
    <3>1. n \in Nat /\ c[n] \in Nat /\ c[n] > n /\ c[n + 1] = b * c[n]
      BY <1>6
    <3>2. b * c[n] \in Nat /\ b * c[n] >= 2 * c[n]
      BY <3>1, SMT
    <3>3. n + 1 \in Nat /\ c[n + 1] \in Nat /\ c[n + 1] > n + 1
      BY <3>1, <3>2, SMT
    <3> QED
      BY <3>3
  <2>3. U \in SUBSET Nat
    OBVIOUS
  <2> HIDE DEF U
  <2>4. U = Nat
    BY <2>1, <2>2, <2>3, Inductive
  <2>5. \A n \in Nat : c[n] \in Nat /\ c[n] > n
    BY <2>4 DEF U
  <2>6. c = [k \in Nat |-> c[k]]
    <3>1. DOMAIN c = Nat /\ c = [k \in DOMAIN c |-> c[k]]
      BY <1>4, Zenon
    <3> QED
      BY <3>1, Zenon
  <2> QED
    BY <2>5, <2>6, Zenon
<1> QED
  BY <1>5, <1>6, <1>7

LEMMA PlacesFacts ==
  ASSUME NEW b \in Nat, b >= 2, NEW n \in Nat
  PROVE  /\ Places(n, b) \in Nat \ {0} /\ PowersOf(b)[Places(n, b)] > n
         /\ \A j \in 1 .. Places(n, b) - 1 : PowersOf(b)[j] <= n
<1> DEFINE p == PowersOf(b)
           U == {k \in Nat : k >= 1 /\ p[k] > n}
           Least1(k) == p[k] > n /\ \A j \in 1 .. k - 1 : p[j] <= n
<1>1. p \in [Nat -> Nat] /\ \A k \in Nat : p[k] > k
  BY Powers
<1> HIDE DEF p
<1>2. n + 1 \in U
  <2>1. n + 1 \in Nat /\ n + 1 >= 1
    BY SMT
  <2>2. p[n + 1] \in Nat /\ p[n + 1] > n + 1
    BY <1>1, <2>1
  <2> QED
    BY <2>1, <2>2, SMT
<1>3. PICK k \in U : \A j \in U : k <= j
  <2>1. U \in SUBSET Nat /\ U # {}
    BY <1>2
  <2> HIDE DEF U
  <2> QED
    BY <2>1, LeastElement
<1>4. k \in 1 .. n + 1 /\ Least1(k)
  <2>1. k \in Nat /\ k >= 1 /\ k <= n + 1 /\ p[k] > n
    BY <1>2, <1>3
  <2>2. ASSUME NEW j \in 1 .. k - 1 PROVE p[j] <= n
    <3>1. j \in Nat /\ j >= 1 /\ ~(k <= j)
      BY <2>1, SMT
    <3>2. ~(p[j] > n) /\ p[j] \in Nat
      BY <1>1, <1>3, <3>1
    <3> QED
      BY <3>2, SMT
  <2> QED
    BY <2>1, <2>2, SMT
<1>5. Places(n, b) = CHOOSE q \in 1 .. n + 1 : Least1(q)
  BY DEF Places, p
<1> HIDE DEF Least1
<1>6. Places(n, b) \in 1 .. n + 1 /\ Least1(Places(n, b))
  BY <1>4, <1>5, Zenon
<1>7. Places(n, b) \in Nat \ {0}
  BY <1>6, SMT
<1> QED
  BY <1>6, <1>7 DEF Least1, p

LEMMA Euclid ==
  ASSUME NEW x \in Nat, NEW y \in Nat, y > 0
  PROVE  x \div y \in Nat /\ x % y \in 0 .. y - 1 /\ x = y * (x \div y) + (x % y)
<1> DEFINE d == x \div y
           r == x % y
<1>1. d \in Int /\ r \in 0 .. y - 1 /\ r \in Int
  BY SMT
<1>2. r = x - y * d
  BY Z3
<1>3. d \in Nat
  <2> HIDE DEF d, r
  <2>1. ASSUME d <= -1 PROVE FALSE
    <3>1. y * d <= y * (-1)
      BY <1>1, <2>1, SMT
    <3> QED
      BY <1>1, <1>2, <3>1, SMT
  <2> QED
    BY <1>1, <2>1, SMT
<1> HIDE DEF d, r
<1>4. x = y * d + r
  BY <1>1, <1>2, SMT
<1>5. d \in Nat /\ r \in 0 .. y - 1 /\ x = y * d + r
  BY <1>1, <1>3, <1>4
<1> USE DEF d, r
<1> QED
  BY <1>5

LEMMA QuotientUnique ==
  ASSUME NEW x \in Nat, NEW y \in Nat, y > 0, NEW q \in Nat, NEW r \in Nat, r < y, x = y * q + r
  PROVE  x \div y = q
<1>1. PICK a \in Nat, b \in Nat : a = x \div y /\ b < y /\ x = y * a + b
  <2>1. x \div y \in Nat /\ x % y \in 0 .. y - 1 /\ x = y * (x \div y) + (x % y)
    BY Euclid
  <2> QED
    BY <2>1
<1>2. ASSUME a < q PROVE FALSE
  <2>1. y * q >= y * (a + 1)
    BY <1>2, SMT
  <2>2. y * (a + 1) = y * a + y
    BY SMT
  <2> QED
    BY <1>1, <2>1, <2>2, SMT
<1>3. ASSUME q < a PROVE FALSE
  <2>1. y * a >= y * (q + 1)
    BY <1>3, SMT
  <2>2. y * (q + 1) = y * q + y
    BY SMT
  <2> QED
    BY <1>1, <2>1, <2>2, SMT
<1>4. a = q
  BY <1>2, <1>3, SMT
<1> QED
  BY <1>1, <1>4

LEMMA DividedTwice ==
  ASSUME NEW x \in Nat, NEW y \in Nat, y > 0, NEW z \in Nat, z > 0
  PROVE  x \div (y * z) = (x \div y) \div z
<1>1. PICK q \in Nat, r \in Nat : q = x \div y /\ r < y /\ x = y * q + r
  <2>1. x \div y \in Nat /\ x % y \in 0 .. y - 1 /\ x = y * (x \div y) + (x % y)
    BY Euclid
  <2> QED
    BY <2>1
<1>2. PICK s \in Nat, t \in Nat : s = q \div z /\ t < z /\ q = z * s + t
  <2>1. q \div z \in Nat /\ q % z \in 0 .. z - 1 /\ q = z * (q \div z) + (q % z)
    BY Euclid
  <2> QED
    BY <2>1
<1>3. y * z \in Nat /\ y * z > 0 /\ y * t + r \in Nat
  BY SMT
<1>4. y * t + r < y * z
  <2>1. y * (t + 1) <= y * z /\ y * (t + 1) = y * t + y
    BY <1>2, SMT
  <2> QED
    BY <1>1, <2>1, SMT
<1>5. x = (y * z) * s + (y * t + r)
  <2>1. y * q = y * (z * s) + y * t
    BY <1>2, SMT
  <2>2. y * (z * s) = (y * z) * s
    BY SMT
  <2> QED
    BY <1>1, <2>1, <2>2, SMT
<1>6. x \div (y * z) = s
  BY <1>3, <1>4, <1>5, QuotientUnique
<1> QED
  BY <1>1, <1>2, <1>6

LEMMA DigitCharacters == \A k \in 1 .. 16 : DigitChar[k] \in Characters
<1>1. /\ DigitChar[1] = "0" /\ DigitChar[2] = "1" /\ DigitChar[3] = "2" /\ DigitChar[4] = "3"
      /\ DigitChar[5] = "4" /\ DigitChar[6] = "5" /\ DigitChar[7] = "6" /\ DigitChar[8] = "7"
      /\ DigitChar[9] = "8" /\ DigitChar[10] = "9" /\ DigitChar[11] = "a" /\ DigitChar[12] = "b"
      /\ DigitChar[13] = "c" /\ DigitChar[14] = "d" /\ DigitChar[15] = "e" /\ DigitChar[16] = "f"
  BY SMT DEF DigitChar
<1>2. /\ "0" \in Characters /\ "1" \in Characters /\ "2" \in Characters /\ "3" \in Characters
      /\ "4" \in Characters /\ "5" \in Characters /\ "6" \in Characters /\ "7" \in Characters
      /\ "8" \in Characters /\ "9" \in Characters /\ "a" \in Characters /\ "b" \in Characters
      /\ "c" \in Characters /\ "d" \in Characters /\ "e" \in Characters /\ "f" \in Characters
  BY TextAssumption, Zenon DEF Decimals
<1>3. ASSUME NEW k \in 1 .. 16
      PROVE  \/ k = 1 \/ k = 2 \/ k = 3 \/ k = 4 \/ k = 5 \/ k = 6 \/ k = 7 \/ k = 8
             \/ k = 9 \/ k = 10 \/ k = 11 \/ k = 12 \/ k = 13 \/ k = 14 \/ k = 15 \/ k = 16
  BY SMT
<1> QED
  BY <1>1, <1>2, <1>3, Zenon

LEMMA PlacesUnique ==
  ASSUME NEW b \in Nat, b >= 2, NEW n \in Nat, NEW k \in Nat \ {0},
         PowersOf(b)[k] > n, \A j \in 1 .. k - 1 : PowersOf(b)[j] <= n
  PROVE  Places(n, b) = k
<1> DEFINE p == PowersOf(b)
           m == Places(n, b)
<1>1. m \in Nat \ {0} /\ p[m] > n /\ \A j \in 1 .. m - 1 : p[j] <= n
  BY PlacesFacts
<1>2. p \in [Nat -> Nat]
  BY Powers
<1>3. p[k] > n /\ \A j \in 1 .. k - 1 : p[j] <= n
  OBVIOUS
<1> HIDE DEF p, m
<1>4. ASSUME m < k PROVE FALSE
  <2>1. m \in 1 .. k - 1 /\ m \in Nat
    BY <1>1, <1>4, SMT
  <2>2. p[m] <= n /\ p[m] > n /\ p[m] \in Nat
    BY <1>1, <1>2, <1>3, <2>1
  <2> QED
    BY <2>2, SMT
<1>5. ASSUME k < m PROVE FALSE
  <2>1. k \in 1 .. m - 1 /\ k \in Nat
    BY <1>1, <1>5, SMT
  <2>2. p[k] <= n /\ p[k] > n /\ p[k] \in Nat
    BY <1>1, <1>2, <1>3, <2>1
  <2> QED
    BY <2>2, SMT
<1>6. m = k
  BY <1>1, <1>4, <1>5, SMT
<1> QED
  BY <1>6 DEF m

(* A numeral has a digit more than that of the number without its last one. *)
LEMMA OnePlaceMore ==
  ASSUME NEW b \in Nat, b >= 2, NEW n \in Nat, n >= b
  PROVE  n \div b \in Nat /\ n \div b < n /\ Places(n, b) = Places(n \div b, b) + 1
<1> DEFINE p == PowersOf(b)
           s == Places(n \div b, b)
<1>1. PICK m \in Nat, r \in Nat : m = n \div b /\ r < b /\ n = b * m + r
  <2>1. b > 0
    BY SMT
  <2>2. n \div b \in Nat /\ n % b \in 0 .. b - 1 /\ n = b * (n \div b) + (n % b)
    BY <2>1, Euclid
  <2> QED
    BY <2>2
<1>2. s \in Nat \ {0} /\ p[s] > m /\ \A j \in 1 .. s - 1 : p[j] <= m
  BY <1>1, PlacesFacts
<1>3. p \in [Nat -> Nat] /\ p[0] = 1 /\ \A k \in Nat : p[k + 1] = b * p[k]
  BY Powers
<1> HIDE DEF p, s
<1>4. p[s + 1] > n
  <2>1. p[s] \in Nat /\ p[s] > m /\ p[s + 1] = b * p[s]
    BY <1>2, <1>3
  <2>2. b * p[s] >= b * (m + 1) /\ b * (m + 1) = b * m + b
    BY <2>1, SMT
  <2> QED
    BY <1>1, <2>1, <2>2, SMT
<1>5. ASSUME NEW j \in 1 .. (s + 1) - 1 PROVE p[j] <= n
  <2>1. j - 1 \in Nat /\ (j - 1) + 1 = j
    BY <1>2, SMT
  <2>2. p[j - 1] \in Nat /\ p[j] = b * p[j - 1]
    BY <1>3, <2>1
  <2>3. CASE j = 1
    <3>1. p[j] = b
      BY <1>3, <2>2, <2>3, SMT
    <3> QED
      BY <3>1, SMT
  <2>4. CASE j # 1
    <3>1. j - 1 \in 1 .. s - 1
      BY <1>2, <2>4, SMT
    <3>2. p[j - 1] <= m
      BY <1>2, <3>1
    <3>3. b * p[j - 1] <= b * m
      BY <2>2, <3>2, SMT
    <3> QED
      BY <1>1, <2>2, <3>3, SMT
  <2> QED
    BY <2>3, <2>4
<1>6. s + 1 \in Nat \ {0}
  BY <1>2, SMT
<1>7. Places(n, b) = s + 1
  BY <1>4, <1>5, <1>6, PlacesUnique DEF p
<1>8. m < n
  <2>1. CASE m = 0
    BY <2>1, SMT
  <2>2. CASE m # 0
    <3>1. b * m >= 2 * m
      BY SMT
    <3> QED
      BY <1>1, <2>2, <3>1, SMT
  <2> QED
    BY <2>1, <2>2
<1> QED
  BY <1>1, <1>7, <1>8 DEF s

LEMMA NumeralFacts ==
  ASSUME NEW b \in Nat, b >= 2, b <= 16, NEW n \in Nat
  PROVE  Numeral(n, b) \in Seq(Characters) /\ Len(Numeral(n, b)) = Places(n, b)
<1> DEFINE s == Places(n, b)
           e(k) == DigitChar[((n \div PowersOf(b)[s - k]) % b) + 1]
<1>1. s \in Nat
  BY PlacesFacts
<1> HIDE DEF s
<1>2. ASSUME NEW k \in 1 .. s PROVE e(k) \in Characters
  <2>1. s - k \in Nat
    BY <1>1, SMT
  <2>2. PICK q \in Nat : q = PowersOf(b)[s - k] /\ q > 0
    <3>1. PowersOf(b) \in [Nat -> Nat] /\ PowersOf(b)[s - k] > s - k
      BY <2>1, Powers
    <3>2. PowersOf(b)[s - k] \in Nat
      BY <2>1, <3>1
    <3>3. PowersOf(b)[s - k] > 0
      BY <2>1, <3>1, <3>2, SMT
    <3> QED
      BY <3>2, <3>3
  <2>3. PICK a \in Nat : a = n \div q
    BY <2>2, Euclid
  <2>4. a % b \in 0 .. b - 1
    <3>1. b > 0
      BY SMT
    <3> QED
      BY <3>1, Euclid
  <2>5. (a % b) + 1 \in 1 .. 16
    BY <2>4, SMT
  <2>6. e(k) = DigitChar[(a % b) + 1]
    BY <2>2, <2>3
  <2> HIDE DEF e
  <2> QED
    BY <2>5, <2>6, DigitCharacters
<1> DEFINE f == [k \in 1 .. s |-> e(k)]
<1>3. Numeral(n, b) = f
  BY Zenon DEF Numeral, s
<1> HIDE DEF e
<1>4. f \in Seq(Characters) /\ Len(f) = s
  BY <1>1, <1>2, SMT
<1> QED
  BY <1>3, <1>4 DEF s

LEMMA NumeralShort ==
  ASSUME NEW b \in Nat, b >= 2, b <= 16, NEW n \in Nat, n < b
  PROVE  Places(n, b) = 1 /\ Numeral(n, b) = <<DigitChar[(n % b) + 1]>>
<1>1. PowersOf(b)[0] = 1 /\ PowersOf(b)[1] = b
  <2>1. PowersOf(b)[0] = 1 /\ PowersOf(b)[0 + 1] = b * PowersOf(b)[0]
    BY Powers
  <2>2. 0 + 1 = 1 /\ b * 1 = b
    BY SMT
  <2> QED
    BY <2>1, <2>2
<1>2. Places(n, b) = 1
  <2>1. PowersOf(b)[1] > n
    BY <1>1, SMT
  <2>2. \A j \in 1 .. 1 - 1 : PowersOf(b)[j] <= n
    <3>1. 1 .. 1 - 1 = {}
      BY SMT
    <3> QED
      BY <3>1
  <2>3. 1 \in Nat \ {0}
    BY SMT
  <2> QED
    BY <2>1, <2>2, <2>3, PlacesUnique
<1> DEFINE e(k) == DigitChar[((n \div PowersOf(b)[1 - k]) % b) + 1]
<1>3. e(1) = DigitChar[(n % b) + 1]
  <2>1. PowersOf(b)[1 - 1] = 1
    <3>1. 1 - 1 = 0
      BY SMT
    <3> QED
      BY <1>1, <3>1
  <2>2. n \div 1 = n
    BY SMT
  <2> QED
    BY <2>1, <2>2
<1>4. Numeral(n, b) = [k \in 1 .. 1 |-> e(k)]
  BY <1>2, Zenon DEF Numeral
<1> HIDE DEF e
<1>5. [k \in 1 .. 1 |-> e(k)] = <<e(1)>>
  BY SMT
<1> QED
  BY <1>2, <1>3, <1>4, <1>5

LEMMA NumeralLong ==
  ASSUME NEW b \in Nat, b >= 2, b <= 16, NEW n \in Nat, n >= b
  PROVE  Numeral(n, b) = Numeral(n \div b, b) \o <<DigitChar[(n % b) + 1]>>
<1> DEFINE p == PowersOf(b)
           s == Places(n \div b, b)
           e(k) == DigitChar[((n \div p[(s + 1) - k]) % b) + 1]
           f(k) == DigitChar[(((n \div b) \div p[s - k]) % b) + 1]
<1>1. n \div b \in Nat /\ Places(n, b) = s + 1
  BY OnePlaceMore
<1>2. s \in Nat
  BY <1>1, PlacesFacts
<1>3. p \in [Nat -> Nat] /\ p[0] = 1 /\ (\A k \in Nat : p[k + 1] = b * p[k]) /\ \A k \in Nat : p[k] > k
  BY Powers
<1>4. Numeral(n, b) = [k \in 1 .. s + 1 |-> e(k)]
  BY <1>1, Zenon DEF Numeral
<1>5. Numeral(n \div b, b) = [k \in 1 .. s |-> f(k)]
  BY Zenon DEF Numeral
<1>6. e(s + 1) = DigitChar[(n % b) + 1]
  <2> HIDE DEF s, p
  <2>1. (s + 1) - (s + 1) = 0
    BY <1>2, SMT
  <2>2. n \div 1 = n
    BY SMT
  <2> QED
    BY <1>3, <2>1, <2>2
<1>7. ASSUME NEW k \in 1 .. s PROVE e(k) = f(k)
  <2> HIDE DEF s, p
  <2>1. s - k \in Nat /\ (s + 1) - k = (s - k) + 1
    BY <1>2, SMT
  <2>2. PICK q \in Nat : q = p[s - k] /\ q > 0
    <3>1. p[s - k] \in Nat /\ p[s - k] > s - k
      BY <1>3, <2>1
    <3>2. p[s - k] > 0
      BY <2>1, <3>1, SMT
    <3> QED
      BY <3>1, <3>2
  <2>3. p[(s + 1) - k] = b * q
    BY <1>3, <2>1, <2>2
  <2>4. n \div (b * q) = (n \div b) \div q
    <3>1. b > 0
      BY SMT
    <3> QED
      BY <2>2, <3>1, DividedTwice
  <2> QED
    BY <2>2, <2>3, <2>4
<1> DEFINE d == DigitChar[(n % b) + 1]
           F == [k \in 1 .. s |-> f(k)]
<1> HIDE DEF e, f, s
<1>8. ASSUME NEW k \in 1 .. s PROVE f(k) \in Characters
  <2>1. Numeral(n \div b, b) \in Seq(Characters) /\ Len(Numeral(n \div b, b)) = s
    BY <1>1, NumeralFacts DEF s
  <2>2. F[k] \in Characters
    BY <1>5, <2>1, ElementOfSeq
  <2> QED
    BY <2>2
<1>9. d \in Characters
  <2>1. n % b \in 0 .. b - 1
    <3>1. b > 0
      BY SMT
    <3> QED
      BY <3>1, Euclid
  <2>2. (n % b) + 1 \in 1 .. 16
    BY <2>1, SMT
  <2> QED
    BY <2>2, DigitCharacters
<1> HIDE DEF d
<1>10. [k \in 1 .. s + 1 |-> e(k)] = F \o <<d>>
  <2> DEFINE G == [k \in 1 .. s + 1 |-> e(k)]
  <2>1. G \in Seq(Characters) /\ Len(G) = s + 1
    <3>1. ASSUME NEW k \in 1 .. s + 1 PROVE e(k) \in Characters
      <4>1. CASE k = s + 1
        BY <1>6, <1>9, <4>1 DEF d
      <4>2. CASE k # s + 1
        <5>1. k \in 1 .. s
          BY <1>2, <4>2, SMT
        <5> QED
          BY <1>7, <1>8, <5>1
      <4> QED
        BY <4>1, <4>2
    <3> QED
      BY <1>2, <3>1, SMT
  <2>2. F \in Seq(Characters) /\ Len(F) = s
    BY <1>2, <1>8, SMT
  <2>3. F \o <<d>> \in Seq(Characters) /\ Len(F \o <<d>>) = s + 1
        /\ (F \o <<d>>)[s + 1] = d /\ \A k \in 1 .. s : (F \o <<d>>)[k] = f(k)
    <3>1. <<d>> \in Seq(Characters) /\ Len(<<d>>) = 1 /\ <<d>>[1] = d
      BY <1>9, SMT
    <3>2. \A k \in 1 .. s : F[k] = f(k)
      OBVIOUS
    <3> HIDE DEF F
    <3> QED
      BY <1>2, <2>2, <3>1, <3>2, SMT
  <2>4. \A k \in 1 .. s + 1 : G[k] = (F \o <<d>>)[k]
    <3> SUFFICES ASSUME NEW k \in 1 .. s + 1 PROVE e(k) = (F \o <<d>>)[k]
      OBVIOUS
    <3>1. CASE k = s + 1
      BY <1>6, <2>3, <3>1 DEF d
    <3>2. CASE k # s + 1
      <4>1. k \in 1 .. s
        BY <1>2, <3>2, SMT
      <4> QED
        BY <1>7, <2>3, <4>1
    <3> QED
      BY <3>1, <3>2
  <2> HIDE DEF F, G
  <2> QED
    BY <2>1, <2>2, <2>3, <2>4, SeqEqual DEF G
<1> QED
  BY <1>4, <1>5, <1>10 DEF d

LEMMA CopiesFacts ==
  ASSUME NEW E, NEW c \in E, NEW n \in Int
  PROVE  /\ Copies(c, n) \in Seq(E) /\ Len(Copies(c, n)) = IF n > 0 THEN n ELSE 0
         /\ n <= 0 => Copies(c, n) = <<>>
<1> DEFINE m == IF n > 0 THEN n ELSE 0
<1>1. m \in Nat /\ Copies(c, n) = [k \in 1 .. m |-> c]
  BY SMT DEF Copies
<1>2. (n <= 0 => m = 0) /\ (n > 0 => m = n)
  BY SMT
<1> HIDE DEF m
<1>3. [k \in 1 .. m |-> c] \in Seq(E) /\ Len([k \in 1 .. m |-> c]) = m
  BY <1>1, SMT
<1>4. \A s \in Seq(E) : Len(s) = 0 => s = <<>>
  BY EmptySeq, SMT
<1>5. Copies(c, n) \in Seq(E) /\ Len(Copies(c, n)) = m
  BY <1>1, <1>3
<1>6. n <= 0 => Copies(c, n) = <<>>
  BY <1>2, <1>4, <1>5
<1>7. m = IF n > 0 THEN n ELSE 0
  BY <1>2, SMT
<1> QED
  BY <1>5, <1>6, <1>7

(* Strong induction *)
LEMMA InductiveFromAll ==
  ASSUME NEW U \in SUBSET Nat, \A n \in Nat : (\A m \in Nat : m < n => m \in U) => n \in U
  PROVE  U = Nat
<1> SUFFICES ASSUME Nat \ U # {} PROVE FALSE
  OBVIOUS
<1>1. PICK x \in Nat \ U : \A y \in Nat \ U : x <= y
  BY LeastElement
<1>2. \A m \in Nat : m < x => m \in U
  BY <1>1, SMT
<1> QED
  BY <1>1, <1>2

(***************************************************************************)
(* The recursion prints the padding that is left and then the numeral.     *)
(***************************************************************************)
LEMMA PrintnumPads ==
  ASSUME NEW b \in Nat, b >= 2, b <= 16, NEW c \in Characters, NEW n0 \in Nat, NEW w0 \in Int
  PROVE  Printnum(n0, b, w0, c) = Copies(c, w0 - Len(Numeral(n0, b))) \o Numeral(n0, b)
<1> DEFINE Last1(n) == <<DigitChar[(n % b) + 1]>>
           Padded(n, w) == Copies(c, w - Len(Numeral(n, b))) \o Numeral(n, b)
           f == [n \in Nat |-> [w \in Int |-> Padded(n, w)]]
           Body(p, n, w) == (IF n >= b THEN p[n \div b][w - 1] ELSE Copies(c, w - 1)) \o Last1(n)
<1>1. ASSUME NEW n \in Nat, n >= b, NEW w \in Int
      PROVE  n \div b \in Nat /\ n \div b < n /\ Padded(n, w) = Padded(n \div b, w - 1) \o Last1(n)
  <2>1. n \div b \in Nat /\ n \div b < n /\ Places(n, b) = Places(n \div b, b) + 1
    BY <1>1, OnePlaceMore
  <2>2. Numeral(n, b) = Numeral(n \div b, b) \o Last1(n)
    BY <1>1, NumeralLong
  <2>3. PICK m \in Nat : m = n \div b
    BY <2>1
  <2> DEFINE s == Numeral(m, b)
             t == Last1(n)
             l == Len(Numeral(n, b))
             u == Copies(c, w - l)
  <2>4. s \in Seq(Characters) /\ Len(s) = Places(m, b) /\ l = Places(n, b) /\ Places(n, b) \in Nat
    BY NumeralFacts, PlacesFacts
  <2>5. w - l = (w - 1) - Len(s) /\ w - l \in Int
    <3>1. Places(n, b) = Places(m, b) + 1 /\ Places(m, b) \in Nat
      BY <2>1, <2>3, PlacesFacts
    <3> HIDE DEF s, l
    <3> QED
      BY <2>4, <3>1, SMT
  <2>6. t \in Seq(Characters)
    <3>1. b > 0
      BY SMT
    <3>2. n % b \in 0 .. b - 1
      BY <3>1, Euclid
    <3>3. (n % b) + 1 \in 1 .. 16
      BY <3>2, SMT
    <3>4. DigitChar[(n % b) + 1] \in Characters
      BY <3>3, DigitCharacters
    <3> QED
      BY <3>4, SMT
  <2>7. u \in Seq(Characters)
    <3> HIDE DEF l
    <3> QED
      BY <2>5, CopiesFacts
  <2>8. Padded(n, w) = u \o (s \o t)
    BY <2>2, <2>3, Zenon
  <2>9. Padded(n \div b, w - 1) = u \o s
    BY <2>3, <2>5, Zenon
  <2> HIDE DEF s, t, u, Padded
  <2>10. (u \o s) \o t = u \o (s \o t)
    BY <2>4, <2>6, <2>7, SMT
  <2> QED
    BY <2>1, <2>8, <2>9, <2>10 DEF t
<1>2. ASSUME NEW n \in Nat, ~(n >= b), NEW w \in Int
      PROVE  Padded(n, w) = Copies(c, w - 1) \o Last1(n)
  <2>1. Places(n, b) = 1 /\ Numeral(n, b) = Last1(n) /\ Len(Numeral(n, b)) = Places(n, b)
    <3>1. n < b
      BY <1>2, SMT
    <3> QED
      BY <3>1, NumeralShort, NumeralFacts
  <2> QED
    BY <2>1, Zenon
<1>3. f = [n \in Nat |-> [w \in Int |-> Body(f, n, w)]]
  <2>1. ASSUME NEW n \in Nat, NEW w \in Int PROVE Padded(n, w) = Body(f, n, w)
    <3> HIDE DEF Padded, Last1
    <3>1. CASE n >= b
      <4>1. n \div b \in Nat /\ w - 1 \in Int /\ Padded(n, w) = Padded(n \div b, w - 1) \o Last1(n)
        <5>1. w - 1 \in Int
          BY SMT
        <5> QED
          BY <1>1, <3>1, <5>1, Zenon
      <4>2. f[n \div b][w - 1] = Padded(n \div b, w - 1)
        BY <4>1
      <4> QED
        BY <3>1, <4>1, <4>2, Zenon
    <3>2. CASE ~(n >= b)
      BY <1>2, <3>2, Zenon
    <3> QED
      BY <3>1, <3>2
  <2> HIDE DEF Body, Padded
  <2>2. \A n \in Nat : [w \in Int |-> Padded(n, w)] = [w \in Int |-> Body(f, n, w)]
    BY <2>1, Zenon
  <2> QED
    BY <2>2, Zenon DEF f
<1> DEFINE Def(p) == p = [n \in Nat |-> [w \in Int |-> Body(p, n, w)]]
           q == CHOOSE p : Def(p)
<1>4. Def(q)
  <2>1. Def(f)
    BY <1>3
  <2> HIDE DEF Def
  <2> QED
    BY <2>1, Zenon
<1>5. Printnum(n0, b, w0, c) = q[n0][w0]
  BY Zenon DEF Printnum
<1> HIDE DEF q
<1>6. \A n \in Nat : \A w \in Int : q[n][w] = Body(q, n, w)
  <2> HIDE DEF Body
  <2>1. ASSUME NEW n \in Nat PROVE q[n] = [w \in Int |-> Body(q, n, w)]
    BY <1>4, Zenon
  <2> QED
    BY <2>1, Zenon
<1> DEFINE U == {n \in Nat : \A w \in Int : q[n][w] = Padded(n, w)}
<1>7. ASSUME NEW n \in Nat, \A m \in Nat : m < n => m \in U
      PROVE  n \in U
  <2> SUFFICES ASSUME NEW w \in Int PROVE q[n][w] = Padded(n, w)
    OBVIOUS
  <2>1. q[n][w] = Body(q, n, w)
    BY <1>6
  <2> HIDE DEF Padded, Last1
  <2>2. CASE n >= b
    <3>1. n \div b \in Nat /\ n \div b < n /\ w - 1 \in Int /\ Padded(n, w) = Padded(n \div b, w - 1) \o Last1(n)
      <4>1. w - 1 \in Int
        BY SMT
      <4> QED
        BY <1>1, <2>2, <4>1, Zenon
    <3>2. n \div b \in U
      BY <1>7, <3>1
    <3>3. q[n \div b][w - 1] = Padded(n \div b, w - 1)
      BY <3>1, <3>2
    <3> HIDE DEF U
    <3> QED
      BY <2>1, <2>2, <3>1, <3>3, Zenon
  <2>3. CASE ~(n >= b)
    BY <1>2, <2>1, <2>3, Zenon
  <2> QED
    BY <2>2, <2>3
<1>8. U \in SUBSET Nat
  OBVIOUS
<1>9. n0 \in U
  <2> HIDE DEF U
  <2>1. U = Nat
    BY <1>7, <1>8, InductiveFromAll
  <2> QED
    BY <2>1
<1>10. q[n0][w0] = Padded(n0, w0)
  BY <1>9
<1> QED
  BY <1>5, <1>10

Units == 0 .. Word - 1
TextTo(c, k) == Joined([j \in 1 .. Len(c) |-> Text(c[j])])[k]
WordsTo(c, k) == Joined([j \in 1 .. Len(c) |-> Words(c[j])])[k]
MeaningTo(c, k) == Joined([j \in 1 .. Len(c) |-> Meaning(c[j])])[k]

LEMMA DirectiveTypes ==
  ASSUME NEW d, WellFormed(d)
  PROVE  /\ d.pad \in Seq(Characters) /\ d.width.text \in Seq(Characters)
         /\ d.precision.text \in Seq(Characters) /\ d.long \in Seq(Characters)
         /\ d.width.words \in Seq(Units) /\ d.precision.words \in Seq(Units) /\ d.arg \in Seq(Units)
         /\ d.width.value \in Int /\ d.precision.value \in Int
         /\ d.conv \in Characters \cup {"plain", "end"}
<1>1. d \in Directive
  BY DEF WellFormed
<1>2. d.width \in Quantity /\ d.precision \in Quantity
  BY <1>1 DEF Directive
<1> QED
  BY <1>1, <1>2 DEF Directive, Quantity, Units

LEMMA CallTypes ==
  ASSUME NEW c \in Calls
  PROVE  /\ Len(c) \in Nat
         /\ \A k \in 1 .. Len(c) : WellFormed(c[k]) /\ (c[k].conv = "end" => k = Len(c))
<1>1. c \in Seq(Directive) /\ \A k \in 1 .. Len(c) : WellFormed(c[k]) /\ (c[k].conv = "end" => k = Len(c))
  BY CallsAssumption
<1> QED
  BY <1>1, LenProperties

LEMMA Singleton == ASSUME NEW E, NEW e \in E PROVE <<e>> \in Seq(E) /\ Len(<<e>>) = 1 /\ <<e>>[1] = e
  BY SMT

Glues(u, a, b) ==
  /\ u = a \o b /\ Len(u) = Len(a) + Len(b)
  /\ \A i \in 1 .. Len(a) : u[i] = a[i]
  /\ \A i \in 1 .. Len(b) : u[Len(a) + i] = b[i]
LEMMA Glue ==
  ASSUME NEW E, NEW a \in Seq(E), NEW b \in Seq(E)
  PROVE  \E u \in Seq(E) : Glues(u, a, b)
<1>1. PICK u : u = a \o b
  OBVIOUS
<1>2. u \in Seq(E) /\ Glues(u, a, b)
  BY <1>1, Glued DEF Glues
<1> QED
  BY <1>2

(* Five texts and a last one, one after the other *)
SixIn(t, E, a, b, c, d, e, f) ==
  /\ t \in Seq(E) /\ Len(t) = Len(a) + Len(b) + Len(c) + Len(d) + Len(e) + Len(f)
  /\ \A i \in 1 .. Len(a) : t[i] = a[i]
  /\ \A i \in 1 .. Len(b) : t[Len(a) + i] = b[i]
  /\ \A i \in 1 .. Len(c) : t[Len(a) + Len(b) + i] = c[i]
  /\ \A i \in 1 .. Len(d) : t[Len(a) + Len(b) + Len(c) + i] = d[i]
  /\ \A i \in 1 .. Len(e) : t[Len(a) + Len(b) + Len(c) + Len(d) + i] = e[i]
  /\ \A i \in 1 .. Len(f) : t[Len(a) + Len(b) + Len(c) + Len(d) + Len(e) + i] = f[i]
LEMMA SixTexts ==
  ASSUME NEW E, NEW a \in Seq(E), NEW b \in Seq(E), NEW c \in Seq(E), NEW d \in Seq(E), NEW e \in Seq(E),
         NEW f \in Seq(E), NEW t, t = a \o b \o c \o d \o e \o f
  PROVE  SixIn(t, E, a, b, c, d, e, f)
<1>1. PICK u \in Seq(E) : Glues(u, a, b)
  BY Glue
<1>2. PICK v \in Seq(E) : Glues(v, u, c)
  BY Glue
<1>3. PICK w \in Seq(E) : Glues(w, v, d)
  BY Glue
<1>4. PICK x \in Seq(E) : Glues(x, w, e)
  BY Glue
<1>5. PICK y \in Seq(E) : Glues(y, x, f)
  BY Glue
<1> USE DEF Glues
<1>6. t = y
  BY <1>1, <1>2, <1>3, <1>4, <1>5
<1>7. /\ Len(a) \in Nat /\ Len(b) \in Nat /\ Len(c) \in Nat /\ Len(d) \in Nat /\ Len(e) \in Nat /\ Len(f) \in Nat
  BY LenProperties
<1>8. /\ Len(y) = Len(a) + Len(b) + Len(c) + Len(d) + Len(e) + Len(f)
      /\ Len(x) = Len(a) + Len(b) + Len(c) + Len(d) + Len(e)
      /\ Len(w) = Len(a) + Len(b) + Len(c) + Len(d)
      /\ Len(v) = Len(a) + Len(b) + Len(c)
  BY <1>1, <1>2, <1>3, <1>4, <1>5
<1>9. \A i \in 1 .. Len(a) : y[i] = a[i]
  BY <1>1, <1>2, <1>3, <1>4, <1>5, <1>7, <1>8, SMT
<1>10. \A i \in 1 .. Len(b) : y[Len(a) + i] = b[i]
  <2> SUFFICES ASSUME NEW i \in 1 .. Len(b) PROVE y[Len(a) + i] = b[i]
    OBVIOUS
  <2>1. /\ Len(a) + i \in 1 .. Len(u) /\ Len(a) + i \in 1 .. Len(v) /\ Len(a) + i \in 1 .. Len(w)
        /\ Len(a) + i \in 1 .. Len(x)
    BY <1>1, <1>7, <1>8, SMT
  <2> QED
    BY <1>1, <1>2, <1>3, <1>4, <1>5, <2>1
<1>11. \A i \in 1 .. Len(c) : y[Len(v) - Len(c) + i] = c[i]
  <2> SUFFICES ASSUME NEW i \in 1 .. Len(c) PROVE y[Len(v) - Len(c) + i] = c[i]
    OBVIOUS
  <2>1. /\ Len(v) - Len(c) + i = Len(u) + i /\ Len(u) + i \in 1 .. Len(v) /\ Len(u) + i \in 1 .. Len(w)
        /\ Len(u) + i \in 1 .. Len(x)
    BY <1>1, <1>7, <1>8, SMT
  <2> QED
    BY <1>1, <1>2, <1>3, <1>4, <1>5, <2>1
<1>12. \A i \in 1 .. Len(d) : y[Len(v) + i] = d[i]
  <2> SUFFICES ASSUME NEW i \in 1 .. Len(d) PROVE y[Len(v) + i] = d[i]
    OBVIOUS
  <2>1. Len(v) + i \in 1 .. Len(w) /\ Len(v) + i \in 1 .. Len(x)
    BY <1>1, <1>7, <1>8, SMT
  <2> QED
    BY <1>1, <1>2, <1>3, <1>4, <1>5, <2>1
<1>13. \A i \in 1 .. Len(e) : y[Len(w) + i] = e[i]
  <2> SUFFICES ASSUME NEW i \in 1 .. Len(e) PROVE y[Len(w) + i] = e[i]
    OBVIOUS
  <2>1. Len(w) + i \in 1 .. Len(x)
    BY <1>1, <1>7, <1>8, SMT
  <2> QED
    BY <1>1, <1>2, <1>3, <1>4, <1>5, <2>1
<1>14. Len(v) - Len(c) = Len(a) + Len(b)
  BY <1>7, <1>8, SMT
<1> QED
  BY <1>5, <1>6, <1>8, <1>9, <1>10, <1>11, <1>12, <1>13, <1>14 DEF SixIn

(* how far a directive's padding flags go, its width, its precision and its length *)
PadEnd(d) == 1 + Len(d.pad)
WidthEnd(d) == PadEnd(d) + Len(d.width.text)
PointEnd(d) == WidthEnd(d) + Len(d.precision.text)
LongEnd(d) == PointEnd(d) + Len(d.long)

LEMMA CharactersFacts ==
  /\ "%" \in Characters /\ NUL \in Characters /\ " " \in Characters /\ "-" \in Characters
  /\ "0" \in Characters /\ "x" \in Characters /\ "X" \in Characters /\ "?" \in Characters
  /\ "error " \in Characters /\ "(" \in Characters /\ "n" \in Characters /\ "u" \in Characters
  /\ "l" \in Characters /\ ")" \in Characters
  BY TextAssumption, Zenon DEF Decimals, NUL

LEMMA TextFacts ==
  ASSUME NEW d, WellFormed(d), d.conv # "plain"
  PROVE  LET t == Text(d) IN
         /\ t \in Seq(Characters) /\ t[1] = "%"
         /\ \A i \in 1 .. Len(d.pad) : t[1 + i] = d.pad[i]
         /\ \A i \in 1 .. Len(d.width.text) : t[PadEnd(d) + i] = d.width.text[i]
         /\ \A i \in 1 .. Len(d.precision.text) : t[WidthEnd(d) + i] = d.precision.text[i]
         /\ \A i \in 1 .. Len(d.long) : t[PointEnd(d) + i] = d.long[i]
         /\ d.conv # "end" => t[LongEnd(d) + 1] = d.conv /\ Len(t) = LongEnd(d) + 1
         /\ d.conv = "end" => Len(t) = LongEnd(d)
<1> DEFINE f == IF d.conv = "end" THEN <<>> ELSE <<d.conv>>
           p == <<"%">>
           t == Text(d)
           a == d.pad
           b == d.width.text
           g == d.precision.text
           l == d.long
<1>1. t = p \o a \o b \o g \o l \o f
  BY Zenon DEF Text
<1>2. /\ a \in Seq(Characters) /\ b \in Seq(Characters) /\ g \in Seq(Characters) /\ l \in Seq(Characters)
      /\ d.conv \in Characters \cup {"plain", "end"}
  BY DirectiveTypes
<1>3. f \in Seq(Characters) /\ (d.conv = "end" => Len(f) = 0) /\ (d.conv # "end" => Len(f) = 1 /\ f[1] = d.conv)
  <2>1. CASE d.conv = "end"
    BY <2>1, EmptySeq
  <2>2. CASE d.conv # "end"
    BY <1>2, <2>2, Singleton
  <2> QED
    BY <2>1, <2>2
<1>4. p \in Seq(Characters) /\ Len(p) = 1 /\ p[1] = "%"
  BY CharactersFacts, Singleton
<1> HIDE DEF f, p, t, a, b, g, l
<1>5. /\ t \in Seq(Characters) /\ Len(t) = Len(p) + Len(a) + Len(b) + Len(g) + Len(l) + Len(f)
      /\ \A i \in 1 .. Len(p) : t[i] = p[i]
      /\ \A i \in 1 .. Len(a) : t[Len(p) + i] = a[i]
      /\ \A i \in 1 .. Len(b) : t[Len(p) + Len(a) + i] = b[i]
      /\ \A i \in 1 .. Len(g) : t[Len(p) + Len(a) + Len(b) + i] = g[i]
      /\ \A i \in 1 .. Len(l) : t[Len(p) + Len(a) + Len(b) + Len(g) + i] = l[i]
      /\ \A i \in 1 .. Len(f) : t[Len(p) + Len(a) + Len(b) + Len(g) + Len(l) + i] = f[i]
  <2>1. SixIn(t, Characters, p, a, b, g, l, f)
    BY <1>1, <1>2, <1>3, <1>4, SixTexts, Zenon
  <2> QED
    BY <2>1, Zenon DEF SixIn
<1>6. /\ Len(a) \in Nat /\ Len(b) \in Nat /\ Len(g) \in Nat /\ Len(l) \in Nat
  BY <1>2, LenProperties
<1>7. /\ PadEnd(d) = Len(p) + Len(a) /\ WidthEnd(d) = Len(p) + Len(a) + Len(b)
      /\ PointEnd(d) = Len(p) + Len(a) + Len(b) + Len(g)
      /\ LongEnd(d) = Len(p) + Len(a) + Len(b) + Len(g) + Len(l)
  BY <1>4 DEF PadEnd, WidthEnd, PointEnd, LongEnd, a, b, g, l
<1>8. t[1] = "%"
  BY <1>4, <1>5
<1>9. d.conv # "end" => t[LongEnd(d) + 1] = d.conv /\ Len(t) = LongEnd(d) + 1
  BY <1>3, <1>5, <1>7
<1>10. d.conv = "end" => Len(t) = LongEnd(d)
  BY <1>3, <1>4, <1>5, <1>6, <1>7, SMT
<1> QED
  BY <1>4, <1>5, <1>7, <1>8, <1>9, <1>10 DEF t, a, b, g, l

LEMMA TextTyped ==
  ASSUME NEW d, WellFormed(d)
  PROVE  Text(d) \in Seq(Characters) /\ Len(Text(d)) \in Nat \ {0}
<1>1. CASE d.conv = "plain"
  <2>1. Text(d) = d.pad /\ d.pad # <<>> /\ d.pad \in Seq(Characters)
    BY <1>1, DirectiveTypes DEF Text, WellFormed
  <2> QED
    BY <2>1, EmptySeq
<1>2. CASE d.conv # "plain"
  <2>1. Text(d) \in Seq(Characters)
    BY <1>2, TextFacts
  <2>2. Len(Text(d)) = LongEnd(d) \/ Len(Text(d)) = LongEnd(d) + 1
    BY <1>2, TextFacts
  <2>3. Len(d.pad) \in Nat /\ Len(d.width.text) \in Nat /\ Len(d.precision.text) \in Nat /\ Len(d.long) \in Nat
    BY DirectiveTypes, LenProperties
  <2>4. LongEnd(d) \in Nat \ {0}
    <3>1. PICK i \in Nat, j \in Nat, m \in Nat, n \in Nat :
            i = Len(d.pad) /\ j = Len(d.width.text) /\ m = Len(d.precision.text) /\ n = Len(d.long)
      BY <2>3
    <3>2. LongEnd(d) = 1 + i + j + m + n
      BY <3>1 DEF PadEnd, WidthEnd, PointEnd, LongEnd
    <3> QED
      BY <3>2, SMT
  <2> QED
    BY <2>1, <2>2, <2>4, SMT
<1> QED
  BY <1>1, <1>2

LEMMA WordsFacts ==
  ASSUME NEW d, WellFormed(d)
  PROVE  LET v == Words(d)
             a == d.width.words
             b == d.precision.words
         IN /\ v \in Seq(Units) /\ Len(a) \in Nat /\ Len(b) \in Nat /\ Len(d.arg) \in Nat
            /\ Len(v) = Len(a) + Len(b) + Len(d.arg)
            /\ \A i \in 1 .. Len(a) : v[i] = a[i]
            /\ \A i \in 1 .. Len(b) : v[Len(a) + i] = b[i]
            /\ \A i \in 1 .. Len(d.arg) : v[Len(a) + Len(b) + i] = d.arg[i]
<1> DEFINE v == Words(d)
           a == d.width.words
           b == d.precision.words
           g == d.arg
<1>1. a \in Seq(Units) /\ b \in Seq(Units) /\ g \in Seq(Units)
  BY DirectiveTypes
<1>2. v = (a \o b) \o g
  BY DEF Words
<1> HIDE DEF v, a, b, g
<1>3. PICK u \in Seq(Units) : Glues(u, a, b)
  BY <1>1, Glue
<1>4. PICK y \in Seq(Units) : Glues(y, u, g)
  BY <1>1, Glue
<1>5. v = y
  BY <1>2, <1>3, <1>4 DEF Glues
<1>6. Len(a) \in Nat /\ Len(b) \in Nat /\ Len(g) \in Nat
  BY <1>1, LenProperties
<1>7. Len(u) = Len(a) + Len(b) /\ Len(y) = Len(a) + Len(b) + Len(g)
  BY <1>3, <1>4 DEF Glues
<1>8. \A i \in 1 .. Len(a) : y[i] = a[i]
  BY <1>3, <1>4, <1>6, <1>7, SMT DEF Glues
<1>9. \A i \in 1 .. Len(b) : y[Len(a) + i] = b[i]
  <2> SUFFICES ASSUME NEW i \in 1 .. Len(b) PROVE y[Len(a) + i] = b[i]
    OBVIOUS
  <2>1. Len(a) + i \in 1 .. Len(u)
    BY <1>6, <1>7, SMT
  <2> QED
    BY <1>3, <1>4, <2>1 DEF Glues
<1>10. \A i \in 1 .. Len(g) : y[Len(a) + Len(b) + i] = g[i]
  BY <1>4, <1>7 DEF Glues
<1> QED
  BY <1>5, <1>6, <1>7, <1>8, <1>9, <1>10 DEF v, a, b, g

(* where the j-th character behind directive k's beginning is, and what is left of *)
(* the arguments when the first j words of directive k have been taken *)
Place(c, k, j) == Len(TextTo(c, k - 1)) + j + 1
Left(c, k, j) == SubSeq(WordsTo(c, Len(c)), Len(WordsTo(c, k - 1)) + j + 1, Len(WordsTo(c, Len(c))))
Format(c) == Append(Concat(Text, c), NUL)

LEMMA WholeConcats ==
  ASSUME NEW c
  PROVE  /\ Concat(Text, c) = TextTo(c, Len(c))
         /\ Concat(Words, c) = WordsTo(c, Len(c))
         /\ Concat(Meaning, c) = MeaningTo(c, Len(c))
<1>1. Concat(Text, c) = TextTo(c, Len(c))
  BY DEF Concat, TextTo
<1>2. Concat(Words, c) = WordsTo(c, Len(c))
  BY DEF Concat, WordsTo
<1>3. Concat(Meaning, c) = MeaningTo(c, Len(c))
  BY DEF Concat, MeaningTo
<1> QED
  BY <1>1, <1>2, <1>3

LEMMA PiecesOf ==
  ASSUME NEW E, NEW n \in Nat, NEW s \in [1 .. n -> Seq(E)]
  PROVE  Pieces(s, n, E)
<1>1. s \in Seq(Seq(E)) /\ Len(s) = n
  BY SMT
<1> QED
  BY <1>1 DEF Pieces

LEMMA Appended ==
  ASSUME NEW E, NEW s \in Seq(E), NEW e \in E
  PROVE  /\ Append(s, e) \in Seq(E) /\ Len(Append(s, e)) = Len(s) + 1 /\ Append(s, e)[Len(s) + 1] = e
         /\ \A i \in 1 .. Len(s) : Append(s, e)[i] = s[i]
  BY SMT

LEMMA FormatFacts ==
  ASSUME NEW c \in Calls
  PROVE  /\ Format(c) \in Seq(Characters) /\ Len(Format(c)) \in Nat
         /\ Place(c, 1, 0) = 1 /\ Place(c, Len(c) + 1, 0) = Len(Format(c))
         /\ Format(c)[Len(Format(c))] = NUL
<1> DEFINE n == Len(c)
           s == [j \in 1 .. n |-> Text(c[j])]
<1>1. n \in Nat /\ \A k \in 1 .. n : WellFormed(c[k])
  BY CallTypes
<1>2. s \in [1 .. n -> Seq(Characters)]
  BY <1>1, TextTyped
<1> HIDE DEF n, s
<1>3. Pieces(s, n, Characters)
  BY <1>1, <1>2, PiecesOf
<1>4. Joined(s) \in [0 .. n -> Seq(Characters)] /\ Joined(s)[0] = <<>>
  BY <1>3, JoinedFacts
<1>5. Joined(s)[n] \in Seq(Characters)
  BY <1>1, <1>4
<1>6. TextTo(c, n) = Joined(s)[n] /\ TextTo(c, 0) = Joined(s)[0]
  BY DEF TextTo, n, s
<1>7. Format(c) = Append(TextTo(c, n), NUL)
  BY WholeConcats DEF Format, n
<1>8. /\ Format(c) \in Seq(Characters) /\ Len(Format(c)) = Len(TextTo(c, n)) + 1
      /\ Format(c)[Len(TextTo(c, n)) + 1] = NUL
  <2>1. PICK t \in Seq(Characters) : t = TextTo(c, n)
    BY <1>5, <1>6
  <2>2. NUL \in Characters
    BY CharactersFacts
  <2>3. /\ Append(t, NUL) \in Seq(Characters) /\ Len(Append(t, NUL)) = Len(t) + 1
        /\ Append(t, NUL)[Len(t) + 1] = NUL
    BY <2>2, Appended
  <2> QED
    BY <1>7, <2>1, <2>3, Zenon
<1>9. Len(TextTo(c, n)) \in Nat /\ Len(TextTo(c, 0)) = 0
  BY <1>4, <1>5, <1>6, LenProperties
<1>10. Place(c, 1, 0) = Len(TextTo(c, 0)) + 1 /\ Place(c, n + 1, 0) = Len(TextTo(c, n)) + 1
  <2>1. 1 - 1 = 0 /\ n + 1 - 1 = n
    BY <1>1, SMT
  <2>2. Place(c, 1, 0) = Len(TextTo(c, 0)) + 0 + 1 /\ Place(c, n + 1, 0) = Len(TextTo(c, n)) + 0 + 1
    <3>1. \A i : Place(c, i, 0) = Len(TextTo(c, i - 1)) + 0 + 1
      BY Zenon DEF Place
    <3>2. \A i, m : i - 1 = m => Place(c, i, 0) = Len(TextTo(c, m)) + 0 + 1
      BY <3>1, Zenon
    <3>3. 1 - 1 = 0 => Place(c, 1, 0) = Len(TextTo(c, 0)) + 0 + 1
      BY <3>2, Zenon
    <3>4. PICK q : q = n + 1
      OBVIOUS
    <3>5. q - 1 = n
      BY <1>1, <3>4, SMT
    <3>6. Place(c, q, 0) = Len(TextTo(c, n)) + 0 + 1
      BY <3>2, <3>5, Zenon
    <3> QED
      BY <2>1, <3>3, <3>4, <3>6
  <2> QED
    BY <1>9, <2>2, SMT
<1> QED
  BY <1>8, <1>9, <1>10 DEF n

LEMMA FormatAt ==
  ASSUME NEW c \in Calls, NEW k \in 1 .. Len(c)
  PROVE  /\ Place(c, k, 0) \in Nat \ {0}
         /\ \A j \in Nat : Place(c, k, j) = Place(c, k, 0) + j
         /\ Place(c, k, Len(Text(c[k]))) = Place(c, k + 1, 0)
         /\ Place(c, k + 1, 0) <= Len(Format(c))
         /\ \A j \in 0 .. Len(Text(c[k])) - 1 : Format(c)[Place(c, k, j)] = Text(c[k])[j + 1]
<1> DEFINE n == Len(c)
           s == [j \in 1 .. n |-> Text(c[j])]
           t == Text(c[k])
<1>1. n \in Nat /\ \A i \in 1 .. n : WellFormed(c[i])
  BY CallTypes
<1>2. s \in [1 .. n -> Seq(Characters)] /\ s[k] = t /\ Len(t) \in Nat
  BY <1>1, TextTyped
<1>a. TextTo(c, n) = Joined(s)[n] /\ TextTo(c, k) = Joined(s)[k] /\ TextTo(c, k - 1) = Joined(s)[k - 1]
  BY DEF TextTo
<1>b. k \in 1 .. n
  OBVIOUS
<1>c. Format(c) = Append(TextTo(c, n), NUL)
  BY WholeConcats DEF Format
<1> HIDE DEF n, s, t
<1>3. Pieces(s, n, Characters)
  BY <1>1, <1>2, PiecesOf
<1>4. Joined(s)[n] \in Seq(Characters)
  <2>1. n \in 0 .. n
    BY <1>1, SMT
  <2>2. Joined(s) \in [0 .. n -> Seq(Characters)]
    BY <1>3, JoinedFacts
  <2> QED
    BY <2>1, <2>2
<1>5. /\ Len(Joined(s)[k - 1]) \in Nat /\ Len(Joined(s)[n]) \in Nat
      /\ Len(Joined(s)[k]) = Len(Joined(s)[k - 1]) + Len(t)
      /\ Len(Joined(s)[k]) <= Len(Joined(s)[n])
      /\ \A j \in 1 .. Len(t) : Joined(s)[n][Len(Joined(s)[k - 1]) + j] = t[j]
  <2>1. /\ Len(Joined(s)[k - 1]) \in Nat /\ Len(Joined(s)[n]) \in Nat
        /\ Len(Joined(s)[k]) = Len(Joined(s)[k - 1]) + Len(s[k])
        /\ Len(Joined(s)[k]) <= Len(Joined(s)[n])
        /\ \A j \in 1 .. Len(s[k]) : Joined(s)[n][Len(Joined(s)[k - 1]) + j] = s[k][j]
    <3>1. LiesAt(s, n, k)
      BY <1>3, <1>b, JoinedAt
    <3> QED
      BY <3>1, Zenon DEF LiesAt
  <2> QED
    BY <1>2, <2>1
<1> DEFINE B == Len(TextTo(c, k - 1))
           N == Len(TextTo(c, n))
           T == TextTo(c, n)
           L == Len(t)
<1>6. /\ B \in Nat /\ N \in Nat /\ L \in Nat /\ Len(TextTo(c, k)) = B + L /\ B + L <= N
      /\ \A j \in 1 .. L : T[B + j] = t[j]
  BY <1>2, <1>5, <1>a
<1>7. Len(Format(c)) = N + 1 /\ \A i \in 1 .. N : Format(c)[i] = T[i]
  <2>1. PICK v \in Seq(Characters) : v = TextTo(c, n)
    BY <1>4, <1>a
  <2>2. NUL \in Characters
    BY CharactersFacts
  <2>3. Len(Append(v, NUL)) = Len(v) + 1 /\ \A i \in 1 .. Len(v) : Append(v, NUL)[i] = v[i]
    BY <2>2, Appended
  <2> QED
    BY <1>c, <2>1, <2>3, Zenon
<1>8. k + 1 - 1 = k
  BY <1>b, SMT
<1>9. Place(c, k + 1, 0) = B + L + 0 + 1 /\ \A j : Place(c, k, j) = B + j + 1
  <2>1. \A j : Place(c, k, j) = B + j + 1
    BY Zenon DEF Place
  <2>2. Place(c, k + 1, 0) = Len(TextTo(c, k)) + 0 + 1
    <3>1. PICK q : q = k + 1 /\ q - 1 = k
      BY <1>8
    <3>2. Place(c, q, 0) = Len(TextTo(c, q - 1)) + 0 + 1
      BY Zenon DEF Place
    <3> QED
      BY <3>1, <3>2
  <2>3. Len(TextTo(c, k)) = B + L
    BY <1>6
  <2> QED
    BY <2>1, <2>2, <2>3, Zenon
<1> HIDE DEF B, N, T, L
<1>10. ASSUME NEW j \in 0 .. L - 1 PROVE Format(c)[Place(c, k, j)] = t[j + 1]
  <2>1. j + 1 \in 1 .. L /\ B + (j + 1) \in 1 .. N /\ B + j + 1 = B + (j + 1)
    BY <1>6, SMT
  <2> QED
    BY <1>6, <1>7, <1>9, <2>1
<1>11. /\ Place(c, k, 0) \in Nat \ {0} /\ \A j \in Nat : Place(c, k, j) = Place(c, k, 0) + j
       /\ Place(c, k, L) = Place(c, k + 1, 0) /\ Place(c, k + 1, 0) <= N + 1
  BY <1>6, <1>9, SMT
<1> QED
  BY <1>7, <1>10, <1>11 DEF t, L

LEMMA Drop ==
  ASSUME NEW E, NEW w \in Seq(E), NEW n \in 0 .. Len(w), NEW s, s = SubSeq(w, n + 1, Len(w))
  PROVE  /\ s \in Seq(E) /\ Len(s) = Len(w) - n
         /\ \A i \in 1 .. Len(w) - n : s[i] = w[n + i]
         /\ \A m \in 0 .. Len(w) - n : SubSeq(s, m + 1, Len(s)) = SubSeq(w, (n + m) + 1, Len(w))
         /\ n < Len(w) => Tail(s) = SubSeq(w, (n + 1) + 1, Len(w))
<1>1. Len(w) \in Nat /\ n \in Nat /\ n <= Len(w)
  BY LenProperties
<1>2. s \in Seq(E) /\ Len(s) = Len(w) - n /\ \A i \in 1 .. Len(w) - n : s[i] = w[n + i]
  <2>1. s = [i \in 1 .. Len(w) - n |-> w[n + i]]
    BY <1>1, SMT
  <2> QED
    BY <1>1, <2>1, SMT
<1>3. ASSUME NEW m \in 0 .. Len(w) - n PROVE SubSeq(s, m + 1, Len(s)) = SubSeq(w, (n + m) + 1, Len(w))
  BY <1>1, <1>2, SMT
<1>4. ASSUME n < Len(w) PROVE Tail(s) = SubSeq(w, (n + 1) + 1, Len(w))
  <2>1. Tail(s) = SubSeq(s, 1 + 1, Len(s)) /\ 1 \in 0 .. Len(w) - n
    BY <1>1, <1>2, <1>4, SMT
  <2> QED
    BY <1>3, <2>1
<1> QED
  BY <1>2, <1>3, <1>4

LEMMA WordsTyped == ASSUME NEW d, WellFormed(d) PROVE Words(d) \in Seq(Units) /\ Len(Words(d)) \in Nat
<1>1. Words(d) \in Seq(Units)
  BY WordsFacts
<1> QED
  BY <1>1, LenProperties

LEMMA LeftFacts ==
  ASSUME NEW c \in Calls
  PROVE  Left(c, 1, 0) = Concat(Words, c) /\ Left(c, Len(c) + 1, 0) = <<>>
<1> DEFINE n == Len(c)
           s == [j \in 1 .. n |-> Words(c[j])]
<1>1. n \in Nat /\ \A k \in 1 .. n : WellFormed(c[k])
  BY CallTypes
<1>2. s \in [1 .. n -> Seq(Units)]
  BY <1>1, WordsTyped
<1>a. WordsTo(c, n) = Joined(s)[n] /\ WordsTo(c, 0) = Joined(s)[0]
  BY DEF WordsTo
<1>b. Concat(Words, c) = WordsTo(c, n)
  BY WholeConcats
<1> HIDE DEF n, s
<1>3. Pieces(s, n, Units)
  BY <1>1, <1>2, PiecesOf
<1>4. Joined(s) \in [0 .. n -> Seq(Units)] /\ Joined(s)[0] = <<>>
  BY <1>3, JoinedFacts
<1>5. PICK w \in Seq(Units) : w = WordsTo(c, n)
  BY <1>1, <1>4, <1>a
<1>6. Len(w) \in Nat /\ Len(WordsTo(c, 0)) = 0
  BY <1>4, <1>5, <1>a, LenProperties
<1>7. \A i, m : i - 1 = m => Left(c, i, 0) = SubSeq(w, Len(WordsTo(c, m)) + 0 + 1, Len(w))
  BY <1>5, Zenon DEF Left, n
<1>8. Left(c, 1, 0) = SubSeq(w, Len(WordsTo(c, 0)) + 0 + 1, Len(w))
  <2>1. 1 - 1 = 0
    BY SMT
  <2> QED
    BY <1>7, <2>1, Zenon
<1>9. Left(c, n + 1, 0) = SubSeq(w, Len(w) + 0 + 1, Len(w))
  <2>1. PICK q : q = n + 1
    OBVIOUS
  <2>2. q - 1 = n
    BY <1>1, <2>1, SMT
  <2>3. Left(c, q, 0) = SubSeq(w, Len(w) + 0 + 1, Len(w))
    BY <1>5, <1>7, <2>2, Zenon
  <2> QED
    BY <2>1, <2>3
<1>10. SubSeq(w, Len(WordsTo(c, 0)) + 0 + 1, Len(w)) = w
  <2>1. Len(WordsTo(c, 0)) + 0 + 1 = 1
    BY <1>6, SMT
  <2>2. SubSeq(w, 1, Len(w)) = w
    BY <1>5, SMT
  <2> QED
    BY <2>1, <2>2
<1>11. SubSeq(w, Len(w) + 0 + 1, Len(w)) = <<>>
  BY <1>5, <1>6, SMT
<1> QED
  BY <1>5, <1>8, <1>9, <1>10, <1>11, <1>b DEF n

(* what is left of the arguments when j words of directive k have been taken *)
Leaves(c, k, j, v) ==
  /\ v \in Seq(Units) /\ Len(v) \in Nat /\ Len(v) >= Len(Words(c[k])) - j
  /\ \A i \in 1 .. Len(Words(c[k])) - j : v[i] = Words(c[k])[j + i]
  /\ \A m \in 0 .. Len(Words(c[k])) - j : SubSeq(v, m + 1, Len(v)) = Left(c, k, j + m)
  /\ j < Len(Words(c[k])) => Tail(v) = Left(c, k, j + 1)

LEMMA LeftAt ==
  ASSUME NEW c \in Calls, NEW k \in 1 .. Len(c)
  PROVE  /\ Left(c, k, Len(Words(c[k]))) = Left(c, k + 1, 0)
         /\ \A j \in 0 .. Len(Words(c[k])) : Leaves(c, k, j, Left(c, k, j))
<1> DEFINE n == Len(c)
           s == [j \in 1 .. n |-> Words(c[j])]
           t == Words(c[k])
<1>1. n \in Nat /\ \A i \in 1 .. n : WellFormed(c[i])
  BY CallTypes
<1>2. s \in [1 .. n -> Seq(Units)] /\ s[k] = t /\ Len(t) \in Nat
  BY <1>1, WordsTyped
<1>a. WordsTo(c, n) = Joined(s)[n] /\ WordsTo(c, k) = Joined(s)[k] /\ WordsTo(c, k - 1) = Joined(s)[k - 1]
  BY DEF WordsTo
<1>b. k \in 1 .. n
  OBVIOUS
<1> HIDE DEF n, s, t
<1>3. Pieces(s, n, Units)
  BY <1>1, <1>2, PiecesOf
<1>4. Joined(s)[n] \in Seq(Units)
  <2>1. n \in 0 .. n
    BY <1>1, SMT
  <2>2. Joined(s) \in [0 .. n -> Seq(Units)]
    BY <1>3, JoinedFacts
  <2> QED
    BY <2>1, <2>2
<1>5. /\ Len(Joined(s)[k - 1]) \in Nat /\ Len(Joined(s)[n]) \in Nat
      /\ Len(Joined(s)[k]) = Len(Joined(s)[k - 1]) + Len(t)
      /\ Len(Joined(s)[k]) <= Len(Joined(s)[n])
      /\ \A j \in 1 .. Len(t) : Joined(s)[n][Len(Joined(s)[k - 1]) + j] = t[j]
  <2>1. LiesAt(s, n, k)
    BY <1>3, <1>b, JoinedAt
  <2>2. /\ Len(Joined(s)[k - 1]) \in Nat /\ Len(Joined(s)[n]) \in Nat
        /\ Len(Joined(s)[k]) = Len(Joined(s)[k - 1]) + Len(s[k])
        /\ Len(Joined(s)[k]) <= Len(Joined(s)[n])
        /\ \A j \in 1 .. Len(s[k]) : Joined(s)[n][Len(Joined(s)[k - 1]) + j] = s[k][j]
    BY <2>1, Zenon DEF LiesAt
  <2> QED
    BY <1>2, <2>2
<1> DEFINE B == Len(WordsTo(c, k - 1))
           N == Len(WordsTo(c, n))
           L == Len(t)
<1>6. PICK w \in Seq(Units) : w = WordsTo(c, n)
  BY <1>4, <1>a
<1>7. /\ B \in Nat /\ N \in Nat /\ L \in Nat /\ Len(WordsTo(c, k)) = B + L /\ B + L <= N
      /\ \A j \in 1 .. L : w[B + j] = t[j]
  BY <1>2, <1>5, <1>6, <1>a
<1>8. Len(w) = N
  BY <1>6
<1>9. \A i, m : i - 1 = m => Left(c, i, 0) = SubSeq(w, Len(WordsTo(c, m)) + 0 + 1, Len(w))
  BY <1>6, Zenon DEF Left, n
<1>10. \A j : Left(c, k, j) = SubSeq(w, B + j + 1, Len(w))
  BY <1>6, Zenon DEF Left, n
<1>11. Left(c, k + 1, 0) = SubSeq(w, B + L + 0 + 1, Len(w))
  <2>1. PICK q : q = k + 1
    OBVIOUS
  <2>2. q - 1 = k
    BY <1>b, <2>1, SMT
  <2>3. Left(c, q, 0) = SubSeq(w, Len(WordsTo(c, k)) + 0 + 1, Len(w))
    BY <1>9, <2>2, Zenon
  <2> QED
    BY <1>7, <2>1, <2>3
<1> HIDE DEF B, N, L
<1>12. Left(c, k, L) = Left(c, k + 1, 0)
  <2>1. B + L + 0 + 1 = B + L + 1
    BY <1>7, SMT
  <2> QED
    BY <1>10, <1>11, <2>1
<1>13. ASSUME NEW j \in 0 .. L PROVE Leaves(c, k, j, Left(c, k, j))
  <2>1. j \in Nat /\ j <= L /\ B + j \in 0 .. Len(w) /\ B + j + 1 = (B + j) + 1
    BY <1>7, <1>8, SMT
  <2>2. PICK p \in 0 .. Len(w) : p = B + j
    BY <2>1
  <2>3. PICK v : v = SubSeq(w, p + 1, Len(w))
    OBVIOUS
  <2>4. Left(c, k, j) = v
    BY <1>10, <2>2, <2>3
  <2>5. /\ v \in Seq(Units) /\ Len(v) = Len(w) - p
        /\ \A i \in 1 .. Len(w) - p : v[i] = w[p + i]
        /\ \A m \in 0 .. Len(w) - p : SubSeq(v, m + 1, Len(v)) = SubSeq(w, (p + m) + 1, Len(w))
        /\ p < Len(w) => Tail(v) = SubSeq(w, (p + 1) + 1, Len(w))
    BY <2>3, Drop
  <2>6. Len(v) \in Nat /\ Len(v) >= L - j
    BY <1>7, <1>8, <2>1, <2>2, <2>5, SMT
  <2>7. ASSUME NEW i \in 1 .. L - j PROVE v[i] = t[j + i]
    <3>1. i \in 1 .. Len(w) - p /\ p + i = B + (j + i) /\ j + i \in 1 .. L
      BY <1>7, <1>8, <2>1, <2>2, SMT
    <3> QED
      BY <1>7, <2>5, <3>1
  <2>8. ASSUME NEW m \in 0 .. L - j PROVE SubSeq(v, m + 1, Len(v)) = Left(c, k, j + m)
    <3>1. m \in 0 .. Len(w) - p /\ (p + m) + 1 = B + (j + m) + 1
      BY <1>7, <1>8, <2>1, <2>2, SMT
    <3>2. SubSeq(v, m + 1, Len(v)) = SubSeq(w, (p + m) + 1, Len(w))
      BY <2>5, <3>1
    <3>3. Left(c, k, j + m) = SubSeq(w, B + (j + m) + 1, Len(w))
      BY <1>10
    <3> QED
      BY <3>1, <3>2, <3>3
  <2>9. ASSUME j < L PROVE Tail(v) = Left(c, k, j + 1)
    <3>1. p < Len(w) /\ (p + 1) + 1 = B + (j + 1) + 1
      BY <1>7, <1>8, <2>1, <2>2, <2>9, SMT
    <3>2. Left(c, k, j + 1) = SubSeq(w, B + (j + 1) + 1, Len(w))
      BY <1>10
    <3> QED
      BY <2>5, <3>1, <3>2
  <2> QED
    BY <2>4, <2>5, <2>6, <2>7, <2>8, <2>9 DEF Leaves, L, t
<1> QED
  BY <1>12, <1>13 DEF L, t

Closing(d) == IF d.conv = "end" THEN NUL ELSE d.conv

LEMMA LengthTypes ==
  ASSUME NEW d, WellFormed(d)
  PROVE  /\ Len(d.pad) \in Nat /\ Len(d.width.text) \in Nat /\ Len(d.precision.text) \in Nat /\ Len(d.long) \in Nat
         /\ PadEnd(d) \in Nat /\ WidthEnd(d) \in Nat /\ PointEnd(d) \in Nat /\ LongEnd(d) \in Nat
         /\ 1 <= PadEnd(d) /\ PadEnd(d) <= WidthEnd(d) /\ WidthEnd(d) <= PointEnd(d) /\ PointEnd(d) <= LongEnd(d)
<1>1. PICK i \in Nat, j \in Nat, m \in Nat, n \in Nat :
        i = Len(d.pad) /\ j = Len(d.width.text) /\ m = Len(d.precision.text) /\ n = Len(d.long)
  BY DirectiveTypes, LenProperties
<1>2. PadEnd(d) = 1 + i /\ WidthEnd(d) = 1 + i + j /\ PointEnd(d) = 1 + i + j + m /\ LongEnd(d) = 1 + i + j + m + n
  BY <1>1 DEF PadEnd, WidthEnd, PointEnd, LongEnd
<1>3. PICK u \in Nat, v \in Nat, w \in Nat, x \in Nat :
        /\ u = 1 + i /\ v = 1 + i + j /\ w = 1 + i + j + m /\ x = 1 + i + j + m + n
        /\ 1 <= u /\ u <= v /\ v <= w /\ w <= x
  BY SMT
<1> QED
  BY <1>1, <1>2, <1>3, Zenon

Spelled(c, k, d, f) ==
  /\ f[Place(c, k, 0)] = "%"
  /\ \A i \in 0 .. Len(d.pad) - 1 : f[Place(c, k, 1 + i)] = d.pad[i + 1]
  /\ \A i \in 0 .. Len(d.width.text) - 1 : f[Place(c, k, PadEnd(d) + i)] = d.width.text[i + 1]
  /\ \A i \in 0 .. Len(d.precision.text) - 1 : f[Place(c, k, WidthEnd(d) + i)] = d.precision.text[i + 1]
  /\ \A i \in 0 .. Len(d.long) - 1 : f[Place(c, k, PointEnd(d) + i)] = d.long[i + 1]
  /\ f[Place(c, k, LongEnd(d))] = Closing(d)
  /\ Place(c, k, LongEnd(d)) <= Len(f) /\ Place(c, k, LongEnd(d)) \in Nat
  /\ d.conv # "end" => Place(c, k, LongEnd(d) + 1) = Place(c, k + 1, 0)
  /\ d.conv = "end" => Place(c, k, LongEnd(d)) = Place(c, k + 1, 0)
LEMMA DirectiveChars ==
  ASSUME NEW c \in Calls, NEW k \in 1 .. Len(c), NEW d, d = c[k], d.conv # "plain", NEW f, f = Format(c)
  PROVE  Spelled(c, k, d, f)
<1> DEFINE t == Text(d)
<1>1. WellFormed(d) /\ (d.conv = "end" => k = Len(c))
  BY CallTypes
<1>2. /\ t[1] = "%"
      /\ \A i \in 1 .. Len(d.pad) : t[1 + i] = d.pad[i]
      /\ \A i \in 1 .. Len(d.width.text) : t[PadEnd(d) + i] = d.width.text[i]
      /\ \A i \in 1 .. Len(d.precision.text) : t[WidthEnd(d) + i] = d.precision.text[i]
      /\ \A i \in 1 .. Len(d.long) : t[PointEnd(d) + i] = d.long[i]
      /\ d.conv # "end" => t[LongEnd(d) + 1] = d.conv /\ Len(t) = LongEnd(d) + 1
      /\ d.conv = "end" => Len(t) = LongEnd(d)
  BY <1>1, TextFacts
<1>3. /\ Place(c, k, 0) \in Nat \ {0}
      /\ \A j \in Nat : Place(c, k, j) = Place(c, k, 0) + j
      /\ Place(c, k, Len(t)) = Place(c, k + 1, 0)
      /\ Place(c, k + 1, 0) <= Len(f)
      /\ \A j \in 0 .. Len(t) - 1 : f[Place(c, k, j)] = t[j + 1]
  BY FormatAt
<1>4. Len(f) \in Nat /\ f[Len(f)] = NUL /\ Place(c, Len(c) + 1, 0) = Len(f)
  BY FormatFacts
<1> DEFINE a == Len(d.pad)
           b == Len(d.width.text)
           g == Len(d.precision.text)
           l == Len(d.long)
           L == Len(t)
<1>5. a \in Nat /\ b \in Nat /\ g \in Nat /\ l \in Nat
  BY <1>1, LengthTypes
<1>6. /\ PadEnd(d) = 1 + a /\ WidthEnd(d) = 1 + a + b /\ PointEnd(d) = 1 + a + b + g
      /\ LongEnd(d) = 1 + a + b + g + l
  BY DEF PadEnd, WidthEnd, PointEnd, LongEnd
<1>7. d.conv # "end" => L = LongEnd(d) + 1
  BY <1>2
<1>8. d.conv = "end" => L = LongEnd(d)
  BY <1>2
<1> HIDE DEF a, b, g, l, L, t
<1>9. L \in Nat /\ 1 + a + b + g + l <= L
  BY <1>5, <1>6, <1>7, <1>8, SMT
<1>10. f[Place(c, k, 0)] = "%"
  <2>1. 0 \in 0 .. L - 1 /\ 0 + 1 = 1
    BY <1>5, <1>9, SMT
  <2> QED
    BY <1>2, <1>3, <2>1 DEF L
<1>11. ASSUME NEW i \in 0 .. a - 1 PROVE f[Place(c, k, 1 + i)] = d.pad[i + 1]
  <2>1. 1 + i \in 0 .. L - 1 /\ i + 1 \in 1 .. a /\ (1 + i) + 1 = 1 + (i + 1)
    BY <1>5, <1>9, SMT
  <2>2. f[Place(c, k, 1 + i)] = t[(1 + i) + 1] /\ t[1 + (i + 1)] = d.pad[i + 1]
    BY <1>2, <1>3, <2>1 DEF L, a
  <2> QED
    BY <2>1, <2>2
<1>12. ASSUME NEW i \in 0 .. b - 1 PROVE f[Place(c, k, PadEnd(d) + i)] = d.width.text[i + 1]
  <2>1. PadEnd(d) + i \in 0 .. L - 1 /\ i + 1 \in 1 .. b /\ (PadEnd(d) + i) + 1 = PadEnd(d) + (i + 1)
    BY <1>5, <1>6, <1>9, SMT
  <2>2. f[Place(c, k, PadEnd(d) + i)] = t[(PadEnd(d) + i) + 1] /\ t[PadEnd(d) + (i + 1)] = d.width.text[i + 1]
    BY <1>2, <1>3, <2>1 DEF L, b
  <2> QED
    BY <2>1, <2>2
<1>13. ASSUME NEW i \in 0 .. g - 1 PROVE f[Place(c, k, WidthEnd(d) + i)] = d.precision.text[i + 1]
  <2>1. WidthEnd(d) + i \in 0 .. L - 1 /\ i + 1 \in 1 .. g /\ (WidthEnd(d) + i) + 1 = WidthEnd(d) + (i + 1)
    BY <1>5, <1>6, <1>9, SMT
  <2>2. f[Place(c, k, WidthEnd(d) + i)] = t[(WidthEnd(d) + i) + 1]
        /\ t[WidthEnd(d) + (i + 1)] = d.precision.text[i + 1]
    BY <1>2, <1>3, <2>1 DEF L, g
  <2> QED
    BY <2>1, <2>2
<1>14. ASSUME NEW i \in 0 .. l - 1 PROVE f[Place(c, k, PointEnd(d) + i)] = d.long[i + 1]
  <2>1. PointEnd(d) + i \in 0 .. L - 1 /\ i + 1 \in 1 .. l /\ (PointEnd(d) + i) + 1 = PointEnd(d) + (i + 1)
    BY <1>5, <1>6, <1>9, SMT
  <2>2. f[Place(c, k, PointEnd(d) + i)] = t[(PointEnd(d) + i) + 1] /\ t[PointEnd(d) + (i + 1)] = d.long[i + 1]
    BY <1>2, <1>3, <2>1 DEF L, l
  <2> QED
    BY <2>1, <2>2
<1>15. CASE d.conv # "end"
  <2>1. LongEnd(d) \in 0 .. L - 1 /\ LongEnd(d) \in Nat /\ LongEnd(d) + 1 = L
    BY <1>5, <1>6, <1>7, <1>15, SMT
  <2>2. f[Place(c, k, LongEnd(d))] = d.conv
    BY <1>2, <1>3, <1>15, <2>1 DEF L
  <2>3. Place(c, k, LongEnd(d) + 1) = Place(c, k + 1, 0)
    BY <1>3, <2>1 DEF L
  <2>4. Place(c, k, LongEnd(d)) <= Len(f) /\ Place(c, k, LongEnd(d)) \in Nat
    <3>1. PICK p \in Nat, e \in Nat : p = Place(c, k, 0) /\ e = LongEnd(d)
      BY <1>3, <2>1
    <3>2. Place(c, k, e) = p + e /\ Place(c, k, e + 1) = p + (e + 1)
      BY <1>3, <3>1
    <3>3. Place(c, k, e + 1) <= Len(f)
      BY <1>3, <2>3, <3>1
    <3>4. p + (e + 1) <= Len(f)
      BY <3>2, <3>3
    <3>5. p + e <= Len(f) /\ p + e \in Nat
      BY <1>4, <3>4, SMT
    <3> QED
      BY <3>1, <3>2, <3>5
  <2> QED
    BY <1>10, <1>11, <1>12, <1>13, <1>14, <1>15, <2>2, <2>3, <2>4 DEF Closing, a, b, g, l, Spelled
<1>16. CASE d.conv = "end"
  <2>1. LongEnd(d) = L /\ k = Len(c)
    BY <1>1, <1>8, <1>16
  <2>2. Place(c, k, LongEnd(d)) = Place(c, k + 1, 0) /\ Place(c, k + 1, 0) = Len(f)
    BY <1>3, <1>4, <2>1 DEF L
  <2>3. Place(c, k, LongEnd(d)) <= Len(f) /\ Place(c, k, LongEnd(d)) \in Nat
    BY <1>4, <2>2, SMT
  <2> QED
    BY <1>4, <1>10, <1>11, <1>12, <1>13, <1>14, <1>16, <2>2, <2>3 DEF Closing, a, b, g, l, Spelled
<1> QED
  BY <1>15, <1>16

(* What stands between the % and the conversion *)
Marks == Modifiers \cup Decimals

LEMMA MarksFacts ==
  /\ "%" \notin Marks /\ NUL \notin Marks /\ "l" \in Marks /\ "." \in Marks /\ "*" \in Marks /\ "#" \in Marks
  /\ "l" \notin Decimals /\ "." \notin Decimals /\ NUL \notin Decimals /\ PadFlags \subseteq Marks
  BY SMT DEF Marks, Modifiers, Decimals, NUL, PadFlags

LEMMA NumberMarks ==
  ASSUME NEW n, IsNumber(n), NEW i \in 1 .. Len(n.text)
  PROVE  n.text[i] \in Marks
<1>1. CASE n.text \in Seq(Decimals)
  <2>1. n.text[i] \in Decimals
    BY <1>1, ElementOfSeq
  <2> QED
    BY <2>1 DEF Marks
<1>2. CASE n.text = <<"*">>
  <2>1. n.text[i] = "*"
    BY <1>2, SMT
  <2> QED
    BY <2>1, MarksFacts
<1> QED
  BY <1>1, <1>2 DEF IsNumber

LEMMA TailText ==
  ASSUME NEW n, NEW m, m = [n EXCEPT !.text = Tail(@)], "text" \in DOMAIN n, n.text \in Seq(Characters), n.text # <<>>
  PROVE  m.text = Tail(n.text) /\ Len(m.text) = Len(n.text) - 1 /\ \A i \in 1 .. Len(m.text) : m.text[i] = n.text[i + 1]
<1>1. m.text = Tail(n.text)
  OBVIOUS
<1>2. PICK t \in Seq(Characters) : t = n.text
  OBVIOUS
<1>3. Len(Tail(t)) = Len(t) - 1 /\ \A i \in 1 .. Len(Tail(t)) : Tail(t)[i] = t[i + 1]
  BY <1>2, SMT
<1> QED
  BY <1>1, <1>2, <1>3

LEMMA PrecisionTail ==
  ASSUME NEW d, WellFormed(d), d.precision.text # <<>>, NEW m, m = [d.precision EXCEPT !.text = Tail(@)]
  PROVE  /\ m.text = Tail(d.precision.text) /\ Len(m.text) = Len(d.precision.text) - 1
         /\ \A i \in 1 .. Len(m.text) : m.text[i] = d.precision.text[i + 1]
         /\ m.words = d.precision.words /\ m.value = d.precision.value
<1>1. d.precision \in Quantity
  BY DEF WellFormed, Directive
<1>2. "text" \in DOMAIN d.precision /\ d.precision.text \in Seq(Characters)
  BY <1>1 DEF Quantity
<1>3. /\ m.text = Tail(d.precision.text) /\ Len(m.text) = Len(d.precision.text) - 1
      /\ \A i \in 1 .. Len(m.text) : m.text[i] = d.precision.text[i + 1]
  BY <1>2, TailText
<1>4. m.words = d.precision.words /\ m.value = d.precision.value
  BY <1>1 DEF Quantity
<1> QED
  BY <1>3, <1>4

LEMMA PrecisionMarks ==
  ASSUME NEW d, WellFormed(d), d.conv # "plain", d.precision.text # <<>>
  PROVE  /\ d.precision.text[1] = "."
         /\ \A i \in 1 .. Len(d.precision.text) : d.precision.text[i] \in Marks
<1>1. d.precision = Absent \/ IsPrecision(d.precision)
  BY DEF WellFormed
<1>2. IsPrecision(d.precision)
  BY <1>1 DEF Absent
<1>3. d.precision.text[1] = "."
  BY <1>2, SMT DEF IsPrecision
<1>4. ASSUME NEW i \in 1 .. Len(d.precision.text) PROVE d.precision.text[i] \in Marks
  <2>1. CASE d.precision.text = <<".">>
    <3>1. d.precision.text[i] = "."
      BY <2>1, SMT
    <3> QED
      BY <3>1, MarksFacts
  <2>2. CASE d.precision.text = <<".", "0">>
    <3>1. d.precision.text[i] = "." \/ d.precision.text[i] = "0"
      BY <2>2, SMT
    <3>2. "0" \in Marks
      BY SMT DEF Marks, Decimals
    <3> QED
      BY <3>1, <3>2, MarksFacts
  <2>3. CASE IsNumber([d.precision EXCEPT !.text = Tail(@)])
    <3>1. CASE i = 1
      BY <1>3, <3>1, MarksFacts
    <3>2. CASE i # 1
      <4>1. PICK m : m = [d.precision EXCEPT !.text = Tail(@)]
        OBVIOUS
      <4>2. Len(m.text) = Len(d.precision.text) - 1 /\ \A j \in 1 .. Len(m.text) : m.text[j] = d.precision.text[j + 1]
        BY <4>1, PrecisionTail
      <4>3. Len(d.precision.text) \in Nat
        BY LengthTypes
      <4>4. i - 1 \in 1 .. Len(m.text) /\ (i - 1) + 1 = i
        BY <3>2, <4>2, <4>3, SMT
      <4>5. m.text[i - 1] \in Marks
        BY <2>3, <4>1, <4>4, NumberMarks
      <4>6. m.text[i - 1] = d.precision.text[(i - 1) + 1]
        BY <4>2, <4>4
      <4> QED
        BY <4>4, <4>5, <4>6
    <3> QED
      BY <3>1, <3>2
  <2> QED
    BY <1>2, <2>1, <2>2, <2>3 DEF IsPrecision
<1> QED
  BY <1>3, <1>4

LEMMA ClosingFacts ==
  ASSUME NEW d, WellFormed(d), d.conv # "plain"
  PROVE  Closing(d) \notin Marks /\ (Closing(d) = NUL => d.conv = "end")
<1>1. d.conv \notin Modifiers \cup Decimals \cup {NUL}
  BY DEF WellFormed
<1> QED
  BY <1>1, MarksFacts DEF Closing, Marks

LEMMA LongMarks ==
  ASSUME NEW d, WellFormed(d), d.conv # "plain", NEW i \in 1 .. Len(d.long)
  PROVE  d.long[i] = "l"
<1>1. d.long \in Seq({"l"})
  BY DEF WellFormed
<1>2. d.long[i] \in {"l"}
  BY <1>1, ElementOfSeq
<1> QED
  BY <1>2

LEMMA PadMarks ==
  ASSUME NEW d, WellFormed(d), d.conv # "plain", NEW i \in 1 .. Len(d.pad)
  PROVE  d.pad[i] \in PadFlags \cup {"#"}
<1>1. d.pad \in Seq(PadFlags \cup {"#"})
  BY DEF WellFormed
<1> QED
  BY <1>1, ElementOfSeq

LEMMA WidthMarks ==
  ASSUME NEW d, WellFormed(d), d.conv # "plain", NEW i \in 1 .. Len(d.width.text)
  PROVE  d.width.text[i] \in Marks
<1>1. d.width = Absent \/ IsNumber(d.width)
  BY DEF WellFormed
<1>2. CASE d.width = Absent
  BY <1>2, SMT DEF Absent
<1> QED
  BY <1>1, <1>2, NumberMarks

(* a number in the format ends where its digits do *)
LEMMA Followers ==
  ASSUME NEW c \in Calls, NEW k \in 1 .. Len(c), NEW d, d = c[k], d.conv # "plain", NEW f, f = Format(c)
  PROVE  f[Place(c, k, WidthEnd(d))] \notin Decimals /\ f[Place(c, k, PointEnd(d))] \notin Decimals
<1>1. WellFormed(d)
  BY CallTypes
<1>2. /\ \A i \in 0 .. Len(d.precision.text) - 1 : f[Place(c, k, WidthEnd(d) + i)] = d.precision.text[i + 1]
      /\ \A i \in 0 .. Len(d.long) - 1 : f[Place(c, k, PointEnd(d) + i)] = d.long[i + 1]
      /\ f[Place(c, k, LongEnd(d))] = Closing(d)
  <2>1. Spelled(c, k, d, f)
    BY DirectiveChars
  <2> QED
    BY <2>1, Zenon DEF Spelled
<1>3. /\ WidthEnd(d) \in Nat /\ PointEnd(d) \in Nat /\ Len(d.precision.text) \in Nat /\ Len(d.long) \in Nat
  BY <1>1, LengthTypes
<1>4. PointEnd(d) = WidthEnd(d) + Len(d.precision.text) /\ LongEnd(d) = PointEnd(d) + Len(d.long)
  BY DEF PointEnd, LongEnd
<1>5. Closing(d) \notin Decimals
  BY <1>1, ClosingFacts DEF Marks
<1>6. f[Place(c, k, PointEnd(d))] \notin Decimals
  <2>1. CASE Len(d.long) = 0
    <3>1. LongEnd(d) = PointEnd(d)
      BY <1>3, <1>4, <2>1
    <3> QED
      BY <1>2, <1>5, <3>1
  <2>2. CASE Len(d.long) # 0
    <3>1. 0 \in 0 .. Len(d.long) - 1 /\ PointEnd(d) + 0 = PointEnd(d) /\ 0 + 1 \in 1 .. Len(d.long)
      BY <1>3, <2>2, SMT
    <3>2. f[Place(c, k, PointEnd(d) + 0)] = d.long[0 + 1]
      BY <1>2, <3>1
    <3>3. d.long[0 + 1] = "l"
      BY <1>1, <3>1, LongMarks
    <3> QED
      BY <3>1, <3>2, <3>3, MarksFacts
  <2> QED
    BY <2>1, <2>2
<1>7. f[Place(c, k, WidthEnd(d))] \notin Decimals
  <2>1. CASE Len(d.precision.text) = 0
    <3>1. PointEnd(d) = WidthEnd(d)
      BY <1>3, <1>4, <2>1
    <3> QED
      BY <1>6, <3>1
  <2>2. CASE Len(d.precision.text) # 0
    <3>1. 0 \in 0 .. Len(d.precision.text) - 1 /\ WidthEnd(d) + 0 = WidthEnd(d) /\ 0 + 1 = 1
      BY <1>3, <2>2, SMT
    <3>2. f[Place(c, k, WidthEnd(d) + 0)] = d.precision.text[0 + 1]
      BY <1>2, <3>1
    <3>3. d.precision.text # <<>>
      BY <2>2, SMT
    <3>4. d.precision.text[1] = "."
      BY <1>1, <3>3, PrecisionMarks
    <3> QED
      BY <3>1, <3>2, <3>4, MarksFacts
  <2> QED
    BY <2>1, <2>2
<1> QED
  BY <1>6, <1>7

(* the digits w stand at p, and the scan of digits from there ends at end *)
Stands(f, p, w) ==
  /\ p + Len(w) <= Len(f) /\ f[p + Len(w)] \notin Decimals
  /\ \A i \in 0 .. Len(w) - 1 : f[p + i] = w[i + 1]
Scans(f, p, end) ==
  /\ end \in p .. Len(f) - 1 /\ f[end + 1] \notin Decimals
  /\ \A m \in p .. end : f[m] \in Decimals
ReadsAs(f, p, w, end) == end + 1 = p + Len(w) /\ SubSeq(f, p, end) = w

LEMMA DigitsRead ==
  ASSUME NEW f \in Seq(Characters), NEW p \in Nat, p > 0, NEW w \in Seq(Decimals), w # <<>>,
         Stands(f, p, w), NEW end, Scans(f, p, end)
  PROVE  ReadsAs(f, p, w, end)
<1> USE DEF Stands, Scans
<1>1. PICK n \in Nat : n = Len(w) /\ n > 0
  BY LenProperties, EmptySeq
<1>2. Len(f) \in Nat /\ end \in Nat
  BY LenProperties, SMT
<1>3. ~(end + 1 < p + n)
  <2> SUFFICES ASSUME end + 1 < p + n PROVE FALSE
    OBVIOUS
  <2>1. PICK i \in 0 .. n - 1 : p + i = end + 1
    <3>1. end + 1 - p \in 0 .. n - 1 /\ p + (end + 1 - p) = end + 1
      BY <1>2, SMT
    <3> QED
      BY <3>1
  <2>2. f[p + i] = w[i + 1] /\ i + 1 \in 1 .. n
    BY <1>1, SMT
  <2>3. w[i + 1] \in Decimals
    BY <1>1, <2>2, ElementOfSeq
  <2> QED
    BY <2>1, <2>2, <2>3
<1>4. ~(end + 1 > p + n)
  <2> SUFFICES ASSUME end + 1 > p + n PROVE FALSE
    OBVIOUS
  <2>1. p + n \in p .. end
    BY <1>2, SMT
  <2> QED
    BY <1>1, <2>1
<1>5. end + 1 = p + n
  BY <1>2, <1>3, <1>4, SMT
<1>6. SubSeq(f, p, end) = w
  <2>1. SubSeq(f, p, end) = [j \in 1 .. n |-> f[p + j - 1]]
    <3>1. end - p + 1 = n
      BY <1>2, <1>5, SMT
    <3> QED
      BY <1>2, <3>1, SMT
  <2>2. w = [j \in 1 .. n |-> w[j]]
    BY <1>1, SMT
  <2>3. ASSUME NEW j \in 1 .. n PROVE f[p + j - 1] = w[j]
    <3>1. PICK i \in 0 .. n - 1 : i + 1 = j /\ p + i = p + j - 1
      <4>1. j - 1 \in 0 .. n - 1 /\ (j - 1) + 1 = j /\ p + (j - 1) = p + j - 1
        BY SMT
      <4> QED
        BY <4>1
    <3> QED
      BY <1>1, <3>1
  <2> QED
    BY <2>1, <2>2, <2>3, Zenon
<1> QED
  BY <1>1, <1>5, <1>6 DEF ReadsAs

(* in a directive, the only % is its first character or its conversion *)
LEMMA OnePercent ==
  ASSUME NEW c \in Calls, NEW k \in 1 .. Len(c), NEW d, d = c[k], d.conv # "plain", NEW f, f = Format(c),
         NEW m \in 1 .. LongEnd(d) - 1
  PROVE  f[Place(c, k, m)] \in Marks
<1>1. WellFormed(d)
  BY CallTypes
<1>2. /\ \A i \in 0 .. Len(d.pad) - 1 : f[Place(c, k, 1 + i)] = d.pad[i + 1]
      /\ \A i \in 0 .. Len(d.width.text) - 1 : f[Place(c, k, PadEnd(d) + i)] = d.width.text[i + 1]
      /\ \A i \in 0 .. Len(d.precision.text) - 1 : f[Place(c, k, WidthEnd(d) + i)] = d.precision.text[i + 1]
      /\ \A i \in 0 .. Len(d.long) - 1 : f[Place(c, k, PointEnd(d) + i)] = d.long[i + 1]
  <2>1. Spelled(c, k, d, f)
    BY DirectiveChars
  <2> QED
    BY <2>1, Zenon DEF Spelled
<1> DEFINE a == Len(d.pad)
           b == Len(d.width.text)
           g == Len(d.precision.text)
           l == Len(d.long)
<1>3. a \in Nat /\ b \in Nat /\ g \in Nat /\ l \in Nat
  BY <1>1, LengthTypes
<1>4. /\ PadEnd(d) = 1 + a /\ WidthEnd(d) = 1 + a + b /\ PointEnd(d) = 1 + a + b + g
      /\ LongEnd(d) = 1 + a + b + g + l
  BY DEF PadEnd, WidthEnd, PointEnd, LongEnd
<1> HIDE DEF a, b, g, l
<1>5. CASE m < 1 + a
  <2>1. PICK i \in 0 .. a - 1 : 1 + i = m /\ i + 1 \in 1 .. a
    <3>1. m - 1 \in 0 .. a - 1 /\ 1 + (m - 1) = m /\ (m - 1) + 1 \in 1 .. a
      BY <1>3, <1>4, <1>5, SMT
    <3> QED
      BY <3>1
  <2>2. f[Place(c, k, m)] = d.pad[i + 1]
    BY <1>2, <2>1 DEF a
  <2>3. d.pad[i + 1] \in PadFlags \cup {"#"}
    BY <1>1, <2>1, PadMarks DEF a
  <2> QED
    BY <2>2, <2>3, MarksFacts
<1>6. CASE 1 + a <= m /\ m < 1 + a + b
  <2>1. PICK i \in 0 .. b - 1 : PadEnd(d) + i = m /\ i + 1 \in 1 .. b
    <3>1. m - (1 + a) \in 0 .. b - 1 /\ PadEnd(d) + (m - (1 + a)) = m /\ (m - (1 + a)) + 1 \in 1 .. b
      BY <1>3, <1>4, <1>6, SMT
    <3> QED
      BY <3>1
  <2>2. f[Place(c, k, m)] = d.width.text[i + 1]
    BY <1>2, <2>1 DEF b
  <2> QED
    BY <1>1, <2>1, <2>2, WidthMarks DEF b
<1>7. CASE 1 + a + b <= m /\ m < 1 + a + b + g
  <2>1. PICK i \in 0 .. g - 1 : WidthEnd(d) + i = m /\ i + 1 \in 1 .. g
    <3>1. /\ m - (1 + a + b) \in 0 .. g - 1 /\ WidthEnd(d) + (m - (1 + a + b)) = m
          /\ (m - (1 + a + b)) + 1 \in 1 .. g
      BY <1>3, <1>4, <1>7, SMT
    <3> QED
      BY <3>1
  <2>2. f[Place(c, k, m)] = d.precision.text[i + 1]
    BY <1>2, <2>1 DEF g
  <2>3. d.precision.text # <<>>
    BY <2>1, EmptySeq DEF g
  <2> QED
    BY <1>1, <2>1, <2>2, <2>3, PrecisionMarks DEF g
<1>8. CASE 1 + a + b + g <= m
  <2>1. PICK i \in 0 .. l - 1 : PointEnd(d) + i = m /\ i + 1 \in 1 .. l
    <3>1. /\ m - (1 + a + b + g) \in 0 .. l - 1 /\ PointEnd(d) + (m - (1 + a + b + g)) = m
          /\ (m - (1 + a + b + g)) + 1 \in 1 .. l
      BY <1>3, <1>4, <1>8, SMT
    <3> QED
      BY <3>1
  <2>2. f[Place(c, k, m)] = d.long[i + 1]
    BY <1>2, <2>1 DEF l
  <2>3. d.long[i + 1] = "l"
    BY <1>1, <2>1, LongMarks DEF l
  <2> QED
    BY <2>2, <2>3, MarksFacts
<1> QED
  BY <1>3, <1>4, <1>5, <1>6, <1>7, <1>8, SMT

Plain(d) == d.conv \notin Conversions

(* what is printed as it stands has no % behind its first character *)
LEMMA PlainSpots ==
  ASSUME NEW c \in Calls, NEW k \in 1 .. Len(c), NEW d, d = c[k], Plain(d), NEW f, f = Format(c),
         NEW j \in 0 .. Len(Text(d)) - 1, d.conv = "plain" \/ j # 0
  PROVE  f[Place(c, k, j)] \notin {"%", NUL}
<1>1. WellFormed(d) /\ j \in Nat
  BY CallTypes
<1>2. f[Place(c, k, j)] = Text(d)[j + 1]
  BY FormatAt
<1>3. CASE d.conv = "plain"
  <2>1. Text(d) = d.pad /\ \A i \in 1 .. Len(d.pad) : d.pad[i] \notin {"%", NUL}
    BY <1>1, <1>3 DEF Text, WellFormed
  <2>2. Len(d.pad) \in Nat
    BY <1>1, LengthTypes
  <2>3. j + 1 \in 1 .. Len(d.pad)
    BY <2>1, <2>2, SMT
  <2> QED
    BY <1>2, <2>1, <2>3
<1>4. CASE d.conv # "plain"
  <2>1. LongEnd(d) \in Nat
    BY <1>1, LengthTypes
  <2>2. Len(Text(d)) = IF d.conv = "end" THEN LongEnd(d) ELSE LongEnd(d) + 1
    BY <1>1, <1>4, TextFacts
  <2>3. CASE j < LongEnd(d)
    <3>1. j \in 1 .. LongEnd(d) - 1
      BY <1>1, <1>4, <2>1, <2>3, SMT
    <3>2. f[Place(c, k, j)] \in Marks
      BY <1>4, <3>1, OnePercent
    <3> QED
      BY <3>2, MarksFacts
  <2>4. CASE j >= LongEnd(d)
    <3>1. j = LongEnd(d) /\ d.conv # "end"
      BY <1>1, <2>1, <2>2, <2>4, SMT
    <3>2. f[Place(c, k, LongEnd(d))] = Closing(d)
      <4>1. Spelled(c, k, d, f)
        BY <1>4, DirectiveChars
      <4> QED
        BY <4>1, Zenon DEF Spelled
    <3>3. Closing(d) = d.conv /\ Closing(d) # NUL
      BY <1>1, <1>4, <3>1, ClosingFacts DEF Closing
    <3>4. d.conv # "%"
      BY SMT DEF Plain, Conversions
    <3> QED
      BY <3>1, <3>2, <3>3, <3>4
  <2> QED
    BY <1>1, <2>1, <2>3, <2>4, SMT
<1> QED
  BY <1>3, <1>4

LastPercentOf(f, q) == CHOOSE k \in 1 .. q - 1 : f[k] = "%" /\ \A j \in k + 1 .. q - 1 : f[j] # "%"
LEMMA LastPercentIs ==
  ASSUME NEW f, NEW p \in Nat \ {0}, NEW q \in Nat, p < q, f[p] = "%", \A j \in p + 1 .. q - 1 : f[j] # "%"
  PROVE  LastPercentOf(f, q) = p
<1> DEFINE Last1(k) == f[k] = "%" /\ \A j \in k + 1 .. q - 1 : f[j] # "%"
           r == CHOOSE k \in 1 .. q - 1 : Last1(k)
<1>1. p \in 1 .. q - 1 /\ Last1(p)
  BY SMT
<1>2. r \in 1 .. q - 1 /\ Last1(r)
  <2> HIDE DEF Last1
  <2> QED
    BY <1>1, Zenon
<1> HIDE DEF r
<1>3. ~(r < p)
  <2> SUFFICES ASSUME r < p PROVE FALSE
    OBVIOUS
  <2>1. p \in r + 1 .. q - 1
    BY <1>1, <1>2, SMT
  <2> QED
    BY <1>2, <2>1
<1>4. ~(p < r)
  <2> SUFFICES ASSUME p < r PROVE FALSE
    OBVIOUS
  <2>1. r \in p + 1 .. q - 1
    BY <1>1, <1>2, SMT
  <2> QED
    BY <1>2, <2>1
<1>5. r = p
  BY <1>1, <1>2, <1>3, <1>4, SMT
<1> QED
  BY <1>5, Zenon DEF r, LastPercentOf

(* going back from the end of a directive *)
LEMMA GoesBack ==
  ASSUME NEW c \in Calls, NEW k \in 1 .. Len(c), NEW d, d = c[k], d.conv # "plain", NEW f, f = Format(c),
         NEW q, q = Place(c, k, LongEnd(d))
  PROVE  LastPercentOf(f, q) = Place(c, k, 0)
<1>1. WellFormed(d)
  BY CallTypes
<1>2. PICK p \in Nat \ {0} : p = Place(c, k, 0) /\ \A j \in Nat : Place(c, k, j) = p + j
  BY FormatAt
<1>3. PICK e \in Nat : e = LongEnd(d) /\ e >= 1
  <2>1. LongEnd(d) \in Nat /\ LongEnd(d) >= 1
    <3>1. PadEnd(d) \in Nat /\ WidthEnd(d) \in Nat /\ PointEnd(d) \in Nat /\ LongEnd(d) \in Nat
          /\ 1 <= PadEnd(d) /\ PadEnd(d) <= WidthEnd(d) /\ WidthEnd(d) <= PointEnd(d) /\ PointEnd(d) <= LongEnd(d)
      BY <1>1, LengthTypes
    <3> QED
      BY <3>1, SMT
  <2> QED
    BY <2>1
<1>4. q = p + e /\ q \in Nat /\ p < q
  <2>1. q = p + e
    BY <1>2, <1>3
  <2> QED
    BY <1>3, <2>1, SMT
<1>5. f[p] = "%"
  <2>1. Spelled(c, k, d, f)
    BY DirectiveChars
  <2> QED
    BY <1>2, <2>1, Zenon DEF Spelled
<1>6. ASSUME NEW j \in p + 1 .. q - 1 PROVE f[j] # "%"
  <2>1. PICK m \in 1 .. e - 1 : j = p + m /\ m \in Nat
    <3>1. j - p \in 1 .. e - 1 /\ j = p + (j - p) /\ j - p \in Nat
      BY <1>3, <1>4, SMT
    <3> QED
      BY <3>1
  <2>2. Place(c, k, m) = j
    BY <1>2, <2>1
  <2>3. f[j] \in Marks
    BY <1>3, <2>2, OnePercent
  <2> QED
    BY <2>3, MarksFacts
<1> QED
  BY <1>2, <1>4, <1>5, <1>6, LastPercentIs

-----------------------------------------------------------------------------
(* The flags for padding *)

LEMMA LastPadIs ==
  ASSUME NEW s, Len(s) \in Nat, NEW k \in 1 .. Len(s), s[k] \in PadFlags,
         \A j \in k + 1 .. Len(s) : s[j] \notin PadFlags
  PROVE  LastPad(s) = s[k]
<1> DEFINE pads == {j \in 1 .. Len(s) : s[j] \in PadFlags}
           Last1(j) == \A i \in pads : i <= j
           r == CHOOSE j \in pads : Last1(j)
<1>1. k \in pads /\ Last1(k)
  <2>1. ASSUME NEW i \in pads PROVE i <= k
    <3>1. ~(i \in k + 1 .. Len(s))
      OBVIOUS
    <3> QED
      BY <3>1, SMT
  <2> QED
    BY <2>1
<1>2. r \in pads /\ Last1(r)
  <2> HIDE DEF Last1, pads
  <2> QED
    BY <1>1, Zenon
<1>3. LastPad(s) = s[r]
  <2>1. pads # {}
    BY <1>1
  <2> QED
    BY <2>1, Zenon DEF LastPad
<1> HIDE DEF r
<1>4. r <= k /\ k <= r /\ r \in 1 .. Len(s)
  BY <1>1, <1>2
<1>5. r = k
  BY <1>4, SMT
<1> QED
  BY <1>3, <1>5

LEMMA NoPad ==
  ASSUME NEW s, \A j \in 1 .. Len(s) : s[j] \notin PadFlags
  PROVE  LastPad(s) = " "
<1>1. {j \in 1 .. Len(s) : s[j] \in PadFlags} = {}
  OBVIOUS
<1> QED
  BY <1>1, Zenon DEF LastPad

LEMMA SomePad ==
  ASSUME NEW s, Len(s) \in Nat, ~(\A j \in 1 .. Len(s) : s[j] \notin PadFlags)
  PROVE  \E k \in 1 .. Len(s) : s[k] \in PadFlags /\ \A j \in k + 1 .. Len(s) : s[j] \notin PadFlags
<1> DEFINE U == {m \in Nat : m < Len(s) /\ s[Len(s) - m] \in PadFlags}
<1>1. PICK i \in 1 .. Len(s) : s[i] \in PadFlags
  OBVIOUS
<1>2. Len(s) - i \in U
  <2>1. Len(s) - i \in Nat /\ Len(s) - i < Len(s) /\ Len(s) - (Len(s) - i) = i
    BY SMT
  <2> QED
    BY <1>1, <2>1
<1>3. PICK x \in U : \A y \in U : x <= y
  <2>1. U \in SUBSET Nat /\ U # {}
    BY <1>2
  <2> HIDE DEF U
  <2> QED
    BY <2>1, LeastElement
<1>4. Len(s) - x \in 1 .. Len(s) /\ s[Len(s) - x] \in PadFlags
  BY SMT
<1>5. ASSUME NEW j \in Len(s) - x + 1 .. Len(s) PROVE s[j] \notin PadFlags
  <2> SUFFICES ASSUME s[j] \in PadFlags PROVE FALSE
    OBVIOUS
  <2>1. Len(s) - j \in Nat /\ Len(s) - j < Len(s) /\ Len(s) - (Len(s) - j) = j /\ ~(x <= Len(s) - j)
    BY SMT
  <2>2. Len(s) - j \in U
    BY <2>1
  <2> QED
    BY <1>3, <2>1, <2>2
<1> QED
  BY <1>4, <1>5

LEMMA LastPadFlags ==
  ASSUME NEW s, Len(s) \in Nat
  PROVE  LastPad(s) \in PadFlags \cup {" "}
<1>1. CASE \A j \in 1 .. Len(s) : s[j] \notin PadFlags
  BY <1>1, NoPad
<1>2. CASE ~(\A j \in 1 .. Len(s) : s[j] \notin PadFlags)
  <2>1. PICK k \in 1 .. Len(s) : s[k] \in PadFlags /\ \A j \in k + 1 .. Len(s) : s[j] \notin PadFlags
    BY <1>2, SomePad
  <2>2. LastPad(s) = s[k]
    BY <2>1, LastPadIs
  <2> QED
    BY <2>1, <2>2
<1> QED
  BY <1>1, <1>2

(* one flag more *)
LEMMA FlagsGrow ==
  ASSUME NEW E, NEW s \in Seq(E), NEW i \in 0 .. Len(s) - 1, NEW u, u = SubSeq(s, 1, i), NEW v, v = SubSeq(s, 1, i + 1)
  PROVE  /\ LastPad(v) = IF s[i + 1] \in PadFlags THEN s[i + 1] ELSE LastPad(u)
         /\ Alternate(v) <=> (s[i + 1] = "#" \/ Alternate(u))
<1>1. Len(s) \in Nat /\ i \in Nat
  BY LenProperties
<1>2. Len(u) = i /\ \A j \in 1 .. i : u[j] = s[j]
  BY <1>1, SMT
<1>3. Len(v) = i + 1 /\ \A j \in 1 .. i + 1 : v[j] = s[j]
  BY <1>1, SMT
<1> HIDE DEF PadFlags
<1>4. i + 1 \in 1 .. i + 1 /\ \A j \in 1 .. i : j \in 1 .. i + 1
  BY <1>1, SMT
<1>5. \A j \in 1 .. i + 1 : j = i + 1 \/ j \in 1 .. i
  BY <1>1, SMT
<1>6. CASE s[i + 1] \in PadFlags
  <2>1. \A j \in (i + 1) + 1 .. i + 1 : FALSE
    BY <1>1, SMT
  <2>2. LastPad(v) = v[i + 1]
    <3>1. PICK n \in Nat : n = i + 1
      BY <1>1
    <3>2. Len(v) = n /\ n \in 1 .. n /\ v[n] \in PadFlags /\ \A j \in n + 1 .. n : FALSE
      BY <1>3, <1>4, <1>6, <2>1, <3>1
    <3>3. LastPad(v) = v[n]
      BY <3>2, LastPadIs
    <3> QED
      BY <3>1, <3>3
  <2> QED
    BY <1>2, <1>3, <1>4, <1>5, <1>6, <2>2 DEF Alternate
<1>7. CASE s[i + 1] \notin PadFlags
  <2>1. LastPad(v) = LastPad(u)
    <3>1. CASE \A j \in 1 .. Len(u) : u[j] \notin PadFlags
      <4>1. \A j \in 1 .. Len(v) : v[j] \notin PadFlags
        BY <1>2, <1>3, <1>5, <1>7, <3>1
      <4> QED
        BY <3>1, <4>1, NoPad
    <3>2. CASE ~(\A j \in 1 .. Len(u) : u[j] \notin PadFlags)
      <4>1. PICK k \in 1 .. Len(u) : u[k] \in PadFlags /\ \A j \in k + 1 .. Len(u) : u[j] \notin PadFlags
        BY <1>1, <1>2, <3>2, SomePad
      <4>2. LastPad(u) = u[k]
        BY <1>1, <1>2, <4>1, LastPadIs
      <4>3. k \in 1 .. Len(v) /\ v[k] = u[k]
        BY <1>2, <1>3, <1>4
      <4>4. ASSUME NEW j \in k + 1 .. Len(v) PROVE v[j] \notin PadFlags
        <5>1. CASE j = i + 1
          BY <1>3, <1>4, <1>7, <5>1
        <5>2. CASE j # i + 1
          <6>1. j \in k + 1 .. Len(u) /\ j \in 1 .. i
            BY <1>1, <1>2, <1>3, <5>2, SMT
          <6> QED
            BY <1>2, <1>3, <1>4, <4>1, <6>1
        <5> QED
          BY <5>1, <5>2
      <4>5. LastPad(v) = v[k]
        <5>1. Len(v) \in Nat /\ v[k] \in PadFlags
          BY <1>1, <1>3, <4>1, <4>3
        <5> QED
          BY <4>3, <4>4, <5>1, LastPadIs
      <4> QED
        BY <4>2, <4>3, <4>5
    <3> QED
      BY <3>1, <3>2
  <2> QED
    BY <1>2, <1>3, <1>4, <1>5, <1>7, <2>1 DEF Alternate
<1> QED
  BY <1>6, <1>7

OneFlagMore(u, v, f) ==
  /\ LastPad(v) = IF f \in PadFlags THEN f ELSE LastPad(u)
  /\ Alternate(v) <=> (f = "#" \/ Alternate(u))
LEMMA FlagAdded ==
  ASSUME NEW E, NEW s \in Seq(E), NEW i \in 0 .. Len(s) - 1
  PROVE  OneFlagMore(SubSeq(s, 1, i), SubSeq(s, 1, i + 1), s[i + 1])
  BY FlagsGrow DEF OneFlagMore

LEMMA NoFlagsYet ==
  ASSUME NEW s, NEW u, u = SubSeq(s, 1, 0)
  PROVE  LastPad(u) = " " /\ ~Alternate(u)
<1>1. u = <<>>
  BY SMT
<1>2. Len(u) = 0
  BY <1>1, EmptySeq
<1>3. \A j \in 1 .. Len(u) : FALSE
  BY <1>2, SMT
<1> QED
  BY <1>3, NoPad DEF Alternate

LEMMA FillerTyped == ASSUME NEW d, WellFormed(d) PROVE Filler(d) \in Characters
<1>1. Len(d.pad) \in Nat
  BY LengthTypes
<1>2. LastPad(d.pad) \in PadFlags \cup {" "}
  BY <1>1, LastPadFlags
<1> QED
  BY <1>2, CharactersFacts DEF Filler, PadFlags

LEMMA WordFacts == Word \in Nat /\ Word >= 16
  BY WordAssumption

LEMMA ArgFacts ==
  ASSUME NEW d, WellFormed(d), d.conv # "plain"
  PROVE  /\ Len(d.arg) = IF d.conv \in Integral /\ Len(d.long) >= 2 THEN 2
                         ELSE IF d.conv \in Integral \cup {"c", "e", "p", "s"} THEN 1 ELSE 0
         /\ d.conv = "s" => d.arg[1] <= Len(Strings)
         /\ \A i \in 1 .. Len(d.arg) : d.arg[i] \in Units
<1>1. d.arg \in Seq(Units) /\ ArgumentFits(d)
  BY DirectiveTypes DEF WellFormed
<1>2. \A i \in 1 .. Len(d.arg) : d.arg[i] \in Units
  BY <1>1, ElementOfSeq
<1> QED
  BY <1>1, <1>2 DEF ArgumentFits

LEMMA SignedTyped == ASSUME NEW n \in Nat, NEW w \in Nat PROVE Signed(n, w) \in Int
  BY SMT DEF Signed
LEMMA MagnitudeTyped ==
  ASSUME NEW n \in Int PROVE Magnitude(n) \in Nat /\ (n >= 0 => Magnitude(n) = n)
  BY SMT DEF Magnitude

LEMMA ValueFacts ==
  ASSUME NEW d, WellFormed(d), d.conv \in Integral \cup {"p"}
  PROVE  /\ Integer(d) \in Nat /\ Value(d) \in Int /\ Magnitude(Value(d)) \in Nat
         /\ d.conv # "d" => Value(d) = Integer(d) /\ ~(Value(d) < 0) /\ Magnitude(Value(d)) = Integer(d)
<1>1. d.conv # "plain"
  BY SMT DEF Integral
<1>2. Len(d.arg) = 1 \/ Len(d.arg) = 2
  BY <1>1, ArgFacts DEF Integral
<1>3. Integer(d) \in Nat
  <2>1. d.arg[1] \in Nat
    <3>a. PICK n \in {1, 2} : n = Len(d.arg)
      BY <1>2
    <3>1. 1 \in 1 .. Len(d.arg)
      <4>1. 1 \in 1 .. n
        BY SMT
      <4> QED
        BY <3>a, <4>1
    <3>2. d.arg[1] \in Units
      BY <1>1, <3>1, ArgFacts
    <3> QED
      BY <3>2, WordFacts DEF Units
  <2>2. CASE Len(d.arg) = 2
    <3>1. 2 \in 1 .. Len(d.arg)
      BY <2>2, SMT
    <3>2. d.arg[2] \in Units
      BY <1>1, <3>1, ArgFacts
    <3>3. d.arg[2] \in Nat
      BY <3>2, WordFacts DEF Units
    <3>4. PICK a \in Nat, b \in Nat, w \in Nat : a = d.arg[1] /\ b = d.arg[2] /\ w = Word
      BY <2>1, <3>3, WordFacts
    <3>5. a + w * b \in Nat
      BY SMT
    <3> QED
      BY <2>2, <3>4, <3>5 DEF Integer
  <2>3. CASE Len(d.arg) # 2
    BY <2>1, <2>3 DEF Integer
  <2> QED
    BY <2>2, <2>3
<1>4. Value(d) \in Int
  <2>1. PICK w \in Nat : w = IF Len(d.arg) = 2 THEN Word * Word ELSE Word
    BY WordFacts, SMT
  <2>2. Value(d) = IF d.conv = "d" THEN Signed(Integer(d), w) ELSE Integer(d)
    BY <2>1, Zenon DEF Value
  <2>3. Signed(Integer(d), w) \in Int
    BY <1>3, SignedTyped
  <2> QED
    BY <1>3, <2>2, <2>3, SMT
<1>5. d.conv # "d" => Value(d) = Integer(d)
  BY DEF Value
<1> QED
  BY <1>3, <1>4, <1>5, MagnitudeTyped

LEMMA NoCopies == ASSUME NEW c, NEW n \in Int, n <= 0 PROVE Copies(c, n) = <<>>
<1>1. Copies(c, n) \in Seq({c}) /\ (n <= 0 => Copies(c, n) = <<>>)
  <2>1. c \in {c}
    OBVIOUS
  <2> QED
    BY <2>1, CopiesFacts
<1> QED
  BY <1>1

(* a width that is no longer negative pads as much as it did *)
WidthKept(d, w) == w = d.width.value \/ (w = 0 /\ d.width.value < 0)
LEMMA SamePadding ==
  ASSUME NEW d, WellFormed(d), NEW w \in Int, WidthKept(d, w), NEW c, NEW n \in Nat
  PROVE  Copies(c, w - n) = Copies(c, d.width.value - n)
<1>1. CASE w = d.width.value
  BY <1>1
<1>2. CASE w # d.width.value
  <2>1. d.width.value \in Int
    BY DirectiveTypes
  <2>2. w - n \in Int /\ w - n <= 0 /\ d.width.value - n \in Int /\ d.width.value - n <= 0
    BY <1>2, <2>1, SMT DEF WidthKept
  <2>3. PICK u \in Int, v \in Int : u = w - n /\ v = d.width.value - n /\ u <= 0 /\ v <= 0
    BY <2>2
  <2>4. Copies(c, u) = <<>> /\ Copies(c, v) = <<>>
    BY <2>3, NoCopies
  <2> QED
    BY <2>3, <2>4
<1> QED
  BY <1>1, <1>2

Sign(n) == IF n < 0 THEN <<"-">> ELSE <<>>
LEMMA SignTyped == ASSUME NEW n PROVE Sign(n) \in Seq(Characters)
<1>1. CASE n < 0
  BY <1>1, CharactersFacts, Singleton DEF Sign
<1>2. CASE ~(n < 0)
  BY <1>2, EmptySeq DEF Sign
<1> QED
  BY <1>1, <1>2

LEMMA Associative ==
  ASSUME NEW E, NEW a \in Seq(E), NEW b \in Seq(E), NEW c \in Seq(E)
  PROVE  a \o b \o c = a \o (b \o c) /\ a \o (b \o c) \in Seq(E)
  BY SMT

LEMMA NumberPrinted ==
  ASSUME NEW d, WellFormed(d), d.conv \in Integral \cup {"p"}, NEW base \in {10, 16},
         NEW w \in Int, WidthKept(d, w)
  PROVE  /\ Sign(Value(d)) \o Printnum(Magnitude(Value(d)), base, w, Filler(d)) = Number(d, base)
         /\ Number(d, base) \in Seq(Characters)
<1>1. base \in Nat /\ base >= 2 /\ base <= 16
  BY SMT
<1>2. PICK m \in Nat : m = Magnitude(Value(d))
  BY ValueFacts
<1>3. PICK z : z = Numeral(m, base)
  OBVIOUS
<1>4. z \in Seq(Characters) /\ Len(z) \in Nat
  <2>1. Numeral(m, base) \in Seq(Characters)
    BY <1>1, NumeralFacts
  <2> QED
    BY <1>3, <2>1, LenProperties
<1>5. PICK c \in Characters : c = Filler(d)
  BY FillerTyped
<1>6. PICK p : p = Copies(c, w - Len(z))
  OBVIOUS
<1>7. Copies(c, d.width.value - Len(z)) = p
  BY <1>4, <1>6, SamePadding
<1>8. p \in Seq(Characters)
  <2>1. PICK u \in Int : u = w - Len(z)
    BY <1>4, SMT
  <2>2. Copies(c, u) \in Seq(Characters)
    BY CopiesFacts
  <2> QED
    BY <1>6, <2>1, <2>2
<1>9. Printnum(m, base, w, c) = p \o z
  <2>1. Printnum(m, base, w, c) = Copies(c, w - Len(Numeral(m, base))) \o Numeral(m, base)
    BY <1>1, PrintnumPads
  <2> QED
    BY <1>3, <1>6, <2>1
<1>10. PICK s : s = Sign(Value(d))
  OBVIOUS
<1>11. Number(d, base) = s \o p \o z
  <2>1. Number(d, base) = Sign(Value(d)) \o Padding(z, d) \o z
    BY <1>2, <1>3, Zenon DEF Number, Sign
  <2>2. Padding(z, d) = p
    BY <1>5, <1>7 DEF Padding
  <2> QED
    BY <1>10, <2>1, <2>2
<1>12. s \in Seq(Characters)
  BY <1>10, SignTyped
<1>13. s \o p \o z = s \o (p \o z) /\ s \o (p \o z) \in Seq(Characters)
  BY <1>4, <1>8, <1>12, Associative
<1> QED
  BY <1>2, <1>5, <1>9, <1>10, <1>11, <1>13

LEMMA NothingBefore == ASSUME NEW E, NEW s \in Seq(E) PROVE <<>> \o s = s /\ s \o <<>> = s
  BY SMT

LEMMA PrintnumTyped ==
  ASSUME NEW b \in Nat, b >= 2, b <= 16, NEW c \in Characters, NEW n \in Nat, NEW w \in Int
  PROVE  Printnum(n, b, w, c) \in Seq(Characters)
<1>1. PICK z : z = Numeral(n, b)
  OBVIOUS
<1>2. z \in Seq(Characters) /\ Len(z) \in Nat
  <2>1. Numeral(n, b) \in Seq(Characters)
    BY NumeralFacts
  <2> QED
    BY <1>1, <2>1, LenProperties
<1>3. PICK u \in Int : u = w - Len(z)
  BY <1>2, SMT
<1>4. Copies(c, u) \in Seq(Characters)
  BY CopiesFacts
<1>5. Printnum(n, b, w, c) = Copies(c, u) \o z
  <2>1. Printnum(n, b, w, c) = Copies(c, w - Len(Numeral(n, b))) \o Numeral(n, b)
    BY PrintnumPads
  <2> QED
    BY <1>1, <1>3, <2>1
<1> QED
  BY <1>2, <1>4, <1>5, ConcatProperties

(* printed unsigned, a number has no sign *)
LEMMA UnsignedPrinted ==
  ASSUME NEW d, WellFormed(d), d.conv \in Integral \cup {"p"}, d.conv # "d", NEW base \in {10, 16},
         NEW w \in Int, WidthKept(d, w)
  PROVE  Printnum(Integer(d), base, w, Filler(d)) = Number(d, base)
<1>1. ~(Value(d) < 0) /\ Magnitude(Value(d)) = Integer(d) /\ Integer(d) \in Nat
  BY ValueFacts
<1>2. PICK s : s = Printnum(Integer(d), base, w, Filler(d))
  OBVIOUS
<1>3. s \in Seq(Characters)
  <2>1. base \in Nat /\ base >= 2 /\ base <= 16
    BY SMT
  <2>2. PICK n \in Nat, c \in Characters : n = Integer(d) /\ c = Filler(d)
    BY <1>1, FillerTyped
  <2>3. Printnum(n, base, w, c) \in Seq(Characters)
    BY <2>1, PrintnumTyped
  <2> QED
    BY <1>2, <2>2, <2>3
<1>4. Sign(Value(d)) \o s = Number(d, base)
  <2>1. Sign(Value(d)) \o Printnum(Magnitude(Value(d)), base, w, Filler(d)) = Number(d, base)
    BY NumberPrinted
  <2> QED
    BY <1>1, <1>2, <2>1
<1>5. Sign(Value(d)) = <<>>
  BY <1>1 DEF Sign
<1>6. <<>> \o s = s
  BY <1>3, NothingBefore
<1> QED
  BY <1>2, <1>4, <1>5, <1>6

-----------------------------------------------------------------------------
(* Strings *)

LEMMA Sextuple ==
  ASSUME NEW E, NEW a \in E, NEW b \in E, NEW c \in E, NEW d \in E, NEW e \in E, NEW f \in E
  PROVE  <<a, b, c, d, e, f>> \in Seq(E)
  OBVIOUS

Whole(d) == IF d.arg[1] = 0 THEN <<"(", "n", "u", "l", "l", ")">> ELSE Strings[d.arg[1]]
LEMMA WholeTyped ==
  ASSUME NEW d, WellFormed(d), d.conv = "s"
  PROVE  Whole(d) \in Seq(Characters) /\ Len(Whole(d)) \in Nat
<1>1. Whole(d) \in Seq(Characters)
  <2>1. CASE d.arg[1] = 0
    <3>1. <<"(", "n", "u", "l", "l", ")">> \in Seq(Characters)
      BY CharactersFacts, Sextuple, Zenon
    <3> QED
      BY <2>1, <3>1 DEF Whole
  <2>2. CASE d.arg[1] # 0
    <3>1. 1 \in 1 .. Len(d.arg) /\ d.arg[1] <= Len(Strings)
      BY ArgFacts, SMT DEF Integral
    <3>2. d.arg[1] \in Nat
      <4>1. d.arg[1] \in Units
        BY <3>1, ArgFacts
      <4> QED
        BY <4>1, WordFacts DEF Units
    <3>3. Strings \in Seq(Seq(Characters))
      BY TextAssumption
    <3>4. d.arg[1] \in 1 .. Len(Strings)
      BY <2>2, <3>1, <3>2, <3>3, SMT
    <3>5. Strings[d.arg[1]] \in Seq(Characters)
      BY <3>3, <3>4, ElementOfSeq
    <3> QED
      BY <2>2, <3>5 DEF Whole
  <2> QED
    BY <2>1, <2>2
<1> QED
  BY <1>1, LenProperties

LEMMA ShownIs ==
  ASSUME NEW d, WellFormed(d), d.conv = "s", NEW n, n = Strnlen(Whole(d), d.precision.value)
  PROVE  /\ n \in Nat /\ n <= Len(Whole(d))
         /\ Shown(d) = [k \in 1 .. n |-> IF Alternate(d.pad) /\ Whole(d)[k] \in Unprintable THEN "?" ELSE Whole(d)[k]]
         /\ Shown(d) \in Seq(Characters) /\ Len(Shown(d)) = n
<1>1. PICK w \in Seq(Characters) : w = Whole(d)
  BY WholeTyped
<1>2. PICK p \in Int, m \in Nat : p = d.precision.value /\ m = Len(w)
  BY DirectiveTypes, LenProperties
<1>3. n = IF p < 0 \/ m < p THEN m ELSE p
  BY <1>1, <1>2 DEF Strnlen
<1>4. n \in Nat /\ n <= m /\ n = IF 0 <= p /\ p < m THEN p ELSE m
  BY <1>3, SMT
<1> DEFINE F(x) == IF Alternate(d.pad) /\ w[x] \in Unprintable THEN "?" ELSE w[x]
<1>5. Shown(d) = [k \in 1 .. n |-> F(k)]
  <2>1. Shown(d) = [k \in 1 .. (IF 0 <= p /\ p < m THEN p ELSE m) |-> F(k)]
    BY <1>1, <1>2, Zenon DEF Shown, Whole
  <2> QED
    BY <1>4, <2>1
<1>6. ASSUME NEW k \in 1 .. n PROVE F(k) \in Characters
  <2>1. k \in 1 .. Len(w)
    BY <1>2, <1>4, SMT
  <2>2. w[k] \in Characters
    BY <2>1, ElementOfSeq
  <2> QED
    BY <2>2, CharactersFacts
<1> HIDE DEF F
<1>7. PICK s : s = [k \in 1 .. n |-> F(k)]
  OBVIOUS
<1>8. s \in Seq(Characters) /\ Len(s) = n
  BY <1>4, <1>6, <1>7, SMT
<1> QED
  BY <1>1, <1>2, <1>4, <1>5, <1>7, <1>8 DEF F

(* the three loops of %s pad once *)
LEMMA StringPrinted ==
  ASSUME NEW d, WellFormed(d), d.conv = "s",
         esc.width \in Int, WidthKept(d, esc.width), esc.padc = Filler(d),
         esc.precision = d.precision.value, esc.altflag = Alternate(d.pad)
  PROVE  StringText(Whole(d)) = Field(d) /\ Field(d) \in Seq(Characters)
<1>1. PICK n \in Nat : n = Strnlen(Whole(d), d.precision.value)
  BY ShownIs
<1>2. PICK s : s = Shown(d)
  OBVIOUS
<1>3. /\ s \in Seq(Characters) /\ Len(s) = n
      /\ s = [k \in 1 .. n |-> IF Alternate(d.pad) /\ Whole(d)[k] \in Unprintable THEN "?" ELSE Whole(d)[k]]
  BY <1>1, <1>2, ShownIs
<1>4. PICK w \in Int, v \in Int : w = esc.width /\ v = d.width.value
  BY DirectiveTypes
<1>5. PICK c \in Characters : c = Filler(d)
  BY FillerTyped
<1> DEFINE left == w > 0 /\ c # "-"
           before == IF left THEN Copies(c, w - n) ELSE <<>>
           width == IF left /\ n < w THEN 0 ELSE IF left THEN w - n ELSE w
           after == Copies(" ", width - n)
<1>6. StringText(Whole(d)) = before \o s \o after
  <2> DEFINE chars == [k \in 1 .. n |-> IF esc.altflag /\ Whole(d)[k] \in Unprintable THEN "?" ELSE Whole(d)[k]]
  <2>1. chars = s
    BY <1>3
  <2>2. Strnlen(Whole(d), esc.precision) = n
    BY <1>1
  <2> HIDE DEF chars
  <2>3. esc.padc = c /\ esc.width = w
    BY <1>4, <1>5
  <2>4. StringText(Whole(d)) = before \o chars \o after
    BY <2>2, <2>3, Zenon DEF StringText, chars
  <2> QED
    BY <2>1, <2>4
<1>7. Field(d) = IF c = "-" THEN s \o Copies(" ", v - n) ELSE Copies(c, v - n) \o s
  BY <1>2, <1>3, <1>4, <1>5, Zenon DEF Field, Padding
<1>8. /\ Copies(c, w - n) = Copies(c, v - n) /\ Copies(" ", w - n) = Copies(" ", v - n)
  BY <1>4, SamePadding
<1>9. Copies(c, v - n) \in Seq(Characters) /\ Copies(" ", v - n) \in Seq(Characters)
  <2>1. PICK u \in Int : u = v - n
    BY SMT
  <2>2. Copies(c, u) \in Seq(Characters) /\ Copies(" ", u) \in Seq(Characters)
    BY CopiesFacts, CharactersFacts
  <2> QED
    BY <2>1, <2>2
<1>10. CASE left
  <2>1. width - n \in Int /\ width - n <= 0
    BY <1>10, SMT
  <2>2. after = <<>>
    <3>1. PICK u \in Int : u = width - n /\ u <= 0
      BY <2>1
    <3> HIDE DEF width
    <3>2. Copies(" ", u) = <<>>
      BY <3>1, NoCopies
    <3> QED
      BY <3>1, <3>2
  <2>3. before = Copies(c, v - n)
    BY <1>8, <1>10
  <2> HIDE DEF before, after, width
  <2>4. PICK b \in Seq(Characters) : b = before
    BY <1>9, <2>3
  <2>5. b \o s \in Seq(Characters) /\ (b \o s) \o <<>> = b \o s
    <3>1. b \o s \in Seq(Characters)
      BY <1>3, ConcatProperties
    <3> QED
      BY <3>1, NothingBefore
  <2>6. Field(d) = b \o s
    BY <1>7, <1>10, <2>3, <2>4
  <2> QED
    BY <1>6, <2>2, <2>4, <2>5, <2>6
<1>11. CASE ~left
  <2>1. before = <<>> /\ width = w
    BY <1>11
  <2>2. <<>> \o s = s /\ s \o <<>> = s
    BY <1>3, NothingBefore
  <2>3. after = Copies(" ", v - n)
    BY <1>8, <2>1
  <2>4. StringText(Whole(d)) = s \o Copies(" ", v - n)
    <3> HIDE DEF before, after, width
    <3> QED
      BY <1>6, <2>1, <2>2, <2>3
  <2>5. s \o Copies(" ", v - n) \in Seq(Characters)
    BY <1>3, <1>9, ConcatProperties
  <2>6. CASE c = "-"
    BY <1>7, <2>4, <2>5, <2>6
  <2>7. CASE c # "-"
    <3>1. w - n \in Int /\ w - n <= 0
      BY <1>11, <2>7, SMT
    <3>2. PICK u \in Int : u = w - n /\ u <= 0
      BY <3>1
    <3>3. Copies(c, u) = <<>> /\ Copies(" ", u) = <<>>
      BY <3>2, NoCopies
    <3>4. Copies(c, v - n) = <<>> /\ Copies(" ", v - n) = <<>>
      BY <1>8, <3>2, <3>3
    <3> QED
      BY <1>3, <1>7, <2>2, <2>4, <2>7, <3>4
  <2> QED
    BY <2>6, <2>7
<1> QED
  BY <1>10, <1>11

-----------------------------------------------------------------------------
(* Error codes *)

LEMMA MessagesFacts ==
  /\ DOMAIN Messages \subseteq 0 .. MAXERROR - 1
  /\ \A n \in DOMAIN Messages : <<Messages[n]>> \in Seq(Characters) /\ <<Messages[n]>> # <<>>
<1>1. \A n \in DOMAIN Messages : Messages[n] \in Characters
  BY TextAssumption
<1>2. \A e \in Characters : <<e>> \in Seq(Characters) /\ <<e>> # <<>>
  BY SMT
<1> QED
  BY <1>1, <1>2, MessagesAssumption

ErrorLine(n) == <<"error ">> \o Numeral(n, 10)
LEMMA ErrorLineTyped == ASSUME NEW n \in Nat PROVE ErrorLine(n) \in Seq(Characters)
<1>1. Numeral(n, 10) \in Seq(Characters)
  <2>1. 10 \in Nat /\ 10 >= 2 /\ 10 <= 16
    BY SMT
  <2> QED
    BY <2>1, NumeralFacts
<1>2. <<"error ">> \in Seq(Characters)
  BY CharactersFacts, Singleton
<1> QED
  BY <1>1, <1>2, ConcatProperties DEF ErrorLine

LEMMA ErrorMeansTyped ==
  ASSUME NEW d, WellFormed(d), d.conv = "e"
  PROVE  /\ d.arg[1] \in Nat /\ d.arg[1] < Word /\ Signed(d.arg[1], Word) \in Int
         /\ ErrorMeans(d) \in Seq(Characters)
<1>1. d.arg[1] \in Nat /\ d.arg[1] < Word
  <2>1. 1 \in 1 .. Len(d.arg) /\ d.conv # "plain"
    BY ArgFacts, SMT DEF Integral
  <2>2. d.arg[1] \in Units
    BY <2>1, ArgFacts
  <2> QED
    BY <2>2, WordFacts DEF Units
<1>2. Signed(d.arg[1], Word) \in Int
  BY <1>1, WordFacts, SignedTyped
<1>3. PICK n \in Nat : n = Magnitude(Signed(d.arg[1], Word))
  BY <1>2, MagnitudeTyped
<1>4. ErrorMeans(d) = IF n \in DOMAIN Messages THEN <<Messages[n]>> ELSE ErrorLine(n)
  BY <1>3, Zenon DEF ErrorMeans, ErrorLine
<1> QED
  BY <1>1, <1>2, <1>4, MessagesFacts, ErrorLineTyped

ErrorSaid(err) ==
  IF err >= Bound \/ ErrorString(err) = <<>> THEN <<"error ">> \o DecimalText(Signed(err, Word), -1, " ")
  ELSE ErrorString(err)

(* what an int may be for its negation to be itself *)
LEMMA NegationFacts ==
  ASSUME NEW a \in Nat, a < Word, NEW err \in Negations(Signed(a, Word))
  PROVE  /\ err \in Int /\ Signed(err, Word) \in Int
         /\ err \notin Nat => 2 * a = Word
         /\ 2 * a # Word => err = Magnitude(Signed(a, Word)) /\ err \in Nat /\ Signed(err, Word) = err
<1>1. PICK w \in Nat : w = Word /\ w >= 16
  BY WordFacts
<1>2. PICK e \in Int : e = Signed(a, Word) /\ e = IF 2 * a < w THEN a ELSE a - w
  <2>1. Signed(a, Word) = IF 2 * a < w THEN a ELSE a - w
    BY <1>1 DEF Signed
  <2>2. (IF 2 * a < w THEN a ELSE a - w) \in Int
    BY SMT
  <2> QED
    BY <2>1, <2>2
<1>3. Magnitude(e) = IF e < 0 THEN -e ELSE e
  BY DEF Magnitude
<1>4. err \in IF 2 * e = -w THEN {e, -e} ELSE {Magnitude(e)}
  BY <1>1, <1>2, Zenon DEF Negations
<1>5. CASE 2 * e = -w
  <2>1. err = e \/ err = -e
    BY <1>4, <1>5
  <2>2. err \in Int /\ 2 * a = w
    BY <1>1, <1>2, <1>5, <2>1, SMT
  <2>3. Signed(err, Word) \in Int
    BY <1>1, <2>2, SMT DEF Signed
  <2> QED
    BY <1>1, <2>2, <2>3
<1>6. CASE 2 * e # -w
  <2>1. err = Magnitude(e)
    BY <1>4, <1>6
  <2>2. err = IF e < 0 THEN -e ELSE e
    BY <1>3, <2>1
  <2>3. err \in Nat /\ (2 * a # w => 2 * err < w)
    BY <1>1, <1>2, <2>2, SMT
  <2>4. Signed(err, Word) = IF 2 * err < w THEN err ELSE err - w
    BY <1>1 DEF Signed
  <2>5. Signed(err, Word) \in Int /\ (2 * a # w => Signed(err, Word) = err)
    BY <1>1, <2>3, <2>4, SMT
  <2> QED
    BY <1>1, <1>2, <2>1, <2>3, <2>5
<1> QED
  BY <1>5, <1>6

LEMMA DecimalTyped == ASSUME NEW n \in Int, NEW w \in Int, NEW c \in Characters
                      PROVE  DecimalText(n, w, c) \in Seq(Characters)
<1>1. PICK m \in Nat : m = Magnitude(n)
  BY MagnitudeTyped
<1>2. Printnum(m, 10, w, c) \in Seq(Characters)
  <2>1. 10 \in Nat /\ 10 >= 2 /\ 10 <= 16
    BY SMT
  <2> QED
    BY <2>1, PrintnumTyped
<1>3. DecimalText(n, w, c) = Sign(n) \o Printnum(m, 10, w, c)
  BY <1>1, Zenon DEF DecimalText, Sign
<1> QED
  BY <1>2, <1>3, SignTyped, ConcatProperties

LEMMA DecimalUnpadded == ASSUME NEW n \in Nat PROVE DecimalText(n, -1, " ") = Numeral(n, 10)
<1>1. Magnitude(n) = n /\ ~(n < 0)
  BY SMT DEF Magnitude
<1>2. DecimalText(n, -1, " ") = Sign(n) \o Printnum(n, 10, -1, " ")
  BY <1>1, Zenon DEF DecimalText, Sign
<1>3. Sign(n) = <<>>
  BY <1>1 DEF Sign
<1>4. PICK z : z = Numeral(n, 10)
  OBVIOUS
<1>5. z \in Seq(Characters) /\ Len(z) \in Nat
  <2>1. 10 \in Nat /\ 10 >= 2 /\ 10 <= 16
    BY SMT
  <2>2. Numeral(n, 10) \in Seq(Characters)
    BY <2>1, NumeralFacts
  <2> QED
    BY <1>4, <2>2, LenProperties
<1>6. Printnum(n, 10, -1, " ") = Copies(" ", -1 - Len(z)) \o z
  <2>1. 10 \in Nat /\ 10 >= 2 /\ 10 <= 16 /\ -1 \in Int
    BY SMT
  <2>2. PICK b \in Nat, w \in Int, c \in Characters : b = 10 /\ w = -1 /\ c = " " /\ b >= 2 /\ b <= 16
    BY <2>1, CharactersFacts
  <2>3. Printnum(n, b, w, c) = Copies(c, w - Len(Numeral(n, b))) \o Numeral(n, b)
    BY <2>2, PrintnumPads
  <2> QED
    BY <1>4, <2>2, <2>3
<1>7. Copies(" ", -1 - Len(z)) = <<>>
  <2>1. PICK u \in Int : u = -1 - Len(z) /\ u <= 0
    <3>1. -1 - Len(z) \in Int /\ -1 - Len(z) <= 0
      BY <1>5, SMT
    <3> QED
      BY <3>1
  <2>2. Copies(" ", u) = <<>>
    BY <2>1, NoCopies
  <2> QED
    BY <2>1, <2>2
<1>8. <<>> \o z = z
  BY <1>5, NothingBefore
<1> QED
  BY <1>2, <1>3, <1>4, <1>6, <1>7, <1>8

LEMMA ErrorSaidTyped ==
  ASSUME NEW err, err \in Int, Signed(err, Word) \in Int
  PROVE  ErrorSaid(err) \in Seq(Characters)
<1>1. ErrorString(err) # <<>> => ErrorString(err) \in Seq(Characters)
  BY MessagesFacts DEF ErrorString
<1>2. <<"error ">> \o DecimalText(Signed(err, Word), -1, " ") \in Seq(Characters)
  <2>1. PICK n \in Int, w \in Int, c \in Characters : n = Signed(err, Word) /\ w = -1 /\ c = " "
    <3>1. -1 \in Int
      BY SMT
    <3>2. " " \in Characters
      BY CharactersFacts
    <3> QED
      BY <3>1, <3>2
  <2>2. DecimalText(n, w, c) \in Seq(Characters)
    BY DecimalTyped
  <2>3. <<"error ">> \in Seq(Characters)
    BY CharactersFacts, Singleton
  <2>4. <<"error ">> \o DecimalText(n, w, c) \in Seq(Characters)
    BY <2>2, <2>3, ConcatProperties
  <2> QED
    BY <2>1, <2>4
<1> QED
  BY <1>1, <1>2 DEF ErrorSaid

LEMMA ErrorPrinted ==
  ASSUME NEW d, WellFormed(d), d.conv = "e", NEW err \in Negations(Signed(d.arg[1], Word))
  PROVE  /\ ErrorSaid(err) \in Seq(Characters)
         /\ ~SmallestError(d) => ErrorSaid(err) = ErrorMeans(d)
         /\ err \notin Nat => SmallestError(d)
<1>1. PICK a \in Nat : a = d.arg[1] /\ a < Word
  BY ErrorMeansTyped
<1>2. /\ err \in Int /\ Signed(err, Word) \in Int
      /\ err \notin Nat => 2 * a = Word
      /\ 2 * a # Word => err = Magnitude(Signed(a, Word)) /\ err \in Nat /\ Signed(err, Word) = err
  BY <1>1, NegationFacts
<1>3. ErrorSaid(err) \in Seq(Characters)
  BY <1>2, ErrorSaidTyped
<1>4. SmallestError(d) <=> 2 * a = Word
  BY <1>1 DEF SmallestError
<1>5. ASSUME 2 * a # Word PROVE ErrorSaid(err) = ErrorMeans(d)
  <2>1. PICK n \in Nat : n = err
    BY <1>2, <1>5
  <2>2. ErrorMeans(d) = IF n \in DOMAIN Messages THEN <<Messages[n]>> ELSE ErrorLine(n)
    BY <1>1, <1>2, <1>5, <2>1, Zenon DEF ErrorMeans, ErrorLine
  <2>3. Signed(err, Word) = n
    BY <1>2, <1>5, <2>1
  <2>4. DecimalText(n, -1, " ") = Numeral(n, 10)
    BY DecimalUnpadded
  <2>5. CASE n \in DOMAIN Messages
    <3>1. ErrorString(n) = <<Messages[n]>> /\ ErrorString(n) # <<>>
      BY <2>5, MessagesFacts DEF ErrorString
    <3>2. n \in 0 .. MAXERROR - 1
      BY <2>5, MessagesFacts
    <3>3. ~(n >= Bound)
      BY <3>2, SMT DEF Bound, MAXERROR
    <3> QED
      BY <2>1, <2>2, <2>5, <3>1, <3>3 DEF ErrorSaid
  <2>6. CASE n \notin DOMAIN Messages
    <3>1. ErrorString(n) = <<>>
      BY <2>6 DEF ErrorString
    <3>2. ErrorSaid(err) = <<"error ">> \o DecimalText(Signed(err, Word), -1, " ")
      BY <2>1, <3>1, Zenon DEF ErrorSaid
    <3> QED
      BY <2>2, <2>3, <2>4, <2>6, <3>2 DEF ErrorLine
  <2> QED
    BY <2>5, <2>6
<1> QED
  BY <1>2, <1>3, <1>4, <1>5

LEMMA GlyphTyped == ASSUME NEW a \in Units PROVE <<Glyph[a]>> \in Seq(Characters)
<1>1. Glyph \in [0 .. Word - 1 -> Characters]
  BY TextAssumption
<1>2. Glyph[a] \in Characters
  BY <1>1 DEF Units
<1> QED
  BY <1>2, Singleton

LEMMA ShortTexts == <<"0", "x">> \in Seq(Characters) /\ <<"X", "X", "X">> \in Seq(Characters)
<1>1. \A a, b, c \in Characters : <<a, b>> \in Seq(Characters) /\ <<a, b, c>> \in Seq(Characters)
  OBVIOUS
<1> QED
  BY <1>1, CharactersFacts, Zenon

LEMMA MeaningCases ==
  ASSUME NEW d
  PROVE  /\ d.conv \in {"d", "u"} => Meaning(d) = Number(d, 10)
         /\ d.conv = "x" => Meaning(d) = Number(d, 16)
         /\ d.conv = "p" => Meaning(d) = <<"0", "x">> \o Number(d, 16)
         /\ d.conv = "o" => Meaning(d) = <<"X", "X", "X">>
         /\ d.conv = "s" => Meaning(d) = Field(d)
         /\ d.conv = "c" => Meaning(d) = <<Glyph[d.arg[1]]>>
         /\ d.conv = "e" => Meaning(d) = ErrorMeans(d)
         /\ d.conv = "%" => Meaning(d) = <<"%">>
         /\ Plain(d) => Meaning(d) = Text(d)
<1>1. d.conv \in {"d", "u"} => Meaning(d) = Number(d, 10)
  BY SMT DEF Meaning
<1>2. d.conv = "x" => Meaning(d) = Number(d, 16)
  BY SMT DEF Meaning
<1>3. d.conv = "p" => Meaning(d) = <<"0", "x">> \o Number(d, 16)
  BY SMT DEF Meaning
<1>4. d.conv = "o" => Meaning(d) = <<"X", "X", "X">>
  BY SMT DEF Meaning
<1>5. d.conv = "s" => Meaning(d) = Field(d)
  BY SMT DEF Meaning
<1>6. d.conv = "c" => Meaning(d) = <<Glyph[d.arg[1]]>>
  BY SMT DEF Meaning
<1>7. d.conv = "e" => Meaning(d) = ErrorMeans(d)
  BY SMT DEF Meaning
<1>8. d.conv = "%" => Meaning(d) = <<"%">>
  BY SMT DEF Meaning
<1>9. Plain(d) => Meaning(d) = Text(d)
  BY SMT DEF Meaning, Plain, Conversions
<1> QED
  BY <1>1, <1>2, <1>3, <1>4, <1>5, <1>6, <1>7, <1>8, <1>9

LEMMA NumberTyped ==
  ASSUME NEW d, WellFormed(d), d.conv \in Integral \cup {"p"}, NEW base \in {10, 16}
  PROVE  Number(d, base) \in Seq(Characters)
<1>1. PICK w \in Int : w = d.width.value
  BY DirectiveTypes
<1>2. WidthKept(d, w)
  BY <1>1 DEF WidthKept
<1> QED
  BY <1>2, NumberPrinted

LEMMA FieldTyped == ASSUME NEW d, WellFormed(d), d.conv = "s" PROVE Field(d) \in Seq(Characters)
<1>1. PICK s \in Seq(Characters), n \in Nat, v \in Int : s = Shown(d) /\ n = Len(s) /\ v = d.width.value
  BY ShownIs, DirectiveTypes
<1>2. PICK c \in Characters, u \in Int : c = Filler(d) /\ u = v - n
  <2>1. v - n \in Int
    BY SMT
  <2> QED
    BY <2>1, FillerTyped
<1>3. Copies(c, u) \in Seq(Characters) /\ Copies(" ", u) \in Seq(Characters)
  BY CopiesFacts, CharactersFacts
<1>4. Field(d) = IF c = "-" THEN s \o Copies(" ", u) ELSE Copies(c, u) \o s
  BY <1>1, <1>2, Zenon DEF Field, Padding
<1> QED
  BY <1>3, <1>4, ConcatProperties

LEMMA MeaningTyped == ASSUME NEW d, WellFormed(d) PROVE Meaning(d) \in Seq(Characters)
<1>1. CASE d.conv \in {"d", "u"}
  <2>1. d.conv \in Integral \cup {"p"} /\ 10 \in {10, 16}
    BY <1>1, SMT DEF Integral
  <2> QED
    BY <1>1, <2>1, NumberTyped, MeaningCases
<1>2. CASE d.conv = "x"
  <2>1. d.conv \in Integral \cup {"p"} /\ 16 \in {10, 16}
    BY <1>2, SMT DEF Integral
  <2> QED
    BY <1>2, <2>1, NumberTyped, MeaningCases
<1>3. CASE d.conv = "p"
  <2>1. d.conv \in Integral \cup {"p"} /\ 16 \in {10, 16}
    BY <1>3, SMT
  <2>2. Number(d, 16) \in Seq(Characters)
    BY <2>1, NumberTyped
  <2>3. <<"0", "x">> \in Seq(Characters)
    BY ShortTexts
  <2>4. Meaning(d) = <<"0", "x">> \o Number(d, 16)
    BY <1>3, MeaningCases
  <2> QED
    BY <2>2, <2>3, <2>4, ConcatProperties
<1>4. CASE d.conv = "o"
  <2>1. <<"X", "X", "X">> \in Seq(Characters)
    BY ShortTexts
  <2> QED
    BY <1>4, <2>1, MeaningCases
<1>5. CASE d.conv = "s"
  BY <1>5, FieldTyped, MeaningCases
<1>6. CASE d.conv = "c"
  <2>1. 1 \in 1 .. Len(d.arg) /\ d.conv # "plain"
    BY <1>6, ArgFacts, SMT DEF Integral
  <2>2. d.arg[1] \in Units
    BY <2>1, ArgFacts
  <2>3. <<Glyph[d.arg[1]]>> \in Seq(Characters)
    BY <2>2, GlyphTyped
  <2> QED
    BY <1>6, <2>3, MeaningCases
<1>7. CASE d.conv = "e"
  BY <1>7, ErrorMeansTyped, MeaningCases
<1>8. CASE d.conv = "%"
  <2>1. <<"%">> \in Seq(Characters)
    BY CharactersFacts, Singleton
  <2> QED
    BY <1>8, <2>1, MeaningCases
<1>9. CASE Plain(d)
  BY <1>9, TextTyped, MeaningCases
<1> QED
  BY <1>1, <1>2, <1>3, <1>4, <1>5, <1>6, <1>7, <1>8, <1>9, SMT DEF Plain, Conversions

LEMMA MeaningToFacts ==
  ASSUME NEW c \in Calls
  PROVE  /\ MeaningTo(c, 0) = <<>> /\ \A k \in 0 .. Len(c) : MeaningTo(c, k) \in Seq(Characters)
         /\ \A k \in 1 .. Len(c) : MeaningTo(c, k) = MeaningTo(c, k - 1) \o Meaning(c[k])
<1> DEFINE n == Len(c)
           s == [j \in 1 .. n |-> Meaning(c[j])]
<1>1. n \in Nat /\ \A k \in 1 .. n : WellFormed(c[k])
  BY CallTypes
<1>2. s \in [1 .. n -> Seq(Characters)] /\ \A k \in 1 .. n : s[k] = Meaning(c[k])
  BY <1>1, MeaningTyped
<1>3. \A k : MeaningTo(c, k) = Joined(s)[k]
  BY DEF MeaningTo
<1> HIDE DEF n, s
<1>4. Pieces(s, n, Characters)
  BY <1>1, <1>2, PiecesOf
<1>5. /\ Joined(s) \in [0 .. n -> Seq(Characters)] /\ Joined(s)[0] = <<>>
      /\ \A k \in 1 .. n : Joined(s)[k] = Joined(s)[k - 1] \o s[k]
  BY <1>4, JoinedFacts, Zenon
<1>6. \A k \in 0 .. n : Joined(s)[k] \in Seq(Characters)
  BY <1>5
<1>7. \A k \in 1 .. n : MeaningTo(c, k) = MeaningTo(c, k - 1) \o Meaning(c[k])
  BY <1>2, <1>3, <1>5, Zenon
<1> QED
  BY <1>3, <1>5, <1>6, <1>7 DEF n

-----------------------------------------------------------------------------
(* How far the scan of a call c has come: p is pos, a is ap, e is esc, o is out *)

Sound(c) == \A k \in 1 .. Len(c) : ~SmallestError(c[k])
Between(c, k, p, a, o) ==
  p = Place(c, k, 0) /\ a = Left(c, k, 0) /\ (Sound(c) => o = MeaningTo(c, k - 1))
Within(c, k, j, p, a, o) ==
  /\ Plain(c[k]) /\ p = Place(c, k, j) /\ a = Left(c, k, Len(Words(c[k])))
  /\ Sound(c) => o = MeaningTo(c, k - 1) \o SubSeq(Text(c[k]), 1, j)
InText(c, p, a, o) ==
  \/ \E k \in 1 .. Len(c) + 1 : Between(c, k, p, a, o)
  \/ \E k \in 1 .. Len(c) : \E j \in 1 .. Len(Text(c[k])) - 1 : Within(c, k, j, p, a, o)

Flagged(d, i) ==
  [padc |-> LastPad(SubSeq(d.pad, 1, i)), width |-> -1, precision |-> -1, lflag |-> 0,
   altflag |-> Alternate(SubSeq(d.pad, 1, i))]
Widened(d) == [Flagged(d, Len(d.pad)) EXCEPT !.width = d.width.value]
Pointed(d) == [Widened(d) EXCEPT !.width = IF @ < 0 THEN 0 ELSE @]
Precise(d) == IF d.precision.text = <<>> THEN Widened(d)
              ELSE [padc |-> Filler(d), width |-> Pointed(d).width, precision |-> d.precision.value,
                    lflag |-> 0, altflag |-> Alternate(d.pad)]
Lengthened(d, i) == [Precise(d) EXCEPT !.lflag = i]

Flags(c, k, i, p, a, e) == p = Place(c, k, 1 + i) /\ a = Left(c, k, 0) /\ e = Flagged(c[k], i)
WidthRead(c, k, p, a, e) ==
  p = Place(c, k, WidthEnd(c[k])) /\ a = Left(c, k, Len(c[k].width.words)) /\ e = Widened(c[k])
PointRead(c, k, p, a, e) ==
  p = Place(c, k, WidthEnd(c[k]) + 1) /\ a = Left(c, k, Len(c[k].width.words)) /\ e = Pointed(c[k])
Longs(c, k, i, p, a, e) ==
  /\ p = Place(c, k, PointEnd(c[k]) + i)
  /\ a = Left(c, k, Len(c[k].width.words) + Len(c[k].precision.words)) /\ e = Lengthened(c[k], i)
InDirective(c, k, p, a, e) ==
  \/ \E i \in 0 .. Len(c[k].pad) : Flags(c, k, i, p, a, e)
  \/ WidthRead(c, k, p, a, e)
  \/ c[k].precision.text # <<>> /\ PointRead(c, k, p, a, e)
  \/ \E i \in 0 .. Len(c[k].long) : Longs(c, k, i, p, a, e)
InEscape(c, p, a, e, o) ==
  \E k \in 1 .. Len(c) :
    /\ c[k].conv # "plain" /\ (Sound(c) => o = MeaningTo(c, k - 1))
    /\ InDirective(c, k, p, a, e)

(* what a flag and a number do to esc *)
FlagOf(e, ch) ==
  IF ch \in PadFlags THEN [e EXCEPT !.padc = ch]
  ELSE IF ch = "." THEN [e EXCEPT !.width = IF @ < 0 THEN 0 ELSE @]
  ELSE IF ch = "#" THEN [e EXCEPT !.altflag = TRUE]
  ELSE [e EXCEPT !.lflag = @ + 1]
Counted(e, n) ==
  [e EXCEPT !.width = IF @ < 0 THEN n ELSE @, !.precision = IF e.width < 0 THEN -1 ELSE n]

-----------------------------------------------------------------------------
LEMMA PlaceMore ==
  ASSUME NEW c \in Calls, NEW k \in 1 .. Len(c), NEW j \in Nat, NEW m \in Nat
  PROVE  Place(c, k, j) + m = Place(c, k, j + m) /\ Place(c, k, j) \in Nat \ {0}
<1>1. PICK p \in Nat \ {0} : p = Place(c, k, 0) /\ \A i \in Nat : Place(c, k, i) = p + i
  BY FormatAt
<1>2. PICK q \in Nat : q = j + m
  BY SMT
<1>3. Place(c, k, j) = p + j /\ Place(c, k, q) = p + q
  BY <1>1
<1>4. (p + j) + m = p + q /\ p + j \in Nat \ {0}
  BY <1>2, SMT
<1> QED
  BY <1>2, <1>3, <1>4

LEMMA FlagsBegin ==
  ASSUME NEW c \in Calls, NEW k \in 1 .. Len(c), NEW p, NEW a, NEW o, Between(c, k, p, a, o)
  PROVE  Flags(c, k, 0, p + 1, a, Fresh)
<1>1. p + 1 = Place(c, k, 1 + 0)
  <2>1. 0 \in Nat /\ 1 \in Nat /\ 0 + 1 = 1 + 0
    BY SMT
  <2>2. Place(c, k, 0) + 1 = Place(c, k, 0 + 1)
    BY <2>1, PlaceMore
  <2> QED
    BY <2>1, <2>2 DEF Between
<1>2. Fresh = Flagged(c[k], 0)
  <2>1. PICK u : u = SubSeq(c[k].pad, 1, 0)
    OBVIOUS
  <2>2. LastPad(u) = " " /\ ~Alternate(u)
    BY <2>1, NoFlagsYet
  <2>3. Alternate(u) = FALSE
    BY <2>2 DEF Alternate
  <2> QED
    BY <2>1, <2>2, <2>3 DEF Flagged, Fresh
<1> QED
  BY <1>1, <1>2 DEF Flags, Between

LEMMA FlagsContinue ==
  ASSUME NEW c \in Calls, NEW k \in 1 .. Len(c), NEW d, d = c[k], d.conv # "plain",
         NEW i \in 0 .. Len(d.pad) - 1, NEW p, NEW a, NEW e, Flags(c, k, i, p, a, e)
  PROVE  Flags(c, k, i + 1, p + 1, a, FlagOf(e, d.pad[i + 1]))
<1>1. WellFormed(d) /\ i \in Nat /\ Len(d.pad) \in Nat /\ d.pad \in Seq(Characters)
  BY CallTypes, LengthTypes, DirectiveTypes
<1>2. p + 1 = Place(c, k, 1 + (i + 1))
  <2>1. PICK j \in Nat : j = 1 + i /\ j + 1 = 1 + (i + 1)
    <3>1. 1 + i \in Nat /\ (1 + i) + 1 = 1 + (i + 1)
      BY <1>1, SMT
    <3> QED
      BY <3>1
  <2>2. Place(c, k, j) + 1 = Place(c, k, j + 1)
    BY PlaceMore
  <2> QED
    BY <2>1, <2>2 DEF Flags
<1>3. PICK u, v : u = SubSeq(d.pad, 1, i) /\ v = SubSeq(d.pad, 1, i + 1)
  OBVIOUS
<1>4. PICK f : f = d.pad[i + 1]
  OBVIOUS
<1>5. OneFlagMore(u, v, f)
  <2>1. PICK s \in Seq(Characters) : s = d.pad
    BY <1>1
  <2>2. i \in 0 .. Len(s) - 1
    BY <2>1
  <2>3. OneFlagMore(SubSeq(s, 1, i), SubSeq(s, 1, i + 1), s[i + 1])
    BY <2>2, FlagAdded
  <2> QED
    BY <1>3, <1>4, <2>1, <2>3
<1>6. f \in PadFlags \cup {"#"}
  <2>1. i + 1 \in 1 .. Len(d.pad)
    BY <1>1, SMT
  <2> QED
    BY <1>1, <1>4, <2>1, PadMarks
<1>7. e = [padc |-> LastPad(u), width |-> -1, precision |-> -1, lflag |-> 0, altflag |-> Alternate(u)]
  BY <1>3 DEF Flags, Flagged
<1>8. Flagged(d, i + 1) =
        [padc |-> LastPad(v), width |-> -1, precision |-> -1, lflag |-> 0, altflag |-> Alternate(v)]
  BY <1>3 DEF Flagged
<1>9. FlagOf(e, f) = Flagged(d, i + 1)
  <2>1. CASE f \in PadFlags
    <3>1. LastPad(v) = f /\ Alternate(v) = Alternate(u)
      BY <1>5, <2>1, SMT DEF PadFlags, Alternate, OneFlagMore
    <3>2. FlagOf(e, f) = [e EXCEPT !.padc = f]
      BY <2>1 DEF FlagOf
    <3> QED
      BY <1>7, <1>8, <3>1, <3>2
  <2>2. CASE f \notin PadFlags
    <3>1. f = "#" /\ f # "."
      BY <1>6, <2>2
    <3>2. LastPad(v) = LastPad(u) /\ Alternate(v) = TRUE
      BY <1>5, <2>2, <3>1 DEF Alternate, OneFlagMore
    <3>3. FlagOf(e, f) = [e EXCEPT !.altflag = TRUE]
      BY <2>2, <3>1 DEF FlagOf
    <3> QED
      BY <1>7, <1>8, <3>2, <3>3
  <2> QED
    BY <2>1, <2>2
<1> QED
  BY <1>2, <1>4, <1>9 DEF Flags

LEMMA WholePad == ASSUME NEW d, WellFormed(d) PROVE SubSeq(d.pad, 1, Len(d.pad)) = d.pad
<1>1. PICK s \in Seq(Characters) : s = d.pad
  BY DirectiveTypes
<1>2. SubSeq(s, 1, Len(s)) = s
  BY SMT
<1> QED
  BY <1>1, <1>2

LEMMA FlaggedWhole ==
  ASSUME NEW d, WellFormed(d)
  PROVE  Flagged(d, Len(d.pad)) = [padc |-> LastPad(d.pad), width |-> -1, precision |-> -1, lflag |-> 0,
                                   altflag |-> Alternate(d.pad)]
  BY WholePad, Zenon DEF Flagged

LEMMA NumberWords ==
  ASSUME NEW n, IsNumber(n)
  PROVE  n.text # <<>> /\ (n.words = <<>> \/ Len(n.words) = 1)
<1>1. <<"*">> # <<>>
  BY SMT
<1> QED
  BY <1>1 DEF IsNumber

(* no width, or all of it *)
LEMMA NoWidth ==
  ASSUME NEW c \in Calls, NEW k \in 1 .. Len(c), NEW d, d = c[k], d.conv # "plain", d.width.text = <<>>,
         NEW p, NEW a, NEW e, Flags(c, k, Len(d.pad), p, a, e)
  PROVE  WidthRead(c, k, p, a, e)
<1>1. WellFormed(d)
  BY CallTypes
<1>2. d.width = Absent
  BY <1>1, NumberWords DEF WellFormed
<1>3. d.width.words = <<>> /\ d.width.value = -1 /\ Len(d.width.text) = 0 /\ Len(d.width.words) = 0
  BY <1>2, EmptySeq DEF Absent
<1>4. WidthEnd(d) = 1 + Len(d.pad)
  <2>1. Len(d.pad) \in Nat
    BY <1>1, LengthTypes
  <2> QED
    BY <1>3, <2>1 DEF WidthEnd, PadEnd
<1>5. e = Widened(d)
  <2>1. PICK q, x : q = LastPad(d.pad) /\ x = Alternate(d.pad)
    OBVIOUS
  <2>2. e = [padc |-> q, width |-> -1, precision |-> -1, lflag |-> 0, altflag |-> x]
    BY <1>1, <2>1, FlaggedWhole DEF Flags
  <2>3. Widened(d) = [[padc |-> q, width |-> -1, precision |-> -1, lflag |-> 0, altflag |-> x]
                        EXCEPT !.width = -1]
    BY <1>1, <1>3, <2>1, FlaggedWhole DEF Widened
  <2> QED
    BY <2>2, <2>3
<1> QED
  BY <1>3, <1>4, <1>5 DEF Flags, WidthRead

Rest(a, words) == IF words = <<>> THEN a ELSE Tail(a)

(* one word of the arguments, or none *)
WordGoes(c, k, j, m, w) ==
  /\ Rest(Left(c, k, j), w) = Left(c, k, j + Len(w))
  /\ Len(w) = 1 => Left(c, k, j)[1] = m[j + 1]
LEMMA WordTaken ==
  ASSUME NEW c \in Calls, NEW k \in 1 .. Len(c), NEW j \in Nat, NEW m, m = Words(c[k]), NEW w,
         w = <<>> \/ Len(w) = 1, j + Len(w) <= Len(m)
  PROVE  WordGoes(c, k, j, m, w)
<1> USE DEF WordGoes
<1>1. Len(m) \in Nat
  BY CallTypes, WordsTyped
<1>2. CASE w = <<>>
  <2>1. Len(w) = 0 /\ j + Len(w) = j
    BY <1>2, EmptySeq, SMT
  <2> QED
    BY <1>2, <2>1 DEF Rest
<1>3. CASE Len(w) = 1
  <2>1. j + 1 <= Len(m)
    BY <1>3
  <2>2. j \in 0 .. Len(m) /\ j < Len(m) /\ 1 \in 1 .. Len(m) - j
    BY <1>1, <2>1, SMT
  <2>3. PICK v : v = Left(c, k, j)
    OBVIOUS
  <2>4. Leaves(c, k, j, v)
    BY <2>2, <2>3, LeftAt
  <2>5. Tail(v) = Left(c, k, j + 1) /\ v[1] = m[j + 1]
    BY <2>2, <2>4 DEF Leaves
  <2>6. w # <<>>
    BY <1>3, SMT
  <2> QED
    BY <1>3, <2>3, <2>5, <2>6 DEF Rest
<1> QED
  BY <1>2, <1>3

(* the words of a directive: its width's, its precision's, its argument's *)
LEMMA WordsOrder ==
  ASSUME NEW d, WellFormed(d)
  PROVE  /\ Len(d.width.words) \in Nat /\ Len(d.precision.words) \in Nat /\ Len(d.arg) \in Nat
         /\ Len(d.width.words) <= Len(Words(d))
         /\ Len(d.width.words) + Len(d.precision.words) \in Nat
         /\ Len(d.width.words) + Len(d.precision.words) <= Len(Words(d))
         /\ Len(Words(d)) = Len(d.width.words) + Len(d.precision.words) + Len(d.arg)
         /\ \A i \in 1 .. Len(d.width.words) : Words(d)[i] = d.width.words[i]
         /\ \A i \in 1 .. Len(d.precision.words) : Words(d)[Len(d.width.words) + i] = d.precision.words[i]
         /\ \A i \in 1 .. Len(d.arg) : Words(d)[Len(d.width.words) + Len(d.precision.words) + i] = d.arg[i]
<1>1. \A x, y, z \in Nat : x <= x + y + z /\ x + y \in Nat /\ x + y <= x + y + z
  BY SMT
<1>2. /\ Len(d.width.words) \in Nat /\ Len(d.precision.words) \in Nat /\ Len(d.arg) \in Nat
      /\ Len(Words(d)) = Len(d.width.words) + Len(d.precision.words) + Len(d.arg)
      /\ \A i \in 1 .. Len(d.width.words) : Words(d)[i] = d.width.words[i]
      /\ \A i \in 1 .. Len(d.precision.words) : Words(d)[Len(d.width.words) + i] = d.precision.words[i]
      /\ \A i \in 1 .. Len(d.arg) : Words(d)[Len(d.width.words) + Len(d.precision.words) + i] = d.arg[i]
  BY WordsFacts, Zenon
<1>3. PICK x \in Nat, y \in Nat, z \in Nat :
        x = Len(d.width.words) /\ y = Len(d.precision.words) /\ z = Len(d.arg)
  BY <1>2
<1>4. x <= x + y + z /\ x + y \in Nat /\ x + y <= x + y + z
  BY <1>1
<1> QED
  BY <1>2, <1>3, <1>4

WidthLands(c, k, n, p, a, e) ==
  /\ IsNumber(n) /\ (Len(n.words) = 1 => a[1] = n.words[1])
  /\ WidthRead(c, k, p + Len(n.text), Rest(a, n.words), Counted(e, n.value))

LEMMA WidthComes ==
  ASSUME NEW c \in Calls, NEW k \in 1 .. Len(c), NEW d, d = c[k], d.conv # "plain", d.width.text # <<>>,
         NEW p, NEW a, NEW e, Flags(c, k, Len(d.pad), p, a, e)
  PROVE  WidthLands(c, k, d.width, p, a, e)
<1>1. WellFormed(d)
  BY CallTypes
<1>2. IsNumber(d.width)
  BY <1>1 DEF WellFormed, Absent
<1>3. d.width.words = <<>> \/ Len(d.width.words) = 1
  BY <1>2, NumberWords
<1>4. Len(d.width.words) \in Nat /\ Len(d.width.words) <= Len(Words(d)) /\ 0 \in Nat
  BY <1>1, WordsOrder
<1>6. \A x \in Nat : 0 + x = x /\ 0 + 1 = 1
  BY SMT
<1>5. /\ Rest(Left(c, k, 0), d.width.words) = Left(c, k, Len(d.width.words))
      /\ Len(d.width.words) = 1 => Left(c, k, 0)[1] = Words(d)[1]
  <2>1. 0 + Len(d.width.words) <= Len(Words(d))
    BY <1>4, <1>6
  <2>2. /\ Rest(Left(c, k, 0), d.width.words) = Left(c, k, 0 + Len(d.width.words))
        /\ Len(d.width.words) = 1 => Left(c, k, 0)[1] = Words(d)[0 + 1]
    <3>1. WordGoes(c, k, 0, Words(d), d.width.words)
      BY <1>3, <1>4, <2>1, WordTaken
    <3> QED
      BY <3>1, Zenon DEF WordGoes
  <2> QED
    BY <1>4, <1>6, <2>2
<1>7. Len(d.width.words) = 1 => a[1] = d.width.words[1]
  <2> SUFFICES ASSUME Len(d.width.words) = 1 PROVE a[1] = d.width.words[1]
    OBVIOUS
  <2>1. 1 \in 1 .. Len(d.width.words)
    <3>1. 1 \in 1 .. 1
      BY SMT
    <3> QED
      BY <3>1
  <2>2. Words(d)[1] = d.width.words[1]
    BY <1>1, <2>1, WordsOrder
  <2> QED
    BY <1>5, <2>2 DEF Flags
<1>8. p + Len(d.width.text) = Place(c, k, WidthEnd(d))
  <2>1. PICK g \in Nat, h \in Nat : g = Len(d.pad) /\ h = Len(d.width.text)
    BY <1>1, LengthTypes
  <2>2. PICK j \in Nat : j = 1 + g
    BY SMT
  <2>3. Place(c, k, j) + h = Place(c, k, j + h)
    BY PlaceMore
  <2>4. WidthEnd(d) = j + h /\ p = Place(c, k, j)
    BY <2>1, <2>2 DEF WidthEnd, PadEnd, Flags
  <2> QED
    BY <2>1, <2>3, <2>4
<1>9. Counted(e, d.width.value) = Widened(d)
  <2>1a. PICK v \in Int : v = d.width.value
    BY <1>1, DirectiveTypes
  <2>1. PICK q, b : q = LastPad(d.pad) /\ b = Alternate(d.pad) /\ v = d.width.value
    BY <2>1a, <1>1, DirectiveTypes
  <2>2. e = [padc |-> q, width |-> -1, precision |-> -1, lflag |-> 0, altflag |-> b]
    BY <1>1, <2>1, FlaggedWhole DEF Flags
  <2>3. Widened(d) = [[padc |-> q, width |-> -1, precision |-> -1, lflag |-> 0, altflag |-> b]
                        EXCEPT !.width = v]
    BY <1>1, <2>1, FlaggedWhole DEF Widened
  <2>4. e.width = -1 /\ e.width < 0
    BY <2>2, SMT
  <2>5. Counted(e, v) = [e EXCEPT !.width = v, !.precision = -1]
    BY <2>2, <2>4 DEF Counted
  <2>6. [e EXCEPT !.width = v, !.precision = -1] = Widened(d)
    BY <2>2, <2>3
  <2> QED
    BY <2>1, <2>5, <2>6
<1> QED
  BY <1>2, <1>5, <1>7, <1>8, <1>9 DEF WidthRead, Flags, WidthLands

(* esc behind the width *)
LEMMA WidenedIs ==
  ASSUME NEW d, WellFormed(d)
  PROVE  /\ Widened(d) = [padc |-> LastPad(d.pad), width |-> d.width.value, precision |-> -1, lflag |-> 0,
                          altflag |-> Alternate(d.pad)]
         /\ Pointed(d) = [padc |-> LastPad(d.pad), width |-> IF d.width.value < 0 THEN 0 ELSE d.width.value,
                          precision |-> -1, lflag |-> 0, altflag |-> Alternate(d.pad)]
<1>1a. PICK v \in Int : v = d.width.value
  BY DirectiveTypes
<1>1. PICK q, b : q = LastPad(d.pad) /\ b = Alternate(d.pad) /\ v = d.width.value
  BY <1>1a, DirectiveTypes
<1>2. Widened(d) = [[padc |-> q, width |-> -1, precision |-> -1, lflag |-> 0, altflag |-> b] EXCEPT !.width = v]
  BY <1>1, FlaggedWhole DEF Widened
<1>3. Widened(d) = [padc |-> q, width |-> v, precision |-> -1, lflag |-> 0, altflag |-> b]
  BY <1>2
<1>4. Pointed(d) = [Widened(d) EXCEPT !.width = IF Widened(d).width < 0 THEN 0 ELSE Widened(d).width]
  BY DEF Pointed
<1>5. Widened(d).width = v
  BY <1>3
<1>6. Pointed(d) = [padc |-> q, width |-> IF v < 0 THEN 0 ELSE v, precision |-> -1, lflag |-> 0, altflag |-> b]
  BY <1>3, <1>4, <1>5
<1> QED
  BY <1>1, <1>3, <1>6

Bare(d) == d.precision.text \in {<<".">>, <<".", "0">>}
LEMMA PrecisionKinds ==
  ASSUME NEW d, WellFormed(d), d.conv # "plain"
  PROVE  /\ d.precision.text = <<>> => d.precision = Absent
         /\ d.precision.text # <<>> /\ Bare(d) => d.precision.words = <<>> /\ d.precision.value = -1
         /\ d.precision.text # <<>> /\ ~Bare(d) => IsNumber([d.precision EXCEPT !.text = Tail(@)])
<1>1. d.precision = Absent \/ IsPrecision(d.precision)
  BY DEF WellFormed
<1>2. <<".">> # <<>> /\ <<".", "0">> # <<>>
  BY SMT
<1>3. Absent.text = <<>>
  BY DEF Absent
<1>4. d.precision.text = <<>> => d.precision = Absent
  BY <1>1, <1>2 DEF IsPrecision
<1>5. ASSUME d.precision.text # <<>>, Bare(d) PROVE d.precision.words = <<>> /\ d.precision.value = -1
  <2>1. IsPrecision(d.precision)
    BY <1>1, <1>3, <1>5
  <2>2. ~IsNumber([d.precision EXCEPT !.text = Tail(@)])
    <3> SUFFICES ASSUME NEW m, m = [d.precision EXCEPT !.text = Tail(@)], IsNumber(m) PROVE FALSE
      OBVIOUS
    <3>1. Len(m.text) = Len(d.precision.text) - 1 /\ \A i \in 1 .. Len(m.text) : m.text[i] = d.precision.text[i + 1]
      BY <1>5, PrecisionTail
    <3>2. CASE d.precision.text = <<".">>
      <4>1. Len(m.text) = 0
        BY <3>1, <3>2, SMT
      <4>2. m.text # <<>> /\ (m.text \in Seq(Decimals) \/ m.text = <<"*">>)
        BY NumberWords DEF IsNumber
      <4>3. m.text \in Seq(Decimals) => m.text = <<>>
        BY <4>1, EmptySeq
      <4>4. Len(<<"*">>) = 1
        BY SMT
      <4>5. m.text = <<"*">>
        BY <4>2, <4>3
      <4>6. Len(<<"*">>) = 0
        BY <4>1, <4>5
      <4> QED
        BY <4>4, <4>6
    <3>3. CASE d.precision.text = <<".", "0">>
      <4>1. Len(m.text) = 1 /\ 1 \in 1 .. 1 /\ 1 + 1 = 2 /\ d.precision.text[2] = "0"
        BY <3>1, <3>3, SMT
      <4>2. m.text[1] = "0"
        BY <3>1, <4>1
      <4>3. m.text[1] # "0" \/ m.text = <<"*">>
        BY DEF IsNumber
      <4>4. <<"*">>[1] # "0"
        BY SMT
      <4> QED
        BY <4>2, <4>3, <4>4
    <3> QED
      BY <1>5, <3>2, <3>3 DEF Bare
  <2>3. d.precision.text \in {<<".">>, <<".", "0">>} /\ d.precision.words = <<>> /\ d.precision.value = -1
    BY <2>1, <2>2, Zenon DEF IsPrecision
  <2> QED
    BY <2>3
<1>6. ASSUME d.precision.text # <<>>, ~Bare(d) PROVE IsNumber([d.precision EXCEPT !.text = Tail(@)])
  <2>1. IsPrecision(d.precision)
    BY <1>1, <1>3, <1>6
  <2> QED
    BY <1>6, <2>1, Zenon DEF IsPrecision, Bare
<1> QED
  BY <1>4, <1>5, <1>6

LEMMA NoPrecision ==
  ASSUME NEW c \in Calls, NEW k \in 1 .. Len(c), NEW d, d = c[k], d.conv # "plain", d.precision.text = <<>>,
         NEW p, NEW a, NEW e, WidthRead(c, k, p, a, e)
  PROVE  Longs(c, k, 0, p, a, e)
<1>1. WellFormed(d)
  BY CallTypes
<1>2. d.precision = Absent
  BY <1>1, PrecisionKinds
<1>3. Len(d.precision.text) = 0 /\ Len(d.precision.words) = 0
  BY <1>2, EmptySeq DEF Absent
<1>4. PICK m \in Nat : m = WidthEnd(d)
  BY <1>1, LengthTypes
<1>5. p = Place(c, k, PointEnd(d) + 0)
  <2>1. m + 0 + 0 = m
    BY SMT
  <2>2. PointEnd(d) + 0 = m + 0 + 0
    BY <1>3, <1>4 DEF PointEnd
  <2>3. PointEnd(d) + 0 = m
    BY <2>1, <2>2
  <2>4. p = Place(c, k, m)
    BY <1>4 DEF WidthRead
  <2> QED
    BY <2>3, <2>4
<1>6. a = Left(c, k, Len(d.width.words) + Len(d.precision.words))
  <2>1. PICK n \in Nat : n = Len(d.width.words)
    BY <1>1, WordsOrder
  <2>2. n + 0 = n
    BY SMT
  <2> QED
    BY <1>3, <2>1, <2>2 DEF WidthRead
<1>7. e = Lengthened(d, 0)
  <2>1. PICK v, q, b : q = LastPad(d.pad) /\ b = Alternate(d.pad) /\ v = d.width.value
    OBVIOUS
  <2>2. Widened(d) = [padc |-> q, width |-> v, precision |-> -1, lflag |-> 0, altflag |-> b]
    BY <1>1, <2>1, WidenedIs
  <2>3. Lengthened(d, 0) = [Widened(d) EXCEPT !.lflag = 0]
    BY DEF Lengthened, Precise
  <2>4. [Widened(d) EXCEPT !.lflag = 0] = Widened(d)
    BY <2>2
  <2> QED
    BY <2>3, <2>4 DEF WidthRead
<1> QED
  BY <1>5, <1>6, <1>7 DEF Longs

LEMMA PointComes ==
  ASSUME NEW c \in Calls, NEW k \in 1 .. Len(c), NEW d, d = c[k], d.conv # "plain",
         NEW p, NEW a, NEW e, WidthRead(c, k, p, a, e)
  PROVE  PointRead(c, k, p + 1, a, FlagOf(e, "."))
<1>1. WellFormed(d)
  BY CallTypes
<1>2. PICK m \in Nat : m = WidthEnd(d)
  BY <1>1, LengthTypes
<1>3. p + 1 = Place(c, k, WidthEnd(d) + 1)
  <2>1. 1 \in Nat
    BY SMT
  <2>2. Place(c, k, m) + 1 = Place(c, k, m + 1)
    BY <2>1, PlaceMore
  <2> QED
    BY <1>2, <2>2 DEF WidthRead
<1>4. FlagOf(e, ".") = Pointed(d)
  <2>1. FlagOf(e, ".") = [e EXCEPT !.width = IF @ < 0 THEN 0 ELSE @]
    BY SMT DEF FlagOf, PadFlags
  <2> QED
    BY <2>1 DEF WidthRead, Pointed
<1> QED
  BY <1>3, <1>4 DEF PointRead, WidthRead

(* esc when the precision has been read *)
LEMMA LengthenedIs ==
  ASSUME NEW d, WellFormed(d), d.precision.text # <<>>, NEW i
  PROVE  Lengthened(d, i) =
           [padc |-> Filler(d), width |-> IF d.width.value < 0 THEN 0 ELSE d.width.value,
            precision |-> d.precision.value, lflag |-> i, altflag |-> Alternate(d.pad)]
<1>1a. PICK v \in Int, r \in Int :
        v = (IF d.width.value < 0 THEN 0 ELSE d.width.value) /\ r = d.precision.value
  <2>1. d.width.value \in Int /\ d.precision.value \in Int
    BY DirectiveTypes
  <2>2. 0 \in Int
    BY SMT
  <2> QED
    BY <2>1, <2>2, Zenon
<1>1. PICK q, b, f :
        /\ q = LastPad(d.pad) /\ b = Alternate(d.pad) /\ f = Filler(d)
        /\ v = IF d.width.value < 0 THEN 0 ELSE d.width.value
        /\ r = d.precision.value
  BY <1>1a
<1>2. Pointed(d) = [padc |-> q, width |-> v, precision |-> -1, lflag |-> 0, altflag |-> b]
  BY <1>1, WidenedIs
<1>3. Pointed(d).width = v
  BY <1>2
<1>4. Lengthened(d, i) = [[padc |-> f, width |-> v, precision |-> r, lflag |-> 0, altflag |-> b] EXCEPT !.lflag = i]
  BY <1>1, <1>3, Zenon DEF Lengthened, Precise
<1>5. Lengthened(d, i) = [padc |-> f, width |-> v, precision |-> r, lflag |-> i, altflag |-> b]
  BY <1>4
<1> QED
  BY <1>1, <1>5

LEMMA PlainLengthenedIs ==
  ASSUME NEW d, WellFormed(d), d.precision.text = <<>>, NEW i
  PROVE  Lengthened(d, i) =
           [padc |-> LastPad(d.pad), width |-> d.width.value, precision |-> -1, lflag |-> i,
            altflag |-> Alternate(d.pad)]
<1>1. PICK v, q, b : q = LastPad(d.pad) /\ b = Alternate(d.pad) /\ v = d.width.value
  OBVIOUS
<1>2. Widened(d) = [padc |-> q, width |-> v, precision |-> -1, lflag |-> 0, altflag |-> b]
  BY <1>1, WidenedIs
<1>3. Lengthened(d, i) = [Widened(d) EXCEPT !.lflag = i]
  BY DEF Lengthened, Precise
<1>4. Lengthened(d, i) = [padc |-> q, width |-> v, precision |-> -1, lflag |-> i, altflag |-> b]
  BY <1>2, <1>3
<1> QED
  BY <1>1, <1>4

LEMMA PointedIs ==
  ASSUME NEW d, WellFormed(d), NEW e, e = Pointed(d)
  PROVE  /\ e = [padc |-> LastPad(d.pad), width |-> IF d.width.value < 0 THEN 0 ELSE d.width.value,
                 precision |-> -1, lflag |-> 0, altflag |-> Alternate(d.pad)]
         /\ e.width \in Nat /\ ~(e.width < 0)
<1>1. PICK w \in Int : w = d.width.value
  BY DirectiveTypes
<1>2. e.width = IF w < 0 THEN 0 ELSE w
  BY <1>1, WidenedIs
<1>3. (IF w < 0 THEN 0 ELSE w) \in Nat /\ ~((IF w < 0 THEN 0 ELSE w) < 0)
  BY SMT
<1> QED
  BY <1>2, <1>3, WidenedIs

(* a point with nothing behind it, or with a 0, which is taken for a flag *)
LEMMA BarePoint ==
  ASSUME NEW c \in Calls, NEW k \in 1 .. Len(c), NEW d, d = c[k], d.conv # "plain",
         NEW p, NEW a, NEW e, PointRead(c, k, p, a, e)
  PROVE  /\ d.precision.text = <<".">> => Longs(c, k, 0, p, a, e)
         /\ d.precision.text = <<".", "0">> => Longs(c, k, 0, p + 1, a, FlagOf(e, "0"))
<1>1. WellFormed(d)
  BY CallTypes
<1>2. PICK m \in Nat, n \in Nat : m = WidthEnd(d) /\ n = Len(d.width.words)
  BY <1>1, LengthTypes, WordsOrder
<1>3. <<".">> # <<>> /\ <<".", "0">> # <<>> /\ <<".">> # <<".", "0">> /\ Len(<<".">>) = 1 /\ Len(<<".", "0">>) = 2
  BY SMT
<1>4. ASSUME Bare(d), d.precision.text # <<>> PROVE a = Left(c, k, Len(d.width.words) + Len(d.precision.words))
  <2>1. d.precision.words = <<>>
    BY <1>1, <1>4, PrecisionKinds
  <2>2. n + 0 = n /\ Len(d.precision.words) = 0
    BY <2>1, SMT
  <2> QED
    BY <1>2, <2>2 DEF PointRead
<1>5. PICK v, q, b : /\ q = LastPad(d.pad) /\ b = Alternate(d.pad)
                     /\ v = IF d.width.value < 0 THEN 0 ELSE d.width.value
  OBVIOUS
<1>6. e = [padc |-> q, width |-> v, precision |-> -1, lflag |-> 0, altflag |-> b]
  BY <1>1, <1>5, PointedIs DEF PointRead
<1>7. ASSUME d.precision.text = <<".">> PROVE Longs(c, k, 0, p, a, e)
  <2>1. Bare(d) /\ d.precision.text # <<>>
    BY <1>3, <1>7 DEF Bare
  <2>2. d.precision.value = -1
    BY <1>1, <2>1, PrecisionKinds
  <2>3. Filler(d) = q
    BY <1>3, <1>5, <1>7 DEF Filler
  <2>4. Lengthened(d, 0) = e
    BY <1>1, <1>5, <1>6, <2>1, <2>2, <2>3, LengthenedIs
  <2>5. p = Place(c, k, PointEnd(d) + 0)
    <3>1. m + 1 + 0 = m + 1
      BY SMT
    <3>2. PointEnd(d) + 0 = m + 1 + 0
      BY <1>2, <1>3, <1>7 DEF PointEnd
    <3> QED
      BY <1>2, <3>1, <3>2 DEF PointRead
  <2> QED
    BY <1>4, <2>1, <2>4, <2>5 DEF Longs
<1>8. ASSUME d.precision.text = <<".", "0">> PROVE Longs(c, k, 0, p + 1, a, FlagOf(e, "0"))
  <2>1. Bare(d) /\ d.precision.text # <<>>
    BY <1>3, <1>8 DEF Bare
  <2>2. d.precision.value = -1
    BY <1>1, <2>1, PrecisionKinds
  <2>3. Filler(d) = "0"
    BY <1>8 DEF Filler
  <2>4. Lengthened(d, 0) = FlagOf(e, "0")
    <3>1. FlagOf(e, "0") = [e EXCEPT !.padc = "0"]
      BY DEF FlagOf, PadFlags
    <3>2. Lengthened(d, 0) = [padc |-> "0", width |-> v, precision |-> -1, lflag |-> 0, altflag |-> b]
      BY <1>1, <1>5, <2>1, <2>2, <2>3, LengthenedIs
    <3> QED
      BY <1>6, <3>1, <3>2
  <2>5. p + 1 = Place(c, k, PointEnd(d) + 0)
    <3>1. m + 2 + 0 = (m + 1) + 1 /\ m + 1 \in Nat /\ 1 \in Nat
      BY SMT
    <3>2. PointEnd(d) + 0 = m + 2 + 0
      BY <1>2, <1>3, <1>8 DEF PointEnd
    <3>3. Place(c, k, m + 1) + 1 = Place(c, k, (m + 1) + 1)
      BY <3>1, PlaceMore
    <3> QED
      BY <1>2, <3>1, <3>2, <3>3 DEF PointRead
  <2> QED
    BY <1>4, <2>1, <2>4, <2>5 DEF Longs
<1> QED
  BY <1>7, <1>8

PrecisionLands(c, k, n, p, a, e) ==
  /\ IsNumber(n) /\ (Len(n.words) = 1 => a[1] = n.words[1])
  /\ Longs(c, k, 0, p + Len(n.text), Rest(a, n.words), Counted(e, n.value))

LEMMA PrecisionComes ==
  ASSUME NEW c \in Calls, NEW k \in 1 .. Len(c), NEW d, d = c[k], d.conv # "plain", d.precision.text # <<>>, ~Bare(d),
         NEW p, NEW a, NEW e, PointRead(c, k, p, a, e), NEW n, n = [d.precision EXCEPT !.text = Tail(@)]
  PROVE  PrecisionLands(c, k, n, p, a, e)
<1>1. WellFormed(d)
  BY CallTypes
<1>2. IsNumber(n)
  BY <1>1, PrecisionKinds
<1>3. n.words = d.precision.words /\ n.value = d.precision.value /\ Len(n.text) = Len(d.precision.text) - 1
  BY <1>1, PrecisionTail
<1>4. n.words = <<>> \/ Len(n.words) = 1
  BY <1>2, NumberWords
<1>5. /\ Len(d.width.words) \in Nat /\ Len(d.width.words) + Len(n.words) <= Len(Words(d))
      /\ \A i \in 1 .. Len(n.words) : Words(d)[Len(d.width.words) + i] = n.words[i]
  <2>1. /\ Len(d.width.words) \in Nat /\ Len(d.width.words) + Len(d.precision.words) <= Len(Words(d))
        /\ \A i \in 1 .. Len(d.precision.words) : Words(d)[Len(d.width.words) + i] = d.precision.words[i]
    BY <1>1, WordsOrder
  <2> QED
    BY <1>3, <2>1, Zenon
<1>6. /\ Rest(Left(c, k, Len(d.width.words)), n.words) = Left(c, k, Len(d.width.words) + Len(n.words))
      /\ Len(n.words) = 1 => Left(c, k, Len(d.width.words))[1] = Words(d)[Len(d.width.words) + 1]
  <2>1a. PICK j \in Nat : j = Len(d.width.words)
    BY <1>5
  <2>1. PICK m, w : j = Len(d.width.words) /\ m = Words(d) /\ w = n.words
    BY <2>1a, <1>5
  <2>2. (w = <<>> \/ Len(w) = 1) /\ j + Len(w) <= Len(m)
    BY <1>4, <1>5, <2>1
  <2>3. /\ Rest(Left(c, k, j), w) = Left(c, k, j + Len(w))
        /\ Len(w) = 1 => Left(c, k, j)[1] = m[j + 1]
    <3>1. WordGoes(c, k, j, m, w)
      BY <2>1, <2>2, WordTaken
    <3> QED
      BY <3>1, Zenon DEF WordGoes
  <2> QED
    BY <2>1, <2>3
<1>7. ASSUME Len(n.words) = 1 PROVE a[1] = n.words[1]
  <2>1. 1 \in 1 .. Len(n.words)
    <3>1. 1 \in 1 .. 1
      BY SMT
    <3> QED
      BY <1>7, <3>1
  <2> QED
    BY <1>5, <1>6, <1>7, <2>1 DEF PointRead
<1>8. p + Len(n.text) = Place(c, k, PointEnd(d) + 0)
  <2>1. PICK m \in Nat, t \in Nat : m = WidthEnd(d) /\ t = Len(d.precision.text)
    BY <1>1, LengthTypes
  <2>2. t # 0
    <3>1. d.precision.text \in Seq(Characters)
      BY <1>1, DirectiveTypes
    <3> QED
      BY <2>1, <3>1, EmptySeq
  <2>3. t - 1 \in Nat /\ m + 1 \in Nat /\ (m + 1) + (t - 1) = m + t + 0
    BY <2>2, SMT
  <2>4. Place(c, k, m + 1) + (t - 1) = Place(c, k, (m + 1) + (t - 1))
    BY <2>3, PlaceMore
  <2>5. PointEnd(d) + 0 = m + t + 0
    BY <2>1 DEF PointEnd
  <2>6. p = Place(c, k, m + 1) /\ Len(n.text) = t - 1
    BY <1>3, <2>1 DEF PointRead
  <2> QED
    BY <2>3, <2>4, <2>5, <2>6
<1>9. Counted(e, n.value) = Lengthened(d, 0)
  <2>1. PICK v, q, b, r : /\ q = LastPad(d.pad) /\ b = Alternate(d.pad) /\ r = n.value
                          /\ v = IF d.width.value < 0 THEN 0 ELSE d.width.value
    OBVIOUS
  <2>2. e = [padc |-> q, width |-> v, precision |-> -1, lflag |-> 0, altflag |-> b] /\ ~(e.width < 0)
    BY <1>1, <2>1, PointedIs DEF PointRead
  <2>3. Counted(e, r) = [e EXCEPT !.width = e.width, !.precision = r]
    BY <2>2, Zenon DEF Counted
  <2>4. Counted(e, r) = [padc |-> q, width |-> v, precision |-> r, lflag |-> 0, altflag |-> b]
    BY <2>2, <2>3
  <2>5. Filler(d) = q
    BY <2>1 DEF Filler, Bare
  <2>6. Lengthened(d, 0) = [padc |-> q, width |-> v, precision |-> r, lflag |-> 0, altflag |-> b]
    BY <1>1, <1>3, <2>1, <2>5, LengthenedIs
  <2> QED
    BY <2>1, <2>4, <2>6
<1> QED
  BY <1>2, <1>3, <1>6, <1>7, <1>8, <1>9 DEF Longs, PointRead, PrecisionLands

LEMMA LongsContinue ==
  ASSUME NEW c \in Calls, NEW k \in 1 .. Len(c), NEW d, d = c[k], d.conv # "plain",
         NEW i \in Nat, NEW p, NEW a, NEW e, Longs(c, k, i, p, a, e)
  PROVE  Longs(c, k, i + 1, p + 1, a, FlagOf(e, "l"))
<1>1. WellFormed(d)
  BY CallTypes
<1>2. p + 1 = Place(c, k, PointEnd(d) + (i + 1))
  <2>1. PICK m \in Nat : m = PointEnd(d)
    BY <1>1, LengthTypes
  <2>2. m + i \in Nat /\ 1 \in Nat /\ (m + i) + 1 = m + (i + 1)
    BY SMT
  <2>3. Place(c, k, m + i) + 1 = Place(c, k, (m + i) + 1)
    BY <2>2, PlaceMore
  <2> QED
    BY <2>1, <2>2, <2>3 DEF Longs
<1>3. FlagOf(e, "l") = Lengthened(d, i + 1)
  <2>1. FlagOf(e, "l") = [e EXCEPT !.lflag = @ + 1]
    BY SMT DEF FlagOf, PadFlags
  <2>2. PICK x, w, r, b : Lengthened(d, i) = [padc |-> x, width |-> w, precision |-> r, lflag |-> i, altflag |-> b]
                    /\ Lengthened(d, i + 1) = [padc |-> x, width |-> w, precision |-> r, lflag |-> i + 1, altflag |-> b]
    <3>1. CASE d.precision.text = <<>>
      BY <1>1, <3>1, PlainLengthenedIs, Zenon
    <3>2. CASE d.precision.text # <<>>
      BY <1>1, <3>2, LengthenedIs, Zenon
    <3> QED
      BY <3>1, <3>2
  <2> QED
    BY <2>1, <2>2 DEF Longs
<1> QED
  BY <1>2, <1>3 DEF Longs

(* esc when a directive's conversion comes *)
LEMMA EscAtConversion ==
  ASSUME NEW d, WellFormed(d), d.conv # "plain", NEW e, NEW i, e = Lengthened(d, i)
  PROVE  /\ e.padc = Filler(d) /\ e.width \in Int /\ WidthKept(d, e.width)
         /\ e.precision = d.precision.value /\ e.lflag = i /\ e.altflag = Alternate(d.pad)
<1>1. d.width.value \in Int
  BY DirectiveTypes
<1>2. CASE d.precision.text = <<>>
  <2>1. e = [padc |-> LastPad(d.pad), width |-> d.width.value, precision |-> -1, lflag |-> i,
             altflag |-> Alternate(d.pad)]
    BY <1>2, PlainLengthenedIs
  <2>2. d.precision = Absent
    BY <1>2, PrecisionKinds
  <2>3. d.precision.value = -1
    BY <2>2 DEF Absent
  <2>4. d.precision.text # <<".", "0">>
    BY <1>2, SMT
  <2>5. Filler(d) = LastPad(d.pad)
    BY <2>4 DEF Filler
  <2> QED
    BY <1>1, <2>1, <2>3, <2>5 DEF WidthKept
<1>3. CASE d.precision.text # <<>>
  <2>1. e = [padc |-> Filler(d), width |-> IF d.width.value < 0 THEN 0 ELSE d.width.value,
             precision |-> d.precision.value, lflag |-> i, altflag |-> Alternate(d.pad)]
    BY <1>3, LengthenedIs
  <2>2. PICK w \in Int : w = d.width.value
    BY <1>1
  <2>3. e.width = IF w < 0 THEN 0 ELSE w
    BY <2>1, <2>2
  <2>4. e.width \in Int /\ (e.width = w \/ (e.width = 0 /\ w < 0))
    BY <2>3, SMT
  <2> QED
    BY <2>1, <2>2, <2>4 DEF WidthKept
<1> QED
  BY <1>2, <1>3

(* the arguments when a directive's conversion comes *)
ArgumentNext(c, k, d, a) ==
  /\ \A i \in 1 .. Len(d.arg) : a[i] = d.arg[i]
  /\ SubSeq(a, Len(d.arg) + 1, Len(a)) = Left(c, k + 1, 0)
  /\ Len(d.arg) = 0 => a = Left(c, k, Len(Words(d)))

LEMMA ArgumentComes ==
  ASSUME NEW c \in Calls, NEW k \in 1 .. Len(c), NEW d, d = c[k],
         NEW a, a = Left(c, k, Len(d.width.words) + Len(d.precision.words))
  PROVE  ArgumentNext(c, k, d, a)
<1>1. WellFormed(d)
  BY CallTypes
<1>2. PICK j \in Nat, n \in Nat, m \in Nat :
        /\ j = Len(d.width.words) + Len(d.precision.words) /\ n = Len(d.arg) /\ m = Len(Words(d))
        /\ m = j + n /\ \A i \in 1 .. n : Words(d)[j + i] = d.arg[i]
  <2>1. /\ Len(d.width.words) + Len(d.precision.words) \in Nat /\ Len(d.arg) \in Nat
        /\ Len(Words(d)) = Len(d.width.words) + Len(d.precision.words) + Len(d.arg)
        /\ \A i \in 1 .. Len(d.arg) : Words(d)[Len(d.width.words) + Len(d.precision.words) + i] = d.arg[i]
    BY <1>1, WordsOrder
  <2>2. Len(Words(d)) \in Nat
    BY <1>1, WordsTyped
  <2> QED
    BY <2>1, <2>2, Zenon
<1>3. Leaves(c, k, j, a)
  <2>1. j \in 0 .. m
    <3>1. \A x, y, z \in Nat : z = x + y => x \in 0 .. z
      BY SMT
    <3> QED
      BY <1>2, <3>1
  <2> QED
    BY <1>2, <2>1, LeftAt
<1>4. m - j = n /\ n \in 0 .. n /\ j + n = m
  <2>1. \A x, y, z \in Nat : z = x + y => z - x = y /\ y \in 0 .. y /\ x + y = z
    BY SMT
  <2> QED
    BY <1>2, <2>1
<1>5. \A i \in 1 .. n : a[i] = d.arg[i]
  <2>1. \A i \in 1 .. Len(Words(d)) - j : a[i] = Words(d)[j + i]
    BY <1>3, Zenon DEF Leaves
  <2>2. Len(Words(d)) - j = n
    BY <1>2, <1>4
  <2>3. \A i \in 1 .. n : a[i] = Words(d)[j + i]
    BY <2>1, <2>2
  <2> QED
    BY <1>2, <2>3
<1>6. SubSeq(a, n + 1, Len(a)) = Left(c, k, m)
  BY <1>2, <1>3, <1>4 DEF Leaves
<1>7. Left(c, k, m) = Left(c, k + 1, 0)
  BY <1>2, LeftAt
<1>8. n = 0 => a = Left(c, k, m)
  <2>1. \A x, y \in Nat : y = 0 => x + y = x
    BY SMT
  <2> QED
    BY <1>2, <1>4, <2>1
<1> QED
  BY <1>2, <1>5, <1>6, <1>7, <1>8 DEF ArgumentNext

LEMMA IntegerArgument ==
  ASSUME NEW d, WellFormed(d), d.conv \in Integral, esc.lflag = Len(d.long),
         \A i \in 1 .. Len(d.arg) : ap[i] = d.arg[i]
  PROVE  ArgWords = Len(d.arg) /\ Getuint = Integer(d) /\ (d.conv = "d" => Getint = Value(d))
<1>1. d.conv # "plain"
  BY SMT DEF Integral
<1>2. Len(d.arg) = IF Len(d.long) >= 2 THEN 2 ELSE 1
  BY <1>1, ArgFacts
<1>3. ArgWords = Len(d.arg)
  BY <1>2 DEF ArgWords
<1>4. CASE Len(d.arg) = 2
  <2>1. 1 \in 1 .. Len(d.arg) /\ 2 \in 1 .. Len(d.arg)
    BY <1>4, SMT
  <2>2. ap[1] = d.arg[1] /\ ap[2] = d.arg[2]
    BY <2>1
  <2>3. Getuint = Integer(d)
    BY <1>3, <1>4, <2>2 DEF Getuint, Integer
  <2>4. d.conv = "d" => Getint = Value(d)
    BY <1>3, <2>3, Zenon DEF Getint, Value
  <2> QED
    BY <1>3, <2>3, <2>4
<1>5. CASE Len(d.arg) = 1
  <2>1. 1 \in 1 .. Len(d.arg) /\ 1 # 2
    BY <1>5, SMT
  <2>2. ap[1] = d.arg[1]
    BY <2>1
  <2>3. Getuint = Integer(d)
    BY <1>3, <1>5, <2>1, <2>2 DEF Getuint, Integer
  <2>4. d.conv = "d" => Getint = Value(d)
    BY <1>3, <2>3, Zenon DEF Getint, Value
  <2> QED
    BY <1>3, <2>3, <2>4
<1> QED
  BY <1>2, <1>4, <1>5

LEMMA NextDirective ==
  ASSUME NEW c \in Calls, NEW k \in 1 .. Len(c), NEW p, NEW a, NEW o,
         p = Place(c, k + 1, 0), a = Left(c, k + 1, 0), Sound(c) => o = MeaningTo(c, k)
  PROVE  InText(c, p, a, o)
<1>1. Len(c) \in Nat
  BY CallTypes
<1>2. k + 1 \in 1 .. Len(c) + 1 /\ (k + 1) - 1 = k
  BY <1>1, SMT
<1>3. Between(c, k + 1, p, a, o)
  BY <1>2 DEF Between
<1> QED
  BY <1>2, <1>3 DEF InText

LEMMA ConvertedMeans ==
  ASSUME NEW k \in 1 .. Len(call), call \in Calls, NEW d, d = call[k], d.conv \notin {"plain", "end"},
         pos = Place(call, k, LongEnd(d)), ArgumentNext(call, k, d, ap),
         Sound(call) => out = MeaningTo(call, k - 1),
         NEW text, NEW n, n = Len(d.arg), Converted(text, n), Sound(call) => text = Meaning(d)
  PROVE  pc' = "text" /\ InText(call, pos', ap', out')
<1>1. /\ pos' = pos + 1 /\ pc' = "text" /\ ap' = SubSeq(ap, n + 1, Len(ap)) /\ out' = out \o text
  BY DEF Converted, Step, Putch
<1>2a. PICK c \in Calls : c = call
  OBVIOUS
<1>2. PICK p, a, o : c = call /\ p = pos' /\ a = ap' /\ o = out'
  BY <1>2a
<1>3. Sound(c) => o = MeaningTo(c, k)
  <2>1. MeaningTo(c, k) = MeaningTo(c, k - 1) \o Meaning(d)
    BY <1>2, MeaningToFacts
  <2> QED
    BY <1>1, <1>2, <2>1
<1>4. a = Left(c, k + 1, 0)
  BY <1>1, <1>2 DEF ArgumentNext
<1>5. p = Place(c, k + 1, 0)
  <2>1. WellFormed(d)
    BY CallTypes
  <2>2. PICK m \in Nat : m = LongEnd(d)
    BY <2>1, LengthTypes
  <2>3. 1 \in Nat
    BY SMT
  <2>4. Place(c, k, m) + 1 = Place(c, k, m + 1)
    BY <1>2, <2>3, PlaceMore
  <2>5. Spelled(c, k, d, Format(c))
    BY <1>2, DirectiveChars
  <2>6. Place(c, k, LongEnd(d) + 1) = Place(c, k + 1, 0)
    BY <2>5 DEF Spelled
  <2> QED
    BY <1>1, <1>2, <2>2, <2>4, <2>6
<1>6. InText(c, p, a, o)
  BY <1>2, <1>3, <1>4, <1>5, NextDirective
<1> QED
  BY <1>1, <1>2, <1>6

LEMMA EscapeSteps ==
  ASSUME Next, pc = "escape"
  PROVE  \/ Flag \/ Digits \/ Star
         \/ Character \/ Decimal \/ Unsigned \/ Octal \/ Pointer \/ Percent
         \/ ErrorText \/ ErrorWild \/ String \/ Unrecognized
<1>1. ~Refuse /\ ~PlainText /\ ~Return /\ ~Escape
  BY DEF Refuse, PlainText, Return, Escape, Scanning
<1> QED
  BY <1>1, Zenon DEF Next

LEMMA TextSteps ==
  ASSUME Next, pc = "text"
  PROVE  Refuse \/ PlainText \/ Return \/ Escape
<1>1. ~Flag /\ ~Digits /\ ~Star /\ ~Unrecognized
  BY DEF Flag, Digits, Star, Unrecognized, Scanning
<1>2. ~Character /\ ~Decimal /\ ~Unsigned /\ ~Octal /\ ~Pointer /\ ~Percent
  BY DEF Character, Decimal, Unsigned, Octal, Pointer, Percent, Scanning
<1>3. ~ErrorText /\ ~ErrorWild /\ ~String
  BY DEF ErrorText, ErrorWild, String, Scanning
<1> QED
  BY <1>1, <1>2, <1>3, Zenon DEF Next

LEMMA NoOtherSteps == ASSUME Next PROVE pc = "text" \/ pc = "escape"
<1>1. CASE Refuse \/ PlainText \/ Return \/ Escape
  BY <1>1 DEF Refuse, PlainText, Return, Escape, Scanning
<1>2. CASE Flag \/ Digits \/ Star \/ Unrecognized
  BY <1>2 DEF Flag, Digits, Star, Unrecognized, Scanning
<1>3. CASE Character \/ Decimal \/ Unsigned \/ Octal \/ Pointer \/ Percent
  BY <1>3 DEF Character, Decimal, Unsigned, Octal, Pointer, Percent, Scanning
<1>4. CASE ErrorText \/ ErrorWild \/ String
  BY <1>4 DEF ErrorText, ErrorWild, String, Scanning
<1> QED
  BY <1>1, <1>2, <1>3, <1>4, Zenon DEF Next

(* which character each step reads *)
LEMMA StepsRead ==
  /\ Flag => Ch \in PadFlags \cup {".", "#", "l"}
  /\ Digits => Ch \in Decimals /\ Ch # "0"
  /\ Star => Ch = "*"
  /\ Character => Ch = "c"
  /\ Decimal => Ch = "d"
  /\ Unsigned => Ch \in {"u", "x"}
  /\ Octal => Ch = "o"
  /\ Pointer => Ch = "p"
  /\ Percent => Ch = "%"
  /\ ErrorText \/ ErrorWild => Ch = "e"
  /\ String => Ch = "s"
  /\ Unrecognized => Ch \notin Conversions \cup Marks
<1>1. Flag => Ch \in PadFlags \cup {".", "#", "l"}
  BY DEF Flag
<1>2. Digits => Ch \in Decimals /\ Ch # "0"
  BY DEF Digits, IsDigit
<1>3. (Star => Ch = "*") /\ (Character => Ch = "c") /\ (Decimal => Ch = "d") /\ (Unsigned => Ch \in {"u", "x"})
  BY DEF Star, Character, Decimal, Unsigned
<1>4. (Octal => Ch = "o") /\ (Pointer => Ch = "p") /\ (Percent => Ch = "%") /\ (String => Ch = "s")
  BY DEF Octal, Pointer, Percent, String
<1>5. ErrorText \/ ErrorWild => Ch = "e"
  BY DEF ErrorText, ErrorWild
<1>6. Unrecognized => Ch \notin Conversions \cup Marks
  BY DEF Unrecognized, IsDigit, Marks
<1> QED
  BY <1>1, <1>2, <1>3, <1>4, <1>5, <1>6

LEMMA OnMark ==
  ASSUME Next, pc = "escape", Ch \in Marks
  PROVE  /\ Ch \in PadFlags \cup {".", "#", "l"} => Flag
         /\ Ch = "*" => Star
         /\ Ch \in Decimals /\ Ch # "0" => Digits
<1>1. PICK ch : ch = Ch
  OBVIOUS
<1>2. ch \notin Conversions
  BY <1>1, SMT DEF Marks, Modifiers, Decimals, Conversions
<1>3. \/ Flag /\ ch \in PadFlags \cup {".", "#", "l"}
      \/ Digits /\ ch \in Decimals /\ ch # "0"
      \/ Star /\ ch = "*"
  <2>1. ~(ch = "c") /\ ~(ch = "d") /\ ~(ch \in {"u", "x"}) /\ ~(ch = "o") /\ ~(ch = "p") /\ ~(ch = "%")
        /\ ~(ch = "e") /\ ~(ch = "s") /\ ~(ch \notin Conversions \cup Marks)
    BY <1>1, <1>2, SMT DEF Conversions
  <2> QED
    BY <1>1, <2>1, EscapeSteps, StepsRead
<1>4. ch \in PadFlags \cup {".", "#", "l"} => ~(ch \in Decimals /\ ch # "0") /\ ch # "*"
  BY SMT DEF PadFlags, Decimals
<1>5. ~(ch = "*" /\ ch \in Decimals)
  BY SMT DEF Decimals
<1> QED
  BY <1>1, <1>3, <1>4, <1>5

LEMMA OnConversion ==
  ASSUME Next, pc = "escape", Ch \notin Marks
  PROVE  /\ Ch = "c" => Character
         /\ Ch = "d" => Decimal
         /\ Ch \in {"u", "x"} => Unsigned
         /\ Ch = "o" => Octal
         /\ Ch = "p" => Pointer
         /\ Ch = "%" => Percent
         /\ Ch = "e" => ErrorText \/ ErrorWild
         /\ Ch = "s" => String
         /\ Ch \notin Conversions => Unrecognized
<1>1. PICK ch : ch = Ch
  OBVIOUS
<1>2. ~(ch \in PadFlags \cup {".", "#", "l"}) /\ ~(ch \in Decimals /\ ch # "0") /\ ~(ch = "*")
  BY <1>1, SMT DEF Marks, Modifiers, Decimals, PadFlags
<1>3. \/ Character /\ ch = "c"
      \/ Decimal /\ ch = "d"
      \/ Unsigned /\ ch \in {"u", "x"}
      \/ Octal /\ ch = "o"
      \/ Pointer /\ ch = "p"
      \/ Percent /\ ch = "%"
      \/ (ErrorText \/ ErrorWild) /\ ch = "e"
      \/ String /\ ch = "s"
      \/ Unrecognized /\ ch \notin Conversions
  BY <1>1, <1>2, EscapeSteps, StepsRead
<1>4. ch \in {"c", "d", "u", "x", "o", "p", "%", "e", "s"} <=> ch \in Conversions
  BY DEF Conversions
<1> QED
  BY <1>1, <1>3, <1>4

(* the scan reads the conversion of directive k *)
Converting(k, d) ==
  /\ call \in Calls /\ fmt = Format(call) /\ k \in 1 .. Len(call) /\ d = call[k] /\ d.conv # "plain"
  /\ Sound(call) => out = MeaningTo(call, k - 1)
  /\ Longs(call, k, Len(d.long), pos, ap, esc)

LEMMA ConvertingFacts ==
  ASSUME NEW k, NEW d, Converting(k, d)
  PROVE  /\ WellFormed(d) /\ Ch = Closing(d) /\ Ch \notin Marks
         /\ pos = Place(call, k, LongEnd(d)) /\ ArgumentNext(call, k, d, ap)
         /\ esc.padc = Filler(d) /\ esc.width \in Int /\ WidthKept(d, esc.width)
         /\ esc.precision = d.precision.value /\ esc.lflag = Len(d.long) /\ esc.altflag = Alternate(d.pad)
<1>1a. PICK c \in Calls : c = call
  BY DEF Converting
<1>1. PICK f : c = call /\ f = fmt
  BY <1>1a DEF Converting
<1>2. k \in 1 .. Len(c) /\ d = c[k] /\ d.conv # "plain" /\ f = Format(c)
  BY <1>1 DEF Converting
<1>3. WellFormed(d)
  BY <1>2, CallTypes
<1>4. pos = Place(c, k, LongEnd(d)) /\ ap = Left(c, k, Len(d.width.words) + Len(d.precision.words))
      /\ esc = Lengthened(d, Len(d.long))
  BY <1>1, <1>2 DEF Converting, Longs, LongEnd
<1>5. Ch = Closing(d) /\ Ch \notin Marks
  <2>1. Spelled(c, k, d, f)
    BY <1>2, DirectiveChars
  <2>2. f[Place(c, k, LongEnd(d))] = Closing(d)
    BY <2>1, Zenon DEF Spelled
  <2>3. Closing(d) \notin Marks
    BY <1>2, <1>3, ClosingFacts
  <2> QED
    BY <1>1, <1>4, <2>2, <2>3 DEF Ch
<1>6. ArgumentNext(c, k, d, ap)
  BY <1>2, <1>4, ArgumentComes
<1>7. PICK i, e : i = Len(d.long) /\ e = esc
  OBVIOUS
<1>8. /\ e.padc = Filler(d) /\ e.width \in Int /\ WidthKept(d, e.width)
      /\ e.precision = d.precision.value /\ e.lflag = i /\ e.altflag = Alternate(d.pad)
  BY <1>2, <1>3, <1>4, <1>7, EscAtConversion
<1> QED
  BY <1>1, <1>3, <1>4, <1>5, <1>6, <1>7, <1>8

(* what a step at a conversion leads to *)
Prints == \E s \in Seq(Characters) : Putch(s)
Progress == \/ pc' = "text" /\ InText(call, pos', ap', out') /\ Prints
            \/ pc' = "wild" /\ ~Sound(call) /\ out' = out /\ buf' = buf

LEMMA ConvertedProgress ==
  ASSUME NEW k, NEW d, Converting(k, d), d.conv \notin {"plain", "end"},
         NEW text \in Seq(Characters), NEW n, n = Len(d.arg), Converted(text, n),
         Sound(call) => text = Meaning(d)
  PROVE  Progress
<1>1. pos = Place(call, k, LongEnd(d)) /\ ArgumentNext(call, k, d, ap)
  BY ConvertingFacts
<1>2. Prints
  BY DEF Prints, Converted
<1>3. pc' = "text" /\ InText(call, pos', ap', out')
  BY <1>1, ConvertedMeans DEF Converting
<1> QED
  BY <1>2, <1>3 DEF Progress

LEMMA MeaningProgress ==
  ASSUME NEW k, NEW d, Converting(k, d), d.conv \notin {"plain", "end"},
         NEW n, n = Len(d.arg), Converted(Meaning(d), n)
  PROVE  Progress
<1>1. PICK text : text = Meaning(d)
  OBVIOUS
<1>2. text \in Seq(Characters)
  BY <1>1, ConvertingFacts, MeaningTyped
<1> QED
  BY <1>1, <1>2, ConvertedProgress

LEMMA IntegerProgress ==
  ASSUME Next, pc = "escape", NEW k, NEW d, Converting(k, d), d.conv \in {"d", "u", "x", "p"}
  PROVE  Progress
<1>1. /\ WellFormed(d) /\ Ch = d.conv /\ Ch \notin Marks
      /\ esc.padc = Filler(d) /\ esc.width \in Int /\ WidthKept(d, esc.width) /\ esc.lflag = Len(d.long)
      /\ \A i \in 1 .. Len(d.arg) : ap[i] = d.arg[i]
  <2>1. d.conv # "end"
    BY SMT
  <2> QED
    BY <2>1, ConvertingFacts DEF Closing, ArgumentNext
<1>2. d.conv \in Integral \cup {"p"} /\ d.conv \notin {"plain", "end"} /\ (d.conv # "p" => d.conv \in Integral)
  BY SMT DEF Integral
<1>3. Integer(d) \in Nat /\ Value(d) \in Int
      /\ (d.conv # "d" => Value(d) = Integer(d) /\ ~(Value(d) < 0) /\ Magnitude(Value(d)) = Integer(d))
  BY <1>1, <1>2, ValueFacts
<1>4. 10 \in {10, 16} /\ 16 \in {10, 16}
  OBVIOUS
<1>5. CASE d.conv = "d"
  <2>1. Converted(DecimalText(Getint, esc.width, esc.padc), ArgWords)
    BY <1>1, <1>5, OnConversion DEF Decimal
  <2>2. ArgWords = Len(d.arg) /\ Getint = Value(d)
    BY <1>1, <1>2, <1>5, IntegerArgument
  <2>3. DecimalText(Value(d), esc.width, esc.padc) = Number(d, 10)
    <3>1. Sign(Value(d)) \o Printnum(Magnitude(Value(d)), 10, esc.width, Filler(d)) = Number(d, 10)
      BY <1>1, <1>2, <1>4, NumberPrinted
    <3> QED
      BY <1>1, <3>1 DEF DecimalText, Sign
  <2>4. Meaning(d) = Number(d, 10)
    BY <1>5, MeaningCases
  <2> QED
    BY <1>2, <2>1, <2>2, <2>3, <2>4, MeaningProgress
<1>6. CASE d.conv \in {"u", "x"}
  <2>1. PICK base \in {10, 16} : base = IF d.conv = "u" THEN 10 ELSE 16
    BY <1>4
  <2>2. Converted(Printnum(Getuint, base, esc.width, esc.padc), ArgWords)
    BY <1>1, <1>6, <2>1, OnConversion DEF Unsigned
  <2>3. ArgWords = Len(d.arg) /\ Getuint = Integer(d) /\ d.conv # "d"
    BY <1>1, <1>2, <1>6, IntegerArgument
  <2>4. Printnum(Integer(d), base, esc.width, Filler(d)) = Number(d, base)
    BY <1>1, <1>2, <2>3, UnsignedPrinted
  <2>5. Meaning(d) = Number(d, base)
    BY <1>6, <2>1, MeaningCases
  <2> QED
    BY <1>1, <1>2, <2>2, <2>3, <2>4, <2>5, MeaningProgress
<1>7. CASE d.conv = "p"
  <2>1. Converted(<<"0", "x">> \o Printnum(ap[1], 16, esc.width, esc.padc), 1)
    BY <1>1, <1>7, OnConversion DEF Pointer
  <2>2. Len(d.arg) = 1
    <3>1. d.conv \notin Integral
      BY <1>7, SMT DEF Integral
    <3> QED
      BY <1>1, <1>2, <1>7, <3>1, ArgFacts
  <2>3. ap[1] = Integer(d)
    <3>1. 1 \in 1 .. 1 /\ 1 # 2
      BY SMT
    <3> QED
      BY <1>1, <2>2, <3>1 DEF Integer
  <2>4. Printnum(Integer(d), 16, esc.width, Filler(d)) = Number(d, 16)
    BY <1>1, <1>2, <1>4, <1>7, UnsignedPrinted
  <2>5. Meaning(d) = <<"0", "x">> \o Number(d, 16)
    BY <1>7, MeaningCases
  <2> QED
    BY <1>1, <1>2, <2>1, <2>2, <2>3, <2>4, <2>5, MeaningProgress
<1> QED
  BY <1>5, <1>6, <1>7

LEMMA ShortProgress ==
  ASSUME Next, pc = "escape", NEW k, NEW d, Converting(k, d), d.conv \in {"c", "o", "%", "s"}
  PROVE  Progress
<1>1. /\ WellFormed(d) /\ Ch = d.conv /\ Ch \notin Marks /\ d.conv # "plain"
      /\ esc.padc = Filler(d) /\ esc.width \in Int /\ WidthKept(d, esc.width)
      /\ esc.precision = d.precision.value /\ esc.altflag = Alternate(d.pad)
      /\ \A i \in 1 .. Len(d.arg) : ap[i] = d.arg[i]
  <2>1. d.conv # "end"
    BY SMT
  <2>2. d.conv # "plain"
    BY SMT
  <2> QED
    BY <2>1, <2>2, ConvertingFacts DEF Closing, ArgumentNext
<1>2. d.conv \notin Integral /\ d.conv \notin {"plain", "end"}
  BY SMT DEF Integral
<1>3. Len(d.arg) = IF d.conv \in {"c", "s"} THEN 1 ELSE 0
  <2>1. d.conv \in Integral \cup {"c", "e", "p", "s"} <=> d.conv \in {"c", "s"}
    BY SMT DEF Integral
  <2> QED
    BY <1>1, <1>2, <2>1, ArgFacts
<1>4. Len(d.arg) = 1 => ap[1] = d.arg[1]
  <2>1. 1 \in 1 .. 1
    BY SMT
  <2> QED
    BY <1>1, <2>1
<1>5. CASE d.conv = "c"
  <2>1. Converted(<<Glyph[ap[1]]>>, 1)
    BY <1>1, <1>5, OnConversion DEF Character
  <2>2. Meaning(d) = <<Glyph[d.arg[1]]>>
    BY <1>5, MeaningCases
  <2> QED
    BY <1>2, <1>3, <1>4, <1>5, <2>1, <2>2, MeaningProgress
<1>6. CASE d.conv = "o"
  <2>1. Converted(<<"X", "X", "X">>, 0)
    BY <1>1, <1>6, OnConversion DEF Octal
  <2>2. Meaning(d) = <<"X", "X", "X">>
    BY <1>6, MeaningCases
  <2>3. Len(d.arg) = 0
    BY <1>3, <1>6
  <2> QED
    BY <1>2, <2>1, <2>2, <2>3, MeaningProgress
<1>7. CASE d.conv = "%"
  <2>1. Converted(<<"%">>, 0)
    BY <1>1, <1>7, OnConversion DEF Percent
  <2>2. Meaning(d) = <<"%">>
    BY <1>7, MeaningCases
  <2>3. Len(d.arg) = 0
    BY <1>3, <1>7
  <2> QED
    BY <1>2, <2>1, <2>2, <2>3, MeaningProgress
<1>8. CASE d.conv = "s"
  <2>1. String
    BY <1>1, <1>8, OnConversion
  <2>2. Len(d.arg) = 1 /\ ap[1] = d.arg[1]
    BY <1>3, <1>4, <1>8
  <2>3. Converted(StringText(Whole(d)), 1)
    BY <2>1, <2>2 DEF String, Whole
  <2>4. StringText(Whole(d)) = Field(d)
    BY <1>1, <1>8, StringPrinted
  <2>5. Meaning(d) = Field(d)
    BY <1>8, MeaningCases
  <2> QED
    BY <1>2, <2>2, <2>3, <2>4, <2>5, MeaningProgress
<1> QED
  BY <1>5, <1>6, <1>7, <1>8

LEMMA ErrorProgress ==
  ASSUME Next, pc = "escape", NEW k, NEW d, Converting(k, d), d.conv = "e"
  PROVE  Progress
<1>1. /\ WellFormed(d) /\ Ch = "e" /\ Ch \notin Marks
      /\ \A i \in 1 .. Len(d.arg) : ap[i] = d.arg[i]
  BY ConvertingFacts DEF Closing, ArgumentNext
<1>2. Len(d.arg) = 1
  <2>1. d.conv \notin Integral /\ d.conv # "plain"
    BY SMT DEF Integral
  <2> QED
    BY <1>1, <2>1, ArgFacts
<1>3. ap[1] = d.arg[1]
  <2>1. 1 \in 1 .. 1
    BY SMT
  <2> QED
    BY <1>1, <1>2, <2>1
<1>4. Sound(call) => ~SmallestError(d)
  BY DEF Converting, Sound
<1>5. CASE ErrorText
  <2>1. PICK err \in Negations(Signed(d.arg[1], Word)) : Converted(ErrorSaid(err), 1)
    BY <1>3, <1>5 DEF ErrorText, ErrorSaid
  <2>2. ErrorSaid(err) \in Seq(Characters) /\ (Sound(call) => ErrorSaid(err) = ErrorMeans(d))
    BY <1>1, <1>4, ErrorPrinted
  <2>3. Meaning(d) = ErrorMeans(d) /\ d.conv \notin {"plain", "end"}
    BY MeaningCases
  <2> QED
    BY <1>2, <2>1, <2>2, <2>3, ConvertedProgress
<1>6. CASE ErrorWild
  <2>1. PICK err \in Negations(Signed(d.arg[1], Word)) : err < Bound /\ err \notin 0 .. MAXERROR - 1
    BY <1>3, <1>6 DEF ErrorWild
  <2>2. SmallestError(d)
    <3>1. err \notin Nat
      BY <2>1, SMT DEF Bound, MAXERROR
    <3> QED
      BY <1>1, <3>1, ErrorPrinted
  <2>3. pc' = "wild" /\ out' = out /\ buf' = buf
    BY <1>6 DEF ErrorWild
  <2> QED
    BY <1>4, <2>2, <2>3 DEF Progress
<1> QED
  BY <1>1, <1>5, <1>6, OnConversion

(* a text character by character *)
LEMMA OneCharacterMore ==
  ASSUME NEW E, NEW s \in Seq(E), NEW i \in 0 .. Len(s) - 1
  PROVE  SubSeq(s, 1, i + 1) = SubSeq(s, 1, i) \o <<s[i + 1]>>
<1>1. PICK n \in Nat : n = i + 1 /\ n - 1 = i /\ n \in 1 .. Len(s) /\ 1 \in 1 .. Len(s)
  <2>1. Len(s) \in Nat
    BY LenProperties
  <2> QED
    BY <2>1, SMT
<1>2. SubSeq(s, 1, n) = SubSeq(s, 1, n - 1) \o <<s[n]>>
  <2>1. n \in 1 .. Len(s)
    BY <1>1
  <2> QED
    BY <1>1, <2>1, SubSeqRecursiveSecond
<1> QED
  BY <1>1, <1>2

(* text that stands for itself, when j characters of it have been printed *)
LEMMA StandsSoFar ==
  ASSUME NEW c \in Calls, NEW k \in 1 .. Len(c), NEW d, d = c[k], Plain(d), NEW j \in 1 .. Len(Text(d)),
         NEW p, NEW a, NEW o, p = Place(c, k, j), a = Left(c, k, Len(Words(d))),
         Sound(c) => o = MeaningTo(c, k - 1) \o SubSeq(Text(d), 1, j)
  PROVE  InText(c, p, a, o)
<1>1. WellFormed(d)
  BY CallTypes
<1>2. Text(d) \in Seq(Characters) /\ Len(Text(d)) \in Nat
  BY <1>1, TextTyped
<1>3. CASE j = Len(Text(d))
  <2>1. p = Place(c, k + 1, 0)
    BY <1>3, FormatAt
  <2>2. a = Left(c, k + 1, 0)
    BY LeftAt
  <2>3. Sound(c) => o = MeaningTo(c, k)
    <3>1. SubSeq(Text(d), 1, j) = Text(d)
      BY <1>2, <1>3, SubSeqFull
    <3>2. Meaning(d) = Text(d)
      BY MeaningCases
    <3>3. MeaningTo(c, k) = MeaningTo(c, k - 1) \o Meaning(d)
      BY MeaningToFacts
    <3> QED
      BY <3>1, <3>2, <3>3
  <2> QED
    BY <2>1, <2>2, <2>3, NextDirective
<1>4. CASE j # Len(Text(d))
  <2>1. j \in 1 .. Len(Text(d)) - 1
    BY <1>2, <1>4, SMT
  <2>2. Within(c, k, j, p, a, o)
    BY DEF Within
  <2> QED
    BY <2>1, <2>2 DEF InText
<1> QED
  BY <1>3, <1>4

LEMMA UnrecognizedProgress ==
  ASSUME Next, pc = "escape", NEW k, NEW d, Converting(k, d), Plain(d)
  PROVE  Progress
<1>1. /\ WellFormed(d) /\ Ch = Closing(d) /\ Ch \notin Marks
      /\ pos = Place(call, k, LongEnd(d)) /\ ArgumentNext(call, k, d, ap)
  BY ConvertingFacts
<1>2a. PICK c \in Calls : c = call
  BY DEF Converting
<1>2. PICK f : c = call /\ f = fmt
  BY <1>2a DEF Converting
<1>3. k \in 1 .. Len(c) /\ d = c[k] /\ d.conv # "plain" /\ f = Format(c)
      /\ (Sound(c) => out = MeaningTo(c, k - 1))
  BY <1>2 DEF Converting
<1>4. Unrecognized
  <2>1. NUL \notin Conversions
    BY SMT DEF NUL, Conversions
  <2>2. Ch \notin Conversions
    BY <1>1, <2>1 DEF Closing, Plain
  <2> QED
    BY <1>1, <2>2, OnConversion
<1>5. out' = out \o <<"%">> /\ pos' = LastPercent + 1 /\ pc' = "text" /\ ap' = ap
  BY <1>4 DEF Unrecognized, Putch
<1>6. PICK p, a, o : p = pos' /\ a = ap' /\ o = out'
  OBVIOUS
<1>7. p = Place(c, k, 1)
  <2>1. LastPercent = LastPercentOf(f, pos)
    BY <1>2 DEF LastPercent, LastPercentOf
  <2>2. LastPercentOf(f, pos) = Place(c, k, 0)
    BY <1>1, <1>2, <1>3, GoesBack
  <2>3. Place(c, k, 0) + 1 = Place(c, k, 0 + 1) /\ 0 + 1 = 1
    <3>1. 0 \in Nat /\ 1 \in Nat /\ 0 + 1 = 1
      BY SMT
    <3> QED
      BY <1>3, <3>1, PlaceMore
  <2> QED
    BY <1>5, <1>6, <2>1, <2>2, <2>3
<1>8. a = Left(c, k, Len(Words(d)))
  <2>1. Len(d.arg) = 0
    <3>1. d.conv \notin Integral /\ d.conv \notin Integral \cup {"c", "e", "p", "s"}
      BY SMT DEF Integral, Plain, Conversions
    <3> QED
      BY <1>1, <1>3, <3>1, ArgFacts
  <2> QED
    BY <1>1, <1>2, <1>5, <1>6, <2>1 DEF ArgumentNext
<1>9. PICK t \in Seq(Characters) : t = Text(d) /\ Len(t) \in Nat \ {0} /\ t[1] = "%"
  <2>1. Text(d)[1] = "%"
    BY <1>1, <1>3, TextFacts
  <2> QED
    BY <1>1, <2>1, TextTyped
<1>10. o = out \o SubSeq(Text(d), 1, 1)
  <2>1. 0 \in 0 .. Len(t) - 1 /\ 0 + 1 = 1
    BY <1>9, SMT
  <2>2. SubSeq(t, 1, 0 + 1) = SubSeq(t, 1, 0) \o <<t[0 + 1]>>
    BY <2>1, OneCharacterMore
  <2>3. SubSeq(t, 1, 0) = <<>>
    BY SubSeqEmpty, SMT
  <2>4. <<>> \o <<"%">> = <<"%">>
    BY CharactersFacts, Singleton, NothingBefore
  <2> QED
    BY <1>5, <1>6, <1>9, <2>1, <2>2, <2>3, <2>4
<1>11. 1 \in 1 .. Len(Text(d))
  BY <1>9, SMT
<1>12. InText(c, p, a, o)
  BY <1>3, <1>7, <1>8, <1>10, <1>11, StandsSoFar
<1>13. Prints
  <2>1. <<"%">> \in Seq(Characters)
    BY CharactersFacts, Singleton
  <2> QED
    BY <1>4, <2>1 DEF Unrecognized, Prints
<1> QED
  BY <1>2, <1>5, <1>6, <1>12, <1>13 DEF Progress

LEMMA ConversionProgress ==
  ASSUME Next, pc = "escape", NEW k, NEW d, Converting(k, d)
  PROVE  Progress
<1>1. \/ d.conv \in {"d", "u", "x", "p"} \/ d.conv \in {"c", "o", "%", "s"} \/ d.conv = "e" \/ Plain(d)
  BY SMT DEF Plain, Conversions
<1> QED
  BY <1>1, IntegerProgress, ShortProgress, ErrorProgress, UnrecognizedProgress

-----------------------------------------------------------------------------
(* the steps inside a directive *)

LEMMA GivenKept == ASSUME Next PROVE call' = call /\ sink' = sink /\ fmt' = fmt
<1>1. CASE Refuse \/ PlainText \/ Return \/ Escape
  BY <1>1 DEF Refuse, PlainText, Return, Escape, Step, given
<1>2. CASE Flag \/ Digits \/ Star \/ Unrecognized
  BY <1>2 DEF Flag, Digits, Star, Unrecognized, Step, given
<1>3. CASE Character \/ Decimal \/ Unsigned \/ Octal \/ Pointer \/ Percent
  BY <1>3 DEF Character, Decimal, Unsigned, Octal, Pointer, Percent, Converted, Step, given
<1>4. CASE ErrorText \/ ErrorWild \/ String
  BY <1>4 DEF ErrorText, ErrorWild, String, Converted, Step, given
<1> QED
  BY <1>1, <1>2, <1>3, <1>4, Zenon DEF Next

LEMMA FlagRead ==
  ASSUME Next, pc = "escape", Ch \in PadFlags \cup {".", "#", "l"}
  PROVE  pos' = pos + 1 /\ ap' = ap /\ esc' = FlagOf(esc, Ch) /\ out' = out /\ buf' = buf /\ pc' = "escape"
<1>1. Ch \in Marks
  BY MarksFacts
<1>2. Flag
  BY <1>1, OnMark
<1>3. pos' = pos + 1 /\ ap' = ap /\ out' = out /\ buf' = buf /\ pc' = "escape"
  BY <1>2 DEF Flag, Step
<1>4. PICK ch : ch = Ch
  OBVIOUS
<1>5. esc' = FlagOf(esc, ch)
  <2>1. \/ ch \in PadFlags /\ esc' = [esc EXCEPT !.padc = ch]
        \/ ch = "." /\ esc' = [esc EXCEPT !.width = IF @ < 0 THEN 0 ELSE @]
        \/ ch = "#" /\ esc' = [esc EXCEPT !.altflag = TRUE]
        \/ ch = "l" /\ esc' = [esc EXCEPT !.lflag = @ + 1]
    BY <1>2, <1>4 DEF Flag
  <2>2. "." \notin PadFlags /\ "#" \notin PadFlags /\ "l" \notin PadFlags /\ "#" # "." /\ "l" # "." /\ "l" # "#"
    BY SMT DEF PadFlags
  <2>3. CASE ch \in PadFlags
    BY <2>1, <2>2, <2>3, Zenon DEF FlagOf
  <2>4. CASE ch = "."
    BY <2>1, <2>2, <2>4, Zenon DEF FlagOf
  <2>5. CASE ch = "#"
    BY <2>1, <2>2, <2>5, Zenon DEF FlagOf
  <2>6. CASE ch = "l"
    BY <2>1, <2>2, <2>6, Zenon DEF FlagOf
  <2> QED
    BY <2>1, <2>3, <2>4, <2>5, <2>6
<1> QED
  BY <1>3, <1>4, <1>5

(* the number n is written at pos *)
Written(n) ==
  /\ IsNumber(n) /\ pos + Len(n.text) \in Nat /\ pos + Len(n.text) <= Len(fmt)
  /\ \A i \in 0 .. Len(n.text) - 1 : fmt[pos + i] = n.text[i + 1]
  /\ fmt[pos + Len(n.text)] \notin Decimals
  /\ Len(n.words) = 1 => ap[1] = n.words[1]

LEMMA NumberRead ==
  ASSUME Next, pc = "escape", pos \in Nat \ {0}, fmt \in Seq(Characters), NEW n, Written(n)
  PROVE  /\ pos' = pos + Len(n.text) /\ ap' = Rest(ap, n.words) /\ esc' = Counted(esc, n.value)
         /\ out' = out /\ buf' = buf /\ pc' = "escape"
<1>1. CASE n.text = <<"*">>
  <2>1. Len(n.text) = 1 /\ 0 \in 0 .. Len(n.text) - 1 /\ pos + 0 = pos /\ 0 + 1 = 1 /\ n.text[1] = "*"
    BY <1>1, SMT
  <2>2. Ch = "*"
    BY <2>1 DEF Written, Ch
  <2>3. "*" \in Marks
    BY MarksFacts
  <2>4. Star
    BY <2>2, <2>3, OnMark
  <2>5. Len(n.words) = 1 /\ n.value = Signed(n.words[1], Word)
    <3>1. "*" \notin Decimals /\ ~(n.text \in Seq(Decimals))
      <4>1. "*" \notin Decimals
        BY SMT DEF Decimals
      <4>2. ASSUME n.text \in Seq(Decimals) PROVE FALSE
        <5>1. n.text[1] \in Decimals
          BY <2>1, <4>2, SMT
        <5> QED
          BY <2>1, <4>1, <5>1
      <4> QED
        BY <4>1, <4>2
    <3> QED
      BY <3>1 DEF Written, IsNumber
  <2>6. ap[1] = n.words[1] /\ n.words # <<>>
    <3>1. n.words # <<>>
      BY <2>5, SMT
    <3> QED
      BY <2>5, <3>1 DEF Written
  <2>7. esc' = ProcessPrecision(n.value) /\ ap' = Tail(ap) /\ pos' = pos + 1 /\ pc' = "escape" /\ out' = out /\ buf' = buf
    BY <2>4, <2>5, <2>6 DEF Star, Step
  <2> QED
    BY <2>1, <2>6, <2>7 DEF ProcessPrecision, Counted, Rest
<1>2. CASE n.text # <<"*">>
  <2>1. /\ n.text # <<>> /\ n.text \in Seq(Decimals) /\ n.text[1] # "0" /\ n.words = <<>>
        /\ n.value = DecimalValue(n.text)
    BY <1>2 DEF Written, IsNumber
  <2>2. PICK w \in Seq(Decimals) : w = n.text /\ w # <<>> /\ Len(w) \in Nat \ {0}
    BY <2>1, EmptySeq, LenProperties
  <2>3. pos + 0 = pos /\ 0 + 1 = 1 /\ 0 \in 0 .. Len(w) - 1 /\ 1 \in 1 .. Len(w)
    BY <2>2, SMT
  <2>4. Ch \in Decimals /\ Ch # "0"
    <3>1. Ch = w[1]
      BY <2>2, <2>3 DEF Written, Ch
    <3>2. w[1] \in Decimals
      BY <2>2, <2>3, ElementOfSeq
    <3> QED
      BY <2>1, <2>2, <3>1, <3>2
  <2>5. Digits
    BY <2>4, OnMark DEF Marks
  <2>6. PICK end \in pos .. Len(fmt) - 1 :
          /\ \A m \in pos .. end : fmt[m] \in Decimals
          /\ fmt[end + 1] \notin Decimals
          /\ esc' = ProcessPrecision(DecimalValue(SubSeq(fmt, pos, end)))
          /\ pos' = end + 1
    BY <2>5 DEF Digits, IsDigit
  <2>7. end + 1 = pos + Len(w) /\ SubSeq(fmt, pos, end) = w
    <3>1. PICK f \in Seq(Characters), p \in Nat : f = fmt /\ p = pos /\ p > 0
      BY SMT
    <3>2. Stands(f, p, w) /\ Scans(f, p, end)
      BY <2>2, <2>6, <3>1 DEF Written, Stands, Scans
    <3>3. ReadsAs(f, p, w, end)
      BY <2>2, <3>1, <3>2, DigitsRead
    <3> QED
      BY <3>1, <3>3 DEF ReadsAs
  <2>8. esc' = ProcessPrecision(n.value) /\ pos' = pos + Len(n.text)
    BY <2>1, <2>2, <2>6, <2>7
  <2>9. ap' = ap /\ out' = out /\ buf' = buf /\ pc' = "escape"
    BY <2>5 DEF Digits
  <2> QED
    BY <2>1, <2>8, <2>9 DEF ProcessPrecision, Counted, Rest
<1> QED
  BY <1>1, <1>2

(* the scan is inside directive k *)
Reading(k, d) ==
  /\ call \in Calls /\ fmt = Format(call) /\ k \in 1 .. Len(call) /\ d = call[k] /\ d.conv # "plain"
  /\ Sound(call) => out = MeaningTo(call, k - 1)
  /\ pc = "escape"

LEMMA ReadingFacts ==
  ASSUME NEW k, NEW d, Reading(k, d)
  PROVE  /\ WellFormed(d) /\ Spelled(call, k, d, fmt) /\ fmt \in Seq(Characters)
         /\ fmt[Place(call, k, WidthEnd(d))] \notin Decimals
         /\ fmt[Place(call, k, PointEnd(d))] \notin Decimals
<1>1a. PICK c \in Calls : c = call
  BY DEF Reading
<1>1. PICK f : c = call /\ f = fmt
  BY <1>1a DEF Reading
<1>2. k \in 1 .. Len(c) /\ d = c[k] /\ d.conv # "plain" /\ f = Format(c)
  BY <1>1 DEF Reading
<1>3. WellFormed(d)
  BY <1>2, CallTypes
<1>4. Spelled(c, k, d, f)
  BY <1>2, DirectiveChars
<1>5. f[Place(c, k, WidthEnd(d))] \notin Decimals /\ f[Place(c, k, PointEnd(d))] \notin Decimals
  BY <1>2, Followers
<1>6. f \in Seq(Characters)
  BY <1>2, FormatFacts
<1> QED
  BY <1>1, <1>3, <1>4, <1>5, <1>6

LEMMA NumberWritten ==
  ASSUME NEW k, NEW d, Reading(k, d), NEW j \in Nat, NEW n, IsNumber(n), NEW m \in Nat, m = Len(n.text),
         pos = Place(call, k, j), j + m <= LongEnd(d),
         \A i \in 0 .. m - 1 : fmt[Place(call, k, j + i)] = n.text[i + 1],
         fmt[Place(call, k, j + m)] \notin Decimals, Len(n.words) = 1 => ap[1] = n.words[1]
  PROVE  Written(n) /\ pos \in Nat \ {0}
<1>1a. PICK c \in Calls : c = call
  BY DEF Reading
<1>1. PICK f : c = call /\ f = fmt
  BY <1>1a DEF Reading
<1>2. k \in 1 .. Len(c) /\ d = c[k] /\ d.conv # "plain" /\ f = Format(c)
  BY <1>1 DEF Reading
<1>3. pos \in Nat \ {0} /\ \A i \in Nat : pos + i = Place(c, k, j + i)
  BY <1>1, <1>2, PlaceMore
<1>4. ASSUME NEW i \in 0 .. m - 1 PROVE f[pos + i] = n.text[i + 1]
  <2>1. i \in Nat
    BY SMT
  <2> QED
    BY <1>1, <1>3, <2>1
<1>5. f[pos + m] \notin Decimals
  BY <1>1, <1>3
<1>6. pos + m \in Nat /\ pos + m <= Len(f)
  <2>1. WellFormed(d)
    BY <1>2, CallTypes
  <2>2. PICK t \in Nat, e \in Nat : t = Len(Text(d)) /\ e = LongEnd(d) /\ e <= t
    <3>1. LongEnd(d) \in Nat /\ Len(Text(d)) \in Nat
      BY <2>1, LengthTypes, TextTyped
    <3>2. Len(Text(d)) = LongEnd(d) + 1 \/ Len(Text(d)) = LongEnd(d)
      BY <1>2, <2>1, TextFacts
    <3> QED
      BY <3>1, <3>2, SMT
  <2>3. PICK p \in Nat \ {0} : p = Place(c, k, 0) /\ \A i \in Nat : Place(c, k, i) = p + i
    BY <1>2, FormatAt
  <2>4. Place(c, k, t) <= Len(f) /\ Len(f) \in Nat
    <3>1. Place(c, k, t) = Place(c, k + 1, 0)
      BY <1>2, <2>2, FormatAt
    <3>2. Place(c, k + 1, 0) <= Len(Format(c))
      BY <1>2, FormatAt
    <3> QED
      BY <1>2, <3>1, <3>2, FormatFacts
  <2>5. p + t <= Len(f) /\ pos = p + j
    BY <1>1, <2>3, <2>4
  <2>6. \A x, y, z, u, v \in Nat : x + u <= v /\ y + z <= u => (x + y) + z \in Nat /\ (x + y) + z <= v
    BY SMT
  <2>7. j + m <= t
    <3>1. \A x, y, z \in Nat : x <= y /\ y <= z => x <= z
      BY SMT
    <3>2. j + m \in Nat
      BY SMT
    <3> QED
      BY <2>2, <3>1, <3>2
  <2>8. (p + j) + m \in Nat /\ (p + j) + m <= Len(f)
    <3>1. p \in Nat /\ t \in Nat /\ Len(f) \in Nat /\ p + t <= Len(f)
      BY <2>4, <2>5
    <3> QED
      BY <2>6, <2>7, <3>1
  <2> QED
    BY <2>5, <2>8
<1> QED
  BY <1>1, <1>3, <1>4, <1>5, <1>6 DEF Written

(* what a step inside directive k leads to, before its conversion *)
Continues(k) == pc' = "escape" /\ out' = out /\ buf' = buf /\ InDirective(call, k, pos', ap', esc')

LEMMA FlagsProgress ==
  ASSUME Next, NEW k, NEW d, Reading(k, d), NEW i \in 0 .. Len(d.pad) - 1, Flags(call, k, i, pos, ap, esc)
  PROVE  Continues(k)
<1>1. PICK c \in Calls : c = call /\ k \in 1 .. Len(c) /\ d = c[k] /\ d.conv # "plain"
  BY DEF Reading
<1>2. WellFormed(d) /\ Spelled(call, k, d, fmt)
  BY ReadingFacts
<1>3. Ch = d.pad[i + 1]
  BY <1>2 DEF Spelled, Flags, Ch
<1>4. i + 1 \in 1 .. Len(d.pad) /\ i + 1 \in 0 .. Len(d.pad)
  <2>1. Len(d.pad) \in Nat
    BY <1>2, LengthTypes
  <2> QED
    BY <2>1, SMT
<1>5. Ch \in PadFlags \cup {".", "#", "l"}
  BY <1>1, <1>2, <1>3, <1>4, PadMarks
<1>6. pos' = pos + 1 /\ ap' = ap /\ esc' = FlagOf(esc, Ch) /\ out' = out /\ buf' = buf /\ pc' = "escape"
  BY <1>5, FlagRead DEF Reading
<1>7. PICK p, a, e : p = pos' /\ a = ap' /\ e = esc'
  OBVIOUS
<1>8. Flags(c, k, i + 1, p, a, e)
  <2>1. PICK q, b, x : q = pos /\ b = ap /\ x = esc
    OBVIOUS
  <2>2. Flags(c, k, i + 1, q + 1, b, FlagOf(x, d.pad[i + 1]))
    BY <1>1, <2>1, FlagsContinue
  <2> QED
    BY <1>3, <1>6, <1>7, <2>1, <2>2
<1>9. InDirective(c, k, p, a, e)
  BY <1>1, <1>4, <1>8 DEF InDirective
<1> QED
  BY <1>1, <1>6, <1>7, <1>9 DEF Continues

LEMMA WidthProgress ==
  ASSUME Next, NEW k, NEW d, Reading(k, d), d.width.text # <<>>, Flags(call, k, Len(d.pad), pos, ap, esc)
  PROVE  Continues(k)
<1>1. PICK c \in Calls : c = call /\ k \in 1 .. Len(c) /\ d = c[k] /\ d.conv # "plain"
  BY DEF Reading
<1>2. WellFormed(d) /\ Spelled(call, k, d, fmt) /\ fmt \in Seq(Characters)
      /\ fmt[Place(call, k, WidthEnd(d))] \notin Decimals
  BY ReadingFacts
<1>3. PICK j \in Nat, m \in Nat : j = PadEnd(d) /\ m = Len(d.width.text) /\ j + m = WidthEnd(d) /\ j + m <= LongEnd(d)
  <2>1. PadEnd(d) \in Nat /\ Len(d.width.text) \in Nat /\ WidthEnd(d) <= LongEnd(d)
    <3>1. WidthEnd(d) \in Nat /\ PointEnd(d) \in Nat /\ LongEnd(d) \in Nat
          /\ WidthEnd(d) <= PointEnd(d) /\ PointEnd(d) <= LongEnd(d)
      BY <1>2, LengthTypes
    <3>2. \A x, y, z \in Nat : x <= y /\ y <= z => x <= z
      BY SMT
    <3> QED
      BY <1>2, <3>1, <3>2, LengthTypes
  <2> QED
    BY <2>1 DEF WidthEnd
<1>4. PICK n : n = d.width
  OBVIOUS
<1>5. PICK q, b, x : q = pos /\ b = ap /\ x = esc
  OBVIOUS
<1>6. IsNumber(n) /\ (Len(n.words) = 1 => b[1] = n.words[1])
      /\ WidthRead(c, k, q + Len(n.text), Rest(b, n.words), Counted(x, n.value))
  <2>1. Flags(c, k, Len(d.pad), q, b, x)
    BY <1>1, <1>5
  <2>2. WidthLands(c, k, d.width, q, b, x)
    BY <1>1, <2>1, WidthComes
  <2> QED
    BY <1>4, <2>2, Zenon DEF WidthLands
<1>7. Written(n) /\ pos \in Nat \ {0}
  <2>1. pos = Place(call, k, j)
    BY <1>3 DEF Flags, PadEnd
  <2>2. \A i \in 0 .. m - 1 : fmt[Place(call, k, j + i)] = n.text[i + 1]
    BY <1>2, <1>3, <1>4 DEF Spelled
  <2>3. fmt[Place(call, k, j + m)] \notin Decimals
    BY <1>2, <1>3
  <2> QED
    BY <1>3, <1>4, <1>5, <1>6, <2>1, <2>2, <2>3, NumberWritten
<1>8. pos' = pos + Len(n.text) /\ ap' = Rest(ap, n.words) /\ esc' = Counted(esc, n.value)
      /\ out' = out /\ buf' = buf /\ pc' = "escape"
  BY <1>2, <1>7, NumberRead DEF Reading
<1>9. PICK p, a, e : p = pos' /\ a = ap' /\ e = esc'
  OBVIOUS
<1>10. WidthRead(c, k, p, a, e)
  BY <1>5, <1>6, <1>8, <1>9
<1>11. InDirective(c, k, p, a, e)
  BY <1>10 DEF InDirective
<1> QED
  BY <1>1, <1>8, <1>9, <1>11 DEF Continues

LEMMA LongsInside ==
  ASSUME NEW c, NEW k, NEW p, NEW a, NEW e, Len(c[k].long) \in Nat, NEW i \in Nat, i <= Len(c[k].long), Longs(c, k, i, p, a, e)
  PROVE  InDirective(c, k, p, a, e)
<1>1. i \in 0 .. Len(c[k].long)
  BY SMT
<1> QED
  BY <1>1 DEF InDirective

LEMMA PointProgress ==
  ASSUME Next, NEW k, NEW d, Reading(k, d), d.precision.text # <<>>, WidthRead(call, k, pos, ap, esc)
  PROVE  Continues(k)
<1>1. PICK c \in Calls : c = call /\ k \in 1 .. Len(c) /\ d = c[k] /\ d.conv # "plain"
  BY DEF Reading
<1>2. WellFormed(d) /\ Spelled(call, k, d, fmt)
  BY ReadingFacts
<1>3. Ch = "."
  <2>1. d.precision.text[1] = "."
    BY <1>1, <1>2, PrecisionMarks
  <2>2. WidthEnd(d) \in Nat /\ Len(d.precision.text) \in Nat
    BY <1>2, LengthTypes
  <2>3. 0 \in 0 .. Len(d.precision.text) - 1 /\ 0 + 1 = 1
    <3>1. d.precision.text \in Seq(Characters)
      BY <1>2, DirectiveTypes
    <3>2. Len(d.precision.text) # 0
      BY <3>1, EmptySeq
    <3> QED
      BY <2>2, <3>2, SMT
  <2>4. PICK w \in Nat : w = WidthEnd(d) /\ w + 0 = w
    BY <2>2
  <2>5. fmt[Place(call, k, w + 0)] = d.precision.text[0 + 1]
    BY <1>2, <2>3, <2>4 DEF Spelled
  <2>6. pos = Place(call, k, w)
    BY <1>1, <2>4 DEF WidthRead
  <2> QED
    BY <2>1, <2>3, <2>4, <2>5, <2>6 DEF Ch
<1>4. pos' = pos + 1 /\ ap' = ap /\ esc' = FlagOf(esc, ".") /\ out' = out /\ buf' = buf /\ pc' = "escape"
  BY <1>3, FlagRead DEF Reading
<1>5. PICK p, a, e : p = pos' /\ a = ap' /\ e = esc'
  OBVIOUS
<1>6. PointRead(c, k, p, a, e)
  <2>1. PICK q, b, x : q = pos /\ b = ap /\ x = esc
    OBVIOUS
  <2>2. PointRead(c, k, q + 1, b, FlagOf(x, "."))
    BY <1>1, <2>1, PointComes
  <2> QED
    BY <1>4, <1>5, <2>1, <2>2
<1>7. InDirective(c, k, p, a, e)
  BY <1>1, <1>6 DEF InDirective
<1> QED
  BY <1>1, <1>4, <1>5, <1>7 DEF Continues

LEMMA ZeroProgress ==
  ASSUME Next, NEW k, NEW d, Reading(k, d), d.precision.text = <<".", "0">>, PointRead(call, k, pos, ap, esc)
  PROVE  Continues(k)
<1>1. PICK c \in Calls : c = call /\ k \in 1 .. Len(c) /\ d = c[k] /\ d.conv # "plain"
  BY DEF Reading
<1>2. WellFormed(d) /\ Spelled(call, k, d, fmt)
  BY ReadingFacts
<1>3. Ch = "0"
  <2>1. 1 \in 0 .. Len(d.precision.text) - 1 /\ d.precision.text[1 + 1] = "0"
    BY SMT
  <2>2. fmt[Place(call, k, WidthEnd(d) + 1)] = d.precision.text[1 + 1]
    BY <1>2, <2>1 DEF Spelled
  <2> QED
    BY <1>1, <2>1, <2>2 DEF Ch, PointRead
<1>4. pos' = pos + 1 /\ ap' = ap /\ esc' = FlagOf(esc, "0") /\ out' = out /\ buf' = buf /\ pc' = "escape"
  BY <1>3, FlagRead DEF Reading, PadFlags
<1>5. PICK p, a, e : p = pos' /\ a = ap' /\ e = esc'
  OBVIOUS
<1>6. Longs(c, k, 0, p, a, e)
  <2>1. PICK q, b, x : q = pos /\ b = ap /\ x = esc
    OBVIOUS
  <2>2. Longs(c, k, 0, q + 1, b, FlagOf(x, "0"))
    BY <1>1, <2>1, BarePoint
  <2> QED
    BY <1>4, <1>5, <2>1, <2>2
<1>7. InDirective(c, k, p, a, e)
  <2>1. Len(d.long) \in Nat /\ 0 \in Nat
    BY <1>2, LengthTypes, SMT
  <2>2. 0 <= Len(d.long)
    BY <2>1, SMT
  <2> QED
    BY <1>1, <1>6, <2>1, <2>2, LongsInside
<1> QED
  BY <1>1, <1>4, <1>5, <1>7 DEF Continues

LEMMA PrecisionProgress ==
  ASSUME Next, NEW k, NEW d, Reading(k, d), d.precision.text # <<>>, ~Bare(d), PointRead(call, k, pos, ap, esc)
  PROVE  Continues(k)
<1>1. PICK c \in Calls : c = call /\ k \in 1 .. Len(c) /\ d = c[k] /\ d.conv # "plain"
  BY DEF Reading
<1>2. WellFormed(d) /\ Spelled(call, k, d, fmt) /\ fmt \in Seq(Characters)
      /\ fmt[Place(call, k, PointEnd(d))] \notin Decimals
  BY ReadingFacts
<1>3. PICK n : n = [d.precision EXCEPT !.text = Tail(@)]
  OBVIOUS
<1>4. PICK q, b, x : q = pos /\ b = ap /\ x = esc
  OBVIOUS
<1>5. IsNumber(n) /\ (Len(n.words) = 1 => b[1] = n.words[1])
      /\ Longs(c, k, 0, q + Len(n.text), Rest(b, n.words), Counted(x, n.value))
  <2>1. PointRead(c, k, q, b, x)
    BY <1>1, <1>4
  <2>2. PrecisionLands(c, k, n, q, b, x)
    BY <1>1, <1>3, <2>1, PrecisionComes
  <2> QED
    BY <2>2, Zenon DEF PrecisionLands
<1>6. Len(n.text) = Len(d.precision.text) - 1 /\ \A i \in 1 .. Len(n.text) : n.text[i] = d.precision.text[i + 1]
  BY <1>2, <1>3, PrecisionTail
<1>7. PICK w \in Nat, m \in Nat :
        w = WidthEnd(d) /\ m = Len(n.text) /\ Len(d.precision.text) = m + 1 /\ (w + 1) + m = PointEnd(d) /\ (w + 1) + m <= LongEnd(d)
  <2>1. PICK u \in Nat, v \in Nat : u = WidthEnd(d) /\ v = Len(d.precision.text) /\ v # 0
    <3>1. d.precision.text \in Seq(Characters)
      BY <1>2, DirectiveTypes
    <3>2. Len(d.precision.text) # 0
      BY <3>1, EmptySeq
    <3> QED
      BY <1>2, <3>2, LengthTypes
  <2>2. v - 1 \in Nat /\ (v - 1) + 1 = v /\ (u + 1) + (v - 1) = u + v
    BY <2>1, SMT
  <2>3. PointEnd(d) = u + v /\ PointEnd(d) <= LongEnd(d)
    BY <1>2, <2>1, LengthTypes DEF PointEnd
  <2> QED
    BY <1>6, <2>1, <2>2, <2>3
<1>8. Written(n) /\ pos \in Nat \ {0}
  <2>1. PICK j \in Nat : j = w + 1 /\ j + m = PointEnd(d) /\ j + m <= LongEnd(d)
    BY <1>7
  <2>2. pos = Place(call, k, j)
    BY <1>1, <1>7, <2>1 DEF PointRead
  <2>3. ASSUME NEW i \in 0 .. m - 1 PROVE fmt[Place(call, k, j + i)] = n.text[i + 1]
    <3>1. i + 1 \in 0 .. (m + 1) - 1 /\ j + i = w + (i + 1) /\ i + 1 \in 1 .. m
      BY <1>7, <2>1, SMT
    <3>2. fmt[Place(call, k, WidthEnd(d) + (i + 1))] = d.precision.text[(i + 1) + 1]
      BY <1>2, <1>7, <3>1 DEF Spelled
    <3> QED
      BY <1>6, <1>7, <3>1, <3>2
  <2>4. fmt[Place(call, k, j + m)] \notin Decimals
    BY <1>2, <2>1
  <2> QED
    BY <1>4, <1>5, <1>7, <2>1, <2>2, <2>3, <2>4, NumberWritten
<1>9. pos' = pos + Len(n.text) /\ ap' = Rest(ap, n.words) /\ esc' = Counted(esc, n.value)
      /\ out' = out /\ buf' = buf /\ pc' = "escape"
  BY <1>2, <1>8, NumberRead DEF Reading
<1>10. PICK p, a, e : p = pos' /\ a = ap' /\ e = esc'
  OBVIOUS
<1>11. Longs(c, k, 0, p, a, e)
  BY <1>4, <1>5, <1>9, <1>10
<1>12. InDirective(c, k, p, a, e)
  <2>1. Len(d.long) \in Nat /\ 0 \in Nat
    BY <1>2, LengthTypes, SMT
  <2>2. 0 <= Len(d.long)
    BY <2>1, SMT
  <2> QED
    BY <1>1, <1>11, <2>1, <2>2, LongsInside
<1> QED
  BY <1>1, <1>9, <1>10, <1>12 DEF Continues

LEMMA LongsProgress ==
  ASSUME Next, NEW k, NEW d, Reading(k, d), NEW i \in 0 .. Len(d.long), Longs(call, k, i, pos, ap, esc)
  PROVE  Continues(k) \/ Progress
<1>1. PICK c \in Calls : c = call /\ k \in 1 .. Len(c) /\ d = c[k] /\ d.conv # "plain"
  BY DEF Reading
<1>2. WellFormed(d) /\ Spelled(call, k, d, fmt)
  BY ReadingFacts
<1>3. Len(d.long) \in Nat
  BY <1>2, LengthTypes
<1>4. CASE i = Len(d.long)
  <2>1. Converting(k, d)
    BY <1>4 DEF Converting, Reading
  <2> QED
    BY <2>1, ConversionProgress DEF Reading
<1>5. CASE i # Len(d.long)
  <2>1. i \in 0 .. Len(d.long) - 1 /\ i \in Nat /\ i + 1 \in 1 .. Len(d.long) /\ i + 1 \in Nat /\ i + 1 <= Len(d.long)
    BY <1>3, <1>5, SMT
  <2>2. Ch = "l"
    <3>1. fmt[Place(call, k, PointEnd(d) + i)] = d.long[i + 1]
      BY <1>2, <2>1 DEF Spelled
    <3>2. d.long[i + 1] = "l"
      BY <1>1, <1>2, <2>1, LongMarks
    <3> QED
      BY <1>1, <3>1, <3>2 DEF Ch, Longs
  <2>3. pos' = pos + 1 /\ ap' = ap /\ esc' = FlagOf(esc, "l") /\ out' = out /\ buf' = buf /\ pc' = "escape"
    BY <2>2, FlagRead DEF Reading
  <2>4. PICK p, a, e : p = pos' /\ a = ap' /\ e = esc'
    OBVIOUS
  <2>5. Longs(c, k, i + 1, p, a, e)
    <3>1. PICK q, b, x : q = pos /\ b = ap /\ x = esc
      OBVIOUS
    <3>2. Longs(c, k, i + 1, q + 1, b, FlagOf(x, "l"))
      BY <1>1, <2>1, <3>1, LongsContinue
    <3> QED
      BY <2>3, <2>4, <3>1, <3>2
  <2>6. InDirective(c, k, p, a, e)
    BY <1>1, <1>3, <2>1, <2>5, LongsInside
  <2> QED
    BY <1>1, <2>3, <2>4, <2>6 DEF Continues
<1> QED
  BY <1>4, <1>5

(* a step inside directive k, at whichever of its parts *)
LEMMA DirectiveProgress ==
  ASSUME Next, NEW k, NEW d, Reading(k, d), InDirective(call, k, pos, ap, esc)
  PROVE  Continues(k) \/ Progress
<1>1a. PICK c \in Calls : c = call
  BY DEF Reading
<1>1. PICK p, a, e : c = call /\ p = pos /\ a = ap /\ e = esc
  BY <1>1a DEF Reading
<1>2. k \in 1 .. Len(c) /\ d = c[k] /\ d.conv # "plain" /\ InDirective(c, k, p, a, e)
  BY <1>1 DEF Reading
<1>3. WellFormed(d)
  BY ReadingFacts
<1>4. Len(d.pad) \in Nat /\ Len(d.long) \in Nat
  BY <1>3, LengthTypes
<1>5. 0 \in 0 .. Len(d.long)
  BY <1>4, SMT
<1>6. ASSUME \E i \in 0 .. Len(d.long) : Longs(c, k, i, p, a, e) PROVE Continues(k) \/ Progress
  BY <1>1, <1>6, LongsProgress
<1>7. ASSUME d.precision.text # <<>>, PointRead(c, k, p, a, e) PROVE Continues(k) \/ Progress
  <2>1. CASE ~Bare(d)
    BY <1>1, <1>7, <2>1, PrecisionProgress
  <2>2. CASE d.precision.text = <<".">>
    <3>1. Longs(c, k, 0, p, a, e)
      BY <1>2, <1>7, <2>2, BarePoint
    <3> QED
      BY <1>5, <1>6, <3>1
  <2>3. CASE d.precision.text = <<".", "0">>
    BY <1>1, <1>7, <2>3, ZeroProgress
  <2> QED
    BY <2>1, <2>2, <2>3 DEF Bare
<1>8. ASSUME WidthRead(c, k, p, a, e) PROVE Continues(k) \/ Progress
  <2>1. CASE d.precision.text # <<>>
    BY <1>1, <1>8, <2>1, PointProgress
  <2>2. CASE d.precision.text = <<>>
    <3>1. Longs(c, k, 0, p, a, e)
      BY <1>2, <1>8, <2>2, NoPrecision
    <3> QED
      BY <1>5, <1>6, <3>1
  <2> QED
    BY <2>1, <2>2
<1>9. ASSUME NEW i \in 0 .. Len(d.pad), Flags(c, k, i, p, a, e) PROVE Continues(k) \/ Progress
  <2>1. CASE i # Len(d.pad)
    <3>1. i \in 0 .. Len(d.pad) - 1
      BY <1>4, <2>1, SMT
    <3> QED
      BY <1>1, <1>9, <3>1, FlagsProgress
  <2>2. CASE i = Len(d.pad) /\ d.width.text # <<>>
    BY <1>1, <1>9, <2>2, WidthProgress
  <2>3. CASE i = Len(d.pad) /\ d.width.text = <<>>
    <3>1. WidthRead(c, k, p, a, e)
      BY <1>2, <1>9, <2>3, NoWidth
    <3> QED
      BY <1>8, <3>1
  <2> QED
    BY <2>1, <2>2, <2>3
<1> QED
  BY <1>2, <1>6, <1>7, <1>8, <1>9 DEF InDirective

-----------------------------------------------------------------------------
(* the steps outside directives *)

LEMMA SinkFacts == ASSUME NEW s \in Sinks PROVE s = Console \/ s.size \in Int
BY SinksAssumption

LEMMA OnText ==
  ASSUME Next, pc = "text", sink \in Sinks, Accepted
  PROVE  /\ Ch = "%" => Escape
         /\ Ch = NUL => Return
         /\ Ch \notin {"%", NUL} => PlainText
<1>1. ~Refuse
  BY DEF Refuse
<1>2. (PlainText => Ch \notin {"%", NUL}) /\ (Return => Ch = NUL) /\ (Escape => Ch = "%")
  BY DEF PlainText, Return, Escape
<1>3. "%" # NUL
  BY SMT DEF NUL
<1> QED
  BY <1>1, <1>2, <1>3, TextSteps

Regroups(a, b, c) == a \o b \o c = a \o (b \o c)
LEMMA Regrouped ==
  ASSUME NEW E, NEW a \in Seq(E), NEW b \in Seq(E), NEW c \in Seq(E)
  PROVE  Regroups(a, b, c)
  BY Associative DEF Regroups

(* text that stands for itself, when j characters of it have been printed *)
LEMMA PlainProgress ==
  ASSUME Next, pc = "text", sink \in Sinks, Accepted, call \in Calls, fmt = Format(call),
         NEW k \in 1 .. Len(call), NEW d, d = call[k], Plain(d),
         NEW j \in 0 .. Len(Text(d)) - 1, d.conv = "plain" \/ j # 0,
         pos = Place(call, k, j), ap = Left(call, k, Len(Words(d))),
         Sound(call) => out = MeaningTo(call, k - 1) \o SubSeq(Text(d), 1, j)
  PROVE  Progress
<1>1a. PICK c \in Calls : c = call /\ k \in 1 .. Len(c) /\ d = c[k]
  OBVIOUS
<1>1. PICK f : c = call /\ f = fmt /\ f = Format(c) /\ k \in 1 .. Len(c) /\ d = c[k]
  BY <1>1a
<1>2. WellFormed(d)
  BY <1>1, CallTypes
<1>3. PICK t \in Seq(Characters) : t = Text(d) /\ Len(t) \in Nat
  BY <1>2, TextTyped
<1>4. PICK i \in 1 .. Len(t) : i = j + 1
  <2>1. j + 1 \in 1 .. Len(t)
    BY <1>3, SMT
  <2> QED
    BY <2>1
<1>5. Ch \notin {"%", NUL} /\ Ch = t[i] /\ t[i] \in Characters
  <2>1. f[Place(c, k, j)] \notin {"%", NUL}
    BY <1>1, PlainSpots
  <2>2. f[Place(c, k, j)] = t[j + 1]
    <3>1. j \in 0 .. Len(Text(c[k])) - 1
      BY <1>1
    <3>2. Format(c)[Place(c, k, j)] = Text(c[k])[j + 1]
      BY <1>1, <3>1, FormatAt
    <3> QED
      BY <1>1, <1>3, <3>2
  <2>3. t[i] \in Characters
    BY ElementOfSeq
  <2> QED
    BY <1>1, <1>4, <2>1, <2>2, <2>3 DEF Ch
<1>6. PlainText
  BY <1>5, OnText
<1>7. Putch(<<t[i]>>) /\ out' = out \o <<t[i]>> /\ pos' = pos + 1 /\ ap' = ap /\ pc' = "text"
  BY <1>5, <1>6 DEF PlainText, Putch, Step
<1>8. PICK p, a, o : p = pos' /\ a = ap' /\ o = out'
  OBVIOUS
<1>9. p = Place(c, k, i)
  <2>1. j \in Nat /\ 1 \in Nat
    BY SMT
  <2>2. Place(c, k, j) + 1 = Place(c, k, j + 1)
    BY <1>1, <2>1, PlaceMore
  <2> QED
    BY <1>1, <1>4, <1>7, <1>8, <2>2
<1>10. Sound(c) => o = MeaningTo(c, k - 1) \o SubSeq(Text(d), 1, i)
  <2>1. PICK m, u : m = MeaningTo(c, k - 1) /\ u = SubSeq(t, 1, j)
    OBVIOUS
  <2>2. m \in Seq(Characters) /\ u \in Seq(Characters) /\ <<t[i]>> \in Seq(Characters)
    <3>1. k - 1 \in 0 .. Len(c)
      <4>1. Len(c) \in Nat
        BY CallTypes
      <4> QED
        BY <1>1, <4>1, SMT
    <3>2. \A x \in 1 .. j : t[x] \in Characters
      <4>1. \A x \in 1 .. j : x \in 1 .. Len(t)
        BY <1>3, SMT
      <4> QED
        BY <4>1, ElementOfSeq
    <3>3. SubSeq(t, 1, j) \in Seq(Characters)
      <4>1. 1 \in Int /\ j \in Int
        BY SMT
      <4> QED
        BY <3>2, <4>1, SubSeqProperties
    <3> QED
      BY <1>5, <2>1, <3>1, <3>3, MeaningToFacts, Singleton
  <2>3. m \o u \o <<t[i]>> = m \o (u \o <<t[i]>>)
    <3>1. PICK w \in Seq(Characters) : w = <<t[i]>>
      BY <2>2
    <3>2. Regroups(m, u, w)
      BY <2>2, <3>1, Regrouped
    <3> QED
      BY <3>1, <3>2, Zenon DEF Regroups
  <2>4. SubSeq(t, 1, i) = u \o <<t[i]>>
    <3>1. j \in 0 .. Len(t) - 1
      BY <1>3
    <3>2. SubSeq(t, 1, j + 1) = SubSeq(t, 1, j) \o <<t[j + 1]>>
      BY <3>1, OneCharacterMore
    <3> QED
      BY <1>4, <2>1, <3>2
  <2>5. Sound(c) => out = m \o u
    BY <1>1, <1>3, <2>1
  <2> QED
    BY <1>3, <1>7, <1>8, <2>1, <2>3, <2>4, <2>5
<1>11. a = Left(c, k, Len(Words(d)))
  BY <1>1, <1>7, <1>8
<1>12. i \in 1 .. Len(Text(d))
  BY <1>3
<1>13. InText(c, p, a, o)
  BY <1>1, <1>9, <1>10, <1>11, <1>12, StandsSoFar
<1>14. Prints
  <2>1. <<t[i]>> \in Seq(Characters)
    BY <1>5, Singleton
  <2> QED
    BY <1>7, <2>1 DEF Prints
<1> QED
  BY <1>1, <1>7, <1>8, <1>13, <1>14 DEF Progress

LEMMA PlainWords == ASSUME NEW d, WellFormed(d), d.conv = "plain" PROVE Len(Words(d)) = 0
<1>1. d.width = Absent /\ d.precision = Absent /\ d.arg = <<>>
  BY DEF WellFormed
<1>2. d.width.words = <<>> /\ d.precision.words = <<>>
  BY <1>1 DEF Absent
<1>3. Len(Words(d)) = Len(d.width.words) + Len(d.precision.words) + Len(d.arg)
  BY WordsOrder
<1>4. Len(<<>>) + Len(<<>>) + Len(<<>>) = 0
  BY SMT
<1> QED
  BY <1>1, <1>2, <1>3, <1>4

(* what a step on text leads to *)
Returned == /\ pc' = "done" /\ ap = <<>> /\ ap' = ap /\ out' = out /\ Return
            /\ Sound(call) => out = MeaningTo(call, Len(call))
Escaped == /\ pc' = "escape" /\ out' = out /\ buf' = buf /\ InEscape(call, pos', ap', esc', out')

LEMMA DirectiveBegins ==
  ASSUME Next, pc = "text", sink \in Sinks, Accepted, call \in Calls, fmt = Format(call),
         NEW k \in 1 .. Len(call), NEW d, d = call[k], d.conv # "plain", Between(call, k, pos, ap, out)
  PROVE  Escaped
<1>1a. PICK c \in Calls : c = call /\ k \in 1 .. Len(c) /\ d = c[k]
  OBVIOUS
<1>1. PICK f : c = call /\ f = fmt /\ f = Format(c) /\ k \in 1 .. Len(c) /\ d = c[k]
  BY <1>1a
<1>2. Ch = "%"
  <2>1. Spelled(c, k, d, f)
    BY <1>1, DirectiveChars
  <2>2. f[Place(c, k, 0)] = "%"
    BY <2>1 DEF Spelled
  <2> QED
    BY <1>1, <2>2 DEF Between, Ch
<1>3. Escape
  BY <1>2, OnText
<1>4. pos' = pos + 1 /\ ap' = ap /\ out' = out /\ buf' = buf /\ esc' = Fresh /\ pc' = "escape"
  BY <1>3 DEF Escape, Step
<1>5. PICK p, a, e, o : p = pos' /\ a = ap' /\ e = esc' /\ o = out'
  OBVIOUS
<1>6. Flags(c, k, 0, p, a, e)
  <2>1. PICK q, b, u : q = pos /\ b = ap /\ u = out
    OBVIOUS
  <2>2. Flags(c, k, 0, q + 1, b, Fresh)
    BY <1>1, <2>1, FlagsBegin
  <2> QED
    BY <1>4, <1>5, <2>1, <2>2
<1>7. 0 \in 0 .. Len(c[k].pad)
  <2>1. Len(c[k].pad) \in Nat
    BY CallTypes, <1>1, LengthTypes
  <2> QED
    BY <2>1, SMT
<1>8. InDirective(c, k, p, a, e)
  BY <1>6, <1>7 DEF InDirective
<1>9. Sound(c) => o = MeaningTo(c, k - 1)
  BY <1>1, <1>4, <1>5 DEF Between
<1>10. InEscape(c, p, a, e, o)
  BY <1>1, <1>8, <1>9 DEF InEscape
<1> QED
  BY <1>1, <1>4, <1>5, <1>10 DEF Escaped

LEMMA FormatEnds ==
  ASSUME Next, pc = "text", sink \in Sinks, Accepted, call \in Calls, fmt = Format(call),
         Between(call, Len(call) + 1, pos, ap, out)
  PROVE  Returned
<1>1a. PICK c \in Calls : c = call
  OBVIOUS
<1>1. PICK f : c = call /\ f = fmt /\ f = Format(c)
  BY <1>1a
<1>2. Ch = NUL /\ ap = <<>>
  <2>1. Place(c, Len(c) + 1, 0) = Len(f) /\ f[Len(f)] = NUL
    BY <1>1, FormatFacts
  <2>2. Left(c, Len(c) + 1, 0) = <<>>
    BY LeftFacts
  <2> QED
    BY <1>1, <2>1, <2>2 DEF Between, Ch
<1>3. Return
  BY <1>2, OnText
<1>4. Sound(call) => out = MeaningTo(call, Len(call))
  <2>1. PICK n \in Nat : n = Len(c)
    BY CallTypes
  <2>2. (n + 1) - 1 = n
    BY SMT
  <2> QED
    BY <1>1, <2>1, <2>2 DEF Between
<1> QED
  BY <1>2, <1>3, <1>4 DEF Return, Returned

LEMMA TextProgress ==
  ASSUME Next, pc = "text", sink \in Sinks, Accepted, call \in Calls, fmt = Format(call), InText(call, pos, ap, out)
  PROVE  Progress \/ Escaped \/ Returned
<1>1. PICK c \in Calls, n \in Nat : c = call /\ n = Len(c)
  BY CallTypes
<1>2. ASSUME NEW k \in 1 .. n + 1, Between(call, k, pos, ap, out) PROVE Progress \/ Escaped \/ Returned
  <2>1. CASE k = n + 1
    BY <1>1, <1>2, <2>1, FormatEnds
  <2>2. CASE k # n + 1 /\ c[k].conv # "plain"
    <3>1. k \in 1 .. n
      BY <2>2, SMT
    <3> QED
      BY <1>1, <1>2, <2>2, <3>1, DirectiveBegins
  <2>3. CASE k # n + 1 /\ c[k].conv = "plain"
    <3>1. k \in 1 .. n /\ k - 1 \in 0 .. n
      BY <2>3, SMT
    <3>2. WellFormed(c[k])
      BY <1>1, <3>1, CallTypes
    <3>3. Len(Words(c[k])) = 0
      BY <2>3, <3>2, PlainWords
    <3>4. Plain(c[k])
      BY <2>3, SMT DEF Plain, Conversions
    <3>5. 0 \in 0 .. Len(Text(c[k])) - 1
      <4>1. Len(Text(c[k])) \in Nat \ {0}
        BY <3>2, TextTyped
      <4> QED
        BY <4>1, SMT
    <3>6. Sound(call) => out = MeaningTo(call, k - 1) \o SubSeq(Text(c[k]), 1, 0)
      <4>1. SubSeq(Text(c[k]), 1, 0) = <<>>
        BY SubSeqEmpty, SMT
      <4>2. MeaningTo(c, k - 1) \in Seq(Characters)
        BY <1>1, <3>1, MeaningToFacts
      <4>3. MeaningTo(c, k - 1) \o <<>> = MeaningTo(c, k - 1)
        BY <4>2, NothingBefore
      <4> QED
        BY <1>1, <1>2, <4>1, <4>3 DEF Between
    <3>7. pos = Place(call, k, 0) /\ ap = Left(call, k, Len(Words(c[k])))
      BY <1>2, <3>3 DEF Between
    <3>8. k \in 1 .. Len(call) /\ c[k] = call[k]
      BY <1>1, <3>1
    <3> QED
      BY <2>3, <3>4, <3>5, <3>6, <3>7, <3>8, PlainProgress
  <2> QED
    BY <2>1, <2>2, <2>3
<1>3. ASSUME NEW k \in 1 .. Len(call), NEW j \in 1 .. Len(Text(call[k])) - 1, Within(call, k, j, pos, ap, out)
      PROVE  Progress
  <2>1. PICK d : d = call[k]
    OBVIOUS
  <2>2. j \in 0 .. Len(Text(d)) - 1 /\ j # 0
    <3>1. j \in 0 .. Len(Text(call[k])) - 1 /\ j # 0
      BY SMT
    <3> QED
      BY <2>1, <3>1
  <2>3. /\ Plain(d) /\ pos = Place(call, k, j) /\ ap = Left(call, k, Len(Words(d)))
        /\ Sound(call) => out = MeaningTo(call, k - 1) \o SubSeq(Text(d), 1, j)
    BY <1>3, <2>1 DEF Within
  <2> QED
    BY <2>1, <2>2, <2>3, PlainProgress
<1> QED
  BY <1>1, <1>2, <1>3 DEF InText

LEMMA EscapeProgress ==
  ASSUME Next, pc = "escape", call \in Calls, fmt = Format(call), InEscape(call, pos, ap, esc, out)
  PROVE  Progress \/ (Escaped /\ buf' = buf)
<1>1. PICK k \in 1 .. Len(call) :
        /\ call[k].conv # "plain" /\ (Sound(call) => out = MeaningTo(call, k - 1))
        /\ InDirective(call, k, pos, ap, esc)
  BY DEF InEscape
<1>2. PICK d : d = call[k]
  OBVIOUS
<1>3. Reading(k, d)
  BY <1>1, <1>2 DEF Reading
<1>4. Continues(k) \/ Progress
  BY <1>1, <1>3, DirectiveProgress
<1>5. ASSUME Continues(k) PROVE Escaped
  <2>1. pc' = "escape" /\ out' = out /\ buf' = buf /\ InDirective(call, k, pos', ap', esc')
    BY <1>5 DEF Continues
  <2>2a. PICK c \in Calls : c = call
    OBVIOUS
  <2>2. PICK p, a, e, o : c = call /\ p = pos' /\ a = ap' /\ e = esc' /\ o = out'
    BY <2>2a
  <2>3. InEscape(c, p, a, e, o)
    BY <1>1, <2>1, <2>2 DEF InEscape
  <2> QED
    BY <2>1, <2>2, <2>3 DEF Escaped
<1> QED
  BY <1>4, <1>5 DEF Escaped

-----------------------------------------------------------------------------
(* The scan: at any time it stands between two directives, inside plain    *)
(* text or inside a directive, and what it has taken and printed, and what *)
(* it remembers, are what the part before it means.                        *)

Given == call \in Calls /\ sink \in Sinks /\ fmt = Format(call)
Scanned ==
  /\ pc \in {"text", "escape", "done", "wild"}
  /\ pc = "text" => InText(call, pos, ap, out)
  /\ pc = "escape" => InEscape(call, pos, ap, esc, out)
  /\ pc = "wild" => ~Sound(call)
  /\ pc = "done" => ap = <<>> /\ (Sound(call) => out = MeaningTo(call, Len(call)))
Refused == pos = 1 /\ pc \in {"text", "done"} /\ out = <<>> /\ buf = <<>>
Inv == Given /\ (Accepted => Scanned) /\ (~Accepted => Refused)

LEMMA BeginsWell == Init => Inv
<1> SUFFICES ASSUME Init PROVE Inv
  OBVIOUS
<1>1. Given
  BY DEF Init, Called, Given, Format
<1>2. PICK c \in Calls : c = call
  BY <1>1 DEF Given
<1>3. pos = 1 /\ ap = Concat(Words, c) /\ out = <<>> /\ buf = <<>> /\ pc = "text"
  BY <1>2 DEF Init, Called
<1>4. Scanned
  <2>1. PICK n \in Nat : n = Len(c)
    BY CallTypes
  <2>2. 1 \in 1 .. n + 1 /\ 1 - 1 = 0
    BY <2>1, SMT
  <2>3. Between(c, 1, pos, ap, out)
    <3>1. Place(c, 1, 0) = 1
      BY FormatFacts
    <3>2. Left(c, 1, 0) = Concat(Words, c)
      BY LeftFacts
    <3>3. MeaningTo(c, 1 - 1) = <<>>
      BY <2>2, MeaningToFacts
    <3> QED
      BY <1>3, <3>1, <3>2, <3>3 DEF Between
  <2>4. InText(c, pos, ap, out)
    BY <2>1, <2>2, <2>3 DEF InText
  <2> QED
    BY <1>2, <1>3, <2>4 DEF Scanned
<1>5. Refused
  BY <1>3 DEF Refused
<1> QED
  BY <1>1, <1>4, <1>5 DEF Inv

LEMMA StepGoesOn ==
  ASSUME Inv, Next, Accepted
  PROVE  Progress \/ Escaped \/ Returned
<1>1. Given /\ Scanned
  BY DEF Inv
<1>2. CASE pc = "text"
  BY <1>1, <1>2, TextProgress DEF Given, Scanned
<1>3. CASE pc = "escape"
  BY <1>1, <1>3, EscapeProgress DEF Given, Scanned
<1> QED
  BY <1>2, <1>3, NoOtherSteps

LEMMA StepRefuses ==
  ASSUME Inv, Next, ~Accepted
  PROVE  Refuse
<1>1. pc \in {"text", "done"}
  BY DEF Inv, Refused
<1>2. pc = "text"
  BY <1>1, NoOtherSteps
<1>3. ~PlainText /\ ~Return /\ ~Escape
  BY DEF PlainText, Return, Escape, Scanning, Accepted
<1> QED
  BY <1>2, <1>3, TextSteps

LEMMA GoesOnWell == Inv /\ [Next]_vars => Inv'
<1> SUFFICES ASSUME Inv, [Next]_vars PROVE Inv'
  OBVIOUS
<1>1. CASE UNCHANGED vars
  BY <1>1 DEF vars, given, Inv, Given, Scanned, Refused, Accepted
<1>2. CASE Next
  <2>1. call' = call /\ sink' = sink /\ fmt' = fmt
    BY <1>2, GivenKept
  <2>2. Given' /\ (Accepted' <=> Accepted)
    BY <2>1 DEF Inv, Given, Accepted
  <2>3. CASE Accepted
    <3>1. PICK c, p, a, e, o : c = call /\ p = pos' /\ a = ap' /\ e = esc' /\ o = out'
      OBVIOUS
    <3>2. ASSUME Progress \/ Escaped \/ Returned
          PROVE  \/ pc' = "text" /\ InText(c, p, a, o)
                 \/ pc' = "escape" /\ InEscape(c, p, a, e, o)
                 \/ pc' = "wild" /\ ~Sound(c)
                 \/ pc' = "done" /\ a = <<>> /\ (Sound(c) => o = MeaningTo(c, Len(c)))
      BY <3>1, <3>2 DEF Progress, Escaped, Returned
    <3>3. c = call'
      BY <2>1, <3>1
    <3>4. \/ pc' = "text" /\ InText(c, p, a, o)
          \/ pc' = "escape" /\ InEscape(c, p, a, e, o)
          \/ pc' = "wild" /\ ~Sound(c)
          \/ pc' = "done" /\ a = <<>> /\ (Sound(c) => o = MeaningTo(c, Len(c)))
      BY <1>2, <2>3, <3>2, StepGoesOn
    <3>5. Scanned'
      BY <3>1, <3>3, <3>4 DEF Scanned
    <3> QED
      BY <2>2, <2>3, <3>5 DEF Inv
  <2>4. CASE ~Accepted
    <3>1. Refuse
      BY <1>2, <2>4, StepRefuses
    <3>2. Refused'
      BY <2>4, <3>1 DEF Inv, Refused, Refuse
    <3> QED
      BY <2>2, <2>4, <3>2 DEF Inv
  <2> QED
    BY <2>3, <2>4
<1> QED
  BY <1>1, <1>2

LEMMA AlwaysWell == Spec => []Inv
  BY BeginsWell, GoesOnWell, PTL DEF Spec

(***************************************************************************)
(* printfmt.c:91-243: whatever the caller writes, with whatever widths,    *)
(* flags and arguments, and to whichever sink, what has been printed when  *)
(* vprintfmt returns is what the directives mean, one after the other, and *)
(* exactly their arguments have been taken.                                *)
(***************************************************************************)
THEOREM PrintsWhatIsMeant == Spec => []PrintsMeaning
<1>1. Inv => PrintsMeaning
  <2> SUFFICES ASSUME Inv, pc = "done", Accepted, \A k \in 1 .. Len(call) : ~SmallestError(call[k])
               PROVE  out = Concat(Meaning, call) /\ ap = <<>>
    BY DEF PrintsMeaning
  <2>1. PICK c : c = call
    OBVIOUS
  <2>2. Sound(c)
    BY <2>1 DEF Sound
  <2>3. ap = <<>> /\ out = MeaningTo(c, Len(c))
    BY <2>1, <2>2 DEF Inv, Scanned
  <2>4. Concat(Meaning, c) = MeaningTo(c, Len(c))
    BY WholeConcats
  <2> QED
    BY <2>1, <2>3, <2>4
<1> QED
  BY <1>1, AlwaysWell, PTL

LEMMA PlaceInside ==
  ASSUME NEW c \in Calls, NEW k \in 1 .. Len(c), NEW j \in Nat, j <= Len(Text(c[k]))
  PROVE  Place(c, k, j) \in 1 .. Len(Format(c))
<1>1. PICK t \in Nat : t = Len(Text(c[k]))
  BY CallTypes, TextTyped
<1>2. PICK p \in Nat \ {0} : p = Place(c, k, 0) /\ \A i \in Nat : Place(c, k, i) = p + i
  BY FormatAt
<1>3. PICK n \in Nat : n = Len(Format(c))
  BY FormatFacts
<1>4. p + t <= n
  BY <1>1, <1>2, <1>3, FormatAt
<1>5. j <= t
  BY <1>1
<1>6. p + j \in 1 .. n
  BY <1>4, <1>5, SMT
<1> QED
  BY <1>2, <1>3, <1>6

LEMMA TextInside ==
  ASSUME NEW c \in Calls, NEW p, NEW a, NEW o, InText(c, p, a, o)
  PROVE  p \in 1 .. Len(Format(c))
<1>1. PICK n \in Nat : n = Len(c)
  BY CallTypes
<1>2. ASSUME NEW k \in 1 .. n + 1, Between(c, k, p, a, o) PROVE p \in 1 .. Len(Format(c))
  <2>1. CASE k = n + 1
    <3>1. p = Len(Format(c)) /\ Format(c)[Len(Format(c))] = NUL
      BY <1>1, <1>2, <2>1, FormatFacts DEF Between
    <3>2. Len(Format(c)) \in Nat \ {0}
      <4>1. Format(c) = Append(Concat(Text, c), NUL) /\ Concat(Text, c) = TextTo(c, Len(c))
        BY WholeConcats DEF Format
      <4>2. Place(c, n + 1, 0) = Len(Format(c))
        BY <1>1, FormatFacts
      <4>3. CASE n = 0
        BY <1>1, <4>2, <4>3, FormatFacts, SMT
      <4>4. CASE n # 0
        <5>1. n \in 1 .. Len(c)
          BY <1>1, <4>4, SMT
        <5>2. PICK t \in Nat : t = Place(c, n, 0) /\ t # 0
          BY <5>1, FormatAt
        <5>3. t \in 1 .. Len(Format(c))
          <6>1. 0 \in Nat /\ 0 <= Len(Text(c[n]))
            <7>1. Len(Text(c[n])) \in Nat
              BY <5>1, CallTypes, TextTyped
            <7> QED
              BY <7>1, SMT
          <6> QED
            BY <5>1, <5>2, <6>1, PlaceInside
        <5>4. Len(Format(c)) \in Nat
          BY FormatFacts
        <5> QED
          BY <5>3, <5>4, SMT
      <4> QED
        BY <4>3, <4>4
    <3> QED
      BY <3>1, <3>2, SMT
  <2>2. CASE k # n + 1
    <3>1. k \in 1 .. Len(c)
      BY <1>1, <2>2, SMT
    <3>2. 0 \in Nat /\ 0 <= Len(Text(c[k]))
      <4>1. Len(Text(c[k])) \in Nat
        BY <3>1, CallTypes, TextTyped
      <4> QED
        BY <4>1, SMT
    <3>3. Place(c, k, 0) \in 1 .. Len(Format(c))
      BY <3>1, <3>2, PlaceInside
    <3> QED
      BY <1>2, <3>3 DEF Between
  <2> QED
    BY <2>1, <2>2
<1>3. ASSUME NEW k \in 1 .. Len(c), NEW j \in 1 .. Len(Text(c[k])) - 1, Within(c, k, j, p, a, o)
      PROVE  p \in 1 .. Len(Format(c))
  <2>1. Len(Text(c[k])) \in Nat
    BY CallTypes, TextTyped
  <2>2. j \in Nat /\ j <= Len(Text(c[k]))
    BY <2>1, SMT
  <2>3. Place(c, k, j) \in 1 .. Len(Format(c))
    BY <2>2, PlaceInside
  <2> QED
    BY <1>3, <2>3 DEF Within
<1> QED
  BY <1>1, <1>2, <1>3 DEF InText

LEMMA EscapeInside ==
  ASSUME NEW c \in Calls, NEW p, NEW a, NEW e, NEW o, InEscape(c, p, a, e, o)
  PROVE  p \in 1 .. Len(Format(c))
<1>1. PICK k \in 1 .. Len(c) : c[k].conv # "plain" /\ InDirective(c, k, p, a, e)
  BY DEF InEscape
<1>2. PICK d : d = c[k] /\ WellFormed(d) /\ d.conv # "plain"
  BY <1>1, CallTypes
<1>3. PICK m \in Nat, t \in Nat, l \in Nat, w \in Nat, q \in Nat, n \in Nat :
        /\ m = LongEnd(d) /\ t = Len(Text(d)) /\ l = Len(d.long) /\ w = WidthEnd(d) /\ q = PointEnd(d)
        /\ n = Len(d.pad) /\ 1 + n <= w /\ w <= q /\ m = q + l /\ m <= t
  <2>1. /\ LongEnd(d) \in Nat /\ Len(d.long) \in Nat /\ WidthEnd(d) \in Nat /\ PointEnd(d) \in Nat
        /\ Len(d.pad) \in Nat /\ PadEnd(d) <= WidthEnd(d) /\ WidthEnd(d) <= PointEnd(d)
    BY <1>2, LengthTypes
  <2>2. Len(Text(d)) \in Nat /\ (Len(Text(d)) = LongEnd(d) + 1 \/ Len(Text(d)) = LongEnd(d))
    BY <1>2, TextTyped, TextFacts
  <2>3. LongEnd(d) <= Len(Text(d))
    BY <2>1, <2>2, SMT
  <2> QED
    BY <2>1, <2>2, <2>3 DEF LongEnd, PadEnd
<1>4. \A j \in Nat : j <= m => Place(c, k, j) \in 1 .. Len(Format(c))
  <2>1. \A j \in Nat : j <= m => j <= t
    BY <1>3, SMT
  <2> QED
    BY <1>1, <1>2, <1>3, <2>1, PlaceInside
<1>5. ASSUME NEW i \in 0 .. n, Flags(c, k, i, p, a, e) PROVE p \in 1 .. Len(Format(c))
  <2>1. 1 + i \in Nat /\ 1 + i <= m
    BY <1>3, SMT
  <2> QED
    BY <1>4, <1>5, <2>1 DEF Flags
<1>6. ASSUME WidthRead(c, k, p, a, e) PROVE p \in 1 .. Len(Format(c))
  <2>1. w <= m
    BY <1>3, SMT
  <2> QED
    BY <1>2, <1>3, <1>4, <1>6, <2>1 DEF WidthRead
<1>7. ASSUME d.precision.text # <<>>, PointRead(c, k, p, a, e) PROVE p \in 1 .. Len(Format(c))
  <2>1. PICK v \in Nat : v = Len(d.precision.text) /\ v # 0
    <3>1. d.precision.text \in Seq(Characters)
      BY <1>2, DirectiveTypes
    <3> QED
      BY <1>7, <3>1, EmptySeq, LenProperties
  <2>2. q = w + v
    BY <1>3, <2>1 DEF PointEnd
  <2>3. w + 1 \in Nat /\ w + 1 <= m
    <3>1. \A x, y, z \in Nat : y # 0 => x + 1 \in Nat /\ x + 1 <= (x + y) + z
      BY SMT
    <3>2. w + 1 \in Nat /\ w + 1 <= (w + v) + l
      BY <2>1, <3>1
    <3>3. m = (w + v) + l
      BY <1>3, <2>2
    <3> QED
      BY <3>2, <3>3
  <2> QED
    BY <1>2, <1>3, <1>4, <1>7, <2>3 DEF PointRead
<1>8. ASSUME NEW i \in 0 .. l, Longs(c, k, i, p, a, e) PROVE p \in 1 .. Len(Format(c))
  <2>1. q + i \in Nat /\ q + i <= m
    BY <1>3, SMT
  <2> QED
    BY <1>2, <1>3, <1>4, <1>8, <2>1 DEF Longs
<1> QED
  BY <1>1, <1>2, <1>3, <1>5, <1>6, <1>7, <1>8 DEF InDirective

(***************************************************************************)
(* printfmt.c:105, 129, 239, 166-168: wherever a format ends, the scan is  *)
(* at one of its characters or at its 0 as long as it goes on, and it only *)
(* reads outside error_string for the one int whose negation is itself.    *)
(***************************************************************************)
THEOREM ScanStaysInside == Spec => []IndexesInside
<1>1. Inv => IndexesInside
  <2> SUFFICES ASSUME Inv PROVE IndexesInside
    OBVIOUS
  <2>1a. PICK c \in Calls : c = call
    BY DEF Inv, Given
  <2>1. PICK p, a, e, o : c = call /\ p = pos /\ a = ap /\ e = esc /\ o = out
    BY <2>1a DEF Inv, Given
  <2>2. fmt = Format(c)
    BY <2>1 DEF Inv, Given
  <2>3. CASE Accepted
    <3>1. pc = "text" => p \in 1 .. Len(Format(c))
      BY <2>1, <2>3, TextInside DEF Inv, Scanned
    <3>2. pc = "escape" => p \in 1 .. Len(Format(c))
      BY <2>1, <2>3, EscapeInside DEF Inv, Scanned
    <3>3. pc = "wild" => \E k \in 1 .. Len(call) : SmallestError(call[k])
      BY <2>3 DEF Inv, Scanned, Sound
    <3> QED
      BY <2>1, <2>2, <3>1, <3>2, <3>3 DEF IndexesInside
  <2>4. CASE ~Accepted
    <3>1. pos = 1 /\ pc \in {"text", "done"}
      BY <2>4 DEF Inv, Refused
    <3>2. 1 \in 1 .. Len(Format(c))
      <4>1. PICK n \in Nat : n = Len(c)
        BY CallTypes
      <4>2. 1 \in 1 .. n + 1 /\ 1 - 1 = 0
        BY SMT
      <4>3. PICK x, y, z : x = Place(c, 1, 0) /\ y = Left(c, 1, 0) /\ z = MeaningTo(c, 1 - 1)
        OBVIOUS
      <4>4. InText(c, x, y, z)
        BY <4>1, <4>2, <4>3 DEF InText, Between
      <4>5. x = 1
        BY <4>3, FormatFacts
      <4> QED
        BY <4>4, <4>5, TextInside
    <3> QED
      BY <2>2, <3>1, <3>2 DEF IndexesInside
  <2> QED
    BY <2>3, <2>4
<1> QED
  BY <1>1, AlwaysWell, PTL

-----------------------------------------------------------------------------
(* the buffer of vsnprintf *)

Least(m, n) == IF m < n THEN m ELSE n
Prefix(o, room) == SubSeq(o, 1, Least(Len(o), room))
Kept(b, s, room) ==
  IF Len(b) >= room THEN b ELSE b \o SubSeq(s, 1, Least(Len(s), room - Len(b)))

LEMMA PrefixFacts ==
  ASSUME NEW E, NEW o \in Seq(E), NEW room \in Nat, NEW b, b = Prefix(o, room)
  PROVE  /\ b \in Seq(E) /\ Len(b) \in Nat /\ Len(b) <= room /\ Len(b) <= Len(o)
         /\ Len(o) <= room => Len(b) = Len(o)
         /\ Len(o) > room => Len(b) = room
         /\ \A i \in 1 .. Len(b) : b[i] = o[i]
<1>1. PICK n \in Nat : n = Len(o)
  BY LenProperties
<1>2. PICK m \in Nat : m = Least(n, room) /\ m <= n /\ m <= room /\ (n <= room => m = n) /\ (n > room => m = room)
  BY SMT DEF Least
<1>3. b = SubSeq(o, 1, m)
  BY <1>1, <1>2 DEF Prefix
<1>4. b \in Seq(E) /\ Len(b) = m /\ \A i \in 1 .. m : b[i] = o[i]
  BY <1>1, <1>2, <1>3, SMT
<1> QED
  BY <1>1, <1>2, <1>4

LEMMA PrefixGrows ==
  ASSUME NEW E, NEW o \in Seq(E), NEW s \in Seq(E), NEW room \in Nat
  PROVE  Kept(Prefix(o, room), s, room) = Prefix(o \o s, room)
<1>1. PICK b \in Seq(E) : b = Prefix(o, room)
  BY PrefixFacts
<1>2. PICK n \in Nat, m \in Nat, l \in Nat : n = Len(o) /\ m = Len(s) /\ l = Len(b)
  BY LenProperties
<1>3. /\ l <= room /\ l <= n /\ (n <= room => l = n) /\ (n > room => l = room)
      /\ \A i \in 1 .. l : b[i] = o[i]
  BY <1>1, <1>2, PrefixFacts
<1>4. PICK u \in Seq(E) : Glues(u, o, s)
  BY Glue
<1>5. u = o \o s /\ Len(u) = n + m
      /\ (\A i \in 1 .. n : u[i] = o[i]) /\ (\A i \in 1 .. m : u[n + i] = s[i])
  BY <1>2, <1>4 DEF Glues
<1>6. PICK v \in Seq(E) : v = Prefix(u, room)
  BY PrefixFacts
<1>7. PICK k \in Nat : k = Len(v) /\ k <= room /\ k <= n + m /\ (n + m <= room => k = n + m)
        /\ (n + m > room => k = room) /\ \A i \in 1 .. k : v[i] = u[i]
  <2>1. PICK x \in Nat : x = Len(u) /\ x = n + m
    BY <1>5
  <2>2. /\ Len(v) \in Nat /\ Len(v) <= room /\ Len(v) <= Len(u)
        /\ (Len(u) <= room => Len(v) = Len(u)) /\ (Len(u) > room => Len(v) = room)
        /\ \A i \in 1 .. Len(v) : v[i] = u[i]
    BY <1>6, PrefixFacts
  <2> QED
    BY <2>1, <2>2
<1>8. CASE l >= room
  <2>1. k = l
    BY <1>3, <1>7, <1>8, SMT
  <2>2. \A i \in 1 .. l : i \in 1 .. n /\ i \in 1 .. k
    BY <1>3, <2>1, SMT
  <2>3. \A i \in 1 .. l : v[i] = b[i]
    BY <1>3, <1>5, <1>7, <2>2
  <2>4. v = b
    BY <1>2, <1>7, <2>1, <2>3, SeqEqual
  <2>5. Kept(b, s, room) = b
    BY <1>2, <1>8 DEF Kept
  <2> QED
    BY <1>1, <1>5, <1>6, <2>4, <2>5
<1>9. CASE ~(l >= room)
  <2>1. l = n /\ room - l \in Nat
    BY <1>3, <1>9, SMT
  <2>2. PICK q \in Nat : q = Least(m, room - l) /\ q <= m /\ k = n + q
    <3>1. Least(m, room - l) \in Nat /\ Least(m, room - l) <= m /\ k = n + Least(m, room - l)
      BY <1>7, <1>9, <2>1, SMT DEF Least
    <3> QED
      BY <3>1
  <2>3. PICK t : t = SubSeq(s, 1, q)
    OBVIOUS
  <2>4. t \in Seq(E) /\ Len(t) = q /\ \A i \in 1 .. q : t[i] = s[i]
    BY <1>2, <2>2, <2>3, SMT
  <2>5. PICK w \in Seq(E) : Glues(w, b, t)
    BY <2>4, Glue
  <2>6. w = b \o t /\ Len(w) = n + q
        /\ (\A i \in 1 .. n : w[i] = b[i]) /\ (\A i \in 1 .. q : w[n + i] = t[i])
    BY <1>2, <2>1, <2>4, <2>5 DEF Glues
  <2>7. ASSUME NEW i \in 1 .. k PROVE v[i] = w[i]
    <3>1. CASE i \in 1 .. n
      BY <1>3, <1>5, <1>7, <2>1, <2>6, <3>1
    <3>2. CASE i \notin 1 .. n
      <4>1. PICK x \in 1 .. q : i = n + x
        <5>1. i - n \in 1 .. q /\ i = n + (i - n)
          BY <2>2, <3>2, SMT
        <5> QED
          BY <5>1
      <4>2. x \in 1 .. m
        BY <2>2, SMT
      <4>3. v[n + x] = u[n + x]
        BY <1>7, <4>1
      <4>4. u[n + x] = s[x] /\ w[n + x] = t[x] /\ t[x] = s[x]
        BY <1>5, <2>4, <2>6, <4>2
      <4> QED
        BY <4>1, <4>3, <4>4
    <3> QED
      BY <3>1, <3>2
  <2>8. v = w
    BY <1>7, <2>2, <2>6, <2>7, SeqEqual
  <2>9. Kept(b, s, room) = b \o t
    BY <1>2, <1>9, <2>2, <2>3 DEF Kept
  <2> QED
    BY <1>1, <1>5, <1>6, <2>6, <2>8, <2>9
<1> QED
  BY <1>8, <1>9

(* while vprintfmt runs, and when vsnprintf has returned *)
Buffered ==
  /\ out \in Seq(Characters)
  /\ sink # Console /\ Accepted =>
       /\ pc # "done" => buf = Prefix(out, Ebuf)
       /\ pc = "done" => buf = Append(Prefix(out, Ebuf), NUL) /\ ret = Len(out)

LEMMA EbufFacts ==
  ASSUME NEW s \in Sinks, s # Console, s.size >= 1
  PROVE  s.size - 1 \in Nat /\ s.size \in Nat
<1>1. s.size \in Int
  BY SinkFacts
<1> QED
  BY <1>1, SMT

LEMMA BeginsBuffered == Init => Buffered
<1> SUFFICES ASSUME Init PROVE Buffered
  OBVIOUS
<1>1. out = <<>> /\ buf = <<>> /\ pc = "text" /\ sink \in Sinks
  BY DEF Init, Called
<1>2. <<>> \in Seq(Characters)
  BY EmptySeq
<1>3. ASSUME sink # Console, Accepted PROVE buf = Prefix(out, Ebuf)
  <2>1. PICK room \in Nat : room = Ebuf
    BY <1>1, <1>3, EbufFacts DEF Accepted, Ebuf
  <2>2. Prefix(<<>>, room) = <<>>
    <3>1. Len(Prefix(<<>>, room)) = 0 /\ Prefix(<<>>, room) \in Seq(Characters)
      <4>1. Len(<<>>) = 0 /\ Len(<<>>) <= room
        BY SMT
      <4> QED
        BY <1>2, <4>1, PrefixFacts
    <3> QED
      BY <3>1, EmptySeq
  <2> QED
    BY <1>1, <2>1, <2>2
<1> QED
  BY <1>1, <1>2, <1>3 DEF Buffered

LEMMA PutchKept ==
  ASSUME NEW s, Putch(s), sink # Console
  PROVE  buf' = Kept(buf, s, Ebuf)
BY DEF Putch, Kept, Least

LEMMA StaysBuffered == Inv /\ Buffered /\ [Next]_vars => Buffered'
<1> SUFFICES ASSUME Inv, Buffered, [Next]_vars PROVE Buffered'
  OBVIOUS
<1>1. CASE UNCHANGED vars
  BY <1>1 DEF vars, given, Buffered, Accepted, Ebuf
<1>2. CASE Next
  <2>1. sink' = sink /\ sink \in Sinks /\ (Accepted' <=> Accepted) /\ Ebuf' = Ebuf
    BY <1>2, GivenKept DEF Accepted, Ebuf, Inv, Given
  <2>2. CASE ~Accepted
    <3>1. out' = out
      BY <1>2, <2>2, StepRefuses DEF Refuse
    <3> QED
      BY <2>1, <2>2, <3>1 DEF Buffered
  <2>3. CASE Accepted
    <3>1. PICK o, b, room : o = out /\ b = buf /\ room = Ebuf
      OBVIOUS
    <3>2. CASE Progress /\ Prints /\ pc' = "text"
      <4>1. PICK s \in Seq(Characters) : Putch(s)
        BY <3>2 DEF Prints
      <4>2. out' = o \o s /\ o \in Seq(Characters)
        BY <3>1, <4>1 DEF Putch, Buffered
      <4>3. o \o s \in Seq(Characters)
        BY <4>2, ConcatProperties
      <4>4. ASSUME sink # Console PROVE buf' = Prefix(o \o s, room)
        <5>1. pc # "done"
          BY <1>2, NoOtherSteps
        <5>2. b = Prefix(o, room)
          BY <2>3, <3>1, <4>4, <5>1 DEF Buffered
        <5>3. room \in Nat
          BY <2>1, <2>3, <3>1, <4>4, EbufFacts DEF Accepted, Ebuf
        <5>4. Kept(Prefix(o, room), s, room) = Prefix(o \o s, room)
          BY <4>2, <5>3, PrefixGrows
        <5>5. buf' = Kept(b, s, room)
          BY <3>1, <4>1, <4>4, PutchKept
        <5> QED
          BY <5>2, <5>4, <5>5
      <4> QED
        BY <2>1, <3>1, <3>2, <4>2, <4>3, <4>4 DEF Buffered
    <3>3. CASE ((Progress /\ pc' = "wild") \/ Escaped) /\ out' = out /\ buf' = buf /\ pc' # "done"
      <4>1. pc # "done"
        BY <1>2, NoOtherSteps
      <4> QED
        BY <2>1, <2>3, <3>3, <4>1 DEF Buffered
    <3>4. CASE Returned
      <4>1. Return /\ pc = "text" /\ pc' = "done" /\ out' = out
        BY <3>4 DEF Returned, Return, Scanning
      <4>2. sink # Console => buf' = Append(buf, NUL) /\ ret' = Len(out)
        BY <4>1 DEF Return
      <4> QED
        BY <2>1, <2>3, <4>1, <4>2 DEF Buffered
    <3>5. \/ Progress /\ Prints /\ pc' = "text"
          \/ ((Progress /\ pc' = "wild") \/ Escaped) /\ out' = out /\ buf' = buf /\ pc' # "done"
          \/ Returned
      BY <1>2, <2>3, StepGoesOn DEF Progress, Escaped
    <3> QED
      BY <3>2, <3>3, <3>4, <3>5
  <2> QED
    BY <2>2, <2>3
<1> QED
  BY <1>1, <1>2

(***************************************************************************)
(* printfmt.c:262-285: whatever is printed into a buffer of whatever size, *)
(* vsnprintf never writes behind its end, leaves in it the beginning of    *)
(* the output with a 0 behind it, and returns the length of the output.    *)
(***************************************************************************)
THEOREM BufferIsPrefix == Spec => []BufferHoldsPrefix
<1>1. Inv /\ Buffered => BufferHoldsPrefix
  <2> SUFFICES ASSUME Inv, Buffered, sink # Console
               PROVE  /\ Len(buf) <= IF sink.kind = "null" \/ sink.size < 0 THEN 0 ELSE sink.size
                      /\ pc = "done" /\ Accepted =>
                           /\ buf = Append(SubSeq(out, 1, Len(buf) - 1), NUL)
                           /\ Len(out) < sink.size => Len(buf) = Len(out) + 1
                           /\ ret = Len(out)
    BY DEF BufferHoldsPrefix
  <2>1. sink \in Sinks /\ sink.size \in Int
    BY SinkFacts DEF Inv, Given
  <2>2. CASE ~Accepted
    <3>1. Len(buf) = 0
      BY <2>2 DEF Inv, Refused
    <3> QED
      BY <2>1, <2>2, <3>1, SMT
  <2>3. CASE Accepted
    <3>0. sink.kind # "null"
      BY <2>3, SMT DEF Accepted
    <3>1. PICK room \in Nat, size \in Nat : room = Ebuf /\ size = sink.size /\ room + 1 = size
      BY <2>1, <2>3, EbufFacts, SMT DEF Accepted, Ebuf
    <3>2a. PICK o \in Seq(Characters) : o = out
      BY DEF Buffered
    <3>2. PICK b : o = out /\ b = Prefix(o, room)
      BY <3>2a DEF Buffered
    <3>3. PICK l \in Nat, n \in Nat :
            /\ l = Len(b) /\ n = Len(o) /\ l <= room /\ l <= n /\ (n <= room => l = n) /\ b \in Seq(Characters)
            /\ b = SubSeq(o, 1, l)
      <4>1. PICK n \in Nat : n = Len(o)
        BY LenProperties
      <4>2. /\ b \in Seq(Characters) /\ Len(b) \in Nat /\ Len(b) <= room /\ Len(b) <= n
            /\ (n <= room => Len(b) = n)
        BY <3>2, <4>1, PrefixFacts
      <4>3. b = SubSeq(o, 1, Least(n, room)) /\ Least(n, room) \in Nat /\ Least(n, room) <= n
        <5>1. Least(n, room) \in Nat /\ Least(n, room) <= n
          BY SMT DEF Least
        <5> QED
          BY <3>2, <4>1, <5>1 DEF Prefix
      <4>4. Len(b) = Least(n, room)
        BY <4>1, <4>3, SMT
      <4> QED
        BY <4>1, <4>2, <4>3, <4>4
    <3>4. CASE pc = "done"
      <4>1. buf = Append(b, NUL) /\ ret = Len(out)
        BY <2>3, <3>1, <3>2, <3>4 DEF Buffered
      <4>2. Len(buf) = l + 1
        BY <3>3, <4>1, CharactersFacts, Appended
      <4>3. Len(buf) - 1 = l /\ l + 1 <= size /\ ~(size < 0) /\ (n < size => l + 1 = n + 1)
        BY <3>1, <3>3, <4>2, SMT
      <4> QED
        BY <3>0, <3>1, <3>2, <3>3, <4>1, <4>2, <4>3
    <3>5. CASE pc # "done"
      <4>1. buf = b
        BY <2>3, <3>1, <3>2, <3>5 DEF Buffered
      <4>2. l <= size /\ ~(size < 0)
        BY <3>1, <3>3, SMT
      <4> QED
        BY <3>0, <3>1, <3>3, <3>5, <4>1, <4>2
    <3> QED
      BY <3>4, <3>5
  <2> QED
    BY <2>2, <2>3
<1>2. Spec => []Buffered
  BY BeginsBuffered, StaysBuffered, AlwaysWell, PTL DEF Spec
<1> QED
  BY <1>1, <1>2, AlwaysWell, PTL
===============================================================================
