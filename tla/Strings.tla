-------------------------------- MODULE Strings --------------------------------
(***************************************************************************)
(* The other functions of lib/string.c: loops over bytes, one step per     *)
(* turn.  The variables of the C code are where Memory has registers: di   *)
(* is dst or p (the sign, in strtol), si is src, s or q, and cx the size   *)
(* still left (the base, in strtol).                                       *)
(***************************************************************************)
EXTENDS Memory

CONSTANTS Contents,       \* for every call that is made, the memories it is made on
          Half            \* a long holds the integers from -Half up to Half - 1

ASSUME LongAssumption == Half \in Nat \ {0}

VARIABLE ret              \* what the function returns, or has counted so far

svars == <<vars, ret>>

MemoryFns == {"memmove", "memcpy", "memset"}
Copying == {"strcpy", "strcat", "strncpy", "strlcpy"}
Comparing == {"strcmp", "strncmp", "memcmp"}
Finding == {"strchr", "strfind", "memfind"}
StringFns == {"strlen", "strnlen", "strtol"} \cup Copying \cup Comparing \cup Finding
Sized == {"strnlen", "strncpy", "strlcpy", "strncmp", "memcmp"}
NULL == -1

(***************************************************************************)
(* What the caller sees to: a string ends in memory, or a size keeps the   *)
(* function from looking further; what is written lies in memory, and not  *)
(* where it would still be read.                                           *)
(***************************************************************************)
EndIn(m, p) == CHOOSE e \in p .. Top : /\ \A k \in p .. e - 1 : m[k] # 0
                                       /\ e < Top => m[e] = 0
Least(a, b) == IF a < b THEN a ELSE b
Readable(q, m, p) ==
  /\ p \in Addrs
  /\ IF q.fn \in {"memcmp", "memfind"} THEN p + q.n <= Top
     ELSE EndIn(m, p) < Top \/ (q.fn \in Sized /\ p + q.n <= Top)
Target(q, m) == IF q.fn = "strcat" THEN EndIn(m, q.dst) ELSE q.dst
Written(q, m) ==
  LET whole == EndIn(m, q.src) - q.src + 1
  IN CASE q.fn = "strncpy" -> q.n
       [] q.fn = "strlcpy" -> Least(whole, q.n)
       [] OTHER -> whole
Callable(q, m) ==
  /\ q \in [fn : StringFns, dst : Int, src : Int, n : Nat, c : Int]
  /\ m \in [Addrs -> Bytes]
  /\ Readable(q, m, q.src)
  /\ q.fn \in Comparing \cup {"strcat"} => Readable(q, m, q.dst)
  /\ q.fn \in Copying =>
       /\ q.dst \in Addrs /\ Target(q, m) + Written(q, m) <= Top
       /\ Target(q, m) <= q.src \/ q.src + Written(q, m) <= Target(q, m)
  /\ q.fn \in {"strchr", "strfind"} => q.c \in Bytes
  /\ q.fn = "strtol" => q.n \in {0} \cup 2 .. 36

ASSUME CallsAssumption ==
  \A q \in DOMAIN Contents : \A m \in Contents[q] :
    IF q.fn \in MemoryFns THEN q \in Regions /\ Fits(q) /\ m \in [Addrs -> Bytes] ELSE Callable(q, m)

-----------------------------------------------------------------------------
Call ==
  /\ pc = "call" /\ call.fn \in StringFns
  /\ di' = call.dst /\ si' = call.src /\ cx' = call.n /\ ret' = 0
  /\ pc' = IF call.fn = "strcat" THEN "end" ELSE IF call.fn = "strtol" THEN "blanks" ELSE "loop"
  /\ UNCHANGED <<call, asm, before, mem, unit, df>>

Loop(fns) == pc = "loop" /\ call.fn \in fns
More == call.fn \in Sized => cx > 0
Turn(d, s) ==
  /\ di' = di + d /\ si' = si + s
  /\ cx' = IF call.fn \in Sized THEN cx - 1 ELSE cx
  /\ UNCHANGED <<call, asm, before, unit, df, pc>>
Return(value) ==
  /\ ret' = value /\ pc' = "done"
  /\ UNCHANGED <<call, asm, before, regs>>

(* strlen and strnlen *)
Count ==
  /\ Loop({"strlen", "strnlen"})
  /\ \/ More /\ mem[si] # 0 /\ ret' = ret + 1 /\ Turn(0, 1)
     \/ ~(More /\ mem[si] # 0) /\ Return(ret)
  /\ UNCHANGED mem

(* strcat goes to the end of dst first *)
Append0 ==
  /\ pc = "end"
  /\ \/ mem[di] # 0 /\ di' = di + 1 /\ UNCHANGED pc
     \/ mem[di] = 0 /\ pc' = "loop" /\ UNCHANGED di
  /\ UNCHANGED <<call, asm, before, mem, si, cx, unit, df, ret>>

CopyByte == mem' = [mem EXCEPT ![di] = mem[si]]
Strcpy ==
  /\ Loop({"strcpy", "strcat"})
  /\ CopyByte
  /\ \/ mem[si] # 0 /\ Turn(1, 1) /\ UNCHANGED ret
     \/ mem[si] = 0 /\ Return(call.dst)

(* src stays at the 0 it has met; what it reads there may have been written *)
Strncpy ==
  /\ Loop({"strncpy"})
  /\ \/ More /\ CopyByte /\ Turn(1, IF mem'[si] # 0 THEN 1 ELSE 0) /\ UNCHANGED ret
     \/ ~More /\ Return(call.dst) /\ UNCHANGED mem

RoomLate == cx > 0        \* faulty variant: size-- for --size
Room == cx > 1
Strlcpy ==
  /\ Loop({"strlcpy"})
  /\ \/ Room /\ mem[si] # 0 /\ CopyByte /\ Turn(1, 1) /\ UNCHANGED ret
     \/ More /\ ~(Room /\ mem[si] # 0) /\ mem' = [mem EXCEPT ![di] = 0] /\ Return(di - call.dst)
     \/ ~More /\ Return(0) /\ UNCHANGED mem

(* the difference of the first bytes that differ or, for strings, end both *)
DifferenceSigned == ((mem[di] + 128) % 256) - ((mem[si] + 128) % 256)   \* faulty variant: char
Difference == mem[di] - mem[si]
Alike == mem[di] = mem[si] /\ (mem[di] # 0 \/ call.fn = "memcmp")
Compare ==
  /\ Loop(Comparing)
  /\ \/ More /\ Alike /\ Turn(1, 1) /\ UNCHANGED ret
     \/ More /\ ~Alike /\ Return(Difference)
     \/ ~More /\ Return(0)
  /\ UNCHANGED mem

Find ==
  /\ Loop({"strchr", "strfind"})
  /\ \/ mem[si] # 0 /\ mem[si] # call.c /\ Turn(0, 1) /\ UNCHANGED ret
     \/ mem[si] # 0 /\ mem[si] = call.c /\ Return(si)
     \/ mem[si] = 0 /\ Return(IF call.fn = "strchr" THEN NULL ELSE si)
  /\ UNCHANGED mem
Memfind ==
  /\ Loop({"memfind"})
  /\ IF si < call.src + call.n /\ mem[si] # call.c % 256 THEN Turn(0, 1) /\ UNCHANGED ret ELSE Return(si)
  /\ UNCHANGED mem

(***************************************************************************)
(* strtol.  Characters are their codes: space 32, tab 9, + 43, - 45, digits*)
(* from 48, x 120.                                                         *)
(***************************************************************************)
Blanks == {9, 32}
SkipBlanks ==
  /\ pc = "blanks"
  /\ \/ mem[si] \in Blanks /\ si' = si + 1 /\ UNCHANGED pc
     \/ mem[si] \notin Blanks /\ pc' = "sign" /\ UNCHANGED si
  /\ UNCHANGED <<call, asm, before, mem, di, cx, unit, df, ret>>
Sign ==
  /\ pc = "sign"
  /\ si' = IF mem[si] \in {43, 45} THEN si + 1 ELSE si
  /\ di' = IF mem[si] = 45 THEN -1 ELSE 1
  /\ pc' = "prefix"
  /\ UNCHANGED <<call, asm, before, mem, cx, unit, df, ret>>

HexSlack == mem[si] = 48 /\ mem[si + 1] = 120           \* faulty variant: in any base
Hex == cx \in {0, 16} /\ mem[si] = 48 /\ mem[si + 1] = 120
Prefix ==
  /\ pc = "prefix"
  /\ \/ Hex /\ si' = si + 2 /\ cx' = 16
     \/ ~Hex /\ cx = 0 /\ mem[si] = 48 /\ si' = si + 1 /\ cx' = 8
     \/ ~Hex /\ ~(cx = 0 /\ mem[si] = 48) /\ si' = si /\ cx' = IF cx = 0 THEN 10 ELSE cx
  /\ pc' = "digits"
  /\ UNCHANGED <<call, asm, before, mem, di, unit, df, ret>>

DigitOf(c) == IF c \in 48 .. 57 THEN c - 48
              ELSE IF c \in 97 .. 122 THEN c - 87
              ELSE IF c \in 65 .. 90 THEN c - 55 ELSE 255      \* 255: no digit
Wrap(v) == ((v + Half) % (2 * Half)) - Half     \* what does not fit in a long
Digits ==
  /\ pc = "digits"
  /\ \/ /\ DigitOf(mem[si]) < cx
        /\ si' = si + 1 /\ ret' = Wrap(ret * cx + DigitOf(mem[si]))
        /\ UNCHANGED <<call, asm, before, di, cx, unit, df, pc>>
     \/ DigitOf(mem[si]) >= cx /\ Return(Wrap(di * ret))
  /\ UNCHANGED mem

StringsInit ==
  /\ call \in DOMAIN Contents
  /\ before \in Contents[call] /\ mem = before
  /\ Machine
  /\ ret = 0
StringsNext ==
  \/ Next /\ UNCHANGED ret
  \/ Call \/ Count \/ Append0 \/ Strcpy \/ Strncpy \/ Strlcpy \/ Compare \/ Find \/ Memfind
  \/ SkipBlanks \/ Sign \/ Prefix \/ Digits
StringsSpec == StringsInit /\ [][StringsNext]_svars

-----------------------------------------------------------------------------
(* Properties *)

(* the string at p in the memory of the call, and a block of n bytes *)
EndOf(p) == EndIn(before, p)
Block(p, n) == [k \in 1 .. n |-> before[p + k - 1]]
Chars(p) == Block(p, EndOf(p) - p)
FirstChars(p, n) == Block(p, Least(n, EndOf(p) - p))
Returned(fn) == pc = "done" /\ call.fn = fn

(* strlen counts to the 0, strnlen no further than it may (string.c:11-29). *)
Lengths ==
  /\ Returned("strlen") => ret = EndOf(call.src) - call.src
  /\ Returned("strnlen") => ret = Least(call.n, EndOf(call.src) - call.src)

(***************************************************************************)
(* A copy leaves its text and its 0 at the destination and every other     *)
(* byte as it was; strncpy writes all of its size and may leave out the 0, *)
(* strlcpy never writes more than its size and never leaves it out         *)
(* (string.c:31-77).                                                       *)
(***************************************************************************)
Overlaid(d, n, size) ==      \* the first n bytes of the source at d, then 0s
  [a \in Addrs |-> IF ~Within(a, d, size) THEN before[a]
                   ELSE IF Within(a, d, n) THEN before[call.src + (a - d)] ELSE 0]
CopiesRight ==
  LET len == EndOf(call.src) - call.src
      cut == Least(call.n - 1, len)
  IN /\ Returned("strcpy") => mem = Overlaid(call.dst, len, len + 1) /\ ret = call.dst
     /\ Returned("strcat") => mem = Overlaid(EndOf(call.dst), len, len + 1) /\ ret = call.dst
     /\ Returned("strncpy") => mem = Overlaid(call.dst, len, call.n) /\ ret = call.dst
     /\ Returned("strlcpy") =>
          IF call.n = 0 THEN mem = before /\ ret = 0
                        ELSE mem = Overlaid(call.dst, cut, cut + 1) /\ ret = cut

(***************************************************************************)
(* The comparisons order texts as sequences of unsigned bytes, those of    *)
(* strings without looking behind their ends (string.c:79-96, 214-227).    *)
(***************************************************************************)
Less(a, b) ==
  \E k \in DOMAIN b : /\ \A j \in 1 .. k - 1 : j \in DOMAIN a /\ a[j] = b[j]
                      /\ (k \notin DOMAIN a \/ a[k] < b[k])
Orders(a, b) == (ret < 0 <=> Less(a, b)) /\ (ret > 0 <=> Less(b, a))
Comparisons ==
  /\ Returned("strcmp") => Orders(Chars(call.dst), Chars(call.src))
  /\ Returned("strncmp") => Orders(FirstChars(call.dst, call.n), FirstChars(call.src, call.n))
  /\ Returned("memcmp") => Orders(Block(call.dst, call.n), Block(call.src, call.n))

(***************************************************************************)
(* The searches find the first occurrence, or say in their own ways that   *)
(* there is none: NULL, the string's end, the region's end (string.c:98,   *)
(* 109, 229).                                                              *)
(***************************************************************************)
FirstOr(c, n, none) ==
  LET found == {a \in call.src .. call.src + n - 1 : before[a] = c}
  IN IF found = {} THEN none ELSE CHOOSE a \in found : \A o \in found : a <= o
Occurrences ==
  LET len == EndOf(call.src) - call.src
  IN /\ Returned("strchr") => ret = FirstOr(call.c, len, NULL)
     /\ Returned("strfind") => ret = FirstOr(call.c, len, EndOf(call.src))
     /\ Returned("memfind") => ret = FirstOr(call.c % 256, call.n, call.src + call.n)

(***************************************************************************)
(* The functions that only read return what they should (string.c:11-29,   *)
(* 79-118, 214-237).                                                       *)
(***************************************************************************)
ReadersRight == Lengths /\ Comparisons /\ Occurrences

(***************************************************************************)
(* strtol reads blanks, one sign, a prefix that fits the base, and then    *)
(* every digit there is, and returns their value, cut to what a long       *)
(* holds, and where they end (string.c:239-284).                           *)
(***************************************************************************)
HasHexPrefix(p) == call.n \in {0, 16} /\ before[p] = 48 /\ before[p + 1] = 120
HasOctPrefix(p) == call.n = 0 /\ before[p] = 48 /\ before[p + 1] # 120
PrefixOf(p) == IF HasHexPrefix(p) THEN 2 ELSE IF HasOctPrefix(p) THEN 1 ELSE 0
BaseAt(p) == IF HasHexPrefix(p) THEN 16 ELSE IF HasOctPrefix(p) THEN 8
             ELSE IF call.n = 0 THEN 10 ELSE call.n

(* a digit stands for itself times the power of its place *)
PowersOf(b) == LET power[k \in Nat] == IF k = 0 THEN 1 ELSE b * power[k - 1] IN power
LastDigits(m, b, end) ==
  LET value[k \in Nat] ==
        IF k = 0 THEN 0 ELSE DigitOf(m[end - k]) * PowersOf(b)[k - 1] + value[k - 1]
  IN value
NumberRead(blanks, signs, end, value) ==
  LET sign == call.src + blanks
      number == sign + signs
      base == BaseAt(number)
      first == number + PrefixOf(number)
  IN /\ \A a \in call.src .. sign - 1 : before[a] \in Blanks
     /\ before[sign] \notin Blanks
     /\ (signs = 1) <=> (before[sign] \in {43, 45})
     /\ first <= end
     /\ \A a \in first .. end - 1 : DigitOf(before[a]) < base
     /\ DigitOf(before[end]) >= base
     /\ value = Wrap((IF before[sign] = 45 THEN -1 ELSE 1) * LastDigits(before, base, end)[end - first])
StrtolRight ==
  Returned("strtol") =>
    \E blanks \in 0 .. Top - 1, signs \in 0 .. 1 : NumberRead(blanks, signs, si, ret)
=============================================================================
