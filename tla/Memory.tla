-------------------------------- MODULE Memory --------------------------------
(***************************************************************************)
(* memset, memmove and memcpy (lib/string.c): loops over the bytes or the  *)
(* 4-byte words of two regions that may overlap, upwards or downwards.     *)
(* One step per turn of a loop, that is per turn of a repeated string      *)
(* instruction; the build without ASM differs in always moving bytes.      *)
(***************************************************************************)
EXTENDS Integers

CONSTANT Top          \* size of the memory

ASSUME TopAssumption == Top \in Nat

Addrs == 0 .. Top - 1
Bytes == 0 .. 255

VARIABLES
  call,               \* fn, its pointers dst and src, its numbers n and c
  asm,                \* which of the two builds
  before,             \* the memory the function was called with
  mem,                \* the memory
  di, si, cx, unit,   \* registers of the string instruction, and its width
  df,                 \* direction flag: 1 or -1
  pc                  \* "call", "move", "fill", "done", ...

regs == <<di, si, cx, unit, df>>
vars == <<call, asm, before, mem, regs, pc>>

(* both regions lie inside the memory *)
Fits(q) == /\ q.dst \in Addrs /\ q.src \in Addrs /\ q.n \in 0 .. Top
           /\ q.dst + q.n <= Top /\ q.src + q.n <= Top
           /\ q.c \in Int
Regions == [fn : {"memmove", "memcpy", "memset"}, dst : Int, src : Int, n : Int, c : Int]

Machine == /\ asm \in BOOLEAN
           /\ di = 0 /\ si = 0 /\ cx = 0 /\ unit = 1 /\ df = 1
           /\ pc = "call"
Init ==
  /\ call \in Regions /\ Fits(call)
  /\ before \in [Addrs -> Bytes] /\ mem = before
  /\ Machine

Downwards(q) == q.src < q.dst /\ q.src + q.n > q.dst
Aligned(q) == q.src % 4 = 0 /\ q.dst % 4 = 0 /\ q.n % 4 = 0
Width(wide) == IF asm /\ wide THEN 4 ELSE 1

UpwardsOnly ==        \* faulty variant: the direction is not chosen
  /\ pc = "call" /\ call.fn \in {"memmove", "memcpy"}
  /\ unit' = Width(Aligned(call))
  /\ di' = call.dst /\ si' = call.src /\ df' = 1
  /\ cx' = call.n \div unit'
  /\ pc' = "move"
  /\ UNCHANGED <<call, asm, before, mem>>

(* memmove, and memcpy which calls it: downwards if a write upwards would be read again *)
Memmove ==
  /\ pc = "call" /\ call.fn \in {"memmove", "memcpy"}
  /\ unit' = Width(Aligned(call))
  /\ cx' = call.n \div unit'
  /\ IF Downwards(call)
       THEN di' = call.dst + call.n - unit' /\ si' = call.src + call.n - unit' /\ df' = -1
       ELSE di' = call.dst /\ si' = call.src /\ df' = 1
  /\ pc' = "move"
  /\ UNCHANGED <<call, asm, before, mem>>

(* one turn of rep movsl or rep movsb *)
Move ==
  /\ pc = "move" /\ cx > 0
  /\ mem' = [a \in Addrs |-> IF di <= a /\ a < di + unit THEN mem[si + a - di] ELSE mem[a]]
  /\ di' = di + df * unit
  /\ si' = si + df * unit
  /\ cx' = cx - 1
  /\ UNCHANGED <<call, asm, before, unit, df, pc>>

MovedKeepsFlag ==     \* faulty variant: no cld after std
  /\ pc = "move" /\ cx = 0
  /\ pc' = "done"
  /\ UNCHANGED <<call, asm, before, mem, regs>>

Moved ==
  /\ pc = "move" /\ cx = 0
  /\ df' = 1
  /\ pc' = "done"
  /\ UNCHANGED <<call, asm, before, mem, di, si, cx, unit>>

Wide == call.dst % 4 = 0 /\ call.n % 4 = 0
Memset ==
  /\ pc = "call" /\ call.fn = "memset"
  /\ unit' = Width(Wide)
  /\ di' = call.dst /\ cx' = call.n \div unit' /\ df' = 1
  /\ pc' = IF call.n = 0 THEN "done" ELSE "fill"
  /\ UNCHANGED <<call, asm, before, mem, si>>

(* the bytes of an int, the lowest first, and those of (c<<24)|(c<<16)|(c<<8)|c: *)
(* of the bytes that come together in one place only the lowest is not 0         *)
Byte(c, k) == (c \div <<1, 256, 65536, 16777216>>[k]) % 256
Spread(c) == << Byte(c, 1), Byte(c, 2) + Byte(c, 1), Byte(c, 3) + Byte(c, 2) + Byte(c, 1),
                Byte(c, 4) + Byte(c, 3) + Byte(c, 2) + Byte(c, 1) >>
FillUnmasked(c) == [k \in 1 .. 4 |-> Spread(c)[k] % 256]   \* faulty variant: no c &= 0xFF
FillWord(c) == Spread(c % 256)

(* one turn of rep stosl, which stores the word, or of rep stosb *)
Fill ==
  /\ pc = "fill" /\ cx > 0
  /\ mem' = [a \in Addrs |-> IF di <= a /\ a < di + unit
                              THEN IF unit = 4 THEN FillWord(call.c)[a - di + 1] ELSE Byte(call.c, 1)
                              ELSE mem[a]]
  /\ di' = di + unit
  /\ cx' = cx - 1
  /\ UNCHANGED <<call, asm, before, si, unit, df, pc>>

Filled ==
  /\ pc = "fill" /\ cx = 0
  /\ pc' = "done"
  /\ UNCHANGED <<call, asm, before, mem, regs>>

Next == Memmove \/ Move \/ Moved \/ Memset \/ Fill \/ Filled
Spec == Init /\ [][Next]_vars

-----------------------------------------------------------------------------
(* Properties *)

Within(a, start, n) == start <= a /\ a < start + n

(***************************************************************************)
(* memmove copies as if through a buffer, whatever the overlap, alignment  *)
(* and length, and changes nothing else (string.c:141-169).                *)
(***************************************************************************)
MoveCopies ==
  pc = "done" /\ call.fn \in {"memmove", "memcpy"} =>
    mem = [a \in Addrs |-> IF Within(a, call.dst, call.n)
                             THEN before[call.src + (a - call.dst)] ELSE before[a]]

(* memset fills the region with the byte and nothing else (string.c:121-139). *)
SetFills ==
  pc = "done" /\ call.fn = "memset" =>
    mem = [a \in Addrs |-> IF Within(a, call.dst, call.n) THEN call.c % 256 ELSE before[a]]

(***************************************************************************)
(* The direction flag is clear again whenever a function returns: compiled *)
(* code relies on it, and so does every later upwards loop (string.c:158). *)
(***************************************************************************)
DirectionClear == pc = "done" => df = 1
=============================================================================
