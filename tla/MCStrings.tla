------------------------------- MODULE MCStrings -------------------------------
(***************************************************************************)
(* Instances of Memory and Strings for TLC.  The loops that only move      *)
(* bytes get a memory of distinct ones, and every pair of regions in it;   *)
(* the string functions every pair of strings up to three characters long, *)
(* among bytes that do not belong to them (7), copies also from one byte   *)
(* behind their destination, and sizes that cut strings without an end.    *)
(***************************************************************************)
EXTENDS Strings

Region(fn, dst, src, n, c) == [fn |-> fn, dst |-> dst, src |-> src, n |-> n, c |-> c]
Moves == {Region(fn, d, s, n, 0) : fn \in {"memmove", "memcpy"}, d \in Addrs, s \in Addrs, n \in 0 .. 12}
Fills == {Region("memset", d, 0, n, c) : d \in 0 .. 5, n \in 0 .. 9, c \in {-1, 300}}

Dst == 0
Src == 8
Cut == 12
Pairs == {Region(fn, Dst, Src, n, 0) : fn \in Sized, n \in 0 .. 4}
         \cup {Region(fn, Dst, Src, 0, 0) : fn \in {"strlen", "strcpy", "strcat", "strcmp"}}
         \cup {Region(fn, Src - 1, Src, 4, 0) : fn \in {"strcpy", "strncpy", "strlcpy"}}
Unended == {Region(fn, Dst, Cut, n, 0) : fn \in Sized, n \in 0 .. 4}
Finds == {Region(fn, Dst, Src, n, c) : fn \in Finding, n \in {0, 3}, c \in {0, 1, 200}}
         \cup {Region("memfind", Dst, Src, 4, 257)}
Numbers == {Region("strtol", Dst, Src, base, 0) : base \in {0, 8, 10, 16}}
MCStringCalls == {q \in Moves \cup Fills : Fits(q)} \cup Pairs \cup Unended \cup Finds \cup Numbers

(* two strings at Dst and Src; strcat needs room behind the first *)
StringAt(f, p, a, junk) == IF Within(a, p, 3) THEN f[a - p] ELSE IF a = p + 3 THEN 0 ELSE junk
Letters == [0 .. 2 -> {0, 1, 200}]
Apart == {[a \in Addrs |-> IF a < Src - 1 THEN StringAt(f, Dst, a, 7) ELSE StringAt(g, Src, a, 7)] :
            f \in Letters, g \in Letters}
Endless == {[a \in Addrs |-> IF Within(a, p, 4) THEN 200 ELSE 7] : p \in {Dst, Cut}}
Numerals == {[a \in Addrs |-> IF Within(a, Src, 4) THEN f[a - Src] ELSE IF a = Src + 4 THEN 0 ELSE 7] :
               f \in [0 .. 3 -> {9, 32, 43, 45, 48, 55, 70, 97, 120}]}
MCContents ==
  [q \in MCStringCalls |-> IF q \in Numbers THEN Numerals
                          ELSE IF q \in Unended THEN Endless
                          ELSE IF q \in Pairs \cup Finds THEN Apart
                          ELSE {[a \in Addrs |-> a]}]
=============================================================================
