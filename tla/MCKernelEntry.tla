----------------------------- MODULE MCKernelEntry -----------------------------
(* Images for a disk with sectors of 2 units and 16 units above line 20 *)
EXTENDS KernelEntry

Seg(p, o, f, m) == [pa |-> p, offset |-> o, filesz |-> f, memsz |-> m]

(* two segments, the second one with a unit of stack, one of data and two of bss at its end *)
TwoSegments ==
  {<<Seg(p, o, l, l), Seg(p2, o2, m - cut, m)>> :
     p \in 16 .. 17, o \in 4 .. 7, l \in 7 .. 8, p2 \in 23 .. 28, o2 \in 11 .. 15,
     m \in 4 .. 5, cut \in {0, 2}}
LinkedPairs == {segs \in TwoSegments : Linked(segs) /\ segs[2].offset >= segs[1].offset + segs[1].filesz}
MCImages ==
  [magic : {TRUE}, segs : LinkedPairs]
    \cup [magic : {FALSE}, segs : {<<Seg(16, 4, 8, 8)>>}]
    \cup [magic : {TRUE}, segs : {<<Seg(16, 4, 9, 11)>>}]
=============================================================================
