------------------------------- MODULE BootLoader -------------------------------
(***************************************************************************)
(* boot/boot.S and boot/main.c: address line 20 is switched on through the *)
(* 8042 controller, then the kernel's ELF image is read from the disk,     *)
(* sector by sector, to where its program headers say.  Controller and     *)
(* disk take their time; the loader only polls them.                       *)
(*                                                                         *)
(* Memory is counted in units of which a sector has SECTSIZE.  A unit that *)
(* came from the image holds its offset in the image; other contents are   *)
(* negative.                                                               *)
(***************************************************************************)
EXTENDS Integers, Sequences

CONSTANTS SECTSIZE,
          ELFHDR,      \* where the first page of the image is read to ...
          HdrSectors,  \* ... and its sectors: 8
          MB,          \* the address that line 20 stands for
          MemSize,
          Start,       \* the sector the BIOS has loaded: boot.S and main.c
          Images       \* images found on disks: magic, segs (pa, offset, filesz, memsz)

Junk == -1
Loader == -2
Phys == 0 .. MemSize - 1

(***************************************************************************)
(* Images a linker makes: the segments above 1 MB, in the order of their   *)
(* addresses, with offsets that agree with them modulo a sector; two that  *)
(* share a sector in memory come from the same sector of the disk.         *)
(***************************************************************************)
SectorOf(a) == a \div SECTSIZE
Segments == [pa : Nat, offset : Nat, filesz : Nat, memsz : Nat]
Linked(segs) ==
  /\ segs \in Seq(Segments)
  /\ \A k \in 1 .. Len(segs) : /\ segs[k].pa >= MB
                               /\ SectorOf(segs[k].pa + segs[k].memsz - 1) < SectorOf(MemSize)
                               /\ segs[k].pa % SECTSIZE = segs[k].offset % SECTSIZE
                               /\ segs[k].filesz <= segs[k].memsz
  /\ \A k \in 1 .. Len(segs) - 1 :
       LET end == segs[k].pa + segs[k].memsz
           next == segs[k + 1]
       IN /\ end <= next.pa
          /\ SectorOf(end - 1) = SectorOf(next.pa)
               => next.pa - segs[k].pa = next.offset - segs[k].offset

(* below 1 MB: the loader's sector, then whole sectors for the header *)
ASSUME LayoutAssumption ==
  /\ SECTSIZE \in Nat \ {0} /\ HdrSectors \in Nat \ {0}
  /\ ELFHDR \in Nat /\ MB \in Nat /\ MemSize \in Nat /\ Start \in Nat
  /\ ELFHDR % SECTSIZE = 0 /\ MB % SECTSIZE = 0
  /\ Start + SECTSIZE <= ELFHDR
  /\ ELFHDR + HdrSectors * SECTSIZE <= MB
  /\ MB <= MemSize

(* of an image without the magic number nothing is known *)
ASSUME ImagesAssumption ==
  \A im \in Images : im.magic \in BOOLEAN /\ (im.magic => Linked(im.segs))

VARIABLES
  image,
  kbc,                 \* input buffer of the 8042: "empty", or the byte in it
  kbcData,             \* the 8042 expects the data of command 0xd1
  a20,                 \* address line 20 is on
  disk,                \* busy, the sector asked for (lba), the sector in its buffer (data)
  mem,
  pc,
  ph,                  \* the program header being loaded; 0: the first page
  pa, end_pa, offset   \* of readseg

devices == <<kbc, kbcData, a20, disk>>
bvars == <<image, devices, mem, pc, ph, pa, end_pa, offset>>

BootInit ==
  /\ image \in Images
  /\ kbc \in {"empty", "other"} /\ kbcData = FALSE
  /\ a20 \in BOOLEAN
  /\ disk \in [busy : BOOLEAN, lba : {0}, data : {0}]
  /\ mem = [a \in Phys |-> IF a \in Start .. Start + SECTSIZE - 1 THEN Loader ELSE Junk]
  /\ pc = "seta20.1"
  /\ ph = 0 /\ pa = 0 /\ end_pa = 0 /\ offset = 0

-----------------------------------------------------------------------------
(* The devices *)

(***************************************************************************)
(* The 8042 takes the byte in its buffer.  The data of 0xd1 goes to its    *)
(* output port, where 0xdf switches line 20 on.                            *)
(***************************************************************************)
KbcTakes ==
  /\ kbc # "empty"
  /\ kbc' = "empty"
  /\ kbcData' = (kbc = "0xd1")
  /\ a20' = (a20 \/ (kbc = "0xdf" /\ kbcData))
  /\ UNCHANGED <<image, disk, mem, pc, ph, pa, end_pa, offset>>

(***************************************************************************)
(* The drive has the sector.  It is slower than the 8042, which boot.S     *)
(* does not wait for after the last byte.  That it was busy from the       *)
(* moment of the command on, readsect relies on.                           *)
(***************************************************************************)
DiskReady ==
  /\ disk.busy
  /\ kbc = "empty"
  /\ disk' = [disk EXCEPT !.busy = FALSE, !.data = disk.lba]
  /\ UNCHANGED <<image, kbc, kbcData, a20, mem, pc, ph, pa, end_pa, offset>>

(* the unit of memory an address selects; without line 20 it wraps *)
Selected(a) == IF a20 THEN a ELSE a % MB

-----------------------------------------------------------------------------
(* boot.S *)

Seta20_1 ==
  /\ pc = "seta20.1" /\ kbc = "empty"
  /\ kbc' = "0xd1"
  /\ pc' = "seta20.2"
  /\ UNCHANGED <<image, kbcData, a20, disk, mem, ph, pa, end_pa, offset>>

Seta20_2Unwaited ==    \* faulty variant: the command may not have been taken
  /\ pc = "seta20.2"
  /\ kbc' = "0xdf"
  /\ pc' = "protected"
  /\ UNCHANGED <<image, kbcData, a20, disk, mem, ph, pa, end_pa, offset>>

Seta20_2 ==
  /\ pc = "seta20.2" /\ kbc = "empty"
  /\ kbc' = "0xdf"
  /\ pc' = "protected"
  /\ UNCHANGED <<image, kbcData, a20, disk, mem, ph, pa, end_pa, offset>>

ReadsegEndLate(to, count, from) ==   \* faulty variant: the end of the rounded start
  /\ pa' = to - (to % SECTSIZE)
  /\ end_pa' = pa' + count
  /\ offset' = (from \div SECTSIZE) + 1
  /\ pc' = "readseg"

(* readseg's arguments, the start rounded down to a sector; sector 0 is the loader's *)
Readseg(to, count, from) ==
  /\ pa' = to - (to % SECTSIZE)
  /\ end_pa' = to + count
  /\ offset' = (from \div SECTSIZE) + 1
  /\ pc' = "readseg"

(***************************************************************************)
(* lgdt, the switch to protected mode with segments that cover all of      *)
(* memory at base 0, the stack below the loader; then bootmain.            *)
(***************************************************************************)
ProtectedMode ==
  /\ pc = "protected"
  /\ Readseg(ELFHDR, HdrSectors * SECTSIZE, 0)
  /\ UNCHANGED <<image, devices, mem, ph>>

-----------------------------------------------------------------------------
(* main.c *)

(* waitdisk, then the command to read one sector *)
Command ==
  /\ pc = "readseg" /\ pa < end_pa /\ ~disk.busy
  /\ disk' = [disk EXCEPT !.busy = TRUE, !.lba = offset]
  /\ pc' = "readsect"
  /\ UNCHANGED <<image, kbc, kbcData, a20, mem, ph, pa, end_pa, offset>>

(* what a sector of the disk holds: sector 1 is the image's first *)
SectorUnit(s, k) == (s - 1) * SECTSIZE + k
Insl(dst) ==
  [a \in Phys |-> IF \E k \in 0 .. SECTSIZE - 1 : a = Selected(dst + k)
                    THEN SectorUnit(disk.data, CHOOSE k \in 0 .. SECTSIZE - 1 : a = Selected(dst + k))
                    ELSE mem[a]]

TransferStays ==       \* faulty variant: the loop of readseg does not advance
  /\ pc = "readsect" /\ ~disk.busy
  /\ mem' = Insl(pa)
  /\ pc' = "readseg"
  /\ UNCHANGED <<image, devices, ph, pa, end_pa, offset>>

(* waitdisk again, then insl *)
Transfer ==
  /\ pc = "readsect" /\ ~disk.busy
  /\ mem' = Insl(pa)
  /\ pa' = pa + SECTSIZE /\ offset' = offset + 1
  /\ pc' = "readseg"
  /\ UNCHANGED <<image, devices, ph, end_pa>>

(* the first page is there: e_magic decides *)
CheckMagic ==
  /\ pc = "readseg" /\ pa >= end_pa /\ ph = 0 /\ ~image.magic
  /\ pc' = "bad"
  /\ UNCHANGED <<image, devices, mem, ph, pa, end_pa, offset>>

Segment(k) == image.segs[k]
NextSegment ==
  /\ pc = "readseg" /\ pa >= end_pa /\ image.magic
  /\ ph < Len(image.segs)
  /\ ph' = ph + 1
  /\ Readseg(Segment(ph').pa, Segment(ph').memsz, Segment(ph').offset)
  /\ UNCHANGED <<image, devices, mem>>

(* all loaded: call e_entry *)
EnterKernel ==
  /\ pc = "readseg" /\ pa >= end_pa /\ image.magic
  /\ ph = Len(image.segs)
  /\ pc' = "entry"
  /\ UNCHANGED <<image, devices, mem, ph, pa, end_pa, offset>>

-----------------------------------------------------------------------------
(* whether a segment is where it belongs *)
InPlace(s) == \A k \in 0 .. s.filesz - 1 : mem[s.pa + k] = s.offset + k

(***************************************************************************)
(* When the kernel is entered every unit of every segment is in place,     *)
(* although whole sectors are read around them and over their neighbours   *)
(* (main.c:85 "it doesn't matter -- we load in increasing order").         *)
(***************************************************************************)
ImageInPlace == pc = "entry" => \A k \in 1 .. Len(image.segs) : InPlace(Segment(k))

(***************************************************************************)
(* Until then neither the loader's own code nor the ELF header it walks    *)
(* through is overwritten (main.c:51-56).                                  *)
(***************************************************************************)
Loading == pc \in {"seta20.1", "seta20.2", "protected", "readseg", "readsect"}
LoaderIntact ==
  /\ Loading => \A a \in Start .. Start + SECTSIZE - 1 : mem[a] = Loader
  /\ Loading /\ ph > 0 => \A k \in 0 .. HdrSectors * SECTSIZE - 1 : mem[ELFHDR + k] = k
=============================================================================
