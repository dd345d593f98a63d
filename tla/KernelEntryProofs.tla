--------------------------- MODULE KernelEntryProofs ---------------------------
(***************************************************************************)
(* From power-on to C code: the image is loaded where it belongs, the      *)
(* entry code survives its own switch to paging and is what the processor  *)
(* fetches, and i386_init finds its variables cleared, wherever in the     *)
(* first page table's range the kernel is loaded and whatever the sizes of *)
(* sectors, pages and tables.                                              *)
(***************************************************************************)
EXTENDS KernelEntry, TLAPS

-----------------------------------------------------------------------------
(* The boot loader puts every image a linker makes where it belongs,       *)
(* reading whole sectors of any size, and never overwrites itself.         *)

(* What readseg is reading: the first page (0) or segment k, from where to *)
(* where, and how far the image's offsets are from the addresses.          *)
Top(k) == Segment(k).pa + Segment(k).memsz
From(k) == IF k = 0 THEN ELFHDR ELSE Segment(k).pa - (Segment(k).pa % SECTSIZE)
To(k) == IF k = 0 THEN ELFHDR + HdrSectors * SECTSIZE ELSE Top(k)
Delta(k) == IF k = 0 THEN -ELFHDR ELSE Segment(k).offset - Segment(k).pa

BootCode == {"seta20.1", "seta20.2", "protected"}
Reading == {"readseg", "readsect"}

(* Line 20 is on once a sector has been read: the drive is slower than the 8042. *)
A20On == kbc = "empty" /\ a20
Waited ==
  /\ pc = "seta20.1" => kbc \in {"empty", "other"}
  /\ pc = "seta20.2" => kbc = "0xd1" \/ (kbc = "empty" /\ kbcData)
  /\ pc \notin {"seta20.1", "seta20.2"} => A20On \/ (kbc = "0xdf" /\ kbcData)
  /\ pc = "readsect" => disk.busy \/ A20On
  /\ pc \in Reading /\ (ph > 0 \/ pa > ELFHDR) => A20On
  /\ pc \notin BootCode \cup Reading => A20On

(* The sector in the drive's buffer is the one asked for. *)
Asked ==
  /\ disk \in [busy : BOOLEAN, lba : Int, data : Int]
  /\ pc = "readsect" => disk.lba = offset /\ (~disk.busy => disk.data = offset)

(* readseg goes through memory and disk in step. *)
Progress ==
  /\ pc \in BootCode => ph = 0
  /\ pc \in Reading =>
       /\ ph = 0 \/ (image.magic /\ ph \in 1 .. Len(image.segs))
       /\ end_pa = To(ph)
       /\ pa \in Nat /\ pa % SECTSIZE = 0 /\ From(ph) <= pa
       /\ offset \in Int /\ (offset - 1) * SECTSIZE = pa + Delta(ph)
       /\ ph = 0 => pa <= end_pa
       /\ pc = "readsect" => pa < end_pa

ReadSoFar ==
  pc \in Reading => \A a \in Phys : From(ph) <= a /\ a < pa => mem[a] = a + Delta(ph)

(* j is before k, and where they share a sector they share it on the disk, too *)
Before(j, k) ==
  /\ Top(j) <= Segment(k).pa
  /\ SectorOf(Top(j) - 1) = SectorOf(Segment(k).pa) => Delta(j) = Delta(k)

Earlier == pc \in Reading => \A j \in 1 .. ph - 1 : InPlace(Segment(j)) /\ Before(j, ph)

BInv ==
  /\ image \in Images
  /\ mem \in [Phys -> Int]
  /\ Waited /\ Asked /\ Progress /\ ReadSoFar /\ Earlier
  /\ LoaderIntact /\ ImageInPlace
  /\ pc \notin BootCode \cup Reading \cup {"bad"} => image.magic

BootNext ==
  \/ Seta20_1 \/ Seta20_2 \/ ProtectedMode
  \/ Command \/ Transfer \/ CheckMagic \/ NextSegment \/ EnterKernel
  \/ KbcTakes \/ DiskReady

-----------------------------------------------------------------------------
(* Division by a number that is not a constant *)

LEMMA Product ==
  ASSUME NEW d \in Int, NEW b \in Nat \ {0}, -b < d * b, d * b < b
  PROVE  d = 0
BY SMT

LEMMA Division ==
  ASSUME NEW a \in Nat, NEW b \in Nat \ {0}
  PROVE  /\ a \div b \in Nat /\ a % b \in 0 .. b - 1
         /\ a = b * (a \div b) + (a % b)
BY SMT

LEMMA DivisionUnique ==
  ASSUME NEW q \in Nat, NEW b \in Nat \ {0}, NEW r \in 0 .. b - 1
  PROVE  (q * b + r) \div b = q /\ (q * b + r) % b = r
<1> DEFINE a == q * b + r
<1>1. a \in Nat /\ q * b \in Nat
  BY SMT
<1> DEFINE p == a \div b
          s == a % b
<1>2. p \in Nat /\ s \in 0 .. b - 1 /\ a = b * p + s
  BY <1>1, Division
<1> HIDE DEF p, s
<1>3. (q - p) * b = s - r
  BY <1>2, SMT
<1>4. q - p \in Int /\ s - r \in Int /\ -b < s - r /\ s - r < b
  BY <1>2, SMT
<1>5. q - p = 0
  BY <1>3, <1>4, Product
<1>6. p = q /\ s = r
  BY <1>2, <1>3, <1>5, SMT
<1>7. QED
  BY <1>6 DEF p, s

LEMMA SmallRemainder ==
  ASSUME NEW b \in Nat \ {0}, NEW r \in 0 .. b - 1
  PROVE  r \div b = 0 /\ r % b = r
<1>1. 0 * b + r = r /\ 0 \in Nat
  BY SMT
<1>2. (0 * b + r) \div b = 0 /\ (0 * b + r) % b = r
  BY DivisionUnique, <1>1
<1>3. QED
  BY <1>1, <1>2

LEMMA QuotientBelow ==
  ASSUME NEW q \in Nat, NEW b \in Nat \ {0}, NEW n \in Nat, q * b < b * n
  PROVE  q < n
<1>1. SUFFICES ASSUME q >= n PROVE FALSE
  BY SMT
<1>2. q - n \in Nat
  BY <1>1, SMT
<1>3. (q - n) * b >= 0
  BY <1>2, SMT
<1>4. (q - n) * b = q * b - b * n
  BY SMT
<1>5. q * b \in Nat /\ b * n \in Nat
  BY SMT
<1>6. QED
  BY <1>3, <1>4, <1>5, SMT

(* The start of the sector that a lies in, in multiples of b *)
LEMMA RoundedDown ==
  ASSUME NEW a \in Nat, NEW b \in Nat \ {0}
  PROVE  /\ a - (a % b) \in Nat /\ a - (a % b) <= a /\ a < a - (a % b) + b
         /\ (a - (a % b)) % b = 0
         /\ (a \div b) * b = a - (a % b)
<1> DEFINE q == a \div b
           r == a % b
<1>1. q \in Nat /\ r \in 0 .. b - 1 /\ a = b * q + r
  BY Division
<1>2. (q * b + 0) % b = 0
  BY <1>1, DivisionUnique, SMT
<1> HIDE DEF q, r
<1>3. a - r = q * b /\ q * b \in Nat
  BY <1>1, SMT
<1>4. (a - r) % b = 0
  BY <1>2, <1>3, SMT
<1>5. QED
  BY <1>1, <1>3, <1>4, SMT DEF q, r

LEMMA Multiples ==
  ASSUME NEW x \in Nat, NEW b \in Nat \ {0}, x % b = 0
  PROVE  /\ (x + b) % b = 0
         /\ \A y \in Nat : y % b = 0 /\ x < y => x + b <= y
<1>1. x \div b \in Nat /\ x = b * (x \div b) + (x % b)
  BY Division
<1> DEFINE p == x \div b
<1>2. p \in Nat /\ x = p * b
  BY <1>1, SMT
<1> HIDE DEF p
<1>3. (x + b) % b = 0
  <2>1. ((p + 1) * b + 0) % b = 0
    BY <1>2, DivisionUnique, SMT
  <2>2. (p + 1) * b + 0 = x + b
    BY <1>2, SMT
  <2>3. QED
    BY <2>1, <2>2
<1>4. ASSUME NEW y \in Nat, y % b = 0, x < y
      PROVE  x + b <= y
  <2>1. y \div b \in Nat /\ y = b * (y \div b) + (y % b)
    BY Division
  <2> DEFINE q == y \div b
  <2>2. q \in Nat /\ y = q * b
    BY <1>4, <2>1, SMT
  <2> HIDE DEF q
  <2>3. p * b < b * q
    BY <1>2, <1>4, <2>2, SMT
  <2>4. p < q
    BY <1>2, <2>2, <2>3, QuotientBelow
  <2>5. q - p - 1 \in Nat
    BY <1>2, <2>2, <2>4, SMT
  <2>6. (q - p - 1) * b \in Nat /\ (q - p - 1) * b = q * b - p * b - b
    BY <1>2, <2>2, <2>5, SMT
  <2>7. QED
    BY <1>2, <2>2, <2>6, SMT
<1>5. QED
  BY <1>3, <1>4

LEMMA QuotientMonotone ==
  ASSUME NEW x \in Nat, NEW y \in Nat, NEW b \in Nat \ {0}, x <= y
  PROVE  x \div b <= y \div b
<1>1. /\ x \div b \in Nat /\ x = b * (x \div b) + (x % b) /\ x % b \in 0 .. b - 1
      /\ y \div b \in Nat /\ y = b * (y \div b) + (y % b) /\ y % b \in 0 .. b - 1
  BY Division
<1> DEFINE p == x \div b
           q == y \div b
<1> HIDE DEF p, q
<1>2. p \in Nat /\ q \in Nat /\ p * b <= x /\ y < q * b + b
  BY <1>1, SMT DEF p, q
<1>3. p * b < b * (q + 1)
  BY <1>2, SMT
<1>4. p < q + 1
  BY <1>2, <1>3, QuotientBelow
<1>5. QED
  BY <1>2, <1>4, SMT DEF p, q

(* What is not before the sector of x but not behind x lies in it. *)
LEMMA SameQuotient ==
  ASSUME NEW x \in Nat, NEW y \in Nat, NEW b \in Nat \ {0}, x - (x % b) <= y, y <= x
  PROVE  y \div b = x \div b
<1> DEFINE q == x \div b
           r == x % b
<1>1. q \in Nat /\ r \in 0 .. b - 1 /\ x = b * q + r
  BY Division
<1> HIDE DEF q, r
<1>2. y - q * b \in 0 .. b - 1
  BY <1>1, SMT DEF r
<1>3. (q * b + (y - q * b)) \div b = q
  BY <1>1, <1>2, DivisionUnique
<1>4. q * b + (y - q * b) = y
  BY <1>1, SMT
<1>5. QED
  BY <1>3, <1>4 DEF q

-----------------------------------------------------------------------------
(* The layout below 1 MB *)
LEMMA Layout ==
  /\ SECTSIZE \in Nat \ {0} /\ HdrSectors \in Nat \ {0} /\ HdrSectors * SECTSIZE \in Nat \ {0}
  /\ ELFHDR \in Nat /\ MB \in Nat /\ MemSize \in Nat /\ Start \in Nat
  /\ ELFHDR % SECTSIZE = 0 /\ MB % SECTSIZE = 0
  /\ Start + SECTSIZE <= ELFHDR
  /\ ELFHDR + HdrSectors * SECTSIZE <= MB
  /\ MB <= MemSize
<1>1. HdrSectors * SECTSIZE \in Nat \ {0}
  BY LayoutAssumption, SMT
<1>2. QED
  BY <1>1, LayoutAssumption

(* The first page ends at the end of a sector. *)
LEMMA HeaderEnds == (ELFHDR + HdrSectors * SECTSIZE) % SECTSIZE = 0
<1>1. ELFHDR \div SECTSIZE \in Nat /\ ELFHDR = SECTSIZE * (ELFHDR \div SECTSIZE) + (ELFHDR % SECTSIZE)
  BY Division, Layout
<1> DEFINE q == ELFHDR \div SECTSIZE
<1>2. q \in Nat /\ ELFHDR = q * SECTSIZE
  BY <1>1, Layout, SMT
<1> HIDE DEF q
<1>3. ELFHDR + HdrSectors * SECTSIZE = (q + HdrSectors) * SECTSIZE + 0 /\ q + HdrSectors \in Nat
  BY <1>2, Layout, SMT
<1>4. 0 \in 0 .. SECTSIZE - 1
  BY Layout, SMT
<1>5. ((q + HdrSectors) * SECTSIZE + 0) % SECTSIZE = 0
  BY <1>3, <1>4, DivisionUnique, Layout
<1>6. QED
  BY <1>3, <1>5

(* What the linker promises of segment k *)
LEMMA SegmentFacts ==
  ASSUME image \in Images, image.magic, NEW k \in 1 .. Len(image.segs)
  PROVE  /\ Segment(k).pa \in Nat /\ Segment(k).offset \in Nat
         /\ Segment(k).filesz \in Nat /\ Segment(k).memsz \in Nat
         /\ Segment(k).pa >= MB /\ Segment(k).filesz <= Segment(k).memsz
         /\ Segment(k).pa + Segment(k).memsz <= MemSize
         /\ Segment(k).pa % SECTSIZE = Segment(k).offset % SECTSIZE
         /\ MB > 0
<1>1. Linked(image.segs)
  BY ImagesAssumption
<1>2. Segment(k) \in Segments
  BY <1>1 DEF Linked, Segment
<1>3. /\ Segment(k).pa \in Nat /\ Segment(k).offset \in Nat
      /\ Segment(k).filesz \in Nat /\ Segment(k).memsz \in Nat
  BY <1>2 DEF Segments
<1>4. /\ Segment(k).pa >= MB /\ Segment(k).filesz <= Segment(k).memsz
      /\ Segment(k).pa % SECTSIZE = Segment(k).offset % SECTSIZE
      /\ SectorOf(Segment(k).pa + Segment(k).memsz - 1) < SectorOf(MemSize)
  BY <1>1 DEF Linked, Segment
<1>5. MB > 0
  BY Layout, SMT
<1> DEFINE top == Segment(k).pa + Segment(k).memsz - 1
<1>6. top \in Nat
  BY <1>3, <1>4, <1>5, Layout, SMT
<1>7. top < MemSize
  <2>1. SUFFICES ASSUME MemSize <= top PROVE FALSE
    BY <1>6, Layout, SMT
  <2>2. MemSize \div SECTSIZE <= top \div SECTSIZE
    BY <1>6, <2>1, QuotientMonotone, Layout
  <2>3. MemSize \div SECTSIZE \in Nat /\ top \div SECTSIZE \in Nat
    BY <1>6, Division, Layout
  <2> HIDE DEF top
  <2>4. top \div SECTSIZE < MemSize \div SECTSIZE
    BY <1>4 DEF SectorOf, top
  <2>5. QED
    BY <2>2, <2>3, <2>4, SMT
<1>8. QED
  BY <1>3, <1>4, <1>5, <1>7, Layout, SMT

(* Segments are read above 1 MB, from the beginning of a sector. *)
LEMMA FromFacts ==
  ASSUME image \in Images, image.magic, NEW k \in 1 .. Len(image.segs)
  PROVE  /\ From(k) \in Nat /\ From(k) % SECTSIZE = 0
         /\ MB <= From(k) /\ From(k) <= Segment(k).pa
         /\ \A s \in Int : s = (Segment(k).offset \div SECTSIZE) + 1
                          => (s - 1) * SECTSIZE = From(k) + Delta(k)
<1>1. k # 0 /\ Segment(k).pa \in Nat /\ Segment(k).offset \in Nat /\ Segment(k).pa >= MB
      /\ Segment(k).pa % SECTSIZE = Segment(k).offset % SECTSIZE
  BY SegmentFacts
<1> DEFINE a == Segment(k).pa
           o == Segment(k).offset
<1>2. /\ a - (a % SECTSIZE) \in Nat /\ a - (a % SECTSIZE) <= a /\ a < a - (a % SECTSIZE) + SECTSIZE
      /\ (a - (a % SECTSIZE)) % SECTSIZE = 0
  BY <1>1, RoundedDown, Layout
<1>3. (o \div SECTSIZE) * SECTSIZE = o - (o % SECTSIZE)
  BY <1>1, RoundedDown, Layout
<1>4. From(k) = a - (a % SECTSIZE) /\ Delta(k) = o - a
  BY <1>1 DEF From, Delta
<1>5. MB <= From(k)
  <2>1. SUFFICES ASSUME From(k) < MB PROVE FALSE
    BY <1>2, <1>4, Layout, SMT
  <2>2. From(k) + SECTSIZE <= MB
    BY <1>2, <1>4, <2>1, Multiples, Layout
  <2>3. a < From(k) + SECTSIZE /\ a \in Nat /\ a >= MB /\ From(k) \in Nat
    BY <1>1, <1>2, <1>4
  <2> HIDE DEF a
  <2>4. QED
    BY <2>2, <2>3, Layout, SMT
<1>6. ASSUME NEW s \in Int, s = (o \div SECTSIZE) + 1
      PROVE  (s - 1) * SECTSIZE = From(k) + Delta(k)
  <2>1. o \div SECTSIZE \in Int /\ a % SECTSIZE \in Int /\ o % SECTSIZE = a % SECTSIZE /\ a \in Int /\ o \in Int
    <3>1. o \div SECTSIZE \in Nat /\ a % SECTSIZE \in 0 .. SECTSIZE - 1
      BY <1>1, Division, Layout
    <3>2. QED
      BY <1>1, <3>1, Layout, SMT
  <2>2. s - 1 = o \div SECTSIZE
    BY <1>6, <2>1, SMT
  <2> HIDE DEF a, o
  <2>3. (s - 1) * SECTSIZE = o - (a % SECTSIZE)
    BY <1>3, <2>1, <2>2
  <2>4. QED
    BY <1>4, <2>1, <2>3, SMT
<1>7. QED
  BY <1>2, <1>4, <1>5, <1>6

(* Order and shared sectors carry over to the next segment. *)
LEMMA BeforeNext ==
  ASSUME image \in Images, image.magic, NEW p \in 1 .. Len(image.segs), NEW n \in 1 .. Len(image.segs), n = p + 1
  PROVE  /\ Before(p, n)
         /\ \A j \in 1 .. p - 1 : Before(j, p) => Before(j, n)
<1>1. /\ Segment(p).pa \in Nat /\ Segment(p).memsz \in Nat /\ Segment(p).offset \in Nat
      /\ Segment(n).pa \in Nat /\ Segment(n).offset \in Nat
      /\ Segment(p).pa >= MB /\ MB > 0
  BY SegmentFacts
<1>2. Before(p, n)
  <2>1. p \in 1 .. Len(image.segs) - 1 /\ p # 0 /\ n # 0
    BY SMT
  <2>2. Linked(image.segs)
    BY ImagesAssumption
  <2>3. /\ Top(p) <= Segment(n).pa
        /\ SectorOf(Top(p) - 1) = SectorOf(Segment(n).pa)
             => Segment(n).pa - Segment(p).pa = Segment(n).offset - Segment(p).offset
    BY <2>1, <2>2 DEF Linked, Segment, Top
  <2>4. Delta(p) = Segment(p).offset - Segment(p).pa /\ Delta(n) = Segment(n).offset - Segment(n).pa
    BY <2>1 DEF Delta
  <2>5. SectorOf(Top(p) - 1) = SectorOf(Segment(n).pa) => Delta(p) = Delta(n)
    BY <1>1, <2>3, <2>4, SMT
  <2>6. QED
    BY <2>3, <2>5, Zenon DEF Before
<1>3. ASSUME NEW j \in 1 .. p - 1, Before(j, p)
      PROVE  Before(j, n)
  <2>1. Segment(j).pa \in Nat /\ Segment(j).memsz \in Nat /\ Segment(j).pa >= MB
    <3>1. j \in 1 .. Len(image.segs)
      BY SMT
    <3>2. QED
      BY <3>1, SegmentFacts
  <2> DEFINE u == Top(j) - 1
             v == Segment(p).pa
             w == Top(p) - 1
             x == Segment(n).pa
  <2>0. Top(j) <= Segment(p).pa /\ Top(p) <= Segment(n).pa
    BY <1>2, <1>3, Zenon DEF Before
  <2>2. u \in Nat /\ v \in Nat /\ w \in Nat /\ x \in Nat /\ u <= v /\ v <= x /\ u <= w /\ w <= x /\ Top(j) <= x
    <3>1. Top(j) = Segment(j).pa + Segment(j).memsz /\ Top(p) = Segment(p).pa + Segment(p).memsz
      BY DEF Top
    <3>2. MB \in Nat
      BY Layout
    <3>3. /\ Segment(j).pa \in Int /\ Segment(j).memsz \in Int /\ Segment(p).pa \in Int
          /\ Segment(p).memsz \in Int /\ Segment(n).pa \in Int
          /\ Segment(j).pa > 0 /\ Segment(p).pa > 0 /\ Segment(j).memsz >= 0 /\ Segment(p).memsz >= 0
      BY <1>1, <2>1, <3>2, SMT
    <3>4. /\ Top(j) \in Int /\ Top(j) > 0 /\ Top(p) \in Int /\ Segment(p).pa <= Top(p)
      BY <3>1, <3>3, SMT
    <3>5. /\ Top(j) - 1 \in Nat /\ Top(p) - 1 \in Nat /\ Top(j) - 1 <= Top(p) - 1
          /\ Segment(p).pa <= Segment(n).pa /\ Top(j) <= Segment(n).pa
      BY <2>0, <3>3, <3>4, SMTT(30)
    <3>6. Top(j) - 1 <= Segment(p).pa /\ Top(p) - 1 <= Segment(n).pa
      BY <2>0, <3>3, <3>4, SMTT(30)
    <3>7. QED
      BY <1>1, <3>5, <3>6
  <2>3. /\ SectorOf(u) \in Int /\ SectorOf(v) \in Int /\ SectorOf(w) \in Int /\ SectorOf(x) \in Int
        /\ SectorOf(u) <= SectorOf(v) /\ SectorOf(v) <= SectorOf(x)
        /\ SectorOf(u) <= SectorOf(w) /\ SectorOf(w) <= SectorOf(x)
    <3> HIDE DEF u, v, w, x
    <3>1. /\ u \div SECTSIZE \in Nat /\ v \div SECTSIZE \in Nat
          /\ w \div SECTSIZE \in Nat /\ x \div SECTSIZE \in Nat
      BY <2>2, Division, Layout
    <3>2. /\ u \div SECTSIZE <= v \div SECTSIZE /\ v \div SECTSIZE <= x \div SECTSIZE
          /\ u \div SECTSIZE <= w \div SECTSIZE /\ w \div SECTSIZE <= x \div SECTSIZE
      BY <2>2, QuotientMonotone, Layout
    <3>3. QED
      BY <3>1, <3>2, Layout, SMT DEF SectorOf
  <2>4. SectorOf(u) = SectorOf(x) => Delta(j) = Delta(n)
    <3> SUFFICES ASSUME SectorOf(u) = SectorOf(x) PROVE Delta(j) = Delta(n)
      OBVIOUS
    <3>1. SectorOf(u) = SectorOf(v) /\ SectorOf(w) = SectorOf(x)
      <4> HIDE DEF u, v, w, x
      <4>1. QED
        BY <2>3, SMT
    <3>2. QED
      BY <3>1, <1>2, <1>3, Zenon DEF Before
  <2>5. QED
    BY <2>2, <2>4, Zenon DEF Before
<1>4. QED
  BY <1>2, <1>3

-----------------------------------------------------------------------------
LEMMA InitBInv == BootInit => BInv
<1> SUFFICES ASSUME BootInit PROVE BInv
  OBVIOUS
<1>1. pc = "seta20.1" /\ ph = 0 /\ image \in Images
  BY DEF BootInit
<1>2. mem \in [Phys -> Int]
  BY DEF BootInit, Loader, Junk
<1>3. Waited
  BY DEF BootInit, Waited, BootCode, Reading
<1>4. Asked
  BY DEF BootInit, Asked
<1>5. LoaderIntact
  <2>1. \A a \in Start .. Start + SECTSIZE - 1 : a \in Phys
    BY Layout, SMT DEF Phys
  <2>2. \A a \in Start .. Start + SECTSIZE - 1 : mem[a] = Loader
    BY <2>1 DEF BootInit
  <2>3. QED
    BY <1>1, <2>2 DEF LoaderIntact
<1>6. QED
  BY <1>1, <1>2, <1>3, <1>4, <1>5
     DEF BInv, Progress, ReadSoFar, Earlier, ImageInPlace, BootCode, Reading

-----------------------------------------------------------------------------
(* The devices *)
LEMMA DevicesBInv == BInv /\ (KbcTakes \/ DiskReady) => BInv'
<1> SUFFICES ASSUME BInv, KbcTakes \/ DiskReady PROVE BInv'
  OBVIOUS
<1>1. UNCHANGED <<image, mem, pc, ph, pa, end_pa, offset>>
  BY DEF KbcTakes, DiskReady
<1>2. Waited'
  <2>1. CASE KbcTakes
    BY <2>1, <1>1 DEF KbcTakes, BInv, Waited, A20On, BootCode, Reading
  <2>2. CASE DiskReady
    BY <2>2, <1>1 DEF DiskReady, BInv, Waited, A20On, BootCode, Reading
  <2>3. QED
    BY <2>1, <2>2
<1>3. Asked'
  <2>1. CASE KbcTakes
    BY <2>1, <1>1 DEF KbcTakes, BInv, Asked
  <2>2. CASE DiskReady
    BY <2>2, <1>1 DEF DiskReady, BInv, Asked
  <2>3. QED
    BY <2>1, <2>2
<1>4. \A k : Segment(k)' = Segment(k) /\ From(k)' = From(k) /\ To(k)' = To(k) /\ Delta(k)' = Delta(k)
  BY <1>1 DEF Segment, From, To, Top, Delta
<1>5. QED
  BY <1>1, <1>2, <1>3, <1>4
     DEF BInv, Progress, ReadSoFar, Earlier, Before, Top, InPlace, LoaderIntact, Loading, ImageInPlace, Segment

-----------------------------------------------------------------------------
(* boot.S, up to the call of bootmain *)
LEMMA Boots1 == BInv /\ (Seta20_1 \/ Seta20_2) => BInv'
<1> SUFFICES ASSUME BInv, Seta20_1 \/ Seta20_2 PROVE BInv'
  OBVIOUS
<1>1. /\ UNCHANGED <<image, mem, disk, ph, pa, end_pa, offset, kbcData, a20>>
      /\ pc \in {"seta20.1", "seta20.2"} /\ pc' \in {"seta20.2", "protected"}
  BY DEF Seta20_1, Seta20_2
<1>2. Waited'
  BY <1>1 DEF Seta20_1, Seta20_2, BInv, Waited, A20On, BootCode, Reading
<1>3. QED
  BY <1>1, <1>2 DEF BInv, Asked, Progress, ReadSoFar, Earlier, LoaderIntact, Loading, ImageInPlace,
                    BootCode, Reading

LEMMA Boots2 == BInv /\ ProtectedMode => BInv'
<1> SUFFICES ASSUME BInv, ProtectedMode PROVE BInv'
  OBVIOUS
<1>1. /\ UNCHANGED <<image, mem, disk, kbc, kbcData, a20, ph>>
      /\ pc = "protected" /\ pc' = "readseg" /\ ph = 0
      /\ pa' = ELFHDR - (ELFHDR % SECTSIZE) /\ end_pa' = ELFHDR + HdrSectors * SECTSIZE
      /\ offset' = (0 \div SECTSIZE) + 1
  BY DEF ProtectedMode, Readseg, devices, BInv, Progress, BootCode
<1>2. pa' = ELFHDR /\ offset' = 1 /\ end_pa' = To(0)
  <2>1. 0 \in 0 .. SECTSIZE - 1
    BY Layout, SMT
  <2>2. 0 \div SECTSIZE = 0
    BY <2>1, SmallRemainder, Layout
  <2>3. QED
    BY <1>1, <2>2, Layout, SMT DEF To
<1>3. Waited'
  BY <1>1, <1>2, Layout, SMT DEF BInv, Waited, A20On, BootCode, Reading
<1>4. Progress'
  <2>1. (offset' - 1) * SECTSIZE = pa' + Delta(0)
    BY <1>2, Layout, SMT DEF Delta
  <2>2. ELFHDR <= ELFHDR + HdrSectors * SECTSIZE
    BY Layout, SMT
  <2>3. From(0)' = ELFHDR /\ To(0)' = ELFHDR + HdrSectors * SECTSIZE /\ Delta(0)' = Delta(0)
    BY DEF From, To, Delta
  <2>4. ph' = 0
    BY <1>1
  <2>5. QED
    BY <1>1, <1>2, <2>1, <2>2, <2>3, <2>4, Layout DEF Progress, BootCode, Reading, To
<1>5. ReadSoFar'
  BY <1>1, <1>2, Layout, SMT DEF ReadSoFar, From, Phys
<1>6. Earlier'
  <2>1. 1 .. ph' - 1 = {}
    BY <1>1, SMT
  <2>2. QED
    BY <2>1 DEF Earlier
<1>7. LoaderIntact'
  BY <1>1 DEF BInv, LoaderIntact, Loading
<1>8. QED
  BY <1>1, <1>3, <1>4, <1>5, <1>6, <1>7 DEF BInv, Asked, ImageInPlace, BootCode, Reading

-----------------------------------------------------------------------------
(* readseg and readsect *)
LEMMA CommandBInv == BInv /\ Command => BInv'
<1> SUFFICES ASSUME BInv, Command PROVE BInv'
  OBVIOUS
<1>1. /\ UNCHANGED <<image, mem, kbc, kbcData, a20, ph, pa, end_pa, offset>>
      /\ pc = "readseg" /\ pc' = "readsect" /\ pa < end_pa
      /\ disk' = [disk EXCEPT !.busy = TRUE, !.lba = offset]
  BY DEF Command
<1>2. disk \in [busy : BOOLEAN, lba : Int, data : Int] /\ offset \in Int
  BY <1>1 DEF BInv, Asked, Progress, Reading
<1>3. Asked' /\ disk'.busy
  BY <1>1, <1>2 DEF Asked
<1>4. Waited'
  BY <1>1, <1>3 DEF BInv, Waited, A20On, BootCode, Reading
<1>5. \A k : Segment(k)' = Segment(k) /\ From(k)' = From(k) /\ To(k)' = To(k) /\ Delta(k)' = Delta(k)
  BY <1>1 DEF Segment, From, To, Top, Delta
<1>6. Progress'
  BY <1>1, <1>5 DEF BInv, Progress, BootCode, Reading
<1>7. ReadSoFar' /\ Earlier'
  BY <1>1, <1>5 DEF BInv, ReadSoFar, Earlier, Before, Top, InPlace, Reading
<1>8. LoaderIntact'
  BY <1>1 DEF BInv, LoaderIntact, Loading
<1>9. QED
  BY <1>1, <1>3, <1>4, <1>6, <1>7, <1>8 DEF BInv, ImageInPlace, BootCode, Reading

(* With line 20 on, insl fills one sector's worth of memory and no more. *)
LEMMA InslEffect ==
  ASSUME A20On, NEW dst \in Nat
  PROVE  Insl(dst) = [a \in Phys |-> IF dst <= a /\ a < dst + SECTSIZE
                                       THEN SectorUnit(disk.data, a - dst) ELSE mem[a]]
<1>1. \A x : Selected(x) = x
  BY DEF A20On, Selected
<1>2. ASSUME NEW a \in Phys
      PROVE  (\E k \in 0 .. SECTSIZE - 1 : a = Selected(dst + k)) <=> dst <= a /\ a < dst + SECTSIZE
  <2>1. a \in Int
    BY DEF Phys
  <2>2. CASE dst <= a /\ a < dst + SECTSIZE
    <3>1. a - dst \in 0 .. SECTSIZE - 1 /\ a = dst + (a - dst)
      BY <2>1, <2>2, Layout, SMT
    <3>2. QED
      BY <2>2, <3>1, <1>1
  <2>3. CASE ~(dst <= a /\ a < dst + SECTSIZE)
    <3>1. \A k \in 0 .. SECTSIZE - 1 : a # dst + k
      BY <2>1, <2>3, Layout, SMT
    <3>2. QED
      BY <2>3, <3>1, <1>1
  <2>4. QED
    BY <2>2, <2>3
<1>3. ASSUME NEW a \in Phys, dst <= a, a < dst + SECTSIZE
      PROVE  (CHOOSE k \in 0 .. SECTSIZE - 1 : a = Selected(dst + k)) = a - dst
  <2>1. a - dst \in 0 .. SECTSIZE - 1 /\ a = dst + (a - dst)
    BY <1>3, Layout, SMT DEF Phys
  <2>2. \A k \in 0 .. SECTSIZE - 1 : a = dst + k => k = a - dst
    BY <1>3, Layout, SMT DEF Phys
  <2>3. \A k \in 0 .. SECTSIZE - 1 : a = Selected(dst + k) <=> a = dst + k
    BY <1>1
  <2>4. \E k \in 0 .. SECTSIZE - 1 : a = Selected(dst + k)
    BY <2>1, <2>3
  <2> DEFINE c == CHOOSE k \in 0 .. SECTSIZE - 1 : a = Selected(dst + k)
  <2>5. c \in 0 .. SECTSIZE - 1 /\ a = Selected(dst + c)
    BY <2>4
  <2> HIDE DEF c
  <2>6. c = a - dst
    BY <2>2, <2>3, <2>5
  <2>7. QED
    BY <2>6 DEF c
<1>4. QED
  BY <1>2, <1>3 DEF Insl

(* One sector: it lies above the loader, and from 1 MB on unless it is of the header. *)
LEMMA TransferEffect ==
  ASSUME BInv, Transfer
  PROVE  /\ pa' = pa + SECTSIZE /\ offset' = offset + 1 /\ pa \in Nat
         /\ \A a \in Phys : mem'[a] = IF pa <= a /\ a < pa + SECTSIZE THEN a + Delta(ph) ELSE mem[a]
         /\ mem' \in [Phys -> Int]
         /\ ELFHDR <= pa /\ (ph > 0 => MB <= pa)
         /\ A20On /\ Delta(ph) \in Int
<1>1. /\ pc = "readsect" /\ ~disk.busy /\ mem' = Insl(pa)
      /\ pa' = pa + SECTSIZE /\ offset' = offset + 1
  BY DEF Transfer
<1>2. A20On
  BY <1>1 DEF BInv, Waited
<1>3. /\ ph = 0 \/ (image.magic /\ ph \in 1 .. Len(image.segs))
      /\ pa \in Nat /\ From(ph) <= pa /\ offset \in Int
      /\ (offset - 1) * SECTSIZE = pa + Delta(ph)
      /\ disk.data = offset
  BY <1>1 DEF BInv, Progress, Asked, Reading
<1>4. ELFHDR <= pa /\ (ph > 0 => MB <= pa) /\ Delta(ph) \in Int
  <2>1. CASE ph = 0
    BY <2>1, <1>3, Layout, SMT DEF From, Delta
  <2>2. CASE image.magic /\ ph \in 1 .. Len(image.segs)
    <3>1. MB <= From(ph) /\ From(ph) \in Nat /\ Segment(ph).pa \in Nat /\ Segment(ph).offset \in Nat
      BY <2>2, FromFacts, SegmentFacts DEF BInv
    <3>2. ELFHDR <= MB /\ MB \in Nat /\ ELFHDR \in Nat
      BY Layout, SMT
    <3>3. Delta(ph) = Segment(ph).offset - Segment(ph).pa
      BY <2>2, SMT DEF Delta
    <3>4. QED
      BY <1>3, <3>1, <3>2, <3>3, SMT
  <2>3. QED
    BY <1>3, <2>1, <2>2
<1>5. ASSUME NEW a \in Phys
      PROVE  mem'[a] = IF pa <= a /\ a < pa + SECTSIZE THEN a + Delta(ph) ELSE mem[a]
  <2>1. SectorUnit(disk.data, a - pa) = (offset - 1) * SECTSIZE + (a - pa)
    BY <1>3 DEF SectorUnit
  <2>2. SectorUnit(disk.data, a - pa) = a + Delta(ph)
    <3>1. a \in Int
      BY DEF Phys
    <3>2. SectorUnit(disk.data, a - pa) = (pa + Delta(ph)) + (a - pa)
      BY <2>1, <1>3
    <3>3. QED
      BY <3>1, <3>2, <1>3, <1>4, SMT
  <2>3. QED
    BY <1>1, <1>2, <1>3, <2>2, InslEffect
<1>6. mem' \in [Phys -> Int]
  <2>1. mem' = [a \in Phys |-> mem'[a]]
    BY <1>1 DEF Insl
  <2>2. \A a \in Phys : mem'[a] \in Int
    BY <1>4, <1>5 DEF BInv, Phys
  <2>3. QED
    BY <2>1, <2>2
<1>7. QED
  BY <1>1, <1>2, <1>3, <1>4, <1>5, <1>6

(* A segment that has been read before keeps its place, shared sectors included. *)
LEMMA EarlierStays ==
  ASSUME BInv, Transfer, NEW j \in 1 .. ph - 1
  PROVE  InPlace(Segment(j))'
<1>1. /\ pa' = pa + SECTSIZE /\ pa \in Nat /\ Delta(ph) \in Int
      /\ \A a \in Phys : mem'[a] = IF pa <= a /\ a < pa + SECTSIZE THEN a + Delta(ph) ELSE mem[a]
  BY TransferEffect
<1>2. /\ pc = "readsect" /\ image' = image
  BY DEF Transfer
<1>3. /\ image \in Images /\ InPlace(Segment(j)) /\ Before(j, ph) /\ From(ph) <= pa
      /\ (ph = 0 \/ (image.magic /\ ph \in 1 .. Len(image.segs)))
  BY <1>2 DEF BInv, Earlier, Progress, Reading
<1>4. /\ image.magic /\ ph \in 1 .. Len(image.segs) /\ ph # 0 /\ j \in 1 .. Len(image.segs) /\ j # 0
  <2>1. ph # 0
    BY SMT
  <2>2. QED
    BY <1>3, <2>1, SMT
<1>5. /\ Segment(j).pa \in Nat /\ Segment(j).offset \in Nat /\ Segment(j).filesz \in Nat
      /\ Segment(j).memsz \in Nat /\ Segment(j).filesz <= Segment(j).memsz
      /\ Segment(j).pa + Segment(j).memsz <= MemSize
      /\ Segment(ph).pa \in Nat
  BY <1>3, <1>4, SegmentFacts
<1>6. SUFFICES ASSUME NEW k \in 0 .. Segment(j).filesz - 1
               PROVE  mem'[Segment(j).pa + k] = Segment(j).offset + k
  BY <1>2 DEF InPlace, Segment
<1> DEFINE a == Segment(j).pa + k
<1>7. a \in Nat /\ a < Segment(j).pa + Segment(j).memsz /\ k \in Nat
  BY <1>5, SMT
<1>8. a \in Phys /\ mem[a] = Segment(j).offset + k
  <2>1. a \in Phys
    BY <1>5, <1>7, Layout, SMT DEF Phys
  <2>2. QED
    BY <1>3, <2>1 DEF InPlace
<1>9. CASE ~(pa <= a /\ a < pa + SECTSIZE)
  BY <1>1, <1>8, <1>9
<1>10. CASE pa <= a /\ a < pa + SECTSIZE
  <2> DEFINE last == Top(j) - 1
             first == Segment(ph).pa
  <2>1. Top(j) = Segment(j).pa + Segment(j).memsz
    BY DEF Top
  <2>2. last \in Nat /\ a <= last
    BY <1>5, <1>7, <2>1, SMT
  <2>3. Top(j) <= first
    BY <1>3 DEF Before
  <2>4. last <= first /\ first \in Nat
    BY <1>5, <2>1, <2>3, SMT
  <2>5. From(ph) = first - (first % SECTSIZE)
    BY <1>4 DEF From
  <2>6. first - (first % SECTSIZE) \in Nat
    BY <1>5, RoundedDown, Layout
  <2> HIDE DEF last, first, a
  <2>7. first - (first % SECTSIZE) <= last
    BY <1>1, <1>3, <1>7, <1>10, <2>2, <2>5, <2>6, SMT
  <2>8. last \div SECTSIZE = first \div SECTSIZE
    BY <2>2, <2>4, <2>7, SameQuotient, Layout
  <2>9. Delta(j) = Delta(ph)
    BY <1>3, <2>8 DEF Before, SectorOf, last, first
  <2>10. Delta(j) = Segment(j).offset - Segment(j).pa
    BY <1>4 DEF Delta
  <2>11. mem'[a] = a + (Segment(j).offset - Segment(j).pa)
    BY <1>1, <1>8, <1>10, <2>9, <2>10 DEF a
  <2>12. QED
    BY <2>11, <1>5, <1>7, SMT DEF a
<1>11. QED
  BY <1>9, <1>10

LEMMA TransferBInv == BInv /\ Transfer => BInv'
<1> SUFFICES ASSUME BInv, Transfer PROVE BInv'
  OBVIOUS
<1>1. /\ pa' = pa + SECTSIZE /\ offset' = offset + 1 /\ pa \in Nat
      /\ \A a \in Phys : mem'[a] = IF pa <= a /\ a < pa + SECTSIZE THEN a + Delta(ph) ELSE mem[a]
      /\ mem' \in [Phys -> Int]
      /\ ELFHDR <= pa /\ (ph > 0 => MB <= pa)
      /\ A20On /\ Delta(ph) \in Int
  BY TransferEffect
<1>2. /\ pc = "readsect" /\ pc' = "readseg" /\ ~disk.busy
      /\ UNCHANGED <<image, kbc, kbcData, a20, disk, ph, end_pa>>
  BY DEF Transfer, devices
<1>3. /\ ph = 0 \/ (image.magic /\ ph \in 1 .. Len(image.segs))
      /\ end_pa = To(ph) /\ pa % SECTSIZE = 0 /\ From(ph) <= pa
      /\ offset \in Int /\ (offset - 1) * SECTSIZE = pa + Delta(ph)
      /\ pa < end_pa
  BY <1>2 DEF BInv, Progress, Reading
<1>4. \A k : Segment(k)' = Segment(k) /\ From(k)' = From(k) /\ To(k)' = To(k) /\ Delta(k)' = Delta(k)
  BY <1>2 DEF Segment, From, To, Top, Delta
<1>5. Waited'
  BY <1>1, <1>2 DEF Waited, A20On, BootCode, Reading
<1>6. From(ph) \in Nat
  <2>1. CASE ph = 0
    BY <2>1, Layout DEF From
  <2>2. CASE image.magic /\ ph \in 1 .. Len(image.segs)
    BY <2>2, FromFacts DEF BInv
  <2>3. QED
    BY <1>3, <2>1, <2>2
<1>7. Progress'
  <2>1. pa' \in Nat /\ pa' % SECTSIZE = 0 /\ From(ph) <= pa'
    <3>1. pa' % SECTSIZE = 0
      BY <1>1, <1>3, Multiples, Layout
    <3>2. QED
      BY <1>1, <1>3, <1>6, <3>1, Layout, SMT
  <2>2. offset' \in Int /\ (offset' - 1) * SECTSIZE = pa' + Delta(ph)
    <3>1. (offset' - 1) * SECTSIZE = (offset - 1) * SECTSIZE + SECTSIZE
      BY <1>1, <1>3, Layout, SMT
    <3>2. QED
      BY <1>1, <1>3, <3>1, Layout, SMT
  <2>3. ph = 0 => pa' <= end_pa
    <3> SUFFICES ASSUME ph = 0 PROVE pa + SECTSIZE <= end_pa
      BY <1>1
    <3>1. end_pa = ELFHDR + HdrSectors * SECTSIZE
      BY <1>3 DEF To
    <3>2. end_pa \in Nat /\ end_pa % SECTSIZE = 0
      BY <3>1, HeaderEnds, Layout, SMT
    <3>3. QED
      BY <1>1, <1>3, <3>2, Multiples, Layout
  <2>4. QED
    BY <1>2, <1>3, <1>4, <2>1, <2>2, <2>3 DEF Progress, BootCode, Reading
<1>8. ReadSoFar'
  <2> SUFFICES ASSUME NEW a \in Phys, From(ph) <= a, a < pa'
               PROVE  mem'[a] = a + Delta(ph)
    BY <1>2, <1>4 DEF ReadSoFar, Phys
  <2>1. CASE a < pa
    <3>1. mem[a] = a + Delta(ph)
      BY <1>2, <2>1 DEF BInv, ReadSoFar, Reading
    <3>2. ~(pa <= a)
      BY <1>1, <2>1, SMT DEF Phys
    <3>3. QED
      BY <1>1, <3>1, <3>2
  <2>2. CASE ~(a < pa)
    <3>1. pa <= a /\ a < pa + SECTSIZE
      BY <1>1, <2>2, Layout, SMT DEF Phys
    <3>2. QED
      BY <1>1, <3>1
  <2>3. QED
    BY <2>1, <2>2
<1>9. Earlier'
  <2>1. ASSUME NEW j \in 1 .. ph - 1
        PROVE  InPlace(Segment(j))' /\ Before(j, ph)'
    <3>1. Before(j, ph)
      BY <1>2 DEF BInv, Earlier, Reading
    <3>2. Before(j, ph)'
      BY <1>2, <1>4, <3>1 DEF Before, Top
    <3>3. QED
      BY <3>2, EarlierStays
  <2>2. \A j \in 1 .. ph - 1 : InPlace(Segment(j))' /\ Before(j, ph)'
    BY <2>1
  <2>3. QED
    BY <1>2, <2>2 DEF Earlier
<1>10. LoaderIntact'
  <2>1. ASSUME NEW a \in Start .. Start + SECTSIZE - 1
        PROVE  mem'[a] = Loader
    <3>1. a \in Phys /\ ~(pa <= a)
      BY <1>1, Layout, SMT DEF Phys
    <3>2. mem[a] = Loader
      BY <1>2 DEF BInv, LoaderIntact, Loading
    <3>3. QED
      BY <1>1, <3>1, <3>2
  <2>2. ASSUME ph > 0, NEW k \in 0 .. HdrSectors * SECTSIZE - 1
        PROVE  mem'[ELFHDR + k] = k
    <3>1. MB <= pa
      BY <1>1, <2>2
    <3>2. ELFHDR + k \in Phys /\ ~(pa <= ELFHDR + k)
      BY <1>1, <3>1, Layout, SMT DEF Phys
    <3>3. mem[ELFHDR + k] = k
      BY <1>2, <2>2 DEF BInv, LoaderIntact, Loading
    <3>4. QED
      BY <1>1, <3>2, <3>3
  <2>3. QED
    BY <1>2, <2>1, <2>2 DEF LoaderIntact
<1>11. QED
  BY <1>1, <1>2, <1>5, <1>7, <1>8, <1>9, <1>10 DEF BInv, Asked, ImageInPlace, BootCode, Reading

-----------------------------------------------------------------------------
(* bootmain: when readseg returns, what it was to read is in place. *)
LEMMA SegmentRead ==
  ASSUME BInv, pc = "readseg", pa >= end_pa
  PROVE  /\ A20On
         /\ ph = 0 => \A k \in 0 .. HdrSectors * SECTSIZE - 1 : mem[ELFHDR + k] = k
         /\ ph # 0 => InPlace(Segment(ph))
<1>1. /\ ph = 0 \/ (image.magic /\ ph \in 1 .. Len(image.segs))
      /\ end_pa = To(ph) /\ pa \in Nat /\ From(ph) <= pa /\ image \in Images
      /\ \A a \in Phys : From(ph) <= a /\ a < pa => mem[a] = a + Delta(ph)
  BY DEF BInv, Progress, ReadSoFar, Reading
<1>2. CASE ph = 0
  <2>1. end_pa = ELFHDR + HdrSectors * SECTSIZE /\ From(ph) = ELFHDR /\ Delta(ph) = -ELFHDR
    BY <1>1, <1>2 DEF To, From, Delta
  <2>2. pa > ELFHDR
    BY <1>1, <2>1, Layout, SMT
  <2>3. A20On
    BY <2>2 DEF BInv, Waited, Reading
  <2>4. ASSUME NEW k \in 0 .. HdrSectors * SECTSIZE - 1
        PROVE  mem[ELFHDR + k] = k
    <3>1. ELFHDR + k \in Phys /\ ELFHDR <= ELFHDR + k /\ ELFHDR + k < pa
      BY <1>1, <2>1, Layout, SMT DEF Phys
    <3>2. mem[ELFHDR + k] = (ELFHDR + k) + (-ELFHDR)
      BY <1>1, <2>1, <3>1
    <3>3. QED
      BY <3>2, Layout, SMT
  <2>5. QED
    BY <1>2, <2>3, <2>4
<1>3. CASE ph # 0
  <2>1. image.magic /\ ph \in 1 .. Len(image.segs) /\ ph > 0
    BY <1>1, <1>3, SMT
  <2>2. A20On
    BY <2>1 DEF BInv, Waited, Reading
  <2>3. /\ Segment(ph).pa \in Nat /\ Segment(ph).offset \in Nat /\ Segment(ph).filesz \in Nat
        /\ Segment(ph).memsz \in Nat /\ Segment(ph).filesz <= Segment(ph).memsz
        /\ Segment(ph).pa + Segment(ph).memsz <= MemSize
        /\ From(ph) \in Nat /\ From(ph) <= Segment(ph).pa
    BY <1>1, <2>1, SegmentFacts, FromFacts
  <2>4. end_pa = Segment(ph).pa + Segment(ph).memsz /\ Delta(ph) = Segment(ph).offset - Segment(ph).pa
    BY <1>1, <1>3 DEF To, Top, Delta
  <2>5. ASSUME NEW k \in 0 .. Segment(ph).filesz - 1
        PROVE  mem[Segment(ph).pa + k] = Segment(ph).offset + k
    <3>1. /\ Segment(ph).pa + k \in Phys /\ From(ph) <= Segment(ph).pa + k
          /\ Segment(ph).pa + k < pa
      <4>1. MemSize \in Nat /\ pa \in Nat /\ Segment(ph).pa + Segment(ph).memsz <= pa
        BY <1>1, <2>4, Layout
      <4>2. QED
        BY <2>3, <4>1, SMT DEF Phys
    <3>2. mem[Segment(ph).pa + k] = (Segment(ph).pa + k) + (Segment(ph).offset - Segment(ph).pa)
      BY <1>1, <2>4, <3>1
    <3>3. QED
      BY <2>3, <3>2, SMT
  <2>6. QED
    BY <1>3, <2>2, <2>5 DEF InPlace
<1>4. QED
  BY <1>2, <1>3

LEMMA CheckMagicBInv == BInv /\ CheckMagic => BInv'
<1> SUFFICES ASSUME BInv, CheckMagic PROVE BInv'
  OBVIOUS
<1>1. /\ pc = "readseg" /\ pa >= end_pa /\ pc' = "bad"
      /\ UNCHANGED <<image, kbc, kbcData, a20, disk, mem, ph>>
  BY DEF CheckMagic, devices
<1>2. A20On
  BY <1>1, SegmentRead
<1>3. QED
  BY <1>1, <1>2 DEF BInv, Waited, A20On, Asked, Progress, ReadSoFar, Earlier, LoaderIntact, Loading,
                    ImageInPlace, BootCode, Reading

LEMMA EnterKernelBInv == BInv /\ EnterKernel => BInv'
<1> SUFFICES ASSUME BInv, EnterKernel PROVE BInv'
  OBVIOUS
<1>1. /\ pc = "readseg" /\ pa >= end_pa /\ pc' = "entry" /\ image.magic /\ ph = Len(image.segs)
      /\ UNCHANGED <<image, kbc, kbcData, a20, disk, mem, ph>>
  BY DEF EnterKernel, devices
<1>2. A20On /\ (ph # 0 => InPlace(Segment(ph)))
  BY <1>1, SegmentRead
<1>3. ImageInPlace'
  <2>1. ASSUME NEW k \in 1 .. Len(image.segs)
        PROVE  InPlace(Segment(k))
    <3>1. CASE k = ph
      BY <1>2, <3>1, SMT
    <3>2. CASE k # ph
      <4>1. k \in 1 .. ph - 1
        <5>1. Len(image.segs) \in Nat
          BY <1>1, ImagesAssumption DEF BInv, Linked
        <5>2. QED
          BY <1>1, <3>2, <5>1, SMT
      <4>2. QED
        BY <1>1, <4>1 DEF BInv, Earlier, Reading
    <3>3. QED
      BY <3>1, <3>2
  <2>2. QED
    BY <1>1, <2>1 DEF ImageInPlace, InPlace, Segment
<1>4. QED
  BY <1>1, <1>2, <1>3 DEF BInv, Waited, A20On, Asked, Progress, ReadSoFar, Earlier, LoaderIntact, Loading,
                    BootCode, Reading

LEMMA NextSegmentBInv == BInv /\ NextSegment => BInv'
<1> SUFFICES ASSUME BInv, NextSegment PROVE BInv'
  OBVIOUS
<1> DEFINE n == ph + 1
<1>1. /\ pc = "readseg" /\ pa >= end_pa /\ pc' = "readseg" /\ image.magic /\ ph < Len(image.segs)
      /\ ph' = n /\ UNCHANGED <<image, kbc, kbcData, a20, disk, mem>>
      /\ pa' = Segment(n).pa - (Segment(n).pa % SECTSIZE)
      /\ end_pa' = Segment(n).pa + Segment(n).memsz
      /\ offset' = (Segment(n).offset \div SECTSIZE) + 1
  BY DEF NextSegment, Readseg, devices, Segment
<1>2. /\ A20On /\ (ph # 0 => InPlace(Segment(ph)))
      /\ ph = 0 => \A k \in 0 .. HdrSectors * SECTSIZE - 1 : mem[ELFHDR + k] = k
  BY <1>1, SegmentRead
<1>3. /\ ph = 0 \/ ph \in 1 .. Len(image.segs)
      /\ image \in Images
      /\ \A j \in 1 .. ph - 1 : InPlace(Segment(j)) /\ Before(j, ph)
  BY <1>1 DEF BInv, Progress, Earlier, Reading
<1>4. Len(image.segs) \in Nat
  BY <1>1, <1>3, ImagesAssumption DEF Linked
<1>5. ph \in Nat /\ n \in 1 .. Len(image.segs) /\ n # 0 /\ n > 0
  BY <1>1, <1>3, <1>4, SMT
<1> HIDE DEF n
<1>6. /\ From(n) \in Nat /\ From(n) % SECTSIZE = 0 /\ pa' = From(n) /\ end_pa' = To(n)
      /\ offset' \in Int /\ (offset' - 1) * SECTSIZE = From(n) + Delta(n)
  <2>1. From(n) \in Nat /\ From(n) % SECTSIZE = 0 /\ pa' = From(n) /\ end_pa' = To(n)
    BY <1>1, <1>3, <1>5, FromFacts DEF From, To, Top
  <2>2. Segment(n).offset \div SECTSIZE \in Nat
    BY <1>1, <1>3, <1>5, SegmentFacts, Division, Layout
  <2>3. offset' \in Int
    BY <1>1, <2>2, SMT
  <2>4. QED
    BY <1>1, <1>3, <1>5, <2>1, <2>3, FromFacts
<1>7. \A k : Segment(k)' = Segment(k) /\ From(k)' = From(k) /\ To(k)' = To(k) /\ Delta(k)' = Delta(k)
  BY <1>1 DEF Segment, From, To, Top, Delta
<1>8. Progress'
  <2>1. pa' \in Nat /\ pa' % SECTSIZE = 0 /\ From(n) <= pa'
    BY <1>6, SMT
  <2>2. QED
    BY <1>1, <1>5, <1>6, <1>7, <2>1 DEF Progress, BootCode, Reading
<1>9. ReadSoFar'
  <2>1. \A a \in Phys : ~(From(n) <= a /\ a < From(n))
    BY <1>6, SMT DEF Phys
  <2>2. QED
    BY <1>1, <1>6, <1>7, <2>1 DEF ReadSoFar, Phys
<1>10. Earlier'
  <2>1. ASSUME NEW j \in 1 .. n - 1
        PROVE  InPlace(Segment(j)) /\ Before(j, n)
    <3>1. ph \in 1 .. Len(image.segs) /\ n = ph + 1 /\ ph # 0
      BY <1>3, <1>5, SMT DEF n
    <3>2. CASE j = ph
      BY <1>1, <1>2, <1>3, <1>5, <3>1, <3>2, BeforeNext
    <3>3. CASE j # ph
      <4>1. j \in 1 .. ph - 1
        BY <3>1, <3>3, SMT
      <4>2. QED
        BY <1>1, <1>3, <1>5, <3>1, <4>1, BeforeNext
    <3>4. QED
      BY <3>2, <3>3
  <2>2. ASSUME NEW j \in 1 .. ph' - 1
        PROVE  InPlace(Segment(j))' /\ Before(j, ph)'
    <3>1. InPlace(Segment(j)) /\ Before(j, ph')
      BY <1>1, <2>1
    <3>2. InPlace(Segment(j))'
      BY <1>1, <3>1 DEF InPlace, Segment
    <3>3. Before(j, ph)'
      BY <1>1, <3>1 DEF Before, Top, Delta, Segment
    <3>4. QED
      BY <3>2, <3>3
  <2>3. QED
    BY <2>2 DEF Earlier
<1>11. LoaderIntact'
  <2>1. CASE ph = 0
    BY <1>1, <1>2, <2>1 DEF BInv, LoaderIntact, Loading
  <2>2. CASE ph # 0
    <3>1. ph > 0
      BY <1>5, <2>2, SMT
    <3>2. QED
      BY <1>1, <3>1 DEF BInv, LoaderIntact, Loading
  <2>3. QED
    BY <2>1, <2>2
<1>12. QED
  BY <1>1, <1>2, <1>8, <1>9, <1>10, <1>11
     DEF BInv, Waited, A20On, Asked, ImageInPlace, BootCode, Reading

LEMMA BootStep == BInv /\ BootNext => BInv'
  BY DevicesBInv, Boots1, Boots2, CommandBInv, TransferBInv, CheckMagicBInv, NextSegmentBInv, EnterKernelBInv
     DEF BootNext

-----------------------------------------------------------------------------
(***************************************************************************)
(* The entry page tables map a page table's worth of memory twice, at 0    *)
(* and at KERNBASE.                                                        *)
(***************************************************************************)

LEMMA Sizes ==
  /\ PGSIZE \in Nat \ {0} /\ NPTENTRIES \in Nat \ {0} /\ NPDENTRIES \in Nat \ {0}
  /\ PTSIZE \in Nat \ {0} /\ KERNBASE \in Nat
<1>1. PGSIZE \in Nat \ {0} /\ NPTENTRIES \in Nat \ {0} /\ NPDENTRIES \in Nat \ {0}
  BY PagingAssumption
<1>2. PGSIZE * NPTENTRIES \in Nat \ {0}
  BY <1>1, SMT
<1>3. QED
  BY <1>1, <1>2, PagingAssumption DEF PTSIZE

LEMMA BaseEntry ==
  ASSUME NEW d, d = KERNBASE \div PTSIZE
  PROVE  d \in 1 .. NPDENTRIES - 1 /\ KERNBASE = d * PTSIZE
<1>1. d \in 1 .. NPDENTRIES - 1 /\ KERNBASE % PTSIZE = 0
  BY PagingAssumption DEF PTSIZE
<1>2. KERNBASE = PTSIZE * d + (KERNBASE % PTSIZE)
  BY Division, Sizes
<1>3. QED
  BY <1>1, <1>2, Sizes, SMT

(* An address in the d-th table's range is split into d, its page and its offset. *)
LEMMA Split ==
  ASSUME NEW d \in 0 .. NPDENTRIES - 1, NEW a \in 0 .. PTSIZE - 1
  PROVE  /\ PDX(d * PTSIZE + a) = d
         /\ PTX(d * PTSIZE + a) = a \div PGSIZE
         /\ PGOFF(d * PTSIZE + a) = a % PGSIZE
         /\ a \div PGSIZE \in 0 .. NPTENTRIES - 1
         /\ a = (a \div PGSIZE) * PGSIZE + (a % PGSIZE)
<1> DEFINE q == a \div PGSIZE
           r == a % PGSIZE
<1>1. a \in Nat /\ d \in Nat
  BY Sizes, SMT
<1>2. q \in Nat /\ r \in 0 .. PGSIZE - 1 /\ a = PGSIZE * q + r
  BY <1>1, Division, Sizes
<1> HIDE DEF q, r
<1>3. a = q * PGSIZE + r /\ q * PGSIZE \in Nat
  BY <1>2, Sizes, SMT
<1>4. q * PGSIZE < PGSIZE * NPTENTRIES
  BY <1>1, <1>2, <1>3, Sizes, SMT DEF PTSIZE
<1>5. q < NPTENTRIES
  BY <1>2, <1>4, QuotientBelow, Sizes
<1>6. q \in 0 .. NPTENTRIES - 1
  BY <1>2, <1>5, Sizes, SMT
<1>7. (d * PTSIZE + a) \div PTSIZE = d
  BY <1>1, DivisionUnique, Sizes
<1>8. d % NPDENTRIES = d
  BY SmallRemainder, Sizes
<1>9. d * PTSIZE + a = (d * NPTENTRIES + q) * PGSIZE + r /\ d * NPTENTRIES + q \in Nat
  <2>1. d * PTSIZE = (d * NPTENTRIES) * PGSIZE
    BY <1>1, Sizes, SMT DEF PTSIZE
  <2>2. d * NPTENTRIES \in Nat
    BY <1>1, Sizes, SMT
  <2>3. (d * NPTENTRIES + q) * PGSIZE = (d * NPTENTRIES) * PGSIZE + q * PGSIZE
    BY <2>2, <1>2, Sizes, SMT
  <2>4. QED
    BY <2>1, <2>2, <2>3, <1>2, <1>3, Sizes, SMT
<1>10. (d * PTSIZE + a) \div PGSIZE = d * NPTENTRIES + q /\ (d * PTSIZE + a) % PGSIZE = r
  BY <1>2, <1>9, DivisionUnique, Sizes
<1>11. (d * NPTENTRIES + q) % NPTENTRIES = q
  BY <1>1, <1>6, DivisionUnique, Sizes
<1>12. QED
  BY <1>3, <1>6, <1>7, <1>8, <1>10, <1>11 DEF PDX, PTX, PGOFF, q, r

-----------------------------------------------------------------------------
(***************************************************************************)
(* Each of the first PTSIZE units of memory is reached at its physical     *)
(* address, for reading, and KERNBASE above it, for writing too: what      *)
(* entry.S relies on from the instruction that enables paging to the jump  *)
(* and the stack (entrypgdir.c:20-28, entry.S:46-69).                      *)
(***************************************************************************)
THEOREM MappedTwice ==
  ASSUME NEW a \in 0 .. PTSIZE - 1
  PROVE  /\ PhysicalAddress(a) = a /\ Allowed(a, {"P"})
         /\ PhysicalAddress(KERNBASE + a) = a /\ Allowed(KERNBASE + a, {"P", "W"})
<1> DEFINE d == KERNBASE \div PTSIZE
<1>1. d \in 1 .. NPDENTRIES - 1 /\ KERNBASE = d * PTSIZE
  BY BaseEntry
<1>2. 0 \in 0 .. NPDENTRIES - 1 /\ d \in 0 .. NPDENTRIES - 1 /\ d # 0
  BY <1>1, Sizes, SMT
<1>3. 0 * PTSIZE + a = a
  BY Sizes, SMT
<1>4. /\ PDX(a) = 0 /\ PTX(a) = a \div PGSIZE /\ PGOFF(a) = a % PGSIZE
      /\ a \div PGSIZE \in 0 .. NPTENTRIES - 1
      /\ a = (a \div PGSIZE) * PGSIZE + (a % PGSIZE)
  BY <1>2, <1>3, Split
<1>5. /\ PDX(KERNBASE + a) = d /\ PTX(KERNBASE + a) = a \div PGSIZE
      /\ PGOFF(KERNBASE + a) = a % PGSIZE
  BY <1>1, <1>2, Split
<1>6. EntryPgtable[a \div PGSIZE] = [page |-> a \div PGSIZE, flags |-> {"P", "W"}]
  BY <1>4 DEF EntryPgtable
<1>7. EntryPgdir[0] = {"P"} /\ EntryPgdir[d] = {"P", "W"} /\ DOMAIN EntryPgdir = {0, d}
  BY <1>2 DEF EntryPgdir
<1>8. QED
  BY <1>4, <1>5, <1>6, <1>7 DEF PhysicalAddress, Allowed

(* The low mapping cannot be written through (entrypgdir.c:23-24). *)
THEOREM LowIsReadOnly ==
  ASSUME NEW a \in 0 .. PTSIZE - 1
  PROVE  ~Allowed(a, {"W"})
<1>1. PDX(a) = 0
  <2>1. 0 * PTSIZE + a = a /\ 0 \in 0 .. NPDENTRIES - 1
    BY Sizes, SMT
  <2>2. QED
    BY <2>1, Split
<1>2. QED
  BY <1>1 DEF Allowed, EntryPgdir

-----------------------------------------------------------------------------
(* Where the entry code is, instruction by instruction *)
Paged ==
  /\ pc \in {"jump", "stack", "call", "memset", "init"} => paging = TRUE
  /\ pc \notin {"jump", "stack", "call", "memset", "init"} => paging = FALSE
Place ==
  /\ pc = "entry" => eip = Segment(1).pa
  /\ pc = "cr3" => eip = Segment(1).pa + 1
  /\ pc = "cr0" => eip = Segment(1).pa + 2
  /\ pc = "jump" => eip = Segment(1).pa + 3
  /\ pc = "stack" => eip = KERNBASE + (Segment(1).pa + 4)
  /\ pc = "call" => eip = KERNBASE + (Segment(1).pa + 5) /\ esp = bootstacktop
  /\ pc = "memset" => eip = KERNBASE + (Segment(1).pa + 6) /\ bss \in edata .. end

(* The image before the bss, but for the word on the stack, is as it was loaded. *)
Entered == pc \in DOMAIN Code \cup {"init"}
Kept(k) ==
  \A j \in 0 .. Segment(k).filesz - 1 :
    Segment(k).pa + j < RELOC(edata) /\ Segment(k).pa + j # StackWord =>
      mem[Segment(k).pa + j] = Segment(k).offset + j
Holds == Entered => \A k \in 1 .. Len(image.segs) : Kept(k)

(* What memset has passed is zero. *)
ZeroTo(b) == \A a \in edata .. b - 1 : mem[RELOC(a)] = Zero
Zeroed ==
  /\ pc = "memset" => ZeroTo(bss)
  /\ pc = "init" => ZeroTo(end)

KInv == BInv /\ Paged /\ Place /\ Holds /\ Zeroed

LEMMA InitKInv == KernelInit => KInv
<1> SUFFICES ASSUME KernelInit PROVE KInv
  OBVIOUS
<1>1. BInv /\ pc = "seta20.1" /\ paging = FALSE
  BY InitBInv DEF KernelInit, BootInit
<1>2. Paged /\ Place /\ Holds /\ Zeroed
  BY <1>1 DEF Paged, Place, Holds, Entered, Code, Zeroed
<1>3. QED
  BY <1>1, <1>2 DEF KInv

(* An image that has been entered has the magic number. *)
LEMMA EnteredMagic ==
  ASSUME BInv, Entered
  PROVE  image \in Images /\ image.magic /\ A20On /\ mem \in [Phys -> Int]
  BY DEF BInv, Waited, Entered, Code, BootCode, Reading

(* Symbols are integers, and relocation takes KERNBASE off. *)
LEMMA KernelLayout ==
  ASSUME image \in Images, image.magic
  PROVE  /\ 1 \in 1 .. Len(image.segs)
         /\ Segment(1).pa \in Nat /\ MB <= Segment(1).pa /\ Segment(1).filesz >= 7
         /\ Segment(1).filesz \in Nat
         /\ \E top \in Nat : /\ Segment(1).pa + 11 <= top /\ top <= PTSIZE /\ top <= MemSize
                             /\ end = KERNBASE + top
                             /\ edata = KERNBASE + (top - 2)
                             /\ bootstacktop = KERNBASE + (top - 3)
                             /\ StackWord = top - 4 /\ RELOC(edata) = top - 2
         /\ KERNBASE \in Nat /\ PTSIZE \in Nat /\ WarmBoot \in Nat /\ WarmBoot < MB /\ MB \in Nat
         /\ MemSize \in Nat
         /\ RELOC(entry) = Segment(1).pa
         /\ relocated = KERNBASE + (Segment(1).pa + 4)
         /\ i386_init = KERNBASE + (Segment(1).pa + 6)
<1>1. Len(image.segs) \in Nat /\ image.segs # <<>> /\ image.segs \in Seq(Segments)
  BY ImagesAssumption, KernelAssumption DEF Linked
<1>2. 1 \in 1 .. Len(image.segs) /\ Len(image.segs) \in 1 .. Len(image.segs)
  BY <1>1, SMT
<1>3. Segment(1).pa \in Nat /\ MB <= Segment(1).pa /\ Segment(1).filesz \in Nat /\ Segment(1).filesz >= 7
  BY <1>2, SegmentFacts, KernelAssumption DEF Segment
<1>4. KERNBASE \in Nat /\ PTSIZE \in Nat /\ WarmBoot \in Nat /\ WarmBoot < MB /\ MB \in Nat /\ MemSize \in Nat
  BY Sizes, KernelAssumption, Layout
<1> DEFINE top == Segment(Len(image.segs)).pa + Segment(Len(image.segs)).memsz
<1>5. top \in Segment(1).pa + 11 .. PTSIZE
  BY KernelAssumption DEF Segment
<1>6. top <= MemSize
  BY <1>2, SegmentFacts
<1>7. end = top + KERNBASE
  BY DEF end
<1> HIDE DEF top
<1>8. top \in Nat /\ Segment(1).pa + 11 <= top /\ top <= PTSIZE
  BY <1>3, <1>4, <1>5, SMT
<1>9. /\ end = KERNBASE + top /\ edata = KERNBASE + (top - 2) /\ bootstacktop = KERNBASE + (top - 3)
      /\ StackWord = top - 4 /\ RELOC(edata) = top - 2
  BY <1>4, <1>7, <1>8, SMT DEF edata, bootstacktop, RELOC, StackWord
<1>10. /\ RELOC(entry) = Segment(1).pa
       /\ relocated = KERNBASE + (Segment(1).pa + 4)
       /\ i386_init = KERNBASE + (Segment(1).pa + 6)
  BY <1>3, <1>4, SMT DEF RELOC, entry, relocated, i386_init
<1>11. QED
  BY <1>2, <1>3, <1>4, <1>6, <1>8, <1>9, <1>10

-----------------------------------------------------------------------------
(* Loading and devices: the entry code is not running. *)
LEMMA Loads ==
  ASSUME KInv,
         \/ Booting /\ UNCHANGED kvars
         \/ KbcTakes /\ UNCHANGED kvars
         \/ DiskReady /\ UNCHANGED kvars
         \/ UNCHANGED allvars
  PROVE  KInv'
<1>1. image' = image /\ UNCHANGED kvars
  BY DEF Booting, Seta20_1, Seta20_2, ProtectedMode, Command, Transfer, CheckMagic, NextSegment,
         KbcTakes, DiskReady, allvars, bvars, devices
<1>2. \/ pc' = pc /\ (mem' = mem \/ pc = "readsect")
      \/ /\ pc \in {"seta20.1", "seta20.2", "protected", "readseg", "readsect"}
         /\ pc' \in {"seta20.2", "protected", "readseg", "readsect", "bad"}
  BY DEF Booting, Seta20_1, Seta20_2, ProtectedMode, Command, Transfer, CheckMagic, NextSegment,
         Readseg, KbcTakes, DiskReady, allvars, bvars
<1>3. BInv'
  <2>1. CASE UNCHANGED allvars
    <3>1. UNCHANGED bvars
      BY <2>1 DEF allvars
    <3>2. QED
      BY <3>1 DEF KInv, BInv, Waited, A20On, Asked, Progress, ReadSoFar, Earlier, LoaderIntact, Loading,
                  ImageInPlace, InPlace, Before, Segment, Top, From, To, Delta, bvars, devices
  <2>2. QED
    BY <2>1, BootStep DEF KInv, BootNext, Booting
<1>4. /\ Segment(1)' = Segment(1) /\ edata' = edata /\ bootstacktop' = bootstacktop /\ end' = end
      /\ \A k : Segment(k)' = Segment(k)
  BY <1>1 DEF Segment, edata, bootstacktop, end
<1>5. Paged' /\ Place'
  BY <1>1, <1>2, <1>4 DEF KInv, Paged, Place, kvars
<1>6. Holds' /\ Zeroed'
  <2>1. CASE Entered'
    <3>1. pc' = pc /\ mem' = mem /\ Entered
      BY <1>2, <2>1 DEF Entered, Code
    <3>2. QED
      BY <1>1, <1>4, <3>1 DEF KInv, Holds, Kept, Zeroed, ZeroTo, RELOC, StackWord, kvars
  <2>2. CASE ~Entered'
    BY <2>2 DEF Entered, Code, Holds, Zeroed
  <2>3. QED
    BY <2>1, <2>2
<1>7. QED
  BY <1>3, <1>5, <1>6 DEF KInv

(* The kernel's instructions keep devices and image. *)
LEMMA KernelKeepsBInv ==
  ASSUME BInv, Kernel, mem' \in [Phys -> Int]
  PROVE  BInv' /\ Entered /\ Entered' /\ image' = image
<1>1. image' = image /\ UNCHANGED devices /\ Entered /\ Entered' /\ pc' # "entry"
  BY DEF Kernel, MarkWarmBoot, LoadCr3, EnablePaging, JumpUp, SetStack, CallInit, ClearBss, Running,
         Executes, Entered, Code
<1>2. image.magic
  BY <1>1, EnteredMagic
<1>3. /\ pc' \notin BootCode \cup Reading \cup {"bad"} /\ pc \notin BootCode \cup Reading
      /\ pc' \notin {"seta20.1", "seta20.2", "protected", "readseg", "readsect"}
  BY <1>1 DEF Entered, Code, BootCode, Reading
<1>4. Waited' /\ Asked'
  BY <1>1, <1>3 DEF BInv, Waited, A20On, Asked, devices, BootCode, Reading
<1>5. QED
  BY <1>1, <1>2, <1>3, <1>4 DEF BInv, Progress, ReadSoFar, Earlier, LoaderIntact, Loading, ImageInPlace

(***************************************************************************)
(* What an address reaches when line 20 is on: itself, before paging and   *)
(* below, and its relocation above.                                        *)
(***************************************************************************)
LEMMA Reached ==
  ASSUME A20On
  PROVE  /\ \A a : ~paging => Target(a) = a
         /\ \A a \in 0 .. PTSIZE - 1 : Target(a) = a
         /\ \A a \in 0 .. PTSIZE - 1 : paging => Target(KERNBASE + a) = a
  BY MappedTwice DEF Target, Selected, A20On


-----------------------------------------------------------------------------
(* How a step moves through the entry code *)
LEMMA JumpedKInv == KInv /\ Jumped => KInv'
<1> SUFFICES ASSUME KInv, Jumped PROVE KInv'
  OBVIOUS
<1>1. /\ pc = "readseg" /\ pc' = "entry" /\ image.magic /\ image' = image /\ mem' = mem
      /\ eip' = RELOC(entry) /\ paging' = paging
  BY DEF Jumped, EnterKernel
<1>2. BInv' /\ image \in Images
  BY BootStep DEF KInv, BInv, BootNext, Jumped
<1>3. Segment(1).pa' = Segment(1).pa /\ \A k : Segment(k)' = Segment(k)
  BY <1>1 DEF Segment
<1>4. Paged' /\ Place'
  <2>1. RELOC(entry) = Segment(1).pa
    BY <1>1, <1>2, KernelLayout
  <2>2. paging = FALSE
    BY <1>1 DEF KInv, Paged
  <2>3. QED
    BY <1>1, <1>3, <2>1, <2>2 DEF Paged, Place
<1>5. Holds' /\ Zeroed'
  <2>1. \A k \in 1 .. Len(image'.segs) : InPlace(Segment(k))'
    BY <1>1, <1>2 DEF BInv, ImageInPlace
  <2>2. QED
    BY <1>1, <2>1 DEF Holds, Kept, InPlace, Zeroed
<1>6. QED
  BY <1>2, <1>4, <1>5 DEF KInv

(* a step of the entry code that writes nothing, or below the image, to the stack or to the bss *)
LEMMA HoldsStays ==
  ASSUME KInv, Entered, image' = image,
         NEW at \in Int, NEW what \in Int,
         at < MB \/ at = StackWord \/ RELOC(edata) <= at,
         mem' = [mem EXCEPT ![at] = what]
  PROVE  mem' \in [Phys -> Int] /\ Holds'
<1>1. image \in Images /\ image.magic /\ mem \in [Phys -> Int]
  BY EnteredMagic DEF KInv
<1>2. mem' \in [Phys -> Int]
  BY <1>1
<1>3. PICK top \in Nat : StackWord = top - 4 /\ RELOC(edata) = top - 2
  BY <1>1, KernelLayout
<1>4. ASSUME NEW k \in 1 .. Len(image.segs), NEW j \in 0 .. Segment(k).filesz - 1,
             Segment(k).pa + j < RELOC(edata), Segment(k).pa + j # StackWord
      PROVE  mem'[Segment(k).pa + j] = Segment(k).offset + j
  <2>1. Segment(k).pa \in Nat /\ MB <= Segment(k).pa /\ Segment(k).filesz \in Nat /\ MB \in Nat
    BY <1>1, SegmentFacts, Layout
  <2>2. Segment(k).pa + j # at
    BY <1>3, <1>4, <2>1, SMT
  <2>3. mem[Segment(k).pa + j] = Segment(k).offset + j
    BY <1>4 DEF KInv, Holds, Kept
  <2>4. QED
    BY <1>1, <2>2, <2>3
<1>5. RELOC(edata)' = RELOC(edata) /\ StackWord' = StackWord /\ \A k : Segment(k)' = Segment(k)
  BY DEF StackWord, RELOC, bootstacktop, edata, end, Segment
<1>6. QED
  BY <1>2, <1>4, <1>5 DEF Holds, Kept

(* From entry to the call: code that is fetched where the linker put it *)
LEMMA EntryKInv ==
  ASSUME KInv, MarkWarmBoot \/ LoadCr3 \/ EnablePaging \/ JumpUp \/ SetStack
  PROVE  KInv'
<1>1. /\ image' = image /\ Entered
      /\ pc \in {"entry", "cr3", "cr0", "jump", "stack"} /\ pc' \in {"cr3", "cr0", "jump", "stack", "call"}
  BY DEF MarkWarmBoot, LoadCr3, EnablePaging, JumpUp, SetStack, Executes, Entered, Code
<1>2. image \in Images /\ image.magic /\ A20On /\ mem \in [Phys -> Int]
  BY <1>1, EnteredMagic DEF KInv
<1>3. mem' \in [Phys -> Int] /\ Holds'
  <2>1. CASE MarkWarmBoot
    <3>1. Target(WarmBoot) = WarmBoot
      BY <1>2, <2>1, Reached DEF KInv, Paged, MarkWarmBoot, Executes
    <3>2. mem' = [mem EXCEPT ![WarmBoot] = Warm]
      BY <2>1, <3>1 DEF MarkWarmBoot, Writes
    <3>3. WarmBoot \in Int /\ WarmBoot < MB /\ Warm \in Int
      BY <1>2, KernelLayout, SMT DEF Warm
    <3>4. QED
      BY <1>1, <3>2, <3>3, HoldsStays
  <2>2. CASE mem' = mem
    <3>1. RELOC(edata)' = RELOC(edata) /\ StackWord' = StackWord /\ \A k : Segment(k)' = Segment(k)
      BY <1>1 DEF StackWord, RELOC, bootstacktop, edata, end, Segment
    <3>2. QED
      BY <1>1, <1>2, <2>2, <3>1 DEF KInv, Holds, Kept
  <2>3. QED
    BY <2>1, <2>2 DEF LoadCr3, EnablePaging, JumpUp, SetStack
<1>4. BInv'
  BY <1>3, KernelKeepsBInv DEF KInv, Kernel
<1>5. Paged'
  BY <1>1 DEF KInv, Paged, MarkWarmBoot, LoadCr3, EnablePaging, JumpUp, SetStack, Executes
<1>6. Place'
  <2>1. /\ Segment(1).pa \in Nat /\ KERNBASE \in Nat /\ relocated = KERNBASE + (Segment(1).pa + 4)
    BY <1>2, KernelLayout
  <2>2. Segment(1).pa' = Segment(1).pa /\ bootstacktop' = bootstacktop
    BY <1>1 DEF Segment, bootstacktop, edata, end
  <2>3. CASE MarkWarmBoot
    BY <2>1, <2>2, <2>3, SMT DEF MarkWarmBoot, Executes, KInv, Place
  <2>4. CASE LoadCr3
    BY <2>1, <2>2, <2>4, SMT DEF LoadCr3, Executes, KInv, Place
  <2>5. CASE EnablePaging
    BY <2>1, <2>2, <2>5, SMT DEF EnablePaging, Executes, KInv, Place
  <2>6. CASE JumpUp
    BY <2>1, <2>2, <2>6 DEF JumpUp, Executes, Place
  <2>7. CASE SetStack
    BY <2>1, <2>2, <2>7, SMT DEF SetStack, Executes, KInv, Place
  <2>8. QED
    BY <2>3, <2>4, <2>5, <2>6, <2>7
<1>7. Zeroed'
  BY <1>1 DEF Zeroed
<1>8. QED
  BY <1>3, <1>4, <1>5, <1>6, <1>7 DEF KInv

(* The call pushes its return address on the boot stack. *)
LEMMA CallKInv == KInv /\ CallInit => KInv'
<1> SUFFICES ASSUME KInv, CallInit PROVE KInv'
  OBVIOUS
<1>1. /\ image' = image /\ Entered /\ pc = "call" /\ pc' = "memset" /\ paging' = paging
      /\ mem' = [mem EXCEPT ![Target(esp - 1)] = Pushed] /\ eip' = i386_init /\ bss' = edata
      /\ esp = bootstacktop /\ paging = TRUE
  BY DEF CallInit, BssStart, Executes, Writes, Entered, Code, KInv, Place, Paged
<1>2. image \in Images /\ image.magic /\ A20On /\ mem \in [Phys -> Int]
  BY <1>1, EnteredMagic DEF KInv
<1>3. PICK top \in Nat : /\ Segment(1).pa + 11 <= top /\ top <= PTSIZE
                         /\ end = KERNBASE + top /\ edata = KERNBASE + (top - 2)
                         /\ bootstacktop = KERNBASE + (top - 3)
                         /\ StackWord = top - 4 /\ RELOC(edata) = top - 2
  BY <1>2, KernelLayout
<1>4. /\ Segment(1).pa \in Nat /\ KERNBASE \in Nat /\ PTSIZE \in Nat
      /\ i386_init = KERNBASE + (Segment(1).pa + 6)
  BY <1>2, KernelLayout
<1>5. Target(esp - 1) = top - 4
  <2>1. esp - 1 = KERNBASE + (top - 4) /\ top - 4 \in 0 .. PTSIZE - 1
    BY <1>1, <1>3, <1>4, SMT
  <2>2. QED
    BY <1>1, <1>2, <2>1, Reached
<1>6. mem' \in [Phys -> Int] /\ Holds'
  <2>1. Pushed \in Int /\ top - 4 \in Int /\ top - 4 = StackWord
    BY <1>3, SMT DEF Pushed
  <2>2. QED
    BY <1>1, <1>5, <2>1, HoldsStays
<1>7. BInv'
  BY <1>6, KernelKeepsBInv DEF KInv, Kernel
<1>8. Paged' /\ Place' /\ Zeroed'
  <2>1. Segment(1).pa' = Segment(1).pa /\ edata' = edata /\ end' = end
    BY <1>1 DEF Segment, edata, end
  <2>2. edata \in edata .. end /\ \A a \in edata .. edata - 1 : FALSE
    BY <1>3, <1>4, SMT
  <2>3. QED
    BY <1>1, <1>4, <2>1, <2>2 DEF Paged, Place, Zeroed, ZeroTo
<1>9. QED
  BY <1>6, <1>7, <1>8 DEF KInv

(* memset clears one more unit. *)
LEMMA ClearBssKInv == KInv /\ ClearBss => KInv'
<1> SUFFICES ASSUME KInv, ClearBss PROVE KInv'
  OBVIOUS
<1>1. /\ image' = image /\ Entered /\ pc = "memset" /\ pc' = "memset" /\ paging' = paging
      /\ mem' = [mem EXCEPT ![Target(bss)] = Zero] /\ eip' = eip /\ bss' = bss + 1
      /\ bss \in edata .. end /\ bss < end /\ paging = TRUE /\ ZeroTo(bss)
  BY DEF ClearBss, Executes, Writes, Entered, Code, KInv, Place, Paged, Zeroed
<1>2. image \in Images /\ image.magic /\ A20On /\ mem \in [Phys -> Int]
  BY <1>1, EnteredMagic DEF KInv
<1>3. PICK top \in Nat : /\ Segment(1).pa + 11 <= top /\ top <= PTSIZE /\ top <= MemSize
                         /\ end = KERNBASE + top /\ edata = KERNBASE + (top - 2)
                         /\ StackWord = top - 4 /\ RELOC(edata) = top - 2
  BY <1>2, KernelLayout
<1>4. Segment(1).pa \in Nat /\ KERNBASE \in Nat /\ PTSIZE \in Nat /\ MemSize \in Nat
  BY <1>2, KernelLayout
<1>5. /\ bss - KERNBASE \in 0 .. PTSIZE - 1 /\ bss = KERNBASE + (bss - KERNBASE)
      /\ bss - KERNBASE \in Phys /\ RELOC(edata) <= bss - KERNBASE /\ bss \in Int
  BY <1>1, <1>3, <1>4, SMT DEF Phys
<1>6. Target(bss) = bss - KERNBASE
  BY <1>1, <1>2, <1>5, Reached
<1>7. mem' \in [Phys -> Int] /\ Holds'
  <2>1. Zero \in Int /\ bss - KERNBASE \in Int
    BY <1>5, SMT DEF Zero
  <2>2. QED
    BY <1>1, <1>5, <1>6, <2>1, HoldsStays
<1>8. BInv'
  BY <1>7, KernelKeepsBInv DEF KInv, Kernel
<1>9. Segment(1).pa' = Segment(1).pa /\ edata' = edata /\ end' = end
  BY <1>1 DEF Segment, edata, end
<1>10. Paged' /\ Place'
  <2>1. bss + 1 \in edata .. end
    BY <1>1, <1>3, <1>4, SMT
  <2>2. QED
    BY <1>1, <1>9, <2>1 DEF KInv, Paged, Place
<1>11. Zeroed'
  <2>1. ASSUME NEW a \in edata .. (bss + 1) - 1
        PROVE  mem'[RELOC(a)] = Zero
    <3>1. RELOC(a) = a - KERNBASE /\ a \in Int
      BY <1>3, <1>4, SMT DEF RELOC
    <3>2. CASE a = bss
      BY <1>1, <1>2, <1>5, <1>6, <3>1, <3>2
    <3>3. CASE a # bss
      <4>1. a \in edata .. bss - 1
        BY <1>3, <1>4, <1>5, <3>3, SMT
      <4>2. a - KERNBASE # bss - KERNBASE
        BY <1>4, <1>5, <3>1, <3>3, SMT
      <4>3. mem[RELOC(a)] = Zero
        BY <1>1, <4>1 DEF ZeroTo
      <4>4. QED
        BY <1>1, <1>2, <1>6, <3>1, <4>2, <4>3
    <3>4. QED
      BY <3>2, <3>3
  <2>2. QED
    BY <1>1, <1>9, <2>1 DEF Zeroed, ZeroTo, RELOC
<1>12. QED
  BY <1>7, <1>8, <1>10, <1>11 DEF KInv

LEMMA RunningKInv == KInv /\ Running => KInv'
<1> SUFFICES ASSUME KInv, Running PROVE KInv'
  OBVIOUS
<1>1. /\ image' = image /\ mem' = mem /\ UNCHANGED kvars /\ pc = "memset" /\ pc' = "init" /\ Entered /\ Entered'
      /\ bss = end /\ ZeroTo(bss)
  BY DEF Running, Executes, Entered, Code, KInv, Zeroed
<1>2. mem \in [Phys -> Int]
  BY <1>1, EnteredMagic DEF KInv
<1>3. BInv'
  BY <1>1, <1>2, KernelKeepsBInv DEF KInv, Kernel
<1>4. /\ edata' = edata /\ end' = end /\ bootstacktop' = bootstacktop /\ \A k : Segment(k)' = Segment(k)
  BY <1>1 DEF Segment, edata, end, bootstacktop
<1>5. Paged' /\ Place'
  BY <1>1 DEF KInv, Paged, Place, kvars
<1>6. Holds'
  BY <1>1, <1>4 DEF KInv, Holds, Kept, StackWord, RELOC
<1>7. Zeroed'
  BY <1>1, <1>4 DEF Zeroed, ZeroTo, RELOC
<1>8. QED
  BY <1>3, <1>5, <1>6, <1>7 DEF KInv

LEMMA KInvAlways == KernelSpec => []KInv
<1>1. KInv /\ [KernelNext]_allvars => KInv'
  BY Loads, JumpedKInv, EntryKInv, CallKInv, ClearBssKInv, RunningKInv
     DEF KernelNext, Processor, Kernel
<1>2. QED
  BY <1>1, InitKInv, PTL DEF KernelSpec

-----------------------------------------------------------------------------
(* When the kernel is entered every unit of every segment is in place. *)
THEOREM ImageLoaded == KernelSpec => []ImageInPlace
<1>1. KInv => ImageInPlace
  BY DEF KInv, BInv
<1>2. QED
  BY <1>1, KInvAlways, PTL

(***************************************************************************)
(* Until then the loader's own sector and the header it walks through are  *)
(* never overwritten, however many segments there are.                     *)
(***************************************************************************)
THEOREM LoaderSurvives == KernelSpec => []LoaderIntact
<1>1. KInv => LoaderIntact
  BY DEF KInv, BInv
<1>2. QED
  BY <1>1, KInvAlways, PTL

(* What is mapped for writing may be read. *)
LEMMA FewerRights ==
  ASSUME NEW la, Allowed(la, {"P", "W"})
  PROVE  Allowed(la, {"P"})
BY DEF Allowed

(* Where eip is, it fetches from the unit the linker gave the instruction. *)
LEMMA Fetch ==
  ASSUME KInv, pc \in DOMAIN Code
  PROVE  CanFetch /\ Target(eip) = Segment(1).pa + Code[pc]
<1>1. Entered
  BY DEF Entered
<1>2. image \in Images /\ image.magic /\ A20On
  BY <1>1, EnteredMagic DEF KInv
<1>3. /\ Segment(1).pa \in Nat /\ KERNBASE \in Nat /\ PTSIZE \in Nat /\ Segment(1).pa + 11 <= PTSIZE
  <2>1. PICK top \in Nat : Segment(1).pa + 11 <= top /\ top <= PTSIZE
    BY <1>2, KernelLayout
  <2>2. Segment(1).pa \in Nat /\ KERNBASE \in Nat /\ PTSIZE \in Nat
    BY <1>2, KernelLayout
  <2>3. QED
    BY <2>1, <2>2, SMT
<1>4. \A n \in 0 .. 6 : Segment(1).pa + n \in 0 .. PTSIZE - 1
  BY <1>3, SMT
<1>5. pc \in {"entry", "cr3", "cr0", "jump", "stack", "call", "memset"}
  BY DEF Code
<1>6. CASE pc \in {"entry", "cr3", "cr0"}
  <2>1. paging = FALSE
    BY <1>6 DEF KInv, Paged
  <2>2. eip = Segment(1).pa + Code[pc]
    BY <1>3, <1>6, SMT DEF KInv, Place, Code
  <2>3. QED
    BY <1>2, <2>1, <2>2, Reached DEF CanFetch, CanAccess
<1>7. CASE pc = "jump"
  <2>1. eip = Segment(1).pa + 3 /\ Code[pc] = 3 /\ Segment(1).pa + 3 \in 0 .. PTSIZE - 1
    BY <1>4, <1>7 DEF KInv, Place, Code
  <2>2. QED
    BY <1>2, <2>1, Reached, MappedTwice DEF CanFetch, CanAccess
<1>8. CASE pc \in {"stack", "call", "memset"}
  <2>1. eip = KERNBASE + (Segment(1).pa + Code[pc]) /\ Code[pc] \in 0 .. 6
    BY <1>8 DEF KInv, Place, Code
  <2>2. Segment(1).pa + Code[pc] \in 0 .. PTSIZE - 1 /\ paging = TRUE
    BY <1>4, <1>8, <2>1 DEF KInv, Paged
  <2>3. QED
    BY <1>2, <2>1, <2>2, Reached, MappedTwice, FewerRights DEF CanFetch, CanAccess
<1>9. QED
  BY <1>5, <1>6, <1>7, <1>8

(***************************************************************************)
(* Wherever the kernel is loaded, none of the entry code's fetches and     *)
(* stores faults: before paging, on the low side of the jump, and above.   *)
(***************************************************************************)
THEOREM NeverFaults == KernelSpec => []NoFault
<1>1. KInv => NoFault
  <2> SUFFICES ASSUME KInv
               PROVE  NoFault
    OBVIOUS
  <2>1. pc \in DOMAIN Code => CanFetch
    BY Fetch
  <2>2. ASSUME pc \in {"call", "memset"}
        PROVE  \E top \in Nat : /\ Segment(1).pa + 11 <= top /\ top <= PTSIZE
                                /\ end = KERNBASE + top /\ edata = KERNBASE + (top - 2)
                                /\ bootstacktop = KERNBASE + (top - 3)
    <3>1. Entered
      BY <2>2 DEF Entered, Code
    <3>2. image \in Images /\ image.magic
      BY <3>1, EnteredMagic DEF KInv
    <3>3. QED
      BY <3>2, KernelLayout
  <2>3. ASSUME pc \in {"call", "memset"}
        PROVE  Segment(1).pa \in Nat /\ KERNBASE \in Nat /\ PTSIZE \in Nat
    <3>1. Entered
      BY <2>3 DEF Entered, Code
    <3>2. image \in Images /\ image.magic
      BY <3>1, EnteredMagic DEF KInv
    <3>3. QED
      BY <3>2, KernelLayout
  <2>4. ASSUME pc = "call" PROVE CanAccess(esp - 1, {"P", "W"})
    <3>1. PICK top \in Nat : Segment(1).pa + 11 <= top /\ top <= PTSIZE /\ bootstacktop = KERNBASE + (top - 3)
      BY <2>2, <2>4
    <3>2. top - 4 \in 0 .. PTSIZE - 1 /\ esp - 1 = KERNBASE + (top - 4)
      BY <2>3, <2>4, <3>1, SMT DEF KInv, Place
    <3>3. QED
      BY <3>2, MappedTwice DEF CanAccess
  <2>5. ASSUME pc = "memset", bss < end PROVE CanAccess(bss, {"P", "W"})
    <3>1. PICK top \in Nat : /\ Segment(1).pa + 11 <= top /\ top <= PTSIZE
                             /\ end = KERNBASE + top /\ edata = KERNBASE + (top - 2)
      BY <2>2, <2>5
    <3>2. bss - KERNBASE \in 0 .. PTSIZE - 1 /\ bss = KERNBASE + (bss - KERNBASE)
      BY <2>3, <2>5, <3>1, SMT DEF KInv, Place
    <3>3. QED
      BY <3>2, MappedTwice DEF CanAccess
  <2>6. QED
    BY <2>1, <2>4, <2>5 DEF NoFault
<1>2. QED
  BY <1>1, KInvAlways, PTL

(***************************************************************************)
(* The processor executes the kernel's entry code and nothing else, on     *)
(* both sides of the switch to paging: nothing written on the way, by the  *)
(* loader or by the entry code, has reached it.                            *)
(***************************************************************************)
THEOREM ExecutesKernel == KernelSpec => []FetchesKernel
<1>1. KInv => FetchesKernel
  <2> SUFFICES ASSUME KInv, pc \in DOMAIN Code
               PROVE  mem[Target(eip)] = Segment(1).offset + Code[pc]
    BY DEF FetchesKernel
  <2>1. Target(eip) = Segment(1).pa + Code[pc]
    BY Fetch
  <2>2. Entered
    BY DEF Entered
  <2>3. image \in Images /\ image.magic
    BY <2>2, EnteredMagic DEF KInv
  <2>4. /\ 1 \in 1 .. Len(image.segs) /\ Segment(1).pa \in Nat
        /\ Segment(1).filesz >= 7 /\ Segment(1).filesz \in Nat
    BY <2>3, KernelLayout
  <2>5. PICK top \in Nat : Segment(1).pa + 11 <= top /\ StackWord = top - 4 /\ RELOC(edata) = top - 2
    BY <2>3, KernelLayout
  <2>6. Code[pc] \in 0 .. 6
    BY DEF Code
  <2>7. Code[pc] \in 0 .. Segment(1).filesz - 1
    BY <2>4, <2>6, SMT
  <2>8. Segment(1).pa + Code[pc] \in 0 .. top - 5
    <3>1. \A m \in Nat, n \in 0 .. 6 : m + 11 <= top => m + n \in 0 .. top - 5
      OBVIOUS
    <3>2. Segment(1).pa \in Nat /\ Segment(1).pa + 11 <= top
      BY <2>4, <2>5, Zenon
    <3> QED  BY <2>6, <3>1, <3>2, Zenon
  <2>9. Segment(1).pa + Code[pc] < RELOC(edata) /\ Segment(1).pa + Code[pc] # StackWord
    BY <2>5, <2>8, SMT
  <2>10. QED
    BY <2>1, <2>2, <2>4, <2>7, <2>9 DEF KInv, Holds, Kept
<1>2. QED
  BY <1>1, KInvAlways, PTL

(***************************************************************************)
(* i386_init goes on with every uninitialized variable zero and all of the *)
(* image before them, but for the word that the call pushed, as it was     *)
(* loaded: the variables that have a value too.                            *)
(***************************************************************************)
THEOREM VariablesCleared == KernelSpec => []BssCleared
<1>1. KInv => BssCleared
  BY DEF KInv, BssCleared, Zeroed, ZeroTo, Holds, Kept, Entered
<1>2. QED
  BY <1>1, KInvAlways, PTL
=============================================================================
