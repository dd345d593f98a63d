--------------------------------- MODULE Paging ---------------------------------
(***************************************************************************)
(* The page tables of kern/entrypgdir.c and how the processor uses them    *)
(* (inc/mmu.h).  A linear address is split into directory index, table     *)
(* index and offset; the sizes are parameters.                             *)
(***************************************************************************)
EXTENDS Integers

CONSTANTS PGSIZE,      \* 4096
          NPTENTRIES,  \* 1024
          NPDENTRIES,  \* 1024
          KERNBASE     \* 0xF0000000

ASSUME PagingAssumption ==
  /\ PGSIZE \in Nat \ {0} /\ NPTENTRIES \in Nat \ {0} /\ NPDENTRIES \in Nat \ {0}
  /\ KERNBASE \in Nat
  /\ KERNBASE % (PGSIZE * NPTENTRIES) = 0
  /\ KERNBASE \div (PGSIZE * NPTENTRIES) \in 1 .. NPDENTRIES - 1

PTSIZE == PGSIZE * NPTENTRIES
PDX(la) == (la \div PTSIZE) % NPDENTRIES
PTX(la) == (la \div PGSIZE) % NPTENTRIES
PGOFF(la) == la % PGSIZE

(* entry_pgdir: two entries for the same table; the low one is read-only *)
PgdirHighOnly == [d \in {KERNBASE \div PTSIZE} |-> {"P", "W"}]   \* faulty variant
EntryPgdir == [d \in {0, KERNBASE \div PTSIZE} |-> IF d = 0 THEN {"P"} ELSE {"P", "W"}]

PgtableRepeats ==      \* faulty variant: from the middle on, one page late
  [t \in 0 .. NPTENTRIES - 1 |->
     [page |-> IF t > NPTENTRIES \div 2 THEN t - 1 ELSE t, flags |-> {"P", "W"}]]

(* entry_pgtable: entry n maps page n, and all may be written *)
EntryPgtable == [t \in 0 .. NPTENTRIES - 1 |-> [page |-> t, flags |-> {"P", "W"}]]

(* CR0_WP: the kernel needs the W flags, too.  Both levels must agree. *)
Allowed(la, rights) ==
  /\ PDX(la) \in DOMAIN EntryPgdir
  /\ rights \subseteq EntryPgdir[PDX(la)]
  /\ rights \subseteq EntryPgtable[PTX(la)].flags
PhysicalAddress(la) == EntryPgtable[PTX(la)].page * PGSIZE + PGOFF(la)
=============================================================================
