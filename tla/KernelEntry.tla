------------------------------ MODULE KernelEntry ------------------------------
(***************************************************************************)
(* From the loader's jump to C code that may use its variables: the entry  *)
(* code (kern/entry.S), one step per instruction, which switches paging on *)
(* under itself, and the beginning of i386_init (kern/init.c), which       *)
(* clears the uninitialized data.                                          *)
(***************************************************************************)
EXTENDS BootLoader, Paging

CONSTANT WarmBoot      \* 0x472, where the BIOS looks for 0x1234

VARIABLES
  eip, esp,
  paging,              \* CR0_PG, with CR3 pointing to entry_pgdir
  bss                  \* link addresses from edata on that memset has cleared

kvars == <<eip, esp, paging, bss>>
allvars == <<bvars, kvars>>

Zero == -3
Pushed == -4
Warm == -5

(***************************************************************************)
(* Symbols, as link addresses: the kernel is linked KERNBASE above where   *)
(* it is loaded.  entry begins the first segment, one unit an instruction; *)
(* the last segment ends with the boot stack and the bss.                  *)
(***************************************************************************)
RELOC(x) == x - KERNBASE
entry == Segment(1).pa + KERNBASE
relocated == entry + 4
i386_init == entry + 6
end == Segment(Len(image.segs)).pa + Segment(Len(image.segs)).memsz + KERNBASE
edata == end - 2
bootstacktop == edata - 1

(***************************************************************************)
(* The kernel lies in the memory that one page table maps.  Its first      *)
(* segment begins with the entry code and with i386_init; the boot stack   *)
(* is behind that code, in the last segment.                               *)
(***************************************************************************)
ASSUME KernelAssumption ==
  /\ WarmBoot \in Nat /\ WarmBoot < MB
  /\ \A im \in Images : im.magic =>
       /\ im.segs # <<>>
       /\ im.segs[1].filesz >= 7
       /\ LET last == im.segs[Len(im.segs)]
          IN /\ last.memsz >= 4
             /\ last.pa + last.memsz \in im.segs[1].pa + 11 .. PTSIZE

KernelInit ==
  /\ BootInit
  /\ eip = 0 /\ esp = Start /\ paging = FALSE /\ bss = 0

(* what an access reaches, if it is allowed *)
CanAccess(la, rights) == ~paging \/ Allowed(la, rights)
Target(la) == Selected(IF paging THEN PhysicalAddress(la) ELSE la)
CanFetch == CanAccess(eip, {"P"})

(* the instruction at eip, which writes nothing *)
Executes(at, next) ==
  /\ pc = at /\ CanFetch
  /\ pc' = next
  /\ UNCHANGED <<image, devices, ph, pa, end_pa, offset>>
Writes(la, what) == CanAccess(la, {"P", "W"}) /\ mem' = [mem EXCEPT ![Target(la)] = what]

Jumped ==              \* e_entry is _start, the physical address of entry
  /\ EnterKernel
  /\ eip' = RELOC(entry)
  /\ UNCHANGED <<esp, paging, bss>>

MarkWarmBoot ==
  /\ Executes("entry", "cr3")
  /\ Writes(WarmBoot, Warm)
  /\ eip' = eip + 1
  /\ UNCHANGED <<esp, paging, bss>>

LoadCr3 ==
  /\ Executes("cr3", "cr0")
  /\ eip' = eip + 1
  /\ UNCHANGED <<mem, esp, paging, bss>>

EnablePaging ==
  /\ Executes("cr0", "jump")
  /\ paging' = TRUE
  /\ eip' = eip + 1
  /\ UNCHANGED <<mem, esp, bss>>

JumpUp ==
  /\ Executes("jump", "stack")
  /\ eip' = relocated
  /\ UNCHANGED <<mem, esp, paging, bss>>

SetStack ==
  /\ Executes("stack", "call")
  /\ esp' = bootstacktop
  /\ eip' = eip + 1
  /\ UNCHANGED <<mem, paging, bss>>

DataStart == edata - 1     \* faulty variant: memset takes a variable that has a value
BssStart == edata
CallInit ==            \* pushes the return address
  /\ Executes("call", "memset")
  /\ Writes(esp - 1, Pushed)
  /\ esp' = esp - 1
  /\ eip' = i386_init
  /\ bss' = BssStart
  /\ UNCHANGED paging

ClearBss ==            \* memset(edata, 0, end - edata)
  /\ bss < end
  /\ Executes("memset", "memset")
  /\ Writes(bss, Zero)
  /\ bss' = bss + 1
  /\ UNCHANGED <<eip, esp, paging>>

Running ==
  /\ bss = end
  /\ Executes("memset", "init")
  /\ UNCHANGED <<mem, kvars>>

Kernel ==
  \/ MarkWarmBoot \/ LoadCr3 \/ EnablePaging \/ JumpUp \/ SetStack \/ CallInit
  \/ ClearBss \/ Running
Booting ==
  \/ Seta20_1 \/ Seta20_2 \/ ProtectedMode
  \/ Command \/ Transfer \/ CheckMagic \/ NextSegment
Processor == (Booting /\ UNCHANGED kvars) \/ Jumped \/ Kernel
KernelNext ==
  \/ Processor
  \/ KbcTakes /\ UNCHANGED kvars
  \/ DiskReady /\ UNCHANGED kvars

(***************************************************************************)
(* The processor goes on, the 8042 takes its byte and the drive gets its   *)
(* sector.                                                                 *)
(***************************************************************************)
KernelSpec ==
  /\ KernelInit /\ [][KernelNext]_allvars
  /\ WF_allvars(Processor)
  /\ WF_allvars(KbcTakes /\ UNCHANGED kvars)
  /\ WF_allvars(DiskReady /\ UNCHANGED kvars)

-----------------------------------------------------------------------------
(* The code from entry on: the instructions' places after entry *)
Code == [entry |-> 0, cr3 |-> 1, cr0 |-> 2, jump |-> 3, stack |-> 4, call |-> 5, memset |-> 6]

(***************************************************************************)
(* No instruction of the entry code faults: it may be fetched, and what it *)
(* stores to may be written, before and after paging is switched on under  *)
(* it and on both sides of the jump (entry.S:64-69, "why is this okay?").  *)
(***************************************************************************)
NoFault ==
  /\ pc \in DOMAIN Code => CanFetch
  /\ pc = "call" => CanAccess(esp - 1, {"P", "W"})
  /\ pc = "memset" /\ bss < end => CanAccess(bss, {"P", "W"})

(***************************************************************************)
(* The processor executes the kernel: what it fetches is the instruction   *)
(* the linker put there, whether eip is a physical or a linked address.    *)
(***************************************************************************)
FetchesKernel ==
  pc \in DOMAIN Code => mem[Target(eip)] = Segment(1).offset + Code[pc]

(***************************************************************************)
(* i386_init goes on with every uninitialized variable zero (init.c:27-29) *)
(* and the image before them as it was loaded, the variables that have a   *)
(* value and lie behind the boot stack too: only the word that the call    *)
(* pushed is another.                                                      *)
(***************************************************************************)
StackWord == RELOC(bootstacktop) - 1
BssCleared ==
  pc = "init" =>
    /\ \A a \in edata .. end - 1 : mem[RELOC(a)] = Zero
    /\ \A k \in 1 .. Len(image.segs) : \A j \in 0 .. Segment(k).filesz - 1 :
         LET a == Segment(k).pa + j
         IN a < RELOC(edata) /\ a # StackWord => mem[a] = Segment(k).offset + j

(* The machine ends in the kernel's C code or, without a kernel, in bad. *)
Boots == <>(pc \in {"init", "bad"})
=============================================================================
