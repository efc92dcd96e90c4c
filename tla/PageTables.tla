----------------------------- MODULE PageTables -----------------------------
(***************************************************************************)
(* The page tables (vmm.c) and the copies to and from user memory that     *)
(* check them (usercopy.c): mapping and unmapping a page, the tables this  *)
(* allocates and frees, and what the processor remembers of them.          *)
(*                                                                         *)
(* An address is a number below NPde * NPte * PAGE_SIZE; a virtual page v  *)
(* has directory index v \div NPte and table index v % NPte.  Directory    *)
(* entries from Kde on are the kernel's; of these only the one of the      *)
(* window of vmm_kmap is used here.  The processor may at any time walk    *)
(* the tables of cr3 and remember a directory entry or a translation,      *)
(* also in the middle of a kernel function.                                *)
(***************************************************************************)
EXTENDS Integers

CONSTANTS
  Users,      \* page directories of tasks
  KDir,       \* the kernel's directory
  NPde, NPte, PAGE_SIZE,
  Kde,        \* first directory index of the kernel (768)
  Tables,     \* the pages there are for page tables
  Frames,     \* the pages to map
  NULL,
  UserPages,  \* the virtual pages that tasks map
  Walked      \* the virtual pages whose translation the processor looks up

VPages == 0 .. NPde * NPte - 1

ASSUME PageTablesAssumptions ==
  /\ KDir \notin Users /\ NULL \notin Tables /\ NULL \notin Frames
  /\ NPde \in Nat /\ NPte \in Nat \ {0} /\ PAGE_SIZE \in Nat \ {0}
  /\ Kde \in 1 .. NPde - 1
  /\ UserPages \subseteq 0 .. Kde * NPte - 1 /\ Walked \subseteq VPages

VARIABLES
  pd,      \* the page directories
  pt,      \* the page tables
  free,    \* the free pages among Tables
  cpu,     \* [cr3, tlb, pdc]: directory in use, remembered translations and entries
  alive,   \* the directories of tasks that exist
  call,    \* [d, v]: what vmm_unmap_page is unmapping; v is -1 between calls
  want     \* ghost: what is mapped in each directory

vars == <<pd, pt, free, cpu, alive, call, want>>

Dirs == Users \cup {KDir}
Live == alive \cup {KDir}
PdeIdx == 0 .. NPde - 1
PteIdx == 0 .. NPte - 1
PdeOf(v) == v \div NPte                         \* GET_PDE_INDEX
PteOf(v) == v % NPte                            \* GET_PTE_INDEX
Span == NPde * NPte * PAGE_SIZE
KERNEL_VADDR_BASE == Kde * NPte * PAGE_SIZE
Window == NPde * NPte - 1                       \* VMM_KMAP_VADDR
NoPde == [t |-> NULL, us |-> FALSE]
NoPte == [f |-> NULL, us |-> FALSE, rw |-> FALSE]
EmptyTable == [j \in PteIdx |-> NoPte]
EmptyDir == [i \in PdeIdx |-> NoPde]
Unmapped == [v \in VPages |-> NoPte]
Idle == call.v = -1

Init ==
  /\ pd = [d \in Dirs |-> EmptyDir] /\ pt = [t \in Tables |-> EmptyTable] /\ free = Tables
  /\ cpu = [cr3 |-> KDir, tlb |-> {}, pdc |-> {}]
  /\ alive = {} /\ call = [d |-> KDir, v |-> -1] /\ want = [d \in Dirs |-> Unmapped]
-----------------------------------------------------------------------------
\* What walking the tables of directory d gives for page v
vmm_get_mapping(d, v) ==
  IF pd[d][PdeOf(v)].t = NULL THEN NoPte ELSE pt[pd[d][PdeOf(v)].t][PteOf(v)]

reload_cr3(d) == [cr3 |-> d, tlb |-> {}, pdc |-> {}]

\* invlpg forgets the page and the directory entry above it
invalid_TLB(v) ==
  [cpu EXCEPT !.tlb = {x \in @ : x.v # v}, !.pdc = {x \in @ : x.i # PdeOf(v)}]

\* vmm_map_page when there is no table: one is allocated, if there is memory
MapNewTable(d, v, e) ==
  /\ pd[d][PdeOf(v)].t = NULL
  /\ \/ /\ free = {}
        /\ UNCHANGED <<pd, pt, free, cpu, want>>
     \/ \E t \in free :
          /\ free' = free \ {t}
          /\ pt' = [pt EXCEPT ![t] = [EmptyTable EXCEPT ![PteOf(v)] = e]]
          /\ pd' = [pd EXCEPT ![d][PdeOf(v)] = [t |-> t, us |-> e.us]]
          /\ cpu' = IF d = cpu.cr3 THEN reload_cr3(d) ELSE cpu
          /\ want' = [want EXCEPT ![d][v] = e]

(* vmm_map_page when there is one: the user bit is added to the directory  *)
(* entry if it is missing.  In the current directory the processor forgets *)
(* the page, or everything when the directory changed.                     *)
MapOldTable(d, v, e) ==
  LET pde == pd[d][PdeOf(v)]
  IN  /\ pde.t # NULL
      /\ pd' = [pd EXCEPT ![d][PdeOf(v)].us = pde.us \/ e.us]
      /\ pt' = [pt EXCEPT ![pde.t][PteOf(v)] = e]
      /\ cpu' = IF d # cpu.cr3 THEN cpu
                ELSE IF e.us /\ ~pde.us THEN reload_cr3(d) ELSE invalid_TLB(v)
      /\ want' = [want EXCEPT ![d][v] = e] /\ free' = free

vmm_map_page(d, v, e) ==
  /\ MapNewTable(d, v, e) \/ MapOldTable(d, v, e)
  /\ UNCHANGED <<alive, call>>

\* USER_SECTION_RO and USER_SECTION_RW
UserEntries == [f : Frames, us : {TRUE}, rw : BOOLEAN]

\* A section, an area or the copy of fork: a page of a task, not mapped yet
MapUser(d, v, e) == Idle /\ d \in alive /\ want[d][v] = NoPte /\ vmm_map_page(d, v, e)

\* vmm_kmap: the window of the current directory, mapped or not
vmm_kmap(f) == Idle /\ vmm_map_page(cpu.cr3, Window, [f |-> f, us |-> FALSE, rw |-> TRUE])

(* vmm_unmap_page, first half: the entry is cleared and the processor      *)
(* forgets the page.  vmm_kunmap is this for the window.                   *)
UnmapEntry(d, v) ==
  /\ Idle /\ d \in Live
  /\ v = Window => d = cpu.cr3
  /\ pd[d][PdeOf(v)].t # NULL /\ vmm_get_mapping(d, v) # NoPte
  /\ pt' = [pt EXCEPT ![pd[d][PdeOf(v)].t][PteOf(v)] = NoPte]
  /\ cpu' = invalid_TLB(v)
  /\ call' = [d |-> d, v |-> v] /\ want' = [want EXCEPT ![d][v] = NoPte]
  /\ UNCHANGED <<pd, free, alive>>

FreeTable_NoReload(d, i) ==
  /\ pd' = [pd EXCEPT ![d][i] = NoPde] /\ free' = free \cup {pd[d][i].t}
  /\ cpu' = cpu
FreeTable_KeepsPde(d, i) ==
  /\ pd' = pd /\ free' = free \cup {pd[d][i].t}
  /\ cpu' = IF d = cpu.cr3 THEN reload_cr3(d) ELSE cpu

\* An empty table is freed, and the processor forgets all of its directory
FreeTable(d, i) ==
  /\ pd' = [pd EXCEPT ![d][i] = NoPde] /\ free' = free \cup {pd[d][i].t}
  /\ cpu' = IF d = cpu.cr3 THEN reload_cr3(d) ELSE cpu

IsEmpty_FirstOnly(table) == table[0] = NoPte
IsEmpty(table) == table = EmptyTable

\* vmm_unmap_page, second half
UnmapTable ==
  /\ ~Idle
  /\ \/ /\ IsEmpty(pt[pd[call.d][PdeOf(call.v)].t])
        /\ FreeTable(call.d, PdeOf(call.v))
     \/ /\ ~IsEmpty(pt[pd[call.d][PdeOf(call.v)].t])
        /\ UNCHANGED <<pd, free, cpu>>
  /\ call' = [d |-> KDir, v |-> -1] /\ UNCHANGED <<pt, alive, want>>

\* userspace_map_kernel on the new directory of a task
Create(d) ==
  /\ Idle /\ d \in Users \ alive
  /\ pd' = [pd EXCEPT ![d] = EmptyDir]
  /\ alive' = alive \cup {d} /\ UNCHANGED <<pt, free, cpu, call, want>>

(* vmm_destroy_user_pd: do_exit has left the directory, and its window is  *)
(* closed.  What a freed table held is dropped: the next user clears it.   *)
Destroy(d) ==
  /\ Idle /\ d \in alive /\ d # cpu.cr3 /\ want[d][Window] = NoPte
  /\ LET gone == {t \in Tables : \E i \in 0 .. Kde - 1 : pd[d][i].t = t}
     IN  /\ free' = free \cup gone
         /\ pt' = [t \in Tables |-> IF t \in gone THEN EmptyTable ELSE pt[t]]
  /\ pd' = [pd EXCEPT ![d] = [i \in PdeIdx |-> IF i < Kde THEN NoPde ELSE pd[d][i]]]
  /\ alive' = alive \ {d} /\ want' = [want EXCEPT ![d] = Unmapped]
  /\ UNCHANGED <<cpu, call>>

\* switch_to, exit and execve load cr3
Switch(d) ==
  /\ Idle /\ d \in Live /\ d # cpu.cr3 /\ want[cpu.cr3][Window] = NoPte
  /\ cpu' = reload_cr3(d) /\ UNCHANGED <<pd, pt, free, alive, call, want>>
-----------------------------------------------------------------------------
(* The processor.  It remembers one directory entry and one translation at *)
(* a time: which ones is its choice, and one stale entry is enough.        *)
PdeSeen(i) ==
  LET known == {x \in cpu.pdc : x.i = i}
      pde == pd[cpu.cr3][i]
  IN  IF known # {} THEN known
      ELSE IF pde.t = NULL THEN {} ELSE {[i |-> i, t |-> pde.t, us |-> pde.us]}

Translation(v, pde, pte) ==
  [v |-> v, f |-> pte.f, us |-> pde.us /\ pte.us, rw |-> pte.rw]

Walk(v) ==
  \E pde \in PdeSeen(PdeOf(v)) :
    LET pte == pt[pde.t][PteOf(v)]
    IN  /\ cpu' = [cpu EXCEPT !.pdc = {pde},
                              !.tlb = IF pte = NoPte THEN @ ELSE {Translation(v, pde, pte)}]
        /\ UNCHANGED <<pd, pt, free, alive, call, want>>

Next ==
  \/ \E d \in Users, v \in UserPages, e \in UserEntries : MapUser(d, v, e)
  \/ \E f \in Frames : vmm_kmap(f)
  \/ \E d \in Dirs, v \in UserPages \cup {Window} : UnmapEntry(d, v)
  \/ UnmapTable
  \/ \E d \in Users : Create(d) \/ Destroy(d)
  \/ \E d \in Dirs : Switch(d)
  \/ \E v \in Walked : Walk(v)

Spec == Init /\ [][Next]_vars
-----------------------------------------------------------------------------
\* access_ok, with the sum cut to the width of an address
access_ok(start, size) ==
  LET end == (start + size) % Span
  IN  ~(end < start \/ end > KERNEL_VADDR_BASE)

Flagged(e, write) == e.us /\ (write => e.rw)

PagesToVerify_NoOffset(vaddr, n) == (n + PAGE_SIZE - 1) \div PAGE_SIZE

\* DIV_ROUND_UP(vaddr % PAGE_SIZE + n, PAGE_SIZE)
PagesToVerify(vaddr, n) == ((vaddr % PAGE_SIZE) + n + PAGE_SIZE - 1) \div PAGE_SIZE

(* vmm_verify_range_flags: over the directory entries of the range, the    *)
(* first table from the page of vaddr and the others from their start, as  *)
(* long as pages remain.                                                   *)
vmm_verify_range_flags(d, vaddr, n, write) ==
  LET PerPde == NPte * PAGE_SIZE
      start == vaddr \div PerPde
      range == ((vaddr + n - 1) % Span) \div PerPde - start + 1
      first == (vaddr \div PAGE_SIZE) % NPte
      From(i) == IF i = 0 THEN first ELSE 0
      Remaining(i) == PagesToVerify(vaddr, n) - (IF i = 0 THEN 0 ELSE i * NPte - first)
  IN  \/ n = 0
      \/ \A i \in 0 .. range - 1 :
           LET pde == pd[d][start + i]
           IN  /\ pde.t # NULL /\ pde.us
               /\ \A j \in From(i) .. NPte - 1 :
                    j - From(i) < Remaining(i) => Flagged(pt[pde.t][j], write)

\* usercopy: whether the copy is made
usercopy(vaddr, n, write) ==
  access_ok(vaddr, n) /\ vmm_verify_range_flags(cpu.cr3, vaddr, n, write)
-----------------------------------------------------------------------------
(* The processor remembers nothing that differs from the tables of its     *)
(* directory: no translation of an unmapped page, no table that was freed, *)
(* although it may have walked them between the two halves of              *)
(* vmm_unmap_page (vmm.c:230-245) or before the window moved (vmm.c:205).  *)
CachesCoherent ==
  /\ \A x \in cpu.pdc :
       x.t # NULL /\ x.t = pd[cpu.cr3][x.i].t /\ x.us = pd[cpu.cr3][x.i].us
  /\ \A x \in cpu.tlb :
       LET pde == pd[cpu.cr3][PdeOf(x.v)]
       IN  pde.t # NULL /\ x = Translation(x.v, pde, pt[pde.t][PteOf(x.v)])

(* A page table is free or belongs to exactly one entry of one directory,  *)
(* and between calls a table in use maps something: none is lost when a    *)
(* directory is destroyed, and none is freed under a directory that uses   *)
(* it (vmm.c:240-245, 290-306).                                            *)
TablesOwnedOnce ==
  /\ \A d \in Dirs, i \in PdeIdx : pd[d][i].t # NULL =>
       /\ pd[d][i].t \notin free
       /\ \A c \in Dirs, k \in PdeIdx : pd[c][k].t = pd[d][i].t => c = d /\ k = i
       /\ Idle => pt[pd[d][i].t] # EmptyTable
  /\ \A t \in Tables \ free : \E d \in Dirs, i \in PdeIdx : pd[d][i].t = t

(* Mapping or unmapping one page, in this directory or another, leaves     *)
(* every other page mapped as it was: the table of a page is not freed     *)
(* while another page needs it (vmm.c:232-245).                            *)
MappedAsAsked == \A d \in Dirs, v \in VPages : vmm_get_mapping(d, v) = want[d][v]

(* A copy to or from user memory is made exactly when every byte lies      *)
(* below the kernel in a page the task has mapped, writable for a copy to  *)
(* it: for ranges over several tables, that start inside a page, that end  *)
(* at the kernel or wrap around (usercopy.c:9-20, vmm.c:308-342).  A copy  *)
(* is part of a system call, so no other call is under way.                *)
CopyChecksRange ==
  Idle =>
    \A vaddr \in 0 .. Span - 1, n \in 1 .. Span - 1, write \in BOOLEAN :
      usercopy(vaddr, n, write) <=>
        \A b \in vaddr .. vaddr + n - 1 :
          /\ b < KERNEL_VADDR_BASE
          /\ Flagged(vmm_get_mapping(cpu.cr3, b \div PAGE_SIZE), write)
=============================================================================
