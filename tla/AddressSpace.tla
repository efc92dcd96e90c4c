---------------------------- MODULE AddressSpace ----------------------------
(***************************************************************************)
(* Who owns which page frame of the user address spaces: creation of a     *)
(* task with its sections (task_get_new, userspace_create_new), fork,      *)
(* execve, one lazily mapped area of the heap, exit and release.           *)
(*                                                                         *)
(* A task has five user pages, under two page tables.  HIGHMEM frames have *)
(* identities; the LOWMEM pages (directories, tables, kernel stacks) are   *)
(* counted.  Every allocation may fail because memory has run out, and the *)
(* small kmalloc calls at any time (okX parameters).  System calls and     *)
(* interrupt handlers run with interrupts disabled, so each is one step.   *)
(***************************************************************************)
EXTENDS Integers, FiniteSetsExt

CONSTANTS
  Tasks,     \* task slots
  Machines   \* machines: their HIGHMEM frames, LOWMEM pages and the operations, among
             \* AllOps, that their programs use

AllOps == {"spawn", "fork", "execve", "mmap", "exit", "write"}

ASSUME AddressSpaceAssumptions ==
  /\ Tasks # {} /\ IsFiniteSet(Tasks)
  /\ \A m \in Machines : m.high \in Nat /\ m.low \in Nat /\ m.ops \subseteq AllOps

VARIABLES
  machine, \* the machine this is
  mem,     \* [hi, low, blk, content]: free frames, free pages, blocks, what a frame holds
  task,    \* the tasks
  view,    \* ghost: what each task last wrote to, or inherited in, each page, or Unset
  panic    \* the message of kpanic, or NoPanic

aspaceVars == <<machine, mem, task, view, panic>>

NULL == 0
Unset == 2     \* a page nothing has been stored in since it was allocated
NoPanic == ""
Frames == 1 .. machine.high
Ops == machine.ops
VPages == {"text", "heap", "stack1", "stack2", "tramp"}
Sections == {"text", "stack", "tramp"}
Tables == {"bottom", "top"}
Table(v) == IF v \in {"text", "heap"} THEN "bottom" ELSE "top"   \* of a page or section
KStack == 2    \* DEFAULT_STACK_SIZE in pages

Absent == [st |-> "none", tables |-> {}, pte |-> [v \in VPages |-> NULL],
           sec |-> [s \in Sections |-> NULL], area |-> "none", areaPage |-> NULL]

AspaceInit ==
  /\ machine \in Machines
  /\ mem = [hi |-> Frames, low |-> machine.low, blk |-> [f \in Frames |-> {}], content |-> [f \in Frames |-> 0]]
  /\ task = [t \in Tasks |-> Absent]
  /\ view = [t \in Tasks |-> [v \in VPages |-> 0]]
  /\ panic = NoPanic
-----------------------------------------------------------------------------
\* buddy_alloc_pages of the HIGHMEM frames b, a block that starts at f
Taken(m, f, b) == [m EXCEPT !.hi = @ \ b, !.blk[f] = b]

(* buddy_free_block of the block at f: it panics when f is free or heads   *)
(* no block.                                                               *)
BadFree(m, f) == f \in m.hi \/ m.blk[f] = {}
free_block(m, f) == IF BadFree(m, f) THEN m ELSE [m EXCEPT !.hi = @ \cup m.blk[f], !.blk[f] = {}]

(* map_section: frames for all pages of section s, then the window (a page *)
(* table of the current directory, given back at the end) and the table    *)
(* for s if it is missing.  okStream: kmalloc for the reader of the data.  *)
(* On failure the frames go back.                                          *)
map_section(m, t, s, okStream) ==
  LET tab  == {Table(s)} \ t.tables
      f    == Min(m.hi)
      g    == Min(m.hi \ {f})
      pool == IF s = "stack" THEN {f, g} ELSE {f}
  IN  IF \/ m.hi = {}
         \/ s = "stack" /\ m.hi = {f}
         \/ s # "stack" /\ ~okStream
         \/ m.low < 1 + Cardinality(tab)
      THEN [ok |-> FALSE, m |-> m, t |-> t]
      ELSE [ok |-> TRUE,
            m  |-> [Taken(m, f, pool) EXCEPT !.low = @ - Cardinality(tab),
                                             !.content = [h \in Frames |-> IF h \in pool THEN 0 ELSE @[h]]],
            t  |-> [t EXCEPT !.tables = @ \cup tab, !.sec[s] = f,
                             !.pte = IF s = "stack" THEN [@ EXCEPT !["stack1"] = f, !["stack2"] = g]
                                     ELSE [@ EXCEPT ![s] = f]]]

map_next(r, s, okStream) == IF r.ok THEN map_section(r.m, r.t, s, okStream) ELSE r

map_sections(m, t, okStream) ==
  map_next(map_next(map_section(m, t, "text", okStream["text"]),
                    "stack", okStream["stack"]), "tramp", okStream["tramp"])

free_section(m, t, s) == IF t.sec[s] = NULL THEN m ELSE free_block(m, t.sec[s])

free_sections(m, t) == free_section(free_section(free_section(m, t, "text"), t, "stack"), t, "tramp")

destroy_user_pd_OnlyTables(m, t) == [m EXCEPT !.low = @ + Cardinality(t.tables)]

\* vmm_destroy_user_pd: the tables and the directory, not the pages they map
destroy_user_pd(m, t) == [m EXCEPT !.low = @ + Cardinality(t.tables) + 1]

(* userspace_create_new for task t, whose text, stack and heap sections    *)
(* start afresh: a directory, then text, stack and trampoline.  On failure *)
(* the sections mapped so far are freed and the directory destroyed.       *)
userspace_create_new(m, t, okStream) ==
  LET fresh == [t EXCEPT !.tables = {}, !.pte = [v \in VPages |-> NULL],
                         !.sec = [@ EXCEPT !["text"] = NULL, !["stack"] = NULL]]
      r     == map_sections([m EXCEPT !.low = @ - 1], fresh, okStream)
  IN  IF m.low < 1 THEN [ok |-> FALSE, m |-> m, t |-> t]
      ELSE IF r.ok THEN r
      ELSE [ok |-> FALSE, m |-> destroy_user_pd(free_sections(r.m, r.t), r.t), t |-> r.t]

Streams == [Sections -> BOOLEAN]

\* exec_fn and task_get_new for ring 3
Spawn(t) ==
  /\ "spawn" \in Ops /\ task[t].st = "none" /\ mem.low >= KStack
  /\ \E okStream \in Streams :
       LET r == userspace_create_new([mem EXCEPT !.low = @ - KStack], Absent, okStream)
       IN  IF r.ok
           THEN /\ mem' = r.m
                /\ task' = [task EXCEPT ![t] = [r.t EXCEPT !.st = "live", !.area = "free"]]
                /\ view' = [view EXCEPT ![t] = [v \in VPages |-> 0]]
           ELSE mem' = [r.m EXCEPT !.low = @ + KStack] /\ UNCHANGED <<task, view>>
  /\ panic' = panic

\* The table for page v of the child, where it has none
GetTable(r, v) ==
  LET tab == {Table(v)} \ r.t.tables
  IN  [ok |-> r.ok, m |-> [r.m EXCEPT !.low = @ - Cardinality(tab)], t |-> [r.t EXCEPT !.tables = @ \cup tab]]

\* A frame for it, with what the parent p has in that page
CopyFrame_NoContent(p, r, v) ==
  LET f == Min(r.m.hi)
  IN  [ok |-> TRUE, m |-> Taken(r.m, f, {f}), t |-> [r.t EXCEPT !.pte[v] = f]]

CopyFrame(p, r, v) ==
  LET f == Min(r.m.hi)
  IN  [ok |-> TRUE, m |-> [Taken(r.m, f, {f}) EXCEPT !.content[f] = r.m.content[p.pte[v]]],
       t |-> [r.t EXCEPT !.pte[v] = f]]

(* The page copy of fork, over the parent's pages in address order: the    *)
(* table, the frame, and the window, which needs a page for its table      *)
(* while it is in use.                                                     *)
CopyPage_Shares(p, r, v) ==
  IF p.pte[v] = NULL \/ GetTable(r, v).m.low < 0 THEN r
  ELSE [GetTable(r, v) EXCEPT !.t.pte[v] = p.pte[v]]

CopyPage(p, r, v) ==
  LET n == GetTable(r, v)
  IN  IF ~r.ok \/ p.pte[v] = NULL THEN r
      ELSE IF n.m.low < 0 THEN [r EXCEPT !.ok = FALSE]
      ELSE IF n.m.hi = {} \/ n.m.low < 1 THEN [n EXCEPT !.ok = FALSE]
      ELSE CopyFrame(p, n, v)

CopyPages(p, r) ==
  CopyPage(p, CopyPage(p, CopyPage(p, CopyPage(p, CopyPage(p, r,
    "text"), "heap"), "stack1"), "stack2"), "tramp")

(* fork by task t into slot c.  The directory and the kernel stack come    *)
(* first.  On failure the tables, the directory and the stack are given    *)
(* back (the stack twice: the second kfree finds a free page and does      *)
(* nothing), the frames copied so far are not.  The child's sections are   *)
(* reset except that of the trampoline, and it has no list of areas.       *)
Fork(t, c) ==
  /\ "fork" \in Ops /\ task[t].st = "live" /\ task[c].st = "none"
  /\ mem.low >= 1 + KStack
  /\ LET child == [Absent EXCEPT !.st = "live", !.sec["tramp"] = task[t].sec["tramp"]]
         r == CopyPages(task[t], [ok |-> TRUE, m |-> [mem EXCEPT !.low = @ - 1 - KStack], t |-> child])
     IN  IF r.ok
         THEN /\ mem' = r.m /\ task' = [task EXCEPT ![c] = r.t]
              /\ view' = [view EXCEPT ![c] = view[t]]
         ELSE mem' = [destroy_user_pd(r.m, r.t) EXCEPT !.low = @ + KStack] /\ UNCHANGED <<task, view>>
  /\ panic' = panic

(* execve: a new directory with new sections; the old ones, and the areas, *)
(* are overwritten.                                                        *)
Execve(t) ==
  /\ "execve" \in Ops /\ task[t].st = "live"
  /\ \E okStream \in Streams :
       LET r == userspace_create_new(mem, task[t], okStream)
       IN  /\ mem' = r.m
           /\ task' = IF r.ok THEN [task EXCEPT ![t] = [r.t EXCEPT !.area = "free", !.areaPage = NULL]] ELSE task
           /\ view' = IF r.ok THEN [view EXCEPT ![t] = [v \in VPages |-> 0]] ELSE view
           /\ panic' = IF r.ok THEN NoPanic ELSE "Failed to create new clean userspace"

\* mmap of the area; a task without a list of areas gets none
Mmap(t) ==
  /\ "mmap" \in Ops /\ task[t].st = "live" /\ task[t].area = "free"
  /\ task' = [task EXCEPT ![t].area = "lazy"]
  /\ UNCHANGED <<mem, view, panic>>

Fault_NotTaken(t) ==
  /\ task[t].st = "live" /\ task[t].area = "lazy" /\ mem.hi # {}
  /\ task' = [task EXCEPT ![t] = [@ EXCEPT !.area = "mapped", !.areaPage = Min(mem.hi), !.pte["heap"] = Min(mem.hi)]]
  /\ mem' = [mem EXCEPT !.blk[Min(mem.hi)] = {Min(mem.hi)}] /\ UNCHANGED <<view, panic>>

(* The first access to the lazy area (page_fault_handler, vma_map_area).   *)
(* The frame is not cleared.  The area begins where the text ends, under   *)
(* the same page table, so that vmm_map_page needs no new one; areas with  *)
(* tables of their own are the subject of module Vma.                      *)
Fault(t) ==
  /\ task[t].st = "live" /\ task[t].area = "lazy"
  /\ IF mem.hi = {} THEN panic' = "Failed to map lazy VM area" /\ UNCHANGED <<mem, task, view>>
     ELSE LET f == Min(mem.hi)
          IN  /\ mem' = Taken(mem, f, {f})
              /\ task' = [task EXCEPT ![t] = [@ EXCEPT !.area = "mapped", !.areaPage = f, !.pte["heap"] = f]]
              /\ view' = [view EXCEPT ![t]["heap"] = Unset]
              /\ panic' = panic

\* munmap: text keeps the table in use
Munmap(t) ==
  /\ "mmap" \in Ops /\ task[t].st = "live" /\ task[t].area \in {"lazy", "mapped"}
  /\ mem' = IF task[t].area = "lazy" THEN mem ELSE free_block(mem, task[t].areaPage)
  /\ task' = [task EXCEPT ![t] = [@ EXCEPT !.area = "free", !.areaPage = NULL, !.pte["heap"] = NULL]]
  /\ UNCHANGED <<view, panic>>

\* A user program stores b in a page it may write
Store(t, v, b) ==
  /\ "write" \in Ops /\ task[t].st = "live" /\ v \in {"heap", "stack1"} /\ task[t].pte[v] # NULL
  /\ mem' = [mem EXCEPT !.content[task[t].pte[v]] = b]
  /\ view' = [view EXCEPT ![t][v] = b]
  /\ UNCHANGED <<task, panic>>

task_exit_cleanup_NoStack(m, t) == free_section(free_section(m, t, "text"), t, "tramp")

task_exit_cleanup(m, t) == free_sections(m, t)

(* do_exit: the section blocks one after the other (a bad one panics), the *)
(* areas, the tables and the directory.  A zombie keeps its kernel stack.  *)
Exit(t) ==
  /\ "exit" \in Ops /\ task[t].st = "live"
  /\ LET bad == \E s \in Sections : task[t].sec[s] # NULL /\ BadFree(mem, task[t].sec[s])
         m   == task_exit_cleanup(mem, task[t])
         m2  == IF task[t].area = "mapped" THEN free_block(m, task[t].areaPage) ELSE m
     IN  IF bad THEN mem' = m /\ panic' = "Double free detected" /\ task' = task
         ELSE /\ mem' = destroy_user_pd(m2, task[t])
              /\ task' = [task EXCEPT ![t] = [Absent EXCEPT !.st = "zombie"]]
              /\ panic' = panic
  /\ view' = view

\* waitpid of the parent, task_release
Release(t) ==
  /\ task[t].st = "zombie"
  /\ mem' = [mem EXCEPT !.low = @ + KStack]
  /\ task' = [task EXCEPT ![t] = Absent]
  /\ UNCHANGED <<view, panic>>

AspaceNext ==
  /\ panic = NoPanic
  /\ \/ \E t \in Tasks : Spawn(t)
     \/ \E t, c \in Tasks : Fork(t, c)
     \/ \E t \in Tasks : Execve(t)
     \/ \E t \in Tasks : Mmap(t)
     \/ \E t \in Tasks : Fault(t)
     \/ \E t \in Tasks : Munmap(t)
     \/ \E t \in Tasks, v \in VPages, b \in {0, 1} : Store(t, v, b)
     \/ \E t \in Tasks : Exit(t)
     \/ \E t \in Tasks : Release(t)
  /\ machine' = machine

AspaceSpec == AspaceInit /\ [][AspaceNext]_aspaceVars
-----------------------------------------------------------------------------
(* The child of a fork has the section of its parent's trampoline, block   *)
(* and all (fork.c:40), so that where programs both fork and exit the      *)
(* block is freed twice.  Between the two exits the page is free and       *)
(* mapped, and may be allocated again; the second one panics.              *)
SharedSection == {"fork", "exit"} \subseteq Ops

(* What buddy_free_block insists on (buddy.c:263, "Double free detected"): *)
(* the exits of tasks never free a block that is free.                     *)
NoDoubleFree == panic # "Double free detected"

(* No frame is mapped twice, and none that is mapped is free: address      *)
(* spaces are separate, also between the parent and the child of a fork.   *)
(* This leaves out two cases.  Where programs both fork and exit, exit     *)
(* frees the trampoline that parent and child share, and a frame that one  *)
(* of them still maps may be given to another task (NoDoubleFree).  A      *)
(* failed execve frees the old trampoline just before it panics.           *)
MappedOnce ==
  panic = NoPanic /\ ~SharedSection =>
    \A t, c \in Tasks, v, w \in VPages :
      task[t].pte[v] # NULL => /\ task[t].pte[v] \notin mem.hi
                               /\ task[t].pte[v] = task[c].pte[w] => t = c /\ v = w

(* Every frame that is not free is mapped by some task: failed creations   *)
(* and exits give back all they took.                                      *)
NoFrameLost == \A f \in Frames : f \in mem.hi \/ \E t \in Tasks, v \in VPages : task[t].pte[v] = f

\* The LOWMEM pages of a task: its kernel stack, directory and tables
LowPages == {"kstack1", "kstack2", "pd"} \cup Tables
Uses(t) ==
  IF t.st = "none" THEN {}
  ELSE {"kstack1", "kstack2"} \cup (IF t.st = "zombie" THEN {} ELSE {"pd"} \cup t.tables)

(* Directories, tables, windows and kernel stacks balance: what is missing *)
(* from LOWMEM is what the tasks that exist use, also after a fork that    *)
(* failed half way.                                                        *)
LowBalanced ==
  mem.low + Cardinality({tp \in Tasks \X LowPages : tp[2] \in Uses(task[tp[1]])}) = machine.low

(* Memory comes back: while no task is forked or replaced every frame does *)
(* when its user is gone, and while none is replaced every kernel page.  A *)
(* fork that fails keeps the frames it has copied to, and execve those of  *)
(* the old program and its tables.                                         *)
NothingLost ==
  /\ Ops \cap {"fork", "execve"} = {} => NoFrameLost
  /\ "execve" \notin Ops => LowBalanced

(* A task that has stored something in a page reads there what it stored   *)
(* last, and in a page it has not stored to what its parent had there at   *)
(* the fork, or zero in the pages of a new program: no store of another    *)
(* task, and no frame taken from a dead one, changes it.  This says        *)
(* nothing of a page of the heap before the first store: vma_map_area does *)
(* not clear its frame, which may show what another task left there.  And  *)
(* it leaves out programs that both fork and exit, as MappedOnce does.     *)
PrivateMemory ==
  ~SharedSection =>
    \A t \in Tasks, v \in VPages :
      task[t].pte[v] # NULL /\ view[t][v] # Unset => mem.content[task[t].pte[v]] = view[t][v]
=============================================================================
