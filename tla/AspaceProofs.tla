---------------------------- MODULE AspaceProofs -----------------------------
(***************************************************************************)
(* Proofs about module AddressSpace, for any number of tasks, frames and   *)
(* kernel pages: address spaces are separate, their contents are their     *)
(* own, and what they are made of comes back.                              *)
(***************************************************************************)
EXTENDS AddressSpace, FiniteSetTheorems, WellFoundedInduction, TLAPS

\* A non-empty set of naturals has a least element.
LEMMA LeastElement ==
  ASSUME NEW T \in SUBSET Nat, T # {}
  PROVE  \E x \in T : \A y \in T : x =< y
<1>1. PICK R : R = OpToRel(<, Nat)
  BY Zenon
<1>2. \A x, y \in Nat : y < x => <<y, x>> \in R
  BY <1>1, Zenon DEF OpToRel
<1>3. IsWellFoundedOn(R, Nat)
  BY <1>1, NatLessThanWellFounded, Zenon
<1>4. PICK x \in T : \A y \in T : ~(<<y, x>> \in R)
  BY <1>3, WFMin, Zenon
<1>5. \A y \in T : ~(y < x)
  BY <1>2, <1>4, Zenon
<1>6. QED
  BY <1>5
-----------------------------------------------------------------------------
(* Address spaces.  The inductive invariant relates the page tables to the *)
(* free frames, to the blocks of the buddy allocator and to what the pages *)
(* hold.                                                                   *)
FramePtr == Frames \cup {NULL}
MemType  == [hi : SUBSET Frames, low : Int, blk : [Frames -> SUBSET Frames], content : [Frames -> {0, 1}]]
TaskType == [st : {"none", "live", "zombie"}, tables : SUBSET Tables, pte : [VPages -> FramePtr],
             sec : [Sections -> FramePtr], area : {"none", "free", "lazy", "mapped"}, areaPage : FramePtr]
ViewType == [VPages -> {0, 1, Unset}]

(* Only a live task has pages, and the page of the heap is that of its     *)
(* area once that is mapped (a forked child has a copy, and no area).      *)
Shape(x) ==
  /\ x.st # "live" => \A v \in VPages : x.pte[v] = NULL
  /\ x.area \in {"free", "lazy"} => x.pte["heap"] = NULL
  /\ x.area = "mapped" => x.areaPage = x.pte["heap"] /\ x.areaPage # NULL

\* The pages of a task that was not forked are those of its sections and area
Owns(m, x) ==
  /\ x.sec["text"] = x.pte["text"] /\ x.pte["text"] # NULL /\ m.blk[x.pte["text"]] = {x.pte["text"]}
  /\ x.sec["tramp"] = x.pte["tramp"] /\ x.pte["tramp"] # NULL /\ m.blk[x.pte["tramp"]] = {x.pte["tramp"]}
  /\ x.sec["stack"] = x.pte["stack1"] /\ x.pte["stack1"] # NULL /\ x.pte["stack2"] # NULL
  /\ m.blk[x.pte["stack1"]] = {x.pte["stack1"], x.pte["stack2"]}
  /\ x.area # "mapped" => x.pte["heap"] = NULL

Separate(m, x) ==
  /\ \A v \in VPages : x.pte[v] # NULL => x.pte[v] \notin m.hi
  /\ \A v, w \in VPages : x.pte[v] # NULL /\ x.pte[v] = x.pte[w] => v = w
  /\ x.area = "mapped" => m.blk[x.areaPage] = {x.areaPage}
  /\ "fork" \notin Ops /\ x.st = "live" => Owns(m, x)

Apart(x, y) == \A v, w \in VPages : x.pte[v] # NULL => x.pte[v] # y.pte[w]

Private(m, x, b) == \A v \in VPages : x.pte[v] # NULL /\ b[v] # Unset => m.content[x.pte[v]] = b[v]

\* What the tasks T with contents V are worth in memory m, without and with a panic
Sound(m, T, V, p) ==
  /\ m \in MemType /\ T \in [Tasks -> TaskType] /\ V \in [Tasks -> ViewType]
  /\ \A t \in Tasks : Shape(T[t])
  /\ ~SharedSection =>
       /\ \A t \in Tasks : Private(m, T[t], V[t])
       /\ p = NoPanic => /\ \A t \in Tasks : Separate(m, T[t])
                    /\ \A t, c \in Tasks : t # c => Apart(T[t], T[c])

Full(m, T) == \A f \in Frames : f \in m.hi \/ \E t \in Tasks, v \in VPages : T[t].pte[v] = f

AspaceIInv ==
  /\ machine \in Machines
  /\ Sound(mem, task, view, panic)
  /\ NothingLost

(* A step from m to m2 that only takes frames, and touches no other frame  *)
(* but those it takes.                                                     *)
Takes(m, m2) ==
  /\ m2.hi \subseteq m.hi
  /\ \A f \in Frames \ m.hi : m2.blk[f] = m.blk[f] /\ m2.content[f] = m.content[f]

\* A step that leaves the pages of x alone
Kept(m, m2, x) ==
  \A v \in VPages : x.pte[v] # NULL =>
    /\ x.pte[v] \notin m2.hi
    /\ m2.blk[x.pte[v]] = m.blk[x.pte[v]] /\ m2.content[x.pte[v]] = m.content[x.pte[v]]

\* The machine's frames are numbered from 1; NULL is none of them.
LEMMA FramesAre ==
  ASSUME machine \in Machines
  PROVE  Frames \subseteq Nat /\ NULL \notin Frames /\ machine.low \in Nat
<1>1. machine.high \in Nat /\ machine.low \in Nat
  BY AddressSpaceAssumptions, Zenon
<1>2. QED
  BY <1>1 DEF Frames, NULL

\* The frame buddy_alloc_pages takes is a free one.
LEMMA MinTaken ==
  ASSUME machine \in Machines, NEW H \in SUBSET Frames, H # {}
  PROVE  Min(H) \in H
<1>1. H \in SUBSET Nat
  BY FramesAre, Zenon
<1>2. \E x \in H : \A y \in H : x =< y
  BY <1>1, LeastElement, Zenon
<1>3. QED
  BY <1>2, Zenon DEF Min

LEMMA TakesKeeps ==
  ASSUME NEW m, NEW m2, NEW x \in TaskType, Takes(m, m2), Separate(m, x)
  PROVE  Kept(m, m2, x)
<1> SUFFICES ASSUME NEW v \in VPages, x.pte[v] # NULL
             PROVE  /\ x.pte[v] \notin m2.hi
                    /\ m2.blk[x.pte[v]] = m.blk[x.pte[v]] /\ m2.content[x.pte[v]] = m.content[x.pte[v]]
  BY Zenon DEF Kept
<1>1. x.pte[v] \in Frames \ m.hi
  BY Zenon DEF TaskType, FramePtr, Separate
<1>2. QED
  BY <1>1, Zenon DEF Takes

LEMMA TakesMore ==
  ASSUME NEW m, NEW m2, NEW m3, Takes(m, m2), Takes(m2, m3)
  PROVE  Takes(m, m3)
BY DEF Takes

LEMMA ApartBothWays ==
  ASSUME NEW x, NEW y, Apart(x, y)
  PROVE  Apart(y, x)
BY Zenon DEF Apart

\* A task whose pages are left alone is as sound as before.
LEMMA KeptIsSound ==
  ASSUME NEW m, NEW m2, NEW x \in TaskType, NEW b, Kept(m, m2, x), Shape(x)
  PROVE  /\ Private(m, x, b) => Private(m2, x, b)
         /\ Separate(m, x) => Separate(m2, x)
<1>1. Private(m, x, b) => Private(m2, x, b)
  BY Zenon DEF Private, Kept
<1>2. ASSUME Separate(m, x) PROVE Separate(m2, x)
  <2>1. \A v \in VPages : x.pte[v] # NULL => x.pte[v] \notin m2.hi
    BY Zenon DEF Kept
  <2>2. \A v, w \in VPages : x.pte[v] # NULL /\ x.pte[v] = x.pte[w] => v = w
    BY <1>2, Zenon DEF Separate
  <2>3. x.area = "mapped" => m2.blk[x.areaPage] = {x.areaPage}
    BY <1>2, Zenon DEF Separate, Shape, Kept, VPages
  <2>4. ASSUME "fork" \notin Ops, x.st = "live" PROVE Owns(m2, x)
    <3>1. Owns(m, x)
      BY <1>2, <2>4, Zenon DEF Separate
    <3>2. /\ x.pte["text"] # NULL /\ x.pte["tramp"] # NULL /\ x.pte["stack1"] # NULL
          /\ "text" \in VPages /\ "tramp" \in VPages /\ "stack1" \in VPages
      BY <3>1, Zenon DEF Owns, VPages
    <3>3. /\ m2.blk[x.pte["text"]] = m.blk[x.pte["text"]]
          /\ m2.blk[x.pte["tramp"]] = m.blk[x.pte["tramp"]]
          /\ m2.blk[x.pte["stack1"]] = m.blk[x.pte["stack1"]]
      BY <3>2, Zenon DEF Kept
    <3>4. QED
      BY <3>1, <3>3, Zenon DEF Owns
  <2>5. QED
    BY <2>1, <2>2, <2>3, <2>4, Zenon DEF Separate
<1>3. QED
  BY <1>1, <1>2, Zenon

(* A step that replaces one task by x, with contents b, is sound when x is *)
(* and when the pages of the others are left alone.                        *)
LEMMA OneTask ==
  ASSUME NEW m, NEW T, NEW V, Sound(m, T, V, NoPanic), NEW t \in Tasks,
         NEW m2 \in MemType, NEW x \in TaskType, NEW b \in ViewType, Shape(x), NEW p,
         ~SharedSection => /\ Private(m2, x, b) /\ Separate(m2, x)
                           /\ \A c \in Tasks \ {t} : Kept(m, m2, T[c]) /\ Apart(x, T[c])
  PROVE  Sound(m2, [T EXCEPT ![t] = x], [V EXCEPT ![t] = b], p)
<1>0. /\ T \in [Tasks -> TaskType] /\ V \in [Tasks -> ViewType] /\ \A c \in Tasks : Shape(T[c])
  BY Zenon DEF Sound
<1>1. PICK T2, V2 : T2 = [T EXCEPT ![t] = x] /\ V2 = [V EXCEPT ![t] = b]
  BY Zenon
<1>2. /\ T2 \in [Tasks -> TaskType] /\ V2 \in [Tasks -> ViewType]
      /\ T2[t] = x /\ V2[t] = b
      /\ \A c \in Tasks \ {t} : T2[c] = T[c] /\ V2[c] = V[c]
  BY <1>0, <1>1, Zenon
<1>3. \A c \in Tasks : Shape(T2[c])
  BY <1>0, <1>2, Zenon
<1>4. ASSUME ~SharedSection
      PROVE  /\ \A c \in Tasks : Private(m2, T2[c], V2[c])
             /\ \A c \in Tasks : Separate(m2, T2[c])
             /\ \A c, d \in Tasks : c # d => Apart(T2[c], T2[d])
  <2>1. /\ Private(m2, x, b) /\ Separate(m2, x)
        /\ \A c \in Tasks \ {t} : Kept(m, m2, T[c]) /\ Apart(x, T[c])
    BY <1>4, Zenon
  <2>2. /\ \A c \in Tasks : Private(m, T[c], V[c]) /\ Separate(m, T[c])
        /\ \A c, d \in Tasks : c # d => Apart(T[c], T[d])
    BY <1>4, Zenon DEF Sound
  <2>3. ASSUME NEW c \in Tasks PROVE Private(m2, T2[c], V2[c]) /\ Separate(m2, T2[c])
    <3>1. CASE c = t
      BY <1>2, <2>1, <3>1, Zenon
    <3>2. CASE c # t
      BY <1>0, <1>2, <2>1, <2>2, <3>2, KeptIsSound, Zenon
    <3>3. QED
      BY <3>1, <3>2, Zenon
  <2>4. ASSUME NEW c \in Tasks, NEW d \in Tasks, c # d PROVE Apart(T2[c], T2[d])
    <3>1. CASE c = t
      BY <1>2, <2>1, <2>4, <3>1, Zenon
    <3>2. CASE d = t
      <4>1. Apart(x, T[c])
        BY <2>1, <2>4, <3>2, Zenon
      <4>2. QED
        BY <1>2, <2>4, <3>2, <4>1, ApartBothWays, Zenon
    <3>3. CASE c # t /\ d # t
      BY <1>2, <2>2, <2>4, <3>3, Zenon
    <3>4. QED
      BY <3>1, <3>2, <3>3, Zenon
  <2>5. QED
    BY <2>3, <2>4, Zenon
<1>5. Sound(m2, T2, V2, p)
  BY <1>2, <1>3, <1>4, Zenon DEF Sound
<1>6. QED
  BY <1>1, <1>5, Zenon

\* So is a step that takes frames and gives a task pages among these.
LEMMA OneTaskTakes ==
  ASSUME NEW m, NEW T, NEW V, Sound(m, T, V, NoPanic), NEW t \in Tasks,
         NEW m2 \in MemType, NEW x \in TaskType, NEW b \in ViewType, Shape(x), NEW p,
         Takes(m, m2), ~SharedSection => Private(m2, x, b) /\ Separate(m2, x),
         \A v \in VPages : x.pte[v] # NULL => x.pte[v] \in m.hi
  PROVE  Sound(m2, [T EXCEPT ![t] = x], [V EXCEPT ![t] = b], p)
<1>1. ASSUME ~SharedSection, NEW c \in Tasks \ {t} PROVE Kept(m, m2, T[c]) /\ Apart(x, T[c])
  <2>1. T[c] \in TaskType /\ Separate(m, T[c])
    BY <1>1, Zenon DEF Sound
  <2>2. Kept(m, m2, T[c])
    BY <2>1, TakesKeeps, Zenon
  <2>3. Apart(x, T[c])
    BY <2>1, Zenon DEF Apart, Separate
  <2>4. QED
    BY <2>2, <2>3, Zenon
<1>2. QED
  BY <1>1, OneTask, Zenon

\* And one that takes frames for nobody, as a fork that fails does.
LEMMA NoTaskTakes ==
  ASSUME NEW m, NEW T, NEW V, Sound(m, T, V, NoPanic), NEW m2 \in MemType, NEW p, Takes(m, m2)
  PROVE  Sound(m2, T, V, p)
<1>0. /\ T \in [Tasks -> TaskType] /\ V \in [Tasks -> ViewType] /\ \A c \in Tasks : Shape(T[c])
  BY Zenon DEF Sound
<1>1. ASSUME ~SharedSection, NEW c \in Tasks PROVE Private(m2, T[c], V[c]) /\ Separate(m2, T[c])
  <2>1. Private(m, T[c], V[c]) /\ Separate(m, T[c])
    BY <1>1, Zenon DEF Sound
  <2>2. Kept(m, m2, T[c])
    BY <1>0, <2>1, TakesKeeps, Zenon
  <2>3. QED
    BY <1>0, <2>1, <2>2, KeptIsSound, Zenon
<1>2. ~SharedSection => \A c, d \in Tasks : c # d => Apart(T[c], T[d])
  BY Zenon DEF Sound
<1>3. QED
  BY <1>0, <1>1, <1>2, Zenon DEF Sound

\* The table for a page is counted when the task gets it.
LEMMA NewTable ==
  ASSUME NEW S \in SUBSET Tables, NEW v
  PROVE  /\ S \cup ({Table(v)} \ S) \in SUBSET Tables
         /\ Cardinality(S) \in Nat /\ Cardinality({Table(v)} \ S) \in 0 .. 1
         /\ Cardinality(S \cup ({Table(v)} \ S)) = Cardinality(S) + Cardinality({Table(v)} \ S)
<1>1. Table(v) \in Tables
  BY Zenon DEF Table, Tables
<1>2. IsFiniteSet(Tables)
  <2>1. IsFiniteSet({"bottom"})
    BY FS_Singleton, Zenon
  <2>2. IsFiniteSet({"bottom"} \cup {"top"})
    BY <2>1, FS_AddElement, Zenon
  <2>3. Tables = {"bottom"} \cup {"top"}
    BY Zenon DEF Tables
  <2>4. QED
    BY <2>2, <2>3, Zenon
<1>3. IsFiniteSet(S) /\ Cardinality(S) \in Nat
  BY <1>2, FS_Subset, FS_CardinalityType, Zenon
<1>4. CASE Table(v) \in S
  <2>1. {Table(v)} \ S = {} /\ S \cup ({Table(v)} \ S) = S
    BY <1>4, Zenon
  <2>2. Cardinality({}) = 0
    BY FS_EmptySet, Zenon
  <2>3. /\ Cardinality({Table(v)} \ S) = 0
        /\ Cardinality(S \cup ({Table(v)} \ S)) = Cardinality(S)
    BY <2>1, <2>2, Zenon
  <2>4. S \cup ({Table(v)} \ S) \in SUBSET Tables
    BY <2>1, Zenon
  <2>5. QED
    BY <1>3, <2>3, <2>4
<1>5. CASE Table(v) \notin S
  <2>1. {Table(v)} \ S = {Table(v)} /\ S \cup ({Table(v)} \ S) = S \cup {Table(v)}
    BY <1>5, Zenon
  <2>2. Cardinality({Table(v)}) = 1
    BY FS_Singleton, Zenon
  <2>3. Cardinality(S \cup {Table(v)}) = Cardinality(S) + 1
    BY <1>3, <1>5, FS_AddElement, Zenon
  <2>4. QED
    BY <1>1, <1>3, <2>1, <2>2, <2>3
<1>6. QED
  BY <1>4, <1>5, Zenon

\* What the tables cost is neither lost nor charged twice.
SameLow(m, x, m2, x2) ==
  /\ x2.tables \in SUBSET Tables
  /\ m2.low + Cardinality(x2.tables) = m.low + Cardinality(x.tables)

SameTask(x, x2) == x2.st = x.st /\ x2.area = x.area /\ x2.areaPage = x.areaPage

(* What map_section does when it succeeds: the block of the section is     *)
(* one frame, or two for the stack, that were free.                        *)
MapsOne(m, x, r, s, f) ==
  /\ f \in m.hi /\ r.m.hi = m.hi \ {f}
  /\ r.m.blk = [m.blk EXCEPT ![f] = {f}] /\ r.m.content = [m.content EXCEPT ![f] = 0]
  /\ r.t.pte = [x.pte EXCEPT ![s] = f] /\ r.t.sec = [x.sec EXCEPT ![s] = f]

MapsTwo(m, x, r, f, g) ==
  /\ f \in m.hi /\ g \in m.hi /\ f # g /\ r.m.hi = m.hi \ {f, g}
  /\ r.m.blk = [m.blk EXCEPT ![f] = {f, g}] /\ r.m.content = [m.content EXCEPT ![f] = 0, ![g] = 0]
  /\ r.t.pte = [x.pte EXCEPT !["stack1"] = f, !["stack2"] = g] /\ r.t.sec = [x.sec EXCEPT !["stack"] = f]

LEMMA MapSectionFails ==
  ASSUME NEW m, NEW x, NEW s, NEW ok, ~map_section(m, x, s, ok).ok
  PROVE  map_section(m, x, s, ok).m = m /\ map_section(m, x, s, ok).t = x
<1>1. PICK r : r = map_section(m, x, s, ok)
  BY Zenon
<1>2. r.m = m /\ r.t = x
  BY <1>1, Zenon DEF map_section
<1>3. QED
  BY <1>1, <1>2, Zenon

LEMMA MapSectionSucceeds ==
  ASSUME machine \in Machines, NEW m \in MemType, NEW x \in TaskType, NEW s \in Sections, NEW ok,
         map_section(m, x, s, ok).ok
  PROVE  LET r == map_section(m, x, s, ok)
         IN  /\ SameLow(m, x, r.m, r.t) /\ r.m \in MemType /\ r.t \in TaskType /\ SameTask(x, r.t)
             /\ s # "stack" => \E f : MapsOne(m, x, r, s, f)
             /\ s = "stack" => \E f, g : MapsTwo(m, x, r, f, g)
<1> DEFINE tab  == {Table(s)} \ x.tables
           f    == Min(m.hi)
           g    == Min(m.hi \ {f})
           pool == IF s = "stack" THEN {f, g} ELSE {f}
<1>1. PICK r : r = map_section(m, x, s, ok)
  BY Zenon
<1>2. /\ m.hi # {} /\ (s = "stack" => m.hi # {f})
      /\ r = [ok |-> TRUE,
              m  |-> [Taken(m, f, pool) EXCEPT !.low = @ - Cardinality(tab),
                                               !.content = [h \in Frames |-> IF h \in pool THEN 0 ELSE @[h]]],
              t  |-> [x EXCEPT !.tables = @ \cup tab, !.sec[s] = f,
                               !.pte = IF s = "stack" THEN [@ EXCEPT !["stack1"] = f, !["stack2"] = g]
                                       ELSE [@ EXCEPT ![s] = f]]]
  BY <1>1, Zenon DEF map_section
<1>3. m.hi \in SUBSET Frames /\ m.low \in Int /\ m.blk \in [Frames -> SUBSET Frames] /\ m.content \in [Frames -> {0, 1}]
  BY Zenon DEF MemType
<1>4. f \in m.hi /\ (s = "stack" => g \in m.hi /\ g # f)
  <2>1. f \in m.hi
    BY <1>2, <1>3, MinTaken, Zenon
  <2>2. ASSUME s = "stack" PROVE g \in m.hi /\ g # f
    <3>1. m.hi \ {f} # {} /\ m.hi \ {f} \in SUBSET Frames
      BY <1>2, <1>3, <2>1, <2>2, Zenon
    <3>2. QED
      BY <3>1, MinTaken, Zenon
  <2>3. QED
    BY <2>1, <2>2, Zenon
<1>5. PICK a, b, P, C : a = f /\ b = g /\ P = pool /\ C = tab
  BY Zenon
<1>6. a \in m.hi /\ (s = "stack" => b \in m.hi /\ b # a) /\ P = (IF s = "stack" THEN {a, b} ELSE {a})
  BY <1>4, <1>5, Zenon
<1>7. /\ r.m.hi = m.hi \ P /\ r.m.blk = [m.blk EXCEPT ![a] = P] /\ r.m.low = m.low - Cardinality(C)
      /\ r.m.content = [h \in Frames |-> IF h \in P THEN 0 ELSE m.content[h]]
      /\ r.t.tables = x.tables \cup C /\ r.t.sec = [x.sec EXCEPT ![s] = a]
      /\ r.t.pte = IF s = "stack" THEN [x.pte EXCEPT !["stack1"] = a, !["stack2"] = b] ELSE [x.pte EXCEPT ![s] = a]
      /\ SameTask(x, r.t)
      /\ r.m = [hi |-> r.m.hi, low |-> r.m.low, blk |-> r.m.blk, content |-> r.m.content]
      /\ r.t = [st |-> r.t.st, tables |-> r.t.tables, pte |-> r.t.pte, sec |-> r.t.sec, area |-> r.t.area,
                areaPage |-> r.t.areaPage]
  <2>1. /\ m = [hi |-> m.hi, low |-> m.low, blk |-> m.blk, content |-> m.content]
        /\ x = [st |-> x.st, tables |-> x.tables, pte |-> x.pte, sec |-> x.sec, area |-> x.area,
                areaPage |-> x.areaPage]
    BY Zenon DEF MemType, TaskType
  <2>2. QED
    BY <1>2, <1>5, <2>1, Zenon DEF Taken, SameTask
<1>8. SameLow(m, x, r.m, r.t)
  <2>1. x.tables \in SUBSET Tables
    BY Zenon DEF TaskType
  <2>2. /\ x.tables \cup C \in SUBSET Tables /\ Cardinality(x.tables) \in Nat /\ Cardinality(C) \in 0 .. 1
        /\ Cardinality(x.tables \cup C) = Cardinality(x.tables) + Cardinality(C)
    BY <1>5, <2>1, NewTable, Zenon
  <2>3. QED
    BY <1>3, <1>7, <2>2 DEF SameLow
<1>9. Cardinality(C) \in Nat
  <2>1. x.tables \in SUBSET Tables
    BY Zenon DEF TaskType
  <2>2. Cardinality(C) \in 0 .. 1
    BY <1>5, <2>1, NewTable, Zenon
  <2>3. QED
    BY <2>2
<1>10. r.m \in MemType
  <2>1. r.m.hi \in SUBSET Frames /\ r.m.low \in Int
    BY <1>3, <1>7, <1>9
  <2>2. r.m.blk \in [Frames -> SUBSET Frames] /\ r.m.content \in [Frames -> {0, 1}]
    BY <1>3, <1>6, <1>7
  <2>3. QED
    BY <1>7, <2>1, <2>2, Zenon DEF MemType
<1>11. r.t \in TaskType
  <2>1. /\ x.pte \in [VPages -> FramePtr] /\ x.sec \in [Sections -> FramePtr]
        /\ x.st \in {"none", "live", "zombie"} /\ x.area \in {"none", "free", "lazy", "mapped"}
        /\ x.areaPage \in FramePtr
    BY Zenon DEF TaskType
  <2>2. a \in FramePtr /\ (s = "stack" => b \in FramePtr)
    BY <1>3, <1>6, Zenon DEF FramePtr
  <2>3. r.t.pte \in [VPages -> FramePtr]
    <3>1. CASE s = "stack"
      <4>1. r.t.pte = [x.pte EXCEPT !["stack1"] = a, !["stack2"] = b]
        BY <1>7, <3>1, Zenon
      <4>2. QED
        BY <2>1, <2>2, <3>1, <4>1, Zenon
    <3>2. CASE s # "stack"
      <4>1. r.t.pte = [x.pte EXCEPT ![s] = a]
        BY <1>7, <3>2, Zenon
      <4>2. QED
        BY <2>1, <2>2, <4>1, Zenon
    <3>3. QED
      BY <3>1, <3>2, Zenon
  <2>4. r.t.sec \in [Sections -> FramePtr]
    BY <1>7, <2>1, <2>2
  <2>5. r.t.tables \in SUBSET Tables
    BY <1>8, Zenon DEF SameLow
  <2>6. r.t.st = x.st /\ r.t.area = x.area /\ r.t.areaPage = x.areaPage
    BY <1>7, Zenon DEF SameTask
  <2>7. QED
    BY <1>7, <2>1, <2>3, <2>4, <2>5, <2>6, Zenon DEF TaskType
<1>12. ASSUME s # "stack" PROVE MapsOne(m, x, r, s, a)
  <2>1. P = {a}
    BY <1>6, <1>12, Zenon
  <2>2. r.m.content = [m.content EXCEPT ![a] = 0]
    BY <1>3, <1>7, <2>1
  <2>3. QED
    BY <1>6, <1>7, <1>12, <2>1, <2>2, Zenon DEF MapsOne
<1>13. ASSUME s = "stack" PROVE MapsTwo(m, x, r, a, b)
  <2>1. P = {a, b}
    BY <1>6, <1>13, Zenon
  <2>2. r.m.content = [m.content EXCEPT ![a] = 0, ![b] = 0]
    BY <1>3, <1>7, <2>1, Zenon
  <2>3. QED
    BY <1>6, <1>7, <1>13, <2>1, <2>2, Zenon DEF MapsTwo
<1>14. QED
  BY <1>1, <1>7, <1>8, <1>10, <1>11, <1>12, <1>13, Zenon

\* One attempt to map a section, whatever comes of it.
Mapping(m, x, r) ==
  /\ r.m \in MemType /\ r.t \in TaskType
  /\ SameLow(m, x, r.m, r.t) /\ SameTask(x, r.t) /\ Takes(m, r.m)

LEMMA MapsTake ==
  ASSUME NEW m \in MemType, NEW x, NEW r, NEW s, NEW f, NEW g, MapsOne(m, x, r, s, f) \/ MapsTwo(m, x, r, f, g)
  PROVE  Takes(m, r.m)
<1>1. m.hi \in SUBSET Frames /\ m.blk \in [Frames -> SUBSET Frames] /\ m.content \in [Frames -> {0, 1}]
  BY Zenon DEF MemType
<1>2. CASE MapsOne(m, x, r, s, f)
  BY <1>1, <1>2, Zenon DEF MapsOne, Takes
<1>3. CASE MapsTwo(m, x, r, f, g)
  BY <1>1, <1>3, Zenon DEF MapsTwo, Takes
<1>4. QED
  BY <1>2, <1>3, Zenon

LEMMA MapSection ==
  ASSUME machine \in Machines, NEW m \in MemType, NEW x \in TaskType, NEW s \in Sections, NEW ok
  PROVE  Mapping(m, x, map_section(m, x, s, ok))
<1>1. PICK r : r = map_section(m, x, s, ok)
  BY Zenon
<1>2. CASE ~r.ok
  <2>1. r.m = m /\ r.t = x
    BY <1>1, <1>2, MapSectionFails
  <2>2. x.tables \in SUBSET Tables
    BY Zenon DEF TaskType
  <2>3. QED
    BY <1>1, <2>1, <2>2, Zenon DEF Mapping, SameLow, SameTask, Takes
<1>3. CASE r.ok
  <2>1. /\ SameLow(m, x, r.m, r.t) /\ r.m \in MemType /\ r.t \in TaskType /\ SameTask(x, r.t)
        /\ s # "stack" => \E f : MapsOne(m, x, r, s, f)
        /\ s = "stack" => \E f, g : MapsTwo(m, x, r, f, g)
    BY <1>1, <1>3, MapSectionSucceeds, Zenon
  <2>2. PICK f, g : MapsOne(m, x, r, s, f) \/ MapsTwo(m, x, r, f, g)
    BY <2>1, Zenon
  <2>3. Takes(m, r.m)
    BY <2>2, MapsTake, Zenon
  <2>4. QED
    BY <1>1, <2>1, <2>3, Zenon DEF Mapping
<1>4. QED
  BY <1>2, <1>3, Zenon

LEMMA MapNext ==
  ASSUME machine \in Machines, NEW m, NEW x, NEW r, Mapping(m, x, r), NEW s \in Sections, NEW ok
  PROVE  Mapping(m, x, map_next(r, s, ok))
<1>1. PICK q : q = map_next(r, s, ok)
  BY Zenon
<1>2. CASE ~r.ok
  <2>1. q = r
    BY <1>1, <1>2, Zenon DEF map_next
  <2>2. QED
    BY <1>1, <2>1, Zenon
<1>3. CASE r.ok
  <2>1. q = map_section(r.m, r.t, s, ok)
    BY <1>1, <1>3, Zenon DEF map_next
  <2>2. Mapping(r.m, r.t, q)
    BY <2>1, MapSection, Zenon DEF Mapping
  <2>3. Takes(m, q.m)
    BY <2>2, TakesMore, Zenon DEF Mapping
  <2>4. SameLow(m, x, q.m, q.t) /\ SameTask(x, q.t)
    BY <2>2, Zenon DEF Mapping, SameLow, SameTask
  <2>5. QED
    BY <1>1, <2>2, <2>3, <2>4, Zenon DEF Mapping
<1>4. QED
  BY <1>2, <1>3, Zenon

(* The sections one after the other: text at a, the stack at b and c, the  *)
(* trampoline at d.                                                        *)
StackMapped(m, x, r, a, b, c) ==
  /\ a \in m.hi /\ b \in m.hi /\ c \in m.hi /\ a # b /\ a # c /\ b # c
  /\ r.m.hi = m.hi \ {a, b, c}
  /\ r.m.blk[a] = {a} /\ r.m.blk[b] = {b, c}
  /\ r.m.content[a] = 0 /\ r.m.content[b] = 0 /\ r.m.content[c] = 0
  /\ r.t.sec["text"] = a /\ r.t.sec["stack"] = b /\ r.t.sec["tramp"] = x.sec["tramp"]
  /\ r.t.pte["text"] = a /\ r.t.pte["stack1"] = b /\ r.t.pte["stack2"] = c /\ r.t.pte["heap"] = x.pte["heap"]

AllMapped(m, x, r, a, b, c, d) ==
  /\ a \in m.hi /\ b \in m.hi /\ c \in m.hi /\ d \in m.hi
  /\ a # b /\ a # c /\ a # d /\ b # c /\ b # d /\ c # d
  /\ r.m.hi = m.hi \ {a, b, c, d}
  /\ r.m.blk[a] = {a} /\ r.m.blk[b] = {b, c} /\ r.m.blk[d] = {d}
  /\ r.m.content[a] = 0 /\ r.m.content[b] = 0 /\ r.m.content[c] = 0 /\ r.m.content[d] = 0
  /\ r.t.sec["text"] = a /\ r.t.sec["stack"] = b /\ r.t.sec["tramp"] = d
  /\ r.t.pte["text"] = a /\ r.t.pte["stack1"] = b /\ r.t.pte["stack2"] = c /\ r.t.pte["tramp"] = d
  /\ r.t.pte["heap"] = x.pte["heap"]

LEMMA StackAfterText ==
  ASSUME NEW m \in MemType, NEW x \in TaskType, NEW r, NEW a, MapsOne(m, x, r, "text", a),
         NEW q, NEW b, NEW c, MapsTwo(r.m, r.t, q, b, c)
  PROVE  StackMapped(m, x, q, a, b, c)
<1>1. /\ m.hi \in SUBSET Frames /\ m.blk \in [Frames -> SUBSET Frames] /\ m.content \in [Frames -> {0, 1}]
      /\ x.pte \in [VPages -> FramePtr] /\ x.sec \in [Sections -> FramePtr]
  BY Zenon DEF MemType, TaskType
<1>2. /\ a \in Frames /\ "text" \in VPages /\ "heap" \in VPages /\ "stack1" \in VPages /\ "stack2" \in VPages
      /\ "text" \in Sections /\ "stack" \in Sections /\ "tramp" \in Sections
  BY <1>1, Zenon DEF MapsOne, VPages, Sections
<1>3. /\ a \in m.hi /\ b \in m.hi /\ c \in m.hi /\ a # b /\ a # c /\ b # c /\ b \in Frames /\ c \in Frames
      /\ q.m.hi = m.hi \ {a, b, c}
  BY <1>1, Zenon DEF MapsOne, MapsTwo
<1>4. q.m.blk[a] = {a} /\ q.m.blk[b] = {b, c}
  BY <1>1, <1>2, <1>3 DEF MapsOne, MapsTwo
<1>5. q.m.content[a] = 0 /\ q.m.content[b] = 0 /\ q.m.content[c] = 0
  BY <1>1, <1>2, <1>3 DEF MapsOne, MapsTwo
<1>6. q.t.sec["text"] = a /\ q.t.sec["stack"] = b /\ q.t.sec["tramp"] = x.sec["tramp"]
  BY <1>1, <1>2 DEF MapsOne, MapsTwo
<1>7. q.t.pte["text"] = a /\ q.t.pte["stack1"] = b /\ q.t.pte["stack2"] = c /\ q.t.pte["heap"] = x.pte["heap"]
  BY <1>1, <1>2 DEF MapsOne, MapsTwo
<1>8. QED
  BY <1>3, <1>4, <1>5, <1>6, <1>7, Zenon DEF StackMapped

LEMMA TrampolineAfterStack ==
  ASSUME NEW m \in MemType, NEW x, NEW r, r.m \in MemType, r.t \in TaskType,
         NEW a, NEW b, NEW c, StackMapped(m, x, r, a, b, c), NEW q, NEW d, MapsOne(r.m, r.t, q, "tramp", d)
  PROVE  AllMapped(m, x, q, a, b, c, d)
<1>1. /\ m.hi \in SUBSET Frames /\ r.m.blk \in [Frames -> SUBSET Frames] /\ r.m.content \in [Frames -> {0, 1}]
      /\ r.t.pte \in [VPages -> FramePtr] /\ r.t.sec \in [Sections -> FramePtr]
  BY Zenon DEF MemType, TaskType
<1>2. /\ "text" \in VPages /\ "heap" \in VPages /\ "stack1" \in VPages /\ "stack2" \in VPages /\ "tramp" \in VPages
      /\ "text" \in Sections /\ "stack" \in Sections /\ "tramp" \in Sections
  BY Zenon DEF VPages, Sections
<1>3. /\ a \in m.hi /\ b \in m.hi /\ c \in m.hi /\ a # b /\ a # c /\ b # c
      /\ d \in m.hi /\ d # a /\ d # b /\ d # c /\ q.m.hi = m.hi \ {a, b, c, d}
      /\ a \in Frames /\ b \in Frames /\ c \in Frames /\ d \in Frames
  BY <1>1 DEF MapsOne, StackMapped
<1>4. q.m.blk[a] = {a} /\ q.m.blk[b] = {b, c} /\ q.m.blk[d] = {d}
  BY <1>1, <1>3 DEF MapsOne, StackMapped
<1>5. q.m.content[a] = 0 /\ q.m.content[b] = 0 /\ q.m.content[c] = 0 /\ q.m.content[d] = 0
  BY <1>1, <1>3 DEF MapsOne, StackMapped
<1>6. q.t.sec["text"] = a /\ q.t.sec["stack"] = b /\ q.t.sec["tramp"] = d
  BY <1>1, <1>2 DEF MapsOne, StackMapped
<1>7. /\ q.t.pte["text"] = a /\ q.t.pte["stack1"] = b /\ q.t.pte["stack2"] = c /\ q.t.pte["heap"] = x.pte["heap"]
      /\ q.t.pte["tramp"] = d
  BY <1>1, <1>2, Zenon DEF MapsOne, StackMapped
<1>8. QED
  BY <1>3, <1>4, <1>5, <1>6, <1>7, Zenon DEF AllMapped

(* map_sections: all of them, or those in front of the first that failed.  *)
LEMMA MapSections ==
  ASSUME machine \in Machines, NEW m \in MemType, NEW x \in TaskType, NEW ok
  PROVE  LET r == map_sections(m, x, ok)
         IN  /\ Mapping(m, x, r)
             /\ r.ok => \E a, b, c, d : AllMapped(m, x, r, a, b, c, d)
             /\ ~r.ok => \/ r.m = m /\ r.t = x
                         \/ \E a : MapsOne(m, x, r, "text", a)
                         \/ \E a, b, c : StackMapped(m, x, r, a, b, c)
<1>1. PICK r1 : r1 = map_section(m, x, "text", ok["text"])
  BY Zenon
<1>2. PICK r2 : r2 = map_next(r1, "stack", ok["stack"])
  BY Zenon
<1>3. PICK r : r = map_next(r2, "tramp", ok["tramp"])
  BY Zenon
<1>4. r = map_sections(m, x, ok)
  BY <1>1, <1>2, <1>3, Zenon DEF map_sections
<1>5. "text" \in Sections /\ "stack" \in Sections /\ "tramp" \in Sections
  BY Zenon DEF Sections
<1>6. Mapping(m, x, r1)
  BY <1>1, <1>5, MapSection, Zenon
<1>7. Mapping(m, x, r2)
  BY <1>2, <1>5, <1>6, MapNext, Zenon
<1>8. Mapping(m, x, r)
  BY <1>3, <1>5, <1>7, MapNext, Zenon
<1>9. CASE ~r1.ok
  <2>1. r1.m = m /\ r1.t = x
    BY <1>1, <1>9, MapSectionFails
  <2>2. r2 = r1
    BY <1>2, <1>9, Zenon DEF map_next
  <2>3. r = r1
    BY <1>3, <1>9, <2>2, Zenon DEF map_next
  <2>4. QED
    BY <1>4, <1>8, <1>9, <2>1, <2>3, Zenon
<1>10. CASE r1.ok /\ ~r2.ok
  <2>1. PICK a : MapsOne(m, x, r1, "text", a)
    BY <1>1, <1>5, <1>10, MapSectionSucceeds, Zenon
  <2>2. r2 = map_section(r1.m, r1.t, "stack", ok["stack"])
    BY <1>2, <1>10, Zenon DEF map_next
  <2>3. r2.m = r1.m /\ r2.t = r1.t
    BY <1>10, <2>2, MapSectionFails
  <2>4. r = r2
    BY <1>3, <1>10, Zenon DEF map_next
  <2>5. MapsOne(m, x, r, "text", a)
    BY <2>1, <2>3, <2>4, Zenon DEF MapsOne
  <2>6. QED
    BY <1>4, <1>8, <1>10, <2>4, <2>5, Zenon
<1>11. CASE r1.ok /\ r2.ok
  <2>1. PICK a : MapsOne(m, x, r1, "text", a)
    BY <1>1, <1>5, <1>11, MapSectionSucceeds, Zenon
  <2>2. r2 = map_section(r1.m, r1.t, "stack", ok["stack"]) /\ r1.m \in MemType /\ r1.t \in TaskType
    BY <1>2, <1>6, <1>11, Zenon DEF map_next, Mapping
  <2>3. PICK b, c : MapsTwo(r1.m, r1.t, r2, b, c)
    BY <1>5, <1>11, <2>2, MapSectionSucceeds, Zenon
  <2>4. StackMapped(m, x, r2, a, b, c)
    BY <2>1, <2>3, StackAfterText, Zenon
  <2>5. r = map_section(r2.m, r2.t, "tramp", ok["tramp"]) /\ r2.m \in MemType /\ r2.t \in TaskType
    BY <1>3, <1>7, <1>11, Zenon DEF map_next, Mapping
  <2>6. CASE ~r.ok
    <3>1. r.m = r2.m /\ r.t = r2.t
      BY <2>5, <2>6, MapSectionFails
    <3>2. StackMapped(m, x, r, a, b, c)
      BY <2>4, <3>1, Zenon DEF StackMapped
    <3>3. QED
      BY <1>4, <1>8, <2>6, <3>2, Zenon
  <2>7. CASE r.ok
    <3>1. PICK d : MapsOne(r2.m, r2.t, r, "tramp", d)
      BY <1>5, <2>5, <2>7, MapSectionSucceeds, Zenon
    <3>2. AllMapped(m, x, r, a, b, c, d)
      BY <2>4, <2>5, <3>1, TrampolineAfterStack, Zenon
    <3>3. QED
      BY <1>4, <1>8, <2>7, <3>2, Zenon
  <2>8. QED
    BY <2>6, <2>7, Zenon
<1>12. QED
  BY <1>9, <1>10, <1>11, Zenon

\* Giving back frames, in particular the block at f, writes nothing to memory.
Frees(m, q) == q \in MemType /\ q.low = m.low /\ q.content = m.content

FreesAt(m, f, q) == q.hi = m.hi \cup m.blk[f] /\ q.blk = [m.blk EXCEPT ![f] = {}]

\* free_block gives back the block at f, or nothing.
LEMMA FreeBlock ==
  ASSUME NEW m \in MemType, NEW f \in Frames
  PROVE  /\ Frees(m, free_block(m, f))
         /\ f \notin m.hi /\ m.blk[f] # {} => FreesAt(m, f, free_block(m, f))
<1>1. /\ m = [hi |-> m.hi, low |-> m.low, blk |-> m.blk, content |-> m.content]
      /\ m.hi \in SUBSET Frames /\ m.low \in Int /\ m.blk \in [Frames -> SUBSET Frames]
      /\ m.content \in [Frames -> {0, 1}]
  BY Zenon DEF MemType
<1>2. PICK q : q = free_block(m, f)
  BY Zenon
<1>3. CASE BadFree(m, f)
  BY <1>2, <1>3, Zenon DEF free_block, BadFree, Frees
<1>4. CASE ~BadFree(m, f)
  <2>1. q = [m EXCEPT !.hi = @ \cup m.blk[f], !.blk[f] = {}]
    BY <1>2, <1>4, Zenon DEF free_block
  <2>2. /\ q = [hi |-> q.hi, low |-> q.low, blk |-> q.blk, content |-> q.content]
        /\ q.hi = m.hi \cup m.blk[f] /\ q.blk = [m.blk EXCEPT ![f] = {}]
        /\ q.low = m.low /\ q.content = m.content
    BY <1>1, <2>1, Zenon
  <2>3. q.hi \in SUBSET Frames /\ q.blk \in [Frames -> SUBSET Frames]
    BY <1>1, <2>2, Zenon
  <2>4. q \in MemType
    BY <1>1, <2>2, <2>3, Zenon DEF MemType
  <2>5. QED
    BY <1>2, <2>2, <2>4, Zenon DEF Frees, FreesAt
<1>5. QED
  BY <1>3, <1>4, Zenon

LEMMA FreeSection ==
  ASSUME NEW m \in MemType, NEW x \in TaskType, NEW s \in Sections
  PROVE  Frees(m, free_section(m, x, s))
<1>1. x.sec[s] \in Frames \cup {NULL}
  BY Zenon DEF TaskType, FramePtr
<1>2. CASE x.sec[s] = NULL
  BY <1>2, Zenon DEF free_section, Frees
<1>3. CASE x.sec[s] # NULL
  <2>1. PICK f : f = x.sec[s]
    BY Zenon
  <2>2. f \in Frames /\ free_section(m, x, s) = free_block(m, f)
    BY <1>1, <1>3, <2>1, Zenon DEF free_section
  <2>3. QED
    BY <2>2, FreeBlock, Zenon
<1>4. QED
  BY <1>2, <1>3, Zenon

LEMMA FreeSections ==
  ASSUME NEW m \in MemType, NEW x \in TaskType
  PROVE  Frees(m, free_sections(m, x))
<1>1. "text" \in Sections /\ "stack" \in Sections /\ "tramp" \in Sections
  BY Zenon DEF Sections
<1>2. PICK q1 : q1 = free_section(m, x, "text")
  BY Zenon
<1>3. PICK q2 : q2 = free_section(q1, x, "stack")
  BY Zenon
<1>4. PICK q : q = free_section(q2, x, "tramp")
  BY Zenon
<1>5. Frees(m, q1)
  BY <1>1, <1>2, FreeSection, Zenon
<1>6. Frees(q1, q2)
  BY <1>1, <1>3, <1>5, FreeSection, Zenon DEF Frees
<1>7. Frees(q2, q)
  BY <1>1, <1>4, <1>6, FreeSection, Zenon DEF Frees
<1>8. q = free_sections(m, x)
  BY <1>2, <1>3, <1>4, Zenon DEF free_sections
<1>9. QED
  BY <1>5, <1>6, <1>7, <1>8, Zenon DEF Frees

\* A section whose block is {f} or {f, g}
LEMMA FreeOwnSection ==
  ASSUME machine \in Machines, NEW m \in MemType, NEW x \in TaskType, NEW s \in Sections,
         NEW f \in Frames, x.sec[s] = f, f \notin m.hi, m.blk[f] # {}
  PROVE  Frees(m, free_section(m, x, s)) /\ FreesAt(m, f, free_section(m, x, s))
<1>1. f # NULL
  BY FramesAre, Zenon
<1>2. free_section(m, x, s) = free_block(m, f)
  BY <1>1, Zenon DEF free_section
<1>3. QED
  BY <1>2, FreeBlock, Zenon

(* What a creation that failed gives back: the sections mapped so far, so  *)
(* that all frames are free again.                                         *)
LEMMA UndoSections ==
  ASSUME machine \in Machines, NEW m \in MemType, NEW x, NEW r, r.m \in MemType, r.t \in TaskType,
         Takes(m, r.m), x.sec["text"] = NULL, x.sec["stack"] = NULL, x.sec["tramp"] = NULL,
         x.sec \in [Sections -> FramePtr],
         \/ r.m = m /\ r.t = x
         \/ \E a : MapsOne(m, x, r, "text", a)
         \/ \E a, b, c : StackMapped(m, x, r, a, b, c)
  PROVE  Takes(m, free_sections(r.m, r.t)) /\ free_sections(r.m, r.t).hi = m.hi
<1>0. /\ "text" \in Sections /\ "stack" \in Sections /\ "tramp" \in Sections
      /\ m.hi \in SUBSET Frames /\ m.blk \in [Frames -> SUBSET Frames] /\ r.m.blk \in [Frames -> SUBSET Frames]
  BY Zenon DEF Sections, MemType
<1>1. PICK q1 : q1 = free_section(r.m, r.t, "text")
  BY Zenon
<1>2. PICK q2 : q2 = free_section(q1, r.t, "stack")
  BY Zenon
<1>3. PICK q : q = free_section(q2, r.t, "tramp")
  BY Zenon
<1>4. q = free_sections(r.m, r.t)
  BY <1>1, <1>2, <1>3, Zenon DEF free_sections
<1>5. r.t.sec["tramp"] = NULL
  <2>1. CASE \E a : MapsOne(m, x, r, "text", a)
    BY <1>0, <2>1, Zenon DEF MapsOne
  <2>2. CASE \E a, b, c : StackMapped(m, x, r, a, b, c)
    BY <2>2, Zenon DEF StackMapped
  <2>3. QED
    BY <2>1, <2>2, Zenon
<1>6. q = q2
  BY <1>3, <1>5, Zenon DEF free_section
<1>7. CASE r.m = m /\ r.t = x
  <2>1. q1 = m
    BY <1>1, <1>7, Zenon DEF free_section
  <2>2. q2 = m
    BY <1>2, <1>7, <2>1, Zenon DEF free_section
  <2>3. QED
    BY <1>4, <1>6, <2>2, Zenon DEF Takes
<1>8. CASE \E a : MapsOne(m, x, r, "text", a)
  <2>1. PICK a : MapsOne(m, x, r, "text", a)
    BY <1>8, Zenon
  <2>2. /\ a \in Frames /\ a \in m.hi /\ r.m.hi = m.hi \ {a} /\ r.m.blk[a] = {a}
        /\ r.t.sec["text"] = a /\ r.t.sec["stack"] = NULL
    BY <1>0, <2>1, Zenon DEF MapsOne
  <2>3. Frees(r.m, q1) /\ FreesAt(r.m, a, q1)
    BY <1>0, <1>1, <2>2, FreeOwnSection, Zenon
  <2>4. q2 = q1
    BY <1>2, <2>2, Zenon DEF free_section
  <2>5. q.hi = m.hi
    <3>1. q.hi = (m.hi \ {a}) \cup {a}
      BY <1>6, <2>2, <2>3, <2>4, Zenon DEF FreesAt
    <3>2. QED
      BY <2>2, <3>1
  <2>6. ASSUME NEW f \in Frames \ m.hi PROVE q.blk[f] = m.blk[f] /\ q.content[f] = m.content[f]
    <3>1. r.m.blk[f] = m.blk[f] /\ r.m.content[f] = m.content[f] /\ f # a
      BY <2>2, <2>6, Zenon DEF Takes
    <3>2. q.blk = [r.m.blk EXCEPT ![a] = {}] /\ q.content = r.m.content
      BY <1>6, <2>3, <2>4, Zenon DEF Frees, FreesAt
    <3>3. QED
      BY <1>0, <3>1, <3>2, Zenon
  <2>7. QED
    BY <1>4, <2>5, <2>6, Zenon DEF Takes
<1>9. CASE \E a, b, c : StackMapped(m, x, r, a, b, c)
  <2>1. PICK a, b, c : StackMapped(m, x, r, a, b, c)
    BY <1>9, Zenon
  <2>2. /\ a \in Frames /\ b \in Frames /\ a # b /\ a # c /\ a \in m.hi /\ b \in m.hi /\ c \in m.hi
        /\ r.m.hi = m.hi \ {a, b, c} /\ r.m.blk[a] = {a} /\ r.m.blk[b] = {b, c}
        /\ r.t.sec["text"] = a /\ r.t.sec["stack"] = b
    BY <1>0, <2>1, Zenon DEF StackMapped
  <2>3. Frees(r.m, q1) /\ FreesAt(r.m, a, q1)
    BY <1>0, <1>1, <2>2, FreeOwnSection, Zenon
  <2>4. q1 \in MemType /\ q1.hi = r.m.hi \cup {a} /\ q1.blk = [r.m.blk EXCEPT ![a] = {}]
    BY <2>2, <2>3, Zenon DEF Frees, FreesAt
  <2>5. q1.blk[b] = {b, c} /\ b \notin q1.hi
    BY <1>0, <2>2, <2>4, Zenon
  <2>6. Frees(q1, q2) /\ FreesAt(q1, b, q2)
    BY <1>0, <1>2, <2>2, <2>4, <2>5, FreeOwnSection, Zenon
  <2>7. q.hi = m.hi
    <3>1. q.hi = q1.hi \cup {b, c}
      BY <1>6, <2>5, <2>6, Zenon DEF FreesAt
    <3>2. QED
      BY <2>2, <2>4, <3>1
  <2>8. ASSUME NEW f \in Frames \ m.hi PROVE q.blk[f] = m.blk[f] /\ q.content[f] = m.content[f]
    <3>1. r.m.blk[f] = m.blk[f] /\ r.m.content[f] = m.content[f] /\ f # a /\ f # b
      BY <2>2, <2>8, Zenon DEF Takes
    <3>2. q.blk = [q1.blk EXCEPT ![b] = {}] /\ q.content = q1.content /\ q1.content = r.m.content
      BY <1>6, <2>3, <2>6, Zenon DEF Frees, FreesAt
    <3>3. q1.blk[f] = r.m.blk[f]
      BY <1>0, <2>4, <3>1, Zenon
    <3>4. q.blk[f] = q1.blk[f]
      BY <2>4, <3>1, <3>2, Zenon DEF MemType
    <3>5. QED
      BY <3>1, <3>2, <3>3, <3>4, Zenon
  <2>9. QED
    BY <1>4, <2>7, <2>8, Zenon DEF Takes
<1>10. QED
  BY <1>7, <1>8, <1>9, Zenon

(* userspace_create_new: new pages for text, stack and trampoline, or      *)
(* nothing.  (execve panics when it fails, so what becomes of the old      *)
(* trampoline does not matter then.)                                       *)
Creation(m, x, r) ==
  /\ r.m \in MemType
  /\ \A f \in Frames \ m.hi : r.m.content[f] = m.content[f]
  /\ r.ok => /\ r.t \in TaskType /\ Takes(m, r.m) /\ SameTask(x, r.t)
             /\ r.m.low + Cardinality(r.t.tables) = m.low - 1
             /\ \E y, a, b, c, d : y.pte["heap"] = NULL /\ AllMapped(m, y, r, a, b, c, d)
  /\ ~r.ok /\ x.sec["tramp"] = NULL => Takes(m, r.m) /\ r.m.hi = m.hi /\ r.m.low = m.low

LEMMA DestroyPd ==
  ASSUME NEW m \in MemType, NEW x, x.tables \in SUBSET Tables
  PROVE  LET q == destroy_user_pd(m, x)
         IN  /\ q \in MemType /\ q.hi = m.hi /\ q.blk = m.blk /\ q.content = m.content
             /\ q.low = m.low + Cardinality(x.tables) + 1
<1>1. /\ m = [hi |-> m.hi, low |-> m.low, blk |-> m.blk, content |-> m.content]
      /\ m.hi \in SUBSET Frames /\ m.low \in Int /\ m.blk \in [Frames -> SUBSET Frames]
      /\ m.content \in [Frames -> {0, 1}]
  BY Zenon DEF MemType
<1>2. Cardinality(x.tables) \in Nat
  BY NewTable, Zenon
<1>3. PICK q : q = destroy_user_pd(m, x)
  BY Zenon
<1>4. /\ q = [hi |-> q.hi, low |-> q.low, blk |-> q.blk, content |-> q.content]
      /\ q.hi = m.hi /\ q.blk = m.blk /\ q.content = m.content /\ q.low = m.low + Cardinality(x.tables) + 1
  BY <1>1, <1>3, Zenon DEF destroy_user_pd
<1>5. q \in MemType
  BY <1>1, <1>2, <1>4 DEF MemType
<1>6. QED
  BY <1>3, <1>4, <1>5, Zenon

LEMMA CreateNew ==
  ASSUME machine \in Machines, NEW m \in MemType, NEW x \in TaskType, NEW ok
  PROVE  Creation(m, x, userspace_create_new(m, x, ok))
<1>0. PICK e : e = userspace_create_new(m, x, ok)
  BY Zenon
<1>1. PICK y : y = [x EXCEPT !.tables = {}, !.pte = [v \in VPages |-> NULL],
                             !.sec = [@ EXCEPT !["text"] = NULL, !["stack"] = NULL]]
  BY Zenon
<1>2. PICK n : n = [m EXCEPT !.low = @ - 1]
  BY Zenon
<1>3. PICK r : r = map_sections(n, y, ok)
  BY Zenon
<1>4. e = IF m.low < 1 THEN [ok |-> FALSE, m |-> m, t |-> x]
          ELSE IF r.ok THEN r
          ELSE [ok |-> FALSE, m |-> destroy_user_pd(free_sections(r.m, r.t), r.t), t |-> r.t]
  BY <1>0, <1>1, <1>2, <1>3, Zenon DEF userspace_create_new
<1>5. /\ m = [hi |-> m.hi, low |-> m.low, blk |-> m.blk, content |-> m.content]
      /\ m.hi \in SUBSET Frames /\ m.low \in Int /\ m.blk \in [Frames -> SUBSET Frames]
      /\ m.content \in [Frames -> {0, 1}]
  BY Zenon DEF MemType
<1>6. n.hi = m.hi /\ n.low = m.low - 1 /\ n.blk = m.blk /\ n.content = m.content /\ n \in MemType
  <2>1. /\ n.hi = m.hi /\ n.low = m.low - 1 /\ n.blk = m.blk /\ n.content = m.content
        /\ n = [hi |-> n.hi, low |-> n.low, blk |-> n.blk, content |-> n.content]
    BY <1>2, <1>5, Zenon
  <2>2. QED
    BY <1>5, <2>1 DEF MemType
<1>7. /\ x = [st |-> x.st, tables |-> x.tables, pte |-> x.pte, sec |-> x.sec, area |-> x.area,
              areaPage |-> x.areaPage]
      /\ x.st \in {"none", "live", "zombie"} /\ x.area \in {"none", "free", "lazy", "mapped"}
      /\ x.areaPage \in FramePtr /\ x.sec \in [Sections -> FramePtr]
  BY Zenon DEF TaskType
<1>8. /\ y.tables = {} /\ y.pte = [v \in VPages |-> NULL] /\ SameTask(x, y)
      /\ y.sec = [x.sec EXCEPT !["text"] = NULL, !["stack"] = NULL]
      /\ y = [st |-> y.st, tables |-> y.tables, pte |-> y.pte, sec |-> y.sec, area |-> y.area,
              areaPage |-> y.areaPage]
  BY <1>1, <1>7, Zenon DEF SameTask
<1>9. y \in TaskType
  <2>1. y.pte \in [VPages -> FramePtr]
    BY <1>8, Zenon DEF FramePtr
  <2>2. y.sec \in [Sections -> FramePtr]
    BY <1>7, <1>8, Zenon DEF FramePtr
  <2>3. QED
    BY <1>7, <1>8, <2>1, <2>2, Zenon DEF TaskType, SameTask
<1>10. /\ y.pte["heap"] = NULL /\ y.sec["text"] = NULL /\ y.sec["stack"] = NULL
       /\ y.sec["tramp"] = x.sec["tramp"] /\ Cardinality(y.tables) = 0
  <2>1. Cardinality({}) = 0
    BY FS_EmptySet, Zenon
  <2>2. QED
    BY <1>7, <1>8, <2>1, Zenon DEF VPages, Sections
<1>11. /\ Mapping(n, y, r)
       /\ r.ok => \E a, b, c, d : AllMapped(n, y, r, a, b, c, d)
       /\ ~r.ok => \/ r.m = n /\ r.t = y
                   \/ \E a : MapsOne(n, y, r, "text", a)
                   \/ \E a, b, c : StackMapped(n, y, r, a, b, c)
  BY <1>3, <1>6, <1>9, MapSections, Zenon
<1>12. CASE m.low < 1
  <2>1. e = [ok |-> FALSE, m |-> m, t |-> x]
    BY <1>4, <1>12, Zenon
  <2>2. e.m = m /\ ~e.ok
    BY <2>1, Zenon
  <2>3. QED
    BY <1>0, <2>2, Zenon DEF Creation, Takes
<1>13. CASE ~(m.low < 1) /\ r.ok
  <2>1. e = r
    BY <1>4, <1>13, Zenon
  <2>2. Takes(m, r.m)
    BY <1>6, <1>11 DEF Mapping, Takes
  <2>3. SameTask(x, r.t)
    BY <1>8, <1>11, Zenon DEF Mapping, SameTask
  <2>4. r.m.low + Cardinality(r.t.tables) = m.low - 1
    BY <1>5, <1>6, <1>10, <1>11 DEF Mapping, SameLow
  <2>5. PICK a, b, c, d : AllMapped(n, y, r, a, b, c, d)
    BY <1>11, <1>13, Zenon
  <2>6. AllMapped(m, y, r, a, b, c, d)
    BY <1>6, <2>5, Zenon DEF AllMapped
  <2>7. QED
    BY <1>0, <1>10, <1>11, <1>13, <2>1, <2>2, <2>3, <2>4, <2>6, Zenon DEF Creation, Mapping, Takes
<1>14. CASE ~(m.low < 1) /\ ~r.ok
  <2>1. PICK q : q = free_sections(r.m, r.t)
    BY Zenon
  <2>2. Frees(r.m, q)
    BY <1>11, <2>1, FreeSections, Zenon DEF Mapping
  <2>3. r.t.tables \in SUBSET Tables /\ r.m.low + Cardinality(r.t.tables) = m.low - 1
    BY <1>5, <1>6, <1>10, <1>11 DEF Mapping, SameLow
  <2>4. PICK z : z = destroy_user_pd(q, r.t)
    BY Zenon
  <2>5. z \in MemType /\ z.hi = q.hi /\ z.blk = q.blk /\ z.content = q.content /\ z.low = q.low + Cardinality(r.t.tables) + 1
    BY <2>2, <2>3, <2>4, DestroyPd, Zenon DEF Frees
  <2>6. e = [ok |-> FALSE, m |-> z, t |-> r.t]
    BY <1>4, <1>14, <2>1, <2>4, Zenon
  <2>7. e.m = z /\ ~e.ok
    BY <2>6, Zenon
  <2>8. \A f \in Frames \ m.hi : z.content[f] = m.content[f]
    BY <1>6, <1>11, <2>2, <2>5 DEF Frees, Mapping, Takes
  <2>9. z.low = m.low
    <3>1. r.m.low \in Int /\ Cardinality(r.t.tables) \in Nat /\ q.low = r.m.low
      BY <1>11, <2>2, <2>3, NewTable, Zenon DEF Mapping, MemType, Frees
    <3>2. QED
      BY <1>5, <2>3, <2>5, <3>1
  <2>10. ASSUME x.sec["tramp"] = NULL PROVE Takes(m, z) /\ z.hi = m.hi
    <3>1. r.m \in MemType /\ r.t \in TaskType /\ Takes(n, r.m) /\ y.sec \in [Sections -> FramePtr]
      BY <1>9, <1>11, Zenon DEF Mapping, TaskType
    <3>2. Takes(n, q) /\ q.hi = n.hi
      BY <1>6, <1>10, <1>11, <1>14, <2>1, <2>10, <3>1, UndoSections, SMTT(30)
    <3>3. QED
      BY <1>6, <2>5, <3>2 DEF Takes
  <2>11. QED
    BY <1>0, <2>5, <2>7, <2>8, <2>9, <2>10, Zenon DEF Creation
<1>15. QED
  BY <1>12, <1>13, <1>14, Zenon

-----------------------------------------------------------------------------
\* The LOWMEM pages the tasks hold, and how many one task does
Held(T) == {tp \in Tasks \X LowPages : tp[2] \in Uses(T[tp[1]])}

LEMMA UsesCount ==
  ASSUME NEW x \in TaskType
  PROVE  /\ Uses(x) \in SUBSET LowPages /\ IsFiniteSet(Uses(x)) /\ Cardinality(Uses(x)) \in Nat
         /\ Cardinality(x.tables) \in Nat
         /\ x.st = "none" => Cardinality(Uses(x)) = 0
         /\ x.st = "zombie" => Cardinality(Uses(x)) = 2
         /\ x.st = "live" => Cardinality(Uses(x)) = 3 + Cardinality(x.tables)
<1>1. x.st \in {"none", "live", "zombie"} /\ x.tables \in SUBSET Tables
  BY Zenon DEF TaskType
<1>2. Uses(x) \in SUBSET LowPages
  BY <1>1, Zenon DEF Uses, LowPages
<1>3. IsFiniteSet(x.tables) /\ Cardinality(x.tables) \in Nat
  <2>1. IsFiniteSet({"bottom"}) /\ Tables = {"bottom"} \cup {"top"}
    BY FS_Singleton, Zenon DEF Tables
  <2>2. IsFiniteSet(Tables)
    BY <2>1, FS_AddElement, Zenon
  <2>3. QED
    BY <1>1, <2>2, FS_Subset, FS_CardinalityType, Zenon
<1>4. CASE x.st = "none"
  <2>1. Uses(x) = {}
    BY <1>4, Zenon DEF Uses
  <2>2. IsFiniteSet({}) /\ Cardinality({}) = 0
    BY FS_EmptySet, Zenon
  <2>3. QED
    BY <1>2, <1>3, <1>4, <2>1, <2>2
<1>5. IsFiniteSet({"kstack1", "kstack2"}) /\ Cardinality({"kstack1", "kstack2"}) = 2
  <2>1. IsFiniteSet({"kstack1"}) /\ Cardinality({"kstack1"}) = 1 /\ "kstack2" \notin {"kstack1"}
    BY FS_Singleton, Zenon
  <2>2. /\ IsFiniteSet({"kstack1"} \cup {"kstack2"})
        /\ Cardinality({"kstack1"} \cup {"kstack2"}) = 1 + 1
    BY <2>1, FS_AddElement, Zenon
  <2>3. {"kstack1"} \cup {"kstack2"} = {"kstack1", "kstack2"}
    BY Zenon
  <2>4. QED
    BY <2>2, <2>3
<1>6. CASE x.st = "zombie"
  <2>1. Uses(x) = {"kstack1", "kstack2"}
    BY <1>6, Zenon DEF Uses
  <2>2. QED
    BY <1>2, <1>3, <1>5, <1>6, <2>1
<1>7. CASE x.st = "live"
  <2>1. PICK S : S = {"kstack1", "kstack2"}
    BY Zenon
  <2>2. PICK A : A = x.tables \cup {"pd"}
    BY Zenon
  <2>3. "pd" \notin x.tables
    BY <1>1, Zenon DEF Tables
  <2>4. IsFiniteSet(A) /\ Cardinality(A) = Cardinality(x.tables) + 1
    BY <1>3, <2>2, <2>3, FS_AddElement, Zenon
  <2>5. Uses(x) = S \cup A
    BY <1>7, <2>1, <2>2, Zenon DEF Uses
  <2>6. S \cap A = {}
    BY <1>1, <2>1, <2>2, Zenon DEF Tables
  <2>7. Cardinality({}) = 0
    BY FS_EmptySet, Zenon
  <2>8. IsFiniteSet(S \cup A) /\ Cardinality(S \cup A) = Cardinality(S) + Cardinality(A) - Cardinality(S \cap A)
    BY <1>5, <2>1, <2>4, FS_Union, Zenon
  <2>9. QED
    BY <1>2, <1>3, <1>5, <1>7, <2>1, <2>4, <2>5, <2>6, <2>7, <2>8, SMTT(30)
<1>8. QED
  BY <1>1, <1>4, <1>6, <1>7, Zenon

\* Only the pages of the task that changes are counted anew.
LEMMA HeldPart ==
  ASSUME NEW T \in [Tasks -> TaskType], NEW t \in Tasks
  PROVE  LET R == {tp \in Held(T) : tp[1] # t}
         IN  IsFiniteSet(R) /\ Cardinality(R) \in Nat
             /\ Cardinality(Held(T)) = Cardinality(R) + Cardinality(Uses(T[t]))
<1>1. PICK R : R = {tp \in Held(T) : tp[1] # t}
  BY Zenon
<1>2. PICK U : U = Uses(T[t])
  BY Zenon
<1>3. U \in SUBSET LowPages /\ IsFiniteSet(U) /\ Cardinality(U) \in Nat
  BY <1>2, UsesCount, Zenon
<1>4. IsFiniteSet(LowPages)
  <2>1. IsFiniteSet({"kstack1"})
    BY FS_Singleton, Zenon
  <2>2. IsFiniteSet({"kstack1"} \cup {"kstack2"})
    BY <2>1, FS_AddElement, Zenon
  <2>3. IsFiniteSet(({"kstack1"} \cup {"kstack2"}) \cup {"pd"})
    BY <2>2, FS_AddElement, Zenon
  <2>4. IsFiniteSet((({"kstack1"} \cup {"kstack2"}) \cup {"pd"}) \cup {"bottom"})
    BY <2>3, FS_AddElement, Zenon
  <2>5. IsFiniteSet(((({"kstack1"} \cup {"kstack2"}) \cup {"pd"}) \cup {"bottom"}) \cup {"top"})
    BY <2>4, FS_AddElement, Zenon
  <2>6. LowPages = ((({"kstack1"} \cup {"kstack2"}) \cup {"pd"}) \cup {"bottom"}) \cup {"top"}
    BY Zenon DEF LowPages, Tables
  <2>7. QED
    BY <2>5, <2>6, Zenon
<1>5. IsFiniteSet(Tasks \X LowPages)
  BY <1>4, AddressSpaceAssumptions, FS_Product, Zenon
<1>6. IsFiniteSet(R) /\ Cardinality(R) \in Nat
  <2>1. R \in SUBSET (Tasks \X LowPages)
    BY <1>1, Zenon DEF Held
  <2>2. QED
    BY <1>5, <2>1, FS_Subset, FS_CardinalityType, Zenon
<1>7. PICK P : P = {t} \X U
  BY Zenon
<1>8. IsFiniteSet(P) /\ Cardinality(P) = Cardinality(U)
  <2>1. IsFiniteSet({t}) /\ Cardinality({t}) = 1
    BY FS_Singleton, Zenon
  <2>2. IsFiniteSet(P) /\ Cardinality(P) = 1 * Cardinality(U)
    BY <1>3, <1>7, <2>1, FS_Product, Zenon
  <2>3. QED
    BY <1>3, <2>2
<1>9. Held(T) = R \cup P
  BY <1>1, <1>2, <1>3, <1>7, Zenon DEF Held
<1>10. R \cap P = {}
  BY <1>1, <1>7, Zenon
<1>11. Cardinality(R \cup P) = Cardinality(R) + Cardinality(P) - Cardinality(R \cap P) /\ Cardinality({}) = 0
  BY <1>6, <1>8, FS_Union, FS_EmptySet, Zenon
<1>12. Cardinality(Held(T)) = Cardinality(R) + Cardinality(U)
  <2>1. Cardinality(Held(T)) = Cardinality(R) + Cardinality(P) - 0
    BY <1>9, <1>10, <1>11, Zenon
  <2>2. QED
    BY <1>3, <1>6, <1>8, <2>1
<1>13. QED
  BY <1>1, <1>2, <1>6, <1>12, Zenon

LEMMA HeldChange ==
  ASSUME NEW T \in [Tasks -> TaskType], NEW t \in Tasks, NEW x \in TaskType
  PROVE  /\ Cardinality(Held(T)) \in Nat /\ Cardinality(Held([T EXCEPT ![t] = x])) \in Nat
         /\ Cardinality(Held([T EXCEPT ![t] = x])) + Cardinality(Uses(T[t]))
              = Cardinality(Held(T)) + Cardinality(Uses(x))
<1>1. PICK T2 : T2 = [T EXCEPT ![t] = x]
  BY Zenon
<1>2. T2 \in [Tasks -> TaskType] /\ T2[t] = x /\ \A c \in Tasks \ {t} : T2[c] = T[c]
  BY <1>1, Zenon
<1>3. PICK R : R = {tp \in Held(T) : tp[1] # t}
  BY Zenon
<1>4. R = {tp \in Held(T2) : tp[1] # t}
  BY <1>2, <1>3, Zenon DEF Held
<1>5. Cardinality(R) \in Nat /\ Cardinality(Held(T)) = Cardinality(R) + Cardinality(Uses(T[t]))
  BY <1>3, HeldPart, Zenon
<1>6. Cardinality(Held(T2)) = Cardinality(R) + Cardinality(Uses(x))
  BY <1>2, <1>4, HeldPart, Zenon
<1>7. Cardinality(Uses(T[t])) \in Nat /\ Cardinality(Uses(x)) \in Nat
  BY UsesCount, Zenon
<1>8. QED
  BY <1>1, <1>5, <1>6, <1>7

-----------------------------------------------------------------------------
(* The page copy of fork, from memory m of parent p: the child's pages are *)
(* new frames that hold what the parent's do.                              *)
Copying(m, p, x, r) ==
  /\ r.m \in MemType /\ r.t \in TaskType /\ Takes(m, r.m)
  /\ SameLow(m, x, r.m, r.t) /\ SameTask(x, r.t)
  /\ \A v \in VPages : r.t.pte[v] # NULL =>
       /\ r.t.pte[v] \in m.hi /\ r.t.pte[v] \notin r.m.hi /\ p.pte[v] # NULL
       /\ p.pte[v] \notin m.hi => r.m.content[r.t.pte[v]] = m.content[p.pte[v]]
  /\ \A v, w \in VPages : r.t.pte[v] # NULL /\ r.t.pte[v] = r.t.pte[w] => v = w

LEMMA CopyTable ==
  ASSUME NEW m, NEW p, NEW x, NEW r, Copying(m, p, x, r), NEW v
  PROVE  Copying(m, p, x, GetTable(r, v)) /\ GetTable(r, v).ok = r.ok
<1>1. PICK C : C = {Table(v)} \ r.t.tables
  BY Zenon
<1>2. PICK q : q = GetTable(r, v)
  BY Zenon
<1>3. q = [ok |-> r.ok, m |-> [r.m EXCEPT !.low = @ - Cardinality(C)], t |-> [r.t EXCEPT !.tables = @ \cup C]]
  BY <1>1, <1>2, Zenon DEF GetTable
<1>4. /\ r.m.low \in Int /\ r.m.hi \in SUBSET Frames /\ r.m.blk \in [Frames -> SUBSET Frames]
      /\ r.m.content \in [Frames -> {0, 1}]
      /\ r.m = [hi |-> r.m.hi, low |-> r.m.low, blk |-> r.m.blk, content |-> r.m.content]
      /\ r.t = [st |-> r.t.st, tables |-> r.t.tables, pte |-> r.t.pte, sec |-> r.t.sec, area |-> r.t.area,
                areaPage |-> r.t.areaPage]
      /\ r.t.pte \in [VPages -> FramePtr] /\ r.t.sec \in [Sections -> FramePtr] /\ r.t.tables \in SUBSET Tables
      /\ r.t.st \in {"none", "live", "zombie"} /\ r.t.area \in {"none", "free", "lazy", "mapped"}
      /\ r.t.areaPage \in FramePtr
  BY Zenon DEF Copying, MemType, TaskType
<1>5. /\ r.t.tables \cup C \in SUBSET Tables /\ Cardinality(r.t.tables) \in Nat /\ Cardinality(C) \in 0 .. 1
      /\ Cardinality(r.t.tables \cup C) = Cardinality(r.t.tables) + Cardinality(C)
  BY <1>1, <1>4, NewTable, Zenon
<1>6. /\ q.ok = r.ok
      /\ q.m = [hi |-> r.m.hi, low |-> r.m.low - Cardinality(C), blk |-> r.m.blk, content |-> r.m.content]
      /\ q.t = [st |-> r.t.st, tables |-> r.t.tables \cup C, pte |-> r.t.pte, sec |-> r.t.sec, area |-> r.t.area,
                areaPage |-> r.t.areaPage]
  BY <1>3, <1>4, Zenon
<1>7. /\ q.m.hi = r.m.hi /\ q.m.blk = r.m.blk /\ q.m.content = r.m.content /\ q.t.pte = r.t.pte
      /\ q.m.low = r.m.low - Cardinality(C) /\ q.t.tables = r.t.tables \cup C /\ SameTask(r.t, q.t)
  BY <1>6 DEF SameTask
<1>8. q.m \in MemType
  BY <1>4, <1>5, <1>6 DEF MemType
<1>9. q.t \in TaskType
  BY <1>4, <1>5, <1>6 DEF TaskType
<1>10. SameLow(m, x, q.m, q.t)
  <2>1. r.m.low + Cardinality(r.t.tables) = m.low + Cardinality(x.tables)
    BY Zenon DEF Copying, SameLow
  <2>2. q.m.low + Cardinality(q.t.tables) = r.m.low + Cardinality(r.t.tables)
    BY <1>4, <1>5, <1>7
  <2>3. QED
    BY <1>5, <1>7, <2>1, <2>2, Zenon DEF SameLow
<1>11. Takes(m, q.m) /\ SameTask(x, q.t)
  BY <1>7, Zenon DEF Copying, Takes, SameTask
<1>12. Copying(m, p, x, q)
  BY <1>7, <1>8, <1>9, <1>10, <1>11 DEF Copying
<1>13. QED
  BY <1>2, <1>6, <1>12, Zenon

LEMMA CopyTheFrame ==
  ASSUME machine \in Machines, NEW m \in MemType, NEW p \in TaskType, NEW x, NEW r, Copying(m, p, x, r),
         NEW v \in VPages, p.pte[v] # NULL, r.m.hi # {}
  PROVE  Copying(m, p, x, CopyFrame(p, r, v))
<1>1. PICK f, q : f = Min(r.m.hi) /\ q = CopyFrame(p, r, v)
  BY Zenon
<1>2. q = [ok |-> TRUE, m |-> [Taken(r.m, f, {f}) EXCEPT !.content[f] = r.m.content[p.pte[v]]],
           t |-> [r.t EXCEPT !.pte[v] = f]]
  BY <1>1, Zenon DEF CopyFrame
<1>3. /\ r.m.low \in Int /\ r.m.hi \in SUBSET Frames /\ r.m.blk \in [Frames -> SUBSET Frames]
      /\ r.m.content \in [Frames -> {0, 1}]
      /\ r.m = [hi |-> r.m.hi, low |-> r.m.low, blk |-> r.m.blk, content |-> r.m.content]
      /\ r.t = [st |-> r.t.st, tables |-> r.t.tables, pte |-> r.t.pte, sec |-> r.t.sec, area |-> r.t.area,
                areaPage |-> r.t.areaPage]
      /\ r.t.pte \in [VPages -> FramePtr] /\ r.t.sec \in [Sections -> FramePtr] /\ r.t.tables \in SUBSET Tables
      /\ r.t.st \in {"none", "live", "zombie"} /\ r.t.area \in {"none", "free", "lazy", "mapped"}
      /\ r.t.areaPage \in FramePtr
  BY Zenon DEF Copying, MemType, TaskType
<1>4. f \in r.m.hi /\ f \in Frames /\ f \in m.hi /\ f # NULL
  <2>1. f \in r.m.hi
    BY <1>1, <1>3, MinTaken, Zenon
  <2>2. QED
    BY <1>3, <2>1, FramesAre, Zenon DEF Copying, Takes
<1>5. PICK g, k : g = p.pte[v] /\ k = r.m.content[p.pte[v]]
  BY Zenon
<1>6. g \in Frames /\ k = r.m.content[g] /\ k \in {0, 1}
  <2>1. g \in FramePtr /\ g # NULL
    BY <1>5, Zenon DEF TaskType
  <2>2. QED
    BY <1>3, <1>5, <2>1, Zenon DEF FramePtr
<1>7. q = [ok |-> TRUE, m |-> [Taken(r.m, f, {f}) EXCEPT !.content[f] = k], t |-> [r.t EXCEPT !.pte[v] = f]]
  BY <1>2, <1>5, Zenon
<1>8. /\ q.m.hi = r.m.hi \ {f} /\ q.m.low = r.m.low
      /\ q.m.blk = [r.m.blk EXCEPT ![f] = {f}] /\ q.m.content = [r.m.content EXCEPT ![f] = k]
      /\ q.m = [hi |-> q.m.hi, low |-> q.m.low, blk |-> q.m.blk, content |-> q.m.content]
      /\ q.t.pte = [r.t.pte EXCEPT ![v] = f] /\ q.t.sec = r.t.sec /\ q.t.tables = r.t.tables /\ SameTask(r.t, q.t)
      /\ q.t = [st |-> r.t.st, tables |-> r.t.tables, pte |-> q.t.pte, sec |-> r.t.sec, area |-> r.t.area,
                areaPage |-> r.t.areaPage]
  BY <1>3, <1>7, Zenon DEF Taken, SameTask
<1>9. q.m \in MemType
  <2>1. q.m.blk \in [Frames -> SUBSET Frames] /\ q.m.content \in [Frames -> {0, 1}]
    BY <1>3, <1>4, <1>6, <1>8, SMTT(30)
  <2>2. QED
    BY <1>3, <1>8, <2>1, Zenon DEF MemType
<1>10. q.t.pte \in [VPages -> FramePtr] /\ q.t.pte[v] = f /\ \A w \in VPages \ {v} : q.t.pte[w] = r.t.pte[w]
  BY <1>3, <1>4, <1>8, SMTT(30) DEF FramePtr
<1>11. q.t \in TaskType
  BY <1>3, <1>8, <1>10, SMTT(30) DEF TaskType
<1>12. Takes(m, q.m) /\ SameLow(m, x, q.m, q.t) /\ SameTask(x, q.t)
  <2>1. Takes(m, q.m)
    BY <1>3, <1>4, <1>8, SMTT(30) DEF Copying, Takes
  <2>2. QED
    BY <1>3, <1>8, <2>1, Zenon DEF Copying, SameLow, SameTask
<1>13. \A w \in VPages : q.t.pte[w] # NULL => /\ q.t.pte[w] \in m.hi /\ q.t.pte[w] \notin q.m.hi /\ p.pte[w] # NULL
  BY <1>4, <1>8, <1>10 DEF Copying
<1>14. ASSUME NEW w \in VPages, q.t.pte[w] # NULL, p.pte[w] \notin m.hi
       PROVE  q.m.content[q.t.pte[w]] = m.content[p.pte[w]]
  <2>1. CASE w = v
    <3>1. q.m.content[f] = k
      BY <1>3, <1>4, <1>8, Zenon
    <3>2. k = m.content[g]
      BY <1>5, <1>6, <1>14, <2>1, Zenon DEF Copying, Takes
    <3>3. QED
      BY <1>5, <1>10, <2>1, <3>1, <3>2, Zenon
  <2>2. CASE w # v
    <3>1. q.t.pte[w] = r.t.pte[w] /\ r.t.pte[w] \notin r.m.hi
      BY <1>10, <1>14, <2>2, Zenon DEF Copying
    <3>2. r.t.pte[w] \in Frames /\ r.t.pte[w] # f
      BY <1>3, <1>4, <1>14, <3>1, Zenon DEF FramePtr
    <3>3. q.m.content[q.t.pte[w]] = r.m.content[r.t.pte[w]]
      BY <1>3, <1>8, <3>1, <3>2
    <3>4. QED
      BY <1>14, <3>1, <3>3, Zenon DEF Copying
  <2>3. QED
    BY <2>1, <2>2, Zenon
<1>15. ASSUME NEW w \in VPages, NEW z \in VPages, q.t.pte[w] # NULL, q.t.pte[w] = q.t.pte[z] PROVE w = z
  <2>1. CASE w = v /\ z # v
    BY <1>4, <1>10, <1>15, <2>1, SMTT(30) DEF Copying
  <2>2. CASE w # v /\ z = v
    BY <1>4, <1>10, <1>15, <2>2, SMTT(30) DEF Copying
  <2>3. CASE w # v /\ z # v
    BY <1>10, <1>15, <2>3 DEF Copying
  <2>4. QED
    BY <2>1, <2>2, <2>3, Zenon
<1>16. Copying(m, p, x, q)
  BY <1>9, <1>11, <1>12, <1>13, <1>14, <1>15, Zenon DEF Copying
<1>17. QED
  BY <1>1, <1>16, Zenon

LEMMA CopyOne ==
  ASSUME machine \in Machines, NEW m \in MemType, NEW p \in TaskType, NEW x, NEW r, Copying(m, p, x, r),
         NEW v \in VPages
  PROVE  Copying(m, p, x, CopyPage(p, r, v))
<1>1. PICK n, q : n = GetTable(r, v) /\ q = CopyPage(p, r, v)
  BY Zenon
<1>2. q = IF ~r.ok \/ p.pte[v] = NULL THEN r
          ELSE IF n.m.low < 0 THEN [r EXCEPT !.ok = FALSE]
          ELSE IF n.m.hi = {} \/ n.m.low < 1 THEN [n EXCEPT !.ok = FALSE]
          ELSE CopyFrame(p, n, v)
  BY <1>1, Zenon DEF CopyPage
<1>3. Copying(m, p, x, n)
  BY <1>1, CopyTable, Zenon
<1>4. CASE q = r
  BY <1>1, <1>4, Zenon
<1>5. CASE q = [r EXCEPT !.ok = FALSE]
  <2>1. q.m = r.m /\ q.t = r.t
    BY <1>5, SMTT(30)
  <2>2. QED
    BY <1>1, <2>1 DEF Copying
<1>6. CASE q = [n EXCEPT !.ok = FALSE]
  <2>1. q.m = n.m /\ q.t = n.t
    BY <1>6
  <2>2. QED
    BY <1>1, <1>3, <2>1 DEF Copying
<1>7. CASE q = CopyFrame(p, n, v) /\ p.pte[v] # NULL /\ n.m.hi # {}
  BY <1>1, <1>3, <1>7, CopyTheFrame, Zenon
<1>8. QED
  BY <1>2, <1>4, <1>5, <1>6, <1>7, Zenon

LEMMA CopyAll ==
  ASSUME machine \in Machines, NEW m \in MemType, NEW p \in TaskType, NEW x, NEW r, Copying(m, p, x, r)
  PROVE  Copying(m, p, x, CopyPages(p, r))
<1>1. /\ "text" \in VPages /\ "heap" \in VPages /\ "stack1" \in VPages /\ "stack2" \in VPages /\ "tramp" \in VPages
  BY Zenon DEF VPages
<1>2. PICK r1 : r1 = CopyPage(p, r, "text")
  BY Zenon
<1>3. PICK r2 : r2 = CopyPage(p, r1, "heap")
  BY Zenon
<1>4. PICK r3 : r3 = CopyPage(p, r2, "stack1")
  BY Zenon
<1>5. PICK r4 : r4 = CopyPage(p, r3, "stack2")
  BY Zenon
<1>6. Copying(m, p, x, r1)
  BY <1>1, <1>2, CopyOne, Zenon
<1>7. Copying(m, p, x, r2)
  BY <1>1, <1>3, <1>6, CopyOne, Zenon
<1>8. Copying(m, p, x, r3)
  BY <1>1, <1>4, <1>7, CopyOne, Zenon
<1>9. Copying(m, p, x, r4)
  BY <1>1, <1>5, <1>8, CopyOne, Zenon
<1>10. Copying(m, p, x, CopyPage(p, r4, "tramp"))
  BY <1>1, <1>9, CopyOne, Zenon
<1>11. QED
  BY <1>2, <1>3, <1>4, <1>5, <1>10, Zenon DEF CopyPages

-----------------------------------------------------------------------------
(* Of memory nothing is lost where the programs neither fork nor replace   *)
(* themselves, and no LOWMEM page where they do not replace themselves.    *)
Lossless(m, T) ==
  /\ Ops \cap {"fork", "execve"} = {} => Full(m, T)
  /\ "execve" \notin Ops => m.low + Cardinality(Held(T)) = machine.low

LEMMA IInvIs ==
  ASSUME AspaceIInv
  PROVE  machine \in Machines /\ Sound(mem, task, view, panic) /\ Lossless(mem, task)
BY Zenon DEF AspaceIInv, NothingLost, NoFrameLost, LowBalanced, Lossless, Full, Held

LEMMA IInvNext ==
  ASSUME machine \in Machines, machine' = machine, Sound(mem', task', view', panic'), Lossless(mem', task')
  PROVE  AspaceIInv'
<1>1. Frames' = Frames /\ Ops' = Ops
  BY Zenon DEF Frames, Ops
<1>2. NothingLost'
  BY <1>1, Zenon DEF NothingLost, NoFrameLost, LowBalanced, Lossless, Full, Held
<1>3. Sound(mem, task, view, panic)'
  BY <1>1, Zenon DEF Sound, MemType, TaskType, FramePtr, SharedSection, Separate
<1>4. QED
  BY <1>2, <1>3, Zenon DEF AspaceIInv

\* The pages of a new address space are its own, and hold zeros.
LEMMA NewSpace ==
  ASSUME machine \in Machines, NEW m \in MemType, NEW r, r.m \in MemType, NEW y, y.pte["heap"] = NULL,
         NEW a, NEW b, NEW c, NEW d, AllMapped(m, y, r, a, b, c, d),
         NEW x \in TaskType, x.pte = r.t.pte, x.sec = r.t.sec, x.area = "free", x.st = "live"
  PROVE  /\ Shape(x) /\ Separate(r.m, x) /\ Private(r.m, x, [v \in VPages |-> 0])
         /\ \A v \in VPages : x.pte[v] # NULL => x.pte[v] \in m.hi
         /\ \A f \in m.hi \ r.m.hi : \E v \in VPages : x.pte[v] = f
<1>1. /\ x.pte["text"] = a /\ x.pte["stack1"] = b /\ x.pte["stack2"] = c /\ x.pte["tramp"] = d /\ x.pte["heap"] = NULL
      /\ x.sec["text"] = a /\ x.sec["stack"] = b /\ x.sec["tramp"] = d
      /\ a \in m.hi /\ b \in m.hi /\ c \in m.hi /\ d \in m.hi
      /\ a # b /\ a # c /\ a # d /\ b # c /\ b # d /\ c # d
      /\ r.m.hi = m.hi \ {a, b, c, d}
      /\ r.m.blk[a] = {a} /\ r.m.blk[b] = {b, c} /\ r.m.blk[d] = {d}
      /\ r.m.content[a] = 0 /\ r.m.content[b] = 0 /\ r.m.content[c] = 0 /\ r.m.content[d] = 0
  BY Zenon DEF AllMapped
<1>2. a # NULL /\ b # NULL /\ c # NULL /\ d # NULL
  <2>1. m.hi \in SUBSET Frames
    BY Zenon DEF MemType
  <2>2. QED
    BY <1>1, <2>1, FramesAre, Zenon
<1>3. Shape(x)
  BY <1>1, Zenon DEF Shape
<1>4. Owns(r.m, x)
  BY <1>1, <1>2, Zenon DEF Owns
<1>5. Separate(r.m, x)
  <2>1. \A v \in VPages : x.pte[v] # NULL => x.pte[v] \notin r.m.hi
    BY <1>1, Zenon DEF VPages
  <2>2. \A v, w \in VPages : x.pte[v] # NULL /\ x.pte[v] = x.pte[w] => v = w
    BY <1>1, <1>2 DEF VPages
  <2>3. QED
    BY <1>4, <2>1, <2>2, Zenon DEF Separate
<1>6. Private(r.m, x, [v \in VPages |-> 0])
  BY <1>1, Zenon DEF Private, VPages
<1>7. \A v \in VPages : x.pte[v] # NULL => x.pte[v] \in m.hi
  BY <1>1, Zenon DEF VPages
<1>8. \A f \in m.hi \ r.m.hi : \E v \in VPages : x.pte[v] = f
  <2>1. \A f \in m.hi \ r.m.hi : f = a \/ f = b \/ f = c \/ f = d
    BY <1>1, Zenon
  <2>2. "text" \in VPages /\ "stack1" \in VPages /\ "stack2" \in VPages /\ "tramp" \in VPages
    BY Zenon DEF VPages
  <2>3. QED
    BY <1>1, <2>1, <2>2, Zenon
<1>9. QED
  BY <1>3, <1>5, <1>6, <1>7, <1>8, Zenon

LEMMA AbsentTyped ==
  ASSUME machine \in Machines
  PROVE  /\ Absent \in TaskType /\ Shape(Absent) /\ Absent.st = "none" /\ Absent.area = "none"
         /\ \A v \in VPages : Absent.pte[v] = NULL
         /\ \A s \in Sections : Absent.sec[s] = NULL
BY Zenon DEF Absent, TaskType, FramePtr, Shape

(* What the step has to show when it replaces one task: that the LOWMEM    *)
(* pages follow the task, and that no frame drops out.                     *)
LEMMA StillLossless ==
  ASSUME machine \in Machines, NEW m \in MemType, NEW T \in [Tasks -> TaskType], Lossless(m, T), NEW t \in Tasks,
         NEW m2 \in MemType, NEW x \in TaskType,
         m2.low + Cardinality(Uses(x)) = m.low + Cardinality(Uses(T[t])),
         Ops \cap {"fork", "execve"} = {} =>
           \A f \in Frames : f \in m.hi \/ (\E v \in VPages : T[t].pte[v] = f) =>
                               f \in m2.hi \/ \E v \in VPages : x.pte[v] = f
  PROVE  Lossless(m2, [T EXCEPT ![t] = x])
<1>1. PICK T2 : T2 = [T EXCEPT ![t] = x]
  BY Zenon
<1>2. T2[t] = x /\ \A c \in Tasks \ {t} : T2[c] = T[c]
  BY <1>1, Zenon
<1>3. ASSUME Ops \cap {"fork", "execve"} = {} PROVE Full(m2, T2)
  <2>1. SUFFICES ASSUME NEW f \in Frames, f \notin m2.hi
                 PROVE  \E c \in Tasks, v \in VPages : T2[c].pte[v] = f
    BY Zenon DEF Full
  <2>2. f \in m.hi \/ \E c \in Tasks, v \in VPages : T[c].pte[v] = f
    BY <1>3, Zenon DEF Lossless, Full
  <2>3. CASE f \in m.hi \/ \E v \in VPages : T[t].pte[v] = f
    <3>1. \E v \in VPages : x.pte[v] = f
      BY <1>3, <2>1, <2>3, Zenon
    <3>2. QED
      BY <1>2, <3>1, Zenon
  <2>4. CASE \E c \in Tasks \ {t}, v \in VPages : T[c].pte[v] = f
    BY <1>2, <2>4
  <2>5. QED
    BY <2>2, <2>3, <2>4, Zenon
<1>4. ASSUME "execve" \notin Ops PROVE m2.low + Cardinality(Held(T2)) = machine.low
  <2>1. m.low + Cardinality(Held(T)) = machine.low
    BY <1>4, Zenon DEF Lossless
  <2>2. /\ Cardinality(Held(T)) \in Nat /\ Cardinality(Held(T2)) \in Nat
        /\ Cardinality(Held(T2)) + Cardinality(Uses(T[t])) = Cardinality(Held(T)) + Cardinality(Uses(x))
    BY <1>1, HeldChange, Zenon
  <2>3. Cardinality(Uses(x)) \in Nat /\ Cardinality(Uses(T[t])) \in Nat
    BY UsesCount, Zenon
  <2>4. m.low \in Int /\ m2.low \in Int /\ machine.low \in Nat
    BY FramesAre, Zenon DEF MemType
  <2>5. QED
    BY <2>1, <2>2, <2>3, <2>4
<1>5. Lossless(m2, T2)
  BY <1>3, <1>4, Zenon DEF Lossless
<1>6. QED
  BY <1>1, <1>5, Zenon

LEMMA AspaceStarts ==
  ASSUME AspaceInit
  PROVE  AspaceIInv
<1>1. /\ machine \in Machines
      /\ mem = [hi |-> Frames, low |-> machine.low, blk |-> [f \in Frames |-> {}], content |-> [f \in Frames |-> 0]]
      /\ task = [t \in Tasks |-> Absent] /\ view = [t \in Tasks |-> [v \in VPages |-> 0]] /\ panic = NoPanic
  BY Zenon DEF AspaceInit
<1>2. /\ Absent \in TaskType /\ Shape(Absent) /\ Absent.st = "none" /\ Absent.area = "none"
      /\ \A v \in VPages : Absent.pte[v] = NULL
  BY <1>1, AbsentTyped, Zenon
<1>3. mem \in MemType /\ task \in [Tasks -> TaskType] /\ view \in [Tasks -> ViewType]
  <2>1. machine.low \in Int
    BY <1>1, FramesAre
  <2>2. QED
    BY <1>1, <1>2, <2>1, Zenon DEF MemType, ViewType
<1>4. \A t \in Tasks : task[t] = Absent
  BY <1>1, Zenon
<1>5. Sound(mem, task, view, panic)
  <2>1. \A t \in Tasks : Private(mem, task[t], view[t]) /\ Separate(mem, task[t])
    BY <1>2, <1>4, Zenon DEF Private, Separate
  <2>2. \A t, c \in Tasks : Apart(task[t], task[c])
    BY <1>2, <1>4, Zenon DEF Apart
  <2>3. QED
    BY <1>2, <1>3, <1>4, <2>1, <2>2, Zenon DEF Sound
<1>6. NoFrameLost
  BY <1>1, Zenon DEF NoFrameLost
<1>7. LowBalanced
  <2>1. {tp \in Tasks \X LowPages : tp[2] \in Uses(task[tp[1]])} = {}
    BY <1>2, <1>4, Zenon DEF Uses
  <2>2. mem.low = machine.low /\ machine.low \in Nat
    BY <1>1, FramesAre, Zenon
  <2>3. QED
    BY <2>1, <2>2, FS_EmptySet DEF LowBalanced
<1>8. QED
  BY <1>1, <1>5, <1>6, <1>7, Zenon DEF AspaceIInv, NothingLost

\* Where every step starts
LEMMA StepFrom ==
  ASSUME AspaceIInv, panic = NoPanic
  PROVE  /\ machine \in Machines /\ Sound(mem, task, view, NoPanic) /\ Lossless(mem, task)
         /\ mem \in MemType /\ task \in [Tasks -> TaskType] /\ view \in [Tasks -> ViewType]
         /\ \A t \in Tasks : Shape(task[t])
BY IInvIs, Zenon DEF Sound

LEMMA OthersKept ==
  ASSUME NEW m, NEW T, NEW V, Sound(m, T, V, NoPanic), ~SharedSection, NEW t \in Tasks
  PROVE  /\ Private(m, T[t], V[t]) /\ Separate(m, T[t])
         /\ \A c \in Tasks \ {t} : Kept(m, m, T[c]) /\ Apart(T[t], T[c])
BY Zenon DEF Sound, Kept, Separate

LEMMA MmapStep ==
  ASSUME AspaceIInv, panic = NoPanic, machine' = machine, NEW t \in Tasks, Mmap(t)
  PROVE  AspaceIInv'
<1>1. PICK x : x = [task[t] EXCEPT !.area = "lazy"]
  BY Zenon
<1>2. task' = [task EXCEPT ![t] = x] /\ mem' = mem /\ view' = view /\ panic' = NoPanic /\ task[t].area = "free"
  BY <1>1, Zenon DEF Mmap
<1>3. /\ machine \in Machines /\ Sound(mem, task, view, NoPanic) /\ Lossless(mem, task)
      /\ mem \in MemType /\ task \in [Tasks -> TaskType] /\ view \in [Tasks -> ViewType] /\ Shape(task[t])
  BY StepFrom, Zenon
<1>4. /\ x \in TaskType /\ x.st = task[t].st /\ x.tables = task[t].tables /\ x.pte = task[t].pte
      /\ x.sec = task[t].sec /\ x.area = "lazy"
  BY <1>1, <1>3, Zenon DEF TaskType
<1>5. Shape(x)
  BY <1>2, <1>3, <1>4, Zenon DEF Shape
<1>6. ASSUME ~SharedSection
      PROVE  /\ Private(mem, x, view[t]) /\ Separate(mem, x)
             /\ \A c \in Tasks \ {t} : Kept(mem, mem, task[c]) /\ Apart(x, task[c])
  <2>1. /\ Private(mem, task[t], view[t]) /\ Separate(mem, task[t])
        /\ \A c \in Tasks \ {t} : Kept(mem, mem, task[c]) /\ Apart(task[t], task[c])
    BY <1>3, <1>6, OthersKept, Zenon
  <2>2. Private(mem, x, view[t])
    BY <1>4, <2>1, Zenon DEF Private
  <2>3. Separate(mem, x)
    BY <1>2, <1>4, <2>1 DEF Separate, Owns
  <2>4. QED
    BY <1>4, <2>1, <2>2, <2>3, Zenon DEF Apart
<1>7. Sound(mem, [task EXCEPT ![t] = x], [view EXCEPT ![t] = view[t]], NoPanic)
  BY <1>3, <1>4, <1>5, <1>6, OneTask, Zenon
<1>8. [view EXCEPT ![t] = view[t]] = view
  BY <1>3, Zenon
<1>9. Uses(x) = Uses(task[t])
  BY <1>4, Zenon DEF Uses
<1>10. Lossless(mem, [task EXCEPT ![t] = x])
  BY <1>3, <1>4, <1>9, StillLossless, Zenon
<1>11. QED
  BY <1>2, <1>3, <1>7, <1>8, <1>10, IInvNext, Zenon

LEMMA ReleaseStep ==
  ASSUME AspaceIInv, panic = NoPanic, machine' = machine, NEW t \in Tasks, Release(t)
  PROVE  AspaceIInv'
<1>1. PICK m2 : m2 = [mem EXCEPT !.low = @ + KStack]
  BY Zenon
<1>2. task' = [task EXCEPT ![t] = Absent] /\ mem' = m2 /\ view' = view /\ panic' = NoPanic /\ task[t].st = "zombie"
  BY <1>1, Zenon DEF Release
<1>3. /\ machine \in Machines /\ Sound(mem, task, view, NoPanic) /\ Lossless(mem, task)
      /\ mem \in MemType /\ task \in [Tasks -> TaskType] /\ view \in [Tasks -> ViewType] /\ Shape(task[t])
  BY StepFrom, Zenon
<1>4. /\ Absent \in TaskType /\ Shape(Absent) /\ Absent.st = "none" /\ Absent.area = "none"
      /\ \A v \in VPages : Absent.pte[v] = NULL
  BY <1>3, AbsentTyped, Zenon
<1>5. /\ m2 \in MemType /\ m2.hi = mem.hi /\ m2.blk = mem.blk /\ m2.content = mem.content /\ m2.low = mem.low + 2
  BY <1>1, <1>3 DEF MemType, KStack
<1>6. Takes(mem, m2) /\ Private(m2, Absent, view[t]) /\ Separate(m2, Absent)
  BY <1>4, <1>5, Zenon DEF Takes, Private, Separate
<1>7. Sound(m2, [task EXCEPT ![t] = Absent], [view EXCEPT ![t] = view[t]], NoPanic)
  BY <1>3, <1>4, <1>5, <1>6, OneTaskTakes, Zenon
<1>8. [view EXCEPT ![t] = view[t]] = view
  BY <1>3, Zenon
<1>9. m2.low + Cardinality(Uses(Absent)) = mem.low + Cardinality(Uses(task[t]))
  <2>1. Cardinality(Uses(Absent)) = 0 /\ Cardinality(Uses(task[t])) = 2
    BY <1>2, <1>3, <1>4, UsesCount, Zenon
  <2>2. mem.low \in Int
    BY <1>3, Zenon DEF MemType
  <2>3. QED
    BY <1>5, <2>1, <2>2
<1>10. \A f \in Frames : \A v \in VPages : task[t].pte[v] # f
  BY <1>2, <1>3, FramesAre, Zenon DEF Shape
<1>11. Lossless(m2, [task EXCEPT ![t] = Absent])
  BY <1>3, <1>4, <1>5, <1>9, <1>10, StillLossless, Zenon
<1>12. QED
  BY <1>2, <1>3, <1>7, <1>8, <1>11, IInvNext, Zenon

LEMMA StoreStep ==
  ASSUME AspaceIInv, panic = NoPanic, machine' = machine, NEW t \in Tasks, NEW v \in VPages, NEW b \in {0, 1},
         Store(t, v, b)
  PROVE  AspaceIInv'
<1>1. PICK f, m2, nb : f = task[t].pte[v] /\ m2 = [mem EXCEPT !.content[f] = b] /\ nb = [view[t] EXCEPT ![v] = b]
  BY Zenon
<1>2. task' = task /\ mem' = m2 /\ view' = [view EXCEPT ![t] = nb] /\ panic' = NoPanic /\ f # NULL
  BY <1>1, Zenon DEF Store
<1>3. /\ machine \in Machines /\ Sound(mem, task, view, NoPanic) /\ Lossless(mem, task)
      /\ mem \in MemType /\ task \in [Tasks -> TaskType] /\ view \in [Tasks -> ViewType] /\ Shape(task[t])
  BY StepFrom, Zenon
<1>4. f \in Frames /\ nb \in ViewType /\ nb[v] = b /\ \A w \in VPages \ {v} : nb[w] = view[t][w]
  BY <1>1, <1>2, <1>3 DEF TaskType, ViewType, FramePtr
<1>5. /\ m2 \in MemType /\ m2.hi = mem.hi /\ m2.blk = mem.blk /\ m2.low = mem.low
      /\ m2.content[f] = b /\ \A g \in Frames \ {f} : m2.content[g] = mem.content[g]
  BY <1>1, <1>3, <1>4, Zenon DEF MemType
<1>6. ASSUME ~SharedSection
      PROVE  /\ Private(m2, task[t], nb) /\ Separate(m2, task[t])
             /\ \A c \in Tasks \ {t} : Kept(mem, m2, task[c]) /\ Apart(task[t], task[c])
  <2>1. /\ Private(mem, task[t], view[t]) /\ Separate(mem, task[t])
        /\ \A c \in Tasks \ {t} : Kept(mem, mem, task[c]) /\ Apart(task[t], task[c])
    BY <1>3, <1>6, OthersKept, Zenon
  <2>2. Private(m2, task[t], nb)
    <3>1. ASSUME NEW w \in VPages, task[t].pte[w] # NULL, nb[w] # Unset PROVE m2.content[task[t].pte[w]] = nb[w]
      <4>1. CASE w = v
        BY <1>1, <1>4, <1>5, <4>1, Zenon
      <4>2. CASE w # v
        <5>1. task[t].pte[w] # f /\ task[t].pte[w] \in Frames
          BY <1>1, <1>3, <2>1, <3>1, <4>2 DEF Separate, TaskType, FramePtr
        <5>2. QED
          BY <1>4, <1>5, <2>1, <3>1, <4>2, <5>1, Zenon DEF Private
      <4>3. QED
        BY <4>1, <4>2, Zenon
    <3>2. QED
      BY <3>1, Zenon DEF Private
  <2>3. Separate(m2, task[t])
    BY <1>5, <2>1, Zenon DEF Separate, Owns
  <2>4. ASSUME NEW c \in Tasks \ {t} PROVE Kept(mem, m2, task[c])
    <3>1. SUFFICES ASSUME NEW w \in VPages, task[c].pte[w] # NULL
                   PROVE  /\ task[c].pte[w] \notin m2.hi
                          /\ m2.blk[task[c].pte[w]] = mem.blk[task[c].pte[w]]
                          /\ m2.content[task[c].pte[w]] = mem.content[task[c].pte[w]]
      BY Zenon DEF Kept
    <3>2. task[c].pte[w] # f
      BY <1>1, <1>2, <2>1, <2>4, Zenon DEF Apart
    <3>3. task[c].pte[w] \in Frames
      BY <1>3, <3>1 DEF TaskType, FramePtr
    <3>4. task[c].pte[w] \notin mem.hi
      BY <2>1, <3>1, Zenon DEF Kept
    <3>5. QED
      BY <1>5, <3>2, <3>3, <3>4, Zenon
  <2>5. QED
    BY <2>1, <2>2, <2>3, <2>4, Zenon
<1>7. task[t] \in TaskType
  BY <1>3, Zenon
<1>8. Sound(m2, [task EXCEPT ![t] = task[t]], [view EXCEPT ![t] = nb], NoPanic)
  BY <1>3, <1>4, <1>5, <1>6, <1>7, OneTask, Zenon
<1>9. [task EXCEPT ![t] = task[t]] = task
  BY <1>3, Zenon
<1>10. Lossless(m2, task)
  BY <1>3, <1>5, Zenon DEF Lossless, Full
<1>11. QED
  BY <1>2, <1>3, <1>8, <1>9, <1>10, IInvNext, Zenon

\* A task whose area, with the page of the heap, changes and nothing else
SetHeap(y, a, f) == [y EXCEPT !.area = a, !.areaPage = f, !.pte["heap"] = f]

LEMMA HeapPage ==
  ASSUME NEW y \in TaskType, NEW f \in FramePtr, NEW a \in {"free", "mapped"}, NEW x, x = SetHeap(y, a, f)
  PROVE  /\ x \in TaskType /\ x.st = y.st /\ x.tables = y.tables /\ x.sec = y.sec
         /\ x.area = a /\ x.areaPage = f /\ x.pte["heap"] = f
         /\ \A w \in VPages \ {"heap"} : x.pte[w] = y.pte[w]
<1>1. /\ y.pte \in [VPages -> FramePtr] /\ "heap" \in VPages
      /\ y = [st |-> y.st, tables |-> y.tables, pte |-> y.pte, sec |-> y.sec, area |-> y.area, areaPage |-> y.areaPage]
  BY Zenon DEF TaskType, VPages
<1>2. x = [st |-> y.st, tables |-> y.tables, pte |-> [y.pte EXCEPT !["heap"] = f], sec |-> y.sec,
           area |-> a, areaPage |-> f]
  BY <1>1, Zenon DEF SetHeap
<1>3. PICK q : q = [y.pte EXCEPT !["heap"] = f]
  BY Zenon
<1>4. q \in [VPages -> FramePtr] /\ q["heap"] = f /\ \A w \in VPages \ {"heap"} : q[w] = y.pte[w]
  BY <1>1, <1>3, Zenon
<1>5. QED
  BY <1>1, <1>2, <1>3, <1>4 DEF TaskType

LEMMA FaultStep ==
  ASSUME AspaceIInv, panic = NoPanic, machine' = machine, NEW t \in Tasks, Fault(t)
  PROVE  AspaceIInv'
<1>1. PICK f, m2, x, nb : /\ f = Min(mem.hi) /\ m2 = Taken(mem, f, {f}) /\ nb = [view[t] EXCEPT !["heap"] = Unset]
                          /\ x = SetHeap(task[t], "mapped", f)
  BY Zenon
<1>2. /\ machine \in Machines /\ Sound(mem, task, view, NoPanic) /\ Lossless(mem, task)
      /\ mem \in MemType /\ task \in [Tasks -> TaskType] /\ view \in [Tasks -> ViewType] /\ Shape(task[t])
  BY StepFrom, Zenon
<1>3. CASE mem.hi = {}
  <2>1. mem' = mem /\ task' = task /\ view' = view
    BY <1>3, Zenon DEF Fault
  <2>2. Sound(mem, task, view, panic')
    BY <1>2, Zenon DEF Sound
  <2>3. QED
    BY <1>2, <2>1, <2>2, IInvNext, Zenon
<1>4. CASE mem.hi # {}
  <2>1. /\ task[t].st = "live" /\ task[t].area = "lazy" /\ mem' = m2 /\ panic' = NoPanic
        /\ view' = [view EXCEPT ![t] = nb]
    BY <1>1, <1>4, Zenon DEF Fault
  <2>3. task' = [task EXCEPT ![t] = x]
    BY <1>1, <1>4, Zenon DEF Fault, SetHeap
  <2>4. f \in mem.hi /\ f \in Frames /\ f # NULL
    BY <1>1, <1>2, <1>4, MinTaken, FramesAre DEF MemType
  <2>5. /\ x \in TaskType /\ x.st = task[t].st /\ x.tables = task[t].tables /\ x.sec = task[t].sec
        /\ x.area = "mapped" /\ x.areaPage = f /\ x.pte["heap"] = f
        /\ \A w \in VPages \ {"heap"} : x.pte[w] = task[t].pte[w]
    <3>1. task[t] \in TaskType /\ f \in FramePtr /\ "mapped" \in {"free", "mapped"}
      BY <1>2, <2>4, Zenon DEF FramePtr
    <3>2. QED
      BY <1>1, <3>1, HeapPage
  <2>6. /\ m2 \in MemType /\ m2.hi = mem.hi \ {f} /\ m2.low = mem.low /\ m2.content = mem.content
        /\ m2.blk[f] = {f} /\ \A g \in Frames \ {f} : m2.blk[g] = mem.blk[g]
    BY <1>1, <1>2, <2>4, Zenon DEF MemType, Taken
  <2>7. nb \in ViewType /\ nb["heap"] = Unset /\ \A w \in VPages \ {"heap"} : nb[w] = view[t][w]
    BY <1>1, <1>2, <2>4, Zenon DEF ViewType, MemType, VPages
  <2>8. Shape(x)
    BY <1>2, <2>1, <2>4, <2>5, Zenon DEF Shape
  <2>9. Takes(mem, m2)
    BY <2>4, <2>6, Zenon DEF Takes
  <2>10. ASSUME ~SharedSection
         PROVE  /\ Private(m2, x, nb) /\ Separate(m2, x)
                /\ \A c \in Tasks \ {t} : Kept(mem, m2, task[c]) /\ Apart(x, task[c])
    <3>1. /\ Private(mem, task[t], view[t]) /\ Separate(mem, task[t])
          /\ \A c \in Tasks \ {t} : task[c] \in TaskType /\ Separate(mem, task[c]) /\ Apart(task[t], task[c])
      BY <1>2, <2>10, Zenon DEF Sound
    <3>2. Private(m2, x, nb)
      BY <2>5, <2>6, <2>7, <3>1, Zenon DEF Private
    <3>3. \A w \in VPages \ {"heap"} : x.pte[w] # NULL => x.pte[w] \in Frames \ mem.hi /\ x.pte[w] # f
      BY <1>2, <2>4, <2>5, <3>1 DEF Separate, TaskType, FramePtr
    <3>4. \A w \in VPages : x.pte[w] # NULL => x.pte[w] \notin m2.hi
      BY <2>5, <2>6, <3>3, Zenon
    <3>5. \A w, y \in VPages : x.pte[w] # NULL /\ x.pte[w] = x.pte[y] => w = y
      BY <2>4, <2>5, <3>1, <3>3, SMTT(30) DEF Separate
    <3>6. ASSUME "fork" \notin Ops PROVE Owns(m2, x)
      <4>1. Owns(mem, task[t])
        BY <2>1, <3>1, <3>6, Zenon DEF Separate
      <4>2. "text" \in VPages \ {"heap"} /\ "tramp" \in VPages \ {"heap"} /\ "stack1" \in VPages \ {"heap"}
            /\ "stack2" \in VPages \ {"heap"}
        BY Zenon DEF VPages
      <4>3. QED
        BY <2>5, <2>6, <3>3, <4>1, <4>2 DEF Owns
    <3>7. Separate(m2, x)
      BY <2>5, <2>6, <3>4, <3>5, <3>6, Zenon DEF Separate
    <3>8. ASSUME NEW c \in Tasks \ {t} PROVE Kept(mem, m2, task[c]) /\ Apart(x, task[c])
      <4>1. Kept(mem, m2, task[c])
        BY <2>9, <3>1, <3>8, TakesKeeps, Zenon
      <4>2. \A w \in VPages : task[c].pte[w] # f
        BY <2>4, <3>1, <3>8 DEF Separate
      <4>3. Apart(x, task[c])
        BY <2>5, <3>1, <3>8, <4>2 DEF Apart
      <4>4. QED
        BY <4>1, <4>3, Zenon
    <3>9. QED
      BY <3>2, <3>7, <3>8, Zenon
  <2>11. Sound(m2, [task EXCEPT ![t] = x], [view EXCEPT ![t] = nb], NoPanic)
    BY <1>2, <2>5, <2>6, <2>7, <2>8, <2>10, OneTask, Zenon
  <2>12. Uses(x) = Uses(task[t])
    BY <2>5, Zenon DEF Uses
  <2>13. ASSUME NEW g \in Frames, g \in mem.hi \/ \E w \in VPages : task[t].pte[w] = g
         PROVE  g \in m2.hi \/ \E w \in VPages : x.pte[w] = g
    <3>1. CASE g = f
      BY <2>5, <3>1, Zenon DEF VPages
    <3>2. CASE g # f /\ g \in mem.hi
      BY <2>6, <3>2, Zenon
    <3>3. CASE \E w \in VPages : task[t].pte[w] = g
      <4>1. PICK w \in VPages : task[t].pte[w] = g
        BY <3>3, Zenon
      <4>2. task[t].pte["heap"] = NULL
        BY <1>2, <2>1, Zenon DEF Shape
      <4>3. w # "heap"
        BY <1>2, <4>1, <4>2, FramesAre, Zenon
      <4>4. QED
        BY <2>5, <4>1, <4>3, Zenon
    <3>4. QED
      BY <2>13, <3>1, <3>2, <3>3, Zenon
  <2>14. Lossless(m2, [task EXCEPT ![t] = x])
    BY <1>2, <2>5, <2>6, <2>12, <2>13, StillLossless, Zenon
  <2>15. QED
    BY <1>2, <2>1, <2>3, <2>11, <2>14, IInvNext, Zenon
<1>5. QED
  BY <1>3, <1>4, Zenon

LEMMA MunmapStep ==
  ASSUME AspaceIInv, panic = NoPanic, machine' = machine, NEW t \in Tasks, Munmap(t)
  PROVE  AspaceIInv'
<1>1. PICK h, m2, x : /\ h = task[t].pte["heap"]
                      /\ m2 = IF task[t].area = "lazy" THEN mem ELSE free_block(mem, task[t].areaPage)
                      /\ x = SetHeap(task[t], "free", NULL)
  BY Zenon
<1>2. /\ task' = [task EXCEPT ![t] = x] /\ mem' = m2 /\ view' = view /\ panic' = NoPanic
      /\ task[t].st = "live" /\ task[t].area \in {"lazy", "mapped"}
  BY <1>1, Zenon DEF Munmap, SetHeap
<1>3. /\ machine \in Machines /\ Sound(mem, task, view, NoPanic) /\ Lossless(mem, task)
      /\ mem \in MemType /\ task \in [Tasks -> TaskType] /\ view \in [Tasks -> ViewType] /\ Shape(task[t])
  BY StepFrom, Zenon
<1>4. /\ x \in TaskType /\ x.st = task[t].st /\ x.tables = task[t].tables /\ x.sec = task[t].sec
      /\ x.area = "free" /\ x.areaPage = NULL /\ x.pte["heap"] = NULL
      /\ \A w \in VPages \ {"heap"} : x.pte[w] = task[t].pte[w]
  <2>1. task[t] \in TaskType /\ NULL \in FramePtr /\ "free" \in {"free", "mapped"}
    BY <1>3, Zenon DEF FramePtr
  <2>2. QED
    BY <1>1, <2>1, HeapPage
<1>5. /\ task[t].area = "lazy" => h = NULL
      /\ task[t].area = "mapped" => h = task[t].areaPage /\ h \in Frames
  BY <1>1, <1>3, Zenon DEF Shape, TaskType, FramePtr
<1>6. Frees(mem, m2)
  <2>1. CASE task[t].area = "lazy"
    BY <1>1, <1>3, <2>1, Zenon DEF Frees
  <2>2. CASE task[t].area = "mapped"
    <3>1. m2 = free_block(mem, h) /\ h \in Frames
      BY <1>1, <1>5, <2>2, Zenon
    <3>2. QED
      BY <1>3, <3>1, FreeBlock, Zenon
  <2>3. QED
    BY <1>2, <2>1, <2>2, Zenon
<1>7. ASSUME ~SharedSection
      PROVE  /\ mem.hi \subseteq m2.hi
             /\ h # NULL => h \in m2.hi
             /\ \A g \in Frames : g \notin mem.hi /\ g # h => g \notin m2.hi /\ m2.blk[g] = mem.blk[g]
  <2>1. CASE task[t].area = "lazy"
    BY <1>1, <1>5, <2>1, Zenon
  <2>2. CASE task[t].area = "mapped"
    <3>1. m2 = free_block(mem, h) /\ h \in Frames /\ h # NULL
      BY <1>1, <1>3, <1>5, <2>2, FramesAre, Zenon
    <3>2. Separate(mem, task[t])
      BY <1>3, <1>7, OthersKept, Zenon
    <3>3. h \notin mem.hi /\ mem.blk[h] = {h}
      BY <1>1, <1>5, <2>2, <3>1, <3>2, Zenon DEF Separate, VPages
    <3>4. FreesAt(mem, h, m2)
      BY <1>3, <3>1, <3>3, FreeBlock, Zenon
    <3>5. mem.blk \in [Frames -> SUBSET Frames]
      BY <1>3, Zenon DEF MemType
    <3>6. QED
      BY <3>1, <3>3, <3>4, <3>5, Zenon DEF FreesAt
  <2>3. QED
    BY <1>2, <2>1, <2>2, Zenon
<1>8. m2 \in MemType /\ m2.low = mem.low /\ m2.content = mem.content
  BY <1>6, Zenon DEF Frees
<1>9. Shape(x)
  BY <1>2, <1>4, Zenon DEF Shape
<1>10. ASSUME ~SharedSection
       PROVE  /\ Private(m2, x, view[t]) /\ Separate(m2, x)
              /\ \A c \in Tasks \ {t} : Kept(mem, m2, task[c]) /\ Apart(x, task[c])
  <2>1. /\ Private(mem, task[t], view[t]) /\ Separate(mem, task[t])
        /\ \A c \in Tasks \ {t} : Kept(mem, mem, task[c]) /\ Apart(task[t], task[c])
    BY <1>3, <1>10, OthersKept, Zenon
  <2>2. Private(m2, x, view[t])
    BY <1>4, <1>8, <2>1, Zenon DEF Private
  <2>3. \A w \in VPages \ {"heap"} : x.pte[w] # NULL => /\ x.pte[w] \in Frames /\ x.pte[w] \notin mem.hi
                                                        /\ x.pte[w] # h
    BY <1>1, <1>3, <1>4, <2>1 DEF Separate, TaskType, FramePtr, VPages
  <2>4. \A w \in VPages \ {"heap"} : x.pte[w] # NULL => x.pte[w] \notin m2.hi /\ m2.blk[x.pte[w]] = mem.blk[x.pte[w]]
    BY <1>7, <1>10, <2>3, Zenon
  <2>5. ASSUME "fork" \notin Ops PROVE Owns(m2, x)
    <3>1. Owns(mem, task[t])
      BY <1>2, <2>1, <2>5, Zenon DEF Separate
    <3>2. "text" \in VPages \ {"heap"} /\ "tramp" \in VPages \ {"heap"} /\ "stack1" \in VPages \ {"heap"}
          /\ "stack2" \in VPages \ {"heap"}
      BY Zenon DEF VPages
    <3>3. QED
      BY <1>4, <2>4, <3>1, <3>2, Zenon DEF Owns
  <2>6. Separate(m2, x)
    <3>1. \A w \in VPages : x.pte[w] # NULL => x.pte[w] \notin m2.hi
      BY <1>4, <2>4, Zenon
    <3>2. \A v, w \in VPages : x.pte[v] # NULL /\ x.pte[v] = x.pte[w] => v = w
      BY <1>4, <2>1, Zenon DEF Separate
    <3>3. QED
      BY <1>4, <2>5, <3>1, <3>2, Zenon DEF Separate
  <2>7. ASSUME NEW c \in Tasks \ {t} PROVE Kept(mem, m2, task[c]) /\ Apart(x, task[c])
    <3>1. \A w \in VPages : task[c].pte[w] # NULL => task[c].pte[w] \in Frames /\ task[c].pte[w] \notin mem.hi
      BY <1>3, <2>1, <2>7 DEF Kept, TaskType, FramePtr
    <3>2. \A w \in VPages : task[c].pte[w] # NULL => task[c].pte[w] # h
      BY <1>1, <2>1, <2>7, Zenon DEF Apart, VPages
    <3>3. Kept(mem, m2, task[c])
      BY <1>7, <1>8, <1>10, <3>1, <3>2, Zenon DEF Kept
    <3>4. Apart(x, task[c])
      BY <1>4, <2>1, <2>7 DEF Apart
    <3>5. QED
      BY <3>3, <3>4, Zenon
  <2>8. QED
    BY <2>2, <2>6, <2>7, Zenon
<1>11. Sound(m2, [task EXCEPT ![t] = x], [view EXCEPT ![t] = view[t]], NoPanic)
  BY <1>3, <1>4, <1>8, <1>9, <1>10, OneTask, Zenon
<1>12. [view EXCEPT ![t] = view[t]] = view
  BY <1>3, Zenon
<1>13. Uses(x) = Uses(task[t])
  BY <1>4, Zenon DEF Uses
<1>14. ASSUME Ops \cap {"fork", "execve"} = {}, NEW g \in Frames, g \in mem.hi \/ \E w \in VPages : task[t].pte[w] = g
       PROVE  g \in m2.hi \/ \E w \in VPages : x.pte[w] = g
  <2>1. ~SharedSection
    BY <1>14, Zenon DEF SharedSection
  <2>2. CASE g \in mem.hi
    BY <1>7, <2>1, <2>2, Zenon
  <2>3. CASE \E w \in VPages : task[t].pte[w] = g
    <3>1. PICK w \in VPages : task[t].pte[w] = g
      BY <2>3, Zenon
    <3>2. g # NULL
      BY <1>3, FramesAre, Zenon
    <3>3. w = "heap" => g \in m2.hi
      BY <1>1, <1>7, <2>1, <3>1, <3>2, Zenon
    <3>4. w # "heap" => x.pte[w] = g
      BY <1>4, <3>1, Zenon
    <3>5. QED
      BY <3>3, <3>4, Zenon
  <2>4. QED
    BY <1>14, <2>2, <2>3, Zenon
<1>15. Lossless(m2, [task EXCEPT ![t] = x])
  BY <1>3, <1>4, <1>8, <1>13, <1>14, StillLossless, Zenon
<1>16. QED
  BY <1>2, <1>3, <1>11, <1>12, <1>15, IInvNext, Zenon

LEMMA SpawnStep ==
  ASSUME AspaceIInv, panic = NoPanic, machine' = machine, NEW t \in Tasks, Spawn(t)
  PROVE  AspaceIInv'
<1>1. PICK m1 : m1 = [mem EXCEPT !.low = @ - KStack]
  BY Zenon
<1>2. PICK ok : LET r == userspace_create_new(m1, Absent, ok)
                IN  IF r.ok
                    THEN /\ mem' = r.m
                         /\ task' = [task EXCEPT ![t] = [r.t EXCEPT !.st = "live", !.area = "free"]]
                         /\ view' = [view EXCEPT ![t] = [v \in VPages |-> 0]]
                    ELSE mem' = [r.m EXCEPT !.low = @ + KStack] /\ UNCHANGED <<task, view>>
  BY <1>1, Zenon DEF Spawn
<1>3. PICK r : r = userspace_create_new(m1, Absent, ok)
  BY Zenon
<1>4. PICK x : x = [r.t EXCEPT !.st = "live", !.area = "free"]
  BY Zenon
<1>5. PICK nb : nb = [v \in VPages |-> 0]
  BY Zenon
<1>6. /\ r.ok => mem' = r.m /\ task' = [task EXCEPT ![t] = x] /\ view' = [view EXCEPT ![t] = nb]
      /\ ~r.ok => mem' = [r.m EXCEPT !.low = @ + KStack] /\ task' = task /\ view' = view
      /\ panic' = NoPanic /\ task[t].st = "none"
  BY <1>2, <1>3, <1>4, <1>5, Zenon DEF Spawn
<1>7. /\ machine \in Machines /\ Sound(mem, task, view, NoPanic) /\ Lossless(mem, task)
      /\ mem \in MemType /\ task \in [Tasks -> TaskType] /\ view \in [Tasks -> ViewType] /\ Shape(task[t])
  BY StepFrom, Zenon
<1>8. /\ Absent \in TaskType /\ \A s \in Sections : Absent.sec[s] = NULL
  BY <1>7, AbsentTyped, Zenon
<1>9. m1 \in MemType /\ m1.hi = mem.hi /\ m1.blk = mem.blk /\ m1.content = mem.content /\ m1.low = mem.low - 2
  BY <1>1, <1>7 DEF MemType, KStack
<1>10. Creation(m1, Absent, r)
  BY <1>3, <1>7, <1>8, <1>9, CreateNew, Zenon
<1>11. \A q : Takes(m1, q) => Takes(mem, q)
  BY <1>9 DEF Takes
<1>12. CASE r.ok
  <2>1. /\ r.m \in MemType /\ r.t \in TaskType /\ Takes(mem, r.m)
        /\ r.m.low + Cardinality(r.t.tables) = m1.low - 1
        /\ \E y, a, b, c, d : y.pte["heap"] = NULL /\ AllMapped(m1, y, r, a, b, c, d)
    BY <1>10, <1>11, <1>12, Zenon DEF Creation
  <2>2. /\ x \in TaskType /\ x.st = "live" /\ x.area = "free" /\ x.tables = r.t.tables
        /\ x.pte = r.t.pte /\ x.sec = r.t.sec
    BY <1>4, <2>1, Zenon DEF TaskType
  <2>3. /\ Shape(x) /\ Separate(r.m, x) /\ Private(r.m, x, nb)
        /\ \A v \in VPages : x.pte[v] # NULL => x.pte[v] \in m1.hi
        /\ \A f \in m1.hi \ r.m.hi : \E v \in VPages : x.pte[v] = f
    <3>1. PICK y, a, b, c, d : y.pte["heap"] = NULL /\ AllMapped(m1, y, r, a, b, c, d)
      BY <2>1, Zenon
    <3>2. QED
      BY <1>5, <1>7, <1>9, <2>1, <2>2, <3>1, NewSpace, SMTT(30)
  <2>4. nb \in ViewType
    BY <1>5, Zenon DEF ViewType
  <2>5. Sound(r.m, [task EXCEPT ![t] = x], [view EXCEPT ![t] = nb], NoPanic)
    BY <1>7, <1>9, <2>1, <2>2, <2>3, <2>4, OneTaskTakes, Zenon
  <2>6. r.m.low + Cardinality(Uses(x)) = mem.low + Cardinality(Uses(task[t]))
    <3>1. Cardinality(Uses(x)) = 3 + Cardinality(x.tables) /\ Cardinality(Uses(task[t])) = 0
          /\ Cardinality(x.tables) \in Nat
      BY <1>6, <1>7, <2>2, UsesCount, Zenon
    <3>2. mem.low \in Int /\ r.m.low \in Int
      BY <1>7, <2>1, Zenon DEF MemType
    <3>3. QED
      BY <1>9, <2>1, <2>2, <3>1, <3>2
  <2>7. ASSUME NEW f \in Frames, f \in mem.hi \/ \E v \in VPages : task[t].pte[v] = f
        PROVE  f \in r.m.hi \/ \E v \in VPages : x.pte[v] = f
    <3>1. \A v \in VPages : task[t].pte[v] # f
      BY <1>6, <1>7, FramesAre, Zenon DEF Shape
    <3>2. QED
      BY <1>9, <2>3, <2>7, <3>1, Zenon
  <2>8. Lossless(r.m, [task EXCEPT ![t] = x])
    BY <1>7, <2>1, <2>2, <2>6, <2>7, StillLossless, Zenon
  <2>9. QED
    BY <1>6, <1>7, <1>12, <2>5, <2>8, IInvNext, Zenon
<1>13. CASE ~r.ok
  <2>1. r.m \in MemType /\ Takes(mem, r.m) /\ r.m.hi = mem.hi /\ r.m.low = m1.low
    BY <1>8, <1>9, <1>10, <1>11, <1>13, Zenon DEF Creation, Sections
  <2>2. PICK q : q = [r.m EXCEPT !.low = @ + KStack]
    BY Zenon
  <2>3. q \in MemType /\ q.hi = r.m.hi /\ q.blk = r.m.blk /\ q.content = r.m.content /\ q.low = r.m.low + 2
    BY <2>1, <2>2 DEF MemType, KStack
  <2>4. Takes(mem, q)
    BY <2>1, <2>3 DEF Takes
  <2>5. Sound(q, task, view, NoPanic)
    BY <1>7, <2>3, <2>4, NoTaskTakes, Zenon
  <2>6. q.low = mem.low
    <3>1. mem.low \in Int
      BY <1>7, Zenon DEF MemType
    <3>2. QED
      BY <1>9, <2>1, <2>3, <3>1
  <2>7. Lossless(q, task)
    BY <1>7, <2>1, <2>3, <2>6, Zenon DEF Lossless, Full
  <2>8. QED
    BY <1>6, <1>7, <1>13, <2>2, <2>5, <2>7, IInvNext, Zenon
<1>14. QED
  BY <1>12, <1>13, Zenon

LEMMA ExecveStep ==
  ASSUME AspaceIInv, panic = NoPanic, machine' = machine, NEW t \in Tasks, Execve(t)
  PROVE  AspaceIInv'
<1>1. PICK ok : LET r == userspace_create_new(mem, task[t], ok)
                IN  /\ mem' = r.m
                    /\ task' = IF r.ok THEN [task EXCEPT ![t] = [r.t EXCEPT !.area = "free", !.areaPage = NULL]] ELSE task
                    /\ view' = IF r.ok THEN [view EXCEPT ![t] = [v \in VPages |-> 0]] ELSE view
                    /\ panic' = IF r.ok THEN NoPanic ELSE "Failed to create new clean userspace"
  BY Zenon DEF Execve
<1>2. PICK r : r = userspace_create_new(mem, task[t], ok)
  BY Zenon
<1>3. PICK x : x = [r.t EXCEPT !.area = "free", !.areaPage = NULL]
  BY Zenon
<1>4. PICK nb : nb = [v \in VPages |-> 0]
  BY Zenon
<1>5. /\ mem' = r.m
      /\ r.ok => task' = [task EXCEPT ![t] = x] /\ view' = [view EXCEPT ![t] = nb] /\ panic' = NoPanic
      /\ ~r.ok => task' = task /\ view' = view /\ panic' = "Failed to create new clean userspace"
      /\ task[t].st = "live" /\ "execve" \in Ops
  BY <1>1, <1>2, <1>3, <1>4, Zenon DEF Execve
<1>6. /\ machine \in Machines /\ Sound(mem, task, view, NoPanic) /\ Lossless(mem, task)
      /\ mem \in MemType /\ task \in [Tasks -> TaskType] /\ view \in [Tasks -> ViewType] /\ Shape(task[t])
  BY StepFrom, Zenon
<1>7. Creation(mem, task[t], r)
  BY <1>2, <1>6, CreateNew, Zenon
<1>8. Lossless(mem', task')
  BY <1>5, Zenon DEF Lossless
<1>9. CASE r.ok
  <2>1. /\ r.m \in MemType /\ r.t \in TaskType /\ Takes(mem, r.m) /\ r.t.st = "live"
        /\ \E y, a, b, c, d : y.pte["heap"] = NULL /\ AllMapped(mem, y, r, a, b, c, d)
    BY <1>5, <1>7, <1>9, Zenon DEF Creation, SameTask
  <2>2. x \in TaskType /\ x.st = "live" /\ x.area = "free" /\ x.pte = r.t.pte /\ x.sec = r.t.sec
    BY <1>3, <2>1, Zenon DEF TaskType, FramePtr
  <2>3. /\ Shape(x) /\ Separate(r.m, x) /\ Private(r.m, x, nb)
        /\ \A v \in VPages : x.pte[v] # NULL => x.pte[v] \in mem.hi
    <3>1. PICK y, a, b, c, d : y.pte["heap"] = NULL /\ AllMapped(mem, y, r, a, b, c, d)
      BY <2>1, Zenon
    <3>2. QED
      BY <1>4, <1>6, <2>1, <2>2, <3>1, NewSpace, Zenon
  <2>4. nb \in ViewType
    BY <1>4, Zenon DEF ViewType
  <2>5. Sound(r.m, [task EXCEPT ![t] = x], [view EXCEPT ![t] = nb], NoPanic)
    BY <1>6, <2>1, <2>2, <2>3, <2>4, OneTaskTakes, Zenon
  <2>6. QED
    BY <1>5, <1>6, <1>8, <1>9, <2>5, IInvNext, Zenon
<1>10. CASE ~r.ok
  <2>1. r.m \in MemType /\ \A f \in Frames \ mem.hi : r.m.content[f] = mem.content[f]
    BY <1>7, Zenon DEF Creation
  <2>2. ASSUME ~SharedSection, NEW c \in Tasks PROVE Private(r.m, task[c], view[c])
    <3>1. Private(mem, task[c], view[c]) /\ Separate(mem, task[c]) /\ task[c] \in TaskType
      BY <1>6, <2>2, Zenon DEF Sound
    <3>2. QED
      BY <2>1, <3>1, Zenon DEF Private, Separate, TaskType, FramePtr
  <2>3. panic' # NoPanic
    <3>1. panic' = "Failed to create new clean userspace"
      BY <1>5, <1>10, Zenon
    <3>2. QED
      BY <3>1, Zenon DEF NoPanic
  <2>4. Sound(r.m, task, view, panic')
    BY <1>6, <2>1, <2>2, <2>3, Zenon DEF Sound
  <2>5. QED
    BY <1>5, <1>6, <1>8, <1>10, <2>4, IInvNext, Zenon
<1>11. QED
  BY <1>9, <1>10, Zenon

LEMMA ForkStep ==
  ASSUME AspaceIInv, panic = NoPanic, machine' = machine, NEW t \in Tasks, NEW c \in Tasks, Fork(t, c)
  PROVE  AspaceIInv'
<1>1. PICK child : child = [Absent EXCEPT !.st = "live", !.sec["tramp"] = task[t].sec["tramp"]]
  BY Zenon
<1>2. PICK m1 : m1 = [mem EXCEPT !.low = @ - 1 - KStack]
  BY Zenon
<1>3. PICK r0 : r0 = [ok |-> TRUE, m |-> m1, t |-> child]
  BY Zenon
<1>4. PICK r : r = CopyPages(task[t], r0)
  BY Zenon
<1>5. /\ r.ok => mem' = r.m /\ task' = [task EXCEPT ![c] = r.t] /\ view' = [view EXCEPT ![c] = view[t]]
      /\ ~r.ok => mem' = [destroy_user_pd(r.m, r.t) EXCEPT !.low = @ + KStack] /\ task' = task /\ view' = view
      /\ panic' = NoPanic /\ task[t].st = "live" /\ task[c].st = "none" /\ "fork" \in Ops
  BY <1>1, <1>2, <1>3, <1>4, Zenon DEF Fork
<1>6. /\ machine \in Machines /\ Sound(mem, task, view, NoPanic) /\ Lossless(mem, task)
      /\ mem \in MemType /\ task \in [Tasks -> TaskType] /\ view \in [Tasks -> ViewType] /\ Shape(task[c])
  BY StepFrom, Zenon
<1>7. m1 \in MemType /\ m1.hi = mem.hi /\ m1.blk = mem.blk /\ m1.content = mem.content /\ m1.low = mem.low - 3
  BY <1>2, <1>6 DEF MemType, KStack
<1>8. /\ child \in TaskType /\ child.st = "live" /\ child.area = "none" /\ child.tables = {}
      /\ \A v \in VPages : child.pte[v] = NULL
  <2>1. task[t].sec \in [Sections -> FramePtr] /\ "tramp" \in Sections
    BY <1>6, Zenon DEF TaskType, Sections
  <2>2. PICK g : g = task[t].sec["tramp"] /\ g \in FramePtr
    BY <2>1, Zenon
  <2>3. PICK s2 : s2 = [[s \in Sections |-> NULL] EXCEPT !["tramp"] = g]
    BY Zenon
  <2>4. s2 \in [Sections -> FramePtr]
    BY <2>2, <2>3, Zenon DEF FramePtr
  <2>5. child = [st |-> "live", tables |-> {}, pte |-> [v \in VPages |-> NULL], sec |-> s2, area |-> "none", areaPage |-> NULL]
    BY <1>1, <2>2, <2>3, Zenon DEF Absent
  <2>6. QED
    BY <2>4, <2>5, Zenon DEF TaskType, FramePtr
<1>9. Copying(m1, task[t], child, r0)
  <2>1. r0.m = m1 /\ r0.t = child
    BY <1>3, Zenon
  <2>2. Takes(m1, m1) /\ SameTask(child, child)
    BY Zenon DEF Takes, SameTask
  <2>3. SameLow(m1, child, m1, child)
    BY <1>8, Zenon DEF SameLow
  <2>4. QED
    BY <1>7, <1>8, <2>1, <2>2, <2>3, Zenon DEF Copying
<1>10. Copying(m1, task[t], child, r)
  <2>1. task[t] \in TaskType
    BY <1>6, Zenon
  <2>2. QED
    BY <1>4, <1>6, <1>7, <1>9, <2>1, CopyAll, Zenon
<1>11. /\ r.m \in MemType /\ r.t \in TaskType /\ r.t.st = "live" /\ r.t.area = "none" /\ Takes(mem, r.m)
  BY <1>7, <1>8, <1>10, Zenon DEF Copying, SameTask, Takes
<1>12. r.m.low + Cardinality(r.t.tables) = mem.low - 3 /\ r.m.low \in Int /\ mem.low \in Int /\ Cardinality(r.t.tables) \in Nat
  <2>1. r.m.low + Cardinality(r.t.tables) = m1.low + Cardinality(child.tables)
    BY <1>10, Zenon DEF Copying, SameLow
  <2>2. Cardinality(child.tables) = 0
    BY <1>8, FS_EmptySet, Zenon
  <2>3. r.m.low \in Int /\ mem.low \in Int /\ Cardinality(r.t.tables) \in Nat
    BY <1>6, <1>11, UsesCount, Zenon DEF MemType
  <2>4. QED
    BY <1>7, <2>1, <2>2, <2>3
<1>13. CASE r.ok
  <2>1. Shape(r.t)
    BY <1>11, Zenon DEF Shape
  <2>2. \A v \in VPages : r.t.pte[v] # NULL => r.t.pte[v] \in mem.hi
    BY <1>7, <1>10, Zenon DEF Copying
  <2>3. ASSUME ~SharedSection PROVE Private(r.m, r.t, view[t]) /\ Separate(r.m, r.t)
    <3>1. Private(mem, task[t], view[t]) /\ Separate(mem, task[t])
      BY <1>6, <2>3, OthersKept, Zenon
    <3>2. ASSUME NEW v \in VPages, r.t.pte[v] # NULL, view[t][v] # Unset PROVE r.m.content[r.t.pte[v]] = view[t][v]
      <4>1. task[t].pte[v] # NULL /\ (task[t].pte[v] \notin m1.hi => r.m.content[r.t.pte[v]] = m1.content[task[t].pte[v]])
        BY <1>10, <3>2, Zenon DEF Copying
      <4>2. task[t].pte[v] \notin m1.hi
        BY <1>7, <3>1, <4>1, Zenon DEF Separate
      <4>3. QED
        BY <1>7, <3>1, <3>2, <4>1, <4>2, Zenon DEF Private
    <3>3. Private(r.m, r.t, view[t])
      BY <3>2, Zenon DEF Private
    <3>4. Separate(r.m, r.t)
      BY <1>5, <1>10, <1>11, Zenon DEF Copying, Separate
    <3>5. QED
      BY <3>3, <3>4, Zenon
  <2>4. view[t] \in ViewType
    BY <1>6, Zenon
  <2>5. Sound(r.m, [task EXCEPT ![c] = r.t], [view EXCEPT ![c] = view[t]], NoPanic)
    BY <1>6, <1>11, <2>1, <2>2, <2>3, <2>4, OneTaskTakes, Zenon
  <2>6. r.m.low + Cardinality(Uses(r.t)) = mem.low + Cardinality(Uses(task[c]))
    <3>1. Cardinality(Uses(r.t)) = 3 + Cardinality(r.t.tables) /\ Cardinality(Uses(task[c])) = 0
      BY <1>5, <1>6, <1>11, UsesCount, Zenon
    <3>2. QED
      BY <1>12, <3>1
  <2>7. Lossless(r.m, [task EXCEPT ![c] = r.t])
    BY <1>5, <1>6, <1>11, <2>6, StillLossless, Zenon
  <2>8. QED
    BY <1>5, <1>6, <1>13, <2>5, <2>7, IInvNext, Zenon
<1>14. CASE ~r.ok
  <2>1. PICK d : d = destroy_user_pd(r.m, r.t)
    BY Zenon
  <2>2. r.t.tables \in SUBSET Tables
    BY <1>11, Zenon DEF TaskType
  <2>3. /\ d \in MemType /\ d.hi = r.m.hi /\ d.blk = r.m.blk /\ d.content = r.m.content
        /\ d.low = r.m.low + Cardinality(r.t.tables) + 1
    BY <1>11, <2>1, <2>2, DestroyPd, Zenon
  <2>4. PICK q : q = [d EXCEPT !.low = @ + KStack]
    BY Zenon
  <2>5. q \in MemType /\ q.hi = d.hi /\ q.blk = d.blk /\ q.content = d.content /\ q.low = d.low + 2
    BY <2>3, <2>4 DEF MemType, KStack
  <2>6. Takes(mem, q)
    BY <1>11, <2>3, <2>5, Zenon DEF Takes
  <2>7. Sound(q, task, view, NoPanic)
    BY <1>6, <2>5, <2>6, NoTaskTakes, Zenon
  <2>8. q.low = mem.low
    BY <1>12, <2>3, <2>5
  <2>9. Lossless(q, task)
    BY <1>5, <1>6, <2>8, Zenon DEF Lossless
  <2>10. QED
    BY <1>5, <1>6, <1>14, <2>1, <2>4, <2>7, <2>9, IInvNext, Zenon
<1>15. QED
  BY <1>13, <1>14, Zenon

(* do_exit gives back exactly the pages of a task that owns them: first    *)
(* the blocks of the sections, then that of the area.                      *)
GivesBack(m, x, q) ==
  /\ \A g \in Frames : g \in q.hi <=> g \in m.hi \/ \E v \in VPages : x.pte[v] = g
  /\ \A g \in Frames : (\A v \in VPages : x.pte[v] # g) => q.blk[g] = m.blk[g]

LEMMA SectionsOwned ==
  ASSUME machine \in Machines, NEW m \in MemType, NEW x \in TaskType, Separate(m, x), Owns(m, x), NEW q,
         q = free_sections(m, x),
         NEW a, NEW b, NEW c, NEW d,
         a = x.pte["text"] /\ b = x.pte["stack1"] /\ c = x.pte["stack2"] /\ d = x.pte["tramp"]
  PROVE  /\ Frees(m, q) /\ q.hi = m.hi \cup {a, b, c, d}
         /\ \A g \in Frames \ {a, b, d} : q.blk[g] = m.blk[g]
         /\ \A s \in Sections : x.sec[s] # NULL => ~BadFree(m, x.sec[s])
<1>1. a = x.pte["text"] /\ b = x.pte["stack1"] /\ c = x.pte["stack2"] /\ d = x.pte["tramp"]
  BY Zenon
<1>2. /\ a \in Frames /\ b \in Frames /\ c \in Frames /\ d \in Frames
      /\ a \notin m.hi /\ b \notin m.hi /\ d \notin m.hi
      /\ a # b /\ a # d /\ b # d
      /\ m.blk[a] = {a} /\ m.blk[b] = {b, c} /\ m.blk[d] = {d}
      /\ x.sec["text"] = a /\ x.sec["stack"] = b /\ x.sec["tramp"] = d
  <2>1. "text" \in VPages /\ "stack1" \in VPages /\ "stack2" \in VPages /\ "tramp" \in VPages
    BY Zenon DEF VPages
  <2>2. x.pte \in [VPages -> FramePtr]
    BY Zenon DEF TaskType
  <2>3. QED
    BY <1>1, <2>1, <2>2 DEF Owns, Separate, FramePtr
<1>3. m.blk \in [Frames -> SUBSET Frames]
  BY Zenon DEF MemType
<1>4. PICK m1 : m1 = free_section(m, x, "text")
  BY Zenon
<1>5. PICK m2 : m2 = free_section(m1, x, "stack")
  BY Zenon
<1>6. q = free_section(m2, x, "tramp")
  BY <1>4, <1>5, Zenon DEF free_sections
<1>7. "text" \in Sections /\ "stack" \in Sections /\ "tramp" \in Sections
  BY Zenon DEF Sections
<1>8. Frees(m, m1) /\ FreesAt(m, a, m1)
  <2>1. m.blk[a] # {}
    BY <1>2, Zenon
  <2>2. QED
    BY <1>2, <1>4, <1>7, <2>1, FreeOwnSection, Zenon
<1>9. m1.hi = m.hi \cup {a} /\ m1.blk[b] = {b, c} /\ m1.blk[d] = {d} /\ m1.blk \in [Frames -> SUBSET Frames]
  BY <1>2, <1>3, <1>8 DEF FreesAt
<1>10. Frees(m1, m2) /\ FreesAt(m1, b, m2)
  <2>1. b \notin m1.hi /\ m1.blk[b] # {} /\ m1 \in MemType
    BY <1>2, <1>8, <1>9, Zenon DEF Frees
  <2>2. QED
    BY <1>2, <1>5, <1>7, <2>1, FreeOwnSection, Zenon
<1>11. m2.hi = m.hi \cup {a, b, c} /\ m2.blk[d] = {d} /\ m2.blk \in [Frames -> SUBSET Frames]
  BY <1>2, <1>9, <1>10 DEF FreesAt
<1>12. d # c
  BY <1>1, <1>2, FramesAre, Zenon DEF Separate, VPages
<1>13. Frees(m2, q) /\ FreesAt(m2, d, q)
  <2>1. d \notin m2.hi /\ m2.blk[d] # {} /\ m2 \in MemType
    BY <1>2, <1>10, <1>11, <1>12, Zenon DEF Frees
  <2>2. QED
    BY <1>2, <1>6, <1>7, <2>1, FreeOwnSection
<1>14. q.hi = m.hi \cup {a, b, c, d}
  BY <1>11, <1>13, Zenon DEF FreesAt
<1>15. Frees(m, q)
  BY <1>8, <1>10, <1>13, Zenon DEF Frees
<1>16. ASSUME NEW g \in Frames \ {a, b, d} PROVE q.blk[g] = m.blk[g]
  BY <1>3, <1>8, <1>9, <1>10, <1>11, <1>13, <1>16, SMTT(30) DEF FreesAt
<1>17. \A s \in Sections : x.sec[s] # NULL => ~BadFree(m, x.sec[s])
  BY <1>2, Zenon DEF Sections, BadFree
<1>18. QED
  BY <1>1, <1>14, <1>15, <1>16, <1>17, Zenon

LEMMA ExitGivesBack ==
  ASSUME machine \in Machines, NEW m \in MemType, NEW x \in TaskType, Shape(x), Separate(m, x), Owns(m, x),
         NEW q, q = free_sections(m, x),
         NEW z, z = IF x.area = "mapped" THEN free_block(q, x.areaPage) ELSE q
  PROVE  GivesBack(m, x, z) /\ \A s \in Sections : x.sec[s] # NULL => ~BadFree(m, x.sec[s])
<1>1. PICK a, b, c, d : a = x.pte["text"] /\ b = x.pte["stack1"] /\ c = x.pte["stack2"] /\ d = x.pte["tramp"]
  BY Zenon
<1>2. PICK h : h = x.pte["heap"]
  BY Zenon
<1>3. /\ Frees(m, q) /\ q.hi = m.hi \cup {a, b, c, d}
      /\ \A g \in Frames \ {a, b, d} : q.blk[g] = m.blk[g]
      /\ \A s \in Sections : x.sec[s] # NULL => ~BadFree(m, x.sec[s])
  BY <1>1, SectionsOwned
<1>4. /\ q \in MemType /\ q.blk \in [Frames -> SUBSET Frames] /\ x.pte \in [VPages -> FramePtr]
  BY <1>3, Zenon DEF Frees, MemType, TaskType
<1>5. \A g \in Frames : (\E v \in VPages : x.pte[v] = g) <=> g \in {a, b, c, d} \/ g = h
  BY <1>1, <1>2, Zenon DEF VPages
<1>6. CASE x.area = "mapped"
  <2>1. h = x.areaPage /\ h # NULL /\ h \in Frames
    BY <1>2, <1>4, <1>6, Zenon DEF Shape, FramePtr, VPages
  <2>2. h \notin {a, b, c, d} /\ h \notin m.hi /\ m.blk[h] = {h}
    BY <1>1, <1>2, <1>6, <2>1, Zenon DEF Separate, VPages
  <2>3. h \notin q.hi /\ q.blk[h] = {h} /\ z = free_block(q, h)
    BY <1>3, <1>6, <2>1, <2>2, Zenon
  <2>4. FreesAt(q, h, z)
    BY <1>4, <2>1, <2>3, FreeBlock
  <2>5. z.hi = m.hi \cup {a, b, c, d, h}
    BY <1>3, <2>3, <2>4, Zenon DEF FreesAt
  <2>6. \A g \in Frames \ {a, b, d, h} : z.blk[g] = m.blk[g]
    BY <1>3, <1>4, <2>1, <2>4, Zenon DEF FreesAt
  <2>7. GivesBack(m, x, z)
    BY <1>5, <2>5, <2>6, Zenon DEF GivesBack
  <2>8. QED
    BY <1>3, <2>7, Zenon
<1>7. CASE x.area # "mapped"
  <2>1. h = NULL /\ z = q
    BY <1>2, <1>7, Zenon DEF Owns
  <2>2. \A g \in Frames : g # h
    BY <2>1, FramesAre, Zenon
  <2>3. GivesBack(m, x, z)
    BY <1>3, <1>5, <2>1, <2>2, Zenon DEF GivesBack
  <2>4. QED
    BY <1>3, <2>3, Zenon
<1>8. QED
  BY <1>6, <1>7, Zenon

LEMMA ExitStep ==
  ASSUME AspaceIInv, panic = NoPanic, machine' = machine, NEW t \in Tasks, Exit(t)
  PROVE  AspaceIInv'
<1>1. PICK y : y = task[t]
  BY Zenon
<1>2. PICK q : q = free_sections(mem, y)
  BY Zenon
<1>3. PICK z : z = IF y.area = "mapped" THEN free_block(q, y.areaPage) ELSE q
  BY Zenon
<1>4. PICK d : d = destroy_user_pd(z, y)
  BY Zenon
<1>5. PICK x : x = [Absent EXCEPT !.st = "zombie"]
  BY Zenon
<1>6. PICK bad : bad = \E s \in Sections : y.sec[s] # NULL /\ BadFree(mem, y.sec[s])
  BY Zenon
<1>7. /\ bad => mem' = q /\ task' = task
      /\ ~bad => mem' = d /\ task' = [task EXCEPT ![t] = x] /\ panic' = NoPanic
      /\ view' = view /\ y.st = "live" /\ "exit" \in Ops
  BY <1>1, <1>2, <1>3, <1>4, <1>5, <1>6, Zenon DEF Exit, task_exit_cleanup
<1>8. /\ machine \in Machines /\ Sound(mem, task, view, NoPanic) /\ Lossless(mem, task)
      /\ mem \in MemType /\ task \in [Tasks -> TaskType] /\ view \in [Tasks -> ViewType]
      /\ y \in TaskType /\ Shape(y)
  BY <1>1, StepFrom, Zenon
<1>9. Frees(mem, q)
  BY <1>2, <1>8, FreeSections, Zenon
<1>10. Frees(mem, z)
  <2>1. CASE y.area = "mapped"
    <3>1. y.areaPage \in Frames
      BY <1>8, <2>1, Zenon DEF Shape, TaskType, FramePtr
    <3>2. Frees(q, z)
      BY <1>3, <1>9, <2>1, <3>1, FreeBlock, Zenon DEF Frees
    <3>3. QED
      BY <1>9, <3>2, Zenon DEF Frees
  <2>2. CASE y.area # "mapped"
    BY <1>3, <1>9, <2>2, Zenon
  <2>3. QED
    BY <2>1, <2>2, Zenon
<1>11. ASSUME ~SharedSection PROVE ~bad /\ GivesBack(mem, y, z)
  <2>1. "fork" \notin Ops
    BY <1>7, <1>11, Zenon DEF SharedSection
  <2>2. Separate(mem, y) /\ Owns(mem, y)
    BY <1>1, <1>7, <1>8, <1>11, <2>1, Zenon DEF Sound, Separate
  <2>3. GivesBack(mem, y, z) /\ \A s \in Sections : y.sec[s] # NULL => ~BadFree(mem, y.sec[s])
    BY <1>2, <1>3, <1>8, <2>2, ExitGivesBack, Zenon
  <2>4. QED
    BY <1>6, <2>3, Zenon
<1>12. CASE bad
  <2>1. SharedSection
    BY <1>11, <1>12, Zenon
  <2>2. q \in MemType /\ q.low = mem.low
    BY <1>9, Zenon DEF Frees
  <2>3. Sound(q, task, view, panic')
    BY <1>8, <2>1, <2>2, Zenon DEF Sound
  <2>4. Lossless(q, task)
    BY <1>8, <2>1, <2>2, Zenon DEF Lossless, SharedSection
  <2>5. QED
    BY <1>7, <1>8, <1>12, <2>3, <2>4, IInvNext, Zenon
<1>13. CASE ~bad
  <2>1. y.tables \in SUBSET Tables /\ z \in MemType /\ z.low = mem.low /\ z.content = mem.content
    BY <1>8, <1>10, Zenon DEF TaskType, Frees
  <2>2. /\ d \in MemType /\ d.hi = z.hi /\ d.blk = z.blk /\ d.content = z.content
        /\ d.low = z.low + Cardinality(y.tables) + 1
    BY <1>4, <2>1, DestroyPd, Zenon
  <2>3. /\ x \in TaskType /\ x.st = "zombie" /\ x.area = "none" /\ \A v \in VPages : x.pte[v] = NULL
    BY <1>5, Zenon DEF Absent, TaskType, FramePtr
  <2>4. Shape(x)
    BY <2>3, Zenon DEF Shape
  <2>5. ASSUME ~SharedSection
        PROVE  /\ Private(d, x, view[t]) /\ Separate(d, x)
               /\ \A c \in Tasks \ {t} : Kept(mem, d, task[c]) /\ Apart(x, task[c])
    <3>1. Private(d, x, view[t]) /\ Separate(d, x) /\ \A c \in Tasks : Apart(x, task[c])
      BY <2>3, Zenon DEF Private, Separate, Apart
    <3>2. GivesBack(mem, y, z)
      BY <1>11, <2>5, Zenon
    <3>3. ASSUME NEW c \in Tasks \ {t} PROVE Kept(mem, d, task[c])
      <4>1. Kept(mem, mem, task[c]) /\ Apart(y, task[c])
        BY <1>1, <1>8, <2>5, OthersKept, Zenon
      <4>2. SUFFICES ASSUME NEW w \in VPages, task[c].pte[w] # NULL
                     PROVE  /\ task[c].pte[w] \notin d.hi
                            /\ d.blk[task[c].pte[w]] = mem.blk[task[c].pte[w]]
                            /\ d.content[task[c].pte[w]] = mem.content[task[c].pte[w]]
        BY Zenon DEF Kept
      <4>3. task[c].pte[w] \in Frames /\ task[c].pte[w] \notin mem.hi
        BY <1>8, <4>1, <4>2 DEF Kept, TaskType, FramePtr
      <4>4. \A v \in VPages : y.pte[v] # task[c].pte[w]
        BY <4>1, <4>2, Zenon DEF Apart
      <4>5. QED
        BY <2>1, <2>2, <3>2, <4>3, <4>4, Zenon DEF GivesBack
    <3>4. QED
      BY <3>1, <3>3, Zenon
  <2>6. Sound(d, [task EXCEPT ![t] = x], [view EXCEPT ![t] = view[t]], NoPanic)
    <3>1. view[t] \in ViewType
      BY <1>8, Zenon
    <3>2. QED
      BY <1>8, <2>2, <2>3, <2>4, <2>5, <3>1, OneTask, Zenon
  <2>7. [view EXCEPT ![t] = view[t]] = view
    BY <1>8, Zenon
  <2>8. d.low + Cardinality(Uses(x)) = mem.low + Cardinality(Uses(task[t]))
    <3>1. /\ Cardinality(Uses(x)) = 2 /\ Cardinality(Uses(y)) = 3 + Cardinality(y.tables)
          /\ Cardinality(y.tables) \in Nat
      BY <1>7, <1>8, <2>3, UsesCount, Zenon
    <3>2. mem.low \in Int
      BY <1>8, Zenon DEF MemType
    <3>3. QED
      BY <1>1, <2>1, <2>2, <3>1, <3>2
  <2>9. ASSUME Ops \cap {"fork", "execve"} = {},
               NEW g \in Frames, g \in mem.hi \/ \E v \in VPages : task[t].pte[v] = g
        PROVE  g \in d.hi
    <3>1. GivesBack(mem, y, z)
      BY <1>11, <2>9, Zenon DEF SharedSection
    <3>2. QED
      BY <1>1, <2>2, <2>9, <3>1, Zenon DEF GivesBack
  <2>10. Lossless(d, [task EXCEPT ![t] = x])
    BY <1>8, <2>2, <2>3, <2>8, <2>9, StillLossless, Zenon
  <2>11. QED
    BY <1>7, <1>8, <1>13, <2>6, <2>7, <2>10, IInvNext, Zenon
<1>14. QED
  BY <1>12, <1>13, Zenon

LEMMA AspaceStep ==
  ASSUME AspaceIInv, [AspaceNext]_aspaceVars
  PROVE  AspaceIInv'
<1>1. CASE UNCHANGED aspaceVars
  <2>1. machine \in Machines /\ Sound(mem, task, view, panic) /\ Lossless(mem, task)
    BY IInvIs, Zenon
  <2>2. machine' = machine /\ mem' = mem /\ task' = task /\ view' = view /\ panic' = panic
    BY <1>1, Zenon DEF aspaceVars
  <2>3. QED
    BY <2>1, <2>2, IInvNext, Zenon
<1>2. CASE AspaceNext
  <2>1. panic = NoPanic /\ machine' = machine
    BY <1>2, Zenon DEF AspaceNext
  <2>2. CASE \E t \in Tasks : Spawn(t)
    BY <2>1, <2>2, SpawnStep, Zenon
  <2>3. CASE \E t, c \in Tasks : Fork(t, c)
    BY <2>1, <2>3, ForkStep, Zenon
  <2>4. CASE \E t \in Tasks : Execve(t)
    BY <2>1, <2>4, ExecveStep, Zenon
  <2>5. CASE \E t \in Tasks : Mmap(t)
    BY <2>1, <2>5, MmapStep, Zenon
  <2>6. CASE \E t \in Tasks : Fault(t)
    BY <2>1, <2>6, FaultStep, Zenon
  <2>7. CASE \E t \in Tasks : Munmap(t)
    BY <2>1, <2>7, MunmapStep, Zenon
  <2>8. CASE \E t \in Tasks, v \in VPages, b \in {0, 1} : Store(t, v, b)
    BY <2>1, <2>8, StoreStep, Zenon
  <2>9. CASE \E t \in Tasks : Exit(t)
    BY <2>1, <2>9, ExitStep, Zenon
  <2>10. CASE \E t \in Tasks : Release(t)
    BY <2>1, <2>10, ReleaseStep, Zenon
  <2>11. QED
    BY <1>2, <2>2, <2>3, <2>4, <2>5, <2>6, <2>7, <2>8, <2>9, <2>10, Zenon DEF AspaceNext
<1>3. QED
  BY <1>1, <1>2, Zenon

LEMMA AspaceInvariant == AspaceSpec => []AspaceIInv
<1>1. AspaceInit => AspaceIInv
  BY AspaceStarts, Zenon
<1>2. AspaceIInv /\ [AspaceNext]_aspaceVars => AspaceIInv'
  BY AspaceStep, Zenon
<1>3. QED
  BY <1>1, <1>2, PTL DEF AspaceSpec

(* Address spaces are separate: on every machine whose programs do not     *)
(* both fork and exit, with any number of frames, kernel pages and tasks,  *)
(* no frame that userspace_create_new, fork's copy or the page-fault       *)
(* handler maps is mapped elsewhere or free, through every exit, munmap    *)
(* and failed allocation.                                                  *)
THEOREM AspaceMappedOnce == AspaceSpec => []MappedOnce
<1>1. AspaceIInv => MappedOnce
  <2>1. SUFFICES ASSUME AspaceIInv, panic = NoPanic, ~SharedSection, NEW t \in Tasks, NEW c \in Tasks,
                        NEW v \in VPages, NEW w \in VPages, task[t].pte[v] # NULL
                 PROVE  /\ task[t].pte[v] \notin mem.hi
                        /\ task[t].pte[v] = task[c].pte[w] => t = c /\ v = w
    BY Zenon DEF MappedOnce
  <2>2. Separate(mem, task[t]) /\ (t # c => Apart(task[t], task[c]))
    BY <2>1, Zenon DEF AspaceIInv, Sound
  <2>3. QED
    BY <2>1, <2>2, Zenon DEF Separate, Apart
<1>2. QED
  BY <1>1, AspaceInvariant, PTL

(* Memory comes back: what failed creations, failed forks, exits and       *)
(* task_release give back is what was taken, so that every frame is free   *)
(* or mapped and every LOWMEM page is free or used by a task that exists,  *)
(* within the limits NothingLost names.                                    *)
THEOREM AspaceNothingLost == AspaceSpec => []NothingLost
<1>1. AspaceIInv => NothingLost
  BY Zenon DEF AspaceIInv
<1>2. QED
  BY <1>1, AspaceInvariant, PTL

(* A task reads in its pages what it stored there, or what its parent had  *)
(* there at the fork: neither the copy of fork nor the reuse of a frame    *)
(* changes a page behind the back of the task.  As PrivateMemory says, a   *)
(* page of the heap before the first store, and programs that both fork    *)
(* and exit, are left out.                                                 *)
THEOREM AspacePrivateMemory == AspaceSpec => []PrivateMemory
<1>1. AspaceIInv => PrivateMemory
  BY Zenon DEF AspaceIInv, Sound, Private, PrivateMemory
<1>2. QED
  BY <1>1, AspaceInvariant, PTL
=============================================================================
