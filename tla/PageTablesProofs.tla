-------------------------- MODULE PageTablesProofs --------------------------
(***************************************************************************)
(* Proofs about module PageTables, for any number and size of directories, *)
(* tables and pages: no table is lost, freed in use or shared, one mapping *)
(* never disturbs another, the processor remembers nothing stale, and the  *)
(* kernel copies to and from user memory exactly when every byte of the    *)
(* range is a page of the process that allows it.                          *)
(***************************************************************************)
EXTENDS PageTables, TLAPS

Pdes == [t : Tables \cup {NULL}, us : BOOLEAN]
Ptes == [f : Frames \cup {NULL}, us : BOOLEAN, rw : BOOLEAN]

TypeOK ==
  /\ pd \in [Dirs -> [PdeIdx -> Pdes]]
  /\ pt \in [Tables -> [PteIdx -> Ptes]]
  /\ free \in SUBSET Tables /\ alive \in SUBSET Users
  /\ want \in [Dirs -> [VPages -> Ptes]]
  /\ call \in [d : Dirs, v : VPages \cup {-1}]
  /\ cpu \in [cr3 : Dirs, pdc : SUBSET [i : PdeIdx, t : Tables, us : BOOLEAN],
              tlb : SUBSET [v : VPages, f : Frames \cup {NULL}, us : BOOLEAN, rw : BOOLEAN]]

(* Between the halves of vmm_unmap_page only the table it works on may be  *)
(* empty.                                                                  *)
Owned ==
  /\ \A d \in Dirs, i \in PdeIdx : pd[d][i].t # NULL =>
       /\ pd[d][i].t \notin free
       /\ \A c \in Dirs, k \in PdeIdx : pd[c][k].t = pd[d][i].t => c = d /\ k = i
       /\ \/ pt[pd[d][i].t] # EmptyTable
          \/ ~Idle /\ d = call.d /\ i = PdeOf(call.v)
  /\ \A t \in Tables \ free : \E d \in Dirs, i \in PdeIdx : pd[d][i].t = t

(* What the ghost says of directories that do not exist, of kernel pages,  *)
(* and of the call in progress.                                            *)
Known ==
  /\ \A d \in Users \ alive : want[d] = Unmapped
  /\ \A d \in Dirs, v \in VPages : want[d][v] # NoPte => PdeOf(v) < Kde \/ v = Window
  /\ ~Idle => pd[call.d][PdeOf(call.v)].t # NULL
  /\ cpu.cr3 \in Live

IInv == TypeOK /\ Owned /\ MappedAsAsked /\ Known /\ CachesCoherent
-----------------------------------------------------------------------------
\* The two indices of a page are in range and determine it
LEMMA Indices ==
  /\ \A v \in VPages : PdeOf(v) \in PdeIdx /\ PteOf(v) \in PteIdx
  /\ \A v, w \in VPages : PdeOf(v) = PdeOf(w) /\ PteOf(v) = PteOf(w) => v = w
<1> USE PageTablesAssumptions DEF VPages, PdeOf, PteOf, PdeIdx, PteIdx
<1>1. \A v \in VPages : v = NPte * (v \div NPte) + (v % NPte) /\ v % NPte \in 0 .. NPte - 1
  OBVIOUS
<1>2. \A v \in VPages : PdeOf(v) \in PdeIdx /\ PteOf(v) \in PteIdx
  OBVIOUS
<1>3. \A v, w \in VPages : PdeOf(v) = PdeOf(w) /\ PteOf(v) = PteOf(w) => v = w
  BY <1>1
<1> QED
  BY <1>2, <1>3

\* Every pair of indices is that of a page
LEMMA PageAt ==
  ASSUME NEW i \in PdeIdx, NEW j \in PteIdx
  PROVE  \E v \in VPages : PdeOf(v) = i /\ PteOf(v) = j
<1> DEFINE v == i * NPte + j
<1> USE PageTablesAssumptions DEF VPages, PdeOf, PteOf, PdeIdx, PteIdx
<1>1. v \in Nat /\ v \div NPte = i /\ v % NPte = j
  OBVIOUS
<1>2. v =< NPde * NPte - 1
  <2>1. i + 1 =< NPde
    OBVIOUS
  <2>2. (i + 1) * NPte =< NPde * NPte
    BY <2>1
  <2> QED
    BY <2>2
<1>3. v \in VPages
  BY <1>1, <1>2
<1> HIDE DEF v
<1> QED
  BY <1>1, <1>3

\* The pages that tasks map, and the window, are pages
LEMMA PagesKnown ==
  /\ UserPages \subseteq VPages /\ Window \in VPages
  /\ \A v \in UserPages : PdeOf(v) < Kde
<1> USE PageTablesAssumptions DEF VPages, PdeOf, Window
<1>1. Kde * NPte =< NPde * NPte /\ 1 =< NPde * NPte
  OBVIOUS
<1> QED
  BY <1>1

\* Initially everything is unmapped and all tables are free
LEMMA InitIInv == Init => IInv
<1> SUFFICES ASSUME Init PROVE IInv
  OBVIOUS
<1> USE PageTablesAssumptions DEF Init
<1>1. TypeOK
  BY DEF TypeOK, Pdes, Ptes, EmptyDir, EmptyTable, Unmapped, NoPde, NoPte, Dirs
<1>2. \A d \in Dirs, i \in PdeIdx : pd[d][i].t = NULL
  BY DEF EmptyDir, NoPde
<1>3. Owned
  BY <1>2 DEF Owned
<1>4. MappedAsAsked
  BY <1>2, Indices DEF MappedAsAsked, vmm_get_mapping, Unmapped
<1>5. Known
  BY DEF Known, Unmapped, Idle, Live, Dirs
<1>6. CachesCoherent
  BY DEF CachesCoherent
<1> QED
  BY <1>1, <1>3, <1>4, <1>5, <1>6 DEF IInv

(* Mapping a page under a table that exists: no other directory entry      *)
(* leads to this table, so only page v of directory d changes.             *)
LEMMA OldTableIInv ==
  ASSUME IInv, Idle, NEW d \in Dirs, NEW v \in VPages, NEW e \in Ptes,
         d \in Live, e.f # NULL, PdeOf(v) < Kde \/ v = Window,
         MapOldTable(d, v, e), UNCHANGED <<alive, call>>
  PROVE  IInv'
<1> DEFINE i == PdeOf(v)
           j == PteOf(v)
           t == pd[d][i].t
<1> USE PageTablesAssumptions
<1>0. /\ i \in PdeIdx /\ j \in PteIdx /\ t \in Tables /\ e # NoPte
      /\ pd[d][i] \in Pdes
  BY Indices DEF IInv, TypeOK, MapOldTable, Pdes, Ptes, NoPte
<1>1. /\ pd' = [pd EXCEPT ![d][i].us = pd[d][i].us \/ e.us]
      /\ pt' = [pt EXCEPT ![t][j] = e]
      /\ want' = [want EXCEPT ![d][v] = e] /\ free' = free
      /\ cpu' = IF d # cpu.cr3 THEN cpu
                ELSE IF e.us /\ ~pd[d][i].us THEN reload_cr3(d) ELSE invalid_TLB(v)
      /\ Idle'
  BY DEF MapOldTable, Idle
<1> HIDE DEF i, j, t
<1>2. /\ \A c \in Dirs, k \in PdeIdx : pd'[c][k].t = pd[c][k].t
      /\ \A c \in Dirs, k \in PdeIdx : (c # d \/ k # i) => pd'[c][k] = pd[c][k]
      /\ pd'[d][i].us = (pd[d][i].us \/ e.us)
      /\ pd' \in [Dirs -> [PdeIdx -> Pdes]]
  BY <1>0, <1>1 DEF IInv, TypeOK, Pdes, Ptes
<1>3. /\ \A s \in Tables : s # t => pt'[s] = pt[s]
      /\ pt'[t][j] = e
      /\ \A l \in PteIdx : l # j => pt'[t][l] = pt[t][l]
      /\ pt' \in [Tables -> [PteIdx -> Ptes]]
  BY <1>0, <1>1 DEF IInv, TypeOK
<1>4. /\ \A c \in Dirs, w \in VPages : (c # d \/ w # v) => want'[c][w] = want[c][w]
      /\ want'[d][v] = e
      /\ want' \in [Dirs -> [VPages -> Ptes]]
  BY <1>1 DEF IInv, TypeOK
<1>5. \A c \in Dirs, k \in PdeIdx : pd[c][k].t = t => c = d /\ k = i
  BY <1>0 DEF IInv, Owned, t
<1>6. TypeOK'
  BY <1>1, <1>2, <1>3, <1>4 DEF IInv, TypeOK, reload_cr3, invalid_TLB
<1>7. Owned'
  <2>1. pt'[t] # EmptyTable
    BY <1>0, <1>3 DEF EmptyTable
  <2>2. \A c \in Dirs, k \in PdeIdx : pd[c][k].t \in Tables \cup {NULL}
    BY DEF IInv, TypeOK, Pdes
  <2>3. ASSUME NEW c \in Dirs, NEW k \in PdeIdx, pd[c][k].t # NULL
        PROVE  pt'[pd[c][k].t] # EmptyTable
    BY <2>1, <2>2, <2>3, <1>3 DEF IInv, Owned
  <2> QED
    BY <2>3, <1>1, <1>2 DEF IInv, Owned
<1>8. MappedAsAsked'
  <2> SUFFICES ASSUME NEW c \in Dirs, NEW w \in VPages
               PROVE  vmm_get_mapping(c, w)' = want'[c][w]
    BY DEF MappedAsAsked
  <2>1. PdeOf(w) \in PdeIdx /\ PteOf(w) \in PteIdx /\ pd[c][PdeOf(w)].t \in Tables \cup {NULL}
    BY Indices DEF IInv, TypeOK, Pdes
  <2>2. vmm_get_mapping(c, w) = want[c][w]
    BY DEF IInv, MappedAsAsked
  <2>3. CASE c = d /\ w = v
    BY <2>3, <1>0, <1>2, <1>3, <1>4 DEF vmm_get_mapping, i, j, t
  <2>4. CASE c # d \/ w # v
    <3>1. pd[c][PdeOf(w)].t = t => PteOf(w) # j
      BY <2>1, <2>4, <1>5, Indices DEF i, j
    <3>2. pd[c][PdeOf(w)].t # NULL => pt'[pd[c][PdeOf(w)].t][PteOf(w)] = pt[pd[c][PdeOf(w)].t][PteOf(w)]
      BY <3>1, <2>1, <1>3
    <3> QED
      BY <3>2, <2>1, <2>2, <2>4, <1>2, <1>4 DEF vmm_get_mapping
  <2> QED
    BY <2>3, <2>4
<1>9. Known'
  <2>1. \A c \in Users \ alive : want'[c] = want[c]
    BY <1>1 DEF IInv, TypeOK, Live, Dirs
  <2>2. \A c \in Dirs, w \in VPages : want'[c][w] # NoPte => PdeOf(w) < Kde \/ w = Window
    BY <1>4 DEF IInv, Known
  <2>3. cpu'.cr3 = cpu.cr3
    BY <1>1 DEF reload_cr3, invalid_TLB, IInv, TypeOK
  <2> QED
    BY <2>1, <2>2, <2>3, <1>1 DEF IInv, Known, Idle, Live
<1>10. CachesCoherent'
  <2>0. /\ \A x \in cpu.pdc : x.i \in PdeIdx
        /\ \A x \in cpu.tlb : x.v \in VPages /\ PdeOf(x.v) \in PdeIdx /\ PteOf(x.v) \in PteIdx
        /\ cpu.cr3 \in Dirs
        /\ \A c \in Dirs, k \in PdeIdx : pd[c][k].t \in Tables \cup {NULL}
    BY Indices DEF IInv, TypeOK, Pdes
  <2>1. CASE d # cpu.cr3
    <3>1. cpu' = cpu /\ \A k \in PdeIdx : pd'[cpu.cr3][k] = pd[cpu.cr3][k] /\ pd[cpu.cr3][k].t # t
      BY <2>0, <2>1, <1>1, <1>2, <1>5
    <3> QED
      BY <3>1, <2>0, <1>3, SMTT(30) DEF IInv, CachesCoherent
  <2>2. CASE d = cpu.cr3 /\ e.us /\ ~pd[d][i].us
    BY <2>2, <1>1 DEF CachesCoherent, reload_cr3
  <2>3. CASE d = cpu.cr3 /\ ~(e.us /\ ~pd[d][i].us)
    <3>1. cpu' = invalid_TLB(v)
      BY <2>3, <1>1
    <3>2. cpu'.cr3 = cpu.cr3 /\ cpu'.tlb = {x \in cpu.tlb : x.v # v}
          /\ cpu'.pdc = {x \in cpu.pdc : x.i # i}
      BY <3>1 DEF invalid_TLB, IInv, TypeOK, i
    <3>3. pd'[d][i].us = pd[d][i].us
      BY <2>3, <1>0, <1>2 DEF IInv, TypeOK, Pdes, Ptes
    <3>4. ASSUME NEW x \in cpu.tlb, x.v # v
          PROVE  LET p == pd'[cpu.cr3][PdeOf(x.v)]
                 IN  p.t # NULL /\ x = Translation(x.v, p, pt'[p.t][PteOf(x.v)])
      <4> DEFINE q == pd[cpu.cr3][PdeOf(x.v)]
      <4>1. q.t # NULL /\ x = Translation(x.v, q, pt[q.t][PteOf(x.v)])
        BY DEF IInv, CachesCoherent
      <4>2. q.t = t => PteOf(x.v) # j
        BY <3>4, <2>0, <1>5, Indices DEF i, j
      <4>3. pt'[q.t][PteOf(x.v)] = pt[q.t][PteOf(x.v)]
        BY <4>1, <4>2, <2>0, <1>3
      <4>4. pd'[cpu.cr3][PdeOf(x.v)].t = q.t /\ pd'[cpu.cr3][PdeOf(x.v)].us = q.us
        BY <2>0, <2>3, <1>2, <3>3
      <4> QED
        BY <4>1, <4>3, <4>4 DEF Translation
    <3>5. \A x \in cpu'.pdc : x.t # NULL /\ x.t = pd'[cpu.cr3][x.i].t /\ x.us = pd'[cpu.cr3][x.i].us
      BY <3>2, <2>0, <1>2 DEF IInv, CachesCoherent
    <3> QED
      BY <3>2, <3>4, <3>5 DEF CachesCoherent
  <2> QED
    BY <2>1, <2>2, <2>3
<1> QED
  BY <1>6, <1>7, <1>8, <1>9, <1>10 DEF IInv

(* Mapping a page under a new table: the table was free, so nothing led to *)
(* it, and its other entries are empty as those pages were.                *)
LEMMA NewTableIInv ==
  ASSUME IInv, Idle, NEW d \in Dirs, NEW v \in VPages, NEW e \in Ptes,
         d \in Live, e.f # NULL, PdeOf(v) < Kde \/ v = Window,
         MapNewTable(d, v, e), UNCHANGED <<alive, call>>
  PROVE  IInv'
<1> DEFINE i == PdeOf(v)
           j == PteOf(v)
<1> USE PageTablesAssumptions
<1>0. i \in PdeIdx /\ j \in PteIdx /\ e # NoPte /\ pd[d][i].t = NULL
  BY Indices DEF MapNewTable, Ptes, NoPte
<1>a. CASE UNCHANGED <<pd, pt, free, cpu, want>>
  BY <1>a, SMTT(30) DEF IInv, TypeOK, Owned, MappedAsAsked, vmm_get_mapping, Known, CachesCoherent, Idle, Live
<1>b. CASE \E t \in free :
            /\ free' = free \ {t}
            /\ pt' = [pt EXCEPT ![t] = [EmptyTable EXCEPT ![j] = e]]
            /\ pd' = [pd EXCEPT ![d][i] = [t |-> t, us |-> e.us]]
            /\ cpu' = IF d = cpu.cr3 THEN reload_cr3(d) ELSE cpu
            /\ want' = [want EXCEPT ![d][v] = e]
  <2> PICK t \in free :
            /\ free' = free \ {t}
            /\ pt' = [pt EXCEPT ![t] = [EmptyTable EXCEPT ![j] = e]]
            /\ pd' = [pd EXCEPT ![d][i] = [t |-> t, us |-> e.us]]
            /\ cpu' = IF d = cpu.cr3 THEN reload_cr3(d) ELSE cpu
            /\ want' = [want EXCEPT ![d][v] = e]
    BY <1>b
  <2> HIDE DEF i, j
  <2>0. t \in Tables /\ Idle'
    BY DEF IInv, TypeOK, Idle
  <2>1. /\ \A c \in Dirs, k \in PdeIdx : (c # d \/ k # i) => pd'[c][k] = pd[c][k]
        /\ pd'[d][i] = [t |-> t, us |-> e.us]
        /\ pd' \in [Dirs -> [PdeIdx -> Pdes]]
    BY <1>0, <2>0 DEF IInv, TypeOK, Pdes, Ptes
  <2>2. /\ \A s \in Tables : s # t => pt'[s] = pt[s]
        /\ pt'[t][j] = e
        /\ \A l \in PteIdx : l # j => pt'[t][l] = NoPte
        /\ pt' \in [Tables -> [PteIdx -> Ptes]]
    BY <1>0, <2>0 DEF IInv, TypeOK, EmptyTable, Ptes, NoPte
  <2>3. /\ \A c \in Dirs, w \in VPages : (c # d \/ w # v) => want'[c][w] = want[c][w]
        /\ want'[d][v] = e
        /\ want' \in [Dirs -> [VPages -> Ptes]]
    BY DEF IInv, TypeOK
  <2>4. \A c \in Dirs, k \in PdeIdx : pd[c][k].t # t /\ pd[c][k].t \in Tables \cup {NULL}
    BY <2>0 DEF IInv, TypeOK, Owned, Pdes
  <2>5. TypeOK'
    BY <2>1, <2>2, <2>3 DEF IInv, TypeOK, reload_cr3
  <2>6. Owned'
    <3>1. ASSUME NEW c \in Dirs, NEW k \in PdeIdx, pd'[c][k].t # NULL
          PROVE  /\ pd'[c][k].t \notin free'
                 /\ \A b \in Dirs, l \in PdeIdx : pd'[b][l].t = pd'[c][k].t => b = c /\ l = k
                 /\ pt'[pd'[c][k].t] # EmptyTable
      <4>1. pt'[t] # EmptyTable
        BY <1>0, <2>2 DEF EmptyTable
      <4>2. CASE c = d /\ k = i
        BY <4>1, <4>2, <2>1, <2>4
      <4>3. CASE c # d \/ k # i
        BY <4>3, <3>1, <2>1, <2>2, <2>4 DEF IInv, Owned
      <4> QED
        BY <4>2, <4>3
    <3>2. ASSUME NEW s \in Tables \ free'
          PROVE  \E c \in Dirs, k \in PdeIdx : pd'[c][k].t = s
      <4>1. CASE s = t
        BY <4>1, <2>1, <1>0
      <4>2. CASE s # t
        BY <4>2, <2>0, <2>1, <1>0 DEF IInv, Owned
      <4> QED
        BY <4>1, <4>2
    <3> QED
      BY <3>1, <3>2 DEF Owned
  <2>7. MappedAsAsked'
    <3> SUFFICES ASSUME NEW c \in Dirs, NEW w \in VPages
                 PROVE  vmm_get_mapping(c, w)' = want'[c][w]
      BY DEF MappedAsAsked
    <3>1. PdeOf(w) \in PdeIdx /\ PteOf(w) \in PteIdx /\ vmm_get_mapping(c, w) = want[c][w]
      BY Indices DEF IInv, MappedAsAsked
    <3>2. CASE c = d /\ w = v
      BY <3>2, <2>0, <2>1, <2>2, <2>3 DEF vmm_get_mapping, i, j
    <3>3. CASE c = d /\ w # v /\ PdeOf(w) = i
      <4>1. PteOf(w) # j
        BY <3>3, Indices DEF i, j
      <4> QED
        BY <4>1, <3>1, <3>3, <2>0, <2>1, <2>2, <2>3, <1>0 DEF vmm_get_mapping
    <3>4. CASE c # d \/ PdeOf(w) # i
      <4>1. w # v \/ c # d
        BY <3>4 DEF i
      <4> QED
        BY <4>1, <3>1, <3>4, <2>1, <2>2, <2>3, <2>4 DEF vmm_get_mapping
    <3> QED
      BY <3>2, <3>3, <3>4
  <2>8. Known'
    <3>1. \A c \in Users \ alive : want'[c] = want[c]
      BY DEF IInv, TypeOK, Live, Dirs
    <3>2. \A c \in Dirs, w \in VPages : want'[c][w] # NoPte => PdeOf(w) < Kde \/ w = Window
      BY <2>3 DEF IInv, Known
    <3>3. cpu'.cr3 = cpu.cr3
      BY DEF reload_cr3
    <3> QED
      BY <3>1, <3>2, <3>3, <2>0 DEF IInv, Known, Idle, Live
  <2>9. CachesCoherent'
    <3>1. CASE d = cpu.cr3
      BY <3>1 DEF CachesCoherent, reload_cr3
    <3>2. CASE d # cpu.cr3
      <4>1. /\ cpu' = cpu /\ cpu.cr3 \in Dirs
            /\ \A x \in cpu.pdc : x.i \in PdeIdx
            /\ \A x \in cpu.tlb : PdeOf(x.v) \in PdeIdx
        BY <3>2, Indices DEF IInv, TypeOK
      <4>2. \A k \in PdeIdx : pd'[cpu.cr3][k] = pd[cpu.cr3][k]
        BY <4>1, <3>2, <2>1
      <4>3. \A x \in cpu.pdc :
              x.t # NULL /\ x.t = pd'[cpu.cr3][x.i].t /\ x.us = pd'[cpu.cr3][x.i].us
        BY <4>1, <4>2 DEF IInv, CachesCoherent
      <4>4. ASSUME NEW x \in cpu.tlb
            PROVE  LET pde == pd'[cpu.cr3][PdeOf(x.v)]
                   IN  pde.t # NULL /\ x = Translation(x.v, pde, pt'[pde.t][PteOf(x.v)])
        <5> DEFINE k == PdeOf(x.v)
        <5>1. k \in PdeIdx /\ pd'[cpu.cr3][k] = pd[cpu.cr3][k]
          BY <4>1, <4>2
        <5>2. /\ pd[cpu.cr3][k].t # NULL
              /\ x = Translation(x.v, pd[cpu.cr3][k], pt[pd[cpu.cr3][k].t][PteOf(x.v)])
          BY DEF IInv, CachesCoherent
        <5>3. pt'[pd[cpu.cr3][k].t] = pt[pd[cpu.cr3][k].t]
          BY <4>1, <5>1, <5>2, <2>2, <2>4
        <5> QED
          BY <5>1, <5>2, <5>3
      <4> QED
        BY <4>1, <4>3, <4>4 DEF CachesCoherent
    <3> QED
      BY <3>1, <3>2
  <2> QED
    BY <2>5, <2>6, <2>7, <2>8, <2>9 DEF IInv
<1> QED
  BY <1>a, <1>b DEF MapNewTable

(* The first half of vmm_unmap_page: only page v of directory d changes,   *)
(* and the processor forgets it; its table may be empty now.               *)
LEMMA UnmapEntryIInv ==
  ASSUME IInv, NEW d \in Dirs, NEW v \in VPages, UnmapEntry(d, v)
  PROVE  IInv'
<1> DEFINE i == PdeOf(v)
           j == PteOf(v)
           t == pd[d][i].t
<1> USE PageTablesAssumptions
<1>0. i \in PdeIdx /\ j \in PteIdx /\ t \in Tables
  BY Indices DEF UnmapEntry, IInv, TypeOK, Pdes
<1>1. /\ Idle /\ d \in Live
      /\ pt' = [pt EXCEPT ![t][j] = NoPte]
      /\ want' = [want EXCEPT ![d][v] = NoPte] /\ cpu' = invalid_TLB(v)
      /\ pd' = pd /\ free' = free /\ alive' = alive /\ call' = [d |-> d, v |-> v] /\ ~Idle'
  BY DEF UnmapEntry, Idle, VPages
<1> HIDE DEF i, j, t
<1>2. /\ \A s \in Tables : s # t => pt'[s] = pt[s]
      /\ pt'[t][j] = NoPte
      /\ \A l \in PteIdx : l # j => pt'[t][l] = pt[t][l]
      /\ pt' \in [Tables -> [PteIdx -> Ptes]]
  BY <1>0, <1>1 DEF IInv, TypeOK, Ptes, NoPte
<1>3. /\ \A c \in Dirs, w \in VPages : (c # d \/ w # v) => want'[c][w] = want[c][w]
      /\ want'[d][v] = NoPte
      /\ want' \in [Dirs -> [VPages -> Ptes]]
  BY <1>1 DEF IInv, TypeOK, Ptes, NoPte
<1>4. /\ \A c \in Dirs, k \in PdeIdx : pd[c][k].t = t => c = d /\ k = i
      /\ \A c \in Dirs, k \in PdeIdx : pd[c][k].t \in Tables \cup {NULL}
  <2>1. \A c \in Dirs, k \in PdeIdx : pd[c][k].t = t => c = d /\ k = i
    BY <1>0 DEF IInv, Owned, t
  <2>2. \A c \in Dirs, k \in PdeIdx : pd[c][k].t \in Tables \cup {NULL}
    BY DEF IInv, TypeOK, Pdes
  <2> QED
    BY <2>1, <2>2
<1>5. TypeOK'
  BY <1>1, <1>2, <1>3 DEF IInv, TypeOK, invalid_TLB
<1>6. Owned'
  <2>1. ASSUME NEW c \in Dirs, NEW k \in PdeIdx, pd[c][k].t # NULL
        PROVE  pt'[pd[c][k].t] # EmptyTable \/ (c = d /\ k = i)
    BY <2>1, <1>1, <1>2, <1>4 DEF IInv, Owned
  <2> QED
    BY <2>1, <1>1 DEF IInv, Owned, i
<1>7. MappedAsAsked'
  <2> SUFFICES ASSUME NEW c \in Dirs, NEW w \in VPages
               PROVE  vmm_get_mapping(c, w)' = want'[c][w]
    BY DEF MappedAsAsked
  <2>1. /\ PdeOf(w) \in PdeIdx /\ PteOf(w) \in PteIdx
        /\ vmm_get_mapping(c, w) = want[c][w]
    BY Indices DEF IInv, MappedAsAsked
  <2>2. CASE c = d /\ w = v
    BY <2>2, <1>0, <1>1, <1>2, <1>3 DEF vmm_get_mapping, i, j, t
  <2>3. CASE c # d \/ w # v
    <3>1. pd[c][PdeOf(w)].t = t => PteOf(w) # j
      BY <2>1, <2>3, <1>4, Indices DEF i, j
    <3>2. pd[c][PdeOf(w)].t # NULL => pt'[pd[c][PdeOf(w)].t][PteOf(w)] = pt[pd[c][PdeOf(w)].t][PteOf(w)]
      BY <3>1, <2>1, <1>2, <1>4
    <3> QED
      BY <3>2, <2>1, <2>3, <1>1, <1>3 DEF vmm_get_mapping
  <2> QED
    BY <2>2, <2>3
<1>8. Known'
  <2>1. \A c \in Users \ alive : want'[c] = want[c]
    BY <1>1 DEF IInv, TypeOK, Live, Dirs
  <2>2. \A c \in Dirs, w \in VPages : want'[c][w] # NoPte => PdeOf(w) < Kde \/ w = Window
    BY <1>3 DEF IInv, Known
  <2>3. cpu'.cr3 = cpu.cr3
    BY <1>1 DEF invalid_TLB, IInv, TypeOK
  <2>4. pd'[call'.d][PdeOf(call'.v)].t # NULL
    BY <1>0, <1>1 DEF i, t
  <2> QED
    BY <2>1, <2>2, <2>3, <2>4, <1>1 DEF IInv, Known, Live
<1>9. CachesCoherent'
  <2>1. cpu'.cr3 = cpu.cr3 /\ cpu'.tlb = {x \in cpu.tlb : x.v # v}
        /\ cpu'.pdc = {x \in cpu.pdc : x.i # i} /\ cpu.cr3 \in Dirs
    BY <1>1 DEF invalid_TLB, IInv, TypeOK, i
  <2>2. ASSUME NEW x \in cpu.tlb, x.v # v
        PROVE  LET p == pd[cpu.cr3][PdeOf(x.v)]
               IN  p.t # NULL /\ x = Translation(x.v, p, pt'[p.t][PteOf(x.v)])
    <3> DEFINE q == pd[cpu.cr3][PdeOf(x.v)]
    <3>1. q.t # NULL /\ x = Translation(x.v, q, pt[q.t][PteOf(x.v)])
      BY DEF IInv, CachesCoherent
    <3>2. x.v \in VPages /\ PdeOf(x.v) \in PdeIdx /\ PteOf(x.v) \in PteIdx
      BY Indices DEF IInv, TypeOK
    <3>3. q.t = t => PteOf(x.v) # j
      BY <2>1, <2>2, <3>2, <1>4, Indices DEF i, j
    <3>4. pt'[q.t][PteOf(x.v)] = pt[q.t][PteOf(x.v)]
      BY <3>1, <3>2, <3>3, <2>1, <1>2, <1>4
    <3> QED
      BY <3>1, <3>4
  <2> QED
    BY <2>1, <2>2, <1>1 DEF IInv, CachesCoherent
<1> QED
  BY <1>5, <1>6, <1>7, <1>8, <1>9 DEF IInv

(* The second half: a table is freed only when it is empty, so the pages   *)
(* below it were unmapped; the processor forgets what it may have seen.    *)
LEMMA UnmapTableIInv ==
  ASSUME IInv, UnmapTable
  PROVE  IInv'
<1> DEFINE d == call.d
           i == PdeOf(call.v)
           t == pd[d][i].t
<1> USE PageTablesAssumptions
<1>0. /\ d \in Dirs /\ call.v \in VPages /\ i \in PdeIdx /\ t \in Tables
      /\ ~Idle /\ Idle' /\ call' \in [d : Dirs, v : VPages \cup {-1}]
      /\ UNCHANGED <<pt, alive, want>>
  BY Indices DEF UnmapTable, IInv, TypeOK, Known, Pdes, Idle, Dirs
<1>1. /\ \A c \in Dirs, k \in PdeIdx : pd[c][k].t = t => c = d /\ k = i
      /\ \A c \in Dirs, k \in PdeIdx : pd[c][k].t \in Tables \cup {NULL}
  <2>1. \A c \in Dirs, k \in PdeIdx : pd[c][k].t = t => c = d /\ k = i
    BY <1>0 DEF IInv, Owned
  <2>2. \A c \in Dirs, k \in PdeIdx : pd[c][k].t \in Tables \cup {NULL}
    BY DEF IInv, TypeOK, Pdes
  <2> QED
    BY <2>1, <2>2
<1>a. CASE pt[t] # EmptyTable /\ UNCHANGED <<pd, free, cpu>>
  <2>1. TypeOK' /\ MappedAsAsked' /\ CachesCoherent' /\ Known'
    BY <1>0, <1>a, SMTT(30) DEF IInv, TypeOK, MappedAsAsked, vmm_get_mapping, CachesCoherent, Known, Live
  <2>2. Owned'
    BY <1>0, <1>a, SMTT(30) DEF IInv, Owned
  <2> QED
    BY <2>1, <2>2 DEF IInv
<1>b. CASE pt[t] = EmptyTable /\ FreeTable(d, i)
  <2>1. /\ pd' = [pd EXCEPT ![d][i] = NoPde] /\ free' = free \cup {t}
        /\ cpu' = IF d = cpu.cr3 THEN reload_cr3(d) ELSE cpu
    BY <1>b DEF FreeTable
  <2> HIDE DEF d, i, t
  <2>2. /\ \A c \in Dirs, k \in PdeIdx : (c # d \/ k # i) => pd'[c][k] = pd[c][k]
        /\ pd'[d][i].t = NULL
        /\ pd' \in [Dirs -> [PdeIdx -> Pdes]]
    BY <1>0, <2>1 DEF IInv, TypeOK, Pdes, NoPde
  <2>3. TypeOK'
    BY <1>0, <2>1, <2>2 DEF IInv, TypeOK, reload_cr3
  <2>4. Owned'
    <3>1. ASSUME NEW c \in Dirs, NEW k \in PdeIdx, pd'[c][k].t # NULL
          PROVE  /\ pd'[c][k].t \notin free'
                 /\ \A b \in Dirs, l \in PdeIdx : pd'[b][l].t = pd'[c][k].t => b = c /\ l = k
                 /\ pt[pd'[c][k].t] # EmptyTable
      <4>1. c # d \/ k # i
        BY <3>1, <2>2
      <4>2. pd'[c][k] = pd[c][k] /\ pd[c][k].t # t
        BY <4>1, <2>2, <1>1
      <4>3. pt[pd[c][k].t] # EmptyTable /\ pd[c][k].t \notin free
        BY <4>1, <4>2, <3>1 DEF IInv, Owned, d, i
      <4>4. \A b \in Dirs, l \in PdeIdx : pd'[b][l].t = pd[c][k].t => b = c /\ l = k
        BY <4>2, <3>1, <2>2 DEF IInv, Owned
      <4> QED
        BY <4>2, <4>3, <4>4, <2>1
    <3>2. ASSUME NEW s \in Tables \ free'
          PROVE  \E c \in Dirs, k \in PdeIdx : pd'[c][k].t = s
      <4>1. s # t /\ s \in Tables \ free
        BY <2>1
      <4>2. PICK c \in Dirs, k \in PdeIdx : pd[c][k].t = s
        BY <4>1 DEF IInv, Owned
      <4> QED
        BY <4>1, <4>2, <2>2 DEF t
    <3> QED
      BY <3>1, <3>2, <1>0 DEF Owned
  <2>5. MappedAsAsked'
    <3> SUFFICES ASSUME NEW c \in Dirs, NEW w \in VPages
                 PROVE  vmm_get_mapping(c, w)' = want[c][w]
      BY <1>0 DEF MappedAsAsked
    <3>1. /\ PdeOf(w) \in PdeIdx /\ PteOf(w) \in PteIdx
          /\ vmm_get_mapping(c, w) = want[c][w]
      BY Indices DEF IInv, MappedAsAsked
    <3>2. CASE c = d /\ PdeOf(w) = i
      <4>1. want[c][w] = NoPte
        BY <3>1, <3>2, <1>0, <1>b DEF vmm_get_mapping, EmptyTable, t
      <4> QED
        BY <4>1, <3>2, <2>2 DEF vmm_get_mapping
    <3>3. CASE c # d \/ PdeOf(w) # i
      BY <3>1, <3>3, <2>2, <1>0 DEF vmm_get_mapping
    <3> QED
      BY <3>2, <3>3
  <2>6. Known'
    <3>1. cpu'.cr3 = cpu.cr3
      BY <2>1 DEF reload_cr3
    <3> QED
      BY <3>1, <1>0 DEF IInv, Known, Live
  <2>7. CachesCoherent'
    <3>1. CASE d = cpu.cr3
      BY <3>1, <2>1 DEF CachesCoherent, reload_cr3
    <3>2. CASE d # cpu.cr3
      <4>1. /\ cpu' = cpu /\ cpu.cr3 \in Dirs
            /\ \A x \in cpu.pdc : x.i \in PdeIdx
            /\ \A x \in cpu.tlb : PdeOf(x.v) \in PdeIdx
        BY <3>2, <2>1, Indices DEF IInv, TypeOK
      <4>2. \A k \in PdeIdx : pd'[cpu.cr3][k] = pd[cpu.cr3][k]
        BY <4>1, <3>2, <2>2
      <4> QED
        BY <4>1, <4>2, <1>0, SMTT(30) DEF IInv, CachesCoherent
    <3> QED
      BY <3>1, <3>2
  <2> QED
    BY <2>3, <2>4, <2>5, <2>6, <2>7 DEF IInv
<1> QED
  BY <1>a, <1>b DEF UnmapTable, IsEmpty

\* Between calls, a directory entry below which nothing is mapped has no table
LEMMA NoTable ==
  ASSUME IInv, Idle, NEW d \in Dirs, NEW i \in PdeIdx,
         \A v \in VPages : PdeOf(v) = i => want[d][v] = NoPte
  PROVE  pd[d][i].t = NULL
<1> SUFFICES ASSUME pd[d][i].t # NULL PROVE FALSE
  OBVIOUS
<1> DEFINE t == pd[d][i].t
<1>1. t \in Tables /\ pt[t] \in [PteIdx -> Ptes]
  BY DEF IInv, TypeOK, Pdes
<1>2. \A j \in PteIdx : pt[t][j] = NoPte
  <2> TAKE j \in PteIdx
  <2> PICK v \in VPages : PdeOf(v) = i /\ PteOf(v) = j
    BY PageAt
  <2> QED
    BY DEF IInv, MappedAsAsked, vmm_get_mapping
<1>3. pt[t] = EmptyTable
  BY <1>1, <1>2 DEF EmptyTable
<1> QED
  BY <1>3 DEF IInv, Owned

\* A new directory takes the place of one that held no table any more
LEMMA CreateIInv ==
  ASSUME IInv, NEW d \in Users, Create(d)
  PROVE  IInv'
<1> USE PageTablesAssumptions
<1>1. d \in Dirs /\ Idle /\ want[d] = Unmapped
  BY DEF Create, IInv, Known, Dirs
<1>2. \A i \in PdeIdx : pd[d][i].t = NULL
  BY <1>1, NoTable DEF Unmapped
<1>3. /\ pd' = [pd EXCEPT ![d] = EmptyDir] /\ alive' = alive \cup {d}
      /\ UNCHANGED <<pt, free, cpu, call, want>>
  BY DEF Create
<1>4. /\ \A c \in Dirs, i \in PdeIdx : pd'[c][i].t = pd[c][i].t
      /\ \A c \in Dirs, i \in PdeIdx : c # d => pd'[c][i] = pd[c][i]
      /\ pd' \in [Dirs -> [PdeIdx -> Pdes]]
  BY <1>1, <1>2, <1>3 DEF IInv, TypeOK, EmptyDir, NoPde, Pdes
<1>5. TypeOK'
  BY <1>3, <1>4 DEF IInv, TypeOK
<1>6. Owned'
  BY <1>1, <1>3, <1>4 DEF IInv, Owned, Idle
<1>7. MappedAsAsked'
  BY <1>3, <1>4, Indices, SMTT(30) DEF IInv, MappedAsAsked, vmm_get_mapping
<1>8. Known'
  BY <1>1, <1>3 DEF IInv, Known, Idle, Live
<1>9. CachesCoherent'
  <2>1. cpu.cr3 # d
    BY DEF IInv, Known, Live, Create
  <2>2. cpu.cr3 \in Dirs /\ \A x \in cpu.pdc : x.i \in PdeIdx
    BY DEF IInv, TypeOK
  <2>3. \A x \in cpu.tlb : PdeOf(x.v) \in PdeIdx
    BY Indices DEF IInv, TypeOK
  <2> QED
    BY <2>1, <2>2, <2>3, <1>3, <1>4 DEF IInv, CachesCoherent
<1> QED
  BY <1>5, <1>6, <1>7, <1>8, <1>9 DEF IInv

(* Destroying a directory frees all of its tables: those below the kernel  *)
(* are freed by name, and above it there is none, the window being closed. *)
LEMMA DestroyIInv ==
  ASSUME IInv, NEW d \in Users, Destroy(d)
  PROVE  IInv'
<1> DEFINE gone == {t \in Tables : \E i \in 0 .. Kde - 1 : pd[d][i].t = t}
<1> USE PageTablesAssumptions
<1>0. d \in Dirs /\ Idle /\ d \in alive /\ d # cpu.cr3 /\ want[d][Window] = NoPte
  BY DEF Destroy, Dirs
<1>1. /\ free' = free \cup gone
      /\ pt' = [t \in Tables |-> IF t \in gone THEN EmptyTable ELSE pt[t]]
      /\ pd' = [pd EXCEPT ![d] = [i \in PdeIdx |-> IF i < Kde THEN NoPde ELSE pd[d][i]]]
      /\ alive' = alive \ {d} /\ want' = [want EXCEPT ![d] = Unmapped]
      /\ UNCHANGED <<cpu, call>>
  BY DEF Destroy
<1>2. \A i \in PdeIdx : i >= Kde => pd[d][i].t = NULL
  <2> TAKE i \in PdeIdx
  <2> HAVE i >= Kde
  <2>1. \A v \in VPages : PdeOf(v) = i => want[d][v] = NoPte
    BY <1>0 DEF IInv, Known, PdeIdx
  <2> QED
    BY <2>1, <1>0, NoTable
<1>3. /\ \A c \in Dirs, i \in PdeIdx : c # d => pd'[c][i] = pd[c][i]
      /\ \A i \in PdeIdx : pd'[d][i].t = NULL
      /\ pd' \in [Dirs -> [PdeIdx -> Pdes]]
  BY <1>0, <1>1, <1>2 DEF IInv, TypeOK, NoPde, Pdes, PdeIdx
<1>4. \A t \in Tables : t \in gone <=> \E i \in PdeIdx : pd[d][i].t = t
  BY <1>2 DEF PdeIdx
<1> HIDE DEF gone
<1>5. \A c \in Dirs, i \in PdeIdx : c # d /\ pd[c][i].t # NULL =>
        pd[c][i].t \in Tables /\ pd[c][i].t \notin gone
  <2>1. \A c \in Dirs, i \in PdeIdx : pd[c][i].t \in Tables \cup {NULL}
    BY DEF IInv, TypeOK, Pdes
  <2> QED
    BY <2>1, <1>0, <1>4 DEF IInv, Owned
<1>6. TypeOK'
  <2>1. pt' \in [Tables -> [PteIdx -> Ptes]]
    BY <1>1 DEF IInv, TypeOK, EmptyTable, NoPte, Ptes
  <2>2. want' \in [Dirs -> [VPages -> Ptes]]
    BY <1>1 DEF IInv, TypeOK, Unmapped, NoPte, Ptes
  <2>3. gone \subseteq Tables
    BY DEF gone
  <2> QED
    BY <2>1, <2>2, <2>3, <1>1, <1>3 DEF IInv, TypeOK
<1>7. Owned'
  <2>1. ASSUME NEW c \in Dirs, NEW i \in PdeIdx, pd'[c][i].t # NULL
        PROVE  /\ pd'[c][i].t \notin free'
               /\ \A b \in Dirs, k \in PdeIdx : pd'[b][k].t = pd'[c][i].t => b = c /\ k = i
               /\ pt'[pd'[c][i].t] # EmptyTable
    <3>1. c # d /\ pd'[c][i] = pd[c][i] /\ pd[c][i].t # NULL
      BY <2>1, <1>3
    <3>2. pd[c][i].t \in Tables /\ pd[c][i].t \notin gone
      BY <3>1, <1>5
    <3>3. pt'[pd[c][i].t] = pt[pd[c][i].t] /\ pt[pd[c][i].t] # EmptyTable
      BY <3>1, <3>2, <1>0, <1>1 DEF IInv, Owned
    <3>4. \A b \in Dirs, k \in PdeIdx : pd'[b][k].t = pd[c][i].t => b = c /\ k = i
      BY <3>1, <1>3 DEF IInv, Owned
    <3>5. pd[c][i].t \notin free
      BY <3>1 DEF IInv, Owned
    <3> QED
      BY <3>1, <3>2, <3>3, <3>4, <3>5, <1>1, SMTT(30)
  <2>2. ASSUME NEW t \in Tables \ free'
        PROVE  \E c \in Dirs, i \in PdeIdx : pd'[c][i].t = t
    <3>1. t \in Tables \ free /\ t \notin gone
      BY <1>1
    <3>2. PICK c \in Dirs, i \in PdeIdx : pd[c][i].t = t
      BY <3>1 DEF IInv, Owned
    <3> QED
      BY <3>1, <3>2, <1>3, <1>4
  <2> QED
    BY <2>1, <2>2 DEF Owned
<1>8. MappedAsAsked'
  <2> SUFFICES ASSUME NEW c \in Dirs, NEW w \in VPages
               PROVE  vmm_get_mapping(c, w)' = want'[c][w]
    BY DEF MappedAsAsked
  <2>1. PdeOf(w) \in PdeIdx /\ vmm_get_mapping(c, w) = want[c][w]
    BY Indices DEF IInv, MappedAsAsked
  <2>2. CASE c = d
    BY <2>1, <2>2, <1>0, <1>1, <1>3 DEF vmm_get_mapping, Unmapped, IInv, TypeOK
  <2>3. CASE c # d
    <3>1. want'[c] = want[c] /\ pd'[c][PdeOf(w)] = pd[c][PdeOf(w)]
      BY <2>1, <2>3, <1>1, <1>3 DEF IInv, TypeOK
    <3>2. pd[c][PdeOf(w)].t # NULL => pt'[pd[c][PdeOf(w)].t] = pt[pd[c][PdeOf(w)].t]
      BY <2>1, <2>3, <1>1, <1>5
    <3> QED
      BY <3>1, <3>2, <2>1 DEF vmm_get_mapping
  <2> QED
    BY <2>2, <2>3
<1>9. Known'
  <2>1. \A c \in Users \ alive' : want'[c] = Unmapped
    BY <1>1 DEF IInv, Known, TypeOK, Dirs
  <2>2. \A c \in Dirs, v \in VPages : want'[c][v] # NoPte => PdeOf(v) < Kde \/ v = Window
    BY <1>1 DEF IInv, Known, TypeOK, Unmapped
  <2>3. cpu'.cr3 \in Live'
    BY <1>0, <1>1 DEF IInv, Known, Live
  <2> QED
    BY <2>1, <2>2, <2>3, <1>0, <1>1 DEF Known, Idle
<1>10. CachesCoherent'
  <2>1. cpu.cr3 \in Dirs /\ \A x \in cpu.pdc : x.i \in PdeIdx
    BY DEF IInv, TypeOK
  <2>2. \A x \in cpu.tlb : PdeOf(x.v) \in PdeIdx
    BY Indices DEF IInv, TypeOK
  <2>3. \A i \in PdeIdx : /\ pd'[cpu.cr3][i] = pd[cpu.cr3][i]
                          /\ pd[cpu.cr3][i].t # NULL => pt'[pd[cpu.cr3][i].t] = pt[pd[cpu.cr3][i].t]
    BY <2>1, <1>0, <1>1, <1>3, <1>5
  <2>4. \A x \in cpu.pdc :
          x.t # NULL /\ x.t = pd'[cpu.cr3][x.i].t /\ x.us = pd'[cpu.cr3][x.i].us
    BY <2>1, <2>3 DEF IInv, CachesCoherent
  <2>5. ASSUME NEW x \in cpu.tlb
        PROVE  LET pde == pd'[cpu.cr3][PdeOf(x.v)]
               IN  pde.t # NULL /\ x = Translation(x.v, pde, pt'[pde.t][PteOf(x.v)])
    <3> DEFINE k == PdeOf(x.v)
    <3>1. /\ pd[cpu.cr3][k].t # NULL
          /\ x = Translation(x.v, pd[cpu.cr3][k], pt[pd[cpu.cr3][k].t][PteOf(x.v)])
      BY DEF IInv, CachesCoherent
    <3> QED
      BY <3>1, <2>2, <2>3
  <2> QED
    BY <2>4, <2>5, <1>1 DEF CachesCoherent
<1> QED
  BY <1>6, <1>7, <1>8, <1>9, <1>10 DEF IInv

(* A walk goes through an entry that agrees with the tables, remembered or *)
(* not, and so remembers a translation that does.                          *)
LEMMA WalkIInv ==
  ASSUME IInv, NEW v \in VPages, Walk(v)
  PROVE  IInv'
<1> USE PageTablesAssumptions
<1> DEFINE i == PdeOf(v)
           j == PteOf(v)
<1>0. i \in PdeIdx /\ j \in PteIdx /\ cpu.cr3 \in Dirs
  BY Indices DEF IInv, TypeOK
<1>1. PICK pde \in PdeSeen(i) :
        /\ cpu' = [cpu EXCEPT !.pdc = {pde},
                              !.tlb = IF pt[pde.t][j] = NoPte THEN @
                                      ELSE {Translation(v, pde, pt[pde.t][j])}]
        /\ UNCHANGED <<pd, pt, free, alive, call, want>>
  BY DEF Walk
<1> HIDE DEF i, j
<1>2. /\ pde \in [i : PdeIdx, t : Tables, us : BOOLEAN] /\ pde.i = i
      /\ pde.t # NULL /\ pde.t = pd[cpu.cr3][i].t /\ pde.us = pd[cpu.cr3][i].us
  <2>1. CASE pde \in {x \in cpu.pdc : x.i = i}
    BY <2>1 DEF IInv, TypeOK, CachesCoherent
  <2>2. CASE /\ pd[cpu.cr3][i].t # NULL
             /\ pde = [i |-> i, t |-> pd[cpu.cr3][i].t, us |-> pd[cpu.cr3][i].us]
    BY <2>2, <1>0 DEF IInv, TypeOK, Pdes
  <2> QED
    BY <2>1, <2>2, <1>1 DEF PdeSeen
<1>3. /\ cpu'.cr3 = cpu.cr3 /\ cpu'.pdc = {pde}
      /\ cpu'.tlb = cpu.tlb \/ cpu'.tlb = {Translation(v, pde, pt[pde.t][j])}
  BY <1>1 DEF IInv, TypeOK
<1>4. TypeOK'
  <2>1. pt[pde.t][j] \in Ptes
    BY <1>0, <1>2 DEF IInv, TypeOK
  <2>2. Translation(v, pde, pt[pde.t][j])
          \in [v : VPages, f : Frames \cup {NULL}, us : BOOLEAN, rw : BOOLEAN]
    BY <2>1, <1>2 DEF Translation, Ptes
  <2>3. cpu' \in [cr3 : Dirs, pdc : SUBSET [i : PdeIdx, t : Tables, us : BOOLEAN],
              tlb : SUBSET [v : VPages, f : Frames \cup {NULL}, us : BOOLEAN, rw : BOOLEAN]]
    BY <2>2, <1>1, <1>2 DEF IInv, TypeOK
  <2> QED
    BY <2>3, <1>1 DEF IInv, TypeOK
<1>5. Owned' /\ MappedAsAsked' /\ Known'
  BY <1>1, <1>3 DEF IInv, Owned, MappedAsAsked, vmm_get_mapping, Known, Idle, Live
<1>6. CachesCoherent'
  <2>1. \A x \in cpu'.pdc :
          x.t # NULL /\ x.t = pd'[cpu'.cr3][x.i].t /\ x.us = pd'[cpu'.cr3][x.i].us
    BY <1>1, <1>2, <1>3
  <2>2. Translation(v, pde, pt[pde.t][j])
          = Translation(v, pd[cpu.cr3][i], pt[pd[cpu.cr3][i].t][j])
    BY <1>2 DEF Translation
  <2>3. Translation(v, pde, pt[pde.t][j]).v = v
    BY DEF Translation
  <2> HIDE DEF Translation
  <2>4. ASSUME NEW x \in cpu'.tlb
        PROVE  LET p == pd[cpu.cr3][PdeOf(x.v)]
               IN  p.t # NULL /\ x = Translation(x.v, p, pt[p.t][PteOf(x.v)])
    <3>1. CASE x \in cpu.tlb
      BY <3>1 DEF IInv, CachesCoherent
    <3>2. CASE x = Translation(v, pde, pt[pde.t][j])
      BY <3>2, <2>2, <2>3, <1>2 DEF i, j
    <3> QED
      BY <3>1, <3>2, <2>4, <1>3
  <2> QED
    BY <2>1, <2>4, <1>1, <1>3 DEF CachesCoherent
<1> QED
  BY <1>4, <1>5, <1>6 DEF IInv

\* Every step keeps the inductive invariant
LEMMA NextIInv == IInv /\ [Next]_vars => IInv'
<1> SUFFICES ASSUME IInv, [Next]_vars PROVE IInv'
  OBVIOUS
<1> USE PageTablesAssumptions
<1>1. ASSUME NEW d \in Users, NEW v \in UserPages, NEW e \in UserEntries, MapUser(d, v, e)
      PROVE  IInv'
  <2>1. d \in Dirs /\ d \in Live /\ Idle /\ v \in VPages /\ PdeOf(v) < Kde
    BY <1>1, PagesKnown DEF MapUser, Dirs, Live
  <2>2. e \in Ptes /\ e.f # NULL
    BY DEF UserEntries, Ptes
  <2> QED
    BY <1>1, <2>1, <2>2, NewTableIInv, OldTableIInv DEF MapUser, vmm_map_page
<1>2. ASSUME NEW f \in Frames, vmm_kmap(f)
      PROVE  IInv'
  <2> DEFINE e == [f |-> f, us |-> FALSE, rw |-> TRUE]
  <2>1. cpu.cr3 \in Dirs /\ cpu.cr3 \in Live /\ Idle /\ Window \in VPages
    BY <1>2, PagesKnown DEF vmm_kmap, IInv, TypeOK, Known
  <2>2. e \in Ptes /\ e.f # NULL
    BY DEF Ptes
  <2>3. /\ MapNewTable(cpu.cr3, Window, e) \/ MapOldTable(cpu.cr3, Window, e)
        /\ UNCHANGED <<alive, call>>
    BY <1>2 DEF vmm_kmap, vmm_map_page
  <2> HIDE DEF e
  <2> QED
    BY <2>1, <2>2, <2>3, NewTableIInv, OldTableIInv
<1>3. ASSUME NEW d \in Dirs, NEW v \in UserPages \cup {Window}, UnmapEntry(d, v)
      PROVE  IInv'
  BY <1>3, PagesKnown, UnmapEntryIInv
<1>4. ASSUME NEW d \in Dirs, Switch(d)
      PROVE  IInv'
  <2>1. cpu' = reload_cr3(d) /\ d \in Live /\ UNCHANGED <<pd, pt, free, alive, call, want>>
    BY <1>4 DEF Switch
  <2>2. TypeOK' /\ CachesCoherent'
    BY <2>1 DEF IInv, TypeOK, CachesCoherent, reload_cr3
  <2>3. Owned'
    BY <2>1, SMTT(30) DEF IInv, Owned, Idle
  <2>4. MappedAsAsked'
    BY <2>1 DEF IInv, MappedAsAsked, vmm_get_mapping
  <2>5. Known'
    BY <2>1 DEF IInv, Known, Idle, Live, reload_cr3
  <2> QED
    BY <2>2, <2>3, <2>4, <2>5 DEF IInv
<1>5. ASSUME NEW v \in Walked, Walk(v)
      PROVE  IInv'
  BY <1>5, WalkIInv
<1>6. CASE UNCHANGED vars
  <2>1. UNCHANGED <<pd, pt, free, cpu, alive, call, want>>
    BY <1>6 DEF vars
  <2>2. TypeOK'
    BY <2>1 DEF IInv, TypeOK
  <2>3. Owned'
    BY <2>1 DEF IInv, Owned, Idle
  <2>4. MappedAsAsked'
    BY <2>1 DEF IInv, MappedAsAsked, vmm_get_mapping
  <2>5. Known'
    BY <2>1 DEF IInv, Known, Idle, Live
  <2>6. CachesCoherent'
    BY <2>1 DEF IInv, CachesCoherent
  <2> QED
    BY <2>2, <2>3, <2>4, <2>5, <2>6 DEF IInv
<1> QED
  BY <1>1, <1>2, <1>3, <1>4, <1>5, <1>6, UnmapTableIInv, CreateIInv, DestroyIInv DEF Next

\* The inductive invariant holds in every reachable state
THEOREM Invariance == Spec => []IInv
  BY InitIInv, NextIInv, PTL DEF Spec

(* No page table is ever lost, shared, or freed while a directory uses it, *)
(* by whatever sequence of vmm_map_page, vmm_unmap_page and                *)
(* vmm_destroy_user_pd.                                                    *)
THEOREM TablesSafe == Spec => []TablesOwnedOnce
<1>1. IInv => TablesOwnedOnce
  BY DEF IInv, Owned, TablesOwnedOnce
<1> QED
  BY <1>1, Invariance, PTL

(* vmm_map_page and vmm_unmap_page change the page they are asked to and   *)
(* no other, in any directory.                                             *)
THEOREM MappingsSafe == Spec => []MappedAsAsked
<1>1. IInv => MappedAsAsked
  BY DEF IInv
<1> QED
  BY <1>1, Invariance, PTL

(* The invlpg and cr3 loads of vmm.c are enough: at no point does the      *)
(* processor hold a translation or a directory entry that differs from the *)
(* tables.                                                                 *)
THEOREM CachesSafe == Spec => []CachesCoherent
<1>1. IInv => CachesCoherent
  BY DEF IInv
<1> QED
  BY <1>1, Invariance, PTL
-----------------------------------------------------------------------------
(* The directory entry over a user page has the user bit: MapOldTable adds *)
(* it when the table was made for a kernel page.                           *)
UserBits == \A d \in Dirs, v \in VPages : want[d][v].us => pd[d][PdeOf(v)].us

LEMMA UserBitsStep == IInv /\ UserBits /\ [Next]_vars => UserBits'
<1>1. SUFFICES ASSUME IInv, UserBits, [Next]_vars, NEW c \in Dirs, NEW w \in VPages, want'[c][w].us
               PROVE  pd'[c][PdeOf(w)].us
  BY DEF UserBits
<1>2. TypeOK /\ MappedAsAsked /\ Known
  BY <1>1 DEF IInv
<1>3. PdeOf(w) \in PdeIdx /\ PteOf(w) \in PteIdx
  BY Indices
<1>4. want[c][w].us => pd[c][PdeOf(w)].us
  BY <1>1 DEF UserBits
<1>5. pd[c][PdeOf(w)].t = NULL => ~want[c][w].us
  BY <1>2 DEF MappedAsAsked, vmm_get_mapping, NoPte
<1>6. ASSUME NEW d \in Dirs, NEW v \in VPages, NEW e, MapNewTable(d, v, e) PROVE pd'[c][PdeOf(w)].us
  <2>1. CASE UNCHANGED <<pd, pt, free, cpu, want>>
    BY <1>1, <1>4, <2>1
  <2>2. ASSUME NEW t, pd' = [pd EXCEPT ![d][PdeOf(v)] = [t |-> t, us |-> e.us]],
               want' = [want EXCEPT ![d][v] = e]
        PROVE  pd'[c][PdeOf(w)].us
    <3>1. CASE c = d /\ PdeOf(w) = PdeOf(v)
      <4>1. w = v
        BY <1>1, <1>2, <1>5, <1>6, <2>2, <3>1 DEF MapNewTable, TypeOK
      <4>2. want'[c][w] = e /\ pd'[c][PdeOf(w)].us = e.us
        BY <1>2, <1>3, <2>2, <3>1, <4>1 DEF TypeOK
      <4>3. QED
        BY <1>1, <4>2
    <3>2. CASE ~(c = d /\ PdeOf(w) = PdeOf(v))
      <4>1. want'[c][w] = want[c][w] /\ pd'[c][PdeOf(w)] = pd[c][PdeOf(w)]
        BY <1>2, <1>3, <2>2, <3>2 DEF TypeOK
      <4>2. QED
        BY <1>1, <1>4, <4>1
    <3>3. QED
      BY <3>1, <3>2
  <2>3. QED
    BY <1>6, <2>1, <2>2 DEF MapNewTable
<1>7. ASSUME NEW d \in Dirs, NEW v \in VPages, NEW e, e.us \in BOOLEAN, MapOldTable(d, v, e)
      PROVE  pd'[c][PdeOf(w)].us
  <2>1. /\ pd' = [pd EXCEPT ![d][PdeOf(v)].us = pd[d][PdeOf(v)].us \/ e.us]
        /\ want' = [want EXCEPT ![d][v] = e]
    BY <1>7 DEF MapOldTable
  <2>2. CASE c = d /\ PdeOf(w) = PdeOf(v)
    <3>1. pd'[c][PdeOf(w)].us = (pd[c][PdeOf(w)].us \/ e.us)
      BY <1>2, <1>3, <2>1, <2>2 DEF TypeOK, Pdes
    <3>2. want'[c][w] = e \/ want'[c][w] = want[c][w]
      BY <1>2, <2>1 DEF TypeOK
    <3>3. QED
      BY <1>1, <1>4, <3>1, <3>2
  <2>3. CASE ~(c = d /\ PdeOf(w) = PdeOf(v))
    <3>1. want'[c][w] = want[c][w] /\ pd'[c][PdeOf(w)] = pd[c][PdeOf(w)]
      BY <1>2, <1>3, <2>1, <2>3 DEF TypeOK
    <3>2. QED
      BY <1>1, <1>4, <3>1
  <2>4. QED
    BY <2>2, <2>3
<1>8. ASSUME NEW d \in Users, NEW v \in UserPages, NEW e \in UserEntries, MapUser(d, v, e)
      PROVE  pd'[c][PdeOf(w)].us
  <2>1. d \in Dirs /\ v \in VPages /\ e.us \in BOOLEAN
    BY PagesKnown DEF Dirs, UserEntries
  <2>2. MapNewTable(d, v, e) \/ MapOldTable(d, v, e)
    BY <1>8 DEF MapUser, vmm_map_page
  <2>3. QED
    BY <1>6, <1>7, <2>1, <2>2
<1>9. ASSUME NEW f \in Frames, vmm_kmap(f) PROVE pd'[c][PdeOf(w)].us
  <2>1. PICK e : e = [f |-> f, us |-> FALSE, rw |-> TRUE]
    OBVIOUS
  <2>2. cpu.cr3 \in Dirs /\ Window \in VPages /\ e.us \in BOOLEAN
    BY <1>2, <2>1, PagesKnown DEF TypeOK
  <2>3. MapNewTable(cpu.cr3, Window, e) \/ MapOldTable(cpu.cr3, Window, e)
    BY <1>9, <2>1 DEF vmm_kmap, vmm_map_page
  <2>4. QED
    BY <1>6, <1>7, <2>2, <2>3
<1>10. ASSUME NEW d \in Dirs, NEW v \in UserPages \cup {Window}, UnmapEntry(d, v)
       PROVE  pd'[c][PdeOf(w)].us
  <2>1. v \in VPages /\ pd' = pd /\ want' = [want EXCEPT ![d][v] = NoPte]
    BY <1>10, PagesKnown DEF UnmapEntry
  <2>2. want'[c][w] \in {NoPte, want[c][w]}
    BY <1>2, <2>1 DEF TypeOK
  <2>3. QED
    BY <1>1, <1>4, <2>1, <2>2 DEF NoPte
<1>11. CASE UnmapTable
  <2>1. want' = want
    BY <1>11 DEF UnmapTable
  <2>2. CASE pd' = pd
    BY <1>1, <1>4, <2>1, <2>2
  <2>3. CASE pd' # pd
    <3>1. /\ IsEmpty(pt[pd[call.d][PdeOf(call.v)].t])
          /\ pd' = [pd EXCEPT ![call.d][PdeOf(call.v)] = NoPde]
      BY <1>11, <2>3 DEF UnmapTable, FreeTable
    <3>2. CASE c = call.d /\ PdeOf(w) = PdeOf(call.v)
      <4>1. vmm_get_mapping(c, w) = NoPte
        BY <1>3, <3>1, <3>2 DEF vmm_get_mapping, IsEmpty, EmptyTable
      <4>2. ~want[c][w].us
        BY <1>2, <4>1 DEF MappedAsAsked, NoPte
      <4>3. QED
        BY <1>1, <2>1, <4>2
    <3>3. CASE ~(c = call.d /\ PdeOf(w) = PdeOf(call.v))
      <4>1. pd'[c][PdeOf(w)] = pd[c][PdeOf(w)]
        BY <1>2, <1>3, <3>1, <3>3 DEF TypeOK
      <4>2. QED
        BY <1>1, <1>4, <2>1, <4>1
    <3>4. QED
      BY <3>2, <3>3
  <2>4. QED
    BY <2>2, <2>3
<1>12. ASSUME NEW d \in Users, Create(d) \/ Destroy(d) PROVE pd'[c][PdeOf(w)].us
  <2>1. CASE c = d
    <3>1. want'[c] = Unmapped
      BY <1>2, <1>12, <2>1 DEF Create, Destroy, Known, TypeOK
    <3>2. QED
      BY <1>1, <3>1 DEF Unmapped, NoPte
  <2>2. CASE c # d
    <3>1. want'[c] = want[c] /\ pd'[c] = pd[c]
      BY <1>2, <1>12, <2>2 DEF Create, Destroy, TypeOK
    <3>2. QED
      BY <1>1, <1>4, <3>1
  <2>3. QED
    BY <2>1, <2>2
<1>13. ASSUME NEW d \in Dirs, Switch(d) PROVE pd'[c][PdeOf(w)].us
  BY <1>1, <1>4, <1>13 DEF Switch
<1>14. ASSUME NEW v \in Walked, Walk(v) PROVE pd'[c][PdeOf(w)].us
  BY <1>1, <1>4, <1>14 DEF Walk
<1>15. CASE UNCHANGED vars
  BY <1>1, <1>4, <1>15 DEF vars
<1>16. QED
  BY <1>1, <1>8, <1>9, <1>10, <1>11, <1>12, <1>13, <1>14, <1>15 DEF Next
-----------------------------------------------------------------------------
(* Division, for the walk of vmm_verify_range_flags.                       *)
LEMMA DivMod ==
  ASSUME NEW p \in Nat, NEW n \in Nat \ {0}
  PROVE  /\ p \div n \in Nat /\ p % n \in Nat /\ p % n < n
         /\ p = n * (p \div n) + (p % n)
OBVIOUS

LEMMA Divided ==
  ASSUME NEW x \in Nat, NEW n \in Nat \ {0}
  PROVE  \E q, r \in Nat : q = x \div n /\ r = x % n /\ r < n /\ x = n * q + r
<1>1. /\ x \div n \in Nat /\ x % n \in Nat /\ x % n < n
      /\ x = n * (x \div n) + (x % n)
  BY DivMod
<1> WITNESS x \div n \in Nat, x % n \in Nat
<1>3. QED
  BY <1>1

LEMMA DivModUnique ==
  ASSUME NEW n \in Nat \ {0}, NEW q \in Nat, NEW r \in 0 .. n - 1
  PROVE  n * q + r \in Nat /\ (n * q + r) \div n = q /\ (n * q + r) % n = r
<1>1. n * q + r \in Nat
  OBVIOUS
<1>2. QED
  BY <1>1

LEMMA DivMonotone ==
  ASSUME NEW n \in Nat \ {0}, NEW x \in Nat, NEW y \in Nat, x =< y
  PROVE  x \div n =< y \div n
<1>1. PICK q, r \in Nat : q = x \div n /\ r = x % n /\ r < n /\ x = n * q + r
  BY Divided, Zenon
<1>2. PICK s, t \in Nat : s = y \div n /\ t = y % n /\ t < n /\ y = n * s + t
  BY Divided, Zenon
<1>3. ASSUME s + 1 =< q PROVE FALSE
  <2>1. n * (s + 1) =< n * q
    BY <1>1, <1>2, <1>3
  <2>2. QED
    BY <1>1, <1>2, <2>1
<1>4. QED
  BY <1>1, <1>2, <1>3

\* Dividing by the size of a table is dividing by the size of a page, then by the entries.
LEMMA NestedDiv ==
  ASSUME NEW n \in Nat \ {0}, NEW m \in Nat \ {0}, NEW x \in Nat
  PROVE  m * n \in Nat \ {0} /\ x \div (m * n) = (x \div n) \div m
<1>1. PICK q, r \in Nat : q = x \div n /\ r = x % n /\ r < n /\ x = n * q + r
  BY Divided, Zenon
<1>2. PICK s, t \in Nat : s = q \div m /\ t = q % m /\ t < m /\ q = m * s + t
  BY Divided, Zenon
<1>3. PICK k \in Nat \ {0} : k = m * n
  OBVIOUS
<1>4. PICK u \in Nat : u = n * t + r
  OBVIOUS
<1>5. u < k
  <2>1. n * (t + 1) =< n * m
    BY <1>2
  <2>2. QED
    BY <1>1, <1>2, <1>3, <1>4, <2>1
<1>6. x = k * s + u
  <2>1. n * q = n * (m * s) + n * t
    <3>1. PICK w \in Nat : w = m * s
      BY <1>2
    <3>2. n * (w + t) = n * w + n * t
      BY <1>2, <3>1
    <3>3. QED
      BY <1>2, <3>1, <3>2
  <2>2. n * (m * s) = (m * n) * s
    BY <1>2
  <2>3. QED
    BY <1>1, <1>3, <1>4, <2>1, <2>2
<1>7. x \div k = s
  <2>1. u \in 0 .. k - 1
    BY <1>3, <1>4, <1>5
  <2>2. (k * s + u) \div k = s
    BY <1>2, <1>3, <2>1, DivModUnique
  <2>3. QED
    BY <1>6, <2>2
<1>8. QED
  BY <1>1, <1>2, <1>3, <1>7

\* The bytes a .. z lie in the pages from the first one's to the last one's, and in each.
Spanned(P, a, z) ==
  /\ \A b \in a .. z : b \div P \in (a \div P) .. (z \div P)
  /\ \A v \in (a \div P) .. (z \div P) : \E b \in a .. z : b \div P = v

LEMMA PagesOfBytes ==
  ASSUME NEW P \in Nat \ {0}, NEW a \in Nat, NEW z \in Nat, a =< z
  PROVE  /\ a \div P \in Nat /\ z \div P \in Nat /\ a \div P =< z \div P
         /\ Spanned(P, a, z)
<1>1. PICK f, r \in Nat : f = a \div P /\ r = a % P /\ r < P /\ a = P * f + r
  BY Divided, Zenon
<1>2. PICK l, s \in Nat : l = z \div P /\ s = z % P /\ s < P /\ z = P * l + s
  BY Divided, Zenon
<1>3. f =< l
  BY <1>1, <1>2, DivMonotone
<1>4. ASSUME NEW b \in a .. z PROVE b \div P \in f .. l
  <2>1. b \in Nat /\ a =< b /\ b =< z
    OBVIOUS
  <2>2. f =< b \div P /\ b \div P =< l /\ b \div P \in Nat
    BY <1>1, <1>2, <2>1, DivMonotone, DivMod
  <2>3. QED
    BY <1>1, <1>2, <2>2
<1>5. ASSUME NEW v \in f .. l PROVE \E b \in a .. z : b \div P = v
  <2>1. CASE v = f
    <3>1. a \in a .. z
      OBVIOUS
    <3>2. QED
      BY <1>1, <2>1, <3>1
  <2>2. CASE v # f
    <3>1. v \in Nat /\ f + 1 =< v /\ v =< l
      BY <1>1, <1>2, <2>2
    <3>2. P * (f + 1) =< P * v /\ P * v =< P * l
      BY <1>1, <1>2, <3>1
    <3>3. PICK b \in Nat : b = P * v
      BY <3>1
    <3>4. a =< b /\ b =< z
      BY <1>1, <1>2, <3>2, <3>3
    <3>5. 0 \in 0 .. P - 1 /\ b = P * v + 0
      BY <3>3
    <3>6. b \div P = v
      BY <3>1, <3>5, DivModUnique
    <3>7. QED
      BY <3>3, <3>4, <3>6
  <2>3. QED
    BY <2>1, <2>2
<1>6. QED
  BY <1>1, <1>2, <1>3, <1>4, <1>5 DEF Spanned

\* Their number as usercopy counts them
LEMMA PageCount ==
  ASSUME NEW P \in Nat \ {0}, NEW a \in Nat, NEW n \in Nat \ {0}, NEW z \in Nat
  PROVE  z = a + n - 1 => ((a % P) + n + P - 1) \div P = (z \div P) - (a \div P) + 1
<1>1. PICK f, r \in Nat : f = a \div P /\ r = a % P /\ r < P /\ a = P * f + r
  BY Divided, Zenon
<1>2. PICK l, s \in Nat : l = z \div P /\ s = z % P /\ s < P /\ z = P * l + s
  BY Divided, Zenon
<1>3. a =< z => f =< l
  BY <1>1, <1>2, DivMonotone
<1> HAVE z = a + n - 1
<1>4. f =< l
  BY <1>3
<1>5. (r + n + P - 1) \div P = l - f + 1
  <2>1. PICK k \in Nat : k = l - f /\ P * l = P * f + P * k
    BY <1>1, <1>2, <1>4
  <2>2. r + n + P - 1 = P * (k + 1) + s
    <3>1. P * (k + 1) = P * k + P /\ P * k \in Nat /\ P * f \in Nat
      BY <1>1, <2>1
    <3>2. (P * f + r) + n - 1 = (P * f + P * k) + s
      BY <1>1, <1>2, <2>1
    <3>3. QED
      BY <1>1, <1>2, <3>1, <3>2
  <2>3. (P * (k + 1) + s) \div P = k + 1
    <3>1. k + 1 \in Nat /\ s \in 0 .. P - 1
      BY <1>2, <2>1
    <3>2. QED
      BY <3>1, DivModUnique
  <2>4. QED
    BY <2>1, <2>2, <2>3
<1>6. QED
  BY <1>1, <1>2, <1>5

\* access_ok accepts exactly the ranges below the kernel, those that wrap included.
LEMMA RangesBelow ==
  ASSUME NEW S \in Nat, NEW K \in Nat, K < S, NEW a \in 0 .. S - 1, NEW n \in 1 .. S - 1
  PROVE  /\ ~((a + n) % S < a \/ (a + n) % S > K) <=> a + n =< K
         /\ (\A b \in a .. a + n - 1 : b < K) <=> a + n =< K
<1>1. CASE a + n < S
  <2>1. a + n \in 0 .. S - 1 /\ S \in Nat \ {0} /\ a + n = S * 0 + (a + n)
    BY <1>1
  <2>2. (a + n) % S = a + n
    BY <2>1, DivModUnique
  <2>3. QED
    BY <2>2
<1>2. CASE a + n >= S
  <2>1. PICK r \in Nat : r = a + n - S /\ r \in 0 .. S - 1 /\ r < a
    BY <1>2
  <2>2. a + n = S * 1 + r /\ S \in Nat \ {0}
    BY <2>1
  <2>3. (a + n) % S = r
    BY <2>1, <2>2, DivModUnique
  <2>4. QED
    BY <1>2, <2>1, <2>3
<1>3. QED
  BY <1>1, <1>2

(* The entries that vmm_verify_range_flags looks at are those of the pages *)
(* f .. l: entry j of the table i after the first.                         *)
WalkFrom(f, T, i) == IF i = 0 THEN f % T ELSE 0
WalkLeft(f, l, T, i) == (l - f + 1) - (IF i = 0 THEN 0 ELSE i * T - (f % T))

LEMMA WalkCovers ==
  ASSUME NEW T \in Nat \ {0}, NEW f \in Nat, NEW l \in Nat, f =< l, NEW i \in Nat, NEW j \in 0 .. T - 1
  PROVE  /\ (f \div T) + i \in Nat /\ T * ((f \div T) + i) + j \in Nat
         /\ T * ((f \div T) + i) + j \in f .. l =>
              /\ i \in 0 .. (l \div T) - (f \div T)
              /\ j \in WalkFrom(f, T, i) .. T - 1 /\ j - WalkFrom(f, T, i) < WalkLeft(f, l, T, i)
         /\ j \in WalkFrom(f, T, i) .. T - 1 /\ j - WalkFrom(f, T, i) < WalkLeft(f, l, T, i) =>
              T * ((f \div T) + i) + j \in f .. l
         /\ i \in 0 .. (l \div T) - (f \div T) /\ j = WalkFrom(f, T, i) =>
              T * ((f \div T) + i) + j \in f .. l
<1>1. PICK s, r \in Nat : s = f \div T /\ r = f % T /\ r < T /\ f = T * s + r
  BY Divided, Zenon
<1>2. PICK e, q \in Nat : e = l \div T /\ q = l % T /\ q < T /\ l = T * e + q
  BY Divided, Zenon
<1>3. PICK A, B \in Nat : A = T * s /\ B = T * i
  BY <1>1
<1>4. i * T = B /\ T * (s + i) = A + B /\ s + i \in Nat /\ (i # 0 => T =< B)
  BY <1>1, <1>3
<1>5. PICK v \in Nat : v = A + B + j
  BY <1>3
<1>6. v \in f .. l => i \in 0 .. e - s
  <2>1. HAVE v \in f .. l
  <2>2. v = T * (s + i) + j
    BY <1>4, <1>5
  <2>3. v \div T = s + i
    BY <1>1, <1>4, <2>2, DivModUnique
  <2>4. v \div T =< e
    BY <1>2, <2>1, DivMonotone
  <2>5. QED
    BY <1>1, <1>2, <2>3, <2>4
<1>7. v \in f .. l <=> j >= WalkFrom(f, T, i) /\ j - WalkFrom(f, T, i) < WalkLeft(f, l, T, i)
  <2>1. CASE i = 0
    <3>1. B = 0 /\ WalkFrom(f, T, i) = r /\ WalkLeft(f, l, T, i) = l - f + 1
      BY <1>1, <1>3, <2>1 DEF WalkFrom, WalkLeft
    <3>2. QED
      BY <1>1, <1>3, <1>5, <3>1
  <2>2. CASE i # 0
    <3>1. WalkFrom(f, T, i) = 0 /\ WalkLeft(f, l, T, i) = l - f + 1 - (B - r)
      BY <1>1, <1>4, <2>2 DEF WalkFrom, WalkLeft
    <3>2. QED
      BY <1>1, <1>3, <1>4, <1>5, <2>2, <3>1
  <2>3. QED
    BY <2>1, <2>2
<1>8. WalkFrom(f, T, i) \in 0 .. T - 1
  BY <1>1 DEF WalkFrom
<1>9. i \in 0 .. e - s /\ j = WalkFrom(f, T, i) => v \in f .. l
  <2>1. CASE i = 0
    <3>1. B = 0 /\ WalkFrom(f, T, i) = r
      BY <1>1, <1>3, <2>1 DEF WalkFrom
    <3>2. QED
      BY <1>1, <1>3, <1>5, <3>1
  <2>2. CASE i # 0
    <3>1. WalkFrom(f, T, i) = 0
      BY <2>2 DEF WalkFrom
    <3>2. i \in 0 .. e - s => T * (s + i) =< T * e
      BY <1>1, <1>2
    <3>3. QED
      BY <1>1, <1>2, <1>3, <1>4, <1>5, <2>2, <3>1, <3>2
  <2>3. QED
    BY <2>1, <2>2
<1>10. QED
  BY <1>1, <1>2, <1>4, <1>5, <1>6, <1>7, <1>8, <1>9

\* The test of the walk from table to table
WalkChecks(d, f, l, write) ==
  \A i \in 0 .. (l \div NPte) - (f \div NPte) :
    /\ pd[d][(f \div NPte) + i].t # NULL /\ pd[d][(f \div NPte) + i].us
    /\ \A j \in WalkFrom(f, NPte, i) .. NPte - 1 :
         j - WalkFrom(f, NPte, i) < WalkLeft(f, l, NPte, i) =>
           Flagged(pt[pd[d][(f \div NPte) + i].t][j], write)

\* vmm_verify_range_flags in terms of the pages f .. l of the range
LEMMA VerifyWalk ==
  ASSUME NEW a \in Nat, NEW n \in Nat \ {0}, a + n =< KERNEL_VADDR_BASE, NEW d, NEW write,
         NEW f, f = a \div PAGE_SIZE, NEW l, l = (a + n - 1) \div PAGE_SIZE
  PROVE  /\ f \in Nat /\ l \in Nat /\ f =< l /\ f .. l \subseteq VPages
         /\ vmm_verify_range_flags(d, a, n, write) <=> WalkChecks(d, f, l, write)
<1>1. /\ NPde \in Nat /\ NPte \in Nat \ {0} /\ PAGE_SIZE \in Nat \ {0}
      /\ Kde \in Nat /\ Kde < NPde
  BY PageTablesAssumptions
<1>2. PICK K, V \in Nat : K = Kde * NPte /\ V = NPde * NPte /\ K < V
  <2>1. (Kde + 1) * NPte =< NPde * NPte
    BY <1>1
  <2>2. QED
    BY <1>1, <2>1
<1>3. PICK z \in Nat : z = a + n - 1 /\ a =< z /\ z < K * PAGE_SIZE
  <2>1. K * PAGE_SIZE \in Nat /\ KERNEL_VADDR_BASE = K * PAGE_SIZE
    BY <1>1, <1>2 DEF KERNEL_VADDR_BASE
  <2>2. QED
    BY <2>1
<1>4. /\ f \in Nat /\ l \in Nat /\ f =< l
      /\ ((a % PAGE_SIZE) + n + PAGE_SIZE - 1) \div PAGE_SIZE = l - f + 1
  <2>1. l = z \div PAGE_SIZE
    BY <1>3
  <2>2. f \in Nat /\ l \in Nat /\ f =< l
    BY <1>1, <1>3, <2>1, PagesOfBytes
  <2>3. ((a % PAGE_SIZE) + n + PAGE_SIZE - 1) \div PAGE_SIZE = (z \div PAGE_SIZE) - (a \div PAGE_SIZE) + 1
    BY <1>1, <1>3, PageCount
  <2>4. QED
    BY <2>1, <2>2, <2>3
<1>5. l < K
  <2>1. PICK q \in Nat : z = PAGE_SIZE * l + q
    BY <1>1, <1>3, DivMod
  <2>2. ASSUME K =< l PROVE FALSE
    <3>1. PAGE_SIZE * K =< PAGE_SIZE * l
      BY <1>1, <1>2, <1>4, <2>2
    <3>2. QED
      BY <1>1, <1>2, <1>3, <1>4, <2>1, <3>1
  <2>3. QED
    BY <1>2, <1>4, <2>2
<1>6. f .. l \subseteq VPages
  BY <1>2, <1>4, <1>5 DEF VPages
<1>7. z % Span = z
  <2>1. PICK S \in Nat \ {0} : S = V * PAGE_SIZE /\ z < S
    <3>1. K * PAGE_SIZE =< V * PAGE_SIZE
      BY <1>1, <1>2
    <3>2. QED
      BY <1>1, <1>2, <1>3, <3>1
  <2>2. z \in 0 .. S - 1 /\ z = S * 0 + z
    BY <2>1
  <2>3. z % S = z
    BY <2>1, <2>2, DivModUnique
  <2>4. QED
    BY <1>2, <2>1, <2>3 DEF Span
<1>8. a \div (NPte * PAGE_SIZE) = f \div NPte /\ z \div (NPte * PAGE_SIZE) = l \div NPte
  BY <1>1, <1>3, NestedDiv
<1>9. f \div NPte \in Nat /\ l \div NPte \in Nat
  BY <1>1, <1>4, DivMod
<1>10. PagesToVerify(a, n) = l - f + 1
  BY <1>4 DEF PagesToVerify
<1> DEFINE start == a \div (NPte * PAGE_SIZE)
           range == ((a + n - 1) % Span) \div (NPte * PAGE_SIZE) - start + 1
           first == (a \div PAGE_SIZE) % NPte
           From(i) == IF i = 0 THEN first ELSE 0
           Remaining(i) == PagesToVerify(a, n) - (IF i = 0 THEN 0 ELSE i * NPte - first)
<1>11. vmm_verify_range_flags(d, a, n, write) <=>
         \A i \in 0 .. range - 1 :
           /\ pd[d][start + i].t # NULL /\ pd[d][start + i].us
           /\ \A j \in From(i) .. NPte - 1 :
                j - From(i) < Remaining(i) => Flagged(pt[pd[d][start + i].t][j], write)
  BY Zenon DEF vmm_verify_range_flags
<1>12. start = f \div NPte /\ range - 1 = (l \div NPte) - (f \div NPte)
  BY <1>3, <1>7, <1>8, <1>9
<1>13. ASSUME NEW i \in Nat PROVE From(i) = WalkFrom(f, NPte, i) /\ Remaining(i) = WalkLeft(f, l, NPte, i)
  <2>1. first = f % NPte
    OBVIOUS
  <2> HIDE DEF first
  <2>2. From(i) = WalkFrom(f, NPte, i)
    BY <2>1 DEF WalkFrom
  <2>3. Remaining(i) = WalkLeft(f, l, NPte, i)
    <3>1. CASE i = 0
      BY <1>10, <3>1 DEF WalkLeft
    <3>2. CASE i # 0
      <4>1. PICK x : x = i * NPte - first
        BY Zenon
      <4>2. x = i * NPte - (f % NPte)
        BY <2>1, <4>1, Zenon
      <4>3. Remaining(i) = PagesToVerify(a, n) - x
        BY <3>2, <4>1
      <4>4. WalkLeft(f, l, NPte, i) = (l - f + 1) - x
        BY <3>2, <4>2 DEF WalkLeft
      <4> HIDE DEF Remaining
      <4>5. QED
        BY <1>10, <4>3, <4>4, Zenon
    <3>3. QED
      BY <3>1, <3>2
  <2>4. QED
    BY <2>2, <2>3
<1> HIDE DEF start, range, first, From, Remaining
<1> DEFINE Table(i) == pd[d][(f \div NPte) + i]
           Seen(i, from, left) ==
             /\ Table(i).t # NULL /\ Table(i).us
             /\ \A j \in from .. NPte - 1 : j - from < left => Flagged(pt[Table(i).t][j], write)
<1>14. vmm_verify_range_flags(d, a, n, write) <=>
         \A i \in 0 .. (l \div NPte) - (f \div NPte) : Seen(i, From(i), Remaining(i))
  BY <1>11, <1>12, Zenon
<1>15. WalkChecks(d, f, l, write) <=>
         \A i \in 0 .. (l \div NPte) - (f \div NPte) :
           Seen(i, WalkFrom(f, NPte, i), WalkLeft(f, l, NPte, i))
  BY Zenon DEF WalkChecks
<1> HIDE DEF Seen
<1>16. ASSUME NEW i \in 0 .. (l \div NPte) - (f \div NPte)
       PROVE  Seen(i, From(i), Remaining(i)) <=> Seen(i, WalkFrom(f, NPte, i), WalkLeft(f, l, NPte, i))
  <2>1. i \in Nat
    BY <1>9
  <2>2. QED
    BY <1>13, <2>1, Zenon
<1>17. QED
  BY <1>4, <1>6, <1>14, <1>15, <1>16, Zenon

\* vmm_verify_range_flags looks at every page of the range, and at no other.
LEMMA VerifyPages ==
  ASSUME TypeOK, MappedAsAsked, UserBits, NEW d \in Dirs, NEW write \in BOOLEAN,
         NEW a \in Nat, NEW n \in Nat \ {0}, a + n =< KERNEL_VADDR_BASE,
         NEW f, f = a \div PAGE_SIZE, NEW l, l = (a + n - 1) \div PAGE_SIZE
  PROVE  vmm_verify_range_flags(d, a, n, write) <=>
           \A v \in f .. l : Flagged(vmm_get_mapping(d, v), write)
<1>1. NPte \in Nat \ {0}
  BY PageTablesAssumptions
<1>2. PICK s : s = f \div NPte
  BY Zenon
<1>3. /\ f \in Nat /\ l \in Nat /\ f =< l /\ f .. l \subseteq VPages
      /\ vmm_verify_range_flags(d, a, n, write) <=>
           \A i \in 0 .. (l \div NPte) - s :
             /\ pd[d][s + i].t # NULL /\ pd[d][s + i].us
             /\ \A j \in WalkFrom(f, NPte, i) .. NPte - 1 :
                  j - WalkFrom(f, NPte, i) < WalkLeft(f, l, NPte, i) =>
                    Flagged(pt[pd[d][s + i].t][j], write)
  <2>1. /\ f \in Nat /\ l \in Nat /\ f =< l /\ f .. l \subseteq VPages
        /\ vmm_verify_range_flags(d, a, n, write) <=> WalkChecks(d, f, l, write)
    BY VerifyWalk
  <2>2. QED
    BY <1>2, <2>1, Zenon DEF WalkChecks
<1>4. ASSUME NEW v \in f .. l, Flagged(vmm_get_mapping(d, v), write)
      PROVE  pd[d][PdeOf(v)].t # NULL /\ pd[d][PdeOf(v)].us /\ Flagged(pt[pd[d][PdeOf(v)].t][PteOf(v)], write)
  <2>1. v \in VPages
    BY <1>3
  <2>2. pd[d][PdeOf(v)].t # NULL
    BY <1>4 DEF Flagged, vmm_get_mapping, NoPte
  <2>3. vmm_get_mapping(d, v).us /\ vmm_get_mapping(d, v) = pt[pd[d][PdeOf(v)].t][PteOf(v)]
    BY <1>4, <2>2 DEF Flagged, vmm_get_mapping
  <2>4. want[d][v].us
    BY <2>1, <2>3 DEF MappedAsAsked
  <2>5. pd[d][PdeOf(v)].us
    BY <2>1, <2>4 DEF UserBits
  <2>6. QED
    BY <1>4, <2>2, <2>3, <2>5
<1>5. ASSUME NEW i \in Nat, NEW j \in 0 .. NPte - 1
      PROVE  s + i \in Nat /\ PdeOf(NPte * (s + i) + j) = s + i /\ PteOf(NPte * (s + i) + j) = j
  <2>1. s + i \in Nat
    <3>1. f \div NPte \in Nat
      BY <1>1, <1>3, DivMod
    <3>2. QED
      BY <1>2, <3>1
  <2>2. QED
    BY <1>1, <2>1, DivModUnique DEF PdeOf, PteOf
<1>6. ASSUME vmm_verify_range_flags(d, a, n, write), NEW v \in f .. l
      PROVE  Flagged(vmm_get_mapping(d, v), write)
  <2>1. PICK k, j \in Nat : k = v \div NPte /\ j = v % NPte /\ j < NPte /\ v = NPte * k + j
    <3>1. v \in Nat
      BY <1>3
    <3>2. QED
      BY <1>1, <3>1, Divided, Zenon
  <2>2. PICK i \in Nat : k = s + i
    <3>1. f =< v /\ v \in Nat
      BY <1>3
    <3>2. s =< k /\ s \in Nat
      BY <1>1, <1>2, <1>3, <2>1, <3>1, DivMonotone, DivMod
    <3>3. QED
      BY <2>1, <3>2
  <2>3. j \in 0 .. NPte - 1 /\ NPte * (s + i) + j \in f .. l
    <3>1. j \in 0 .. NPte - 1
      BY <1>1, <2>1
    <3>2. NPte * k + j = NPte * (s + i) + j
      BY <2>2, Zenon
    <3>3. NPte * (s + i) + j \in f .. l
      BY <2>1, <3>2, Zenon
    <3>4. QED
      BY <3>1, <3>3
  <2>4. /\ i \in 0 .. (l \div NPte) - s
        /\ j \in WalkFrom(f, NPte, i) .. NPte - 1
        /\ j - WalkFrom(f, NPte, i) < WalkLeft(f, l, NPte, i)
    BY <1>1, <1>2, <1>3, <2>3, WalkCovers
  <2>5. pd[d][s + i].t # NULL /\ Flagged(pt[pd[d][s + i].t][j], write)
    BY <1>3, <1>6, <2>4
  <2>6. PdeOf(v) = s + i /\ PteOf(v) = j
    BY <2>1, <2>2 DEF PdeOf, PteOf
  <2>7. QED
    BY <2>5, <2>6 DEF vmm_get_mapping
<1>7. ASSUME \A v \in f .. l : Flagged(vmm_get_mapping(d, v), write),
             NEW i \in 0 .. (l \div NPte) - s
      PROVE  /\ pd[d][s + i].t # NULL /\ pd[d][s + i].us
             /\ \A j \in WalkFrom(f, NPte, i) .. NPte - 1 :
                  j - WalkFrom(f, NPte, i) < WalkLeft(f, l, NPte, i) =>
                    Flagged(pt[pd[d][s + i].t][j], write)
  <2>1. i \in Nat
    OBVIOUS
  <2>2. PICK b \in 0 .. NPte - 1 : b = WalkFrom(f, NPte, i)
    BY <1>1, <1>3, DivMod DEF WalkFrom
  <2>3. NPte * (s + i) + b \in f .. l
    BY <1>1, <1>2, <1>3, <1>7, <2>1, <2>2, WalkCovers
  <2>4. pd[d][s + i].t # NULL /\ pd[d][s + i].us
    <3>1. PICK v \in f .. l : v = NPte * (s + i) + b
      BY <2>3
    <3>2. PdeOf(v) = s + i
      BY <1>5, <2>1, <2>2, <3>1
    <3>3. QED
      BY <1>4, <1>7, <3>1, <3>2
  <2>5. ASSUME NEW j \in WalkFrom(f, NPte, i) .. NPte - 1,
               j - WalkFrom(f, NPte, i) < WalkLeft(f, l, NPte, i)
        PROVE  Flagged(pt[pd[d][s + i].t][j], write)
    <3>1. j \in 0 .. NPte - 1
      BY <2>2
    <3>2. NPte * (s + i) + j \in f .. l
      BY <1>1, <1>2, <1>3, <2>1, <2>5, <3>1, WalkCovers
    <3>3. PICK v \in f .. l : v = NPte * (s + i) + j
      BY <3>2
    <3>4. PdeOf(v) = s + i /\ PteOf(v) = j
      BY <1>5, <2>1, <3>1, <3>3
    <3>5. QED
      BY <1>4, <1>7, <3>3, <3>4
  <2>6. QED
    BY <2>4, <2>5
<1>8. QED
  BY <1>3, <1>6, <1>7

(* The checks of usercopy are exact: for every range, of whatever length   *)
(* and wherever it starts, the copy is made if and only if every byte is   *)
(* below the kernel in a page the task has mapped with the rights the copy *)
(* needs (usercopy.c:9-20, vmm.c:308-342).                                 *)
THEOREM CopiesChecked == Spec => []CopyChecksRange
<1>1. Init => UserBits
  BY DEF Init, UserBits, Unmapped, NoPte
<1>2. IInv /\ UserBits => CopyChecksRange
  <2>1. SUFFICES ASSUME IInv, UserBits, NEW a \in 0 .. Span - 1, NEW n \in 1 .. Span - 1,
                        NEW write \in BOOLEAN
                 PROVE  usercopy(a, n, write) <=>
                          \A b \in a .. a + n - 1 :
                            /\ b < KERNEL_VADDR_BASE
                            /\ Flagged(vmm_get_mapping(cpu.cr3, b \div PAGE_SIZE), write)
    BY DEF CopyChecksRange
  <2>2. TypeOK /\ MappedAsAsked /\ cpu.cr3 \in Dirs
    BY <2>1 DEF IInv, TypeOK
  <2>3. PICK K, S \in Nat : K = KERNEL_VADDR_BASE /\ S = Span /\ K < S
    <3>1. /\ NPde \in Nat /\ NPte \in Nat \ {0} /\ PAGE_SIZE \in Nat \ {0} /\ Kde \in Nat /\ Kde + 1 =< NPde
      BY PageTablesAssumptions
    <3>2. PICK x, y \in Nat : x = Kde * NPte /\ y = NPde * NPte /\ x + 1 =< y
      <4>1. (Kde + 1) * NPte =< NPde * NPte
        BY <3>1
      <4>2. QED
        BY <3>1, <4>1
    <3>3. (x + 1) * PAGE_SIZE =< y * PAGE_SIZE
      BY <3>1, <3>2
    <3>4. QED
      BY <3>1, <3>2, <3>3 DEF KERNEL_VADDR_BASE, Span
  <2>4. access_ok(a, n) <=> a + n =< K
    BY <2>1, <2>3, RangesBelow DEF access_ok
  <2>5. (\A b \in a .. a + n - 1 : b < K) <=> a + n =< K
    BY <2>1, <2>3, RangesBelow
  <2>6. CASE a + n =< K
    <3>1. PICK f, l : f = a \div PAGE_SIZE /\ l = (a + n - 1) \div PAGE_SIZE
      OBVIOUS
    <3>2. a \in Nat /\ n \in Nat \ {0} /\ PAGE_SIZE \in Nat \ {0}
      BY <2>1, <2>3, PageTablesAssumptions
    <3>3. /\ \A b \in a .. a + n - 1 : b \div PAGE_SIZE \in f .. l
          /\ \A v \in f .. l : \E b \in a .. a + n - 1 : b \div PAGE_SIZE = v
      <4>1. PICK z \in Nat : z = a + n - 1 /\ a =< z
        BY <3>2
      <4>2. Spanned(PAGE_SIZE, a, z)
        BY <3>2, <4>1, PagesOfBytes
      <4>3. f = a \div PAGE_SIZE /\ l = z \div PAGE_SIZE /\ a .. z = a .. a + n - 1
        BY <3>1, <4>1
      <4>4. QED
        BY <4>2, <4>3, Zenon DEF Spanned
    <3>4. vmm_verify_range_flags(cpu.cr3, a, n, write) <=>
            \A v \in f .. l : Flagged(vmm_get_mapping(cpu.cr3, v), write)
      BY <2>1, <2>2, <2>3, <2>6, <3>1, <3>2, VerifyPages
    <3>5. usercopy(a, n, write) <=> \A v \in f .. l : Flagged(vmm_get_mapping(cpu.cr3, v), write)
      BY <2>4, <2>6, <3>4 DEF usercopy
    <3>6. QED
      BY <2>3, <2>5, <2>6, <3>3, <3>5
  <2>7. CASE ~(a + n =< K)
    BY <2>3, <2>4, <2>5, <2>7 DEF usercopy
  <2>8. QED
    BY <2>6, <2>7
<1>3. QED
  BY <1>1, <1>2, Invariance, UserBitsStep, PTL DEF Spec
=============================================================================
