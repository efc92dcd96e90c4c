---------------------------- MODULE ProcessProofs ----------------------------
(***************************************************************************)
(* For every number of pids, quantum, tick modulus, set of sleep durations *)
(* and set of signals: the process core is well typed, its queues lose and *)
(* duplicate no task, its family tree and its pids match its tasks, no     *)
(* waiting parent sleeps through an exit, and a zombie stays dead.         *)
(*                                                                         *)
(* First the inductive invariant, and what the operations that the actions *)
(* share do to it: schedule(), blocking and waking on a wait queue,        *)
(* do_exit, the creation and the release of tasks; then the actions.       *)
(***************************************************************************)
EXTENDS Process, OpsProofs

\* The two halves of NoTaskLost: the ready queue, and the wait queues.
RunnableQueued ==
  \A t \in Task \ {Idle} : state[t] = "RUNNING" => t = current \/ t \in Range(ready)

WaitersParked ==
  /\ \A t \in Task :
       state[t] = "WAITING" <=> t \in Range(wq[t]) \/ t \in Range(wq[SleepWq])
  /\ \A q \in Queues : IsInjective(wq[q])
  /\ \A q \in Task : Range(wq[q]) \subseteq {q} \ Range(wq[SleepWq])

(* What idle, kitoxD and the boot thread never do: be killed or sleep.     *)
(* And a task inside waitpid keeps the argument it waits for.              *)
Roles ==
  /\ state[Idle] \in {"NEW", "RUNNING"}
  /\ state[KitoxD] \in {"RUNNING", "WAITING"}
  /\ kctx[Idle] \in {"user", "tick", "iret", "preempted"}
  /\ kctx[Dummy] \in {"user", "tick", "iret", "dead"}
  /\ kctx[KitoxD] \notin {"kern", "ksleeping"}
  /\ \A t \in {Idle, KitoxD, Dummy} : caught[t] = {}
  /\ \A t \in Task : /\ state[t] \notin {"FREE", "ZOMBIE"}
                     /\ kctx[t] \in {"waitloop", "waiting"}
                     => waitfor[t] # 0

(* NoLostChildWakeup in terms of children instead of list positions.       *)
WakeupsKept ==
  \A t \in Task \ {KitoxD} : t \in Range(wq[t]) =>
    /\ \A c \in Range(children[t]) : waitfor[t] \in {-1, c} => state[c] # "ZOMBIE"
    /\ \E c \in Range(children[t]) : waitfor[t] \in {-1, c}

(* The inductive invariant.  ReadyQueueSound and NoTaskLost need each      *)
(* other and need Roles: if idle could block, or kitoxD exit, they would   *)
(* fail.  do_exit needs FamilyConsistent to know that there is a parent to *)
(* wake, and the creation of a task needs PidsMatchTasks to know that the  *)
(* pid it takes is of no task that is still queued somewhere.              *)
IInv ==
  /\ TypeOK /\ ReadyQueueSound /\ RunnableQueued /\ WaitersParked
  /\ FamilyConsistent /\ PidsMatchTasks /\ Roles /\ WakeupsKept
-----------------------------------------------------------------------------
LEMMA TaskFacts ==
  /\ Idle \in Task /\ KitoxD \in Task /\ Idle # KitoxD
  /\ Dummy \notin Task /\ SleepWq \notin Task /\ NULL \notin Task
  /\ Thread = Task \cup {Dummy} /\ Queues = Task \cup {SleepWq}
  /\ ~(Idle > KitoxD) /\ ~(KitoxD > KitoxD) /\ ~(Dummy > KitoxD)
BY ProcessAssumptions DEF Task, Idle, KitoxD, Dummy, SleepWq, NULL, Thread, Queues

LEMMA UpdateType ==
  ASSUME NEW D, NEW R, NEW f \in [D -> R], NEW x, NEW v \in R
  PROVE  [f EXCEPT ![x] = v] \in [D -> R]
BY Zenon

LEMMA MinElement ==
  ASSUME NEW S \in SUBSET Nat, S # {}
  PROVE  Min(S) \in S
<1>1. \E x \in S : \A y \in S : x =< y
  BY LeastElement
<1>2. QED
  BY <1>1, Zenon DEF Min

(* schedule() keeps the ready queue sound, whatever changed before it, if  *)
(* the caller has put the task states st and the queue rq in order.        *)
LEMMA ScheduleSound ==
  ASSUME NEW st \in [Task -> States], NEW rq \in Seq(Task), IsInjective(rq),
         current \in Thread,
         \A t \in Range(rq) : st[t] = "RUNNING" /\ t \notin {current, Idle},
         \A t \in Task \ {Idle} : st[t] = "RUNNING" => t = current \/ t \in Range(rq),
         schedule(st, rq)
  PROVE  /\ current' \in Task /\ ready' \in Seq(Task) /\ quantum' = Quantum
         /\ state' \in [Task -> States]
         /\ \A t \in Task \ {Idle} : state'[t] = st[t]
         /\ state'[Idle] \in {st[Idle], "RUNNING"}
         /\ ReadyQueueSound' /\ RunnableQueued'
<1> USE TaskFacts
<1> DEFINE again == current \notin {Idle, Dummy} /\ st[current] = "RUNNING"
           q == IF again THEN sched_enqueue(rq, current) ELSE rq
           R == IF again THEN Range(rq) \cup {current} ELSE Range(rq)
<1>1. q \in Seq(Task) /\ IsInjective(q) /\ Range(q) = R
  <2>1. CASE ~again
    BY <2>1
  <2>2. CASE again
    <3>1. current \in Task /\ current \notin Range(rq) /\ q = Append(rq, current)
      BY <2>2 DEF sched_enqueue
    <3>2. /\ Append(rq, current) \in Seq(Task) /\ IsInjective(Append(rq, current))
          /\ Range(Append(rq, current)) = Range(rq) \cup {current}
      BY <3>1, AppendList
    <3>3. QED
      BY <2>2, <3>1, <3>2, Zenon
  <2>3. QED
    BY <2>1, <2>2
<1>2. /\ quantum' = Quantum
      /\ IF q = <<>>
         THEN current' = Idle /\ ready' = q /\ state' = [st EXCEPT ![Idle] = "RUNNING"]
         ELSE current' = Head(q) /\ ready' = Tail(q) /\ state' = st
  BY DEF schedule
<1>3. \A t \in R : t \in Task /\ st[t] = "RUNNING" /\ t # Idle
  BY ToSetElement
<1>4. \A t \in Task \ {Idle} : st[t] = "RUNNING" => t \in R
  OBVIOUS
<1> HIDE DEF q, R
<1>5. CASE q = <<>>
  <2>1. R = {}
    BY <1>1, <1>5, ToSetElement, Zenon
  <2>2. current' = Idle /\ ready' = <<>> /\ state' = [st EXCEPT ![Idle] = "RUNNING"]
    BY <1>2, <1>5
  <2>3. /\ Range(ready') = {} /\ ready' \in Seq(Task) /\ IsInjective(ready')
        /\ state' \in [Task -> States] /\ state'[Idle] = "RUNNING"
        /\ \A t \in Task \ {Idle} : state'[t] = st[t]
    BY <1>1, <1>5, <2>1, <2>2 DEF States
  <2>4. ReadyQueueSound' /\ RunnableQueued'
    BY <1>4, <2>1, <2>2, <2>3 DEF ReadyQueueSound, RunnableQueued
  <2>5. QED
    BY <1>2, <2>2, <2>3, <2>4
<1>6. CASE q # <<>>
  <2>1. current' = Head(q) /\ ready' = Tail(q) /\ state' = st
    BY <1>2, <1>6
  <2>2. /\ current' \in R /\ current' \in Task /\ ready' \in Seq(Task)
        /\ Range(ready') = R \ {current'} /\ IsInjective(ready')
    BY <1>1, <1>6, <2>1, TailList
  <2>3. ReadyQueueSound' /\ RunnableQueued'
    BY <1>3, <1>4, <2>1, <2>2 DEF ReadyQueueSound, RunnableQueued
  <2>4. QED
    BY <1>2, <2>1, <2>2, <2>3
<1>7. QED
  BY <1>5, <1>6
-----------------------------------------------------------------------------
(* The wait queues *)

\* Unlinking a task takes it off the wait queues and leaves the others there.
LEMMA UnparkEffect ==
  ASSUME wq \in [Queues -> Seq(Task)], \A q \in Queues : IsInjective(wq[q]), NEW t
  PROVE  /\ Unpark(t) \in [Queues -> Seq(Task)]
         /\ \A q \in Queues : /\ Range(Unpark(t)[q]) = Range(wq[q]) \ {t}
                              /\ IsInjective(Unpark(t)[q])
<1>1. \A q \in Queues : /\ Unlink(wq[q], t) \in Seq(Task)
                        /\ Range(Unlink(wq[q], t)) = Range(wq[q]) \ {t}
                        /\ IsInjective(Unlink(wq[q], t))
  BY UnlinkList
<1>2. QED
  BY <1>1 DEF Unpark

\* Only a task in state WAITING is on a wait queue, its own or sleep_wq.
LEMMA ParkedWaits ==
  ASSUME TypeOK, WaitersParked, NEW q \in Queues, NEW t \in Range(wq[q])
  PROVE  t \in Task /\ state[t] = "WAITING" /\ q \in {t, SleepWq}
<1> USE TaskFacts
<1>1. wq[q] \in Seq(Task)
  BY DEF TypeOK
<1>2. t \in Task
  BY <1>1, ToSetElement
<1>3. QED
  BY <1>2 DEF WaitersParked

(* wq_prepare and schedule(): the current task is parked, once, and only   *)
(* there.                                                                  *)
LEMMA BlockSound ==
  ASSUME IInv, current \in Task \ {Idle}, NEW q \in {current, SleepWq},
         NEW ctx \in Contexts, Block(q, ctx)
  PROVE  /\ current' \in Task /\ ready' \in Seq(Task) /\ quantum' = Quantum
         /\ state' \in [Task -> States] /\ wq' \in [Queues -> Seq(Task)]
         /\ kctx' = [kctx EXCEPT ![current] = ctx]
         /\ state'[current] = "WAITING" /\ state'[Idle] \in {state[Idle], "RUNNING"}
         /\ \A t \in Task \ {Idle, current} : state'[t] = state[t]
         /\ \A t \in Task : t \in Range(wq'[t]) =>
              t \in Range(wq[t]) \/ (t = current /\ q = current)
         /\ ReadyQueueSound' /\ RunnableQueued' /\ WaitersParked'
<1> USE TaskFacts
<1>t. /\ current \in Thread /\ state \in [Task -> States] /\ ready \in Seq(Task)
      /\ wq \in [Queues -> Seq(Task)]
  BY SMTT(30) DEF IInv, TypeOK
<1>r. /\ IsInjective(ready) /\ state[current] = "RUNNING"
      /\ \A t \in Range(ready) : state[t] = "RUNNING" /\ t \notin {current, Idle}
      /\ \A t \in Task \ {Idle} : state[t] = "RUNNING" => t = current \/ t \in Range(ready)
  BY DEF IInv, ReadyQueueSound, RunnableQueued
<1>w. WaitersParked /\ \A p \in Queues : IsInjective(wq[p])
  BY DEF IInv, WaitersParked
<1> DEFINE st == [state EXCEPT ![current] = "WAITING"]
           rq == Unlink(ready, current)
           w == [Unpark(current) EXCEPT ![q] = list_add_head(current, @)]
<1>1. rq \in Seq(Task) /\ IsInjective(rq) /\ Range(rq) = Range(ready)
  <2>1. rq \in Seq(Task) /\ IsInjective(rq) /\ Range(rq) = Range(ready) \ {current}
    BY <1>t, <1>r, UnlinkList
  <2>2. QED
    BY <1>r, <2>1
<1>2. st \in [Task -> States] /\ schedule(st, rq) /\ wq' = w
      /\ kctx' = [kctx EXCEPT ![current] = ctx]
  BY <1>t DEF Block, States
<1>3. \A t \in Range(rq) : st[t] = "RUNNING" /\ t \notin {current, Idle}
  BY <1>1, <1>r, <1>t, ToSetElement
<1>4. \A t \in Task \ {Idle} : st[t] = "RUNNING" => t = current \/ t \in Range(rq)
  BY <1>1, <1>r, <1>t
<1>5. /\ st[current] = "WAITING" /\ st[Idle] = state[Idle]
      /\ \A t \in Task \ {current} : st[t] = state[t]
  BY <1>t
<1> HIDE DEF st, rq
<1>6. /\ current' \in Task /\ ready' \in Seq(Task) /\ quantum' = Quantum
      /\ state' \in [Task -> States]
      /\ \A t \in Task \ {Idle} : state'[t] = st[t]
      /\ state'[Idle] \in {st[Idle], "RUNNING"}
      /\ ReadyQueueSound' /\ RunnableQueued'
  BY <1>t, <1>1, <1>2, <1>3, <1>4, ScheduleSound, Zenon
<1>7. \A p \in Queues : current \notin Range(wq[p])
  BY <1>r, <1>w, ParkedWaits DEF IInv
<1>8. /\ wq' \in [Queues -> Seq(Task)]
      /\ \A p \in Queues : /\ IsInjective(wq'[p])
                           /\ \A t : t \in Range(wq'[p]) <=>
                                      t \in Range(wq[p]) \/ (p = q /\ t = current)
  <2>1. /\ Unpark(current) \in [Queues -> Seq(Task)] /\ q \in Queues
        /\ \A p \in Queues : /\ Range(Unpark(current)[p]) = Range(wq[p]) \ {current}
                             /\ IsInjective(Unpark(current)[p])
    BY <1>t, <1>w, UnparkEffect, Zenon
  <2>2. PICK u : u = Unpark(current)[q]
    OBVIOUS
  <2>3. /\ list_add_head(current, u) \in Seq(Task) /\ IsInjective(list_add_head(current, u))
        /\ Range(list_add_head(current, u)) = Range(u) \cup {current}
        /\ Range(u) = Range(wq[q]) \ {current}
    <3>1. u \in Seq(Task) /\ IsInjective(u) /\ Range(u) = Range(wq[q]) \ {current}
      BY <2>1, <2>2, Zenon
    <3>2. current \in Task /\ current \notin Range(u)
      BY <3>1
    <3>3. QED
      BY <3>1, <3>2, ConsList, Zenon
  <2>4. /\ wq'[q] = list_add_head(current, u) /\ wq' \in [Queues -> Seq(Task)]
        /\ \A p \in Queues \ {q} : wq'[p] = Unpark(current)[p]
    BY <1>2, <2>1, <2>2, <2>3
  <2>5. ASSUME NEW p \in Queues
        PROVE  /\ IsInjective(wq'[p])
               /\ \A t : t \in Range(wq'[p]) <=>
                          t \in Range(wq[p]) \/ (p = q /\ t = current)
    <3>1. CASE p = q
      BY <2>3, <2>4, <3>1
    <3>2. CASE p # q
      <4>1. Range(wq'[p]) = Range(wq[p]) \ {current} /\ IsInjective(wq'[p])
        BY <2>1, <2>4, <3>2, Zenon
      <4>2. QED
        BY <1>7, <3>2, <4>1
    <3>3. QED
      BY <3>1, <3>2
  <2>6. QED
    BY <2>4, <2>5
<1>9. WaitersParked'
  <2>1. \A t \in Task : state'[t] = "WAITING" <=> state[t] = "WAITING" \/ t = current
    BY <1>5, <1>6 DEF IInv, Roles
  <2>2. \A t \in Task : state'[t] = "WAITING" <=>
                          t \in Range(wq'[t]) \/ t \in Range(wq'[SleepWq])
    <3>1. ASSUME NEW t \in Task
          PROVE  state[t] = "WAITING" <=> t \in Range(wq[t]) \/ t \in Range(wq[SleepWq])
      BY <1>w DEF WaitersParked
    <3>2. ASSUME NEW t \in Task
          PROVE  t \in Range(wq'[t]) \/ t \in Range(wq'[SleepWq]) <=>
                   \/ t \in Range(wq[t]) \/ t \in Range(wq[SleepWq])
                   \/ t = current
      BY <1>8, Zenon
    <3>3. QED
      BY <2>1, <3>1, <3>2
  <2>3. ASSUME NEW p \in Task, NEW t \in Range(wq'[p])
        PROVE  t = p /\ t \notin Range(wq'[SleepWq])
    <3>1. p \in Queues /\ SleepWq \in Queues /\ p # SleepWq
      OBVIOUS
    <3>2. CASE t \in Range(wq[p])
      <4>1. t = p /\ t \notin Range(wq[SleepWq]) /\ t # current
        BY <1>7, <1>w, <3>1, <3>2 DEF WaitersParked
      <4>2. QED
        BY <1>8, <3>1, <4>1, Zenon
    <3>3. CASE p = q /\ t = current
      BY <1>7, <1>8, <3>1, <3>3, Zenon
    <3>4. QED
      BY <1>8, <2>3, <3>1, <3>2, <3>3, Zenon
  <2>4. QED
    BY <1>8, <2>2, <2>3 DEF WaitersParked
<1>10. QED
  BY <1>2, <1>5, <1>6, <1>8, <1>9, Zenon

(* wq_finish: a parked task moves from its wait queue to the ready queue;  *)
(* for any other task it changes nothing.                                  *)
LEMMA FinishSound ==
  ASSUME IInv, NEW t \in Task, wq_finish(t), UNCHANGED current
  PROVE  /\ ready' \in Seq(Task) /\ state' \in [Task -> States]
         /\ wq' \in [Queues -> Seq(Task)]
         /\ \A u \in Task : \/ state'[u] = state[u]
                            \/ state[u] = "WAITING" /\ state'[u] = "RUNNING"
         /\ \A u \in Task : u \in Range(wq'[u]) => u \in Range(wq[u])
         /\ ReadyQueueSound' /\ RunnableQueued' /\ WaitersParked'
<1> USE TaskFacts
<1>t. /\ current \in Thread /\ state \in [Task -> States] /\ ready \in Seq(Task)
      /\ wq \in [Queues -> Seq(Task)]
  BY SMTT(30) DEF IInv, TypeOK
<1>r. ReadyQueueSound /\ RunnableQueued /\ WaitersParked /\ TypeOK
  BY DEF IInv
<1>1. CASE ~Parked(t)
  <2>1. UNCHANGED <<wq, state, ready, current>>
    BY <1>1 DEF wq_finish
  <2>2. QED
    BY <1>t, <1>r, <2>1 DEF ReadyQueueSound, RunnableQueued, WaitersParked
<1>2. CASE Parked(t)
  <2>1. state[t] = "WAITING"
    BY <1>2, <1>r, ParkedWaits DEF Parked
  <2>2. t # Idle /\ t # current /\ t \notin Range(ready)
    BY <1>r, <2>1 DEF IInv, Roles, ReadyQueueSound
  <2>3. /\ wq' = Unpark(t) /\ state' = [state EXCEPT ![t] = "RUNNING"]
        /\ ready' = Append(ready, t)
    BY <1>2, <2>2 DEF wq_finish, sched_enqueue
  <2>4. /\ ready' \in Seq(Task) /\ IsInjective(ready')
        /\ Range(ready') = Range(ready) \cup {t}
    BY <1>t, <1>r, <2>2, <2>3, AppendList DEF ReadyQueueSound
  <2>5. /\ wq' \in [Queues -> Seq(Task)]
        /\ \A q \in Queues : Range(wq'[q]) = Range(wq[q]) \ {t} /\ IsInjective(wq'[q])
    BY <1>t, <1>r, <2>3, UnparkEffect, Zenon DEF WaitersParked
  <2>6. /\ state' \in [Task -> States] /\ state'[t] = "RUNNING"
        /\ \A u \in Task \ {t} : state'[u] = state[u]
    BY <1>t, <2>3 DEF States
  <2>7. ReadyQueueSound'
    <3>1. ASSUME NEW u \in Range(ready')
          PROVE  state'[u] = "RUNNING" /\ u \notin {current', Idle}
      <4>1. u \in Task
        BY <2>4, ToSetElement
      <4>2. QED
        BY <1>r, <2>2, <2>4, <2>6, <3>1, <4>1 DEF ReadyQueueSound
    <3>2. current' # Dummy => state'[current'] = "RUNNING"
      BY <1>t, <1>r, <2>2, <2>6 DEF ReadyQueueSound
    <3>3. QED
      BY <2>4, <3>1, <3>2 DEF ReadyQueueSound
  <2>8. RunnableQueued'
    BY <1>r, <2>4, <2>6 DEF RunnableQueued
  <2>9. WaitersParked'
    <3>1. \A q \in Queues, u \in Task : u \in Range(wq'[q]) <=> u \in Range(wq[q]) /\ u # t
      BY <2>5, Zenon
    <3>2. ASSUME NEW u \in Task
          PROVE  state'[u] = "WAITING" <=> u \in Range(wq'[u]) \/ u \in Range(wq'[SleepWq])
      <4>1. /\ u \in Range(wq'[u]) <=> u \in Range(wq[u]) /\ u # t
            /\ u \in Range(wq'[SleepWq]) <=> u \in Range(wq[SleepWq]) /\ u # t
        BY <3>1
      <4>2. QED
        BY <1>r, <2>6, <4>1 DEF WaitersParked
    <3>3. ASSUME NEW q \in Task, NEW u \in Range(wq'[q])
          PROVE  u = q /\ u \notin Range(wq'[SleepWq])
      <4>1. u \in Range(wq[q]) /\ Range(wq'[SleepWq]) \subseteq Range(wq[SleepWq])
        BY <2>5, Zenon
      <4>2. u = q /\ u \notin Range(wq[SleepWq])
        BY <1>r, <4>1 DEF WaitersParked
      <4>3. QED
        BY <4>1, <4>2
    <3>4. QED
      BY <2>5, <3>2, <3>3 DEF WaitersParked
  <2>10. QED
    BY <2>1, <2>4, <2>5, <2>6, <2>7, <2>8, <2>9, Zenon
<1>3. QED
  BY <1>1, <1>2
-----------------------------------------------------------------------------
(* Steps that leave the tasks and their families alone *)

(* The family tree and the pids depend only on which tasks are alive, dead *)
(* or free.                                                                *)
LEMMA FamilySteady ==
  ASSUME FamilyConsistent, UNCHANGED family,
         \A t \in Task : /\ state'[t] = "FREE" <=> state[t] = "FREE"
                         /\ state[t] \in {"RUNNING", "WAITING"}
                              => state'[t] \in {"RUNNING", "WAITING"},
         parent \in [Task -> Task \cup {NULL}]
  PROVE  FamilyConsistent'
BY DEF FamilyConsistent, family

LEMMA PidsSteady ==
  ASSUME PidsMatchTasks, UNCHANGED pids,
         \A t \in Task : state'[t] = "FREE" <=> state[t] = "FREE"
  PROVE  PidsMatchTasks'
<1>1. {t \in Task : state'[t] # "FREE"} = {t \in Task : state[t] # "FREE"}
  OBVIOUS
<1>2. QED
  BY <1>1 DEF PidsMatchTasks

(* A wake-up is not lost by a step that parks nobody on a child_wq, makes  *)
(* no zombie and changes no list of children.                              *)
LEMMA WakeupsSteady ==
  ASSUME WakeupsKept, UNCHANGED children, children \in [Task -> Seq(Task)],
         \A t \in Task : t \in Range(wq'[t]) =>
           t \in Range(wq[t]) /\ waitfor'[t] = waitfor[t],
         \A t \in Task : state'[t] = "ZOMBIE" => state[t] = "ZOMBIE"
  PROVE  WakeupsKept'
<1> SUFFICES ASSUME NEW t \in Task \ {KitoxD}, t \in Range(wq'[t])
             PROVE  /\ \A c \in Range(children[t]) : waitfor[t] \in {-1, c} => state'[c] # "ZOMBIE"
                    /\ \E c \in Range(children[t]) : waitfor[t] \in {-1, c}
  BY DEF WakeupsKept
<1>1. Range(children[t]) \subseteq Task
  BY ToSetElement
<1>2. QED
  BY <1>1, Zenon DEF WakeupsKept

(* A step that changes no queue, task state or family, and no waitpid      *)
(* argument but the current task's: that one is not parked.                *)
LEMMA QuietStep ==
  ASSUME IInv, UNCHANGED <<current, ready, state, wq, family>>,
         \A t \in Task \ {current} : waitfor'[t] = waitfor[t]
  PROVE  /\ ReadyQueueSound' /\ RunnableQueued' /\ WaitersParked'
         /\ FamilyConsistent' /\ WakeupsKept'
<1> USE TaskFacts
<1>1. ReadyQueueSound' /\ RunnableQueued' /\ WaitersParked'
  BY DEF IInv, ReadyQueueSound, RunnableQueued, WaitersParked
<1>2. FamilyConsistent'
  BY DEF IInv, FamilyConsistent, family
<1>3. ASSUME NEW t \in Task, t \in Range(wq[t]) PROVE t # current
  <2>1. state[t] = "WAITING"
    BY <1>3, ParkedWaits DEF IInv
  <2>2. QED
    BY <2>1 DEF IInv, ReadyQueueSound
<1>4. WakeupsKept'
  BY <1>3, WakeupsSteady DEF IInv, TypeOK, family
<1>5. QED
  BY <1>1, <1>2, <1>4
-----------------------------------------------------------------------------
(* do_exit *)

(* Every action that ends in do_exit keeps the invariant: the parent that  *)
(* is woken exists, and is on no other queue; the children all have a new  *)
(* parent that is alive.                                                   *)
LEMMA ExitSound ==
  ASSUME IInv, current \in Task \ {Idle, KitoxD}, NEW rest \in SUBSET Sigs, do_exit(rest)
  PROVE  /\ IInv'
         /\ \A t \in Task : state[t] = "ZOMBIE" => state'[t] = "ZOMBIE"
<1> USE TaskFacts
<1>t. /\ TypeOK /\ current \in Thread /\ state \in [Task -> States] /\ ready \in Seq(Task)
      /\ wq \in [Queues -> Seq(Task)] /\ children \in [Task -> Seq(Task)]
      /\ parent \in [Task -> Task \cup {NULL}]
  BY SMTT(30) DEF IInv, TypeOK
<1>r. /\ IsInjective(ready) /\ state[current] = "RUNNING"
      /\ \A t \in Range(ready) : state[t] = "RUNNING" /\ t \notin {current, Idle}
      /\ \A t \in Task \ {Idle} : state[t] = "RUNNING" => t = current \/ t \in Range(ready)
  BY DEF IInv, ReadyQueueSound, RunnableQueued
<1>w. WaitersParked /\ \A q \in Queues : IsInjective(wq[q])
  BY DEF IInv, WaitersParked
<1>f. FamilyConsistent
  BY DEF IInv
<1>o. state[Idle] \in {"NEW", "RUNNING"} /\ state[KitoxD] \in {"RUNNING", "WAITING"}
  BY DEF IInv, Roles
<1> DEFINE p == parent[current]
           W == Range(wq[p])
           st == [t \in Task |-> CASE t = current -> "ZOMBIE"
                                   [] t \in Range(wq[p]) -> "RUNNING"
                                   [] OTHER -> state[t]]
           rq == Unlink(ready, current) \o wq[p]
           C == Range(children[current])
<1>1. p \in Task /\ state[p] \in {"RUNNING", "WAITING"}
  BY <1>t, <1>r, <1>f DEF FamilyConsistent
<1>2. \A t \in W : t = p /\ state[t] = "WAITING" /\ t \notin {current, Idle} /\ t \in Task
  <2> SUFFICES ASSUME NEW t \in W
               PROVE  t = p /\ state[t] = "WAITING" /\ t \notin {current, Idle} /\ t \in Task
    OBVIOUS
  <2>1. t \in Task /\ state[t] = "WAITING" /\ p \in {t, SleepWq}
    BY <1>t, <1>1, <1>w, ParkedWaits, Zenon
  <2>2. QED
    BY <1>1, <1>r, <1>o, <2>1
<1>3. /\ parent' = [t \in Task |-> IF t \in C THEN KitoxD ELSE parent[t]]
      /\ children' = [children EXCEPT ![current] = <<>>,
                                      ![KitoxD] = Reversed(children[current]) \o @]
      /\ wq' = [wq EXCEPT ![p] = <<>>]
      /\ schedule(st, rq)
      /\ kctx' = [kctx EXCEPT ![current] = "dead"]
      /\ sigs' = [sigs EXCEPT ![current] = rest]
      /\ UNCHANGED <<caught, waitfor, sleep, table>>
  BY DEF do_exit, GoTo
<1>4. /\ st \in [Task -> States] /\ st[current] = "ZOMBIE"
      /\ \A t \in W : st[t] = "RUNNING"
      /\ \A t \in Task \ (W \cup {current}) : st[t] = state[t]
  <2>1. st[current] = "ZOMBIE" /\ \A t \in W : st[t] = "RUNNING"
    BY <1>2
  <2>2. \A t \in Task \ (W \cup {current}) : st[t] = state[t]
    BY <1>2
  <2>3. \A t \in Task : st[t] \in States
    BY <1>t, <2>1, <2>2 DEF States
  <2>4. QED
    BY <2>1, <2>2, <2>3
<1>5. rq \in Seq(Task) /\ IsInjective(rq) /\ Range(rq) = Range(ready) \cup W
  <2>1. PICK u : u = Unlink(ready, current)
    OBVIOUS
  <2>2. u \in Seq(Task) /\ IsInjective(u) /\ Range(u) = Range(ready) \ {current}
    BY <1>t, <1>r, <2>1, UnlinkList
  <2>3. Range(u) = Range(ready)
    BY <1>r, <2>2
  <2>4. wq[p] \in Seq(Task) /\ IsInjective(wq[p]) /\ Range(u) \cap W = {}
    BY <1>t, <1>w, <1>1, <1>2, <1>r, <2>3
  <2>5. u \o wq[p] \in Seq(Task) /\ IsInjective(u \o wq[p])
        /\ Range(u \o wq[p]) = Range(u) \cup W
    BY <2>2, <2>4, ConcatList
  <2>6. QED
    BY <2>1, <2>3, <2>5
<1> HIDE DEF p, W, st, rq, C
<1>6. /\ current' \in Task /\ ready' \in Seq(Task) /\ quantum' = Quantum
      /\ state' \in [Task -> States]
      /\ \A t \in Task \ {Idle} : state'[t] = st[t]
      /\ state'[Idle] \in {st[Idle], "RUNNING"}
      /\ ReadyQueueSound' /\ RunnableQueued'
  <2>1. \A t \in Range(rq) : st[t] = "RUNNING" /\ t \notin {current, Idle}
    <3> SUFFICES ASSUME NEW t \in Range(rq)
                 PROVE  st[t] = "RUNNING" /\ t \notin {current, Idle}
      OBVIOUS
    <3>1. t \in Task
      BY <1>5, ToSetElement
    <3>2. QED
      BY <1>2, <1>4, <1>5, <1>r, <3>1
  <2>2. \A t \in Task \ {Idle} : st[t] = "RUNNING" => t = current \/ t \in Range(rq)
    BY <1>4, <1>5, <1>r
  <2>3. QED
    BY <1>t, <1>3, <1>4, <1>5, <2>1, <2>2, ScheduleSound, Zenon
<1>7. /\ state'[current] = "ZOMBIE" /\ state'[Idle] \in {state[Idle], "RUNNING"}
      /\ state'[KitoxD] \in {"RUNNING", "WAITING"}
      /\ \A t \in Task \ {Idle, current} :
           state'[t] = IF t \in W THEN "RUNNING" ELSE state[t]
  BY <1>2, <1>4, <1>6, <1>o, SMTT(30)
<1>8. /\ wq' \in [Queues -> Seq(Task)]
      /\ \A q \in Queues : IsInjective(wq'[q])
      /\ Range(wq'[p]) = {} /\ \A q \in Queues \ {p} : wq'[q] = wq[q]
  <2>1. <<>> \in Seq(Task) /\ IsInjective(<<>>) /\ Range(<<>>) = {}
    BY EmptyList
  <2>2. wq'[p] = <<>> /\ \A q \in Queues \ {p} : wq'[q] = wq[q]
    BY <1>1, <1>3, <1>t
  <2>3. wq' \in [Queues -> Seq(Task)]
    BY <1>1, <1>3, <1>t, <2>1
  <2>4. QED
    BY <1>w, <2>1, <2>2, <2>3, Zenon
<1>9. WaitersParked'
  <2>1. ASSUME NEW t \in Task
        PROVE  state'[t] = "WAITING" <=> t \in Range(wq'[t]) \/ t \in Range(wq'[SleepWq])
    <3>1. state[t] = "WAITING" <=> t \in Range(wq[t]) \/ t \in Range(wq[SleepWq])
      BY <1>w DEF WaitersParked
    <3>2. SleepWq \in Queues \ {p} /\ Range(wq'[SleepWq]) = Range(wq[SleepWq])
      BY <1>1, <1>8
    <3>3. state'[t] = "WAITING" <=> state[t] = "WAITING" /\ t \notin W
      BY <1>7, <1>o, <1>r, <1>2
    <3>4. CASE t = p
      <4>1. t \in W => t \notin Range(wq[SleepWq])
        BY <1>w, <1>1, <3>4 DEF WaitersParked, W
      <4>2. QED
        BY <1>8, <3>1, <3>2, <3>3, <3>4, <4>1 DEF W
    <3>5. CASE t # p
      BY <1>2, <1>8, <3>1, <3>2, <3>3, <3>5
    <3>6. QED
      BY <3>4, <3>5
  <2>2. \A q \in Task : Range(wq'[q]) \subseteq {q} \ Range(wq'[SleepWq])
    <3>1. Range(wq'[SleepWq]) = Range(wq[SleepWq])
      BY <1>1, <1>8, Zenon
    <3>2. \A q \in Task : Range(wq[q]) \subseteq {q} \ Range(wq[SleepWq])
      BY <1>w DEF WaitersParked
    <3>3. \A q \in Task : Range(wq'[q]) = {} \/ Range(wq'[q]) = Range(wq[q])
      BY <1>8, Zenon
    <3>4. QED
      BY <3>1, <3>2, <3>3
  <2>3. QED
    BY <1>8, <2>1, <2>2 DEF WaitersParked
<1>10. /\ C \subseteq Task /\ \A c \in Task : c \in C <=> parent[c] = current
       /\ \A q \in Task : IsInjective(children[q])
       /\ \A q, c \in Task : c \in Range(children[q]) <=> parent[c] = q
  BY <1>t, <1>f, ToSetElement DEF FamilyConsistent, C
<1>11. /\ children' \in [Task -> Seq(Task)]
       /\ \A q \in Task : IsInjective(children'[q])
       /\ Range(children'[current]) = {}
       /\ Range(children'[KitoxD]) = C \cup Range(children[KitoxD])
       /\ \A q \in Task \ {current, KitoxD} : children'[q] = children[q]
  <2>1. PICK r : r = Reversed(children[current])
    OBVIOUS
  <2>2. r \in Seq(Task) /\ IsInjective(r) /\ Range(r) = C
    BY <1>t, <1>10, <2>1, ReverseList DEF C
  <2>3. children[KitoxD] \in Seq(Task) /\ IsInjective(children[KitoxD])
        /\ Range(r) \cap Range(children[KitoxD]) = {}
    BY <1>t, <1>10, <2>2
  <2>4. PICK k : k = r \o children[KitoxD]
    BY Zenon
  <2>5. k \in Seq(Task) /\ IsInjective(k) /\ Range(k) = C \cup Range(children[KitoxD])
    BY <2>2, <2>3, <2>4, ConcatList
  <2>6. <<>> \in Seq(Task) /\ IsInjective(<<>>) /\ Range(<<>>) = {}
    BY EmptyList
  <2>7. children' = [children EXCEPT ![current] = <<>>, ![KitoxD] = k]
    BY <1>3, <1>t, <2>1, <2>4
  <2>8. /\ children'[current] = <<>> /\ children'[KitoxD] = k
        /\ \A q \in Task \ {current, KitoxD} : children'[q] = children[q]
        /\ children' \in [Task -> Seq(Task)]
    BY <1>t, <2>5, <2>6, <2>7, Zenon
  <2>9. ASSUME NEW q \in Task PROVE IsInjective(children'[q])
    <3>1. q = current \/ q = KitoxD \/ children'[q] = children[q]
      BY <2>8
    <3>2. QED
      BY <1>10, <2>5, <2>6, <2>8, <3>1
  <2>10. QED
    BY <2>5, <2>6, <2>8, <2>9
<1>12. /\ parent' \in [Task -> Task \cup {NULL}]
       /\ \A c \in Task : parent'[c] = IF c \in C THEN KitoxD ELSE parent[c]
  BY <1>3, <1>t
<1>13. FamilyConsistent'
  <2>1. ASSUME NEW q \in Task, NEW c \in Task
        PROVE  c \in Range(children'[q]) <=> parent'[c] = q
    <3>1. /\ c \in C <=> parent[c] = current
          /\ c \in Range(children[q]) <=> parent[c] = q
          /\ parent'[c] = IF c \in C THEN KitoxD ELSE parent[c]
      BY <1>10, <1>12
    <3>2. CASE q = current
      BY <1>11, <3>1, <3>2
    <3>3. CASE q = KitoxD
      BY <1>11, <3>1, <3>3
    <3>4. CASE q \notin {current, KitoxD}
      <4>1. children'[q] = children[q]
        BY <1>11, <3>4
      <4>2. QED
        BY <3>1, <3>4, <4>1
    <3>5. QED
      BY <3>2, <3>3, <3>4
  <2>2. ASSUME NEW c \in Task
        PROVE  parent'[c] = NULL <=> (c \in {Idle, KitoxD} \/ state'[c] = "FREE")
    <3>1. state'[c] = "FREE" <=> state[c] = "FREE"
      BY <1>2, <1>7, <1>o, <1>r
    <3>2. parent'[c] = NULL <=> parent[c] = NULL
      BY <1>10, <1>12
    <3>3. QED
      BY <1>f, <3>1, <3>2 DEF FamilyConsistent
  <2>3. ASSUME NEW c \in Task, parent'[c] # NULL
        PROVE  state'[parent'[c]] \in {"RUNNING", "WAITING"}
    <3>1. CASE c \in C
      BY <1>7, <1>12, <3>1
    <3>2. CASE c \notin C
      <4>1. parent[c] \in Task \ {current} /\ state[parent[c]] \in {"RUNNING", "WAITING"}
            /\ parent'[c] = parent[c]
        BY <1>f, <1>t, <1>10, <1>12, <2>3, <3>2 DEF FamilyConsistent
      <4>2. QED
        BY <1>7, <1>o, <4>1
    <3>3. QED
      BY <3>1, <3>2
  <2>4. QED
    BY <1>11, <2>1, <2>2, <2>3 DEF FamilyConsistent
<1>14. PidsMatchTasks'
  <2>1. \A c \in Task : state'[c] = "FREE" <=> state[c] = "FREE"
    BY <1>2, <1>7, <1>o, <1>r, SMTT(30)
  <2>2. QED
    BY <1>3, <2>1, PidsSteady DEF IInv, table
<1>15. Roles'
  BY <1>2, <1>3, <1>7, <1>o, <1>t, Zenon DEF IInv, Roles, TypeOK
<1>16. WakeupsKept'
  <2> SUFFICES ASSUME NEW t \in Task \ {KitoxD}, t \in Range(wq'[t])
               PROVE  /\ \A c \in Range(children'[t]) :
                           waitfor[t] \in {-1, c} => state'[c] # "ZOMBIE"
                      /\ \E c \in Range(children'[t]) : waitfor[t] \in {-1, c}
    BY <1>3, Zenon DEF WakeupsKept
  <2>1. t # p /\ t \in Range(wq[t])
    BY <1>8
  <2>2. t # current
    BY <1>r, <1>w, <2>1 DEF WaitersParked
  <2>3. children'[t] = children[t]
    BY <1>11, <2>2
  <2>4. /\ \A c \in Range(children[t]) : waitfor[t] \in {-1, c} => state[c] # "ZOMBIE"
        /\ \E c \in Range(children[t]) : waitfor[t] \in {-1, c}
    BY <2>1 DEF IInv, WakeupsKept
  <2>5. ASSUME NEW c \in Range(children[t]), state'[c] = "ZOMBIE" PROVE state[c] = "ZOMBIE"
    <3>1. c \in Task
      BY <1>t, ToSetElement
    <3>2. c # current
      BY <1>10, <2>1, <3>1, SMTT(30) DEF p
    <3>3. QED
      BY <1>7, <1>o, <2>5, <3>1, <3>2, SMTT(30)
  <2>6. QED
    BY <2>3, <2>4, <2>5
<1>17. TypeOK'
  <2>1. sigs' \in [Thread -> SUBSET Sigs] /\ kctx' \in [Thread -> Contexts]
    BY <1>3, <1>t DEF TypeOK, Contexts
  <2>2. quantum' \in 1 .. Quantum
    BY <1>6, ProcessAssumptions
  <2>3. /\ UNCHANGED <<caught, waitfor, wake, ticks, info, pids, spawned>>
    BY <1>3 DEF sleep, table
  <2>4. QED
    BY <1>6, <1>8, <1>11, <1>12, <1>t, <2>1, <2>2, <2>3, Zenon DEF TypeOK
<1>18. \A t \in Task : state[t] = "ZOMBIE" => state'[t] = "ZOMBIE"
  BY <1>2, <1>7, <1>o
<1>19. QED
  BY <1>6, <1>9, <1>13, <1>14, <1>15, <1>16, <1>17, <1>18 DEF IInv
-----------------------------------------------------------------------------
(* Creating and releasing tasks *)

\* What the invariant says of the pid that the next task will get
LEMMA FreePid ==
  ASSUME IInv, pids.next_free # -1
  PROVE  /\ pids.next_free \in Task /\ state[pids.next_free] = "FREE"
         /\ pids.next_free \notin {Idle, KitoxD, current}
         /\ parent[pids.next_free] = NULL
<1> USE TaskFacts
<1> DEFINE c == pids.next_free
<1>1. c \in Task /\ c \notin pids.bits
  <2>1. PICK f : f = FirstZeroFrom(pids.bits, MaxPid, 0)
    OBVIOUS
  <2>2. f = -1 \/ (f \in 0 .. MaxPid - 1 /\ f \notin pids.bits)
    BY <2>1, ProcessAssumptions, FirstZeroProperties, Zenon
  <2>3. c = f
    BY <2>1 DEF IInv, PidsMatchTasks
  <2>4. QED
    BY <2>2, <2>3 DEF Task
<1>2. state[c] = "FREE"
  BY <1>1 DEF IInv, PidsMatchTasks
<1>3. c \notin {Idle, KitoxD, current}
  BY <1>1, <1>2 DEF IInv, Roles, ReadyQueueSound
<1>4. parent[c] = NULL
  BY <1>1, <1>2 DEF IInv, FamilyConsistent
<1>5. QED
  BY <1>1, <1>2, <1>3, <1>4

(* task_get_new or task_clone, and sched_enqueue: the new task is queued   *)
(* once and is a child of a task that is alive.                            *)
LEMMA NewTaskSound ==
  ASSUME IInv, pids.next_free # -1, NEW c, c = pids.next_free,
         NEW p \in {current, KitoxD}, p \in Task, NEW ctx \in {"iret", "kern"},
         NewTask(c, p, ctx), UNCHANGED <<current, wq, waitfor>>
  PROVE  /\ ready' \in Seq(Task) /\ state' \in [Task -> States]
         /\ parent' \in [Task -> Task \cup {NULL}] /\ children' \in [Task -> Seq(Task)]
         /\ kctx' \in [Thread -> Contexts]
         /\ pids' \in [bits : SUBSET Task, next_free : Task \cup {-1}]
         /\ state'[c] = "RUNNING" /\ \A t \in Task \ {c} : state'[t] = state[t]
         /\ ReadyQueueSound' /\ RunnableQueued' /\ WaitersParked'
         /\ FamilyConsistent' /\ PidsMatchTasks' /\ WakeupsKept'
<1> USE TaskFacts
<1>t. /\ current \in Thread /\ state \in [Task -> States] /\ ready \in Seq(Task)
      /\ wq \in [Queues -> Seq(Task)] /\ children \in [Task -> Seq(Task)]
      /\ parent \in [Task -> Task \cup {NULL}] /\ kctx \in [Thread -> Contexts]
      /\ pids \in [bits : SUBSET Task, next_free : Task \cup {-1}]
  BY Zenon DEF IInv, TypeOK
<1>r. ReadyQueueSound /\ RunnableQueued /\ WaitersParked /\ FamilyConsistent /\ PidsMatchTasks
      /\ WakeupsKept
  BY DEF IInv
<1>c. c \in Task /\ state[c] = "FREE" /\ c \notin {Idle, KitoxD, current} /\ parent[c] = NULL
  BY FreePid
<1>p. state[p] \in {"RUNNING", "WAITING"} /\ p # c
  BY <1>c DEF IInv, Roles, ReadyQueueSound
<1>1. /\ state' = [state EXCEPT ![c] = "RUNNING"]
      /\ ready' = sched_enqueue(ready, c)
      /\ parent' = [parent EXCEPT ![c] = p]
      /\ children' = [children EXCEPT ![p] = list_add_head(c, @)]
      /\ kctx' = [kctx EXCEPT ![current] = "iret", ![c] = ctx]
      /\ pids' = id_manager_alloc(pids, MaxPid)
  BY DEF NewTask
<1>2. /\ state' \in [Task -> States] /\ state'[c] = "RUNNING"
      /\ \A t \in Task \ {c} : state'[t] = state[t]
      /\ kctx' \in [Thread -> Contexts]
  BY <1>t, <1>c, <1>1, Zenon DEF States, Contexts
<1>3. c \notin Range(ready) /\ \A t \in Range(ready) : t \in Task
  BY <1>c, <1>r, <1>t, ToSetElement DEF ReadyQueueSound
<1>4. ready' \in Seq(Task) /\ IsInjective(ready') /\ Range(ready') = Range(ready) \cup {c}
  <2>1. ready' = Append(ready, c) /\ IsInjective(ready)
    BY <1>1, <1>3, <1>r, SMTT(30) DEF sched_enqueue, ReadyQueueSound
  <2>2. QED
    BY <1>t, <1>c, <1>3, <2>1, AppendList
<1>5. ReadyQueueSound' /\ RunnableQueued'
  <2>1. ASSUME NEW t \in Range(ready')
        PROVE  state'[t] = "RUNNING" /\ t \notin {current', Idle}
    <3>1. t = c \/ (t \in Range(ready) /\ t \in Task)
      BY <1>3, <1>4
    <3>2. QED
      BY <1>r, <1>c, <1>2, <3>1 DEF ReadyQueueSound
  <2>2. current' # Dummy => state'[current'] = "RUNNING"
    BY <1>t, <1>r, <1>c, <1>2 DEF ReadyQueueSound
  <2>3. RunnableQueued'
    BY <1>r, <1>2, <1>4 DEF RunnableQueued
  <2>4. QED
    BY <1>4, <2>1, <2>2, <2>3, SMTT(30) DEF ReadyQueueSound
<1>6. WaitersParked'
  <2>1. \A t \in Task : state'[t] = "WAITING" <=> state[t] = "WAITING"
    BY <1>2, <1>c
  <2>2. QED
    BY <1>r, <2>1 DEF WaitersParked
<1>7. /\ children' \in [Task -> Seq(Task)] /\ IsInjective(children'[p])
      /\ Range(children'[p]) = Range(children[p]) \cup {c}
      /\ \A q \in Task \ {p} : children'[q] = children[q]
  <2>1. PICK k : k = children[p]
    OBVIOUS
  <2>2. k \in Seq(Task) /\ IsInjective(k) /\ c \notin Range(k)
    BY <1>t, <1>r, <1>c, <2>1 DEF FamilyConsistent
  <2>3. list_add_head(c, k) \in Seq(Task) /\ IsInjective(list_add_head(c, k))
        /\ Range(list_add_head(c, k)) = Range(k) \cup {c}
    <3>1. \A x \in Task \ Range(k) : /\ list_add_head(x, k) \in Seq(Task) /\ IsInjective(list_add_head(x, k))
                                      /\ Range(list_add_head(x, k)) = Range(k) \cup {x}
      BY <2>2, ConsList
    <3>2. QED
      BY <1>c, <2>2, <3>1
  <2>4. children' = [children EXCEPT ![p] = list_add_head(c, k)]
    BY <1>1, <2>1
  <2>5. /\ children'[p] = list_add_head(c, k) /\ children' \in [Task -> Seq(Task)]
        /\ \A q \in Task \ {p} : children'[q] = children[q]
    BY <1>t, <2>3, <2>4
  <2>6. QED
    BY <2>1, <2>3, <2>5
<1>8. /\ parent' \in [Task -> Task \cup {NULL}] /\ parent'[c] = p
      /\ \A t \in Task \ {c} : parent'[t] = parent[t]
  BY <1>t, <1>c, <1>1
<1>9. FamilyConsistent'
  <2>1. \A q \in Task : IsInjective(children'[q])
    BY <1>7, <1>r, Zenon DEF FamilyConsistent
  <2>2. ASSUME NEW q \in Task, NEW t \in Task
        PROVE  t \in Range(children'[q]) <=> parent'[t] = q
    <3>1. t \in Range(children'[q]) <=> t \in Range(children[q]) \/ (q = p /\ t = c)
      <4>1. CASE q = p
        BY <1>7, <4>1
      <4>2. CASE q # p
        <5>1. children'[q] = children[q]
          BY <1>7, <4>2
        <5>2. QED
          BY <4>2, <5>1
      <4>3. QED
        BY <4>1, <4>2
    <3>2. t \in Range(children[q]) <=> parent[t] = q
      BY <1>r DEF FamilyConsistent
    <3>3. QED
      BY <1>8, <1>c, <3>1, <3>2
  <2>3. \A t \in Task : parent'[t] = NULL <=> (t \in {Idle, KitoxD} \/ state'[t] = "FREE")
    BY <1>2, <1>8, <1>c, <1>r, SMTT(30) DEF FamilyConsistent
  <2>4. ASSUME NEW t \in Task, parent'[t] # NULL
        PROVE  state'[parent'[t]] \in {"RUNNING", "WAITING"}
    <3>1. CASE t = c
      BY <1>2, <1>8, <1>p, <3>1, SMTT(30)
    <3>2. CASE t # c
      <4>1. parent'[t] = parent[t] /\ parent[t] \in Task
            /\ state[parent[t]] \in {"RUNNING", "WAITING"}
        BY <1>8, <1>t, <1>r, <2>4, <3>2, SMTT(30) DEF FamilyConsistent
      <4>2. QED
        BY <1>2, <4>1
    <3>3. QED
      BY <3>1, <3>2
  <2>5. QED
    BY <2>1, <2>2, <2>3, <2>4 DEF FamilyConsistent
<1>10. pids' \in [bits : SUBSET Task, next_free : Task \cup {-1}] /\ PidsMatchTasks'
  <2>1. /\ pids' \in [bits : SUBSET Task, next_free : Task \cup {-1}]
        /\ pids'.bits = pids.bits \cup {c}
        /\ pids'.next_free = FirstZeroFrom(pids'.bits, MaxPid, 0)
    BY <1>t, <1>r, <1>1, ProcessAssumptions, AllocSound, Zenon DEF PidsMatchTasks, Task
  <2>2. pids.bits = {t \in Task : state[t] # "FREE"}
    BY <1>r DEF PidsMatchTasks
  <2>3. pids'.bits = {t \in Task : state'[t] # "FREE"}
    BY <1>2, <1>c, <2>1, <2>2
  <2>4. QED
    BY <2>1, <2>3, SMTT(30) DEF PidsMatchTasks
<1>11. WakeupsKept'
  <2> SUFFICES ASSUME NEW t \in Task \ {KitoxD}, t \in Range(wq[t])
               PROVE  /\ \A d \in Range(children'[t]) :
                           waitfor[t] \in {-1, d} => state'[d] # "ZOMBIE"
                      /\ \E d \in Range(children'[t]) : waitfor[t] \in {-1, d}
    BY DEF WakeupsKept
  <2>1. t # current
    BY <1>r DEF WaitersParked, ReadyQueueSound
  <2>2. children'[t] = children[t]
    BY <1>7, <2>1, SMTT(30)
  <2>3. \A d \in Range(children[t]) : state'[d] = "ZOMBIE" => state[d] = "ZOMBIE"
    <3>1. Range(children[t]) \subseteq Task
      BY <1>t, ToSetElement
    <3>2. QED
      BY <1>2, <3>1
  <2>4. QED
    BY <1>r, <2>2, <2>3, SMTT(30) DEF WakeupsKept
<1>12. QED
  BY <1>2, <1>4, <1>5, <1>6, <1>7, <1>8, <1>9, <1>10, <1>11

(* waitpid's task_release of a zombie: it was on no queue, had no children *)
(* and held its pid.                                                       *)
LEMMA ReapSound ==
  ASSUME IInv, Reap
  PROVE  IInv' /\ \A t \in Task : state[t] = "ZOMBIE" /\ state'[t] # "ZOMBIE" =>
                    state'[t] = "FREE" /\ parent[t] = current
<1> USE TaskFacts
<1>t. /\ TypeOK /\ current \in Thread /\ state \in [Task -> States]
      /\ children \in [Task -> Seq(Task)] /\ parent \in [Task -> Task \cup {NULL}]
      /\ pids \in [bits : SUBSET Task, next_free : Task \cup {-1}]
  BY Zenon DEF IInv, TypeOK
<1>r. ReadyQueueSound /\ RunnableQueued /\ WaitersParked /\ FamilyConsistent /\ PidsMatchTasks
      /\ Roles /\ WakeupsKept
  BY DEF IInv
<1>u. current \in Task \ {Idle} /\ state[current] = "RUNNING"
  BY <1>t, <1>r DEF Reap, Roles, ReadyQueueSound
<1>1. PICK z : /\ z = children[current][Min(Reapable)]
               /\ children' = [children EXCEPT ![current] = Unlink(@, z)]
               /\ info' = info \ {z}
               /\ pids' = id_manager_free(pids, MaxPid, z)
               /\ state' = [state EXCEPT ![z] = "FREE"]
               /\ parent' = [parent EXCEPT ![z] = NULL]
               /\ sigs' = [sigs EXCEPT ![z] = {}]
               /\ caught' = [caught EXCEPT ![z] = {}]
               /\ wake' = [wake EXCEPT ![z] = 0]
               /\ waitfor' = [waitfor EXCEPT ![z] = 0, ![current] = 0]
  BY Zenon DEF Reap
<1>2. kctx' = [kctx EXCEPT ![current] = "iret"] /\ UNCHANGED <<sched, wq, ticks, spawned>>
  BY DEF Reap, GoTo
<1>3. z \in Task /\ z \in Range(children[current]) /\ state[z] = "ZOMBIE"
  <2>1. children[current] \in Seq(Task)
    BY <1>t, <1>u
  <2>2. DOMAIN children[current] = 1 .. Len(children[current])
        /\ Len(children[current]) \in Nat
    BY <2>1, LenProperties
  <2>3. PICK M : M = Reapable
    OBVIOUS
  <2>4. M \in SUBSET Nat /\ M # {}
    <3>1. M # {}
      BY <2>3 DEF Reap
    <3>2. M \subseteq DOMAIN children[current]
      BY <2>3 DEF Reapable, Matches
    <3>3. QED
      BY <2>2, <3>1, <3>2, SMTT(30)
  <2>5. PICK i : i = Min(M)
    OBVIOUS
  <2>6. i \in M
    BY <2>4, <2>5, MinElement
  <2>7. i \in DOMAIN children[current] /\ state[children[current][i]] = "ZOMBIE"
    BY <2>3, <2>6, SMTT(30) DEF Reapable, Matches
  <2>8. z = children[current][i]
    BY <1>1, <2>3, <2>5
  <2>9. z \in Range(children[current])
    BY <2>1, <2>2, <2>7, <2>8, ToSetElement
  <2>10. QED
    BY <2>1, <2>7, <2>8, <2>9, ToSetElement
<1>4. parent[z] = current /\ z \notin {current, Idle, KitoxD}
  BY <1>3, <1>u, <1>r, SMTT(30) DEF FamilyConsistent, Roles
<1>5. /\ state' \in [Task -> States] /\ state'[z] = "FREE"
      /\ \A t \in Task \ {z} : state'[t] = state[t]
      /\ parent' \in [Task -> Task \cup {NULL}] /\ parent'[z] = NULL
      /\ \A t \in Task \ {z} : parent'[t] = parent[t]
  <2>1. "FREE" \in States /\ NULL \in Task \cup {NULL}
    BY DEF States
  <2>2. state' \in [Task -> States] /\ parent' \in [Task -> Task \cup {NULL}]
    BY <1>t, <1>1, <2>1, UpdateType
  <2>3. QED
    BY <1>t, <1>1, <1>3, <2>2
<1>6. UNCHANGED <<current, ready, quantum, wq>>
  BY <1>2 DEF sched
<1>7. ReadyQueueSound' /\ RunnableQueued'
  <2>1. \A t \in Range(ready) : t # z /\ t \in Task
    BY <1>3, <1>t, <1>r, ToSetElement DEF ReadyQueueSound, TypeOK
  <2>2. QED
    BY <1>u, <1>4, <1>5, <1>6, <1>r, <2>1, SMTT(30) DEF ReadyQueueSound, RunnableQueued
<1>8. WaitersParked'
  <2>1. \A t \in Task : state'[t] = "WAITING" <=> state[t] = "WAITING"
    BY <1>3, <1>5
  <2>2. QED
    BY <1>6, <1>r, <2>1 DEF WaitersParked
<1>9. /\ children' \in [Task -> Seq(Task)] /\ IsInjective(children'[current])
      /\ Range(children'[current]) = Range(children[current]) \ {z}
      /\ \A q \in Task \ {current} : children'[q] = children[q]
  <2>1. PICK k : k = children[current]
    OBVIOUS
  <2>2. k \in Seq(Task) /\ IsInjective(k)
    BY <1>t, <1>u, <1>r, <2>1 DEF FamilyConsistent
  <2>3. Unlink(k, z) \in Seq(Task) /\ IsInjective(Unlink(k, z))
        /\ Range(Unlink(k, z)) = Range(k) \ {z}
    BY <2>2, UnlinkList, SMTT(30)
  <2>4. children' = [children EXCEPT ![current] = Unlink(k, z)]
    BY <1>1, <2>1
  <2>5. /\ children'[current] = Unlink(k, z) /\ children' \in [Task -> Seq(Task)]
        /\ \A q \in Task \ {current} : children'[q] = children[q]
    BY <1>t, <1>u, <2>3, <2>4, SMTT(30)
  <2>6. QED
    BY <2>1, <2>3, <2>5
<1>10. FamilyConsistent'
  <2>1. \A q \in Task : IsInjective(children'[q])
    BY <1>9, <1>r, Zenon DEF FamilyConsistent
  <2>2. ASSUME NEW q \in Task, NEW t \in Task
        PROVE  t \in Range(children'[q]) <=> parent'[t] = q
    <3>1. t \in Range(children[q]) <=> parent[t] = q
      BY <1>r DEF FamilyConsistent
    <3>2. CASE q = current
      BY <1>4, <1>5, <1>9, <3>1, <3>2, SMTT(30)
    <3>3. CASE q # current
      <4>1. children'[q] = children[q]
        BY <1>9, <3>3
      <4>2. QED
        BY <1>4, <1>5, <3>1, <3>3, <4>1
    <3>4. QED
      BY <3>2, <3>3
  <2>3. \A t \in Task : parent'[t] = NULL <=> (t \in {Idle, KitoxD} \/ state'[t] = "FREE")
    BY <1>5, <1>r DEF FamilyConsistent
  <2>4. ASSUME NEW t \in Task, parent'[t] # NULL
        PROVE  state'[parent'[t]] \in {"RUNNING", "WAITING"}
    <3>1. /\ parent'[t] = parent[t] /\ parent[t] \in Task
          /\ state[parent[t]] \in {"RUNNING", "WAITING"}
      BY <1>5, <1>t, <1>r, <2>4, SMTT(30) DEF FamilyConsistent
    <3>2. QED
      BY <1>3, <1>5, <3>1, SMTT(30)
  <2>5. QED
    BY <2>1, <2>2, <2>3, <2>4 DEF FamilyConsistent
<1>11. pids' \in [bits : SUBSET Task, next_free : Task \cup {-1}] /\ PidsMatchTasks'
  <2>1. pids.bits = {t \in Task : state[t] # "FREE"}
    BY <1>r DEF PidsMatchTasks
  <2>2. z \in pids.bits
    BY <1>3, <2>1
  <2>3. /\ pids' \in [bits : SUBSET Task, next_free : Task \cup {-1}]
        /\ pids'.bits = pids.bits \ {z}
        /\ pids'.next_free = FirstZeroFrom(pids'.bits, MaxPid, 0)
    <3>1. pids.next_free = FirstZeroFrom(pids.bits, MaxPid, 0) /\ MaxPid \in Nat
      BY <1>r, ProcessAssumptions DEF PidsMatchTasks
    <3>2. PICK r : r = id_manager_free(pids, MaxPid, z)
      OBVIOUS
    <3>3. /\ r \in [bits : SUBSET Task, next_free : Task \cup {-1}]
          /\ r.bits = pids.bits \ {z}
          /\ r.next_free = FirstZeroFrom(r.bits, MaxPid, 0)
      <4>1. Task = 0 .. MaxPid - 1
        BY DEF Task
      <4>2. pids \in [bits : SUBSET (0 .. MaxPid - 1), next_free : (0 .. MaxPid - 1) \cup {-1}]
        BY <1>t, <4>1
      <4>3. ASSUME NEW m, m = pids
            PROVE  /\ r \in [bits : SUBSET (0 .. MaxPid - 1), next_free : (0 .. MaxPid - 1) \cup {-1}]
                   /\ r.bits = m.bits \ {z}
                   /\ r.next_free = FirstZeroFrom(r.bits, MaxPid, 0)
        <5>1. /\ m \in [bits : SUBSET (0 .. MaxPid - 1), next_free : (0 .. MaxPid - 1) \cup {-1}]
              /\ MaxPid \in Nat /\ m.next_free = FirstZeroFrom(m.bits, MaxPid, 0)
              /\ z \in m.bits /\ r = id_manager_free(m, MaxPid, z)
          BY <2>2, <3>1, <3>2, <4>2, <4>3, SMTT(30)
        <5> HIDE <4>3
        <5>2. QED
          BY <5>1, FreeSound
      <4>4. QED
        BY <4>1, <4>3
    <3>4. pids' = r
      BY <1>1, <3>2, SMTT(30)
    <3>5. QED
      BY <3>3, <3>4
  <2>4. pids'.bits = {t \in Task : state'[t] # "FREE"}
    BY <1>5, <2>1, <2>3
  <2>5. QED
    BY <2>3, <2>4 DEF PidsMatchTasks
<1>12. /\ waitfor' \in [Task -> Task \cup {-1}] /\ waitfor'[current] = 0
       /\ \A t \in Task \ {z, current} : waitfor'[t] = waitfor[t]
  BY <1>1, <1>3, <1>u, <1>t, Zenon DEF TypeOK, Idle
<1>13. Roles'
  <2>1. kctx'[current] = "iret" /\ \A t \in Thread \ {current} : kctx'[t] = kctx[t]
    BY <1>2, <1>t, SMTT(30) DEF TypeOK
  <2>2. \A t \in {Idle, KitoxD, Dummy} : caught'[t] = {}
    BY <1>1, <1>3, <1>4, <1>t, <1>r, Zenon DEF TypeOK, Roles
  <2>3. \A t \in Task : /\ state'[t] \notin {"FREE", "ZOMBIE"}
                         /\ kctx'[t] \in {"waitloop", "waiting"}
                         => waitfor'[t] # 0
    BY <1>5, <1>12, <1>r, <2>1, Zenon DEF Roles
  <2>4. QED
    BY <1>4, <1>5, <1>u, <1>r, <2>1, <2>2, <2>3 DEF Roles
<1>14. WakeupsKept'
  <2> SUFFICES ASSUME NEW t \in Task \ {KitoxD}, t \in Range(wq[t])
               PROVE  /\ \A d \in Range(children'[t]) :
                           waitfor'[t] \in {-1, d} => state'[d] # "ZOMBIE"
                      /\ \E d \in Range(children'[t]) : waitfor'[t] \in {-1, d}
    BY <1>6 DEF WakeupsKept
  <2>1. t \notin {current, z}
    BY <1>3, <1>u, <1>r, SMTT(30) DEF WaitersParked
  <2>2. children'[t] = children[t] /\ waitfor'[t] = waitfor[t]
    BY <1>9, <1>12, <2>1, SMTT(30)
  <2>3. \A d \in Range(children[t]) : state'[d] = "ZOMBIE" => state[d] = "ZOMBIE"
    <3>1. Range(children[t]) \subseteq Task
      BY <1>t, ToSetElement, SMTT(30)
    <3>2. QED
      BY <1>5, <3>1
  <2>4. QED
    BY <1>r, <2>2, <2>3, Zenon DEF WakeupsKept
<1>15. TypeOK'
  <2>1. /\ sigs' \in [Thread -> SUBSET Sigs] /\ caught' \in [Thread -> SUBSET Sigs]
        /\ kctx' \in [Thread -> Contexts] /\ info' \subseteq Task
    BY <1>1, <1>2, <1>3, <1>t, <1>u, Zenon DEF TypeOK, Contexts
  <2>2. wake' \in [Task -> 0 .. TickMod - 1]
    <3>1. wake \in [Task -> 0 .. TickMod - 1] /\ 0 \in 0 .. TickMod - 1
      BY <1>t, ProcessAssumptions DEF TypeOK
    <3>2. QED
      BY <1>1, <3>1, UpdateType
  <2>3. QED
    BY <1>2, <1>5, <1>6, <1>9, <1>11, <1>12, <1>t, <2>1, <2>2, Zenon DEF TypeOK
<1>16. QED
  BY <1>4, <1>5, <1>7, <1>8, <1>10, <1>11, <1>13, <1>14, <1>15 DEF IInv
-----------------------------------------------------------------------------
(* The groups of actions that leave most of the state alone *)

(* A step whose task states only move between NEW, RUNNING and WAITING,    *)
(* and that parks nobody on a child_wq.                                    *)
LEMMA SteadyStep ==
  ASSUME IInv, UNCHANGED <<family, pids>>,
         \A t \in Task : \/ state'[t] = state[t]
                         \/ /\ state[t] \in {"NEW", "RUNNING", "WAITING"}
                            /\ state'[t] \in {"RUNNING", "WAITING"},
         \A t \in Task : t \in Range(wq'[t]) =>
           t \in Range(wq[t]) /\ waitfor'[t] = waitfor[t]
  PROVE  FamilyConsistent' /\ PidsMatchTasks' /\ WakeupsKept'
<1>1. /\ FamilyConsistent /\ PidsMatchTasks /\ WakeupsKept
      /\ parent \in [Task -> Task \cup {NULL}] /\ children \in [Task -> Seq(Task)]
  BY DEF IInv, TypeOK
<1>2. \A t \in Task : /\ state'[t] = "FREE" <=> state[t] = "FREE"
                      /\ state[t] \in {"RUNNING", "WAITING"}
                           => state'[t] \in {"RUNNING", "WAITING"}
                      /\ state'[t] = "ZOMBIE" => state[t] = "ZOMBIE"
  OBVIOUS
<1>3. FamilyConsistent'
  BY <1>1, <1>2, FamilySteady
<1>4. PidsMatchTasks'
  BY <1>1, <1>2, PidsSteady, SMTT(30)
<1>5. WakeupsKept'
  BY <1>1, <1>2, WakeupsSteady, SMTT(30) DEF family
<1>6. QED
  BY <1>3, <1>4, <1>5

(* BootSchedule and TimerPreempt: schedule() with nothing changed before.  *)
LEMMA SwitchSound ==
  ASSUME IInv, NEW ctx \in {"dead", "preempted"}, schedule(state, ready), GoTo(ctx),
         current = Dummy <=> ctx = "dead",
         UNCHANGED <<wq, family, signal, waitfor, sleep, table>>
  PROVE  IInv' /\ \A t \in Task : state[t] = "ZOMBIE" => state'[t] = "ZOMBIE"
<1> USE TaskFacts
<1>t. TypeOK /\ Roles /\ WaitersParked /\ current \in Thread
  BY Zenon DEF IInv, TypeOK
<1>1. /\ current' \in Task /\ ready' \in Seq(Task) /\ quantum' = Quantum
      /\ state' \in [Task -> States]
      /\ \A t \in Task \ {Idle} : state'[t] = state[t]
      /\ state'[Idle] \in {state[Idle], "RUNNING"}
      /\ ReadyQueueSound' /\ RunnableQueued'
  <2>1. /\ state \in [Task -> States] /\ ready \in Seq(Task) /\ IsInjective(ready)
        /\ \A t \in Range(ready) : state[t] = "RUNNING" /\ t \notin {current, Idle}
        /\ \A t \in Task \ {Idle} : state[t] = "RUNNING" => t = current \/ t \in Range(ready)
    BY Zenon DEF IInv, TypeOK, ReadyQueueSound, RunnableQueued
  <2>2. QED
    BY <1>t, <2>1, ScheduleSound, SMTT(30)
<1>2. FamilyConsistent' /\ PidsMatchTasks' /\ WakeupsKept'
  <2>1. \A t \in Task : \/ state'[t] = state[t]
                        \/ /\ state[t] \in {"NEW", "RUNNING", "WAITING"}
                           /\ state'[t] \in {"RUNNING", "WAITING"}
    <3>1. state[Idle] \in {"NEW", "RUNNING"} /\ state'[Idle] \in {state[Idle], "RUNNING"}
      BY <1>1, <1>t, Zenon DEF Roles
    <3>2. \A t \in Task : t # Idle => state'[t] = state[t]
      BY <1>1
    <3>3. QED
      BY <3>1, <3>2
  <2>2. wq' = wq /\ waitfor' = waitfor /\ family' = family /\ pids' = pids
    BY DEF table
  <2>3. \A t \in Task : t \in Range(wq'[t]) => t \in Range(wq[t]) /\ waitfor'[t] = waitfor[t]
    BY <2>2, Zenon
  <2>4. QED
    BY <2>1, <2>2, <2>3, SteadyStep, Zenon
<1>3. WaitersParked'
  <2>1. \A t \in Task : state'[t] = "WAITING" <=> state[t] = "WAITING"
    BY <1>1, <1>t, SMTT(30) DEF Roles
  <2>2. QED
    BY <1>t, <2>1, SMTT(30) DEF WaitersParked
<1>4. /\ kctx'[current] = ctx /\ kctx' \in [Thread -> Contexts]
      /\ \A t \in Thread \ {current} : kctx'[t] = kctx[t]
  BY <1>t, SMTT(30) DEF TypeOK, GoTo, Contexts
<1>5. Roles'
  BY <1>1, <1>4, <1>t, SMTT(30) DEF Roles, signal
<1>6. TypeOK'
  <2>1. quantum' = Quantum
    BY <1>1, Zenon
  <2>2. quantum' \in 1 .. Quantum
    BY <2>1, ProcessAssumptions, SMTT(30)
  <2>3. QED
    BY <1>1, <1>4, <1>t, <2>2, Zenon DEF TypeOK, family, signal, sleep, table
<1>7. QED
  BY <1>1, <1>2, <1>3, <1>5, <1>6, <1>t, Zenon DEF IInv, Roles

(* The current task changes its place in the kernel, its signals, its      *)
(* waitpid argument or the clock, and nothing else.                        *)
LEMMA QuietSound ==
  ASSUME IInv, UNCHANGED <<current, ready, state, wq, family, info>>, NEW ctx \in Contexts,
         GoTo(ctx), \A t \in Task \ {current} : waitfor'[t] = waitfor[t],
         PidsMatchTasks', pids' \in [bits : SUBSET Task, next_free : Task \cup {-1}],
         sigs' \in [Thread -> SUBSET Sigs], caught' \in [Thread -> SUBSET Sigs],
         waitfor' \in [Task -> Task \cup {-1}], wake' \in [Task -> 0 .. TickMod - 1],
         ticks' \in 0 .. TickMod - 1, quantum' \in 1 .. Quantum, spawned' \in 0 .. 2,
         \A t \in {Idle, KitoxD, Dummy} : caught'[t] = {},
         current = Idle => ctx \in {"user", "tick", "iret"},
         current = Dummy => ctx \in {"user", "tick", "iret"},
         current = KitoxD => ctx # "kern",
         current \in Task /\ ctx \in {"waitloop", "waiting"} => waitfor'[current] # 0,
         ctx # "ksleeping"
  PROVE  IInv' /\ \A t \in Task : state[t] = "ZOMBIE" => state'[t] = "ZOMBIE"
<1> USE TaskFacts
<1>t. TypeOK /\ Roles
  BY DEF IInv
<1>1. /\ ReadyQueueSound' /\ RunnableQueued' /\ WaitersParked'
      /\ FamilyConsistent' /\ WakeupsKept'
  BY QuietStep, SMTT(30)
<1>2. /\ kctx'[current] = ctx /\ kctx' \in [Thread -> Contexts]
      /\ \A t \in Thread \ {current} : kctx'[t] = kctx[t]
  BY <1>t, SMTT(30) DEF TypeOK, GoTo
<1>3. Roles'
  BY <1>2, <1>t, SMTT(30) DEF Roles
<1>4. TypeOK'
  BY <1>2, <1>t, Zenon DEF TypeOK, family
<1>5. QED
  BY <1>1, <1>3, <1>4 DEF IInv
-----------------------------------------------------------------------------
(* The actions *)

\* wq_finish by kill or by the timer: the woken task is queued, no one else moves.
LEMMA FinishStep ==
  ASSUME IInv, NEW t \in Task, wq_finish(t), UNCHANGED <<current, quantum, family, caught,
                                                         waitfor, sleep, table>>,
         sigs' \in [Thread -> SUBSET Sigs], kctx' = kctx \/ GoTo("iret")
  PROVE  IInv' /\ \A u \in Task : state[u] = "ZOMBIE" => state'[u] = "ZOMBIE"
<1> USE TaskFacts
<1>t. TypeOK /\ Roles
  BY DEF IInv
<1>1. /\ ready' \in Seq(Task) /\ state' \in [Task -> States]
      /\ wq' \in [Queues -> Seq(Task)]
      /\ \A u \in Task : \/ state'[u] = state[u]
                         \/ state[u] = "WAITING" /\ state'[u] = "RUNNING"
      /\ \A u \in Task : u \in Range(wq'[u]) => u \in Range(wq[u])
      /\ ReadyQueueSound' /\ RunnableQueued' /\ WaitersParked'
  BY FinishSound, Zenon
<1>2. FamilyConsistent' /\ PidsMatchTasks' /\ WakeupsKept'
  BY <1>1, SteadyStep DEF table
<1>3. /\ kctx' \in [Thread -> Contexts]
      /\ \A u \in Thread : kctx'[u] \in {kctx[u], "iret"}
  BY <1>t, Zenon DEF TypeOK, GoTo, Contexts
<1>4. Roles'
  BY <1>1, <1>3, <1>t, Zenon DEF Roles
<1>5. TypeOK'
  BY <1>1, <1>3, <1>t, Zenon DEF TypeOK, family, sleep, table
<1>6. QED
  BY <1>1, <1>2, <1>4, <1>5 DEF IInv

\* Going to sleep parks the task on sleep_wq, which no waitpid looks at.
LEMMA SleepStep ==
  ASSUME IInv, current \in Task \ {Idle}, NEW d \in SleepTicks,
         NEW ctx \in {"sleeping", "ksleeping"}, current = KitoxD => ctx = "sleeping",
         ksleep(d, ctx)
  PROVE  IInv' /\ \A u \in Task : state[u] = "ZOMBIE" => state'[u] = "ZOMBIE"
<1> USE TaskFacts
<1>t. TypeOK /\ Roles /\ state[current] = "RUNNING"
  BY DEF IInv, ReadyQueueSound
<1>1. Block(SleepWq, ctx) /\ UNCHANGED <<family, signal, waitfor, ticks, table>>
      /\ wake' = [wake EXCEPT ![current] = (ticks + d) % TickMod]
  BY DEF ksleep
<1>2. /\ current' \in Task /\ ready' \in Seq(Task) /\ quantum' = Quantum
      /\ state' \in [Task -> States] /\ wq' \in [Queues -> Seq(Task)]
      /\ kctx' = [kctx EXCEPT ![current] = ctx]
      /\ state'[current] = "WAITING" /\ state'[Idle] \in {state[Idle], "RUNNING"}
      /\ \A t \in Task \ {Idle, current} : state'[t] = state[t]
      /\ \A t \in Task : t \in Range(wq'[t]) => t \in Range(wq[t])
      /\ ReadyQueueSound' /\ RunnableQueued' /\ WaitersParked'
  BY <1>1, BlockSound DEF Contexts
<1>3. FamilyConsistent' /\ PidsMatchTasks' /\ WakeupsKept'
  BY <1>1, <1>2, <1>t, SteadyStep, Zenon DEF Roles, table
<1>4. /\ kctx'[current] = ctx /\ kctx' \in [Thread -> Contexts]
      /\ \A t \in Thread \ {current} : kctx'[t] = kctx[t]
  BY <1>2, <1>t, Zenon DEF TypeOK, Contexts
<1>5. Roles'
  BY <1>1, <1>2, <1>4, <1>t, Zenon DEF Roles, signal
<1>6. wake' \in [Task -> 0 .. TickMod - 1] /\ quantum' \in 1 .. Quantum
  <2>1. ticks \in Nat /\ d \in Nat /\ TickMod \in Nat \ {0} /\ Quantum \in Nat \ {0}
    BY <1>t, ProcessAssumptions DEF TypeOK
  <2>2. (ticks + d) % TickMod \in 0 .. TickMod - 1
    BY <2>1
  <2>3. wake \in [Task -> 0 .. TickMod - 1]
    BY <1>t DEF TypeOK
  <2>4. wake' \in [Task -> 0 .. TickMod - 1]
    BY <1>1, <2>2, <2>3, UpdateType
  <2>5. quantum' \in 1 .. Quantum
    BY <1>2, <2>1
  <2>6. QED
    BY <2>4, <2>5
<1>7. TypeOK'
  BY <1>1, <1>2, <1>4, <1>6, <1>t, Zenon DEF TypeOK, family, signal, table
<1>8. QED
  BY <1>2, <1>3, <1>5, <1>7, <1>t, Zenon DEF IInv, Roles

(* waitpid blocks only when the child it waits for is there and none that  *)
(* it could reap is dead: this is where WakeupsKept is established.        *)
LEMMA WaitBlockStep ==
  ASSUME IInv, WaitBlock
  PROVE  IInv' /\ \A u \in Task : state[u] = "ZOMBIE" => state'[u] = "ZOMBIE"
<1> USE TaskFacts
<1>t. TypeOK /\ Roles /\ current \in Task \ {Idle} /\ state[current] = "RUNNING"
  BY Zenon DEF IInv, TypeOK, Roles, ReadyQueueSound, WaitBlock
<1>1. Block(current, "waiting") /\ UNCHANGED <<family, signal, waitfor, sleep, table>>
  BY DEF WaitBlock
<1>2. /\ current' \in Task /\ ready' \in Seq(Task) /\ quantum' = Quantum
      /\ state' \in [Task -> States] /\ wq' \in [Queues -> Seq(Task)]
      /\ kctx' = [kctx EXCEPT ![current] = "waiting"]
      /\ state'[current] = "WAITING" /\ state'[Idle] \in {state[Idle], "RUNNING"}
      /\ \A t \in Task \ {Idle, current} : state'[t] = state[t]
      /\ \A t \in Task : t \in Range(wq'[t]) => t \in Range(wq[t]) \/ t = current
      /\ ReadyQueueSound' /\ RunnableQueued' /\ WaitersParked'
  BY <1>1, <1>t, BlockSound, SMTT(30) DEF Contexts
<1>3. FamilyConsistent' /\ PidsMatchTasks'
  <2>1. \A t \in Task : /\ state'[t] = "FREE" <=> state[t] = "FREE"
                        /\ state[t] \in {"RUNNING", "WAITING"}
                             => state'[t] \in {"RUNNING", "WAITING"}
    BY <1>2, <1>t, Zenon DEF Roles
  <2>2. QED
    BY <1>1, <1>t, <2>1, FamilySteady, PidsSteady DEF IInv, TypeOK, table
<1>4. waitfor[current] \in (Task \ {0}) \cup {-1}
  BY <1>t, Zenon DEF TypeOK, Roles, WaitBlock
<1>5. WakeupsKept'
  <2>0. \A c \in Task : state'[c] = "ZOMBIE" => state[c] = "ZOMBIE"
    BY <1>2, <1>t, Zenon DEF Roles
  <2> SUFFICES ASSUME NEW t \in Task \ {KitoxD}, t \in Range(wq'[t])
               PROVE  /\ \A c \in Range(children[t]) : waitfor[t] \in {-1, c} => state'[c] # "ZOMBIE"
                      /\ \E c \in Range(children[t]) : waitfor[t] \in {-1, c}
    BY <1>1 DEF WakeupsKept, family
  <2>1. children[t] \in Seq(Task)
    BY <1>t, SMTT(30) DEF TypeOK
  <2>2. Range(children[t]) \subseteq Task
    BY <2>1, ToSetElement
  <2>3. CASE t # current
    BY <1>2, <2>0, <2>2, <2>3, Zenon DEF IInv, WakeupsKept
  <2>4. CASE t = current
    <3>1. ASSUME NEW c \in Range(children[t]), waitfor[t] \in {-1, c}
          PROVE  state[c] # "ZOMBIE"
      <4>1. PICK i \in 1 .. Len(children[t]) : children[t][i] = c
        BY <2>1, ToSetElement
      <4>2. i \in DOMAIN children[t]
        BY <2>1, LenProperties
      <4>3. Reapable = {}
        BY DEF WaitBlock
      <4>4. QED
        BY <2>4, <3>1, <4>1, <4>2, <4>3 DEF Reapable, Matches
    <3>2. Range(children[t]) # {} /\ (waitfor[t] > 0 => waitfor[t] \in Range(children[t]))
      BY <2>4 DEF WaitBlock, NoSuchChild
    <3>3. \E c \in Range(children[t]) : waitfor[t] \in {-1, c}
      <4>1. waitfor[t] = -1 \/ waitfor[t] > 0
        BY <1>4, <2>4, ProcessAssumptions, SMTT(30) DEF Task
      <4>2. QED
        BY <3>2, <4>1
    <3>4. QED
      BY <2>0, <2>2, <3>1, <3>3
  <2>5. QED
    BY <2>3, <2>4
<1>6. /\ kctx'[current] = "waiting" /\ kctx' \in [Thread -> Contexts]
      /\ \A t \in Thread \ {current} : kctx'[t] = kctx[t]
  BY <1>2, <1>t DEF TypeOK, Contexts
<1>7. Roles'
  <2>1. waitfor'[current] # 0
    BY <1>1, <1>t DEF Roles, WaitBlock
  <2>2. QED
    BY <1>1, <1>2, <1>6, <1>t, <2>1, SMTT(30) DEF Roles, signal
<1>8. TypeOK'
  <2>1. quantum' \in 1 .. Quantum
    BY <1>2, ProcessAssumptions, SMTT(30)
  <2>2. QED
    BY <1>1, <1>2, <1>6, <1>t, <2>1, Zenon DEF TypeOK, family, signal, sleep, table
<1>9. QED
  BY <1>2, <1>3, <1>5, <1>7, <1>8, <1>t, Zenon DEF IInv, Roles

\* fork and exec_fn
LEMMA NewStep ==
  ASSUME IInv, pids.next_free # -1, NEW c, c = pids.next_free,
         NEW p \in {current, KitoxD}, p \in Task, NEW ctx \in {"iret", "kern"},
         NewTask(c, p, ctx), UNCHANGED <<current, quantum, wq, waitfor, ticks>>,
         sigs' \in [Thread -> SUBSET Sigs], caught' \in [Thread -> SUBSET Sigs],
         \A t \in Thread \ {c} : caught'[t] = caught[t],
         wake' \in [Task -> 0 .. TickMod - 1], info' \subseteq Task, spawned' \in 0 .. 2
  PROVE  IInv' /\ \A t \in Task : state[t] = "ZOMBIE" => state'[t] = "ZOMBIE"
<1> USE TaskFacts
<1>t. TypeOK /\ Roles
  BY DEF IInv
<1>c. c \in Task /\ state[c] = "FREE" /\ c \notin {Idle, KitoxD, current}
  BY FreePid
<1>1. /\ ready' \in Seq(Task) /\ state' \in [Task -> States]
      /\ parent' \in [Task -> Task \cup {NULL}] /\ children' \in [Task -> Seq(Task)]
      /\ kctx' \in [Thread -> Contexts]
      /\ pids' \in [bits : SUBSET Task, next_free : Task \cup {-1}]
      /\ state'[c] = "RUNNING" /\ \A t \in Task \ {c} : state'[t] = state[t]
  BY NewTaskSound, Zenon
<1>2. /\ ReadyQueueSound' /\ RunnableQueued' /\ WaitersParked'
      /\ FamilyConsistent' /\ PidsMatchTasks' /\ WakeupsKept'
  BY NewTaskSound
<1>3. /\ kctx'[c] = ctx /\ kctx'[current] = "iret"
      /\ \A t \in Thread \ {c, current} : kctx'[t] = kctx[t]
  BY <1>t, <1>c, Zenon DEF NewTask, TypeOK
<1>4. Roles'
  <2>1. \A t \in Task : /\ state'[t] \notin {"FREE", "ZOMBIE"}
                         /\ kctx'[t] \in {"waitloop", "waiting"}
                         => waitfor'[t] # 0
    BY <1>1, <1>3, <1>c, <1>t, Zenon DEF Roles
  <2>2. \A t \in {Idle, KitoxD, Dummy} : /\ caught'[t] = {}
                                           /\ kctx'[t] \in {kctx[t], "iret"}
    <3>1. ASSUME NEW t \in {Idle, KitoxD, Dummy}
          PROVE  caught'[t] = caught[t] /\ kctx'[t] \in {kctx[t], "iret"}
      <4>1. t \in Thread /\ t # c
        BY <1>c, <3>1, SMTT(30)
      <4>2. QED
        BY <1>3, <4>1
    <3>2. QED
      BY <1>t, <3>1, SMTT(30) DEF Roles
  <2>3. state'[Idle] = state[Idle] /\ state'[KitoxD] = state[KitoxD]
    BY <1>1, <1>c
  <2>4. /\ kctx'[Idle] \in {kctx[Idle], "iret"} /\ kctx'[KitoxD] \in {kctx[KitoxD], "iret"}
        /\ kctx'[Dummy] \in {kctx[Dummy], "iret"}
    BY <2>2, Zenon
  <2>5. /\ state'[Idle] \in {"NEW", "RUNNING"} /\ state'[KitoxD] \in {"RUNNING", "WAITING"}
        /\ kctx'[Idle] \in {"user", "tick", "iret", "preempted"}
        /\ kctx'[Dummy] \in {"user", "tick", "iret", "dead"}
        /\ kctx'[KitoxD] \notin {"kern", "ksleeping"}
    <3>1. /\ state[Idle] \in {"NEW", "RUNNING"} /\ state[KitoxD] \in {"RUNNING", "WAITING"}
          /\ kctx[Idle] \in {"user", "tick", "iret", "preempted"}
          /\ kctx[Dummy] \in {"user", "tick", "iret", "dead"}
          /\ kctx[KitoxD] \notin {"kern", "ksleeping"}
      BY <1>t, Zenon DEF Roles
    <3>2. QED
      BY <2>3, <2>4, <3>1
  <2>6. QED
    BY <2>1, <2>2, <2>5, Zenon DEF Roles
<1>5. TypeOK'
  BY <1>1, <1>t, Zenon DEF TypeOK
<1>6. QED
  BY <1>1, <1>2, <1>4, <1>5, <1>c DEF IInv

(* Only a task other than idle and kitoxD is stopped by a signal: they     *)
(* have no user handler and are spared the default one.                    *)
LEMMA DiesStep ==
  ASSUME IInv, Dies
  PROVE  IInv' /\ \A t \in Task : state[t] = "ZOMBIE" => state'[t] = "ZOMBIE"
<1> USE TaskFacts
<1>1. PICK x : x \in Stops
  BY DEF Dies
<1>2. x \in caught[current] \/ current > KitoxD
  BY <1>1 DEF Stops
<1>3. current \in Task \ {Idle, KitoxD}
  BY <1>2, SMTT(30) DEF IInv, TypeOK, Roles
<1>4. AfterStop \in SUBSET Sigs
  BY <1>3 DEF AfterStop, IInv, TypeOK
<1>5. do_exit(AfterStop)
  BY DEF Dies
<1>6. QED
  BY <1>3, <1>4, <1>5, ExitSound

LEMMA InitIInv == Init => IInv
<1> SUFFICES ASSUME Init PROVE IInv
  OBVIOUS
<1> USE TaskFacts
<1>1. /\ state \in [Task -> States] /\ state[Idle] = "NEW" /\ state[KitoxD] = "RUNNING"
      /\ \A t \in Task \ {Idle, KitoxD} : state[t] = "FREE"
  BY DEF Init, States
<1>2. /\ kctx \in [Thread -> Contexts] /\ kctx[Idle] = "user" /\ kctx[Dummy] = "user"
      /\ kctx[KitoxD] = "iret" /\ \A t \in Task \ {Idle, KitoxD} : kctx[t] = "dead"
  BY DEF Init, Contexts
<1>3. ready \in Seq(Task) /\ IsInjective(ready) /\ Range(ready) = {KitoxD}
  <2>1. ready = Append(<<>>, KitoxD)
    BY DEF Init
  <2>2. /\ <<>> \in Seq(Task) /\ IsInjective(<<>>) /\ Range(<<>>) = {}
    BY EmptyList
  <2>3. /\ ready \in Seq(Task) /\ IsInjective(ready)
        /\ Range(ready) = Range(<<>>) \cup {KitoxD}
    BY <2>1, <2>2, AppendList, Zenon
  <2>4. QED
    BY <2>2, <2>3
<1>4. /\ wq \in [Queues -> Seq(Task)] /\ children \in [Task -> Seq(Task)]
      /\ \A q \in Queues : Range(wq[q]) = {} /\ IsInjective(wq[q])
      /\ \A t \in Task : Range(children[t]) = {} /\ IsInjective(children[t])
  <2>1. <<>> \in Seq(Task) /\ IsInjective(<<>>) /\ Range(<<>>) = {}
    BY EmptyList
  <2>2. QED
    BY <2>1 DEF Init
<1>5. /\ pids \in [bits : SUBSET Task, next_free : Task \cup {-1}]
      /\ pids.bits = {Idle, KitoxD}
      /\ pids.next_free = FirstZeroFrom(pids.bits, MaxPid, 0)
  <2>0. MaxPid \in Nat /\ MaxPid >= 2 /\ Task = 0 .. MaxPid - 1 /\ Idle = 0 /\ KitoxD = 1
    BY ProcessAssumptions DEF Task, Idle, KitoxD
  <2> DEFINE T == [bits : SUBSET (0 .. MaxPid - 1), next_free : (0 .. MaxPid - 1) \cup {-1}]
  <2>1. PICK m : m = id_manager_create
    OBVIOUS
  <2>2. m \in T /\ m.bits = {} /\ m.next_free = 0
    BY <2>0, <2>1 DEF id_manager_create
  <2>3. m.next_free = FirstZeroFrom(m.bits, MaxPid, 0)
    BY <2>0, <2>2, FirstZeroUnique
  <2>4. PICK a : a = id_manager_alloc(m, MaxPid)
    OBVIOUS
  <2>5. a \in T /\ a.bits = {0} /\ a.next_free = FirstZeroFrom(a.bits, MaxPid, 0)
    <3>0. MaxPid \in Nat /\ m \in T /\ m.next_free # -1
      BY <2>0, <2>2
    <3>1. a \in T /\ a.bits = m.bits \cup {m.next_free}
          /\ a.next_free = FirstZeroFrom(a.bits, MaxPid, 0)
      BY <2>3, <2>4, <3>0, AllocSound
    <3>2. QED
      BY <2>2, <3>1
  <2>6. a.next_free = 1
    BY <2>0, <2>5, FirstZeroUnique
  <2>7. PICK b : b = id_manager_alloc(a, MaxPid)
    OBVIOUS
  <2>8. b \in T /\ b.bits = {0, 1} /\ b.next_free = FirstZeroFrom(b.bits, MaxPid, 0)
    <3>0. /\ MaxPid \in Nat /\ a \in T /\ a.next_free # -1
          /\ a.next_free = FirstZeroFrom(a.bits, MaxPid, 0)
      BY <2>0, <2>5, <2>6
    <3>1. b \in T /\ b.bits = a.bits \cup {a.next_free}
          /\ b.next_free = FirstZeroFrom(b.bits, MaxPid, 0)
      BY <2>7, <3>0, AllocSound
    <3>2. QED
      BY <2>5, <2>6, <3>1, SMTT(30)
  <2>9. pids = b
    BY <2>1, <2>4, <2>7 DEF Init
  <2>10. QED
    BY <2>0, <2>8, <2>9, Zenon
<1>6. TypeOK
  <2>1. wake \in [Task -> 0 .. TickMod - 1] /\ ticks \in 0 .. TickMod - 1
        /\ quantum \in 1 .. Quantum /\ spawned \in 0 .. 2
        /\ waitfor \in [Task -> Task \cup {-1}]
    BY ProcessAssumptions DEF Init, Idle
  <2>2. QED
    BY <1>1, <1>2, <1>3, <1>4, <1>5, <2>1 DEF Init, TypeOK
<1>7. ReadyQueueSound /\ RunnableQueued
  BY <1>1, <1>3 DEF Init, ReadyQueueSound, RunnableQueued
<1>8. WaitersParked
  BY <1>1, <1>4, Zenon DEF WaitersParked
<1>9. FamilyConsistent
  BY <1>1, <1>4 DEF Init, FamilyConsistent
<1>10. PidsMatchTasks
  BY <1>1, <1>5 DEF PidsMatchTasks
<1>11. Roles
  BY <1>1, <1>2 DEF Init, Roles
<1>12. WakeupsKept
  BY <1>4, Zenon DEF WakeupsKept
<1>13. QED
  BY <1>6, <1>7, <1>8, <1>9, <1>10, <1>11, <1>12 DEF IInv
-----------------------------------------------------------------------------
(* A step that only moves the current task in the kernel: what QuietSound  *)
(* asks of the variables that do not change.                               *)
LEMMA QuietTypes ==
  ASSUME IInv
  PROVE  /\ PidsMatchTasks /\ pids \in [bits : SUBSET Task, next_free : Task \cup {-1}]
         /\ sigs \in [Thread -> SUBSET Sigs] /\ caught \in [Thread -> SUBSET Sigs]
         /\ waitfor \in [Task -> Task \cup {-1}] /\ wake \in [Task -> 0 .. TickMod - 1]
         /\ ticks \in 0 .. TickMod - 1 /\ quantum \in 1 .. Quantum /\ spawned \in 0 .. 2
         /\ \A t \in {Idle, KitoxD, Dummy} : caught[t] = {}
         /\ current \in Thread /\ TypeOK /\ Roles
BY DEF IInv, TypeOK, Roles

\* ForkFails gives the pid back, so the manager is as it was.
LEMMA ForkFailsPids ==
  ASSUME IInv, ForkFails
  PROVE  PidsMatchTasks' /\ pids' \in [bits : SUBSET Task, next_free : Task \cup {-1}]
<1>t. /\ pids \in [bits : SUBSET Task, next_free : Task \cup {-1}] /\ PidsMatchTasks
      /\ pids.bits = {t \in Task : state[t] # "FREE"} /\ UNCHANGED state
  BY DEF IInv, TypeOK, PidsMatchTasks, ForkFails
<1>1. CASE pids.next_free = -1
  BY <1>t, <1>1 DEF ForkFails, PidsMatchTasks
<1>2. CASE pids.next_free # -1
  <2>1. Task = 0 .. MaxPid - 1 /\ MaxPid \in Nat
    BY ProcessAssumptions DEF Task
  <2> DEFINE T == [bits : SUBSET (0 .. MaxPid - 1), next_free : (0 .. MaxPid - 1) \cup {-1}]
  <2>2. PICK m : m = pids
    OBVIOUS
  <2>3. m \in T /\ m.next_free = FirstZeroFrom(m.bits, MaxPid, 0) /\ m.next_free # -1
    BY <1>t, <1>2, <2>1, <2>2, Zenon DEF PidsMatchTasks
  <2>4. PICK a : a = id_manager_alloc(m, MaxPid)
    OBVIOUS
  <2>5. /\ a \in T /\ a.bits = m.bits \cup {m.next_free} /\ m.next_free \notin m.bits
        /\ a.next_free = FirstZeroFrom(a.bits, MaxPid, 0)
    BY <2>1, <2>3, <2>4, AllocSound
  <2>6. PICK id : id = m.next_free
    OBVIOUS
  <2>7. id \in a.bits
    BY <2>5, <2>6, SMTT(30)
  <2>8. PICK r : r = id_manager_free(a, MaxPid, id)
    OBVIOUS
  <2>9. r \in T /\ r.bits = a.bits \ {id} /\ r.next_free = FirstZeroFrom(r.bits, MaxPid, 0)
    <3>1. a \in T /\ a.next_free = FirstZeroFrom(a.bits, MaxPid, 0) /\ MaxPid \in Nat
      BY <2>1, <2>5, SMTT(30)
    <3>2. QED
      BY <2>7, <2>8, <3>1, FreeSound
  <2>10. pids' = r /\ r.bits = m.bits
    BY <1>2, <2>2, <2>4, <2>5, <2>6, <2>8, <2>9, SMTT(30) DEF ForkFails
  <2>11. QED
    BY <1>t, <2>1, <2>2, <2>9, <2>10, Zenon DEF PidsMatchTasks
<1>3. QED
  BY <1>1, <1>2

(* One step of the process core keeps the invariant, and releases a zombie *)
(* only in a waitpid of its parent.                                        *)
LEMMA StepSound == IInv /\ [Next]_vars => IInv' /\ [ZombieRelease]_vars
<1> SUFFICES ASSUME IInv, [Next]_vars
             PROVE  IInv' /\ [ZombieRelease]_vars
  OBVIOUS
<1> USE TaskFacts
<1>q. /\ PidsMatchTasks /\ pids \in [bits : SUBSET Task, next_free : Task \cup {-1}]
      /\ sigs \in [Thread -> SUBSET Sigs] /\ caught \in [Thread -> SUBSET Sigs]
      /\ waitfor \in [Task -> Task \cup {-1}] /\ wake \in [Task -> 0 .. TickMod - 1]
      /\ ticks \in 0 .. TickMod - 1 /\ quantum \in 1 .. Quantum /\ spawned \in 0 .. 2
      /\ \A t \in {Idle, KitoxD, Dummy} : caught[t] = {}
      /\ current \in Thread /\ TypeOK /\ Roles
  BY QuietTypes
<1>p. ASSUME UNCHANGED <<pids, state>> PROVE PidsMatchTasks'
  BY <1>p, <1>q DEF PidsMatchTasks
<1> DEFINE Kept == \A t \in Task : state[t] = "ZOMBIE" => state'[t] = "ZOMBIE"
<1>z. Kept => [ZombieRelease]_vars
  BY DEF ZombieRelease
<1> HIDE DEF Kept
<1>1. CASE BootSchedule
  BY <1>1, <1>z, SwitchSound DEF BootSchedule, Kept
<1>2. CASE TimerPreempt
  <2>1. current # Dummy
    BY <1>2 DEF TimerPreempt, Dummy, Idle
  <2>2. QED
    BY <1>2, <1>z, <2>1, SwitchSound DEF TimerPreempt, Kept
<1>3. CASE TimerIrq
  <2>1. /\ GoTo("tick") /\ "tick" \in Contexts
        /\ UNCHANGED <<sched, state, wq, family, signal, waitfor, wake, table>>
    BY <1>3 DEF TimerIrq, Contexts
  <2>2. ticks' \in 0 .. TickMod - 1
    BY <1>3, <1>q, ProcessAssumptions, SMTT(30) DEF TimerIrq
  <2>3. IInv' /\ Kept
    BY <1>q, <1>p, <2>1, <2>2, QuietSound, SMTT(30) DEF sched, signal, table, Kept
  <2>4. QED
    BY <1>z, <2>3
<1>4. CASE TimerReturn
  <2>1. /\ GoTo("iret") /\ "iret" \in Contexts
        /\ UNCHANGED <<current, ready, state, wq, family, signal, waitfor, sleep, table>>
    BY <1>4 DEF TimerReturn, Contexts
  <2>2. quantum' \in 1 .. Quantum
    BY <1>4, <1>q, ProcessAssumptions, SMTT(30) DEF TimerReturn
  <2>3. IInv' /\ Kept
    BY <1>q, <1>p, <2>1, <2>2, QuietSound DEF sched, signal, sleep, table, Kept
  <2>4. QED
    BY <1>z, <2>3
<1>5. CASE OtherTrap
  <2>1. /\ GoTo("iret") /\ "iret" \in Contexts
        /\ UNCHANGED <<sched, state, wq, family, signal, waitfor, sleep, table>>
    BY <1>5, SMTT(30) DEF OtherTrap, Contexts
  <2>2. IInv' /\ Kept
    BY <1>q, <1>p, <2>1, QuietSound DEF sched, signal, sleep, table, Kept
  <2>3. QED
    BY <1>z, <2>2
<1>6. CASE ForkFails
  <2>1. /\ GoTo("iret") /\ "iret" \in Contexts
        /\ UNCHANGED <<sched, state, wq, family, signal, waitfor, sleep, info>>
    BY <1>6 DEF ForkFails, Contexts
  <2>2. PidsMatchTasks' /\ pids' \in [bits : SUBSET Task, next_free : Task \cup {-1}]
    BY <1>6, ForkFailsPids
  <2>3. spawned' \in 0 .. 2
    <3>1. /\ current # KitoxD \/ spawned < 2
          /\ spawned' = IF current = KitoxD THEN spawned + 1 ELSE spawned
      BY <1>6 DEF ForkFails, MayFork, Counted
    <3>2. QED
      BY <1>q, <3>1
  <2>4. IInv' /\ Kept
    BY <1>q, <2>1, <2>2, <2>3, QuietSound DEF sched, signal, sleep, Kept
  <2>5. QED
    BY <1>z, <2>4
<1>7. ASSUME NEW sig \in Sigs, Signal(sig) PROVE IInv' /\ [ZombieRelease]_vars
  <2>1. /\ GoTo("iret") /\ "iret" \in Contexts
        /\ UNCHANGED <<sched, state, wq, family, sigs, waitfor, sleep, table>>
    BY <1>7 DEF Signal, Contexts
  <2>2. /\ caught' \in [Thread -> SUBSET Sigs]
        /\ \A t \in {Idle, KitoxD, Dummy} : caught'[t] = {}
    BY <1>7, <1>q, SMTT(30) DEF Signal, InRing3
  <2>3. IInv' /\ Kept
    BY <1>q, <1>p, <2>1, <2>2, QuietSound DEF sched, sleep, table, Kept
  <2>4. QED
    BY <1>z, <2>3, SMTT(30)
<1>8. ASSUME NEW p \in (Task \ {Idle}) \cup {-1}, Waitpid(p) PROVE IInv' /\ [ZombieRelease]_vars
  <2>1. /\ GoTo("waitloop") /\ "waitloop" \in Contexts /\ current \in Task \ {Idle}
        /\ UNCHANGED <<sched, state, wq, family, signal, sleep, table>>
    BY <1>8, <1>q DEF Waitpid, Contexts, InRing3
  <2>2. /\ waitfor' \in [Task -> Task \cup {-1}] /\ waitfor'[current] # 0
        /\ \A t \in Task \ {current} : waitfor'[t] = waitfor[t]
    <3>1. waitfor' = [waitfor EXCEPT ![current] = p]
      BY <1>8 DEF Waitpid
    <3>2. p \in Task \cup {-1} /\ p # 0
      BY <1>8, ProcessAssumptions, SMTT(30) DEF Idle, Task
    <3>3. QED
      BY <1>q, <2>1, <3>1, <3>2
  <2>3. IInv' /\ Kept
    BY <1>q, <1>p, <2>1, <2>2, QuietSound DEF sched, signal, sleep, table, Kept
  <2>4. QED
    BY <1>z, <2>3
<1>9. CASE WaitError
  <2>1. /\ GoTo("iret") /\ "iret" \in Contexts
        /\ UNCHANGED <<sched, state, wq, family, signal, sleep, table>>
    BY <1>9 DEF WaitError, Contexts
  <2>2. /\ waitfor' \in [Task -> Task \cup {-1}]
        /\ \A t \in Task \ {current} : waitfor'[t] = waitfor[t]
    BY <1>9, <1>q, Zenon DEF WaitError, Idle
  <2>3. IInv' /\ Kept
    BY <1>q, <1>p, <2>1, <2>2, QuietSound DEF sched, signal, sleep, table, Kept
  <2>4. QED
    BY <1>z, <2>3
<1>s. ASSUME Survives PROVE sigs' \in [Thread -> SUBSET Sigs]
  BY <1>s, <1>q DEF Survives, AfterStop
<1>d. ASSUME Dies PROVE IInv' /\ [ZombieRelease]_vars
  BY <1>d, <1>z, DiesStep DEF Kept
<1>10. CASE Iret
  <2>1. ASSUME Survives, GoTo("user"),
               UNCHANGED <<sched, state, wq, family, caught, waitfor, sleep, table>>
        PROVE  IInv' /\ [ZombieRelease]_vars
    <3>1. "user" \in Contexts /\ sigs' \in [Thread -> SUBSET Sigs]
      BY <1>s, <2>1, SMTT(30) DEF Contexts
    <3>2. IInv' /\ Kept
      BY <1>q, <1>p, <2>1, <3>1, QuietSound DEF sched, sleep, table, Kept
    <3>3. QED
      BY <1>z, <3>2
  <2>2. QED
    BY <1>10, <1>d, <2>1 DEF Iret
<1>11. CASE Resume
  <2> DEFINE ctx == CASE kctx[current] \in {"preempted", "sleeping"} -> "iret"
                      [] kctx[current] = "waiting" -> "waitloop"
                      [] kctx[current] = "ksleeping" -> "kern"
  <2>1. ASSUME Survives, GoTo(ctx),
               wake' = IF kctx[current] \in {"sleeping", "ksleeping"}
                       THEN [wake EXCEPT ![current] = 0] ELSE wake,
               UNCHANGED <<sched, state, wq, family, caught, waitfor, ticks, table>>
        PROVE  IInv' /\ [ZombieRelease]_vars
    <3>1. kctx[current] \in {"preempted", "waiting", "sleeping", "ksleeping"}
      BY <1>11 DEF Resume
    <3>2. /\ ctx \in {"iret", "waitloop", "kern"}
          /\ ctx = "waitloop" => kctx[current] = "waiting"
          /\ ctx = "kern" => kctx[current] = "ksleeping"
      BY <3>1
    <3> HIDE DEF ctx
    <3>3. ctx \in Contexts /\ ctx # "ksleeping" /\ sigs' \in [Thread -> SUBSET Sigs]
      BY <1>s, <2>1, <3>2, SMTT(30) DEF Contexts
    <3>4. /\ current = Idle => ctx = "iret"
          /\ current # Dummy
          /\ current = KitoxD => ctx # "kern"
      BY <1>q, <3>1, <3>2 DEF Roles
    <3>5. current \in Task /\ ctx \in {"waitloop", "waiting"} => waitfor'[current] # 0
      <4>1. current \in Task => state[current] = "RUNNING"
        BY DEF IInv, ReadyQueueSound
      <4>2. QED
        BY <1>q, <2>1, <3>2, <4>1 DEF Roles
    <3>6. wake' \in [Task -> 0 .. TickMod - 1]
      <4>1. 0 \in 0 .. TickMod - 1
        BY ProcessAssumptions
      <4>2. [wake EXCEPT ![current] = 0] \in [Task -> 0 .. TickMod - 1]
        BY <1>q, <4>1, Zenon
      <4>3. QED
        BY <1>q, <2>1, <4>2, SMTT(30)
    <3>7. IInv' /\ Kept
      BY <1>q, <1>p, <2>1, <3>3, <3>4, <3>5, <3>6, QuietSound, SMTT(30) DEF sched, table, Kept
    <3>8. QED
      BY <1>z, <3>7
  <2>2. QED
    BY <1>11, <1>d, <2>1 DEF Resume
<1>12. CASE Reap
  <2>1. current' = current /\ kctx[current] = "waitloop"
    BY <1>12, Zenon DEF Reap, sched
  <2>2. QED
    BY <1>12, <2>1, ReapSound DEF ZombieRelease
<1>13. CASE WaitBlock
  BY <1>13, <1>z, WaitBlockStep DEF Kept
<1>14. CASE WakeSleeper
  <2>1. PICK i : i = Min(Expired)
    OBVIOUS
  <2>2. wq[SleepWq] \in Seq(Task)
    BY <1>q DEF TypeOK
  <2>3. wq[SleepWq][i] \in Task
    <3>1. DOMAIN wq[SleepWq] = 1 .. Len(wq[SleepWq]) /\ Len(wq[SleepWq]) \in Nat
      BY <2>2, LenProperties
    <3>2. PICK E : E = Expired
      OBVIOUS
    <3>3. E \subseteq DOMAIN wq[SleepWq] /\ E # {}
      BY <1>14, <3>2 DEF WakeSleeper, Expired
    <3>4. E \in SUBSET Nat
      BY <3>1, <3>3
    <3>5. i \in E
      BY <2>1, <3>2, <3>3, <3>4, MinElement
    <3>6. QED
      BY <2>2, <3>1, <3>3, <3>5, ElementOfSeq, SMTT(30)
  <2>4. /\ wq_finish(wq[SleepWq][i])
        /\ UNCHANGED <<current, quantum, family, signal, kctx, waitfor, sleep, table>>
    BY <1>14, <2>1, SMTT(30) DEF WakeSleeper
  <2>5. IInv' /\ Kept
    BY <1>q, <2>3, <2>4, FinishStep DEF signal, Kept
  <2>6. QED
    BY <1>z, <2>5
<1>15. ASSUME NEW t \in Task, NEW sig \in Sigs, Kill(t, sig)
       PROVE  IInv' /\ [ZombieRelease]_vars
  <2>1. /\ wq_finish(t) /\ GoTo("iret")
        /\ UNCHANGED <<current, quantum, family, caught, waitfor, sleep, table>>
        /\ sigs' = [sigs EXCEPT ![t] = @ \cup {sig}]
    BY <1>15 DEF Kill
  <2>2. sigs' \in [Thread -> SUBSET Sigs]
    BY <1>q, <2>1
  <2>3. IInv' /\ Kept
    BY <2>1, <2>2, FinishStep DEF Kept
  <2>4. QED
    BY <1>z, <2>3
<1>16. ASSUME NEW d \in SleepTicks, Sleep(d) PROVE IInv' /\ [ZombieRelease]_vars
  <2>1. current \in Task \ {Idle} /\ ksleep(d, "sleeping")
    BY <1>16, <1>q DEF Sleep, InRing3
  <2>2. QED
    BY <1>z, <2>1, SleepStep DEF Kept
<1>17. ASSUME NEW d \in SleepTicks, KernSleep(d) PROVE IInv' /\ [ZombieRelease]_vars
  <2>1. current \in Task \ {Idle, KitoxD} /\ ksleep(d, "ksleeping")
    BY <1>17, <1>q, SMTT(30) DEF KernSleep, Roles
  <2>2. QED
    BY <1>z, <2>1, SleepStep, SMTT(30) DEF Kept
<1>18. CASE Exit
  <2>1. current \in Task \ {Idle, KitoxD} /\ do_exit(sigs[current])
        /\ sigs[current] \in SUBSET Sigs
    BY <1>18, <1>q DEF Exit, InRing3
  <2>2. QED
    BY <1>z, <2>1, ExitSound, SMTT(30) DEF Kept
<1>19. CASE KernExit
  <2>1. current \in Task \ {Idle, KitoxD} /\ do_exit(sigs[current])
        /\ sigs[current] \in SUBSET Sigs
    BY <1>19, <1>q DEF KernExit, Roles
  <2>2. QED
    BY <1>z, <2>1, ExitSound, SMTT(30) DEF Kept
<1>20. CASE Fork
  <2>1. PICK c : c = pids.next_free
    OBVIOUS
  <2>2. /\ NewTask(c, current, "iret") /\ pids.next_free # -1
        /\ sigs' = [sigs EXCEPT ![c] = sigs[current]]
        /\ caught' = [caught EXCEPT ![c] = caught[current]]
        /\ wake' = [wake EXCEPT ![c] = wake[current]]
        /\ UNCHANGED <<current, quantum, wq, waitfor, ticks, info>>
        /\ MayFork /\ Counted /\ InRing3
    BY <1>20, <2>1 DEF Fork
  <2>3. c \in Task /\ current \in Task
    BY <1>q, <2>1, <2>2, FreePid, SMTT(30) DEF InRing3
  <2>4. spawned' \in 0 .. 2
    BY <1>q, <2>2, SMTT(30) DEF MayFork, Counted
  <2>5. /\ sigs' \in [Thread -> SUBSET Sigs] /\ caught' \in [Thread -> SUBSET Sigs]
        /\ \A t \in Thread \ {c} : caught'[t] = caught[t]
        /\ wake' \in [Task -> 0 .. TickMod - 1] /\ info' \subseteq Task
    BY <1>q, <2>2, <2>3, Zenon DEF TypeOK
  <2>6. IInv' /\ Kept
    BY <2>1, <2>2, <2>3, <2>4, <2>5, NewStep DEF Kept
  <2>7. QED
    BY <1>z, <2>6
<1>21. ASSUME NEW ctx \in ShellTasks, ShellExec(ctx) PROVE IInv' /\ [ZombieRelease]_vars
  <2>1. PICK c : c = pids.next_free
    OBVIOUS
  <2>2. /\ NewTask(c, KitoxD, ctx) /\ pids.next_free # -1 /\ info' = info \cup {c}
        /\ UNCHANGED <<current, quantum, wq, signal, waitfor, sleep, spawned>>
        /\ ctx \in {"iret", "kern"}
    BY <1>21, <2>1, ProcessAssumptions, SMTT(30) DEF ShellExec
  <2>3. c \in Task
    BY <2>1, <2>2, FreePid
  <2>4. /\ sigs' \in [Thread -> SUBSET Sigs] /\ caught' \in [Thread -> SUBSET Sigs]
        /\ \A t \in Thread \ {c} : caught'[t] = caught[t]
        /\ wake' \in [Task -> 0 .. TickMod - 1] /\ info' \subseteq Task /\ UNCHANGED ticks
        /\ spawned' \in 0 .. 2
    BY <1>q, <2>2, <2>3, Zenon DEF TypeOK, signal, sleep
  <2>5. IInv' /\ Kept
    BY <2>1, <2>2, <2>3, <2>4, NewStep DEF Kept
  <2>6. QED
    BY <1>z, <2>5
<1>22. CASE UNCHANGED vars
  <2>1. /\ UNCHANGED <<current, ready, quantum, state, wq, parent, children, sigs, caught,
                       kctx, waitfor, wake, ticks, info, pids, spawned>>
    BY <1>22, SMTT(30) DEF vars, sched, family, signal, sleep, table
  <2>2. TypeOK' /\ ReadyQueueSound' /\ RunnableQueued'
    BY <2>1, Zenon DEF IInv, TypeOK, ReadyQueueSound, RunnableQueued
  <2>3. WaitersParked' /\ FamilyConsistent'
    BY <2>1, Zenon DEF IInv, WaitersParked, FamilyConsistent
  <2>4. PidsMatchTasks' /\ Roles'
    BY <2>1, SMTT(30) DEF IInv, PidsMatchTasks, Roles
  <2>5. WakeupsKept'
    BY <2>1, Zenon DEF IInv, WakeupsKept
  <2>6. QED
    BY <1>22, <2>2, <2>3, <2>4, <2>5 DEF IInv
<1>23. QED
  BY <1>1, <1>2, <1>3, <1>4, <1>5, <1>6, <1>7, <1>8, <1>9, <1>10, <1>11, <1>12, <1>13,
     <1>14, <1>15, <1>16, <1>17, <1>18, <1>19, <1>20, <1>21, <1>22 DEF Next, Kernel

LEMMA Invariance == Spec => []IInv
<1>1. IInv /\ [Next]_vars => IInv'
  BY StepSound
<1>2. QED
  BY InitIInv, <1>1, PTL DEF Spec
-----------------------------------------------------------------------------
(* Every variable keeps its type: pids and list links stay in the task     *)
(* table, quantum_remaining never passes zero, kitoxD forks twice.         *)
THEOREM TypeCorrect == Spec => []TypeOK
<1>1. IInv => TypeOK
  BY SMTT(30) DEF IInv
<1>2. QED
  BY Invariance, <1>1, PTL

(* The ready queue is sound, so the panic of schedule() (scheduler.c:52)   *)
(* on a task that is not RUNNING cannot happen.                            *)
THEOREM ReadyQueueCorrect == Spec => []ReadyQueueSound
<1>1. IInv => ReadyQueueSound
  BY SMTT(30) DEF IInv
<1>2. QED
  BY Invariance, <1>1, PTL

(* wq_prepare, wq_finish, schedule() and do_exit between them never lose a *)
(* task: it runs, is ready, or is on the one wait queue it sleeps on.      *)
THEOREM TasksNeverLost == Spec => []NoTaskLost
<1>1. IInv => NoTaskLost
  BY DEF IInv, RunnableQueued, WaitersParked, NoTaskLost
<1>2. QED
  BY Invariance, <1>1, PTL

(* fork, exit with reparenting and task_release keep the family tree       *)
(* consistent, for any number of tasks.                                    *)
THEOREM FamilyCorrect == Spec => []FamilyConsistent
<1>1. IInv => FamilyConsistent
  BY DEF IInv
<1>2. QED
  BY Invariance, <1>1, PTL

(* A pid is held by exactly the tasks that exist, also when fork fails     *)
(* halfway, so no two tasks have the same pid.                             *)
THEOREM PidsCorrect == Spec => []PidsMatchTasks
<1>1. IInv => PidsMatchTasks
  BY SMTT(30) DEF IInv
<1>2. QED
  BY Invariance, <1>1, PTL

(* The wake-up of do_exit is never lost on a parent parked in waitpid.     *)
THEOREM WakeupsNeverLost == Spec => []NoLostChildWakeup
<1>1. IInv => NoLostChildWakeup
  <2> SUFFICES ASSUME IInv, NEW t \in Task \ {KitoxD}, t \in Range(wq[t])
               PROVE  /\ Matches(t, waitfor[t]) = {}
                      /\ \E c \in Range(children[t]) :
                           waitfor[t] \in {-1, c} /\ state[c] # "ZOMBIE"
    BY DEF NoLostChildWakeup
  <2>1. /\ \A c \in Range(children[t]) : waitfor[t] \in {-1, c} => state[c] # "ZOMBIE"
        /\ \E c \in Range(children[t]) : waitfor[t] \in {-1, c}
    BY DEF IInv, WakeupsKept
  <2>2. \A i \in DOMAIN children[t] : children[t][i] \in Range(children[t])
    BY DEF Range
  <2>3. QED
    BY <2>1, <2>2 DEF Matches
<1>2. QED
  BY Invariance, <1>1, PTL

(* A zombie stays one until its parent's waitpid releases it: no wake-up,  *)
(* signal or scheduling step revives or frees it.                          *)
THEOREM ZombiesDead == Spec => ZombiesStayDead
<1>1. IInv /\ [Next]_vars => [ZombieRelease]_vars
  BY StepSound
<1>2. QED
  BY Invariance, <1>1, PTL DEF Spec, ZombiesStayDead
=============================================================================
