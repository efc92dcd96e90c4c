------------------------------- MODULE Process -------------------------------
(***************************************************************************)
(* The process core of the kernel: the task table and its pid manager, the *)
(* round-robin scheduler, the wait queues, the timer tick, fork, exit,     *)
(* waitpid, sleep, kill and signal delivery.                               *)
(*                                                                         *)
(* The machine has one processor and every gate clears IF, so kernel code  *)
(* runs without interruption from its entry to the next switch_to or iret. *)
(* A handler without a loop or a switch inside is one action.  The others  *)
(* continue from where kctx[t] says task t stands in the kernel:           *)
(*   "user"      outside the kernel, IF = 1 (ring 3, idle loop, boot code) *)
(*   "tick"      in task_wake_up_sleepers, called by timer_handle          *)
(*   "waitloop"  at the top of the loop of waitpid                         *)
(*   "iret"      at interrupt_exit                                         *)
(*   "kern"      in the body of a ring-0 task, IF = 0                      *)
(*   "preempted", "waiting", "sleeping", "ksleeping"                       *)
(*               switched out inside schedule(), called by timer_handle,   *)
(*               waitpid, sys_sleep, or timer_ksleep of a ring-0 task      *)
(*   "dead"      never runs again, or no task has this pid                 *)
(* Only the current task takes kernel steps, and the actions that start    *)
(* with an interrupt or a trap need it to be in "user".                    *)
(*                                                                         *)
(* A task is its pid.  User programs are arbitrary: a ring-3 task may make *)
(* any system call at any time; kitoxD is the one program that is given,   *)
(* in fn_mok.s.  A name such as Unpark_KeepsNode is a faulty variant of    *)
(* Unpark, used only to confirm that a property detects the fault.         *)
(***************************************************************************)
EXTENDS IdOps, FiniteSetsExt, Lists

CONSTANTS MaxPid,        \* pids are 0 .. MaxPid - 1 (PID_MAX)
          Quantum,       \* DEFAULT_QUANTUM, in ticks
          TickMod,       \* global_ticks wraps modulo this (2^32 in the code)
          SleepTicks,    \* the durations tasks sleep for, in ticks
          Sigs,          \* the signals tasks send
          ShellTasks     \* what the shell starts: "iret" (ring 3), "kern" (ring 0)

ASSUME ProcessAssumptions ==
  /\ MaxPid \in Nat /\ MaxPid >= 2
  /\ Quantum \in Nat \ {0}
  /\ TickMod \in Nat \ {0}
  /\ SleepTicks \subseteq Nat
  /\ Sigs \subseteq 1 .. 31
  /\ ShellTasks \subseteq {"iret", "kern"}

SIGKILL == 9
SIGSTOP == 19
SIG_IGN_MASK == {16, 17, 18, 19, 20, 21, 22, 23, 28, 29, 30}

Task    == 0 .. MaxPid - 1
Idle    == 0
KitoxD  == 1
Dummy   == -1                      \* the boot thread, outside the task table
Thread  == Task \cup {Dummy}
NULL    == -1
SleepWq == -1                      \* the key of sleep_wq among the wait queues
Queues  == Task \cup {SleepWq}

VARIABLES
  current,    \* current_task
  state,      \* task->state, "FREE" for a pid without a task
  ready,      \* ready_queue
  wq,         \* the wait queues: each task's child_wq, and sleep_wq
  parent,     \* task->parent and task->real_parent, always equal
  children,   \* task->children, in list order
  info,       \* info_queue, what ps lists and kill searches
  sigs,       \* task->signals_map
  caught,     \* the signals for which the task has installed a handler
  kctx,       \* where the task stands in the kernel
  waitfor,    \* the pid argument of a waitpid in progress, 0 when none is
  wake,       \* task->tick_to_wake
  ticks,      \* global_ticks
  quantum,    \* quantum_remaining of the current task
  pids,       \* pid_manager
  spawned     \* register esi of kitoxD: the forks it has made

sched  == <<current, ready, quantum>>
family == <<parent, children>>
sleep  == <<wake, ticks>>
signal == <<sigs, caught>>
table  == <<info, pids, spawned>>
vars   == <<sched, state, wq, family, signal, kctx, waitfor, sleep, table>>
-----------------------------------------------------------------------------
(* Lists *)

Parked(t) == \E q \in Queues : t \in Range(wq[q])

sched_enqueue_AtHead(rq, t) == IF t \in Range(rq) THEN rq ELSE list_add_head(t, rq)

\* sched_enqueue on ready queue rq: a task that is already linked is refused
sched_enqueue(rq, t) == IF t \in Range(rq) THEN rq ELSE Append(rq, t)

schedule_QueuesIdle(st, rq) ==
  LET q == IF current # Dummy /\ st[current] = "RUNNING"
           THEN sched_enqueue(rq, current) ELSE rq
  IN  /\ quantum' = Quantum
      /\ IF q = <<>>
         THEN current' = Idle /\ ready' = q /\ state' = [st EXCEPT ![Idle] = "RUNNING"]
         ELSE current' = Head(q) /\ ready' = Tail(q) /\ state' = st

(* schedule() with task states st and ready queue rq: a running task goes  *)
(* to the tail, the head is taken, or idle when the queue is empty.        *)
schedule(st, rq) ==
  LET q == IF current \notin {Idle, Dummy} /\ st[current] = "RUNNING"
           THEN sched_enqueue(rq, current) ELSE rq
  IN  /\ quantum' = Quantum
      /\ IF q = <<>>
         THEN current' = Idle /\ ready' = q /\ state' = [st EXCEPT ![Idle] = "RUNNING"]
         ELSE current' = Head(q) /\ ready' = Tail(q) /\ state' = st

Unpark_KeepsNode(t) == wq

\* The wait queues once t is unlinked from the one it is on
Unpark(t) == [q \in Queues |-> Unlink(wq[q], t)]

wq_finish_Unchecked(t) ==
  /\ wq' = Unpark(t)
  /\ state' = [state EXCEPT ![t] = "RUNNING"]
  /\ ready' = sched_enqueue(ready, t)

wq_finish(t) ==
  IF Parked(t)
  THEN /\ wq' = Unpark(t)
       /\ state' = [state EXCEPT ![t] = "RUNNING"]
       /\ ready' = sched_enqueue(ready, t)
  ELSE UNCHANGED <<wq, state, ready>>

Block_StillRunning(q, ctx) ==
  /\ wq' = [Unpark(current) EXCEPT ![q] = list_add_head(current, @)]
  /\ schedule(state, Unlink(ready, current))
  /\ kctx' = [kctx EXCEPT ![current] = ctx]

(* wq_prepare on queue q, then schedule(), from which the current task     *)
(* will come back in context ctx.                                          *)
Block(q, ctx) ==
  /\ wq' = [Unpark(current) EXCEPT ![q] = list_add_head(current, @)]
  /\ schedule([state EXCEPT ![current] = "WAITING"], Unlink(ready, current))
  /\ kctx' = [kctx EXCEPT ![current] = ctx]

GoTo(ctx) == kctx' = [kctx EXCEPT ![current] = ctx]
-----------------------------------------------------------------------------
(* Boot *)

(* After task_init_process: idle and kitoxD exist, kitoxD is queued and    *)
(* the boot thread is current.                                             *)
Init ==
  /\ current = Dummy
  /\ state = [t \in Task |-> CASE t = Idle -> "NEW" [] t = KitoxD -> "RUNNING" [] OTHER -> "FREE"]
  /\ ready = <<KitoxD>>
  /\ wq = [q \in Queues |-> <<>>]
  /\ parent = [t \in Task |-> NULL]
  /\ children = [t \in Task |-> <<>>]
  /\ info = {Idle, KitoxD}
  /\ sigs = [t \in Thread |-> {}]
  /\ caught = [t \in Thread |-> {}]
  /\ kctx = [t \in Thread |->
               CASE t \in {Idle, Dummy} -> "user" [] t = KitoxD -> "iret" [] OTHER -> "dead"]
  /\ waitfor = [t \in Task |-> 0]
  /\ wake = [t \in Task |-> 0]
  /\ ticks = 0
  /\ quantum = Quantum
  /\ pids = id_manager_alloc(id_manager_alloc(id_manager_create, MaxPid), MaxPid)
  /\ spawned = 0

\* The last call of init(): the boot thread gives up the processor for good.
BootSchedule ==
  /\ current = Dummy /\ kctx[Dummy] = "user"
  /\ schedule(state, ready)
  /\ GoTo("dead")
  /\ UNCHANGED <<wq, family, signal, waitfor, sleep, table>>
-----------------------------------------------------------------------------
(* Creating tasks *)

\* The fields of a new task c with parent p that starts in context ctx
NewTask(c, p, ctx) ==
  /\ pids' = id_manager_alloc(pids, MaxPid)
  /\ state' = [state EXCEPT ![c] = "RUNNING"]
  /\ ready' = sched_enqueue(ready, c)
  /\ parent' = [parent EXCEPT ![c] = p]
  /\ children' = [children EXCEPT ![p] = list_add_head(c, @)]
  /\ kctx' = [kctx EXCEPT ![current] = "iret", ![c] = ctx]

\* The program of kitoxD (fn_mok.s): two forks, then waitpid(-1) for ever
MayFork == current # KitoxD \/ spawned < 2
Counted == spawned' = IF current = KitoxD THEN spawned + 1 ELSE spawned

\* The current task is outside the kernel in ring 3.
InRing3 == current \notin {Idle, Dummy} /\ kctx[current] = "user"

(* fork: the child is a copy, pending signals and handlers included, and   *)
(* starts at interrupt_exit.  It is not put on info_queue.                 *)
Fork ==
  /\ InRing3 /\ MayFork /\ pids.next_free # -1
  /\ LET c == pids.next_free
     IN  /\ NewTask(c, current, "iret")
         /\ sigs' = [sigs EXCEPT ![c] = sigs[current]]
         /\ caught' = [caught EXCEPT ![c] = caught[current]]
         /\ wake' = [wake EXCEPT ![c] = wake[current]]
  /\ Counted
  /\ UNCHANGED <<current, quantum, wq, waitfor, ticks, info>>

ForkFails_KeepsPid ==
  /\ InRing3 /\ MayFork
  /\ pids' = IF pids.next_free = -1 THEN pids ELSE id_manager_alloc(pids, MaxPid)
  /\ GoTo("iret")
  /\ Counted
  /\ UNCHANGED <<sched, state, wq, family, signal, waitfor, sleep, info>>

(* fork returns -ENOMEM: no pid is left, or memory runs out after the pid  *)
(* was taken and it is given back.                                         *)
ForkFails ==
  /\ InRing3 /\ MayFork
  /\ pids' = IF pids.next_free = -1 THEN pids
             ELSE id_manager_free(id_manager_alloc(pids, MaxPid), MaxPid, pids.next_free)
  /\ GoTo("iret")
  /\ Counted
  /\ UNCHANGED <<sched, state, wq, family, signal, waitfor, sleep, info>>

(* A shell command in the keyboard interrupt starts a task (exec_fn): a    *)
(* child of kitoxD with default handlers, listed on info_queue.            *)
ShellExec(ctx) ==
  /\ kctx[current] = "user" /\ pids.next_free # -1
  /\ LET c == pids.next_free
     IN  /\ NewTask(c, KitoxD, ctx)
         /\ info' = info \cup {c}
  /\ UNCHANGED <<current, quantum, wq, signal, waitfor, sleep, spawned>>

(* Any other interrupt or system call, which changes nothing here and      *)
(* leaves through interrupt_exit: write, mmap, a refused argument...  (An  *)
(* exception such as a page fault returns without it, isr.s: a stuttering  *)
(* step, which delivers no signal.)                                        *)
OtherTrap ==
  /\ kctx[current] = "user"
  /\ GoTo("iret")
  /\ UNCHANGED <<sched, state, wq, family, signal, waitfor, sleep, table>>
-----------------------------------------------------------------------------
(* Exit *)

do_exit_NoReparent(rest) ==
  LET p   == parent[current]
      st  == [t \in Task |-> CASE t = current -> "ZOMBIE"
                               [] t \in Range(wq[p]) -> "RUNNING"
                               [] OTHER -> state[t]]
  IN  /\ wq' = [wq EXCEPT ![p] = <<>>]
      /\ schedule(st, Unlink(ready, current) \o wq[p])
      /\ GoTo("dead")
      /\ sigs' = [sigs EXCEPT ![current] = rest]
      /\ UNCHANGED <<family, caught, waitfor, sleep, table>>

do_exit_NoWake(rest) ==
  /\ parent' = [t \in Task |-> IF t \in Range(children[current]) THEN KitoxD ELSE parent[t]]
  /\ children' = [children EXCEPT ![current] = <<>>,
                                  ![KitoxD] = Reversed(children[current]) \o @]
  /\ schedule([state EXCEPT ![current] = "ZOMBIE"], Unlink(ready, current))
  /\ GoTo("dead")
  /\ sigs' = [sigs EXCEPT ![current] = rest]
  /\ UNCHANGED <<wq, caught, waitfor, sleep, table>>

(* do_exit of the current task, whose pending signals are then `rest`:     *)
(* its children go to kitoxD one by one, each to the head of the list, the *)
(* parent's child_wq is woken, and the processor is given away.            *)
do_exit(rest) ==
  LET p   == parent[current]
      st  == [t \in Task |-> CASE t = current -> "ZOMBIE"
                               [] t \in Range(wq[p]) -> "RUNNING"
                               [] OTHER -> state[t]]
  IN  /\ parent' = [t \in Task |-> IF t \in Range(children[current]) THEN KitoxD ELSE parent[t]]
      /\ children' = [children EXCEPT ![current] = <<>>,
                                      ![KitoxD] = Reversed(children[current]) \o @]
      /\ wq' = [wq EXCEPT ![p] = <<>>]
      /\ schedule(st, Unlink(ready, current) \o wq[p])
      /\ GoTo("dead")
      /\ sigs' = [sigs EXCEPT ![current] = rest]
      /\ UNCHANGED <<caught, waitfor, sleep, table>>

\* The exit system call
Exit ==
  /\ InRing3 /\ current # KitoxD
  /\ do_exit(sigs[current])

\* A ring-0 task ends.
KernExit ==
  /\ kctx[current] = "kern"
  /\ do_exit(sigs[current])
-----------------------------------------------------------------------------
(* Signals *)

(* kill_pid, from the kill system call or the shell's kill command: only a *)
(* task on info_queue is found.  A parked target is woken, whatever the    *)
(* signal and its handler.                                                 *)
Kill(t, sig) ==
  /\ kctx[current] = "user" /\ t \in info
  /\ sigs' = [sigs EXCEPT ![t] = @ \cup {sig}]
  /\ wq_finish(t)
  /\ GoTo("iret")
  /\ UNCHANGED <<current, quantum, family, caught, waitfor, sleep, table>>

Signal_Any(sig) ==
  /\ InRing3 /\ current # KitoxD
  /\ caught' = [caught EXCEPT ![current] = @ \cup {sig}]
  /\ GoTo("iret")
  /\ UNCHANGED <<sched, state, wq, family, sigs, waitfor, sleep, table>>

\* The signal system call: a handler in user space, which nothing removes.
Signal(sig) ==
  /\ InRing3 /\ current # KitoxD /\ sig \notin {SIGKILL, SIGSTOP}
  /\ caught' = [caught EXCEPT ![current] = @ \cup {sig}]
  /\ GoTo("iret")
  /\ UNCHANGED <<sched, state, wq, family, sigs, waitfor, sleep, table>>

(* signal_call_curtask_handlers goes through the pending signals from the  *)
(* lowest and stops at the first one that kills or has a user handler.     *)
Stops ==
  {s \in sigs[current] :
     s \in caught[current] \/ (current > KitoxD /\ s \notin SIG_IGN_MASK)}
AfterStop == {s \in sigs[current] : s > Min(Stops)}

\* The current task goes on: no signal stopped it, or a user handler is set up.
Survives ==
  \/ /\ Stops = {}
     /\ sigs' = [sigs EXCEPT ![current] = {}]
  \/ /\ Stops # {} /\ Min(Stops) \in caught[current]
     /\ sigs' = [sigs EXCEPT ![current] = AfterStop]

\* It dies: by the default handler, or as its signal frame cannot be written.
Dies == Stops # {} /\ do_exit(AfterStop)

\* interrupt_exit
Iret ==
  /\ kctx[current] = "iret"
  /\ \/ /\ Survives
        /\ GoTo("user")
        /\ UNCHANGED <<sched, state, wq, family, caught, waitfor, sleep, table>>
     \/ Dies

(* switch_to has returned to a task that was switched out: schedule()      *)
(* delivers its signals and returns to its caller.                         *)
Resume ==
  /\ kctx[current] \in {"preempted", "waiting", "sleeping", "ksleeping"}
  /\ \/ /\ Survives
        /\ GoTo(CASE kctx[current] \in {"preempted", "sleeping"} -> "iret"
                  [] kctx[current] = "waiting" -> "waitloop"
                  [] kctx[current] = "ksleeping" -> "kern")
        /\ wake' = IF kctx[current] \in {"sleeping", "ksleeping"}
                   THEN [wake EXCEPT ![current] = 0] ELSE wake
        /\ UNCHANGED <<sched, state, wq, family, caught, waitfor, ticks, table>>
     \/ Dies
-----------------------------------------------------------------------------
(* waitpid *)

Waitpid(p) ==
  /\ InRing3 /\ (current = KitoxD => p = -1 /\ spawned >= 2)
  /\ waitfor' = [waitfor EXCEPT ![current] = p]
  /\ GoTo("waitloop")
  /\ UNCHANGED <<sched, state, wq, family, signal, sleep, table>>

\* The positions in the caller's list of children of the zombies it waits for
Matches(t, p) ==
  {i \in DOMAIN children[t] : /\ state[children[t][i]] = "ZOMBIE"
                              /\ p \in {-1, children[t][i]}}
Reapable == Matches(current, waitfor[current])

NoSuchChild_EmptyOnly == children[current] = <<>> /\ current # KitoxD

\* The caller has no such child; kitoxD never gets -ECHILD for want of children.
NoSuchChild ==
  LET C == Range(children[current])
  IN  IF C = {} THEN current # KitoxD
      ELSE waitfor[current] > 0 /\ waitfor[current] \notin C

\* waitpid returns -ECHILD, or -EFAULT when the status cannot be written.
WaitError ==
  /\ kctx[current] = "waitloop"
  /\ NoSuchChild \/ Reapable # {}
  /\ waitfor' = [waitfor EXCEPT ![current] = 0]
  /\ GoTo("iret")
  /\ UNCHANGED <<sched, state, wq, family, signal, sleep, table>>

\* waitpid releases the first matching zombie of the list (task_release).
Reap ==
  /\ kctx[current] = "waitloop" /\ ~NoSuchChild /\ Reapable # {}
  /\ LET z == children[current][Min(Reapable)]
     IN  /\ children' = [children EXCEPT ![current] = Unlink(@, z)]
         /\ info' = info \ {z}
         /\ pids' = id_manager_free(pids, MaxPid, z)
         /\ state' = [state EXCEPT ![z] = "FREE"]
         /\ parent' = [parent EXCEPT ![z] = NULL]
         /\ sigs' = [sigs EXCEPT ![z] = {}]
         /\ caught' = [caught EXCEPT ![z] = {}]
         /\ wake' = [wake EXCEPT ![z] = 0]
         /\ waitfor' = [waitfor EXCEPT ![z] = 0, ![current] = 0]
  /\ GoTo("iret")
  /\ UNCHANGED <<sched, wq, ticks, spawned>>

WaitBlock ==
  /\ kctx[current] = "waitloop" /\ ~NoSuchChild /\ Reapable = {}
  /\ Block(current, "waiting")
  /\ UNCHANGED <<family, signal, waitfor, sleep, table>>
-----------------------------------------------------------------------------
(* The timer *)

\* timer_ksleep for d ticks, from the sleep system call or from a ring-0 task
ksleep(d, ctx) ==
  /\ wake' = [wake EXCEPT ![current] = (ticks + d) % TickMod]
  /\ Block(SleepWq, ctx)
  /\ UNCHANGED <<family, signal, waitfor, ticks, table>>

Sleep(d)     == InRing3 /\ current # KitoxD /\ ksleep(d, "sleeping")
KernSleep(d) == kctx[current] = "kern" /\ ksleep(d, "ksleeping")

TimerIrq ==
  /\ kctx[current] = "user"
  /\ ticks' = (ticks + 1) % TickMod
  /\ GoTo("tick")
  /\ UNCHANGED <<sched, state, wq, family, signal, waitfor, wake, table>>

Expired_Strictly == {i \in DOMAIN wq[SleepWq] : wake[wq[SleepWq][i]] < ticks}

\* The positions in sleep_wq of the sleepers whose time has come
Expired == {i \in DOMAIN wq[SleepWq] : wake[wq[SleepWq][i]] =< ticks}

\* One wake-up by task_wake_up_sleepers, in list order
WakeSleeper ==
  /\ kctx[current] = "tick" /\ Expired # {}
  /\ wq_finish(wq[SleepWq][Min(Expired)])
  /\ UNCHANGED <<current, quantum, family, signal, kctx, waitfor, sleep, table>>

(* timer_handle after the sleepers returns without schedule(): the quantum *)
(* is not used up, or idle is current and schedule() finds nothing to run. *)
(* The boot thread never uses its quantum up: it starts at 0 and wraps.    *)
TimerReturn ==
  /\ kctx[current] = "tick" /\ Expired = {}
  /\ \/ current = Dummy /\ UNCHANGED quantum
     \/ current = Idle /\ ready = <<>> /\ UNCHANGED quantum
     \/ current \notin {Idle, Dummy} /\ quantum > 1 /\ quantum' = quantum - 1
  /\ GoTo("iret")
  /\ UNCHANGED <<current, ready, state, wq, family, signal, waitfor, sleep, table>>

\* The quantum is used up, or idle is current and a task is ready.
TimerPreempt ==
  /\ kctx[current] = "tick" /\ Expired = {}
  /\ \/ current = Idle /\ ready # <<>>
     \/ current \notin {Idle, Dummy} /\ quantum =< 1
  /\ schedule(state, ready)
  /\ GoTo("preempted")
  /\ UNCHANGED <<wq, family, signal, waitfor, sleep, table>>
-----------------------------------------------------------------------------
\* What the current task does in the kernel once it has entered it
Kernel ==
  \/ Iret \/ Resume
  \/ WaitError \/ Reap \/ WaitBlock
  \/ WakeSleeper \/ TimerReturn \/ TimerPreempt
  \/ KernExit
  \/ \E d \in SleepTicks : KernSleep(d)

Next ==
  \/ BootSchedule
  \/ Kernel
  \/ TimerIrq
  \/ Fork \/ ForkFails \/ Exit \/ OtherTrap
  \/ \E ctx \in ShellTasks : ShellExec(ctx)
  \/ \E t \in Task, sig \in Sigs : Kill(t, sig)
  \/ \E sig \in Sigs : Signal(sig)
  \/ \E p \in (Task \ {Idle}) \cup {-1} : Waitpid(p)
  \/ \E d \in SleepTicks : Sleep(d)

Spec == Init /\ [][Next]_vars

(* Kernel code runs to its end.  The timer interrupt, which the PIC        *)
(* latches while IF = 0, is taken if IF is set again and again, and init() *)
(* reaches its schedule() although interrupts suspend it again and again.  *)
Fairness == WF_vars(Kernel) /\ SF_vars(BootSchedule) /\ SF_vars(TimerIrq)
FairSpec == Spec /\ Fairness
-----------------------------------------------------------------------------
States   == {"FREE", "NEW", "RUNNING", "WAITING", "ZOMBIE"}
Contexts == {"user", "tick", "waitloop", "iret", "kern", "preempted", "waiting",
             "sleeping", "ksleeping", "dead"}

TypeOK ==
  /\ current \in Thread
  /\ state \in [Task -> States]
  /\ ready \in Seq(Task)
  /\ wq \in [Queues -> Seq(Task)]
  /\ parent \in [Task -> Task \cup {NULL}]
  /\ children \in [Task -> Seq(Task)]
  /\ info \subseteq Task
  /\ sigs \in [Thread -> SUBSET Sigs]
  /\ caught \in [Thread -> SUBSET Sigs]
  /\ kctx \in [Thread -> Contexts]
  /\ waitfor \in [Task -> Task \cup {-1}]
  /\ wake \in [Task -> 0 .. TickMod - 1]
  /\ ticks \in 0 .. TickMod - 1
  /\ quantum \in 1 .. Quantum
  /\ pids \in [bits : SUBSET Task, next_free : Task \cup {-1}]
  /\ spawned \in 0 .. 2

(* What schedule() panics about (scheduler.c:52) never happens: the ready  *)
(* queue holds each task at most once, only tasks in state RUNNING, and    *)
(* neither idle nor the task that has the processor.                       *)
ReadyQueueSound ==
  /\ IsInjective(ready)
  /\ \A t \in Range(ready) : state[t] = "RUNNING" /\ t \notin {current, Idle}
  /\ current # Dummy => state[current] = "RUNNING"

(* No task is lost between the queues: one in state RUNNING is current or  *)
(* ready, one in state WAITING is on exactly one wait queue, once - its    *)
(* own child_wq or sleep_wq - and no other task is on any wait queue.      *)
NoTaskLost ==
  /\ \A t \in Task \ {Idle} :
       state[t] = "RUNNING" => t = current \/ t \in Range(ready)
  /\ \A t \in Task :
       state[t] = "WAITING" <=> t \in Range(wq[t]) \/ t \in Range(wq[SleepWq])
  /\ \A q \in Queues : IsInjective(wq[q])
  /\ \A q \in Task : Range(wq[q]) \subseteq {q} \ Range(wq[SleepWq])

(* What the shell's ps and kill commands say of themselves, "Display       *)
(* existing process." and "Send signal to process." (tty.c): every task    *)
(* that exists is on info_queue, the list they search.                     *)
PsListsEveryTask == \A t \in Task : state[t] # "FREE" => t \in info

(* The family tree is consistent although exits reparent in the middle of  *)
(* it: a task is on the list of children of its parent, once, and on no    *)
(* other, its parent is neither dead nor released, and only idle and       *)
(* kitoxD have none.  do_exit and waitpid rely on it.                      *)
FamilyConsistent ==
  /\ \A p \in Task : IsInjective(children[p])
  /\ \A p, c \in Task : c \in Range(children[p]) <=> parent[c] = p
  /\ \A c \in Task : parent[c] = NULL <=> (c \in {Idle, KitoxD} \/ state[c] = "FREE")
  /\ \A c \in Task : parent[c] # NULL => state[parent[c]] \in {"RUNNING", "WAITING"}

(* waitpid never sleeps through a child's exit: a task parked on its       *)
(* child_wq waits for a child that is still alive, and no child it could   *)
(* reap is already a zombie.  (kitoxD also adopts zombies while parked,    *)
(* and __task_reparent_children does not wake it: it is left out.)         *)
NoLostChildWakeup ==
  \A t \in Task \ {KitoxD} : t \in Range(wq[t]) =>
    /\ Matches(t, waitfor[t]) = {}
    /\ \E c \in Range(children[t]) : waitfor[t] \in {-1, c} /\ state[c] # "ZOMBIE"

(* Exactly the tasks that exist hold a pid, so a pid is recycled only once *)
(* its task is released, and the hint is the lowest pid no task has.       *)
PidsMatchTasks ==
  /\ pids.bits = {t \in Task : state[t] # "FREE"}
  /\ pids.next_free = FirstZeroFrom(pids.bits, MaxPid, 0)

(* A task is dead for good: from its exit to its release no step moves a   *)
(* zombie, and only a waitpid of the parent releases it.                   *)
ZombieRelease ==
  \A t \in Task : state[t] = "ZOMBIE" /\ state'[t] # "ZOMBIE" =>
    /\ state'[t] = "FREE" /\ current = parent[t]
    /\ current' = current /\ kctx[current] = "waitloop"
ZombiesStayDead == [][ZombieRelease]_vars

\* Every task in the ready queue is eventually given the processor.
NoStarvation == \A t \in Task : t \in Range(ready) ~> current = t

\* Every sleeper leaves sleep_wq, even when its wake-up tick has wrapped.
SleepersWake == \A t \in Task : t \in Range(wq[SleepWq]) ~> t \notin Range(wq[SleepWq])

\* A task parked in waitpid that has a handler for a signal below SIGKILL
WaitsAgain(t) == t \in Range(wq[t]) /\ \E s \in caught[t] : s < SIGKILL

(* A task other than idle and kitoxD with SIGKILL pending is eventually    *)
(* dead, be it ready, asleep or in the kernel.  There is one exception:    *)
(* schedule() returns after the first signal that has a user handler, and  *)
(* waitpid then parks again without looking at the others, so that a task  *)
(* that catches a lower signal may wait for its children with SIGKILL      *)
(* pending, until one exits or another signal comes.                       *)
KillKills ==
  \A t \in Task \ {Idle, KitoxD} :
    SIGKILL \in sigs[t] /\ state[t] # "ZOMBIE" ~> state[t] \in {"ZOMBIE", "FREE"} \/ WaitsAgain(t)
=============================================================================
