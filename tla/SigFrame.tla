------------------------------ MODULE SigFrame ------------------------------
(***************************************************************************)
(* Signal handlers that run in ring 3: signal_call_curtask_handlers puts a *)
(* struct sigframe on the user stack and points the trap frame of the      *)
(* kernel stack at the handler; the handler returns to the trampoline,     *)
(* which calls sigreturn, which copies the saved frame back.               *)
(*                                                                         *)
(* One task, its user stack word by word, and the program on it: a main    *)
(* program that computes, pushes, pops and makes system calls, and         *)
(* handlers that use the stack and the registers as they like and return.  *)
(* Of the registers eip, esp and eax are kept.  Signals without a user     *)
(* handler are in module Process.                                          *)
(***************************************************************************)
EXTENDS Integers, Sequences, FiniteSetsExt

CONSTANTS
  Sigs,       \* signals with a user handler
  StackTop,   \* the stack is the words 0 .. StackTop - 1, below it nothing is mapped
  MainWords,  \* words the main program has on the stack at most
  Locals,     \* words a handler pushes at most
  MaxSends    \* signals sent in a behaviour

ASSUME SigFrameAssumptions ==
  /\ Sigs \subseteq 1 .. 31 /\ StackTop \in Nat /\ MainWords \in 0 .. StackTop
  /\ Locals \in Nat /\ MaxSends \in Nat

VARIABLES
  u,        \* the registers; while a call is blocked, its trap frame
  where,    \* "user", "blocked" in a system call, or "dead"
  stack,    \* the words of the user stack
  pending,  \* signals_map
  sent,     \* signals sent so far
  main,     \* ghost: the registers as the main program left them
  acts      \* ghost: the handlers not yet returned, [base, ctx, used]

sigVars == <<u, where, stack, pending, sent, main, acts>>

Main == {1, 2}                  \* eip in the main program
HANDLER == 3
TRAMPOLINE == 4                 \* USER_TRAMPOLINE_VADDR
NR == 10                        \* eax on entry of a call, the number of the call
RES == 11                       \* its result
JUNK == 12                      \* what a handler leaves in eax
SIGFRAME == 5                   \* sizeof(struct sigframe): ret_addr, sig_num, tf_backup
ESP_ALIGN == 4                  \* in words
Own(a) == 100 + a               \* what the main program pushes at address a

SigInit ==
  /\ u = [eip |-> 1, esp |-> StackTop, eax |-> 0]
  /\ main = u /\ where = "user"
  /\ stack = [a \in 0 .. StackTop - 1 |-> 0]
  /\ pending = {} /\ sent = 0 /\ acts = <<>>
-----------------------------------------------------------------------------
(* copy_to_user and copy_from_user succeed exactly when the words are      *)
(* mapped (CopyChecksRange of module PageTables).                          *)
Mapped(a, n) == a >= 0 /\ a + n =< StackTop

NewEsp_RoundsUp(esp) == (esp - SIGFRAME + ESP_ALIGN) - ((esp - SIGFRAME) % ESP_ALIGN)

\* ALIGN_DOWN(user_esp - sizeof(struct sigframe), ESP_ALIGN)
NewEsp(esp) == (esp - SIGFRAME) - ((esp - SIGFRAME) % ESP_ALIGN)

(* signal_call_curtask_handlers: the lowest pending signal is taken, the   *)
(* trap frame saved on the user stack and redirected; when the stack is    *)
(* full the task exits.  k is the state inside the kernel.                 *)
signal_call_curtask_handlers(k) ==
  IF k.dead \/ k.pending = {} THEN k
  ELSE LET sig  == Min(k.pending)
           base == NewEsp(k.tf.esp)
           sf   == <<TRAMPOLINE, sig, k.tf.eip, k.tf.esp, k.tf.eax>>
       IN  IF ~Mapped(base, SIGFRAME)
           THEN [k EXCEPT !.pending = @ \ {sig}, !.dead = TRUE]
           ELSE [k EXCEPT
                  !.pending = @ \ {sig},
                  !.stack = [a \in DOMAIN @ |-> IF a \in base .. base + SIGFRAME - 1
                                                THEN sf[a - base + 1] ELSE @[a]],
                  !.tf = [eip |-> HANDLER, esp |-> base, eax |-> @.eax],
                  !.acts = Append(@, [base |-> base, ctx |-> k.tf, used |-> 0])]

Kernel(frame) == [tf |-> frame, stack |-> stack, pending |-> pending, acts |-> acts, dead |-> FALSE]

\* interrupt_exit: signals once more, then the registers are popped
interrupt_exit(k) ==
  LET r == signal_call_curtask_handlers(k)
  IN  /\ stack' = r.stack /\ pending' = r.pending /\ acts' = r.acts
      /\ where' = IF r.dead THEN "dead" ELSE "user"
      /\ u' = IF r.dead THEN u ELSE r.tf
      /\ sent' = sent
-----------------------------------------------------------------------------
\* Another task, the shell or the kernel sends a signal
Send(s) ==
  /\ where # "dead" /\ sent < MaxSends
  /\ pending' = pending \cup {s} /\ sent' = sent + 1
  /\ UNCHANGED <<u, where, stack, main, acts>>

\* An interrupt without a switch: the handler returns to interrupt_exit
Interrupt ==
  /\ where = "user" /\ pending # {}
  /\ interrupt_exit(Kernel(u)) /\ main' = main

\* A tick that calls schedule: signals are taken there, and again at interrupt_exit
Tick ==
  /\ where = "user" /\ pending # {}
  /\ interrupt_exit(signal_call_curtask_handlers(Kernel(u))) /\ main' = main

InMain == where = "user" /\ u.eip \in Main

\* do_syscall for a call that does not block: the result goes to the frame
Syscall ==
  /\ InMain
  /\ interrupt_exit(Kernel([u EXCEPT !.eax = RES]))
  /\ main' = [u EXCEPT !.eax = RES]

\* sleep or waitpid gives up the processor
Block ==
  /\ InMain
  /\ u' = [u EXCEPT !.eax = NR] /\ main' = u' /\ where' = "blocked"
  /\ UNCHANGED <<stack, pending, sent, acts>>

(* It wakes up in schedule, where signals are taken, and only then does    *)
(* do_syscall store the result in the frame: after a signal that is the    *)
(* frame of the handler, and the main program goes on with eax as it was   *)
(* on entry.                                                               *)
WakeUp ==
  /\ where = "blocked"
  /\ LET k == signal_call_curtask_handlers(Kernel(u))
     IN  interrupt_exit([k EXCEPT !.tf.eax = RES])
  /\ main' = IF pending = {} /\ acts = <<>> THEN [main EXCEPT !.eax = RES] ELSE main

(* waitpid, woken by a signal, has taken it in schedule and parks again:   *)
(* the frames of several signals come on the stack before it returns.      *)
WaitsAgain ==
  /\ where = "blocked" /\ pending # {}
  /\ LET k == signal_call_curtask_handlers(Kernel(u))
     IN  /\ stack' = k.stack /\ pending' = k.pending /\ acts' = k.acts
         /\ where' = IF k.dead THEN "dead" ELSE "blocked"
         /\ u' = IF k.dead THEN u ELSE k.tf
  /\ UNCHANGED <<sent, main>>

sigreturn_Zero(k) ==
  LET b == k.tf.esp - 1
  IN  IF ~Mapped(b + 2, SIGFRAME - 2) THEN [k EXCEPT !.dead = TRUE]
      ELSE [k EXCEPT !.tf = [eip |-> k.stack[b + 2], esp |-> k.stack[b + 3], eax |-> 0],
                     !.acts = SubSeq(@, 1, Len(@) - 1)]

sigreturn_Shifted(k) ==
  LET b == k.tf.esp
  IN  IF ~Mapped(b + 2, SIGFRAME - 2) THEN [k EXCEPT !.dead = TRUE]
      ELSE [k EXCEPT !.tf = [eip |-> k.stack[b + 2], esp |-> k.stack[b + 3], eax |-> k.stack[b + 4]],
                     !.acts = SubSeq(@, 1, Len(@) - 1)]

(* sigreturn: user_esp points at sig_num of the frame, whose tf_backup     *)
(* becomes the trap frame; its eax is the value the call returns.          *)
sigreturn(k) ==
  LET b == k.tf.esp - 1
  IN  IF ~Mapped(b + 2, SIGFRAME - 2) THEN [k EXCEPT !.dead = TRUE]
      ELSE [k EXCEPT !.tf = [eip |-> k.stack[b + 2], esp |-> k.stack[b + 3], eax |-> k.stack[b + 4]],
                     !.acts = SubSeq(@, 1, Len(@) - 1)]

\* The two instructions of the trampoline
Trampoline ==
  /\ where = "user" /\ u.eip = TRAMPOLINE
  /\ interrupt_exit(sigreturn(Kernel([u EXCEPT !.eax = 119])))
  /\ main' = main
-----------------------------------------------------------------------------
(* The program.  The main program computes, pushes and pops; a handler     *)
(* ruins eax, pushes locals, drops them and returns through ret_addr.      *)
MainComputes ==
  /\ InMain
  /\ u' = [u EXCEPT !.eip = 3 - @, !.eax = 0] /\ main' = u'
  /\ UNCHANGED <<where, stack, pending, sent, acts>>

MainPushes ==
  /\ InMain /\ u.esp > StackTop - MainWords
  /\ u' = [u EXCEPT !.esp = @ - 1] /\ main' = u'
  /\ stack' = [stack EXCEPT ![u.esp - 1] = Own(u.esp - 1)]
  /\ UNCHANGED <<where, pending, sent, acts>>

MainPops ==
  /\ InMain /\ u.esp < StackTop
  /\ u' = [u EXCEPT !.esp = @ + 1] /\ main' = u'
  /\ UNCHANGED <<where, stack, pending, sent, acts>>

InHandler == where = "user" /\ u.eip = HANDLER

HandlerPushes ==
  /\ InHandler /\ acts[Len(acts)].used < Locals /\ u.esp > 0
  /\ u' = [u EXCEPT !.esp = @ - 1, !.eax = JUNK]
  /\ stack' = [stack EXCEPT ![u.esp - 1] = 0]
  /\ acts' = [acts EXCEPT ![Len(acts)].used = @ + 1]
  /\ UNCHANGED <<where, pending, sent, main>>

HandlerReturns ==
  /\ InHandler
  /\ LET ret == u.esp + acts[Len(acts)].used
     IN  u' = [eip |-> stack[ret], esp |-> ret + 1, eax |-> JUNK]
  /\ UNCHANGED <<where, stack, pending, sent, main, acts>>

SigNext ==
  \/ \E s \in Sigs : Send(s)
  \/ Interrupt \/ Tick \/ Syscall \/ Block \/ WakeUp \/ WaitsAgain \/ Trampoline
  \/ MainComputes \/ MainPushes \/ MainPops \/ HandlerPushes \/ HandlerReturns

(* The timer keeps ticking, handlers return and the trampoline runs on, as *)
(* the program does while it has the processor.  A blocked call need not   *)
(* return.                                                                 *)
Fairness ==
  /\ WF_sigVars(Tick)
  /\ WF_sigVars(Trampoline) /\ WF_sigVars(HandlerReturns)

SigSpec == SigInit /\ [][SigNext]_sigVars /\ Fairness
-----------------------------------------------------------------------------
(* Handlers are transparent: whenever the main program has the processor,  *)
(* its registers are as it left them, however many handlers ran in         *)
(* between, one inside the other, at an interrupt, at the end of a call or *)
(* in the trampoline of another.  eax after a call is its result, unless a *)
(* signal was taken while the call was blocked: then the result is lost    *)
(* and the number of the call is still there (signal.c:159,                *)
(* do_syscall.c:17).                                                       *)
Transparent == InMain => u = main

(* Neither the frames of signals nor what handlers push touches the words  *)
(* the main program has on its stack (signal.c:149).                       *)
StackKept == \A a \in main.esp .. StackTop - 1 : stack[a] = Own(a)

(* The saved frame of every handler that has not returned is intact, and   *)
(* so is its way back: later frames, a handler interrupted in the          *)
(* trampoline included, lie below it (signal.c:149-160).                   *)
FramesIntact ==
  \A k \in 1 .. Len(acts) :
    LET b == acts[k].base
    IN  /\ <<stack[b + 2], stack[b + 3], stack[b + 4]>>
             = <<acts[k].ctx.eip, acts[k].ctx.esp, acts[k].ctx.eax>>
        /\ k < Len(acts) => acts[k + 1].base + SIGFRAME =< b + 1

(* A task in handlers gets back to its main program, or dies of a full     *)
(* stack: sigreturn finds the frame that was saved, from the address the   *)
(* handler's return leaves in esp (sigreturn.c:19).                        *)
HandlersEnd == (where = "user" /\ ~InMain) ~> (InMain \/ where = "dead")
=============================================================================
