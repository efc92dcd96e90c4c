----------------------------- MODULE MCUserTask ------------------------------
(***************************************************************************)
(* What the kernel keeps in and about the user half of a task, for TLC:    *)
(* its lists of areas, and the frames of its signals.  They share no       *)
(* state: a behaviour is about one of them, `part`, and the variables of   *)
(* the other keep their value.                                             *)
(*   - areas:   five pages of a task, and seven pages and a half of        *)
(*     vmalloc, whose range does not end on a page;                        *)
(*   - signals: the stack takes two frames, with and without padding for   *)
(*     the alignment; a third kills the task.                              *)
(***************************************************************************)
EXTENDS Vma, SigFrame

VARIABLE part

MCArena == [task    |-> [end |-> 16, frames |-> 3, tables |-> 2, sizes |-> {1, 3, 4}],
            vmalloc |-> [end |-> 21, frames |-> 5, tables |-> 3, sizes |-> {2, 3, 6}]]

UserVars == <<part, vmaVars, sigVars>>

UserInit ==
  \/ part = "areas"   /\ VmaInit /\ SigInit
  \/ part = "signals" /\ SigInit /\ VmaInit /\ client = "task"

UserNext ==
  \/ part = "areas"   /\ VmaNext /\ UNCHANGED <<part, sigVars>>
  \/ part = "signals" /\ SigNext /\ UNCHANGED <<part, vmaVars>>

\* The fairness of SigSpec, for the behaviours that are about signals
UserSpec ==
  /\ UserInit /\ [][UserNext]_UserVars
  /\ WF_sigVars(part = "signals" /\ Tick)
  /\ WF_sigVars(part = "signals" /\ Trampoline)
  /\ WF_sigVars(part = "signals" /\ HandlerReturns)
=============================================================================
