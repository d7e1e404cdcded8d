---------------------------- MODULE SchedClaims ----------------------------
(***************************************************************************)
(* What the documentation and the comments of the scheduler say of it and  *)
(* the code does not do in every interleaving.  sched_yield() called by a  *)
(* thread runs with interrupts on and no lock held: every one of these     *)
(* fails because a timer interrupt falls between two of its steps, or      *)
(* because of what the tick leaves behind.                                 *)
(*                                                                         *)
(* The last two properties do hold: they bound what those interleavings    *)
(* can do.                                                                 *)
(***************************************************************************)
EXTENDS SchedInv

(* "Removes the oldest waiter and marks it ready if it is still waitable." *)
(* (include/tianole/sched.h): a wakeup copes with a queued thread that the *)
(* timer has made READY already, rather than panic.                        *)
WakesWaitableOnly == fault # "wakeup"

(* "Saved context stack pointer for context switching."                    *)
(* (include/tianole/sched.h): the stack pointer that a switch saves into   *)
(* prev is that of prev's own stack.                                       *)
ContextsSaved == fault # "context_clobbered"

(* Timer-driven rotation of the threads                                    *)
(* (docs/agents/tasks/04-time-scheduler.md): as long as nothing faults, a  *)
(* READY thread gets the CPU.                                              *)
TimerRotates ==
  []Up => \A t \in Threads \ {Idle} : state[t] = "READY" ~> state[t] = "RUNNING"

----------------------------------------------------------------------------
(* A step that faults is in one of these windows.                          *)
FaultWindow ==
  /\ fault' \in {"stack_freed", "context_clobbered"} =>
       here = irq(cpu) /\ pc[thr(cpu)] \in AwayPcs
  /\ fault' \in {"use_after_free", "transition"} => here = thr(cpu)
  /\ fault' = "wakeup" =>
       \E t \in Threads : /\ wait_queue[t] # NoQueue
                          /\ BlockedAt(t, "t_remove")
                          /\ state[t] \in {"READY", "RUNNING"}

(* A thread frees the stack in use, or saves it as the context of another, *)
(* only in a handler that interrupted sched_yield() between its store to   *)
(* current_thread and the context switch.  A freed thread is touched, and  *)
(* a transition is refused, only where a thread acts on what it read with  *)
(* interrupts on, never in the sched_yield() of sched_irq_exit().  A       *)
(* wakeup meets a thread that is not blocked only in a wait with a         *)
(* timeout, which the timer ends without the lock of the queue.            *)
FaultWindows == [][Up => FaultWindow]_vars

(* What FaultWindows rests on beside IInv.  Nothing interrupts the         *)
(* sched_yield() of a handler, so what it read is still true when it is    *)
(* used.                                                                   *)
HandlerInv ==
  /\ pc[irq(cpu)] = "y_reap" => head[irq(cpu)] \in queued \cup {0}
  /\ pc[irq(cpu)] \in {"y_lock", "y_ready", "y_run"} =>
       state[next[irq(cpu)]] = "READY"

(* A thread that was created is on a queue only in a blocking call, and in *)
(* wait_queue_wait() it is WAITING as long as it is.                       *)
BlockedInv ==
  \A t \in Threads : wait_queue[t] # NoQueue =>
    /\ state[t] # "NONE"
    /\ BlockedAt(t, "w_remove") => state[t] = "WAITING"

(* Both hold as long as nothing faulted.                                   *)
WindowInv == Up => HandlerInv /\ BlockedInv

(* wait_queue_wait_timeout() stores deadline and state under the lock, and *)
(* its sleep has the deadline of the call.  sched_sleep() stores them with *)
(* interrupts on: a timer interrupt between the two loses the deadline, so *)
(* that the sleep ends at the next tick, but no sleep outlasts its call.   *)
SleepDeadlines ==
  Up => \A t \in Threads : state[t] = "SLEEPING" =>
          /\ BlockedAt(t, "t_remove") => wake_in[t] = left[t]
          /\ BlockedAt(t, "sl_return") => wake_in[t] \in {left[t], Cleared}
====
