------------------------------ MODULE SchedInv ------------------------------
(***************************************************************************)
(* The inductive invariant behind the safety properties of Sched.          *)
(*                                                                         *)
(* The properties do not follow from themselves: that a thread is never    *)
(* enqueued twice, say, depends on the place in the code it is at, on      *)
(* current_thread being the thread that executes, and so on the windows of *)
(* sched_yield() in which it is not.  The parts below say what is true of  *)
(* each piece of state at each control point.                              *)
(***************************************************************************)
EXTENDS Sched

PickedPcs == {"y_lock", "y_ready", "y_run", "y_current", "y_unlock", "y_switch"}
LockedPcs == {"y_ready", "y_run", "y_current", "y_unlock"}
AwayPcs   == {"y_unlock", "y_switch"}      \* current_thread is already next

thr(s) == <<s, "thr">>
irq(s) == <<s, "irq">>

ThreadRets == {"run", "sl_return", "s_check", "w_remove", "t_remove", "exit"}
ThreadPcs  == YieldPcs \cup WaitPcs \cup
              {"run", "sl_tick", "sl_state", "sl_return", "s_check", "exit"}

(* Which control points a context can be at, and where sched_yield() will  *)
(* return to.                                                              *)
PcInv ==
  /\ \A s \in Stacks :
       /\ inirq[s] = (pc[irq(s)] # "none")
       /\ pc[irq(s)] \in YieldPcs \cup {"none", "irq_exit", "iret"}
       /\ pc[irq(s)] \in YieldPcs => ret[irq(s)] = "iret"
  /\ \A t \in Threads :
       /\ pc[thr(t)] \in ThreadPcs
       /\ pc[thr(t)] \in YieldPcs => ret[thr(t)] \in ThreadRets
       /\ pc[thr(t)] \notin YieldPcs => ret[thr(t)] = "none"
  /\ pc[thr(Boot)] \in YieldPcs \cup {"boot", "boot_return"}
  /\ pc[thr(Boot)] \in YieldPcs => ret[thr(Boot)] = "boot_return"
  /\ pc[thr(Idle)] = "run"

(* Interrupts: when IF is on, a handler on this stack has only its iretq   *)
(* left, and so has every handler on another stack; irq_depth counts the   *)
(* handler that runs.                                                      *)
IrqInv ==
  /\ iflag /\ inirq[cpu] => pc[irq(cpu)] = "iret"
  /\ irq_depth = IF pc[irq(cpu)] = "irq_exit" THEN 1 ELSE 0
  /\ \A s \in Stacks \ {cpu} : pc[irq(s)] \in {"none", "iret"}

(* A switch that has begun is on the stack in use, and schedule_locked     *)
(* says so; a handler does not start a second one inside it.               *)
LockInv ==
  /\ schedule_locked = (pc[thr(cpu)] \in LockedPcs \/ pc[irq(cpu)] \in LockedPcs)
  /\ \A s \in Stacks \ {cpu} : pc[thr(s)] \notin LockedPcs \cup AwayPcs
  /\ pc[irq(cpu)] \in YieldPcs => pc[thr(cpu)] \notin LockedPcs

(* current_thread is the thread that executes, but between its update and  *)
(* the context switch; prev and next of a switch under way.                *)
CurrentInv ==
  /\ \A s \in Stacks : pc[thr(s)] \in PickedPcs =>
       /\ prev[thr(s)] = s
       /\ next[thr(s)] \in Threads \ {s}
  /\ pc[irq(cpu)] \in PickedPcs =>
       /\ prev[irq(cpu)] = IF pc[thr(cpu)] \in AwayPcs
                                 THEN next[thr(cpu)] ELSE cpu
       /\ next[irq(cpu)] \in Threads \ {prev[irq(cpu)]}
  /\ current = IF pc[irq(cpu)] \in AwayPcs THEN next[irq(cpu)]
               ELSE IF pc[thr(cpu)] \in AwayPcs THEN next[thr(cpu)]
               ELSE cpu

ControlInv == PcInv /\ IrqInv /\ LockInv /\ CurrentInv

(* Boot creates the threads in the order of their ids, and none of them    *)
(* has run as long as boot has not picked the first.  A handler that       *)
(* interrupts boot reschedules only once current_thread is a thread.       *)
BootInv ==
  /\ \A t \in Threads : state[t] = "NONE" <=> t >= next_thread_id
  /\ next_thread_id <= N => pc[thr(Boot)] = "boot" /\ cpu = Boot
  /\ cpu = Boot /\ pc[thr(Boot)] \in {"boot", "y_assert", "y_reap", "y_release"}
       => \A t \in Threads : state[t] \in {"NONE", "READY"}
  /\ pc[irq(Boot)] \in YieldPcs => pc[thr(Boot)] \in AwayPcs

(* The RUNNING thread is current_thread or about to become it.             *)
RunningInv ==
  /\ \A t \in Threads : state[t] = "RUNNING" =>
       \/ t = current
       \/ \E c \in {thr(cpu), irq(cpu)} : pc[c] = "y_current" /\ next[c] = t
  /\ \A c \in {thr(cpu), irq(cpu)} : pc[c] \in {"y_run", "y_current"} =>
       prev[c] = Boot \/ state[prev[c]] # "RUNNING"
  /\ pc[irq(cpu)] \in {"y_current", "y_unlock", "y_switch"} =>
       state[next[irq(cpu)]] = "RUNNING"
  /\ pc[thr(cpu)] \in {"y_current", "y_unlock", "y_switch"}
       /\ pc[irq(cpu)] \notin PickedPcs \ {"y_lock", "y_ready"} =>
       state[next[thr(cpu)]] = "RUNNING"

(* Which states go with which control point: outside sched_yield() the     *)
(* thread that executes is runnable; an exited one never leaves it.        *)
StateInv ==
  /\ cpu \in Threads /\ pc[thr(cpu)] \notin YieldPcs => state[cpu] \in {"READY", "RUNNING"}
  /\ \A t \in Threads : state[t] \in {"ZOMBIE", "DEAD"} <=>
       pc[thr(t)] = "exit" \/ ret[thr(t)] = "exit"
  /\ state[Idle] \in {"NONE", "READY", "RUNNING"}
  /\ \A t \in Threads : state[t] = "DEAD" => t # current /\ wake_in[t] = Cleared
  /\ \A c \in Ctx : \A t \in reap_list[c] : state[t] = "DEAD"
  /\ queued = {t \in Threads : state[t] \notin {"NONE", "DEAD"}}
  /\ freed \subseteq {t \in Threads : state[t] = "DEAD"}

(* t is blocked in, or about to leave the queue of, the call at p.         *)
BlockedAt(t, p) == pc[thr(t)] = p \/ ret[thr(t)] = p

(* Wait queues.  A thread is on one only inside a blocking call on it, and *)
(* wait_queue_sleep() keeps it there exactly as long as it is WAITING.     *)
QueueInv ==
  /\ \A t \in Threads, q \in Queues : wait_queue[t] = q <=> t \in Members(q)
  /\ \A q \in Queues : \A i, j \in DOMAIN waiters[q] :
       waiters[q][i] = waiters[q][j] => i = j
  /\ \A t \in Threads : wait_queue[t] # NoQueue =>
       \/ BlockedAt(t, "s_check") /\ state[t] = "WAITING"
       \/ BlockedAt(t, "w_remove") /\ target[t] = wait_queue[t]
       \/ BlockedAt(t, "t_remove") /\ target[t] = wait_queue[t]
  /\ \A t \in Threads : state[t] = "WAITING" => wait_queue[t] # NoQueue
  /\ \A t \in Threads : InWait(t) => target[t] \in Queues
  /\ \A q \in Queues \ IrqQueues : cond[q] => \A t \in Members(q) : ~InWait(t)

(* The inductive invariant.                                                *)
UpInv == ControlInv /\ BootInv /\ RunningInv /\ StateInv /\ QueueInv

IInv == TypeOK /\ AssertionsHold /\ (Up => UpInv)
====
