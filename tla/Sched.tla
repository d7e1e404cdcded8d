------------------------------- MODULE Sched -------------------------------
(***************************************************************************)
(* The scheduler of kernel/sched: thread states, the run queue,            *)
(* sched_yield(), timer ticks, the IRQ-exit reschedule, sleeping, wait     *)
(* queues, thread exit and reaping, on one CPU.                            *)
(*                                                                         *)
(* A step is what runs without an interrupt being able to come in between: *)
(* one read or write of shared state by a thread, one spin_lock_irqsave()  *)
(* section (it turns interrupts off, and there is one CPU), or one         *)
(* interrupt handler (its gate clears IF).  sched_yield() called by a      *)
(* thread holds no lock and leaves interrupts as it found them, so it is   *)
(* split into its steps; called from sched_irq_exit() it takes the same    *)
(* steps with IF off.                                                      *)
(*                                                                         *)
(* Every thread has a stack, on which its own code ("thr") may have been   *)
(* interrupted by one handler ("irq").  cpu is the stack the CPU executes  *)
(* on, current is the variable current_thread: sched_yield() changes the   *)
(* second before the first.                                                *)
(*                                                                         *)
(* panic() stops the machine: fault names the reason, and what the step    *)
(* that panics leaves in the other variables is never looked at.  Three    *)
(* faults are not panics but undefined behaviour, where the model stops    *)
(* too: "use_after_free", "stack_freed" and "context_clobbered".           *)
(***************************************************************************)
EXTENDS Integers, Sequences, FiniteSets

CONSTANTS
  N,          \* threads created during boot; a thread is named by its id
  Idle,       \* the id of idle_thread
  Queues,     \* wait queues, each with the condition its waiters wait for
  IrqQueues,  \* those whose condition a device interrupt makes true
  NoQueue,    \* thread->wait_queue == 0
  Ops,        \* Ops[t]: the calls that the body of thread t makes
  MaxTicks    \* bound on the ticks asked of a sleep or a timeout

OpNames == {"yield", "sleep", "wait", "qsleep", "timeout", "wake_one",
            "wake_all", "signal", "clear", "exit"}

ASSUME SchedAssumption ==
  /\ N \in Nat \ {0}
  /\ Idle \in 1..N
  /\ IrqQueues \subseteq Queues
  /\ NoQueue \notin Queues
  /\ Ops \in [1..N -> SUBSET OpNames]
  /\ Ops[Idle] = {}
  /\ MaxTicks \in Nat \ {0}

Threads == 1..N
Boot    == 0                \* the boot stack; current_thread == 0
Stacks  == 0..N
Ctx     == Stacks \X {"thr", "irq"}

States  == {"NONE", "READY", "RUNNING", "SLEEPING", "WAITING", "ZOMBIE", "DEAD"}
Cleared == -1               \* wake_tick == 0
Ticks   == 0..MaxTicks

VARIABLES
  state,            \* thread->state; "NONE" before the thread is created
  wake_in,          \* thread->wake_tick, as ticks still to go (0: reached)
  queued,           \* run queue: a list in creation order, hence sorted by id
  next_thread_id,
  freed,            \* threads whose object and stack went back to the heap
  wait_queue,       \* thread->wait_queue
  waiters,          \* the list queue->head .. queue->tail
  cond,             \* the condition that belongs to the queue
  current,          \* current_thread
  schedule_locked,
  need_resched,
  irq_depth,
  cpu,              \* the stack in use
  iflag,            \* RFLAGS.IF
  inirq,            \* stacks that carry an interrupt frame
  pc,               \* control point of each context
  prev, next,       \* locals of sched_yield() in each context,
  head, reap_list,  \* of sched_reap_dead_threads() that it calls,
  ret,              \* and the control point it returns to
  target,           \* queue argument of the blocking call a thread is in
  left,             \* deadline of that call, as ticks still to go
  expired,          \* now >= deadline, as wait_queue_wait_timeout() read it
  fault

threadVars == <<state, wake_in, queued, next_thread_id, freed>>
waitVars   == <<wait_queue, waiters, cond>>
schedVars  == <<current, schedule_locked, need_resched>>
cpuVars    == <<cpu, iflag, inirq, irq_depth>>
localVars  == <<prev, next, head, reap_list>>
argVars    == <<target, left, expired>>
callVars   == <<localVars, ret>>
vars == <<threadVars, waitVars, schedVars, cpuVars, pc, callVars, argVars, fault>>

----------------------------------------------------------------------------
(* Thread states (kernel/sched/sched.h).                                   *)

thread_state_transition_is_valid(from, to) ==
  \/ from = to
  \/ from = "READY"    /\ to = "RUNNING"
  \/ from = "RUNNING"  /\ to \in {"READY", "SLEEPING", "WAITING", "ZOMBIE"}
  \/ from \in {"SLEEPING", "WAITING"} /\ to \in {"READY", "ZOMBIE"}
  \/ from = "ZOMBIE"   /\ to = "DEAD"

(* The fault a step ends in: the first check that fails, or none.          *)
Check(ok, reason) == fault' = IF ok THEN "none" ELSE reason

(* sched_assert_can_switch(): no spinlock is held between two steps, which *)
(* leaves the other two conditions.                                        *)
CanSwitch == ~schedule_locked /\ irq_depth = 0

----------------------------------------------------------------------------
(* Control.  The active context is the handler if the stack carries one.   *)

here == <<cpu, IF inirq[cpu] THEN "irq" ELSE "thr">>

At(p) == fault = "none" /\ pc[here] = p

Goto(p) == pc' = [pc EXCEPT ![here] = p]

(* Call sched_yield() and go on at p when it returns.                      *)
CallYield(p) ==
  /\ Goto("y_assert")
  /\ ret' = [ret EXCEPT ![here] = p]
  /\ UNCHANGED localVars

Return ==
  /\ Goto(ret[here])
  /\ ret'  = [ret EXCEPT ![here] = "none"]
  /\ prev' = [prev EXCEPT ![here] = 0]
  /\ next' = [next EXCEPT ![here] = 0]
  /\ UNCHANGED <<head, reap_list>>

----------------------------------------------------------------------------
(* sched_yield() and what it calls.                                        *)

Oldest(S) == {t \in S : \A u \in S : t <= u}

(* The head of the list, or NULL; a set of one.                            *)
run_queue_head == IF queued = {} THEN {0} ELSE Oldest(queued)

(* next_runnable_thread(): the walk starts behind current_thread, wraps    *)
(* around to the head, and skips idle, which is taken when nothing else is *)
(* ready.  The result is a set: one thread, or none for NULL.              *)
Runnable == {t \in queued \ {Idle} : state[t] = "READY"}

(* Mutant: the walk does not wrap around.                                  *)
next_runnable_no_wrap ==
  LET behind == {t \in Runnable : t > current}
  IN  IF behind # {}
      THEN Oldest(behind)
      ELSE IF state[Idle] = "READY" THEN {Idle} ELSE {}

next_runnable_thread ==
  LET behind == {t \in Runnable : t > current}
      walk   == IF behind # {} THEN behind ELSE Runnable
  IN  IF walk # {}
      THEN Oldest(walk)
      ELSE IF state[Idle] = "READY" THEN {Idle} ELSE {}

(* Lines 84 and 86, up to the read of run_queue_head that                  *)
(* sched_reap_dead_threads() does before it takes scheduler_lock.          *)
YieldAssert ==
  /\ At("y_assert")
  /\ Check(CanSwitch, IF schedule_locked THEN "reentry" ELSE "irq_context")
  /\ Goto("y_reap")
  /\ \E first \in run_queue_head : head' = [head EXCEPT ![here] = first]
  /\ UNCHANGED <<threadVars, waitVars, schedVars, cpuVars, prev, next,
                 reap_list, ret, argVars>>

(* Mutant: the walk does not unlink at the head.                           *)
ReapableBehindHead(first) ==
  IF first \in queued
  THEN {t \in queued \ {first} : state[t] = "ZOMBIE" /\ t # current}
  ELSE {}

(* The locked walk from the head that was read: it finds all zombies but   *)
(* the current thread, or none when that head has been unlinked since.     *)
Reapable(first) ==
  IF first \in queued
  THEN {t \in queued : state[t] = "ZOMBIE" /\ t # current}
  ELSE {}

(* Mutant: a dead thread stays linked.                                     *)
YieldReapLinked ==
  /\ At("y_reap")
  /\ LET dead == Reapable(head[here])
     IN  /\ Check(head[here] \notin freed, "use_after_free")
         /\ state'   = [t \in Threads |-> IF t \in dead THEN "DEAD" ELSE state[t]]
         /\ wake_in' = [t \in Threads |-> IF t \in dead THEN Cleared ELSE wake_in[t]]
         /\ reap_list' = [reap_list EXCEPT ![here] = dead]
  /\ head' = [head EXCEPT ![here] = 0]
  /\ Goto("y_release")
  /\ UNCHANGED <<queued, next_thread_id, freed, waitVars, schedVars, cpuVars,
                 prev, next, ret, argVars>>

YieldReap ==
  /\ At("y_reap")
  /\ LET dead == Reapable(head[here])
     IN  /\ Check(head[here] \notin freed, "use_after_free")
         /\ state'   = [t \in Threads |-> IF t \in dead THEN "DEAD" ELSE state[t]]
         /\ wake_in' = [t \in Threads |-> IF t \in dead THEN Cleared ELSE wake_in[t]]
         /\ queued'  = queued \ dead
         /\ reap_list' = [reap_list EXCEPT ![here] = dead]
  /\ head' = [head EXCEPT ![here] = 0]
  /\ Goto("y_release")
  /\ UNCHANGED <<next_thread_id, freed, waitVars, schedVars, cpuVars, prev,
                 next, ret, argVars>>

(* release_thread() of one thread of the reap list, last detached first.   *)
YieldRelease ==
  /\ At("y_release")
  /\ \E t \in reap_list[here] :
       /\ \A u \in reap_list[here] : u <= t
       /\ fault' =
            IF \/ t = current
               \/ state[t] # "DEAD"
               \/ wait_queue[t] # NoQueue
               \/ wake_in[t] # Cleared
            THEN "release"
            ELSE IF t = cpu THEN "stack_freed" ELSE "none"
       /\ freed' = freed \cup {t}
       /\ reap_list' = [reap_list EXCEPT ![here] = @ \ {t}]
  /\ UNCHANGED <<state, wake_in, queued, next_thread_id, waitVars, schedVars,
                 cpuVars, pc, prev, next, head, ret, argVars>>

(* Lines 88 to 93.                                                         *)
YieldPick ==
  /\ At("y_release")
  /\ reap_list[here] = {}
  /\ \E n \in next_runnable_thread \ {current} :
       /\ prev' = [prev EXCEPT ![here] = current]
       /\ next' = [next EXCEPT ![here] = n]
       /\ Goto("y_lock")
  /\ UNCHANGED <<threadVars, waitVars, schedVars, cpuVars, head, reap_list,
                 ret, argVars, fault>>

(* next == 0 or next == prev: return to the caller.  sched_demo_start()    *)
(* panics when this happens in the boot context.                           *)
YieldNothing ==
  /\ At("y_release")
  /\ reap_list[here] = {}
  /\ next_runnable_thread \ {current} = {}
  /\ Check(ret[here] # "boot_return", "boot_return")
  /\ Return
  /\ UNCHANGED <<threadVars, waitVars, schedVars, cpuVars, argVars>>

YieldLock ==
  /\ At("y_lock")
  /\ schedule_locked' = TRUE
  /\ Goto("y_ready")
  /\ UNCHANGED <<threadVars, waitVars, current, need_resched, cpuVars,
                 callVars, argVars, fault>>

(* Mutant: the previous thread keeps its state.                            *)
YieldReadySkipped ==
  /\ At("y_ready")
  /\ Goto("y_run")
  /\ UNCHANGED <<threadVars, waitVars, schedVars, cpuVars, callVars, argVars,
                 fault>>

YieldReady ==
  /\ At("y_ready")
  /\ IF prev[here] # Boot /\ state[prev[here]] = "RUNNING"
     THEN /\ state'   = [state EXCEPT ![prev[here]] = "READY"]
          /\ wake_in' = [wake_in EXCEPT ![prev[here]] = Cleared]
     ELSE UNCHANGED <<state, wake_in>>
  /\ Goto("y_run")
  /\ UNCHANGED <<queued, next_thread_id, freed, waitVars, schedVars, cpuVars,
                 callVars, argVars, fault>>

YieldRun ==
  /\ At("y_run")
  /\ fault' = IF next[here] \in freed THEN "use_after_free"
              ELSE IF thread_state_transition_is_valid(state[next[here]], "RUNNING")
              THEN "none" ELSE "transition"
  /\ state' = [state EXCEPT ![next[here]] = "RUNNING"]
  /\ Goto("y_current")
  /\ UNCHANGED <<wake_in, queued, next_thread_id, freed, waitVars, schedVars,
                 cpuVars, callVars, argVars>>

YieldCurrent ==
  /\ At("y_current")
  /\ current' = next[here]
  /\ Goto("y_unlock")
  /\ UNCHANGED <<threadVars, waitVars, schedule_locked, need_resched, cpuVars,
                 callVars, argVars, fault>>

YieldUnlock ==
  /\ At("y_unlock")
  /\ schedule_locked' = FALSE
  /\ Goto("y_switch")
  /\ UNCHANGED <<threadVars, waitVars, current, need_resched, cpuVars,
                 callVars, argVars, fault>>

(* arch_context_switch(&prev->stack_pointer, next->stack_pointer) stores   *)
(* the stack in use into prev and loads the one next was left on.  IF is   *)
(* not part of the context it saves.                                       *)
YieldSwitch ==
  /\ At("y_switch")
  /\ Check(prev[here] = cpu, "context_clobbered")
  /\ cpu' = next[here]
  /\ Return
  /\ UNCHANGED <<threadVars, waitVars, schedVars, iflag, inirq, irq_depth,
                 argVars>>

Yield ==
  \/ YieldAssert \/ YieldReap \/ YieldRelease \/ YieldPick \/ YieldNothing
  \/ YieldLock \/ YieldReady \/ YieldRun \/ YieldCurrent \/ YieldUnlock
  \/ YieldSwitch

----------------------------------------------------------------------------
(* Waking a set of threads taken from wait queues or from their sleep.     *)

(* Mutant: thread->wait_queue is not cleared.                              *)
MarkReadyOwned(W) ==
  /\ state'      = [t \in Threads |-> IF t \in W THEN "READY" ELSE state[t]]
  /\ wake_in'    = [t \in Threads |-> IF t \in W THEN Cleared ELSE wake_in[t]]
  /\ UNCHANGED wait_queue
  /\ Check(\A t \in W : state[t] \in {"WAITING", "SLEEPING"}, "wakeup")

MarkReady(W) ==
  /\ state'      = [t \in Threads |-> IF t \in W THEN "READY" ELSE state[t]]
  /\ wake_in'    = [t \in Threads |-> IF t \in W THEN Cleared ELSE wake_in[t]]
  /\ wait_queue' = [t \in Threads |-> IF t \in W THEN NoQueue ELSE wait_queue[t]]
  /\ Check(\A t \in W : state[t] \in {"WAITING", "SLEEPING"}, "wakeup")

Members(q) == {waiters[q][i] : i \in DOMAIN waiters[q]}

wait_queue_wake_one_locked(q) ==
  /\ MarkReady(IF waiters[q] = <<>> THEN {} ELSE {Head(waiters[q])})
  /\ waiters' = [waiters EXCEPT ![q] = IF @ = <<>> THEN <<>> ELSE Tail(@)]

wait_queue_wake_all_locked(q) ==
  /\ MarkReady(Members(q))
  /\ waiters' = [waiters EXCEPT ![q] = <<>>]

(* wait_queue_enqueue_locked() of the current thread.                      *)
Enqueue(q) ==
  /\ wait_queue' = [wait_queue EXCEPT ![current] = q]
  /\ waiters'    = [waiters EXCEPT ![q] = Append(@, current)]

Unlink(s, i) == [j \in 1..(Len(s) - 1) |-> IF j < i THEN s[j] ELSE s[j + 1]]

Places(s, t) == {i \in DOMAIN s : s[i] = t}

(* wait_queue_remove_locked() of the current thread.                       *)
wait_queue_remove_locked(q) ==
  LET places == Places(waiters[q], current)
  IN  IF wait_queue[current] = q
      THEN /\ Check(places # {}, "membership")
           /\ wait_queue' = [wait_queue EXCEPT ![current] = NoQueue]
           /\ waiters' = [waiters EXCEPT ![q] =
                            Unlink(@, CHOOSE i \in places : TRUE)]
      ELSE UNCHANGED <<wait_queue, waiters, fault>>

----------------------------------------------------------------------------
(* Interrupts.  The handler runs to sched_irq_exit() with IF off.  A stack *)
(* that was left in sched_irq_exit() and is switched to by a thread whose  *)
(* IF is on finishes its handler with IF on: a new interrupt may come in   *)
(* before its iretq.  Nothing but that iretq was left to do, so the model  *)
(* lets the new handler replace the old one instead of stacking the two.   *)

EnterIrq ==
  /\ fault = "none" /\ iflag
  /\ iflag'     = FALSE
  /\ inirq'     = [inirq EXCEPT ![cpu] = TRUE]
  /\ irq_depth' = irq_depth + 1
  /\ pc'        = [pc EXCEPT ![<<cpu, "irq">>] = "irq_exit"]
  /\ UNCHANGED cpu /\ UNCHANGED callVars

(* Mutant: a deadline that is reached goes on counting.                    *)
TickUnbounded(n) == n - 1

Tick(n) == IF n > 0 THEN n - 1 ELSE n

(* Mutants: any thread is woken; the walk starts behind current_thread.    *)
DueAny == {t \in queued : Tick(wake_in[t]) <= 0}
DueBehind ==
  {t \in queued : state[t] = "SLEEPING" /\ Tick(wake_in[t]) <= 0 /\ t > current}

(* wake_sleeping_threads(): on the run queue, asleep, deadline reached.    *)
Due == {t \in queued : state[t] = "SLEEPING" /\ Tick(wake_in[t]) <= 0}

TimerIrq ==
  /\ EnterIrq
  /\ state'   = [t \in Threads |-> IF t \in Due THEN "READY" ELSE state[t]]
  /\ wake_in' = [t \in Threads |-> IF t \in Due THEN Cleared ELSE Tick(wake_in[t])]
  /\ left'    = [t \in Threads |-> Tick(left[t])]
  /\ need_resched' = IF current # Boot /\ state'[current] = "RUNNING"
                     THEN TRUE ELSE need_resched
  /\ UNCHANGED <<queued, next_thread_id, freed, waitVars, current,
                 schedule_locked, target, expired, fault>>

(* A device handler that publishes an event under the queue lock, the way  *)
(* ps2_keyboard_irq() does through queue_work(), unless it is pending.     *)
DeviceIrq(q) ==
  /\ EnterIrq
  /\ cond' = [cond EXCEPT ![q] = TRUE]
  /\ IF cond[q] THEN UNCHANGED <<state, wake_in, wait_queue, waiters, fault>>
                ELSE wait_queue_wake_one_locked(q)
  /\ UNCHANGED <<queued, next_thread_id, freed, schedVars, argVars>>

(* Mutant: schedule_locked is not looked at.                               *)
IrqExitUnlocked ==
  /\ At("irq_exit")
  /\ Check(irq_depth > 0, "irq_exit")
  /\ irq_depth' = irq_depth - 1
  /\ IF irq_depth' # 0 \/ ~need_resched \/ current = Boot
     THEN Goto("iret") /\ UNCHANGED callVars /\ UNCHANGED need_resched
     ELSE CallYield("iret") /\ need_resched' = FALSE
  /\ UNCHANGED <<threadVars, waitVars, current, schedule_locked, cpu, iflag,
                 inirq, argVars>>

(* sched_irq_exit().                                                       *)
IrqExit ==
  /\ At("irq_exit")
  /\ Check(irq_depth > 0, "irq_exit")
  /\ irq_depth' = irq_depth - 1
  /\ IF irq_depth' # 0 \/ ~need_resched \/ current = Boot \/ schedule_locked
     THEN Goto("iret") /\ UNCHANGED callVars /\ UNCHANGED need_resched
     ELSE CallYield("iret") /\ need_resched' = FALSE
  /\ UNCHANGED <<threadVars, waitVars, current, schedule_locked, cpu, iflag,
                 inirq, argVars>>

(* iretq restores the interrupted RFLAGS, in which IF was set.             *)
Iret ==
  /\ At("iret")
  /\ inirq' = [inirq EXCEPT ![cpu] = FALSE]
  /\ iflag' = TRUE
  /\ Goto("none")
  /\ UNCHANGED <<threadVars, waitVars, schedVars, cpu, irq_depth, callVars,
                 argVars, fault>>

----------------------------------------------------------------------------
(* Boot: kernel_main() creates the threads and sched_start() yields to     *)
(* them from a context that is not a thread.                               *)

kernel_thread_create ==
  /\ At("boot") /\ next_thread_id <= N
  /\ state'   = [state EXCEPT ![next_thread_id] = "READY"]
  /\ wake_in' = [wake_in EXCEPT ![next_thread_id] = Cleared]
  /\ queued'  = queued \cup {next_thread_id}
  /\ next_thread_id' = next_thread_id + 1
  /\ UNCHANGED <<freed, waitVars, schedVars, cpuVars, pc, callVars, argVars,
                 fault>>

sched_start ==
  /\ At("boot") /\ next_thread_id > N
  /\ CallYield("boot_return")
  /\ UNCHANGED <<threadVars, waitVars, schedVars, cpuVars, argVars, fault>>

----------------------------------------------------------------------------
(* The bodies of the threads.  Ops[cpu] says which calls this body makes.  *)

Calls(op) == At("run") /\ op \in Ops[cpu]

(* A body computes, or idle executes hlt: no kernel state changes.         *)
Compute ==
  /\ At("run")
  /\ UNCHANGED vars

VoluntaryYield ==
  /\ Calls("yield")
  /\ CallYield("run")
  /\ UNCHANGED <<threadVars, waitVars, schedVars, cpuVars, argVars, fault>>

(* sched_sleep(): the deadline, the store of wake_tick and the store of    *)
(* the state (thread_set_sleeping) are three steps; no lock is held.       *)
sched_sleep(n) ==
  /\ Calls("sleep")
  /\ Check(CanSwitch, "irq_context")
  /\ left' = [left EXCEPT ![current] = n]
  /\ Goto("sl_tick")
  /\ UNCHANGED <<threadVars, waitVars, schedVars, cpuVars, callVars, target,
                 expired>>

SleepTick ==
  /\ At("sl_tick")
  /\ Check(thread_state_transition_is_valid(state[current], "SLEEPING"), "transition")
  /\ wake_in' = [wake_in EXCEPT ![current] = left[current]]
  /\ Goto("sl_state")
  /\ UNCHANGED <<state, queued, next_thread_id, freed, waitVars, schedVars,
                 cpuVars, callVars, argVars>>

SleepState ==
  /\ At("sl_state")
  /\ state' = [state EXCEPT ![current] = "SLEEPING"]
  /\ CallYield("sl_return")
  /\ UNCHANGED <<wake_in, queued, next_thread_id, freed, waitVars, schedVars,
                 cpuVars, argVars, fault>>

SleepReturn ==
  /\ At("sl_return")
  /\ left' = [left EXCEPT ![current] = 0]
  /\ Goto("run")
  /\ UNCHANGED <<threadVars, waitVars, schedVars, cpuVars, callVars, target,
                 expired, fault>>

(* Mutant: the deadline is not stored.                                     *)
BlockNoDeadline(q, how, until, p) ==
  /\ fault' = IF ~CanSwitch THEN "irq_context"
              ELSE IF wait_queue[current] # NoQueue THEN "queued"
              ELSE IF thread_state_transition_is_valid(state[current], how)
              THEN "none" ELSE "transition"
  /\ Enqueue(q)
  /\ state'   = [state EXCEPT ![current] = how]
  /\ CallYield(p)
  /\ UNCHANGED wake_in

(* Enqueue the current thread and block it, in one locked section.         *)
Block(q, how, until, p) ==
  /\ fault' = IF ~CanSwitch THEN "irq_context"
              ELSE IF wait_queue[current] # NoQueue THEN "queued"
              ELSE IF thread_state_transition_is_valid(state[current], how)
              THEN "none" ELSE "transition"
  /\ Enqueue(q)
  /\ state'   = [state EXCEPT ![current] = how]
  /\ wake_in' = [wake_in EXCEPT ![current] = until]
  /\ CallYield(p)

wait_queue_sleep(q) ==
  /\ Calls("qsleep")
  /\ Block(q, "WAITING", Cleared, "s_check")
  /\ UNCHANGED <<queued, next_thread_id, freed, cond, schedVars, cpuVars,
                 argVars>>

(* The loops around sched_yield() of wait_queue_sleep() (until the thread  *)
(* is no longer WAITING) and of sched_thread_exit() (for ever).            *)
YieldLoop ==
  /\ pc[here] \in {"s_check", "exit"} /\ At(pc[here])
  /\ IF pc[here] = "exit" \/ state[current] = "WAITING"
     THEN CallYield(pc[here])
     ELSE Goto("run") /\ UNCHANGED callVars
  /\ UNCHANGED <<threadVars, waitVars, schedVars, cpuVars, argVars, fault>>

wait_queue_wait(q) ==
  /\ Calls("wait")
  /\ Check(CanSwitch, "irq_context")
  /\ target' = [target EXCEPT ![current] = q]
  /\ Goto("w_lock")
  /\ UNCHANGED <<threadVars, waitVars, schedVars, cpuVars, callVars, left,
                 expired>>

(* Mutant: the condition is not checked again under the lock.              *)
WaitBlockUnchecked ==
  /\ At("w_lock")
  /\ Block(target[current], "WAITING", Cleared, "w_remove")
  /\ UNCHANGED <<queued, next_thread_id, freed, cond, schedVars, cpuVars,
                 argVars>>

(* The locked section that checks the condition and blocks.                *)
WaitBlock ==
  /\ At("w_lock")
  /\ ~cond[target[current]]
  /\ Block(target[current], "WAITING", Cleared, "w_remove")
  /\ UNCHANGED <<queued, next_thread_id, freed, cond, schedVars, cpuVars,
                 argVars>>

WaitDone ==
  /\ At("w_lock")
  /\ cond[target[current]]
  /\ target' = [target EXCEPT ![current] = NoQueue]
  /\ Goto("run")
  /\ UNCHANGED <<threadVars, waitVars, schedVars, cpuVars, callVars, left,
                 expired, fault>>

WaitRemove ==
  /\ At("w_remove")
  /\ wait_queue_remove_locked(target[current])
  /\ Goto("w_lock")
  /\ UNCHANGED <<threadVars, cond, schedVars, cpuVars, callVars, argVars>>

(* wait_queue_wait_timeout(): the condition is first looked at without the *)
(* lock, and the time of each round is read before the lock is taken.      *)
wait_queue_wait_timeout(q, n) ==
  /\ Calls("timeout")
  /\ Check(CanSwitch, "irq_context")
  /\ IF cond[q] \/ n = 0
     THEN Goto("run") /\ UNCHANGED <<target, left>>
     ELSE /\ Goto("t_now")
          /\ target' = [target EXCEPT ![current] = q]
          /\ left'   = [left EXCEPT ![current] = n]
  /\ UNCHANGED <<threadVars, waitVars, schedVars, cpuVars, callVars, expired>>

TimeoutNow ==
  /\ At("t_now")
  /\ expired' = [expired EXCEPT ![current] = left[current] = 0]
  /\ Goto("t_lock")
  /\ UNCHANGED <<threadVars, waitVars, schedVars, cpuVars, callVars, target,
                 left, fault>>

TimeoutBlock ==
  /\ At("t_lock")
  /\ ~cond[target[current]] /\ ~expired[current]
  /\ Block(target[current], "SLEEPING", left[current], "t_remove")
  /\ UNCHANGED <<queued, next_thread_id, freed, cond, schedVars, cpuVars,
                 argVars>>

TimeoutDone ==
  /\ At("t_lock")
  /\ cond[target[current]] \/ expired[current]
  /\ wake_in' = [wake_in EXCEPT ![current] = Cleared]
  /\ target'  = [target EXCEPT ![current] = NoQueue]
  /\ left'    = [left EXCEPT ![current] = 0]
  /\ expired' = [expired EXCEPT ![current] = FALSE]
  /\ Goto("run")
  /\ UNCHANGED <<state, queued, next_thread_id, freed, waitVars, schedVars,
                 cpuVars, callVars, fault>>

TimeoutRemove ==
  /\ At("t_remove")
  /\ wait_queue_remove_locked(target[current])
  /\ Goto("t_now")
  /\ UNCHANGED <<threadVars, cond, schedVars, cpuVars, callVars, argVars>>

(* Wakers.  signal and clear are the two updates of a condition that       *)
(* callers make under the queue lock; signal wakes all, as the demo does.  *)
wait_queue_wake_one(q) ==
  /\ Calls("wake_one")
  /\ wait_queue_wake_one_locked(q)
  /\ UNCHANGED <<queued, next_thread_id, freed, cond, schedVars, cpuVars, pc,
                 callVars, argVars>>

wait_queue_wake_all(q) ==
  /\ Calls("wake_all")
  /\ wait_queue_wake_all_locked(q)
  /\ UNCHANGED <<queued, next_thread_id, freed, cond, schedVars, cpuVars, pc,
                 callVars, argVars>>

Signal(q) ==
  /\ Calls("signal")
  /\ cond' = [cond EXCEPT ![q] = TRUE]
  /\ wait_queue_wake_all_locked(q)
  /\ UNCHANGED <<queued, next_thread_id, freed, schedVars, cpuVars, pc,
                 callVars, argVars>>

Clear(q) ==
  /\ Calls("clear")
  /\ cond' = [cond EXCEPT ![q] = FALSE]
  /\ UNCHANGED <<threadVars, wait_queue, waiters, schedVars, cpuVars, pc,
                 callVars, argVars, fault>>

(* sched_thread_exit(): become a zombie and yield for ever.                *)
sched_thread_exit ==
  /\ Calls("exit")
  /\ fault' = IF state[current] \in {"ZOMBIE", "DEAD"} THEN "exit_twice"
              ELSE IF thread_state_transition_is_valid(state[current], "ZOMBIE")
              THEN "none" ELSE "transition"
  /\ state'   = [state EXCEPT ![current] = "ZOMBIE"]
  /\ wake_in' = [wake_in EXCEPT ![current] = Cleared]
  /\ CallYield("exit")
  /\ UNCHANGED <<queued, next_thread_id, freed, waitVars, schedVars, cpuVars,
                 argVars>>

(* panic() ends in arch_halt_forever().                                    *)
arch_halt_forever ==
  /\ fault # "none"
  /\ UNCHANGED vars
----------------------------------------------------------------------------
Init ==
  /\ state = [t \in Threads |-> "NONE"]
  /\ wake_in = [t \in Threads |-> Cleared]
  /\ queued = {} /\ next_thread_id = 1 /\ freed = {}
  /\ wait_queue = [t \in Threads |-> NoQueue]
  /\ waiters = [q \in Queues |-> <<>>]
  /\ cond = [q \in Queues |-> FALSE]
  /\ current = Boot /\ schedule_locked = FALSE /\ need_resched = FALSE
  /\ cpu = Boot /\ iflag = TRUE /\ irq_depth = 0
  /\ inirq = [s \in Stacks |-> FALSE]
  /\ pc = [c \in Ctx |-> IF c[2] = "irq" THEN "none"
                         ELSE IF c[1] = Boot THEN "boot" ELSE "run"]
  /\ prev = [c \in Ctx |-> 0] /\ next = [c \in Ctx |-> 0]
  /\ head = [c \in Ctx |-> 0] /\ reap_list = [c \in Ctx |-> {}]
  /\ ret = [c \in Ctx |-> "none"]
  /\ target = [t \in Threads |-> NoQueue]
  /\ left = [t \in Threads |-> 0]
  /\ expired = [t \in Threads |-> FALSE]
  /\ fault = "none"

BootStep == kernel_thread_create \/ sched_start

CallStep ==
  \/ VoluntaryYield
  \/ \E n \in Ticks \ {0} : sched_sleep(n)
  \/ \E q \in Queues : wait_queue_sleep(q) \/ wait_queue_wait(q)
  \/ \E q \in Queues, n \in Ticks : wait_queue_wait_timeout(q, n)
  \/ \E q \in Queues : wait_queue_wake_one(q) \/ wait_queue_wake_all(q)
  \/ \E q \in Queues : Signal(q) \/ Clear(q)
  \/ sched_thread_exit

BodyStep ==
  \/ SleepTick \/ SleepState \/ SleepReturn \/ YieldLoop
  \/ WaitBlock \/ WaitDone \/ WaitRemove
  \/ TimeoutNow \/ TimeoutBlock \/ TimeoutDone \/ TimeoutRemove

Interrupt == TimerIrq \/ \E q \in IrqQueues : DeviceIrq(q)

Next ==
  \/ BootStep \/ CallStep \/ BodyStep \/ Compute
  \/ Yield \/ IrqExit \/ Iret
  \/ Interrupt
  \/ arch_halt_forever

Spec == Init /\ [][Next]_vars

(* Fairness.  The CPU executes instructions between two interrupts, so a   *)
(* context that is again and again the active one takes its next step; the *)
(* interrupt controller keeps a timer request pending until IF is set.     *)
(* Nothing makes the body of a thread issue another call.                  *)
KernelStep == BootStep \/ BodyStep \/ Yield \/ IrqExit \/ Iret

Fairness ==
  /\ \A c \in Ctx : SF_vars(here = c /\ KernelStep)
  /\ SF_vars(TimerIrq)

FairSpec == Spec /\ Fairness

----------------------------------------------------------------------------
(* Properties.  After a fault the machine has stopped and nothing is said. *)

Up == fault = "none"

YieldPcs == {"y_assert", "y_reap", "y_release", "y_lock", "y_ready", "y_run",
             "y_current", "y_unlock", "y_switch"}
WaitPcs  == {"w_lock", "w_remove", "t_now", "t_lock", "t_remove"}
Pcs == YieldPcs \cup WaitPcs \cup
       {"none", "boot", "boot_return", "run", "sl_tick", "sl_state", "sl_return",
        "s_check", "exit", "irq_exit", "iret"}
Panics == {"reentry", "irq_context", "irq_exit", "queued", "membership",
           "exit_twice", "release", "boot_return", "transition", "wakeup"}
Undefined == {"use_after_free", "stack_freed", "context_clobbered"}

(* Types of all variables.                                                 *)
TypeOK ==
  /\ state \in [Threads -> States]
  /\ wake_in \in [Threads -> Ticks \cup {Cleared}]
  /\ queued \in SUBSET Threads
  /\ next_thread_id \in 1..(N + 1)
  /\ freed \in SUBSET Threads
  /\ wait_queue \in [Threads -> Queues \cup {NoQueue}]
  /\ waiters \in [Queues -> Seq(Threads)]
  /\ cond \in [Queues -> BOOLEAN]
  /\ current \in Stacks
  /\ schedule_locked \in BOOLEAN
  /\ need_resched \in BOOLEAN
  /\ irq_depth \in {0, 1}
  /\ cpu \in Stacks
  /\ iflag \in BOOLEAN
  /\ inirq \in [Stacks -> BOOLEAN]
  /\ pc \in [Ctx -> Pcs]
  /\ prev \in [Ctx -> Stacks] /\ next \in [Ctx -> Stacks]
  /\ head \in [Ctx -> Stacks] /\ reap_list \in [Ctx -> SUBSET Threads]
  /\ ret \in [Ctx -> Pcs]
  /\ target \in [Threads -> Queues \cup {NoQueue}]
  /\ left \in [Threads -> Ticks]
  /\ expired \in [Threads -> BOOLEAN]
  /\ fault \in {"none"} \cup Panics \cup Undefined

(* The run queue holds exactly the threads that were created and have not  *)
(* been reaped, and only reaped ones are given back to the heap.           *)
RunQueueExact ==
  Up => /\ queued = {t \in Threads : state[t] \notin {"NONE", "DEAD"}}
        /\ freed \subseteq {t \in Threads : state[t] = "DEAD"}

(* thread->wait_queue and the lists agree, no thread is linked twice, and  *)
(* a WAITING thread is on a list: otherwise no wakeup could reach it.      *)
WaitQueueExact ==
  Up => /\ \A t \in Threads, q \in Queues : wait_queue[t] = q <=> t \in Members(q)
        /\ \A q \in Queues : \A i, j \in DOMAIN waiters[q] :
              waiters[q][i] = waiters[q][j] => i = j
        /\ \A t \in Threads : state[t] = "WAITING" => wait_queue[t] # NoQueue

(* t is inside wait_queue_wait() or wait_queue_wait_timeout(), blocked or  *)
(* on its way out of sched_yield().                                        *)
InWait(t) == \/ ret[<<t, "thr">>] \in WaitPcs
             \/ pc[<<t, "thr">>] \in WaitPcs

(* No lost wakeup: wait_queue_wait*() checks the condition and enqueues    *)
(* under one hold of the queue lock, and whoever makes the condition true  *)
(* wakes the whole queue under that lock, so no waiter is left on a queue  *)
(* whose condition holds, however the two interleave.                      *)
NoLostWakeup ==
  Up => \A q \in Queues \ IrqQueues : cond[q] => \A t \in Members(q) : ~InWait(t)

(* A blocking call that returns leaves its thread on no wait queue.        *)
BodyOffQueue ==
  Up /\ cpu \in Threads /\ pc[<<cpu, "thr">>] \in {"run", "sl_tick", "sl_state"}
     => wait_queue[cpu] = NoQueue

(* At most one thread is RUNNING, at every step of a switch.               *)
OneRunning ==
  Up => \A t, u \in Threads : state[t] = "RUNNING" /\ state[u] = "RUNNING" => t = u

(* The panics that guard the scheduler against itself cannot fire: no      *)
(* switch while switching or in a handler, no thread enqueued twice or     *)
(* missing from its queue, no second exit, no reaping of a thread that is  *)
(* current, queued or has a deadline, no return to the boot context.       *)
AssertionsHold ==
  fault \notin {"reentry", "irq_context", "irq_exit", "queued", "membership",
                "exit_twice", "release", "boot_return"}

(* Every change of a thread's state is one the table in sched.h allows,    *)
(* also where the code stores the state some steps after it checked it or  *)
(* without a check.                                                        *)
OnlyValidTransitions ==
  [][Up' => \A t \in Threads :
       \/ state[t] = "NONE" /\ state'[t] \in {"NONE", "READY"}
       \/ thread_state_transition_is_valid(state[t], state'[t])]_vars

(* A thread whose body executes is in state RUNNING.                       *)
ExecutingIsRunning ==
  Up /\ cpu \in Threads /\ pc[here] = "run" => state[cpu] = "RUNNING"

(* The timer's interrupts keep being taken and nothing has faulted.        *)
Alive == []<>iflag /\ []Up

(* A sleeping thread, also one in a wait with a timeout, is woken.         *)
SleepersWake ==
  Alive => \A t \in Threads : state[t] = "SLEEPING" ~> state[t] # "SLEEPING"

(* Round robin: every READY thread gets the CPU, if no thread executes in  *)
(* another state than RUNNING: the tick asks for a reschedule only if the  *)
(* current thread is RUNNING.                                              *)
ReadyRuns ==
  Alive /\ []ExecutingIsRunning =>
    \A t \in Threads \ {Idle} : state[t] = "READY" ~> state[t] = "RUNNING"

(* An exited thread is reaped and its memory given back, under the same    *)
(* condition.                                                              *)
ZombiesReaped ==
  Alive /\ []ExecutingIsRunning =>
    \A t \in Threads : state[t] = "ZOMBIE" ~> t \in freed
====
