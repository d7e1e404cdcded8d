------------------------- MODULE SchedWindowProofs --------------------------
(***************************************************************************)
(* Proofs about Sched, part six: where the races of sched_yield() can end. *)
(* WindowInv says what the sched_yield() of a handler may rely on and      *)
(* which threads are blocked on a queue; every step from a state of the    *)
(* inductive invariant keeps it and faults only in the windows.            *)
(***************************************************************************)
EXTENDS SchedIrqProofs, SchedYieldProofs, SchedClaims

(* A context that is at none of these control points has nothing to keep   *)
(* for HandlerInv.                                                         *)
ReadPcs == {"y_reap", "y_lock", "y_ready", "y_run"}

(* A step of the active context to another place than ReadPcs.             *)
LEMMA HandlerQuiet ==
  ASSUME TypeOK, UpInv, NEW p \in Pcs \ ReadPcs, pc' = [pc EXCEPT ![here] = p],
         cpu' \in Stacks
  PROVE  HandlerInv'
<1>1. /\ here \in Ctx
      /\ (here = thr(cpu) /\ pc[irq(cpu)] = "none") \/ here = irq(cpu)
      /\ irq(cpu') \in Ctx /\ pc \in [Ctx -> Pcs]
  BY HereFact, CtxFacts, ZenonT(60) DEF TypeOK
<1>2. pc[irq(cpu')] \in {"none", "iret"} \/ irq(cpu') = here
  <2>1. \A s \in Stacks \ {cpu} : pc[irq(s)] \in {"none", "iret"}
    BY ZenonT(30) DEF UpInv, ControlInv, IrqInv
  <2>. QED
    BY <1>1, <2>1
<1>3. pc'[irq(cpu')] = p \/ pc'[irq(cpu')] \in {"none", "iret"}
  BY <1>1, <1>2
<1>4. pc'[irq(cpu')] \notin ReadPcs
  BY <1>3 DEF ReadPcs
<1>. QED
  BY <1>4 DEF HandlerInv, ReadPcs

(* What a step may do to the threads on wait queues.                       *)
LEMMA BlockedKeeps ==
  ASSUME BlockedInv,
         \A t \in Threads : wait_queue'[t] # NoQueue =>
           \/ /\ wait_queue[t] # NoQueue
              /\ BlockedAt(t, "w_remove")' => BlockedAt(t, "w_remove")
              /\ state'[t] = state[t] \/ (state[t] # "WAITING" /\ state'[t] # "NONE")
           \/ state'[t] = "WAITING"
           \/ state'[t] # "NONE" /\ ~BlockedAt(t, "w_remove")'
  PROVE  BlockedInv'
BY Zenon DEF BlockedInv

(* A step of a thread that changes only its own part of the state.         *)
LEMMA OwnBlocked ==
  ASSUME TypeOK, UpInv, BlockedInv, here = thr(cpu),
         NEW p, pc' = [pc EXCEPT ![here] = p],
         \A c \in Ctx \ {here} : ret'[c] = ret[c],
         \A t \in Threads \ {cpu} : state'[t] = state[t] /\ wait_queue'[t] = wait_queue[t],
         cpu \in Threads => \/ wait_queue'[cpu] = NoQueue
                            \/ state'[cpu] = "WAITING"
                            \/ /\ state'[cpu] # "NONE" /\ p # "w_remove"
                               /\ ret'[here] # "w_remove"
  PROVE  BlockedInv'
<1>1. \A t \in Threads \ {cpu} : pc'[thr(t)] = pc[thr(t)] /\ ret'[thr(t)] = ret[thr(t)]
  <2>1. \A t \in Threads \ {cpu} : thr(t) \in Ctx /\ thr(t) # here
    BY CtxFacts, SetFacts, ZenonT(60) DEF TypeOK
  <2>2. pc \in [Ctx -> Pcs]
    BY ZenonT(30) DEF TypeOK
  <2>. QED
    BY <2>1, <2>2, ZenonT(30)
<1>2. \A t \in Threads \ {cpu} : BlockedAt(t, "w_remove")' => BlockedAt(t, "w_remove")
  BY <1>1 DEF BlockedAt
<1>3. pc'[thr(cpu)] = p
  BY CtxFacts DEF TypeOK
<1>4. ASSUME NEW t \in Threads, t = cpu, p # "w_remove", ret'[here] # "w_remove"
      PROVE  ~BlockedAt(t, "w_remove")'
  BY <1>3, <1>4 DEF BlockedAt
<1>. QED
  BY <1>2, <1>4, BlockedKeeps, ZenonT(30)

(* A wakeup panics only on a thread that the timer took out of a wait with *)
(* a timeout.                                                              *)
LEMMA WakeWindow ==
  ASSUME TypeOK, UpInv, BlockedInv, NEW q \in Queues, NEW W \in SUBSET Members(q),
         MarkReady(W), fault' = "wakeup"
  PROVE  \E t \in Threads : /\ wait_queue[t] # NoQueue
                            /\ BlockedAt(t, "t_remove")
                            /\ state[t] \in {"READY", "RUNNING"}
<1>1. PICK t \in W : state[t] \notin {"WAITING", "SLEEPING"}
  BY Zenon DEF MarkReady, Check
<1>2. t \in Threads /\ t \in Members(q) /\ state[t] \in States
  <2>1. waiters[q] \in Seq(Threads)
    BY DEF TypeOK
  <2>2. \A i \in DOMAIN waiters[q] : waiters[q][i] \in Threads
    BY <2>1
  <2>. QED
    BY <1>1, <2>2, SMTT(60), Z3T(60) DEF Members, TypeOK
<1>3. wait_queue[t] # NoQueue
  <2>1. wait_queue[t] = q
    BY <1>2, ZenonT(60) DEF UpInv, QueueInv
  <2>. QED
    BY <2>1, SchedAssumption
<1>4. BlockedAt(t, "t_remove") /\ state[t] # "NONE"
  <2>1. \/ BlockedAt(t, "s_check") /\ state[t] = "WAITING"
        \/ BlockedAt(t, "w_remove")
        \/ BlockedAt(t, "t_remove")
    BY <1>2, <1>3, ZenonT(60) DEF UpInv, QueueInv
  <2>. QED
    BY <1>1, <1>2, <1>3, <2>1 DEF BlockedInv
<1>5. state[t] \notin {"ZOMBIE", "DEAD"}
  <2>1. /\ state[t] \in {"ZOMBIE", "DEAD"} => pc[thr(t)] = "exit" \/ ret[thr(t)] = "exit"
        /\ pc[thr(t)] \notin YieldPcs => ret[thr(t)] = "none"
    BY <1>2, ZenonT(60) DEF UpInv, StateInv, ControlInv, PcInv
  <2>. QED
    BY <1>4, <2>1, PcFacts DEF BlockedAt
<1>. QED
  BY <1>1, <1>2, <1>3, <1>4, <1>5 DEF States

(* A step of a thread's body from g to p: what it can change of the state, *)
(* and how it leaves its own thread.                                       *)
BodyEffect(g, p) ==
  /\ At(g) /\ Goto(p)
  /\ g = "run" => \E op : op \in Ops[cpu]
  /\ cpuVars' = cpuVars
  /\ \A c \in Ctx \ {here} : ret'[c] = ret[c]
  /\ \A t \in Threads \ {current} : state'[t] = state[t] /\ wait_queue'[t] = wait_queue[t]
  /\ \/ wait_queue' = wait_queue /\ g \notin {"w_remove", "t_remove"}
     \/ state'[current] = "WAITING"
     \/ state'[current] # "NONE" /\ p # "w_remove" /\ ret'[here] # "w_remove"
  /\ fault' \notin {"stack_freed", "context_clobbered", "wakeup"}

(* No step of a thread's body that wakes nobody faults outside the windows. *)
LEMMA BodyWindow ==
  ASSUME TypeOK, UpInv, BlockedInv, NEW g \in ThreadPcs \ YieldPcs,
         NEW p \in Pcs \ ReadPcs, BodyEffect(g, p)
  PROVE  FaultWindow /\ WindowInv'
<1>. USE DEF BodyEffect
<1>1. /\ here = thr(cpu) /\ cpu \in Threads /\ current = cpu
      /\ g \notin {"w_remove", "t_remove"} => wait_queue[cpu] = NoQueue
  BY BodyHere, ZenonT(30)
<1>2. FaultWindow
  BY <1>1, Zenon DEF FaultWindow
<1>3. pc' = [pc EXCEPT ![here] = p] /\ cpu' = cpu /\ cpu' \in Stacks
  BY <1>1, SetFacts, ZenonT(30) DEF Goto, cpuVars
<1>4. HandlerInv'
  BY <1>3, HandlerQuiet, ZenonT(30)
<1>6. BlockedInv'
  BY <1>1, <1>3, OwnBlocked, ZenonT(30)
<1>. QED
  BY <1>2, <1>4, <1>6, ZenonT(30) DEF WindowInv

(* The places a step goes to where HandlerInv says nothing.                *)
LEMMA BodyPlaces ==
  /\ {"run", "sl_tick", "sl_state", "sl_return", "s_check", "exit", "w_lock", "w_remove",
      "t_now", "t_lock", "t_remove"} \subseteq (ThreadPcs \ YieldPcs) \cap (Pcs \ ReadPcs)
  /\ {"y_assert", "y_release", "y_current", "y_unlock", "y_switch", "iret", "none", "boot"}
       \subseteq Pcs \ ReadPcs
BY DEF ThreadPcs, YieldPcs, WaitPcs, Pcs, ReadPcs

(* The calls and the steps of a thread's body, but for those that wake.    *)
LEMMA BodyWindows ==
  ASSUME TypeOK, UpInv, Up, BlockedInv,
         \/ VoluntaryYield \/ sched_thread_exit
         \/ \E n \in Ticks \ {0} : sched_sleep(n)
         \/ \E q \in Queues : wait_queue_sleep(q) \/ wait_queue_wait(q)
         \/ \E q \in Queues, n \in Ticks : wait_queue_wait_timeout(q, n)
         \/ BodyStep
  PROVE  FaultWindow /\ WindowInv'
<1>. USE DEF BodyEffect, Check, threadVars, waitVars, callVars, CallYield, Up
<1>0. /\ ret \in [Ctx -> Pcs] /\ state \in [Threads -> States]
      /\ wait_queue \in [Threads -> Queues \cup {NoQueue}]
  BY ZenonT(30) DEF TypeOK
<1>. DEFINE In(g) == At(g) /\ (g = "run" => \E op : op \in Ops[cpu])
<1>a. \A g \in ThreadPcs \ YieldPcs : In(g) =>
        /\ current \in Threads /\ here \in Ctx /\ ret[here] = "none"
        /\ state[current] \in {"READY", "RUNNING"}
  BY BodyHere, HereFact, ZenonT(30)
<1>b. \A g \in {"run", "w_lock", "t_lock", "sl_state", "w_remove", "t_remove"} : In(g) =>
        /\ current \in Threads /\ here \in Ctx /\ ret[here] = "none"
        /\ state[current] \in {"READY", "RUNNING"}
  BY <1>a, BodyPlaces, ZenonT(30)
<1>1. VoluntaryYield => BodyEffect("run", "y_assert")
  BY <1>0, <1>b, Zenon DEF VoluntaryYield, Calls
<1>2. sched_thread_exit => BodyEffect("run", "y_assert")
  BY <1>0, <1>b, ZenonT(30) DEF sched_thread_exit, Calls
<1>3. \A n \in Ticks \ {0} : sched_sleep(n) => BodyEffect("run", "sl_tick")
  BY <1>0, <1>b, ZenonT(60) DEF sched_sleep, Calls
<1>4. \A q \in Queues : wait_queue_sleep(q) => BodyEffect("run", "y_assert")
  BY <1>0, <1>b, SMTT(60), Z3T(60) DEF wait_queue_sleep, Calls, Block, Enqueue, TypeOK
<1>5. \A q \in Queues : wait_queue_wait(q) => BodyEffect("run", "w_lock")
  BY <1>0, <1>b, ZenonT(60) DEF wait_queue_wait, Calls
<1>6. \A q \in Queues, n \in Ticks : wait_queue_wait_timeout(q, n) =>
        BodyEffect("run", "run") \/ BodyEffect("run", "t_now")
  BY <1>0, <1>b, Zenon DEF wait_queue_wait_timeout, Calls
<1>7. SleepTick => BodyEffect("sl_tick", "sl_state")
  BY <1>0, <1>b, Zenon DEF SleepTick
<1>8. SleepState => BodyEffect("sl_state", "y_assert")
  BY <1>0, <1>b, Zenon DEF SleepState
<1>9. SleepReturn => BodyEffect("sl_return", "run")
  BY <1>0, <1>b, Zenon DEF SleepReturn
<1>10. YieldLoop => \E g \in {"s_check", "exit"} :
         BodyEffect(g, "y_assert") \/ BodyEffect(g, "run")
  BY <1>0, <1>b, ZenonT(60) DEF YieldLoop
<1>11. WaitBlock => BodyEffect("w_lock", "y_assert")
  BY <1>0, <1>b, ZenonT(60) DEF WaitBlock, Block, Enqueue, TypeOK
<1>12. WaitDone => BodyEffect("w_lock", "run")
  BY <1>0, <1>b, Zenon DEF WaitDone
<1>13. WaitRemove => BodyEffect("w_remove", "w_lock")
  BY <1>0, <1>b, ZenonT(30) DEF WaitRemove, wait_queue_remove_locked
<1>14. TimeoutNow => BodyEffect("t_now", "t_lock")
  BY <1>0, <1>b, Zenon DEF TimeoutNow
<1>15. TimeoutBlock => BodyEffect("t_lock", "y_assert")
  BY <1>0, <1>b, Zenon DEF TimeoutBlock, Block, Enqueue
<1>16. TimeoutDone => BodyEffect("t_lock", "run")
  BY <1>0, <1>b, Zenon DEF TimeoutDone
<1>17. TimeoutRemove => BodyEffect("t_remove", "t_now")
  BY <1>0, <1>b, Zenon DEF TimeoutRemove, wait_queue_remove_locked
<1>. HIDE DEF BodyEffect, Check, threadVars, waitVars, callVars, CallYield, Up
<1>18. \E g \in ThreadPcs \ YieldPcs, p \in Pcs \ ReadPcs : BodyEffect(g, p)
  BY <1>1, <1>2, <1>3, <1>4, <1>5, <1>6, <1>7, <1>8, <1>9, <1>10, <1>11, <1>12, <1>13,
     <1>14, <1>15, <1>16, <1>17, BodyPlaces, ZenonT(60) DEF BodyStep
<1>. QED
  BY <1>18, BodyWindow, ZenonT(60)

(* Waking threads of one queue, in a thread or in a handler.               *)
LEMMA WakesWindow ==
  ASSUME TypeOK, UpInv, BlockedInv, NEW q \in Queues, NEW W \in SUBSET Members(q),
         MarkReady(W), HandlerInv',
         \A t \in Threads : pc'[thr(t)] = pc[thr(t)] /\ ret'[thr(t)] = ret[thr(t)]
  PROVE  FaultWindow /\ WindowInv'
<1>1. fault' \in {"none", "wakeup"}
  BY DEF MarkReady, Check
<1>2. FaultWindow
  BY <1>1, WakeWindow, Zenon DEF FaultWindow
<1>3. \A t \in Threads : BlockedAt(t, "w_remove")' => BlockedAt(t, "w_remove")
  BY DEF BlockedAt
<1>4. \A t \in Threads : wait_queue'[t] # NoQueue =>
        wait_queue[t] # NoQueue /\ state'[t] = state[t]
  BY Zenon DEF MarkReady
<1>5. BlockedInv'
  BY <1>3, <1>4, BlockedKeeps, ZenonT(60)
<1>. QED
  BY <1>2, <1>5, ZenonT(30) DEF WindowInv

(* The two ways of waking take their threads from the queue.               *)
LEMMA WokenMembers ==
  ASSUME TypeOK, NEW q \in Queues,
         wait_queue_wake_one_locked(q) \/ wait_queue_wake_all_locked(q)
  PROVE  \E W \in SUBSET Members(q) : MarkReady(W)
<1>1. waiters[q] # <<>> => Head(waiters[q]) \in Members(q)
  <2>1. waiters[q] \in Seq(Threads)
    BY DEF TypeOK
  <2>2. waiters[q] # <<>> => 1 \in DOMAIN waiters[q] /\ Head(waiters[q]) = waiters[q][1]
    BY <2>1
  <2>. QED
    BY <2>2 DEF Members
<1>2. CASE wait_queue_wake_one_locked(q)
  <2>. DEFINE W == IF waiters[q] = <<>> THEN {} ELSE {Head(waiters[q])}
  <2>1. W \in SUBSET Members(q)
    BY <1>1
  <2>2. MarkReady(W)
    BY <1>2 DEF wait_queue_wake_one_locked
  <2>. QED
    BY <2>1, <2>2
<1>3. CASE wait_queue_wake_all_locked(q)
  BY <1>3 DEF wait_queue_wake_all_locked
<1>. QED
  BY <1>2, <1>3

(* The calls of a thread that wake others, and the one that makes a        *)
(* condition false.                                                        *)
LEMMA WakerWindows ==
  ASSUME TypeOK, UpInv, Up, BlockedInv, NEW q \in Queues,
         wait_queue_wake_one(q) \/ wait_queue_wake_all(q) \/ Signal(q) \/ Clear(q)
  PROVE  FaultWindow /\ WindowInv'
<1>1. /\ At("run") /\ \E op : op \in Ops[cpu]
      /\ pc' = pc /\ ret' = ret /\ cpuVars' = cpuVars
  BY ZenonT(30) DEF wait_queue_wake_one, wait_queue_wake_all, Signal, Clear, Calls, callVars
<1>2. CASE Clear(q)
  <2>1. BodyEffect("run", "run")
    <3>1. state' = state /\ wait_queue' = wait_queue /\ fault' = "none"
      BY <1>2, ZenonT(30) DEF Clear, threadVars, Up
    <3>2. Goto("run")
      BY <1>1, HereFact, ZenonT(60) DEF Goto, At, TypeOK
    <3>. QED
      BY <1>1, <3>1, <3>2, ZenonT(30) DEF BodyEffect
  <2>. QED
    BY <2>1, BodyPlaces, BodyWindow, ZenonT(30)
<1>3. CASE ~Clear(q)
  <2>1. \E W \in SUBSET Members(q) : MarkReady(W)
    BY <1>3, WokenMembers, ZenonT(30) DEF wait_queue_wake_one, wait_queue_wake_all, Signal
  <2>2. HandlerInv'
    <3>1. cpu' = cpu /\ cpu \in Stacks
      BY <1>1, ZenonT(30) DEF cpuVars, TypeOK
    <3>2. pc' = [pc EXCEPT ![here] = "run"]
      BY <1>1, HereFact, ZenonT(60) DEF At, TypeOK
    <3>. QED
      BY <3>1, <3>2, BodyPlaces, HandlerQuiet, ZenonT(60)
  <2>. QED
    BY <1>1, <2>1, <2>2, WakesWindow, ZenonT(60)
<1>. QED
  BY <1>2, <1>3

(* The interrupts.                                                         *)
LEMMA InterruptWindows ==
  ASSUME TypeOK, UpInv, Up, BlockedInv, Interrupt
  PROVE  FaultWindow /\ WindowInv'
<1>1. EnterIrq /\ current' = current /\ schedule_locked' = schedule_locked
  BY ZenonT(30) DEF Interrupt, TimerIrq, DeviceIrq, schedVars
<1>2. /\ pc'[irq(cpu)] = "irq_exit" /\ cpu' = cpu
      /\ \A t \in Threads : pc'[thr(t)] = pc[thr(t)] /\ ret'[thr(t)] = ret[thr(t)]
  BY <1>1, EnterControl, SetFacts
<1>3. HandlerInv'
  BY <1>2 DEF HandlerInv
<1>4. \A t \in Threads : BlockedAt(t, "w_remove")' => BlockedAt(t, "w_remove")
  BY <1>2 DEF BlockedAt
<1>5. CASE TimerIrq
  <2>1. fault' = "none" /\ wait_queue' = wait_queue
    BY <1>5, ZenonT(30) DEF TimerIrq, waitVars, Up
  <2>2. \A t \in Threads : state'[t] = state[t] \/ (state[t] # "WAITING" /\ state'[t] # "NONE")
    BY <1>5, Zenon DEF TimerIrq, Due
  <2>3. BlockedInv'
    BY <1>4, <2>1, <2>2, BlockedKeeps, ZenonT(30)
  <2>4. FaultWindow
    BY <2>1 DEF FaultWindow
  <2>. QED
    BY <1>3, <2>3, <2>4, ZenonT(30) DEF WindowInv
<1>6. CASE \E q \in IrqQueues : DeviceIrq(q)
  <2>1. PICK q \in IrqQueues : DeviceIrq(q)
    BY <1>6
  <2>2. q \in Queues
    BY SchedAssumption
  <2>3. CASE cond[q]
    <3>1. fault' = "none" /\ wait_queue' = wait_queue /\ state' = state
      BY <2>1, <2>3 DEF DeviceIrq, Up
    <3>2. BlockedInv'
      BY <1>4, <3>1, BlockedKeeps, ZenonT(30)
    <3>3. FaultWindow
      BY <3>1 DEF FaultWindow
    <3>. QED
      BY <1>3, <3>2, <3>3, ZenonT(30) DEF WindowInv
  <2>4. CASE ~cond[q]
    <3>1. \E W \in SUBSET Members(q) : MarkReady(W)
      BY <2>1, <2>2, <2>4, WokenMembers, ZenonT(30) DEF DeviceIrq
    <3>. QED
      BY <1>2, <1>3, <2>2, <3>1, WakesWindow, ZenonT(30)
  <2>. QED
    BY <2>3, <2>4
<1>. QED
  BY <1>5, <1>6, ZenonT(30) DEF Interrupt

(* Boot, and the handler outside sched_yield().                            *)
LEMMA QuietWindows ==
  ASSUME TypeOK, UpInv, Up, BlockedInv, BootStep \/ IrqExit \/ Iret
  PROVE  FaultWindow /\ WindowInv'
<1>1. pc \in [Ctx -> Pcs] /\ cpu \in Stacks
  BY ZenonT(30) DEF TypeOK
<1>2. /\ cpu' = cpu /\ wait_queue' = wait_queue
      /\ fault' \notin {"stack_freed", "context_clobbered", "use_after_free", "transition", "wakeup"}
  BY Zenon
     DEF BootStep, kernel_thread_create, sched_start, IrqExit, Iret, cpuVars, waitVars,
     Check, Up
<1>3. FaultWindow
  BY <1>2, Zenon DEF FaultWindow
<1>4. CASE kernel_thread_create
  <2>1. /\ At("boot") /\ pc' = pc /\ ret' = ret
        /\ state' = [state EXCEPT ![next_thread_id] = "READY"]
    BY <1>4, ZenonT(30) DEF kernel_thread_create, callVars
  <2>2. pc' = [pc EXCEPT ![here] = "boot"]
    BY <2>1, <1>1, HereFact, ZenonT(30) DEF At
  <2>3. HandlerInv'
    BY <1>1, <1>2, <2>2, BodyPlaces, HandlerQuiet, ZenonT(60)
  <2>4. \A t \in Threads : BlockedAt(t, "w_remove")' => BlockedAt(t, "w_remove")
    BY <2>1 DEF BlockedAt
  <2>5. \A t \in Threads : state[t] \in {"NONE", "READY"}
    BY <2>1, BootHere, ZenonT(30)
  <2>6. \A t \in Threads : state'[t] = state[t] \/ (state[t] # "WAITING" /\ state'[t] # "NONE")
    BY <2>1, <2>5 DEF TypeOK
  <2>7. BlockedInv'
    BY <1>2, <2>4, <2>6, BlockedKeeps, ZenonT(60)
  <2>. QED
    BY <1>3, <2>3, <2>7, ZenonT(30) DEF WindowInv
<1>5. CASE sched_start \/ IrqExit \/ Iret
  <2>1. /\ state' = state
        /\ \E p \in {"y_assert", "iret", "none"} : pc' = [pc EXCEPT ![here] = p]
        /\ ret' = ret \/ ret' = [ret EXCEPT ![here] = "boot_return"]
                      \/ ret' = [ret EXCEPT ![here] = "iret"]
        /\ pc[here] \in {"boot", "irq_exit", "iret"}
    BY <1>5, ZenonT(30)
       DEF sched_start, IrqExit, Iret, CallYield, Goto, At, threadVars, callVars
  <2>2. HandlerInv'
    BY <1>1, <1>2, <2>1, BodyPlaces, HandlerQuiet, ZenonT(60)
  <2>3. \A t \in Threads : thr(t) \in Ctx /\ thr(t) # here
    <3>1. \A t \in Threads : thr(t) \in Ctx /\ pc[thr(t)] \in ThreadPcs
      BY CtxFacts, SetFacts, ZenonT(60) DEF UpInv, ControlInv, PcInv
    <3>2. {"boot", "irq_exit", "iret"} \cap ThreadPcs = {}
      BY PcFacts
    <3>. QED
      BY <2>1, <3>1, <3>2
  <2>4. \A t \in Threads : pc'[thr(t)] = pc[thr(t)] /\ ret'[thr(t)] = ret[thr(t)]
    <3>1. ret \in [Ctx -> Pcs]
      BY ZenonT(30) DEF TypeOK
    <3>. QED
      BY <1>1, <2>1, <2>3, <3>1, ZenonT(60)
  <2>5. \A t \in Threads : BlockedAt(t, "w_remove")' => BlockedAt(t, "w_remove")
    BY <2>4 DEF BlockedAt
  <2>6. BlockedInv'
    BY <1>2, <2>1, <2>5, BlockedKeeps, ZenonT(30)
  <2>. QED
    BY <1>3, <2>2, <2>6, ZenonT(30) DEF WindowInv
<1>. QED
  BY <1>4, <1>5, ZenonT(30) DEF BootStep

(* A step of sched_yield() to another of its control points that changes   *)
(* no queue keeps the blocked threads blocked.                             *)
LEMMA YieldBlocked ==
  ASSUME TypeOK, UpInv, BlockedInv, NEW h \in Ctx, ActiveCtx(h), pc[h] \in YieldPcs,
         NEW p \in YieldPcs, pc' = [pc EXCEPT ![h] = p], ret' = ret,
         wait_queue' = wait_queue,
         \A t \in Threads : state'[t] = state[t] \/ (state[t] # "WAITING" /\ state'[t] # "NONE")
  PROVE  BlockedInv'
<1>1. \A t \in Threads : BlockedAt(t, "w_remove")' => BlockedAt(t, "w_remove")
  BY YieldStays, PcFacts, ZenonT(30)
<1>. QED
  BY <1>1, BlockedKeeps, ZenonT(30)

(* Where sched_yield() returns to.                                         *)
LEMMA ReturnBlocked ==
  ASSUME TypeOK, UpInv, BlockedInv, pc[here] \in YieldPcs, Return,
         wait_queue' = wait_queue, state' = state, cpu' \in Stacks
  PROVE  HandlerInv' /\ BlockedInv'
<1>1. /\ pc' = [pc EXCEPT ![here] = ret[here]] /\ ret' = [ret EXCEPT ![here] = "none"]
      /\ pc \in [Ctx -> Pcs] /\ ret \in [Ctx -> Pcs] /\ here \in Ctx
  BY HereFact, ZenonT(60) DEF Return, Goto, TypeOK
<1>2. ret[here] \in ThreadRets \cup {"iret", "boot_return"}
  <2>1. \E s \in Stacks : here = thr(s) \/ here = irq(s)
    BY <1>1, CtxFacts
  <2>. QED
    BY <2>1, SetFacts, ZenonT(60) DEF UpInv, ControlInv, PcInv
<1>3. ret[here] \in Pcs \ ReadPcs
  BY <1>1, <1>2 DEF ThreadRets, ReadPcs
<1>4. HandlerInv'
  BY <1>1, <1>3, HandlerQuiet, ZenonT(60)
<1>5. \A t \in Threads : BlockedAt(t, "w_remove")' => BlockedAt(t, "w_remove")
  <2>1. \A t \in Threads : thr(t) \in Ctx
    BY CtxFacts, SetFacts
  <2>2. \A t \in Threads : \/ pc'[thr(t)] = pc[thr(t)] /\ ret'[thr(t)] = ret[thr(t)]
                           \/ pc'[thr(t)] = ret[thr(t)] /\ ret'[thr(t)] = "none"
    BY <1>1, <2>1, ZenonT(30)
  <2>. QED
    BY <2>2 DEF BlockedAt
<1>6. BlockedInv'
  BY <1>5, BlockedKeeps, ZenonT(30)
<1>. QED
  BY <1>4, <1>6

(* The steps of sched_yield() up to the choice of the next thread.         *)
LEMMA EarlyWindows ==
  ASSUME TypeOK, UpInv, Up, HandlerInv, BlockedInv,
         YieldAssert \/ YieldReap \/ YieldRelease \/ YieldPick \/ YieldNothing
  PROVE  FaultWindow /\ WindowInv'
<1>1. PICK h \in Ctx : h = here /\ ActiveCtx(h)
  BY Active
<1>2. /\ pc \in [Ctx -> Pcs] /\ head \in [Ctx -> Stacks] /\ cpu \in Stacks
      /\ next \in [Ctx -> Stacks] /\ irq(cpu) \in Ctx
      /\ h = irq(cpu) \/ (h = thr(cpu) /\ pc[irq(cpu)] = "none" /\ irq(cpu) # h)
  BY <1>1, CtxFacts, ZenonT(60) DEF TypeOK, ActiveCtx
<1>3. /\ queued = {t \in Threads : state[t] \notin {"NONE", "DEAD"}}
      /\ freed \subseteq {t \in Threads : state[t] = "DEAD"}
      /\ 0 \notin Threads
  BY SetFacts, ZenonT(60) DEF UpInv, StateInv, Boot
<1>4. CASE YieldAssert
  <2>1. /\ pc[h] = "y_assert" /\ pc' = [pc EXCEPT ![h] = "y_reap"] /\ ret' = ret
        /\ \E first \in run_queue_head : head' = [head EXCEPT ![h] = first]
        /\ cpu' = cpu /\ state' = state /\ wait_queue' = wait_queue /\ queued' = queued
    BY <1>1, <1>4, ZenonT(30) DEF YieldAssert, At, Goto, threadVars, waitVars, cpuVars
  <2>2. FaultWindow
    BY <1>4, Zenon DEF YieldAssert, Check, FaultWindow
  <2>3. run_queue_head \subseteq queued \cup {0}
    BY DEF run_queue_head, Oldest
  <2>4. pc'[irq(cpu)] = "y_reap" => head'[irq(cpu)] \in queued \cup {0}
    BY <1>2, <2>1, <2>3
  <2>5. pc'[irq(cpu)] \notin {"y_lock", "y_ready", "y_run"}
    BY <1>2, <2>1
  <2>6. HandlerInv'
    BY <2>1, <2>4, <2>5 DEF HandlerInv
  <2>7. BlockedInv'
    BY <1>1, <2>1, YieldBlocked, PcFacts, ZenonT(60)
  <2>. QED
    BY <2>2, <2>6, <2>7, ZenonT(60) DEF WindowInv
<1>5. CASE YieldReap
  <2>1. /\ pc[h] = "y_reap" /\ pc' = [pc EXCEPT ![h] = "y_release"] /\ ret' = ret
        /\ cpu' = cpu /\ wait_queue' = wait_queue
    BY <1>1, <1>5, ZenonT(60) DEF YieldReap, At, Goto, waitVars, cpuVars
  <2>2. h = irq(cpu) => head[h] \notin freed
    BY <1>3, <2>1, ZenonT(60) DEF HandlerInv
  <2>3. FaultWindow
    BY <1>1, <1>2, <1>5, <2>2, ZenonT(60) DEF YieldReap, Check, FaultWindow
  <2>4. \A t \in Threads : state'[t] = state[t] \/ (state[t] # "WAITING" /\ state'[t] # "NONE")
    BY <1>5, Zenon DEF YieldReap, Reapable
  <2>5. HandlerInv'
    BY <1>1, <1>2, <2>1, BodyPlaces, HandlerQuiet, ZenonT(60)
  <2>6. BlockedInv'
    BY <1>1, <2>1, <2>4, YieldBlocked, PcFacts, ZenonT(60)
  <2>. QED
    BY <2>3, <2>5, <2>6, ZenonT(30) DEF WindowInv
<1>6. CASE YieldRelease
  <2>1. /\ pc[h] = "y_release" /\ pc' = pc /\ ret' = ret
        /\ cpu' = cpu /\ wait_queue' = wait_queue /\ state' = state
        /\ fault' \in {"none", "release", "stack_freed"}
        /\ fault' = "stack_freed" => current # cpu
    BY <1>1, <1>6, ZenonT(60) DEF YieldRelease, At, waitVars, cpuVars
  <2>2. current # cpu => h = irq(cpu) /\ pc[thr(cpu)] \in AwayPcs
    <3>1. current = IF pc[irq(cpu)] \in AwayPcs THEN next[irq(cpu)]
                    ELSE IF pc[thr(cpu)] \in AwayPcs THEN next[thr(cpu)] ELSE cpu
      BY ZenonT(30) DEF UpInv, ControlInv, CurrentInv
    <3>. QED
      BY <1>2, <2>1, <3>1, PcFacts
  <2>3. FaultWindow
    BY <1>1, <2>1, <2>2, ZenonT(60) DEF FaultWindow
  <2>4. pc' = [pc EXCEPT ![h] = "y_release"]
    BY <1>2, <2>1, ZenonT(60)
  <2>5. HandlerInv'
    BY <1>1, <1>2, <2>1, <2>4, BodyPlaces, HandlerQuiet, ZenonT(60)
  <2>6. BlockedInv'
    BY <1>1, <2>1, <2>4, YieldBlocked, PcFacts, ZenonT(60)
  <2>. QED
    BY <2>3, <2>5, <2>6, ZenonT(30) DEF WindowInv
<1>7. CASE YieldPick
  <2>1. PICK n \in next_runnable_thread : next' = [next EXCEPT ![h] = n]
    BY <1>1, <1>7, ZenonT(60) DEF YieldPick
  <2>2. /\ pc[h] = "y_release" /\ pc' = [pc EXCEPT ![h] = "y_lock"] /\ ret' = ret
        /\ cpu' = cpu /\ wait_queue' = wait_queue /\ state' = state /\ fault' = "none"
    BY <1>1, <1>7, ZenonT(60) DEF YieldPick, At, Goto, threadVars, waitVars, cpuVars
  <2>3. state[n] = "READY"
    BY <2>1, ZenonT(60) DEF next_runnable_thread, Runnable, Oldest
  <2>4. HandlerInv'
    <3>1. h = irq(cpu) => pc'[irq(cpu)] = "y_lock" /\ next'[irq(cpu)] = n
      BY <1>2, <2>1, <2>2
    <3>2. h = thr(cpu) => pc'[irq(cpu)] = "none" \/ h = irq(cpu)
      BY <1>2, <2>2
    <3>. QED
      BY <1>2, <2>2, <2>3, <3>1, <3>2 DEF HandlerInv
  <2>5. BlockedInv'
    BY <1>1, <2>2, YieldBlocked, PcFacts, ZenonT(60)
  <2>6. FaultWindow
    BY <2>2 DEF FaultWindow
  <2>. QED
    BY <2>4, <2>5, <2>6, ZenonT(30) DEF WindowInv
<1>8. CASE YieldNothing
  <2>1. /\ pc[here] \in YieldPcs /\ Return /\ wait_queue' = wait_queue /\ state' = state
        /\ cpu' \in Stacks
    BY <1>2, <1>8, PcFacts, ZenonT(60) DEF YieldNothing, At, threadVars, waitVars, cpuVars
  <2>2. FaultWindow
    BY <1>8, Zenon DEF YieldNothing, Check, FaultWindow
  <2>. QED
    BY <2>1, <2>2, ReturnBlocked, ZenonT(60) DEF WindowInv
<1>. QED
  BY <1>4, <1>5, <1>6, <1>7, <1>8

(* The steps of sched_yield() from the choice of the next thread on.       *)
LEMMA SwitchWindows ==
  ASSUME TypeOK, UpInv, Up, HandlerInv, BlockedInv,
         YieldLock \/ YieldReady \/ YieldRun \/ YieldCurrent \/ YieldUnlock \/ YieldSwitch
  PROVE  FaultWindow /\ WindowInv'
<1>1. PICK h \in Ctx : h = here /\ ActiveCtx(h)
  BY Active
<1>2. /\ pc \in [Ctx -> Pcs] /\ state \in [Threads -> States] /\ cpu \in Stacks
      /\ next \in [Ctx -> Stacks] /\ irq(cpu) \in Ctx
      /\ h = irq(cpu) \/ (h = thr(cpu) /\ pc[irq(cpu)] = "none" /\ irq(cpu) # h)
  BY <1>1, CtxFacts, ZenonT(60) DEF TypeOK, ActiveCtx
<1>3. pc[h] \in PickedPcs =>
        /\ next[h] \in Threads /\ next[h] # prev[h]
        /\ prev[h] = cpu \/ (h = irq(cpu) /\ pc[thr(cpu)] \in AwayPcs)
  <2>1. CurrentInv
    BY ZenonT(30) DEF UpInv, ControlInv
  <2>. QED
    BY <1>2, <2>1, Zenon DEF CurrentInv
<1>4. CASE YieldLock \/ YieldReady
  <2>1. /\ pc[h] \in {"y_lock", "y_ready"} /\ ret' = ret /\ next' = next
        /\ cpu' = cpu /\ wait_queue' = wait_queue /\ fault' = "none"
        /\ \E p \in {"y_ready", "y_run"} : pc' = [pc EXCEPT ![h] = p]
    BY <1>1, <1>4, ZenonT(60) DEF YieldLock, YieldReady, At, Goto, Up, waitVars, cpuVars,
       callVars, localVars
  <2>2. \A t \in Threads : state'[t] = state[t] \/
          (t = prev[h] /\ state[t] = "RUNNING" /\ state'[t] = "READY")
    BY <1>1, <1>2, <1>4, ZenonT(60) DEF YieldLock, YieldReady, threadVars
  <2>3. HandlerInv'
    <3>1. h = irq(cpu) => state'[next[h]] = "READY"
      BY <1>3, <2>1, <2>2, PcFacts, SMTT(60) DEF HandlerInv
    <3>2. h # irq(cpu) => pc'[irq(cpu)] = "none"
      BY <1>2, <2>1
    <3>3. h = irq(cpu) => pc'[irq(cpu)] \in {"y_ready", "y_run"}
      BY <1>2, <2>1
    <3>. QED
      BY <2>1, <3>1, <3>2, <3>3, ZenonT(60) DEF HandlerInv
  <2>4. BlockedInv'
    <3>1. \A t \in Threads : state'[t] = state[t] \/ (state[t] # "WAITING" /\ state'[t] # "NONE")
      BY <2>2
    <3>2. pc[h] \in YieldPcs /\ {"y_ready", "y_run"} \subseteq YieldPcs
      BY <2>1, PcFacts
    <3>. QED
      BY <1>1, <2>1, <3>1, <3>2, YieldBlocked, ZenonT(60)
  <2>5. FaultWindow
    BY <2>1 DEF FaultWindow
  <2>. QED
    BY <2>3, <2>4, <2>5, ZenonT(60) DEF WindowInv
<1>5. CASE YieldRun
  <2>1. /\ pc[h] = "y_run" /\ pc' = [pc EXCEPT ![h] = "y_current"] /\ ret' = ret
        /\ cpu' = cpu /\ wait_queue' = wait_queue
        /\ state' = [state EXCEPT ![next[h]] = "RUNNING"]
    BY <1>1, <1>5, ZenonT(30) DEF YieldRun, At, Goto, waitVars, cpuVars, callVars
  <2>2. /\ fault' \in {"none", "use_after_free", "transition"}
        /\ h = irq(cpu) => fault' = "none"
        /\ fault' = "none" => state[next[h]] # "WAITING"
    <3>1. freed \subseteq {t \in Threads : state[t] = "DEAD"}
      BY ZenonT(60) DEF UpInv, StateInv
    <3>2. h = irq(cpu) => state[next[h]] = "READY"
      BY <2>1 DEF HandlerInv
    <3>. QED
      BY <1>1, <1>5, <3>1, <3>2, ZenonT(60) DEF YieldRun, thread_state_transition_is_valid
  <2>3. FaultWindow
    BY <1>1, <1>2, <2>2, ZenonT(60) DEF FaultWindow
  <2>4. HandlerInv'
    BY <1>1, <1>2, <2>1, BodyPlaces, HandlerQuiet, ZenonT(60)
  <2>5. ASSUME fault' = "none" PROVE BlockedInv'
    <3>1. \A t \in Threads : state'[t] = state[t] \/ (state[t] # "WAITING" /\ state'[t] # "NONE")
      BY <1>2, <2>1, <2>2, <2>5, ZenonT(60)
    <3>. QED
      BY <1>1, <2>1, <3>1, YieldBlocked, PcFacts, ZenonT(60)
  <2>. QED
    BY <2>3, <2>4, <2>5, ZenonT(30) DEF WindowInv, Up
<1>6. CASE YieldCurrent \/ YieldUnlock
  <2>1. /\ pc[h] \in {"y_current", "y_unlock"} /\ ret' = ret
        /\ cpu' = cpu /\ wait_queue' = wait_queue /\ state' = state /\ fault' = "none"
        /\ \E p \in {"y_unlock", "y_switch"} : pc' = [pc EXCEPT ![h] = p]
    BY <1>1, <1>6, ZenonT(60)
       DEF YieldCurrent, YieldUnlock, At, Goto, Up, threadVars, waitVars,
       cpuVars, callVars
  <2>2. HandlerInv'
    BY <1>1, <1>2, <2>1, BodyPlaces, HandlerQuiet, ZenonT(60)
  <2>3. pc[h] \in YieldPcs /\ {"y_unlock", "y_switch"} \subseteq YieldPcs
    BY <2>1, PcFacts
  <2>4. BlockedInv'
    BY <1>1, <2>1, <2>3, YieldBlocked, ZenonT(60)
  <2>5. FaultWindow
    BY <2>1 DEF FaultWindow
  <2>. QED
    BY <2>2, <2>4, <2>5, ZenonT(30) DEF WindowInv
<1>7. CASE YieldSwitch
  <2>1. /\ pc[here] \in YieldPcs /\ pc[h] \in PickedPcs /\ Return
        /\ wait_queue' = wait_queue /\ state' = state /\ cpu' \in Stacks
    BY <1>1, <1>2, <1>7, PcFacts, ZenonT(60) DEF YieldSwitch, At, threadVars, waitVars
  <2>2. FaultWindow
    BY <1>1, <1>3, <1>7, <2>1, ZenonT(60) DEF YieldSwitch, Check, FaultWindow
  <2>. QED
    BY <2>1, <2>2, ReturnBlocked, ZenonT(60) DEF WindowInv
<1>. QED
  BY <1>4, <1>5, <1>6, <1>7
====
