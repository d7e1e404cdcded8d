---------------------------- MODULE SchedProofs -----------------------------
(***************************************************************************)
(* Proofs about Sched, part seven: a device interrupt keeps the inductive  *)
(* invariant.  So every step does, it is an invariant, and the properties  *)
(* follow from it.                                                         *)
(***************************************************************************)
EXTENDS SchedWaitProofs, SchedSwitchProofs, SchedWindowProofs,
        WellFoundedInduction, NaturalsInduction

(* A device interrupt that wakes one waiter keeps the invariant.           *)
LEMMA DeviceIrq_step ==
  ASSUME TypeOK, UpInv, Up, NEW q \in IrqQueues, DeviceIrq(q)
  PROVE  IInv'
<1>1. /\ EnterIrq /\ current' = current /\ schedule_locked' = schedule_locked
      /\ need_resched' = need_resched
      /\ queued' = queued /\ next_thread_id' = next_thread_id /\ freed' = freed
      /\ UNCHANGED <<target, left, expired>>
  BY DEF DeviceIrq, schedVars, argVars
<1>2. q \in Queues /\ cond' = [cond EXCEPT ![q] = TRUE] /\ cond' \in [Queues -> BOOLEAN]
  BY SchedAssumption DEF DeviceIrq, TypeOK
<1>3. \A x \in Queues : cond'[x] => cond[x] \/ x \in IrqQueues
  BY <1>2 DEF TypeOK
<1>4. /\ pc' \in [Ctx -> Pcs] /\ irq_depth' \in {0, 1} /\ cpu' = cpu /\ iflag' \in BOOLEAN
      /\ inirq' \in [Stacks -> BOOLEAN] /\ UNCHANGED <<ret, prev, next, head, reap_list>>
      /\ ControlInv'
  BY <1>1, EnterControl
<1>5. CASE cond[q]
  <2>1. UNCHANGED <<state, wake_in, wait_queue, waiters, fault>>
    BY <1>5, Zenon DEF DeviceIrq
  <2>2. BootInv' /\ RunningInv' /\ StateInv'
    BY <1>1, <2>1, EnterState, ZenonT(60) DEF UpInv, StateInv
  <2>3. QueueInv'
    <3>1. QueueInv
      BY DEF UpInv
    <3>2. \A x \in Queues : cond'[x] => cond[x]
      BY <1>2, <1>5, ZenonT(60) DEF TypeOK
    <3>3. \A t \in Threads : InWait(t)' => target'[t] \in Queues
      BY <1>1, <3>1, EnterWaits, ZenonT(60) DEF QueueInv
    <3>. QED
      BY <3>1, <3>2, <3>3, <1>1, <2>1, EnterWaits, QueueQuiet, ZenonT(60)
  <2>4. TypeOK'
    BY <1>1, <1>2, <1>4, <2>1, ZenonT(60) DEF TypeOK
  <2>5. AssertionsHold'
    BY <2>1 DEF Up, AssertionsHold
  <2>. QED
    BY <1>4, <2>2, <2>3, <2>4, <2>5, ZenonT(60) DEF IInv, UpInv
<1>6. CASE ~cond[q]
  <2>1. PICK W \in SUBSET Threads :
           /\ MarkReady(W)
           /\ waiters' \in [Queues -> Seq(Threads)]
           /\ \A x \in Queues : /\ Elems(waiters'[x]) = Elems(waiters[x]) \ W
                                /\ Distinct(waiters'[x])
    BY <1>2, <1>6, WakeOneLists, ZenonT(60) DEF DeviceIrq
  <2>2. TypeOK'
    <3>1. /\ state' \in [Threads -> States]
          /\ wake_in' \in [Threads -> Ticks \cup {Cleared}]
          /\ wait_queue' \in [Threads -> Queues \cup {NoQueue}]
          /\ fault' \in {"none"} \cup Panics \cup Undefined
      BY <2>1 DEF MarkReady, Check, TypeOK, States, Panics
    <3>. QED
      BY <3>1, <2>1, <1>1, <1>2, <1>4, ZenonT(60) DEF TypeOK
  <2>3. AssertionsHold'
    BY <2>1 DEF MarkReady, Check, AssertionsHold
  <2>4. ASSUME Up' PROVE UpInv'
    <3>1. /\ \A t \in W : state[t] \in {"WAITING", "SLEEPING"}
          /\ \A t \in Threads : state'[t] = IF t \in W THEN "READY" ELSE state[t]
          /\ \A t \in Threads : wait_queue'[t] = IF t \in W THEN NoQueue ELSE wait_queue[t]
      BY <2>1, <2>4, Zenon DEF MarkReady, Check, Up
    <3>2. \A t \in Threads : state[t] = "DEAD" => wake_in'[t] = Cleared
      <4>1. \A t \in Threads : state[t] = "DEAD" => wake_in[t] = Cleared
        BY ZenonT(30) DEF UpInv, StateInv
      <4>. QED
        BY <4>1, <2>1, <3>1, ZenonT(60) DEF MarkReady
    <3>3. BootInv' /\ RunningInv' /\ StateInv'
      BY <1>1, <3>1, <3>2, EnterState, ZenonT(60)
    <3>4. QueueInv'
      BY <1>1, <1>3, <2>1, <3>1, EnterWaits, QueueTake, ZenonT(60) DEF UpInv
    <3>. QED
      BY <1>4, <3>3, <3>4, ZenonT(60) DEF UpInv
  <2>. QED
    BY <2>2, <2>3, <2>4 DEF IInv
<1>. QED
  BY <1>5, <1>6

(* A run queue that is not empty has a head.                               *)
LEMMA OldestExists ==
  \A S \in SUBSET Threads : S # {} => Oldest(S) # {}
<1>. SUFFICES ASSUME NEW S \in SUBSET Threads, S # {} PROVE Oldest(S) # {}
  OBVIOUS
<1>1. S \subseteq Nat
  BY DEF Threads
<1>2. PICK t \in S : \A u \in S : ~ (<<u, t>> \in OpToRel(<, Nat))
  BY <1>1, NatLessThanWellFounded, WFMin, ZenonT(30)
<1>3. ASSUME NEW u \in S PROVE t <= u
  <2>1. u \in Nat /\ t \in Nat
    BY <1>1
  <2>2. CASE u < t
    <3>1. <<u, t>> \in OpToRel(<, Nat)
      BY <2>1, <2>2 DEF OpToRel
    <3>. QED
      BY <3>1, <1>2, ZenonT(30)
  <2>. QED
    BY <2>1, <2>2, SMTT(60), Z3T(60)
<1>. QED
  BY <1>3 DEF Oldest

(* After a fault nothing happens any more.                                 *)
LEMMA NextHalted ==
  ASSUME Next, fault # "none"
  PROVE  arch_halt_forever
BY ZenonT(30) DEF Next, BootStep, CallStep, BodyStep, Yield, Interrupt, At,
   Calls, EnterIrq,
   kernel_thread_create, sched_start, VoluntaryYield, sched_sleep, wait_queue_sleep,
   wait_queue_wait, wait_queue_wait_timeout, wait_queue_wake_one, wait_queue_wake_all,
   Signal, Clear, sched_thread_exit, SleepTick, SleepState, SleepReturn, YieldLoop,
   WaitBlock, WaitDone, WaitRemove, TimeoutNow, TimeoutBlock, TimeoutDone,
      TimeoutRemove,
   Compute, YieldAssert, YieldReap, YieldRelease, YieldPick, YieldNothing, YieldLock,
   YieldReady, YieldRun, YieldCurrent, YieldUnlock, YieldSwitch, IrqExit, Iret,
   TimerIrq, DeviceIrq

(* Every step of the scheduler keeps the inductive invariant.              *)
LEMMA NextIInv ==
  ASSUME IInv, [Next]_vars
  PROVE  IInv'
<1>1. CASE UNCHANGED vars
  BY <1>1, StutterIInv
<1>2. CASE Next /\ fault # "none"
  <2>1. arch_halt_forever
    BY <1>2, NextHalted
  <2>. QED
    BY <2>1, StutterIInv DEF arch_halt_forever
<1>3. CASE Next /\ fault = "none"
  <2>1. TypeOK /\ UpInv /\ Up
    BY <1>3 DEF IInv, Up
  <2>2. CASE BootStep
    BY <2>1, <2>2, kernel_thread_create_step, sched_start_step, ZenonT(60) DEF BootStep
  <2>3. CASE CallStep
    BY <2>1, <2>3, VoluntaryYield_step, sched_sleep_step, wait_queue_sleep_step,
       wait_queue_wait_step, wait_queue_wait_timeout_step, wait_queue_wake_one_step,
       wait_queue_wake_all_step, Signal_step, Clear_step, sched_thread_exit_step, ZenonT(60)
       DEF CallStep
  <2>4. CASE BodyStep
    BY <2>1, <2>4, SleepTick_step, SleepState_step, SleepReturn_step, YieldLoop_step,
       WaitBlock_step, WaitDone_step, WaitRemove_step, TimeoutNow_step, TimeoutBlock_step,
       TimeoutDone_step, TimeoutRemove_step, ZenonT(60) DEF BodyStep
  <2>5. CASE Yield
    BY <2>1, <2>5, YieldAssert_step, YieldReap_step, YieldRelease_step, YieldPick_step,
       OldestExists, YieldNothing_step, YieldLock_step, YieldReady_step, YieldRun_step,
       YieldCurrent_step,
       YieldUnlock_step, YieldSwitch_step, ZenonT(60) DEF Yield
  <2>6. CASE IrqExit
    BY <2>1, <2>6, IrqExit_step
  <2>7. CASE Iret
    BY <2>1, <2>7, Iret_step
  <2>8. CASE Interrupt
    BY <2>1, <2>8, TimerIrq_step, DeviceIrq_step DEF Interrupt
  <2>9. CASE Compute \/ arch_halt_forever
    BY <2>9, StutterIInv DEF Compute, arch_halt_forever
  <2>. QED
    BY <1>3, <2>2, <2>3, <2>4, <2>5, <2>6, <2>7, <2>8, <2>9, ZenonT(60) DEF Next
<1>. QED
  BY <1>1, <1>2, <1>3

(* IInv is an invariant of the scheduler, for every number of threads,     *)
(* every set of queues and whatever calls the threads make.                *)
THEOREM Invariance ==
  Spec => []IInv
<1>1. IInv /\ [Next]_vars => IInv'
  BY NextIInv
<1>. QED
  BY InitIInv, <1>1, PTL DEF Spec

(* Every variable of the scheduler keeps its type.                         *)
THEOREM SchedTypeOK ==
  Spec => []TypeOK
<1>1. IInv => TypeOK
  BY ZenonT(60) DEF IInv
<1>. QED
  BY <1>1, Invariance, PTL

(* kernel_thread_create() and sched_reap_dead_threads() keep the run queue *)
(* exact: it holds the threads created and not reaped, and only reaped     *)
(* ones have been freed.                                                   *)
THEOREM SchedRunQueueExact ==
  Spec => []RunQueueExact
<1>1. IInv => RunQueueExact
  BY ZenonT(60) DEF IInv, UpInv, StateInv, RunQueueExact
<1>. QED
  BY <1>1, Invariance, PTL

(* The wait queue functions keep thread->wait_queue and the lists in       *)
(* agreement, and a WAITING thread can be found by a wakeup.               *)
THEOREM SchedWaitQueueExact ==
  Spec => []WaitQueueExact
<1>1. IInv => WaitQueueExact
  BY ZenonT(60) DEF IInv, UpInv, QueueInv, WaitQueueExact
<1>. QED
  BY <1>1, Invariance, PTL

(* wait_queue_wait() and wait_queue_wait_timeout() lose no wakeup that is  *)
(* sent under the queue lock.                                              *)
THEOREM SchedNoLostWakeup ==
  Spec => []NoLostWakeup
<1>1. IInv => NoLostWakeup
  BY ZenonT(60) DEF IInv, UpInv, QueueInv, NoLostWakeup
<1>. QED
  BY <1>1, Invariance, PTL

(* A blocking call that has returned has left its thread on no wait queue. *)
THEOREM SchedBodyOffQueue ==
  Spec => []BodyOffQueue
<1>1. IInv => BodyOffQueue
  <2>. SUFFICES ASSUME TypeOK, UpInv, cpu \in Threads,
                       pc[thr(cpu)] \in {"run", "sl_tick", "sl_state"}
                PROVE  wait_queue[cpu] = NoQueue
    BY ZenonT(30) DEF IInv, BodyOffQueue, thr
  <2>1. ret[thr(cpu)] = "none"
    BY PcFacts, ZenonT(60) DEF UpInv, ControlInv, PcInv
  <2>. QED
    BY <2>1, ZenonT(60) DEF UpInv, QueueInv, BlockedAt
<1>. QED
  BY <1>1, Invariance, PTL

(* sched_yield() has at most one thread RUNNING at each of its steps,      *)
(* whatever interrupts it.                                                 *)
THEOREM SchedOneRunning ==
  Spec => []OneRunning
<1>1. IInv => OneRunning
  <2>. SUFFICES ASSUME TypeOK, UpInv, NEW t \in Threads, NEW u \in Threads,
                       state[t] = "RUNNING", state[u] = "RUNNING"
                PROVE  t = u
    BY Zenon DEF IInv, OneRunning
  <2>1. /\ cpu \in Stacks /\ thr(cpu) \in Ctx /\ irq(cpu) \in Ctx /\ thr(cpu) # irq(cpu)
        /\ "y_current" \in PickedPcs /\ "y_current" \notin AwayPcs
        /\ "y_current" \in LockedPcs /\ "y_current" \in YieldPcs /\ AwayPcs \subseteq PickedPcs
    BY CtxFacts, PcFacts, ZenonT(60) DEF TypeOK
  <2>2. ~(pc[thr(cpu)] = "y_current" /\ pc[irq(cpu)] = "y_current")
    BY <2>1, ZenonT(60) DEF UpInv, ControlInv, LockInv
  <2>3. \A c \in {thr(cpu), irq(cpu)}, x \in Threads :
          pc[c] = "y_current" /\ state[x] = "RUNNING" /\ x = current => FALSE
    <3>1. RunningInv /\ CurrentInv /\ LockInv
      BY ZenonT(30) DEF UpInv, ControlInv
    <3>. QED
      BY <3>1, <2>1, SetFacts, PcFacts, SMTT(60), Z3T(60)
         DEF RunningInv, CurrentInv, LockInv
  <2>. QED
    BY <2>2, <2>3, SMTT(60), Z3T(60) DEF UpInv, RunningInv
<1>. QED
  BY <1>1, Invariance, PTL

(* The panics that guard sched_yield(), sched_irq_exit(), the wait queues  *)
(* and the reaper cannot fire.                                             *)
THEOREM SchedAssertionsHold ==
  Spec => []AssertionsHold
<1>1. IInv => AssertionsHold
  BY DEF IInv
<1>. QED
  BY <1>1, Invariance, PTL

----------------------------------------------------------------------------
(* Every step keeps WindowInv, and faults only in the windows.             *)
LEMMA NextWindow ==
  ASSUME IInv, WindowInv, [Next]_vars
  PROVE  WindowInv' /\ [Up => FaultWindow]_vars
<1>1. CASE UNCHANGED vars
  <2>1. UNCHANGED <<state, queued, wait_queue, cpu, pc, ret, next, head, fault>>
    BY <1>1, ZenonT(30) DEF vars, threadVars, waitVars, cpuVars, callVars, localVars
  <2>. QED
    BY <1>1, <2>1 DEF WindowInv, HandlerInv, BlockedInv, BlockedAt, Up
<1>2. CASE Next /\ fault # "none"
  <2>1. arch_halt_forever
    BY <1>2, NextHalted
  <2>. QED
    BY <1>1, <2>1 DEF arch_halt_forever
<1>3. CASE Next /\ fault = "none"
  <2>1. TypeOK /\ UpInv /\ Up /\ HandlerInv /\ BlockedInv
    BY <1>3, ZenonT(30) DEF IInv, WindowInv, Up
  <2>2. CASE BootStep \/ IrqExit \/ Iret
    BY <2>1, <2>2, QuietWindows, ZenonT(30)
  <2>3. CASE CallStep \/ BodyStep
    BY <2>1, <2>3, BodyWindows, WakerWindows, ZenonT(60) DEF CallStep
  <2>4. CASE Yield
    BY <2>1, <2>4, EarlyWindows, SwitchWindows, ZenonT(60) DEF Yield
  <2>5. CASE Interrupt
    BY <2>1, <2>5, InterruptWindows, ZenonT(30)
  <2>6. CASE Compute \/ arch_halt_forever
    BY <1>1, <2>6 DEF Compute, arch_halt_forever
  <2>. QED
    BY <1>3, <2>2, <2>3, <2>4, <2>5, <2>6, ZenonT(60) DEF Next
<1>. QED
  BY <1>1, <1>2, <1>3

(* The faults that the races of the scheduler end in, a stack freed or     *)
(* saved for the wrong thread, a freed thread used, a refused transition   *)
(* and the panic of a wakeup, happen only in the windows of FaultWindows:  *)
(* between the store to current_thread and the switch, where a thread acts *)
(* with interrupts on on what it read, and in a timed wait that is over.   *)
THEOREM SchedFaultWindows ==
  Spec => FaultWindows
<1>1. Init => WindowInv
  <2>. SUFFICES ASSUME Init PROVE HandlerInv /\ BlockedInv
    BY DEF WindowInv
  <2>1. pc[irq(cpu)] = "none"
    BY CtxFacts, SetFacts, ZenonT(60) DEF Init, irq
  <2>2. \A t \in Threads : wait_queue[t] = NoQueue
    BY DEF Init
  <2>. QED
    BY <2>1, <2>2 DEF HandlerInv, BlockedInv
<1>2. IInv /\ WindowInv /\ [Next]_vars => WindowInv' /\ [Up => FaultWindow]_vars
  BY NextWindow
<1>. QED
  BY <1>1, <1>2, Invariance, PTL DEF Spec, FaultWindows
====
