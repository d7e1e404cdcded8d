-------------------------- MODULE SchedBodyProofs ---------------------------
(***************************************************************************)
(* Proofs about Sched, part one: facts about the constants, the sets of    *)
(* control points and the active context; the calls that the bodies of     *)
(* threads make keep the inductive invariant IInv.                         *)
(***************************************************************************)
EXTENDS SchedInv, TLAPS

(* The contexts are the thread code and the handler of each stack, all     *)
(* distinct.                                                               *)
LEMMA CtxFacts ==
  /\ \A s \in Stacks : thr(s) \in Ctx /\ irq(s) \in Ctx
  /\ \A s, u \in Stacks : thr(s) # irq(u)
  /\ \A s, u \in Stacks : (thr(s) = thr(u) => s = u) /\ (irq(s) = irq(u) => s = u)
  /\ \A c \in Ctx : \E s \in Stacks : c = thr(s) \/ c = irq(s)
BY DEF Ctx, thr, irq, Stacks

(* Threads are stacks; the boot stack is not a thread.                     *)
LEMMA SetFacts ==
  /\ Threads \subseteq Stacks /\ Boot \in Stacks /\ Boot \notin Threads
  /\ Idle \in Threads
  /\ \A s \in Stacks : s = Boot \/ s \in Threads
BY SchedAssumption DEF Threads, Stacks, Boot

(* How the sets of control points lie in each other.  Cited in place of    *)
(* their definitions, which would make every step enumerate the control    *)
(* points.                                                                 *)
LEMMA PcFacts ==
  /\ YieldPcs \subseteq ThreadPcs /\ ThreadPcs \subseteq Pcs
  /\ PickedPcs \subseteq YieldPcs /\ LockedPcs \subseteq PickedPcs
  /\ AwayPcs \subseteq PickedPcs
  /\ "y_assert" \in YieldPcs \ PickedPcs
  /\ "y_reap" \in YieldPcs \ PickedPcs
  /\ "y_release" \in YieldPcs \ PickedPcs
  /\ "y_lock" \in PickedPcs \ (LockedPcs \cup AwayPcs)
  /\ "y_ready" \in LockedPcs \ AwayPcs
  /\ "y_run" \in LockedPcs \ AwayPcs
  /\ "y_current" \in LockedPcs \ AwayPcs
  /\ "y_unlock" \in LockedPcs \cap AwayPcs
  /\ "y_switch" \in AwayPcs \ LockedPcs
  /\ ThreadRets \subseteq ThreadPcs \ YieldPcs
  /\ WaitPcs \subseteq ThreadPcs \ YieldPcs
  /\ {"w_lock", "w_remove", "t_now", "t_lock", "t_remove"} \subseteq WaitPcs
  /\ {"none", "irq_exit", "iret", "boot", "boot_return"} \subseteq Pcs \ ThreadPcs
  /\ {"run", "sl_tick", "sl_state", "sl_return", "s_check", "exit"}
       \subseteq ThreadPcs \ (YieldPcs \cup WaitPcs)
BY DEF YieldPcs, ThreadPcs, WaitPcs, Pcs, PickedPcs, LockedPcs, AwayPcs, ThreadRets

(* A tick keeps the ticks still to go, which a sleep or a timeout counts   *)
(* down, within their bounds.                                              *)
LEMMA TickFacts ==
  /\ 0 \in Ticks /\ Cleared \notin Ticks
  /\ \A n \in Ticks : Tick(n) \in Ticks
  /\ Tick(Cleared) = Cleared
BY SchedAssumption DEF Ticks, Cleared, Tick

(* The active context is the handler of the stack in use if that stack     *)
(* carries one, and otherwise its thread.                                  *)
LEMMA HereFact ==
  ASSUME TypeOK, UpInv
  PROVE  /\ here \in Ctx /\ cpu \in Stacks
         /\ \/ here = thr(cpu) /\ pc[irq(cpu)] = "none"
            \/ here = irq(cpu) /\ pc[irq(cpu)] # "none"
<1>1. cpu \in Stacks /\ inirq[cpu] \in BOOLEAN
  BY DEF TypeOK
<1>2. inirq[cpu] = (pc[irq(cpu)] # "none")
  BY <1>1 DEF UpInv, ControlInv, PcInv
<1>3. here = IF inirq[cpu] THEN irq(cpu) ELSE thr(cpu)
  BY DEF here, thr, irq
<1>. QED
  BY <1>1, <1>2, <1>3, CtxFacts, ZenonT(30)

(* Type facts and effect of a step of a thread's body on the control state. *)
BodyMove(p, r) ==
  /\ pc[irq(cpu)] = "none"
  /\ cpu \in Threads \ {Idle}
  /\ pc[thr(cpu)] \in ThreadPcs \ YieldPcs
  /\ pc' = [pc EXCEPT ![thr(cpu)] = p]
  /\ \/ p \in ThreadPcs \ YieldPcs /\ ret' = ret
     \/ p = "y_assert" /\ r \in ThreadRets /\ ret' = [ret EXCEPT ![thr(cpu)] = r]

(* A step of a thread body that moves only the control point of its own    *)
(* thread keeps the control part of the invariant, whether or not it calls *)
(* sched_yield().                                                          *)
LEMMA BodyControl ==
  ASSUME TypeOK, ControlInv, NEW p, NEW r, BodyMove(p, r),
         schedVars' = schedVars, cpuVars' = cpuVars, localVars' = localVars
  PROVE  ControlInv'
<1>1. /\ cpu' = cpu /\ iflag' = iflag /\ inirq' = inirq /\ irq_depth' = irq_depth
      /\ current' = current /\ schedule_locked' = schedule_locked
      /\ prev' = prev /\ next' = next
  BY DEF schedVars, cpuVars, localVars
<1>2. /\ pc \in [Ctx -> Pcs] /\ ret \in [Ctx -> Pcs] /\ cpu \in Stacks
  BY DEF TypeOK
<1>3. /\ \A c \in Ctx : c # thr(cpu) => pc'[c] = pc[c] /\ ret'[c] = ret[c]
      /\ pc'[thr(cpu)] = p /\ p \in ThreadPcs \ PickedPcs
      /\ \/ p \notin YieldPcs /\ ret'[thr(cpu)] = ret[thr(cpu)]
         \/ p = "y_assert" /\ ret'[thr(cpu)] = r /\ r \in ThreadRets
  BY <1>2, CtxFacts, PcFacts DEF BodyMove
<1>4. \A s \in Stacks : pc'[irq(s)] = pc[irq(s)] /\ ret'[irq(s)] = ret[irq(s)]
  BY <1>2, <1>3, CtxFacts
<1>5. \A s \in Stacks : s # cpu => pc'[thr(s)] = pc[thr(s)] /\ ret'[thr(s)] = ret[thr(s)]
  BY <1>2, <1>3, CtxFacts
<1>6. PcInv'
  BY <1>1, <1>2, <1>3, <1>4, <1>5, CtxFacts, SetFacts, PcFacts, SMTT(60), Z3T(60)
     DEF BodyMove,
     ControlInv, PcInv
<1>7. IrqInv'
  BY <1>1, <1>2, <1>4, CtxFacts DEF ControlInv, IrqInv
<1>8. LockInv'
  BY <1>1, <1>2, <1>3, <1>4, <1>5, PcFacts, SMTT(60), Z3T(60)
     DEF BodyMove, ControlInv, LockInv
<1>9. CurrentInv'
  BY <1>1, <1>2, <1>3, <1>4, <1>5, PcFacts DEF BodyMove, ControlInv, CurrentInv
<1>. QED
  BY <1>6, <1>7, <1>8, <1>9 DEF ControlInv

(* What a step of a body does to the states: it may block or end its own   *)
(* thread when it calls sched_yield(), and may wake blocked threads.       *)
BodyState(p, r) ==
  /\ \A t \in Threads :
       \/ state'[t] = state[t]
       \/ t = cpu /\ p = "y_assert" /\ state'[t] \in {"SLEEPING", "WAITING", "ZOMBIE"}
       \/ state[t] \in {"SLEEPING", "WAITING"} /\ state'[t] = "READY"
  /\ state'[cpu] = "ZOMBIE" <=> p = "y_assert" /\ r = "exit"
  /\ p # "exit"
  /\ \A t \in Threads : state[t] = "DEAD" => wake_in'[t] = wake_in[t]

(* A step of a body that changes states only as BodyState allows keeps     *)
(* every part of the invariant but the one on the wait queues.             *)
LEMMA BodyInv ==
  ASSUME TypeOK, UpInv, NEW p, NEW r, BodyMove(p, r), BodyState(p, r),
         schedVars' = schedVars, cpuVars' = cpuVars, localVars' = localVars,
         queued' = queued, next_thread_id' = next_thread_id, freed' = freed
  PROVE  ControlInv' /\ BootInv' /\ RunningInv' /\ StateInv'
<1>1. /\ cpu' = cpu /\ current' = current /\ next' = next /\ prev' = prev
      /\ reap_list' = reap_list
  BY DEF schedVars, cpuVars, localVars
<1>2. /\ pc \in [Ctx -> Pcs] /\ ret \in [Ctx -> Pcs] /\ cpu \in Stacks
      /\ cpu \in Threads /\ cpu # Boot /\ cpu # Idle
  BY SetFacts DEF TypeOK, BodyMove
<1>3. /\ \A c \in Ctx : c # thr(cpu) => pc'[c] = pc[c] /\ ret'[c] = ret[c]
      /\ pc'[thr(cpu)] = p /\ p \in ThreadPcs \ PickedPcs
      /\ \/ p \notin YieldPcs /\ ret'[thr(cpu)] = ret[thr(cpu)]
         \/ p = "y_assert" /\ ret'[thr(cpu)] = r /\ r \in ThreadRets
  BY <1>2, CtxFacts, PcFacts DEF BodyMove
<1>4. \A s \in Stacks : pc'[irq(s)] = pc[irq(s)]
  BY <1>2, <1>3, CtxFacts
<1>5. \A s \in Stacks : s # cpu => pc'[thr(s)] = pc[thr(s)] /\ ret'[thr(s)] = ret[thr(s)]
  BY <1>2, <1>3, CtxFacts
<1>6. /\ pc[irq(cpu)] = "none" /\ pc[thr(cpu)] \in ThreadPcs \ YieldPcs
      /\ ret[thr(cpu)] = "none" /\ state[cpu] \in {"READY", "RUNNING"}
      /\ pc[thr(cpu)] # "exit"
      /\ current = cpu
  BY <1>2, PcFacts DEF BodyMove, UpInv, ControlInv, PcInv, StateInv, CurrentInv
<1>7. ControlInv'
  BY BodyControl DEF UpInv
<1>8. BootInv'
  BY <1>1, <1>2, <1>4, <1>5, <1>6, SetFacts, ZenonT(60) DEF BodyState, UpInv, BootInv
<1>9. RunningInv'
  <2>1. \A t \in Threads : state'[t] = "RUNNING" => t = current'
    BY <1>1, <1>2, <1>6, PcFacts DEF BodyState, UpInv, RunningInv
  <2>. QED
    BY <2>1, <1>1, <1>2, <1>3, <1>4, <1>6, PcFacts DEF RunningInv, PickedPcs
<1>10. StateInv'
  <2>1. cpu' \in Threads /\ pc'[thr(cpu')] \notin YieldPcs
          => state'[cpu'] \in {"READY", "RUNNING"}
    BY <1>1, <1>2, <1>3, <1>6, PcFacts DEF BodyState
  <2>2. \A t \in Threads : state'[t] \in {"ZOMBIE", "DEAD"} <=>
          pc'[thr(t)] = "exit" \/ ret'[thr(t)] = "exit"
    <3>1. \A t \in Threads \ {cpu} : state'[t] \in {"ZOMBIE", "DEAD"} <=>
            state[t] \in {"ZOMBIE", "DEAD"}
      BY DEF BodyState
    <3>2. state'[cpu] \in {"ZOMBIE", "DEAD"} <=> p = "y_assert" /\ r = "exit"
      BY <1>2, <1>6 DEF BodyState
    <3>. QED
      BY <3>1, <3>2, <1>2, <1>3, <1>5, <1>6, SetFacts, PcFacts, SMTT(60), Z3T(60)
         DEF BodyState, UpInv,
         StateInv
  <2>3. state'[Idle] \in {"NONE", "READY", "RUNNING"}
    BY <1>2, SetFacts DEF BodyState, UpInv, StateInv
  <2>4. \A t \in Threads : state'[t] = "DEAD" <=> state[t] = "DEAD"
    BY <1>2, <1>6 DEF BodyState
  <2>5. \A t \in Threads : state'[t] = "NONE" <=> state[t] = "NONE"
    BY <1>2, <1>6 DEF BodyState
  <2>6. \A t \in Threads : state'[t] = "DEAD" => t # current' /\ wake_in'[t] = Cleared
    BY <2>4, <1>1 DEF BodyState, UpInv, StateInv
  <2>7. \A c \in Ctx : \A t \in reap_list'[c] : state'[t] = "DEAD"
    BY <2>4, <1>1 DEF TypeOK, UpInv, StateInv
  <2>8. queued' = {t \in Threads : state'[t] \notin {"NONE", "DEAD"}}
    BY <2>4, <2>5 DEF UpInv, StateInv
  <2>9. freed' \subseteq {t \in Threads : state'[t] = "DEAD"}
    BY <2>4 DEF UpInv, StateInv
  <2>. QED
    BY <2>1, <2>2, <2>3, <2>6, <2>7, <2>8, <2>9 DEF StateInv
<1>. QED
  BY <1>7, <1>8, <1>9, <1>10

(* A step taken at a control point of a thread body is taken by            *)
(* current_thread on its own stack, which is not idle, may switch, is      *)
(* runnable and is on no wait queue unless it is about to leave one.       *)
LEMMA BodyHere ==
  ASSUME TypeOK, UpInv, NEW p \in ThreadPcs \ YieldPcs, At(p),
         p = "run" => \E op : op \in Ops[cpu]
  PROVE  /\ here = thr(cpu) /\ pc[irq(cpu)] = "none" /\ pc[thr(cpu)] = p
         /\ cpu \in Threads \ {Idle} /\ current = cpu
         /\ ~schedule_locked /\ irq_depth = 0 /\ CanSwitch
         /\ state[cpu] \in {"READY", "RUNNING"}
         /\ ret[thr(cpu)] = "none" /\ p # "exit"
         /\ p \notin {"w_remove", "t_remove"} => wait_queue[cpu] = NoQueue
<1>1. here = thr(cpu) /\ pc[irq(cpu)] = "none" /\ pc[thr(cpu)] = p /\ cpu \in Stacks
  BY HereFact, PcFacts, SMTT(60), Z3T(60) DEF At, UpInv, ControlInv, PcInv
<1>2. cpu \in Threads
  BY <1>1, SetFacts, PcFacts DEF UpInv, ControlInv, PcInv
<1>3. cpu # Idle
  BY <1>1, SchedAssumption DEF UpInv, ControlInv, PcInv
<1>4. current = cpu
  BY <1>1, PcFacts, ZenonT(60) DEF UpInv, ControlInv, CurrentInv
<1>5. ~schedule_locked /\ irq_depth = 0
  BY <1>1, PcFacts DEF TypeOK, UpInv, ControlInv, LockInv, IrqInv
<1>6. /\ state[cpu] \in {"READY", "RUNNING"}
      /\ ret[thr(cpu)] = "none" /\ p # "exit"
  BY <1>1, <1>2 DEF UpInv, ControlInv, PcInv, StateInv
<1>7. p \notin {"w_remove", "t_remove"} => wait_queue[cpu] = NoQueue
  BY <1>1, <1>2, <1>6 DEF UpInv, QueueInv, BlockedAt
<1>. QED
  BY <1>1, <1>2, <1>3, <1>4, <1>5, <1>6, <1>7, ZenonT(30) DEF CanSwitch

(* A step that leaves the lists alone keeps QueueInv, if the threads on    *)
(* them stay where they are and no condition becomes true.                 *)
LEMMA QueueQuiet ==
  ASSUME TypeOK, QueueInv, wait_queue' = wait_queue, waiters' = waiters,
         \A q \in Queues : cond'[q] => cond[q],
         \A t \in Threads : wait_queue[t] # NoQueue =>
           /\ \A p \in {"s_check", "w_remove", "t_remove"} :
                BlockedAt(t, p) => BlockedAt(t, p)'
           /\ target'[t] = target[t]
           /\ state[t] = "WAITING" => state'[t] = "WAITING"
           /\ InWait(t)' => InWait(t),
         \A t \in Threads : state'[t] = "WAITING" => state[t] = "WAITING",
         \A t \in Threads : InWait(t)' => target'[t] \in Queues
  PROVE  QueueInv'
<1>1. \A q \in Queues : Members(q)' = Members(q)
  BY DEF Members
<1>2. \A q \in Queues : \A t \in Members(q) : t \in Threads
  BY SMTT(60), Z3T(60) DEF TypeOK, Members
<1>3. \A q \in Queues : \A t \in Members(q) : wait_queue[t] # NoQueue
  BY <1>2, SchedAssumption, SMTT(60), Z3T(60) DEF QueueInv
<1>4. \A q \in Queues \ IrqQueues : cond'[q] => \A t \in Members(q)' : ~InWait(t)'
  BY <1>1, <1>2, <1>3 DEF QueueInv
<1>. QED
  BY <1>1, <1>4 DEF QueueInv

(* A step of a body that is neither blocked nor about to be leaves every   *)
(* blocked thread where it is.                                             *)
LEMMA BodyWaits ==
  ASSUME TypeOK, UpInv, NEW p, NEW r, BodyMove(p, r)
  PROVE  /\ \A t \in Threads \ {cpu} :
              /\ InWait(t)' <=> InWait(t)
              /\ \A x : BlockedAt(t, x)' <=> BlockedAt(t, x)
         /\ \A t \in Threads : t = cpu =>
              /\ InWait(t)' => p \in WaitPcs \/ (p = "y_assert" /\ r \in WaitPcs)
              /\ p = "y_assert" => BlockedAt(t, r)'
<1>1. /\ pc \in [Ctx -> Pcs] /\ ret \in [Ctx -> Pcs] /\ cpu \in Threads
      /\ ret[thr(cpu)] = "none" /\ cpu \in Stacks
  BY DEF TypeOK, BodyMove, UpInv, ControlInv, PcInv
<1>2. \A t \in Threads \ {cpu} : pc'[thr(t)] = pc[thr(t)] /\ ret'[thr(t)] = ret[thr(t)]
  BY <1>1, CtxFacts, SetFacts DEF BodyMove
<1>3. /\ thr(cpu) \in Ctx /\ pc'[thr(cpu)] = p
      /\ \/ p \in ThreadPcs \ YieldPcs /\ ret'[thr(cpu)] = "none"
         \/ p = "y_assert" /\ ret'[thr(cpu)] = r
  BY <1>1, CtxFacts DEF BodyMove
<1>4. \A t : InWait(t) <=> ret[thr(t)] \in WaitPcs \/ pc[thr(t)] \in WaitPcs
  BY DEF InWait, thr
<1>5. \A t : InWait(t)' <=> ret'[thr(t)] \in WaitPcs \/ pc'[thr(t)] \in WaitPcs
  BY DEF InWait, thr
<1>6. "none" \notin WaitPcs /\ "y_assert" \notin WaitPcs
  BY DEF WaitPcs
<1>7. \A t \in Threads \ {cpu} :
        /\ InWait(t)' <=> InWait(t)
        /\ \A x : BlockedAt(t, x)' <=> BlockedAt(t, x)
  BY <1>2, <1>4, <1>5 DEF BlockedAt
<1>8. \A t \in Threads : t = cpu =>
        /\ InWait(t)' => p \in WaitPcs \/ (p = "y_assert" /\ r \in WaitPcs)
        /\ p = "y_assert" => BlockedAt(t, r)'
  <2>. SUFFICES ASSUME NEW t \in Threads, t = cpu
                PROVE  /\ InWait(t)' => p \in WaitPcs \/ (p = "y_assert" /\ r \in WaitPcs)
                       /\ p = "y_assert" => BlockedAt(t, r)'
    OBVIOUS
  <2>1. pc'[thr(t)] = p /\ (p = "y_assert" => ret'[thr(t)] = r)
        /\ (ret'[thr(t)] = "none" \/ (p = "y_assert" /\ ret'[thr(t)] = r))
    BY <1>3, PcFacts
  <2>2. InWait(t)' => p \in WaitPcs \/ (p = "y_assert" /\ r \in WaitPcs)
    BY <2>1, <1>5, <1>6
  <2>3. p = "y_assert" => BlockedAt(t, r)'
    BY <2>1 DEF BlockedAt
  <2>. QED
    BY <2>2, <2>3
<1>. QED
  BY <1>7, <1>8

(* The control variables keep their types in a step of a body.             *)
LEMMA BodyTypes ==
  ASSUME TypeOK, NEW p, NEW r, BodyMove(p, r)
  PROVE  pc' \in [Ctx -> Pcs] /\ ret' \in [Ctx -> Pcs]
<1>1. pc \in [Ctx -> Pcs] /\ ret \in [Ctx -> Pcs]
  BY DEF TypeOK
<1>2. p \in Pcs
  BY PcFacts DEF BodyMove
<1>3. pc' \in [Ctx -> Pcs]
  BY <1>1, <1>2, ZenonT(30) DEF BodyMove
<1>4. r \in ThreadRets => r \in Pcs
  BY PcFacts
<1>5. ret' \in [Ctx -> Pcs]
  BY <1>1, <1>4 DEF BodyMove
<1>. QED
  BY <1>3, <1>5

(* A step of a body that touches no list and makes no condition true keeps *)
(* the wait queue part of the invariant.                                   *)
LEMMA BodyQuiet ==
  ASSUME TypeOK, UpInv, NEW p, NEW r, BodyMove(p, r),
         wait_queue[cpu] = NoQueue, wait_queue' = wait_queue, waiters' = waiters,
         \A q \in Queues : cond'[q] => cond[q],
         \A t \in Threads \ {cpu} : target'[t] = target[t] /\ state'[t] = state[t],
         state'[cpu] # "WAITING",
         p \in WaitPcs \/ (p = "y_assert" /\ r \in WaitPcs) => target'[cpu] \in Queues
  PROVE  QueueInv'
<1>1. QueueInv
  BY DEF UpInv
<1>2. \A t \in Threads : InWait(t)' => target'[t] \in Queues
  BY <1>1, BodyWaits DEF QueueInv
<1>. QED
  BY <1>1, <1>2, BodyWaits, QueueQuiet

(* Calling sched_yield() keeps the invariant.                              *)
LEMMA VoluntaryYield_step ==
  ASSUME TypeOK, UpInv, Up, VoluntaryYield
  PROVE  IInv'
<1>1. At("run") /\ \E op : op \in Ops[cpu]
  BY ZenonT(60) DEF VoluntaryYield, Calls
<1>2. /\ here = thr(cpu) /\ pc[irq(cpu)] = "none" /\ pc[thr(cpu)] = "run"
      /\ cpu \in Threads \ {Idle} /\ current = cpu /\ CanSwitch
      /\ state[cpu] \in {"READY", "RUNNING"} /\ wait_queue[cpu] = NoQueue
  BY <1>1, BodyHere, PcFacts
<1>3. BodyMove("y_assert", "run")
  BY <1>2, PcFacts DEF VoluntaryYield, Calls, CallYield, Goto, callVars, BodyMove,
     ThreadRets
<1>4. BodyState("y_assert", "run")
  BY <1>2 DEF VoluntaryYield, threadVars, BodyState, TypeOK
<1>5. ControlInv' /\ BootInv' /\ RunningInv' /\ StateInv'
  BY <1>3, <1>4, BodyInv DEF VoluntaryYield, CallYield, threadVars, callVars
<1>6. QueueInv'
  BY <1>2, <1>3, BodyQuiet, ZenonT(30) DEF VoluntaryYield, threadVars, waitVars,
     argVars, TypeOK, WaitPcs
<1>7. TypeOK'
  <2>1. pc' \in [Ctx -> Pcs] /\ ret' \in [Ctx -> Pcs]
    BY <1>3, BodyTypes
  <2>2. wake_in' \in [Threads -> Ticks \cup {Cleared}] /\ left' \in [Threads -> Ticks]
    BY TickFacts, ZenonT(30) DEF VoluntaryYield, TypeOK, threadVars, argVars
  <2>. QED
    BY <2>1, <2>2, <1>2 DEF VoluntaryYield, CallYield, TypeOK, States, Panics,
       threadVars, waitVars, schedVars, cpuVars, callVars, localVars, argVars
<1>8. AssertionsHold'
  BY <1>2 DEF VoluntaryYield, Up, AssertionsHold
<1>. QED
  BY <1>5, <1>6, <1>7, <1>8 DEF IInv, UpInv

(* The first part of sched_sleep(), which reads the clock, keeps the       *)
(* invariant.                                                              *)
LEMMA sched_sleep_step ==
  ASSUME TypeOK, UpInv, Up, NEW n \in Ticks \ {0}, sched_sleep(n)
  PROVE  IInv'
<1>1. At("run") /\ \E op : op \in Ops[cpu]
  BY DEF sched_sleep, Calls
<1>2. /\ here = thr(cpu) /\ pc[irq(cpu)] = "none" /\ pc[thr(cpu)] = "run"
      /\ cpu \in Threads \ {Idle} /\ current = cpu /\ CanSwitch
      /\ state[cpu] \in {"READY", "RUNNING"} /\ wait_queue[cpu] = NoQueue
  BY <1>1, BodyHere, PcFacts, Zenon
<1>3. BodyMove("sl_tick", "none")
  BY <1>2, PcFacts DEF sched_sleep, Calls, Check, Goto, callVars, BodyMove, ThreadRets
<1>4. BodyState("sl_tick", "none")
  BY <1>2 DEF sched_sleep, threadVars, BodyState, TypeOK
<1>5. ControlInv' /\ BootInv' /\ RunningInv' /\ StateInv'
  BY <1>3, <1>4, BodyInv, Zenon DEF sched_sleep, Check, threadVars, callVars
<1>6. QueueInv'
  BY <1>2, <1>3, BodyQuiet, ZenonT(60) DEF sched_sleep, threadVars, waitVars,
     argVars, TypeOK, WaitPcs
<1>7. TypeOK'
  <2>1. pc' \in [Ctx -> Pcs] /\ ret' \in [Ctx -> Pcs]
    BY <1>3, BodyTypes, Zenon
  <2>2. wake_in' \in [Threads -> Ticks \cup {Cleared}] /\ left' \in [Threads -> Ticks]
    BY TickFacts, ZenonT(60) DEF sched_sleep, TypeOK, threadVars, argVars
  <2>. QED
    BY <2>1, <2>2, <1>2 DEF sched_sleep, Check, TypeOK, States, Panics, threadVars,
       waitVars, schedVars, cpuVars, callVars, localVars, argVars
<1>8. AssertionsHold'
  BY <1>2 DEF sched_sleep, Check, Up, AssertionsHold
<1>. QED
  BY <1>5, <1>6, <1>7, <1>8 DEF IInv, UpInv

(* The store of wake_tick in thread_set_sleeping() keeps the invariant.    *)
LEMMA SleepTick_step ==
  ASSUME TypeOK, UpInv, Up, SleepTick
  PROVE  IInv'
<1>1. At("sl_tick")
  BY DEF SleepTick
<1>2. /\ here = thr(cpu) /\ pc[irq(cpu)] = "none" /\ pc[thr(cpu)] = "sl_tick"
      /\ cpu \in Threads \ {Idle} /\ current = cpu /\ CanSwitch
      /\ state[cpu] \in {"READY", "RUNNING"} /\ wait_queue[cpu] = NoQueue
  BY <1>1, BodyHere, PcFacts, ZenonT(60)
<1>3. BodyMove("sl_state", "none")
  BY <1>2, PcFacts DEF SleepTick, Check, Goto, callVars, BodyMove, ThreadRets
<1>4. BodyState("sl_state", "none")
  BY <1>2, Zenon DEF SleepTick, threadVars, BodyState, TypeOK
<1>5. ControlInv' /\ BootInv' /\ RunningInv' /\ StateInv'
  BY <1>3, <1>4, BodyInv, ZenonT(30) DEF SleepTick, Check, threadVars, callVars
<1>6. QueueInv'
  BY <1>2, <1>3, BodyQuiet, ZenonT(60) DEF SleepTick, threadVars, waitVars, argVars,
     TypeOK, WaitPcs
<1>7. TypeOK'
  <2>1. pc' \in [Ctx -> Pcs] /\ ret' \in [Ctx -> Pcs]
    BY <1>3, BodyTypes
  <2>2. wake_in' \in [Threads -> Ticks \cup {Cleared}] /\ left' \in [Threads -> Ticks]
    BY TickFacts, ZenonT(30) DEF SleepTick, TypeOK, threadVars, argVars
  <2>. QED
    BY <2>1, <2>2, <1>2 DEF SleepTick, Check, TypeOK, States, Panics, threadVars,
       waitVars, schedVars, cpuVars, callVars, localVars, argVars
<1>8. AssertionsHold'
  BY <1>2, ZenonT(30) DEF SleepTick, Check, Up, AssertionsHold
<1>. QED
  BY <1>5, <1>6, <1>7, <1>8 DEF IInv, UpInv

(* The store of the state in thread_set_sleeping(), after which            *)
(* sched_sleep() yields, keeps the invariant.                              *)
LEMMA SleepState_step ==
  ASSUME TypeOK, UpInv, Up, SleepState
  PROVE  IInv'
<1>1. At("sl_state")
  BY DEF SleepState
<1>2. /\ here = thr(cpu) /\ pc[irq(cpu)] = "none" /\ pc[thr(cpu)] = "sl_state"
      /\ cpu \in Threads \ {Idle} /\ current = cpu /\ CanSwitch
      /\ state[cpu] \in {"READY", "RUNNING"} /\ wait_queue[cpu] = NoQueue
  BY <1>1, BodyHere, PcFacts
<1>3. BodyMove("y_assert", "sl_return")
  BY <1>2, PcFacts DEF SleepState, CallYield, Goto, callVars, BodyMove, ThreadRets
<1>4. BodyState("y_assert", "sl_return")
  BY <1>2 DEF SleepState, threadVars, BodyState, TypeOK
<1>5. ControlInv' /\ BootInv' /\ RunningInv' /\ StateInv'
  BY <1>3, <1>4, BodyInv, Zenon DEF SleepState, CallYield, threadVars, callVars
<1>6. QueueInv'
  BY <1>2, <1>3, BodyQuiet, ZenonT(30) DEF SleepState, threadVars, waitVars, argVars,
     TypeOK, WaitPcs
<1>7. TypeOK'
  <2>1. pc' \in [Ctx -> Pcs] /\ ret' \in [Ctx -> Pcs]
    BY <1>3, BodyTypes, Zenon
  <2>2. wake_in' \in [Threads -> Ticks \cup {Cleared}] /\ left' \in [Threads -> Ticks]
    BY TickFacts, ZenonT(30) DEF SleepState, TypeOK, threadVars, argVars
  <2>. QED
    BY <2>1, <2>2, <1>2 DEF SleepState, CallYield, TypeOK, States, Panics,
       threadVars, waitVars, schedVars, cpuVars, callVars, localVars, argVars
<1>8. AssertionsHold'
  BY <1>2 DEF SleepState, Up, AssertionsHold
<1>. QED
  BY <1>5, <1>6, <1>7, <1>8 DEF IInv, UpInv

(* The return of sched_sleep() keeps the invariant.                        *)
LEMMA SleepReturn_step ==
  ASSUME TypeOK, UpInv, Up, SleepReturn
  PROVE  IInv'
<1>1. At("sl_return")
  BY DEF SleepReturn
<1>2. /\ here = thr(cpu) /\ pc[irq(cpu)] = "none" /\ pc[thr(cpu)] = "sl_return"
      /\ cpu \in Threads \ {Idle} /\ current = cpu /\ CanSwitch
      /\ state[cpu] \in {"READY", "RUNNING"} /\ wait_queue[cpu] = NoQueue
  BY <1>1, BodyHere, PcFacts, Zenon
<1>3. BodyMove("run", "none")
  BY <1>2, PcFacts, Zenon DEF SleepReturn, Goto, callVars, BodyMove, ThreadRets
<1>4. BodyState("run", "none")
  BY <1>2 DEF SleepReturn, threadVars, BodyState, TypeOK
<1>5. ControlInv' /\ BootInv' /\ RunningInv' /\ StateInv'
  BY <1>3, <1>4, BodyInv, Zenon DEF SleepReturn, threadVars, callVars
<1>6. QueueInv'
  BY <1>2, <1>3, BodyQuiet, ZenonT(30) DEF SleepReturn, threadVars, waitVars,
     argVars, TypeOK, WaitPcs
<1>7. TypeOK'
  <2>1. pc' \in [Ctx -> Pcs] /\ ret' \in [Ctx -> Pcs]
    BY <1>3, BodyTypes
  <2>2. wake_in' \in [Threads -> Ticks \cup {Cleared}] /\ left' \in [Threads -> Ticks]
    BY TickFacts, ZenonT(30) DEF SleepReturn, TypeOK, threadVars, argVars
  <2>. QED
    BY <2>1, <2>2, <1>2, ZenonT(60) DEF SleepReturn, TypeOK, States, Panics,
       threadVars, waitVars, schedVars, cpuVars, callVars, localVars, argVars
<1>8. AssertionsHold'
  BY <1>2 DEF SleepReturn, Up, AssertionsHold
<1>. QED
  BY <1>5, <1>6, <1>7, <1>8 DEF IInv, UpInv

(* Entering wait_queue_wait() keeps the invariant.                         *)
LEMMA wait_queue_wait_step ==
  ASSUME TypeOK, UpInv, Up, NEW q \in Queues, wait_queue_wait(q)
  PROVE  IInv'
<1>1. At("run") /\ \E op : op \in Ops[cpu]
  BY DEF wait_queue_wait, Calls
<1>2. /\ here = thr(cpu) /\ pc[irq(cpu)] = "none" /\ pc[thr(cpu)] = "run"
      /\ cpu \in Threads \ {Idle} /\ current = cpu /\ CanSwitch
      /\ state[cpu] \in {"READY", "RUNNING"} /\ wait_queue[cpu] = NoQueue
  BY <1>1, BodyHere, PcFacts, ZenonT(60)
<1>3. BodyMove("w_lock", "none")
  BY <1>2, PcFacts DEF wait_queue_wait, Calls, Check, Goto, callVars, BodyMove, ThreadRets
<1>4. BodyState("w_lock", "none")
  BY <1>2 DEF wait_queue_wait, threadVars, BodyState, TypeOK
<1>5. ControlInv' /\ BootInv' /\ RunningInv' /\ StateInv'
  BY <1>3, <1>4, BodyInv, ZenonT(30) DEF wait_queue_wait, Check, threadVars, callVars
<1>6. QueueInv'
  BY <1>2, <1>3, BodyQuiet, ZenonT(60) DEF wait_queue_wait, threadVars, waitVars, argVars,
     TypeOK, WaitPcs
<1>7. TypeOK'
  <2>1. pc' \in [Ctx -> Pcs] /\ ret' \in [Ctx -> Pcs]
    BY <1>3, BodyTypes, Zenon
  <2>2. wake_in' \in [Threads -> Ticks \cup {Cleared}] /\ left' \in [Threads -> Ticks]
    BY TickFacts, ZenonT(60) DEF wait_queue_wait, TypeOK, threadVars, argVars
  <2>. QED
    BY <2>1, <2>2, <1>2 DEF wait_queue_wait, Check, TypeOK, States, Panics,
       threadVars, waitVars, schedVars, cpuVars, callVars, localVars, argVars
<1>8. AssertionsHold'
  BY <1>2 DEF wait_queue_wait, Check, Up, AssertionsHold
<1>. QED
  BY <1>5, <1>6, <1>7, <1>8 DEF IInv, UpInv

(* wait_queue_wait() that finds its condition true keeps the invariant:    *)
(* its thread is on no list.                                               *)
LEMMA WaitDone_step ==
  ASSUME TypeOK, UpInv, Up, WaitDone
  PROVE  IInv'
<1>1. At("w_lock")
  BY Zenon DEF WaitDone
<1>2. /\ here = thr(cpu) /\ pc[irq(cpu)] = "none" /\ pc[thr(cpu)] = "w_lock"
      /\ cpu \in Threads \ {Idle} /\ current = cpu /\ CanSwitch
      /\ state[cpu] \in {"READY", "RUNNING"} /\ wait_queue[cpu] = NoQueue
  BY <1>1, BodyHere, PcFacts
<1>3. BodyMove("run", "none")
  BY <1>2, PcFacts DEF WaitDone, Goto, callVars, BodyMove, ThreadRets
<1>4. BodyState("run", "none")
  BY <1>2 DEF WaitDone, threadVars, BodyState, TypeOK
<1>5. ControlInv' /\ BootInv' /\ RunningInv' /\ StateInv'
  BY <1>3, <1>4, BodyInv, Zenon DEF WaitDone, threadVars, callVars
<1>6. QueueInv'
  BY <1>2, <1>3, BodyQuiet, ZenonT(30) DEF WaitDone, threadVars, waitVars, argVars,
     TypeOK, WaitPcs
<1>7. TypeOK'
  <2>1. pc' \in [Ctx -> Pcs] /\ ret' \in [Ctx -> Pcs]
    BY <1>3, BodyTypes
  <2>2. wake_in' \in [Threads -> Ticks \cup {Cleared}] /\ left' \in [Threads -> Ticks]
    BY TickFacts, ZenonT(30) DEF WaitDone, TypeOK, threadVars, argVars
  <2>. QED
    BY <2>1, <2>2, <1>2, ZenonT(60)
       DEF WaitDone, TypeOK, States, Panics, threadVars, waitVars,
       schedVars, cpuVars, callVars, localVars, argVars
<1>8. AssertionsHold'
  BY <1>2 DEF WaitDone, Up, AssertionsHold
<1>. QED
  BY <1>5, <1>6, <1>7, <1>8 DEF IInv, UpInv

(* The read of the clock in a round of wait_queue_wait_timeout() keeps the *)
(* invariant.                                                              *)
LEMMA TimeoutNow_step ==
  ASSUME TypeOK, UpInv, Up, TimeoutNow
  PROVE  IInv'
<1>1. At("t_now")
  BY DEF TimeoutNow
<1>2. /\ here = thr(cpu) /\ pc[irq(cpu)] = "none" /\ pc[thr(cpu)] = "t_now"
      /\ cpu \in Threads \ {Idle} /\ current = cpu /\ CanSwitch
      /\ state[cpu] \in {"READY", "RUNNING"} /\ wait_queue[cpu] = NoQueue
  BY <1>1, BodyHere, PcFacts
<1>3. BodyMove("t_lock", "none")
  BY <1>2, PcFacts DEF TimeoutNow, Goto, callVars, BodyMove, ThreadRets
<1>4. BodyState("t_lock", "none")
  BY <1>2 DEF TimeoutNow, threadVars, BodyState, TypeOK
<1>5. ControlInv' /\ BootInv' /\ RunningInv' /\ StateInv'
  BY <1>3, <1>4, BodyInv, ZenonT(30) DEF TimeoutNow, threadVars, callVars
<1>a. target[cpu] \in Queues
  BY <1>2, PcFacts, ZenonT(60) DEF UpInv, QueueInv, InWait, thr
<1>6. QueueInv'
  BY <1>a, <1>2, <1>3, BodyQuiet, Zenon DEF TimeoutNow, threadVars, waitVars,
     argVars, TypeOK, WaitPcs
<1>7. TypeOK'
  <2>1. pc' \in [Ctx -> Pcs] /\ ret' \in [Ctx -> Pcs]
    BY <1>3, BodyTypes
  <2>2. wake_in' \in [Threads -> Ticks \cup {Cleared}] /\ left' \in [Threads -> Ticks]
    BY TickFacts, ZenonT(30) DEF TimeoutNow, TypeOK, threadVars, argVars
  <2>. QED
    BY <2>1, <2>2, <1>2, ZenonT(60) DEF TimeoutNow, TypeOK, States, Panics,
       threadVars, waitVars, schedVars, cpuVars, callVars, localVars, argVars
<1>8. AssertionsHold'
  BY <1>2, ZenonT(30) DEF TimeoutNow, Up, AssertionsHold
<1>. QED
  BY <1>5, <1>6, <1>7, <1>8 DEF IInv, UpInv

(* wait_queue_wait_timeout() that ends, by its condition or by its         *)
(* deadline, keeps the invariant.                                          *)
LEMMA TimeoutDone_step ==
  ASSUME TypeOK, UpInv, Up, TimeoutDone
  PROVE  IInv'
<1>1. At("t_lock")
  BY DEF TimeoutDone
<1>2. /\ here = thr(cpu) /\ pc[irq(cpu)] = "none" /\ pc[thr(cpu)] = "t_lock"
      /\ cpu \in Threads \ {Idle} /\ current = cpu /\ CanSwitch
      /\ state[cpu] \in {"READY", "RUNNING"} /\ wait_queue[cpu] = NoQueue
  BY <1>1, BodyHere, PcFacts, ZenonT(60)
<1>3. BodyMove("run", "none")
  BY <1>2, PcFacts, ZenonT(60) DEF TimeoutDone, Goto, callVars, BodyMove, ThreadRets
<1>4. BodyState("run", "none")
  BY <1>2 DEF TimeoutDone, threadVars, BodyState, TypeOK
<1>5. ControlInv' /\ BootInv' /\ RunningInv' /\ StateInv'
  BY <1>3, <1>4, BodyInv, Zenon DEF TimeoutDone, threadVars, callVars
<1>6. QueueInv'
  BY <1>2, <1>3, BodyQuiet, ZenonT(30) DEF TimeoutDone, threadVars, waitVars,
     argVars, TypeOK, WaitPcs
<1>7. TypeOK'
  <2>1. pc' \in [Ctx -> Pcs] /\ ret' \in [Ctx -> Pcs]
    BY <1>3, BodyTypes
  <2>2. wake_in' \in [Threads -> Ticks \cup {Cleared}] /\ left' \in [Threads -> Ticks]
    BY TickFacts, ZenonT(30) DEF TimeoutDone, TypeOK, threadVars, argVars
  <2>. QED
    BY <2>1, <2>2, <1>2, ZenonT(60) DEF TimeoutDone, TypeOK, States, Panics,
       threadVars, waitVars, schedVars, cpuVars, callVars, localVars, argVars
<1>8. AssertionsHold'
  BY <1>2, ZenonT(30) DEF TimeoutDone, Up, AssertionsHold
<1>. QED
  BY <1>5, <1>6, <1>7, <1>8 DEF IInv, UpInv

(* sched_thread_exit() keeps the invariant: a zombie is on no wait queue   *)
(* and never leaves sched_yield() but to call it again.                    *)
LEMMA sched_thread_exit_step ==
  ASSUME TypeOK, UpInv, Up, sched_thread_exit
  PROVE  IInv'
<1>1. At("run") /\ \E op : op \in Ops[cpu]
  BY ZenonT(30) DEF sched_thread_exit, Calls
<1>2. /\ here = thr(cpu) /\ pc[irq(cpu)] = "none" /\ pc[thr(cpu)] = "run"
      /\ cpu \in Threads \ {Idle} /\ current = cpu /\ CanSwitch
      /\ state[cpu] \in {"READY", "RUNNING"} /\ wait_queue[cpu] = NoQueue
  BY <1>1, BodyHere, PcFacts
<1>3. BodyMove("y_assert", "exit")
  BY <1>2, PcFacts, ZenonT(60) DEF sched_thread_exit, Calls, CallYield, Goto, callVars,
     BodyMove, ThreadRets
<1>4. BodyState("y_assert", "exit")
  BY <1>2 DEF sched_thread_exit, threadVars, BodyState, TypeOK
<1>5. ControlInv' /\ BootInv' /\ RunningInv' /\ StateInv'
  BY <1>3, <1>4, BodyInv, Zenon DEF sched_thread_exit, CallYield, threadVars, callVars
<1>6. QueueInv'
  BY <1>2, <1>3, BodyQuiet, ZenonT(60) DEF sched_thread_exit, threadVars, waitVars,
     argVars, TypeOK, WaitPcs
<1>7. TypeOK'
  <2>1. pc' \in [Ctx -> Pcs] /\ ret' \in [Ctx -> Pcs]
    BY <1>3, BodyTypes, Zenon
  <2>2. wake_in' \in [Threads -> Ticks \cup {Cleared}] /\ left' \in [Threads -> Ticks]
    BY TickFacts, ZenonT(30) DEF sched_thread_exit, TypeOK, threadVars, argVars
  <2>. QED
    BY <2>1, <2>2, <1>2 DEF sched_thread_exit, CallYield, TypeOK, States, Panics,
       threadVars, waitVars, schedVars, cpuVars, callVars, localVars, argVars
<1>8. AssertionsHold'
  BY <1>2, ZenonT(30) DEF sched_thread_exit, Up, AssertionsHold
<1>. QED
  BY <1>5, <1>6, <1>7, <1>8 DEF IInv, UpInv

(* Entering wait_queue_wait_timeout(), which may return at once, keeps the *)
(* invariant.                                                              *)
LEMMA wait_queue_wait_timeout_step ==
  ASSUME TypeOK, UpInv, Up, NEW q \in Queues, NEW n \in Ticks,
         wait_queue_wait_timeout(q, n)
  PROVE  IInv'
<1>1. At("run") /\ \E op : op \in Ops[cpu]
  BY Zenon DEF wait_queue_wait_timeout, Calls
<1>2. /\ here = thr(cpu) /\ pc[irq(cpu)] = "none" /\ pc[thr(cpu)] = "run"
      /\ cpu \in Threads \ {Idle} /\ current = cpu /\ CanSwitch
      /\ state[cpu] \in {"READY", "RUNNING"} /\ wait_queue[cpu] = NoQueue
  BY <1>1, BodyHere, PcFacts, ZenonT(30)
<1>3. PICK p \in {"run", "t_now"} :
        /\ pc' = [pc EXCEPT ![thr(cpu)] = p]
        /\ \/ p = "run" /\ target' = target /\ left' = left
           \/ p = "t_now" /\ target' = [target EXCEPT ![cpu] = q]
              /\ left' = [left EXCEPT ![cpu] = n]
  BY <1>2, Zenon DEF wait_queue_wait_timeout, Goto
<1>4. BodyMove(p, "none")
  BY <1>2, <1>3, PcFacts, ZenonT(60) DEF wait_queue_wait_timeout, callVars, BodyMove
<1>5. BodyState(p, "none")
  BY <1>2, <1>3 DEF wait_queue_wait_timeout, threadVars, BodyState, TypeOK
<1>6. ControlInv' /\ BootInv' /\ RunningInv' /\ StateInv'
  BY <1>4, <1>5, BodyInv DEF wait_queue_wait_timeout, threadVars, callVars
<1>7. \A t \in Threads \ {cpu} : target'[t] = target[t]
  BY <1>2, <1>3 DEF TypeOK
<1>8. p \in WaitPcs => target'[cpu] \in Queues
  BY <1>2, <1>3, ZenonT(30) DEF TypeOK, WaitPcs
<1>9. QueueInv'
  BY <1>2, <1>3, <1>4, <1>7, <1>8, BodyQuiet, ZenonT(60)
     DEF wait_queue_wait_timeout, threadVars, waitVars, TypeOK
<1>10. TypeOK'
  <2>1. pc' \in [Ctx -> Pcs] /\ ret' \in [Ctx -> Pcs]
    BY <1>4, BodyTypes
  <2>2. left' \in [Threads -> Ticks] /\ target' \in [Threads -> Queues \cup {NoQueue}]
    BY <1>3, ZenonT(60) DEF TypeOK
  <2>. QED
    BY <2>1, <2>2, <1>2 DEF wait_queue_wait_timeout, Check, TypeOK, threadVars,
       waitVars, schedVars, cpuVars, callVars, localVars
<1>11. AssertionsHold'
  BY <1>2, ZenonT(30) DEF wait_queue_wait_timeout, Check, AssertionsHold
<1>. QED
  BY <1>6, <1>9, <1>10, <1>11 DEF IInv, UpInv

(* The loops around sched_yield() in wait_queue_sleep() and                *)
(* sched_thread_exit() keep the invariant.                                 *)
LEMMA YieldLoop_step ==
  ASSUME TypeOK, UpInv, Up, YieldLoop
  PROVE  IInv'
<1>1. At(pc[here]) /\ pc[here] \in {"s_check", "exit"}
  BY DEF YieldLoop
<1>2. /\ here = thr(cpu) /\ pc[irq(cpu)] = "none" /\ pc[thr(cpu)] = pc[here]
      /\ cpu \in Threads \ {Idle} /\ current = cpu
      /\ state[cpu] \in {"READY", "RUNNING"} /\ wait_queue[cpu] = NoQueue
      /\ pc[here] = "s_check"
  BY <1>1, BodyHere, PcFacts
<1>3. BodyMove("run", "none")
  BY <1>2, PcFacts DEF YieldLoop, Goto, callVars, BodyMove
<1>4. BodyState("run", "none")
  BY <1>2, Zenon DEF YieldLoop, threadVars, BodyState, TypeOK
<1>5. ControlInv' /\ BootInv' /\ RunningInv' /\ StateInv'
  BY <1>2, <1>3, <1>4, BodyInv, ZenonT(30) DEF YieldLoop, threadVars, callVars
<1>6. QueueInv'
  BY <1>2, <1>3, BodyQuiet, ZenonT(60) DEF YieldLoop, threadVars, waitVars, argVars,
     TypeOK, WaitPcs
<1>7. TypeOK'
  <2>1. pc' \in [Ctx -> Pcs] /\ ret' \in [Ctx -> Pcs]
    BY <1>3, BodyTypes
  <2>. QED
    BY <2>1, <1>2 DEF YieldLoop, TypeOK, threadVars, waitVars, schedVars, cpuVars,
       callVars, localVars, argVars
<1>8. AssertionsHold'
  BY DEF YieldLoop, Up, AssertionsHold
<1>. QED
  BY <1>5, <1>6, <1>7, <1>8 DEF IInv, UpInv

(* The steps of sched_yield(), in a thread or in a handler.  h is the      *)
(* context that takes the step.                                            *)

ActiveCtx(h) ==
  \/ h = thr(cpu) /\ pc[irq(cpu)] = "none"
  \/ h = irq(cpu) /\ pc[irq(cpu)] # "none"

(* Some context is the active one.                                         *)
LEMMA Active ==
  ASSUME TypeOK, UpInv
  PROVE  \E h \in Ctx : h = here /\ ActiveCtx(h)
BY HereFact DEF ActiveCtx
====
