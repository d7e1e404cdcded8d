--------------------------- MODULE SchedIrqProofs ---------------------------
(***************************************************************************)
(* Proofs about Sched, part two: entering a handler, the timer interrupt,  *)
(* the end of a handler and the steps of boot keep the invariant.          *)
(***************************************************************************)
EXTENDS SchedBodyProofs

(* Interrupts.  A handler starts with IF on, when a handler that was left  *)
(* on this stack has only its iretq to do.                                 *)

LEMMA EnterControl ==
  ASSUME TypeOK, UpInv, EnterIrq, current' = current, schedule_locked' = schedule_locked
  PROVE  /\ ControlInv'
         /\ \A s \in Stacks : pc'[thr(s)] = pc[thr(s)] /\ ret'[thr(s)] = ret[thr(s)]
         /\ pc'[irq(cpu)] = "irq_exit" /\ pc[irq(cpu)] \in {"none", "iret"}
         /\ \A s \in Stacks : s # cpu => pc'[irq(s)] = pc[irq(s)]
         /\ pc' \in [Ctx -> Pcs] /\ irq_depth' = 1
         /\ cpu' = cpu /\ iflag' = FALSE /\ inirq' \in [Stacks -> BOOLEAN]
         /\ UNCHANGED <<ret, prev, next, head, reap_list>>
<1>1. /\ cpu \in Stacks /\ thr(cpu) \in Ctx /\ irq(cpu) \in Ctx
      /\ pc' = [pc EXCEPT ![irq(cpu)] = "irq_exit"]
      /\ inirq' = [inirq EXCEPT ![cpu] = TRUE]
      /\ cpu' = cpu /\ iflag = TRUE /\ iflag' = FALSE
      /\ UNCHANGED <<ret, prev, next, head, reap_list>>
  BY CtxFacts DEF TypeOK, EnterIrq, irq, callVars, localVars
<1>2. pc[irq(cpu)] \in {"none", "iret"}
  BY <1>1, ZenonT(30) DEF UpInv, ControlInv, PcInv, IrqInv
<1>3. irq_depth' = 1
  BY <1>2 DEF EnterIrq, UpInv, ControlInv, IrqInv
<1>4. /\ \A s \in Stacks : pc'[thr(s)] = pc[thr(s)] /\ ret'[thr(s)] = ret[thr(s)]
      /\ \A s \in Stacks : pc'[irq(s)] = IF s = cpu THEN "irq_exit" ELSE pc[irq(s)]
  BY <1>1, CtxFacts, ZenonT(30) DEF TypeOK
<1>5. pc' \in [Ctx -> Pcs] /\ inirq' \in [Stacks -> BOOLEAN]
  BY <1>1, PcFacts DEF TypeOK
<1>6. PcInv'
  <2>1. \A s \in Stacks : inirq'[s] = (pc'[irq(s)] # "none")
    <3>1. inirq'[cpu] = TRUE /\ (pc'[irq(cpu)] # "none") = TRUE
      BY <1>1, <1>4 DEF TypeOK
    <3>2. \A s \in Stacks \ {cpu} : inirq'[s] = inirq[s] /\ pc'[irq(s)] = pc[irq(s)]
      BY <1>1, <1>4 DEF TypeOK
    <3>. QED
      BY <3>1, <3>2, ZenonT(60) DEF UpInv, ControlInv, PcInv
  <2>2. \A s \in Stacks :
       /\ pc'[irq(s)] \in YieldPcs \cup {"none", "irq_exit", "iret"}
       /\ pc'[irq(s)] \in YieldPcs => ret'[irq(s)] = "iret"
    BY <1>1, <1>4, PcFacts DEF UpInv, ControlInv, PcInv
  <2>. QED
    BY <2>1, <2>2, <1>4, SetFacts, SMTT(60) DEF UpInv, ControlInv, PcInv
<1>7. IrqInv'
  BY <1>1, <1>3, <1>4 DEF UpInv, ControlInv, IrqInv
<1>8. /\ {"none", "iret", "irq_exit"} \cap LockedPcs = {}
      /\ {"none", "iret", "irq_exit"} \cap YieldPcs = {}
      /\ {"none", "iret", "irq_exit"} \cap AwayPcs = {}
      /\ {"none", "iret", "irq_exit"} \cap PickedPcs = {}
  BY PcFacts
<1>9. LockInv'
  BY <1>1, <1>2, <1>4, <1>8, Zenon DEF UpInv, ControlInv, LockInv
<1>10. CurrentInv'
  BY <1>1, <1>2, <1>4, <1>8 DEF UpInv, ControlInv, CurrentInv
<1>. QED
  BY <1>1, <1>2, <1>3, <1>4, <1>5, <1>6, <1>7, <1>9, <1>10 DEF ControlInv

(* A handler may wake blocked threads.                                     *)
LEMMA EnterState ==
  ASSUME TypeOK, UpInv, EnterIrq, current' = current, schedule_locked' = schedule_locked,
         queued' = queued, next_thread_id' = next_thread_id, freed' = freed,
         \A t \in Threads : \/ state'[t] = state[t]
                            \/ state[t] \in {"SLEEPING", "WAITING"} /\ state'[t] = "READY",
         \A t \in Threads : state[t] = "DEAD" => wake_in'[t] = Cleared
  PROVE  BootInv' /\ RunningInv' /\ StateInv'
<1>1. /\ \A s \in Stacks : pc'[thr(s)] = pc[thr(s)] /\ ret'[thr(s)] = ret[thr(s)]
      /\ pc'[irq(cpu)] = "irq_exit" /\ pc[irq(cpu)] \in {"none", "iret"}
      /\ \A s \in Stacks : s # cpu => pc'[irq(s)] = pc[irq(s)]
      /\ cpu' = cpu /\ cpu \in Stacks
      /\ UNCHANGED <<ret, prev, next, head, reap_list>>
  BY EnterControl, ZenonT(30) DEF TypeOK
<1>2. \A t \in Threads : /\ state'[t] = "NONE" <=> state[t] = "NONE"
                         /\ state'[t] = "RUNNING" <=> state[t] = "RUNNING"
                         /\ state'[t] = "DEAD" <=> state[t] = "DEAD"
                         /\ state'[t] \in {"ZOMBIE", "DEAD"} <=> state[t] \in {"ZOMBIE", "DEAD"}
                         /\ state[t] \in {"NONE", "READY"} => state'[t] = state[t]
                         /\ state[t] \in {"NONE", "READY", "RUNNING"} => state'[t] = state[t]
  OBVIOUS
<1>3. BootInv'
  <2>1. pc'[irq(Boot)] \in YieldPcs => pc[irq(Boot)] \in YieldPcs
    BY <1>1, SetFacts, PcFacts
  <2>. QED
    BY <2>1, <1>1, <1>2, SetFacts DEF UpInv, BootInv
<1>4. RunningInv'
  <2>1. /\ {"y_run", "y_current", "y_unlock", "y_switch"} \subseteq PickedPcs
        /\ {"none", "iret", "irq_exit"} \cap PickedPcs = {}
    BY PcFacts
  <2>2. pc[thr(cpu)] \in PickedPcs => next[thr(cpu)] \in Threads /\ prev[thr(cpu)] \in Stacks
    BY <1>1, Zenon DEF UpInv, ControlInv, CurrentInv
  <2>3. pc'[thr(cpu)] \in {"y_current", "y_unlock", "y_switch"} =>
          state'[next'[thr(cpu)]] = "RUNNING"
    BY <1>1, <1>2, <2>1, <2>2, SMTT(60), Z3T(60) DEF UpInv, RunningInv
  <2>4. pc'[thr(cpu)] \in {"y_run", "y_current"} =>
          prev'[thr(cpu)] = Boot \/ state'[prev'[thr(cpu)]] # "RUNNING"
    BY <1>1, <1>2, <2>1, <2>2, SetFacts, SMTT(60), Z3T(60) DEF UpInv, RunningInv
  <2>5. \A t \in Threads : state'[t] = "RUNNING" =>
          t = current \/ (pc[thr(cpu)] = "y_current" /\ next[thr(cpu)] = t)
    BY <1>1, <1>2 DEF UpInv, RunningInv
  <2>. QED
    BY <2>3, <2>4, <2>5, <1>1 DEF RunningInv
<1>5. StateInv'
  <2>1. state'[Idle] \in {"NONE", "READY", "RUNNING"}
    BY <1>2, SetFacts, Zenon DEF UpInv, StateInv
  <2>2. \A c \in Ctx : \A t \in reap_list'[c] : state'[t] = "DEAD"
    BY <1>1, <1>2, Zenon DEF TypeOK, UpInv, StateInv
  <2>3. /\ queued' = {t \in Threads : state'[t] \notin {"NONE", "DEAD"}}
        /\ freed' \subseteq {t \in Threads : state'[t] = "DEAD"}
    BY <1>2 DEF UpInv, StateInv
  <2>4. \A t \in Threads : state'[t] \in {"ZOMBIE", "DEAD"} <=>
          pc'[thr(t)] = "exit" \/ ret'[thr(t)] = "exit"
    BY <1>1, <1>2, SetFacts, SMTT(60), Z3T(60) DEF UpInv, StateInv
  <2>5. cpu' \in Threads /\ pc'[thr(cpu')] \notin YieldPcs
          => state'[cpu'] \in {"READY", "RUNNING"}
    BY <1>1, <1>2 DEF UpInv, StateInv
  <2>6. \A t \in Threads : state'[t] = "DEAD" => t # current' /\ wake_in'[t] = Cleared
    BY <1>2 DEF UpInv, StateInv
  <2>. QED
    BY <2>1, <2>2, <2>3, <2>4, <2>5, <2>6, Zenon DEF StateInv
<1>. QED
  BY <1>3, <1>4, <1>5

(* Entering a handler leaves every blocked thread blocked in its call.     *)
LEMMA EnterWaits ==
  ASSUME TypeOK, UpInv, EnterIrq, current' = current, schedule_locked' = schedule_locked
  PROVE  \A t \in Threads : /\ InWait(t)' <=> InWait(t)
                            /\ \A x : BlockedAt(t, x)' <=> BlockedAt(t, x)
<1>1. \A t \in Threads : pc'[thr(t)] = pc[thr(t)] /\ ret'[thr(t)] = ret[thr(t)]
  BY EnterControl, SetFacts
<1>2. \A t : InWait(t) <=> ret[thr(t)] \in WaitPcs \/ pc[thr(t)] \in WaitPcs
  BY DEF InWait, thr
<1>3. \A t : InWait(t)' <=> ret'[thr(t)] \in WaitPcs \/ pc'[thr(t)] \in WaitPcs
  BY DEF InWait, thr
<1>. QED
  BY <1>1, <1>2, <1>3 DEF BlockedAt

(* The timer tick, which wakes the threads whose deadline is reached,      *)
(* keeps the invariant.                                                    *)
LEMMA TimerIrq_step ==
  ASSUME TypeOK, UpInv, Up, TimerIrq
  PROVE  IInv'
<1>1. /\ EnterIrq /\ current' = current /\ schedule_locked' = schedule_locked
      /\ queued' = queued /\ next_thread_id' = next_thread_id /\ freed' = freed
      /\ UNCHANGED <<wait_queue, waiters, cond, target, expired, fault>>
  BY DEF TimerIrq, waitVars
<1>2. \A t \in Threads : state'[t] = IF t \in Due THEN "READY" ELSE state[t]
  BY DEF TimerIrq
<1>3. \A t \in Due : state[t] = "SLEEPING" /\ t \in Threads
  BY DEF Due, TypeOK
<1>4. \A t \in Threads : state[t] = "DEAD" => wake_in'[t] = Cleared
  BY <1>3, TickFacts DEF TimerIrq, UpInv, StateInv
<1>5. ControlInv'
  BY <1>1, EnterControl
<1>6. BootInv' /\ RunningInv' /\ StateInv'
  BY <1>1, <1>2, <1>3, <1>4, EnterState
<1>7. QueueInv'
  <2>1. QueueInv
    BY DEF UpInv
  <2>2. \A t \in Threads : InWait(t)' => target'[t] \in Queues
    BY <1>1, <2>1, EnterWaits DEF QueueInv
  <2>. QED
    BY <2>1, <2>2, <1>1, <1>2, <1>3, EnterWaits, QueueQuiet
<1>8. TypeOK'
  <2>1. state' \in [Threads -> States]
    BY DEF TimerIrq, TypeOK, States
  <2>2. wake_in' \in [Threads -> Ticks \cup {Cleared}]
    <3>1. \A t \in Threads : Tick(wake_in[t]) \in Ticks \cup {Cleared}
      BY TickFacts, Zenon DEF TypeOK
    <3>. QED
      BY <3>1 DEF TimerIrq
  <2>3. left' \in [Threads -> Ticks]
    <3>1. \A t \in Threads : Tick(left[t]) \in Ticks
      BY TickFacts DEF TypeOK
    <3>. QED
      BY <3>1 DEF TimerIrq
  <2>4. need_resched' \in BOOLEAN
    BY ZenonT(30) DEF TimerIrq, TypeOK
  <2>5. /\ pc' \in [Ctx -> Pcs] /\ irq_depth' \in {0, 1} /\ cpu' = cpu /\ iflag' \in BOOLEAN
        /\ inirq' \in [Stacks -> BOOLEAN] /\ UNCHANGED <<ret, prev, next, head, reap_list>>
    BY <1>1, EnterControl
  <2>. QED
    BY <2>1, <2>2, <2>3, <2>4, <2>5, <1>1, Zenon DEF TypeOK
<1>9. AssertionsHold'
  BY <1>1 DEF Up, AssertionsHold
<1>. QED
  BY <1>5, <1>6, <1>7, <1>8, <1>9 DEF IInv, UpInv

(* sched_irq_exit(): back to the interrupted code, or sched_yield().       *)
LEMMA IrqExit_step ==
  ASSUME TypeOK, UpInv, Up, IrqExit
  PROVE  IInv'
<1>1. PICK h \in Ctx : h = here /\ ActiveCtx(h)
  BY Active
<1>2. /\ pc[h] = "irq_exit" /\ cpu \in Stacks
      /\ UNCHANGED <<threadVars, waitVars, current, schedule_locked, cpu, iflag,
                     inirq, argVars>>
  BY <1>1 DEF IrqExit, At, TypeOK
<1>3. h = irq(cpu) /\ irq(cpu) \in Ctx /\ thr(cpu) \in Ctx /\ thr(cpu) # irq(cpu)
  <2>1. \A t \in Threads : pc[thr(t)] # "irq_exit"
    BY PcFacts, ZenonT(60) DEF UpInv, ControlInv, PcInv
  <2>2. pc[thr(Boot)] # "irq_exit"
    BY PcFacts, ZenonT(60) DEF UpInv, ControlInv, PcInv
  <2>. QED
    BY <2>1, <2>2, <1>1, <1>2, SetFacts, CtxFacts, Zenon DEF ActiveCtx
<1>4. irq_depth = 1
  BY <1>2, <1>3 DEF UpInv, ControlInv, IrqInv
<1>5. irq_depth' = 0 /\ fault' = "none"
  BY <1>4 DEF IrqExit, Check
<1>6. PICK p \in {"iret", "y_assert"} :
        /\ pc' = [pc EXCEPT ![irq(cpu)] = p]
        /\ p = "y_assert" => /\ ret' = [ret EXCEPT ![irq(cpu)] = "iret"]
                             /\ current # Boot /\ ~schedule_locked
        /\ p = "iret" => ret' = ret
        /\ UNCHANGED <<prev, next, head, reap_list>>
        /\ need_resched' \in BOOLEAN
  <2>1. CASE irq_depth' # 0 \/ ~need_resched \/ current = Boot \/ schedule_locked
    BY <2>1, <1>1, <1>3, Zenon DEF IrqExit, Goto, callVars, localVars, TypeOK
  <2>2. CASE ~(irq_depth' # 0 \/ ~need_resched \/ current = Boot \/ schedule_locked)
    BY <2>2, <1>1, <1>3, ZenonT(30) DEF IrqExit, CallYield, Goto, localVars
  <2>. QED
    BY <2>1, <2>2, Zenon
<1>7. /\ \A s \in Stacks : pc'[thr(s)] = pc[thr(s)] /\ ret'[thr(s)] = ret[thr(s)]
      /\ \A s \in Stacks : pc'[irq(s)] = IF s = cpu THEN p ELSE pc[irq(s)]
      /\ \A s \in Stacks : s # cpu => ret'[irq(s)] = ret[irq(s)]
      /\ p = "y_assert" => ret'[irq(cpu)] = "iret"
  BY <1>2, <1>3, <1>6, CtxFacts, ZenonT(60) DEF TypeOK
<1>8. /\ p \in YieldPcs <=> p = "y_assert"
      /\ p \notin PickedPcs /\ p \notin LockedPcs /\ p \notin AwayPcs /\ p # "none" /\ p # "irq_exit"
      /\ p \in YieldPcs \cup {"none", "irq_exit", "iret"} /\ p \in Pcs /\ "iret" \in Pcs
      /\ "irq_exit" \notin YieldPcs
      /\ "irq_exit" \notin PickedPcs /\ "irq_exit" \notin LockedPcs /\ "irq_exit" \notin AwayPcs
  BY PcFacts
<1>9. PcInv'
  <2>1. \A s \in Stacks : inirq'[s] = (pc'[irq(s)] # "none")
    <3>1. (pc'[irq(cpu)] # "none") = (pc[irq(cpu)] # "none")
      BY <1>2, <1>3, <1>7, <1>8, ZenonT(30)
    <3>. QED
      BY <3>1, <1>2, <1>7, ZenonT(30) DEF UpInv, ControlInv, PcInv
  <2>2. \A s \in Stacks :
       /\ pc'[irq(s)] \in YieldPcs \cup {"none", "irq_exit", "iret"}
       /\ pc'[irq(s)] \in YieldPcs => ret'[irq(s)] = "iret"
    BY <1>7, <1>8, ZenonT(60) DEF UpInv, ControlInv, PcInv
  <2>. QED
    BY <2>1, <2>2, <1>7, SetFacts, SMTT(60), Z3T(60) DEF UpInv, ControlInv, PcInv
<1>10. IrqInv'
  <2>1. iflag = FALSE
    BY <1>2, <1>3, <1>8, ZenonT(30) DEF TypeOK, UpInv, ControlInv, IrqInv, PcInv
  <2>. QED
    BY <2>1, <1>2, <1>5, <1>7, <1>8, ZenonT(30) DEF UpInv, ControlInv, IrqInv
<1>11. LockInv'
  <2>1. p = "y_assert" => pc[thr(cpu)] \notin LockedPcs
    BY <1>2, <1>6, ZenonT(30) DEF UpInv, ControlInv, LockInv
  <2>2. (pc'[thr(cpu)] \in LockedPcs \/ pc'[irq(cpu)] \in LockedPcs)
          = (pc[thr(cpu)] \in LockedPcs \/ pc[irq(cpu)] \in LockedPcs)
    BY <1>2, <1>3, <1>7, <1>8
  <2>. QED
    BY <2>1, <2>2, <1>2, <1>7, <1>8, Zenon DEF UpInv, ControlInv, LockInv
<1>12. CurrentInv'
  BY <1>2, <1>3, <1>6, <1>7, <1>8, SMTT(60), Z3T(60) DEF UpInv, ControlInv, CurrentInv
<1>13. /\ state' = state /\ wake_in' = wake_in /\ queued' = queued /\ freed' = freed
       /\ next_thread_id' = next_thread_id /\ wait_queue' = wait_queue
       /\ waiters' = waiters /\ cond' = cond /\ target' = target /\ left' = left
       /\ expired' = expired
  BY <1>2, Zenon DEF threadVars, waitVars, argVars
<1>14. BootInv'
  <2>1. pc'[irq(Boot)] \in YieldPcs => pc'[thr(Boot)] \in AwayPcs
    <3>1. CASE cpu = Boot
      <4>1. p = "y_assert" => pc[thr(Boot)] \in AwayPcs
        BY <3>1, <1>3, <1>2, <1>6, <1>8, Zenon DEF UpInv, ControlInv, CurrentInv
      <4>. QED
        BY <3>1, <4>1, <1>7, <1>8, SetFacts, Zenon
    <3>2. CASE cpu # Boot
      BY <3>2, <1>7, SetFacts, ZenonT(60) DEF UpInv, BootInv
    <3>. QED
      BY <3>1, <3>2, Zenon
  <2>. QED
    BY <2>1, <1>2, <1>7, <1>13, SetFacts, Zenon DEF UpInv, BootInv
<1>15. RunningInv'
  <2>1. p \notin {"y_run", "y_current", "y_unlock", "y_switch"}
    OBVIOUS
  <2>. QED
    BY <2>1, <1>2, <1>3, <1>6, <1>7, <1>8, <1>13, SMTT(60), Z3T(60) DEF UpInv, RunningInv
<1>16. StateInv'
  BY <1>2, <1>6, <1>7, <1>13, SetFacts, ZenonT(60) DEF UpInv, StateInv
<1>17. QueueInv'
  <2>1. QueueInv
    BY DEF UpInv
  <2>2. \A t : InWait(t) <=> ret[thr(t)] \in WaitPcs \/ pc[thr(t)] \in WaitPcs
    BY DEF InWait, thr
  <2>3. \A t : InWait(t)' <=> ret'[thr(t)] \in WaitPcs \/ pc'[thr(t)] \in WaitPcs
    BY DEF InWait, thr
  <2>4. \A t \in Threads : InWait(t)' <=> InWait(t)
    BY <2>2, <2>3, <1>7, SetFacts, Zenon
  <2>5. \A t \in Threads : \A x : BlockedAt(t, x)' <=> BlockedAt(t, x)
    BY <1>7, SetFacts, Zenon DEF BlockedAt
  <2>6. \A t \in Threads : InWait(t)' => target'[t] \in Queues
    BY <2>1, <2>4, <1>13, Zenon DEF QueueInv
  <2>. QED
    BY <2>1, <2>4, <2>5, <2>6, <1>13, QueueQuiet, ZenonT(30)
<1>18. TypeOK'
  <2>1. pc' \in [Ctx -> Pcs] /\ ret' \in [Ctx -> Pcs]
    BY <1>3, <1>6, <1>8, ZenonT(60) DEF TypeOK
  <2>. QED
    BY <2>1, <1>2, <1>5, <1>6, <1>13, Zenon DEF TypeOK
<1>19. AssertionsHold'
  BY <1>5 DEF AssertionsHold
<1>. QED
  BY <1>9, <1>10, <1>11, <1>12, <1>14, <1>15, <1>16, <1>17, <1>18, <1>19
     DEF IInv, UpInv, ControlInv

(* The iretq of a handler keeps the invariant.                             *)
LEMMA Iret_step ==
  ASSUME TypeOK, UpInv, Up, Iret
  PROVE  IInv'
<1>1. PICK h \in Ctx : h = here /\ ActiveCtx(h)
  BY Active
<1>2. /\ pc[h] = "iret" /\ cpu \in Stacks /\ iflag' = TRUE
      /\ inirq' = [inirq EXCEPT ![cpu] = FALSE] /\ pc' = [pc EXCEPT ![h] = "none"]
      /\ UNCHANGED <<threadVars, waitVars, schedVars, cpu, irq_depth, callVars,
                     argVars, fault>>
  BY <1>1 DEF Iret, At, Goto, TypeOK
<1>3. h = irq(cpu) /\ irq(cpu) \in Ctx /\ thr(cpu) \in Ctx /\ thr(cpu) # irq(cpu)
  <2>1. \A t \in Threads : pc[thr(t)] # "iret"
    BY PcFacts, ZenonT(60) DEF UpInv, ControlInv, PcInv
  <2>2. pc[thr(Boot)] # "iret"
    BY PcFacts, ZenonT(30) DEF UpInv, ControlInv, PcInv
  <2>. QED
    BY <2>1, <2>2, <1>1, <1>2, SetFacts, CtxFacts, Zenon DEF ActiveCtx
<1>4. /\ \A s \in Stacks : pc'[thr(s)] = pc[thr(s)]
      /\ \A s \in Stacks : pc'[irq(s)] = IF s = cpu THEN "none" ELSE pc[irq(s)]
  BY <1>2, <1>3, CtxFacts, ZenonT(30) DEF TypeOK
<1>5. /\ {"none", "iret"} \cap YieldPcs = {} /\ {"none", "iret"} \cap PickedPcs = {}
      /\ {"none", "iret"} \cap LockedPcs = {} /\ {"none", "iret"} \cap AwayPcs = {}
      /\ "none" \in Pcs
  BY PcFacts
<1>6. /\ state' = state /\ wake_in' = wake_in /\ queued' = queued /\ freed' = freed
      /\ next_thread_id' = next_thread_id /\ wait_queue' = wait_queue
      /\ waiters' = waiters /\ cond' = cond /\ target' = target /\ left' = left
      /\ expired' = expired /\ current' = current /\ schedule_locked' = schedule_locked
      /\ need_resched' = need_resched /\ ret' = ret /\ prev' = prev /\ next' = next
      /\ head' = head /\ reap_list' = reap_list /\ irq_depth' = irq_depth /\ cpu' = cpu
      /\ fault' = fault
  BY <1>2, ZenonT(30) DEF threadVars, waitVars, argVars, schedVars, callVars, localVars
<1>7. PcInv'
  <2>1. \A s \in Stacks : inirq'[s] = (pc'[irq(s)] # "none")
    <3>1. inirq'[cpu] = FALSE /\ (pc'[irq(cpu)] # "none") = FALSE
      BY <1>2, <1>4 DEF TypeOK
    <3>2. \A s \in Stacks \ {cpu} : inirq'[s] = inirq[s] /\ pc'[irq(s)] = pc[irq(s)]
      BY <1>2, <1>4, Zenon DEF TypeOK
    <3>. QED
      BY <3>1, <3>2, ZenonT(30) DEF UpInv, ControlInv, PcInv
  <2>2. \A s \in Stacks :
       /\ pc'[irq(s)] \in YieldPcs \cup {"none", "irq_exit", "iret"}
       /\ pc'[irq(s)] \in YieldPcs => ret'[irq(s)] = "iret"
    BY <1>4, <1>5, <1>6, ZenonT(30) DEF UpInv, ControlInv, PcInv
  <2>. QED
    BY <2>1, <2>2, <1>4, <1>6, SetFacts, Zenon DEF UpInv, ControlInv, PcInv
<1>8. IrqInv'
  <2>1. inirq'[cpu] = FALSE
    BY <1>2, Zenon DEF TypeOK
  <2>. QED
    BY <2>1, <1>2, <1>3, <1>4, <1>6, SMTT(60), Z3T(60) DEF UpInv, ControlInv, IrqInv
<1>9. LockInv'
  <2>1. (pc'[thr(cpu)] \in LockedPcs \/ pc'[irq(cpu)] \in LockedPcs)
          = (pc[thr(cpu)] \in LockedPcs \/ pc[irq(cpu)] \in LockedPcs)
    BY <1>2, <1>3, <1>4, <1>5, Zenon
  <2>. QED
    BY <2>1, <1>2, <1>3, <1>4, <1>5, <1>6, Zenon DEF UpInv, ControlInv, LockInv
<1>10. CurrentInv'
  BY <1>2, <1>3, <1>4, <1>5, <1>6, ZenonT(30) DEF UpInv, ControlInv, CurrentInv
<1>11. BootInv'
  BY <1>4, <1>5, <1>6, SetFacts, ZenonT(60) DEF UpInv, BootInv
<1>12. RunningInv'
  <2>1. RunningInv
    BY ZenonT(30) DEF UpInv
  <2>2. /\ pc'[thr(cpu)] = pc[thr(cpu)] /\ pc[irq(cpu)] = "iret" /\ pc'[irq(cpu)] = "none"
        /\ pc[irq(cpu)] \notin PickedPcs
    BY <1>2, <1>3, <1>4, <1>5
  <2>3. /\ state' = state /\ current' = current /\ next' = next /\ prev' = prev
        /\ cpu' = cpu
    BY <1>6, ZenonT(30)
  <2>. QED
    BY <2>1, <2>2, <2>3, SMTT(60) DEF RunningInv
<1>13. StateInv'
  BY <1>2, <1>4, <1>6, SetFacts, ZenonT(60) DEF UpInv, StateInv
<1>14. QueueInv'
  <2>1. QueueInv
    BY DEF UpInv
  <2>2. \A t : InWait(t) <=> ret[thr(t)] \in WaitPcs \/ pc[thr(t)] \in WaitPcs
    BY DEF InWait, thr
  <2>3. \A t : InWait(t)' <=> ret'[thr(t)] \in WaitPcs \/ pc'[thr(t)] \in WaitPcs
    BY Zenon DEF InWait, thr
  <2>4. \A t \in Threads : InWait(t)' <=> InWait(t)
    BY <2>2, <2>3, <1>4, <1>6, SetFacts, ZenonT(30)
  <2>5. \A t \in Threads : \A x : BlockedAt(t, x)' <=> BlockedAt(t, x)
    BY <1>4, <1>6, SetFacts, ZenonT(30) DEF BlockedAt
  <2>6. \A t \in Threads : InWait(t)' => target'[t] \in Queues
    BY <2>1, <2>4, <1>6, ZenonT(30) DEF QueueInv
  <2>. QED
    BY <2>1, <2>4, <2>5, <2>6, <1>6, QueueQuiet, ZenonT(30)
<1>15. TypeOK'
  BY <1>2, <1>3, <1>5, <1>6, Zenon DEF TypeOK
<1>16. AssertionsHold'
  BY <1>6, Zenon DEF Up, AssertionsHold
<1>. QED
  BY <1>7, <1>8, <1>9, <1>10, <1>11, <1>12, <1>13, <1>14, <1>15, <1>16
     DEF IInv, UpInv, ControlInv

----------------------------------------------------------------------------

(* Boot.                                                                   *)

LEMMA BootHere ==
  ASSUME TypeOK, UpInv, At("boot")
  PROVE  /\ cpu = Boot /\ here = thr(Boot) /\ pc[irq(Boot)] = "none" /\ pc[thr(Boot)] = "boot"
         /\ \A t \in Threads : state[t] \in {"NONE", "READY"}
         /\ current = Boot /\ ~schedule_locked
<1>1. here = thr(cpu) /\ pc[irq(cpu)] = "none" /\ pc[thr(cpu)] = "boot" /\ cpu \in Stacks
  BY HereFact, PcFacts, SMTT(60), Z3T(60) DEF At, UpInv, ControlInv, PcInv
<1>2. cpu = Boot
  BY <1>1, SetFacts, PcFacts, ZenonT(60) DEF UpInv, ControlInv, PcInv
<1>3. \A t \in Threads : state[t] \in {"NONE", "READY"}
  BY <1>1, <1>2 DEF UpInv, BootInv
<1>4. {"none", "boot"} \cap LockedPcs = {} /\ {"none", "boot"} \cap AwayPcs = {}
  BY PcFacts
<1>. QED
  BY <1>1, <1>2, <1>3, <1>4, ZenonT(60) DEF UpInv, ControlInv, LockInv, CurrentInv

(* kernel_thread_create() keeps the invariant.                             *)
LEMMA kernel_thread_create_step ==
  ASSUME TypeOK, UpInv, Up, kernel_thread_create
  PROVE  IInv'
<1>. DEFINE n == next_thread_id
<1>1. /\ cpu = Boot /\ here = thr(Boot) /\ pc[irq(Boot)] = "none" /\ pc[thr(Boot)] = "boot"
      /\ \A t \in Threads : state[t] \in {"NONE", "READY"}
      /\ current = Boot
  BY BootHere, Zenon DEF kernel_thread_create
<1>2. n \in Threads /\ n \in 1..N /\ next_thread_id' = n + 1 /\ next_thread_id' \in 1..(N + 1)
  BY SchedAssumption, SMTT(60) DEF kernel_thread_create, TypeOK, Threads
<1>3. /\ \A t \in Threads : state'[t] = IF t = n THEN "READY" ELSE state[t]
      /\ queued' = queued \cup {n} /\ state[n] = "NONE"
      /\ \A t \in Threads : t # n => wake_in'[t] = wake_in[t]
      /\ state' \in [Threads -> States] /\ wake_in' \in [Threads -> Ticks \cup {Cleared}]
  <2>1. state[n] = "NONE"
    BY <1>2 DEF UpInv, BootInv, TypeOK
  <2>. QED
    BY <2>1, <1>2, Zenon DEF kernel_thread_create, TypeOK, States
<1>4. /\ UNCHANGED <<freed, wait_queue, waiters, cond, current, schedule_locked, need_resched,
                     cpu, iflag, inirq, irq_depth, pc, ret, prev, next, head, reap_list,
                     target, left, expired, fault>>
  BY DEF kernel_thread_create, waitVars, schedVars, cpuVars, callVars, localVars, argVars
<1>5. \A t \in Threads : t >= n + 1 <=> (t >= n /\ t # n)
  BY <1>2, SMTT(60) DEF Threads
<1>. HIDE DEF n
<1>6. ControlInv'
  BY <1>4, ZenonT(30) DEF UpInv, ControlInv, PcInv, IrqInv, LockInv, CurrentInv
<1>7. BootInv'
  <2>1. \A t \in Threads : state'[t] = "NONE" <=> t >= next_thread_id'
    BY <1>2, <1>3, <1>5, Zenon DEF UpInv, BootInv, n
  <2>2. \A t \in Threads : state'[t] \in {"NONE", "READY"}
    BY <1>1, <1>3, Zenon
  <2>3. pc'[irq(Boot)] \notin YieldPcs
    BY <1>1, <1>4, PcFacts, ZenonT(30)
  <2>. QED
    BY <2>1, <2>2, <2>3, <1>1, <1>4, Zenon DEF BootInv
<1>8. RunningInv'
  <2>1. \A t \in Threads : state'[t] # "RUNNING"
    BY <1>1, <1>3
  <2>2. "none" \notin PickedPcs
    BY PcFacts, ZenonT(30)
  <2>. QED
    BY <2>1, <1>1, <1>4, ZenonT(60) DEF RunningInv
<1>9. StateInv'
  <2>1. \A t \in Threads : state'[t] \notin {"ZOMBIE", "DEAD"} /\ state[t] \notin {"ZOMBIE", "DEAD"}
    BY <1>1, <1>3, Zenon
  <2>2. \A t \in Threads : ~(pc'[thr(t)] = "exit" \/ ret'[thr(t)] = "exit")
    BY <2>1, <1>4, ZenonT(30) DEF UpInv, StateInv
  <2>3. cpu' \notin Threads
    BY <1>1, <1>4, SetFacts, Zenon
  <2>4. state'[Idle] \in {"NONE", "READY", "RUNNING"}
    BY <1>1, <1>3, SetFacts, ZenonT(30)
  <2>5. \A c \in Ctx : \A t \in reap_list'[c] : state'[t] = "DEAD"
    BY <1>4, <2>1, Zenon DEF TypeOK, UpInv, StateInv
  <2>6. queued' = {t \in Threads : state'[t] \notin {"NONE", "DEAD"}}
    BY <1>2, <1>3, ZenonT(60) DEF UpInv, StateInv
  <2>7. freed' \subseteq {t \in Threads : state'[t] = "DEAD"}
    BY <1>4, <2>1, Zenon DEF TypeOK, UpInv, StateInv
  <2>. QED
    BY <2>1, <2>2, <2>3, <2>4, <2>5, <2>6, <2>7, ZenonT(30) DEF StateInv
<1>10. QueueInv'
  <2>1. QueueInv
    BY DEF UpInv
  <2>2. \A t \in Threads : /\ InWait(t)' <=> InWait(t)
                           /\ \A x : BlockedAt(t, x)' <=> BlockedAt(t, x)
    BY <1>4, ZenonT(30) DEF InWait, BlockedAt
  <2>3. \A t \in Threads : state'[t] = "WAITING" <=> state[t] = "WAITING"
    BY <1>3, Zenon
  <2>4. \A t \in Threads : InWait(t)' => target'[t] \in Queues
    BY <2>1, <2>2, <1>4, ZenonT(30) DEF QueueInv
  <2>. QED
    BY <2>1, <2>2, <2>3, <2>4, <1>4, QueueQuiet, ZenonT(30)
<1>11. TypeOK'
  BY <1>2, <1>3, <1>4, ZenonT(60) DEF TypeOK
<1>12. AssertionsHold'
  BY <1>4 DEF Up, AssertionsHold
<1>. QED
  BY <1>6, <1>7, <1>8, <1>9, <1>10, <1>11, <1>12, Zenon DEF IInv, UpInv

(* The first sched_yield(), from the boot context, keeps the invariant.    *)
LEMMA sched_start_step ==
  ASSUME TypeOK, UpInv, Up, sched_start
  PROVE  IInv'
<1>1. /\ cpu = Boot /\ here = thr(Boot) /\ pc[irq(Boot)] = "none" /\ pc[thr(Boot)] = "boot"
      /\ \A t \in Threads : state[t] \in {"NONE", "READY"}
      /\ current = Boot /\ ~schedule_locked /\ thr(Boot) \in Ctx
  BY BootHere, CtxFacts, SetFacts, Zenon DEF sched_start
<1>2. /\ next_thread_id > N /\ pc' = [pc EXCEPT ![thr(Boot)] = "y_assert"]
      /\ ret' = [ret EXCEPT ![thr(Boot)] = "boot_return"]
      /\ UNCHANGED <<prev, next, head, reap_list, state, wake_in, queued, next_thread_id,
                     freed, wait_queue, waiters, cond, current, schedule_locked,
                        need_resched,
                     cpu, iflag, inirq, irq_depth, target, left, expired, fault>>
  BY <1>1, Zenon DEF sched_start, CallYield, Goto, threadVars, waitVars,
     schedVars, cpuVars,
     localVars, argVars
<1>3. /\ \A s \in Stacks : pc'[thr(s)] = IF s = Boot THEN "y_assert" ELSE pc[thr(s)]
      /\ \A s \in Stacks : ret'[thr(s)] = IF s = Boot THEN "boot_return" ELSE ret[thr(s)]
      /\ \A s \in Stacks : pc'[irq(s)] = pc[irq(s)] /\ ret'[irq(s)] = ret[irq(s)]
  BY <1>1, <1>2, CtxFacts, SetFacts, ZenonT(30) DEF TypeOK
<1>4. /\ "y_assert" \in YieldPcs /\ "y_assert" \in Pcs /\ "boot_return" \in Pcs
      /\ "y_assert" \notin PickedPcs /\ "y_assert" \notin LockedPcs /\ "y_assert" \notin AwayPcs
      /\ "boot" \notin PickedPcs /\ "boot" \notin LockedPcs /\ "boot" \notin AwayPcs
      /\ "none" \notin YieldPcs
      /\ "none" \notin PickedPcs /\ "none" \notin LockedPcs /\ "none" \notin AwayPcs
  BY PcFacts
<1>5. \A t \in Threads : pc'[thr(t)] = pc[thr(t)] /\ ret'[thr(t)] = ret[thr(t)]
  BY <1>3, SetFacts, ZenonT(60)
<1>6. PcInv'
  <2>1. PcInv
    BY ZenonT(30) DEF UpInv, ControlInv
  <2>. QED
    BY <2>1, <1>2, <1>3, <1>4, <1>5, SetFacts, SMTT(60), Z3T(60) DEF PcInv
<1>7. IrqInv'
  BY <1>2, <1>3, <1>1, SetFacts, Zenon DEF UpInv, ControlInv, IrqInv
<1>8. LockInv'
  <2>1. (pc'[thr(cpu)] \in LockedPcs \/ pc'[irq(cpu)] \in LockedPcs)
          = (pc[thr(cpu)] \in LockedPcs \/ pc[irq(cpu)] \in LockedPcs)
    BY <1>1, <1>3, <1>4, SetFacts, ZenonT(30)
  <2>. QED
    BY <2>1, <1>1, <1>2, <1>3, <1>4, SetFacts, ZenonT(60) DEF UpInv, ControlInv, LockInv
<1>9. CurrentInv'
  <2>1. CurrentInv
    BY ZenonT(60) DEF UpInv, ControlInv
  <2>. QED
    BY <2>1, <1>1, <1>2, <1>3, <1>4, SetFacts, SMTT(60), Z3T(60) DEF CurrentInv
<1>10. BootInv'
  <2>1. BootInv /\ cpu \in Stacks
    BY ZenonT(60) DEF TypeOK, UpInv
  <2>. QED
    BY <2>1, <1>1, <1>2, <1>3, <1>4, SetFacts, SchedAssumption, SMTT(60), Z3T(60)
       DEF TypeOK, BootInv
<1>11. RunningInv'
  BY <1>1, <1>2, <1>3, <1>4, SetFacts, SMTT(60) DEF RunningInv
<1>12. StateInv'
  BY <1>1, <1>2, <1>5, SetFacts, ZenonT(60) DEF UpInv, StateInv
<1>13. QueueInv'
  <2>1. QueueInv
    BY DEF UpInv
  <2>2. \A t : InWait(t) <=> ret[thr(t)] \in WaitPcs \/ pc[thr(t)] \in WaitPcs
    BY DEF InWait, thr
  <2>3. \A t : InWait(t)' <=> ret'[thr(t)] \in WaitPcs \/ pc'[thr(t)] \in WaitPcs
    BY ZenonT(30) DEF InWait, thr
  <2>4. \A t \in Threads : InWait(t)' <=> InWait(t)
    BY <2>2, <2>3, <1>5
  <2>5. \A t \in Threads : \A x : BlockedAt(t, x)' <=> BlockedAt(t, x)
    BY <1>5, ZenonT(30) DEF BlockedAt
  <2>6. \A t \in Threads : InWait(t)' => target'[t] \in Queues
    BY <2>1, <2>4, <1>2, ZenonT(30) DEF QueueInv
  <2>. QED
    BY <2>1, <2>4, <2>5, <2>6, <1>2, QueueQuiet, ZenonT(30)
<1>14. TypeOK'
  BY <1>1, <1>2, <1>4, Zenon DEF TypeOK
<1>15. AssertionsHold'
  BY <1>2 DEF Up, AssertionsHold
<1>. QED
  BY <1>6, <1>7, <1>8, <1>9, <1>10, <1>11, <1>12, <1>13, <1>14, <1>15, Zenon
     DEF IInv, UpInv, ControlInv

----------------------------------------------------------------------------
====
