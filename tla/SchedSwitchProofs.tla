------------------------- MODULE SchedSwitchProofs --------------------------
(***************************************************************************)
(* Proofs about Sched, part five: the steps of sched_yield() from the      *)
(* choice of the next thread to the context switch keep the inductive      *)
(* invariant.                                                              *)
(***************************************************************************)
EXTENDS SchedYieldProofs

(* From one control point behind the choice of the next thread to another. *)
LEMMA PickedControl ==
  ASSUME TypeOK, UpInv, NEW h \in Ctx, ActiveCtx(h),
         pc[h] \in PickedPcs, NEW p \in PickedPcs,
         pc' = [pc EXCEPT ![h] = p], ret' = ret, prev' = prev, next' = next,
         cpuVars' = cpuVars, schedule_locked' = (p \in LockedPcs),
         pc[h] \in AwayPcs => p \in AwayPcs,
         current' = IF p \in AwayPcs THEN next[h] ELSE current
  PROVE  ControlInv'
<1>1. /\ cpu' = cpu /\ iflag' = iflag /\ inirq' = inirq /\ irq_depth' = irq_depth
  BY DEF cpuVars
<1>2. /\ cpu \in Stacks /\ pc \in [Ctx -> Pcs]
      /\ \A c \in Ctx : pc'[c] = IF c = h THEN p ELSE pc[c]
      /\ h \in {thr(cpu), irq(cpu)} /\ p # "none" /\ p # "irq_exit" /\ pc[h] # "irq_exit"
      /\ pc[h] # "iret" /\ pc[h] # "none" /\ p # "boot" /\ pc[h] # "run"
      /\ p \in YieldPcs /\ pc[h] \in YieldPcs
  BY PcFacts DEF TypeOK, ActiveCtx
<1>3. \A s \in Stacks :
        /\ pc'[thr(s)] = IF h = thr(s) THEN p ELSE pc[thr(s)]
        /\ pc'[irq(s)] = IF h = irq(s) THEN p ELSE pc[irq(s)]
        /\ s # cpu => h # thr(s) /\ h # irq(s)
        /\ h = thr(s) => pc[thr(s)] \in PickedPcs /\ h # irq(s)
        /\ h = irq(s) => pc[irq(s)] \in PickedPcs
  BY <1>2, CtxFacts
<1>4. PcInv'
  BY <1>1, <1>2, <1>3, SetFacts, PcFacts, SMTT(60), Z3T(60) DEF UpInv, ControlInv, PcInv
<1>5. IrqInv'
  BY <1>1, <1>2, <1>3 DEF UpInv, ControlInv, IrqInv
<1>6. LockInv'
  <2>1. CASE h = thr(cpu) /\ pc[irq(cpu)] = "none"
    BY <2>1, <1>1, <1>2, <1>3, PcFacts, SMTT(60), Z3T(60) DEF UpInv, ControlInv, LockInv
  <2>2. CASE h = irq(cpu)
    BY <2>2, <1>1, <1>2, <1>3, CtxFacts, PcFacts, SMTT(60), Z3T(60)
       DEF UpInv, ControlInv, LockInv
  <2>. QED
    BY <2>1, <2>2 DEF ActiveCtx
<1>7. CurrentInv'
  <2>1. CASE h = thr(cpu) /\ pc[irq(cpu)] = "none"
    <3>1. pc'[irq(cpu)] = "none" /\ "none" \notin PickedPcs /\ "none" \notin AwayPcs
      BY <2>1, <1>2, <1>3, CtxFacts, PcFacts
    <3>. QED
      BY <2>1, <3>1, <1>1, <1>2, <1>3, PcFacts, SMTT(60), Z3T(60)
         DEF UpInv, ControlInv, CurrentInv
  <2>2. CASE h = irq(cpu)
    <3>1. \A s \in Stacks : pc'[thr(s)] = pc[thr(s)]
      BY <2>2, <1>2, <1>3, CtxFacts
    <3>. QED
      BY <2>2, <3>1, <1>1, <1>2, <1>3, PcFacts DEF UpInv, ControlInv, CurrentInv
  <2>. QED
    BY <2>1, <2>2 DEF ActiveCtx
<1>. QED
  BY <1>4, <1>5, <1>6, <1>7 DEF ControlInv

(* Setting schedule_locked keeps the invariant.                            *)
LEMMA YieldLock_step ==
  ASSUME TypeOK, UpInv, Up, YieldLock
  PROVE  IInv'
<1>1. PICK h \in Ctx : h = here /\ ActiveCtx(h)
  BY Active
<1>2. /\ pc[h] = "y_lock" /\ pc' = [pc EXCEPT ![h] = "y_ready"] /\ schedule_locked' = TRUE
      /\ UNCHANGED <<threadVars, waitVars, current, need_resched, cpuVars, callVars,
                     argVars, fault>>
  BY <1>1 DEF YieldLock, At, Goto
<1>3. /\ ret' = ret /\ prev' = prev /\ next' = next /\ reap_list' = reap_list
      /\ head' = head /\ state' = state /\ cpu' = cpu
  BY <1>2 DEF callVars, localVars, threadVars, cpuVars
<1>4. ControlInv'
  BY <1>1, <1>2, <1>3, PickedControl, PcFacts, ZenonT(30)
<1>5. BootInv' /\ StateInv' /\ QueueInv'
  BY <1>1, <1>2, <1>3, YieldKeeps, PcFacts, ZenonT(60)
<1>6. RunningInv'
  <2>1. cpu \in Stacks /\ thr(cpu) \in Ctx /\ irq(cpu) \in Ctx /\ thr(cpu) # irq(cpu)
    BY CtxFacts DEF TypeOK
  <2>2. \A c \in Ctx : pc'[c] = IF c = h THEN "y_ready" ELSE pc[c]
    BY <1>2 DEF TypeOK
  <2>. QED
    BY <1>1, <1>2, <1>3, <2>1, <2>2, SMTT(60), Z3T(60) DEF UpInv, RunningInv
<1>7. TypeOK'
  BY <1>2, <1>3, PcFacts DEF TypeOK, threadVars, waitVars, cpuVars, argVars
<1>8. AssertionsHold'
  BY <1>2 DEF Up, AssertionsHold
<1>. QED
  BY <1>4, <1>5, <1>6, <1>7, <1>8 DEF IInv, UpInv

(* Clearing schedule_locked, with current_thread already changed and the   *)
(* switch still to come, keeps the invariant.                              *)
LEMMA YieldUnlock_step ==
  ASSUME TypeOK, UpInv, Up, YieldUnlock
  PROVE  IInv'
<1>1. PICK h \in Ctx : h = here /\ ActiveCtx(h)
  BY Active
<1>2. /\ pc[h] = "y_unlock" /\ pc' = [pc EXCEPT ![h] = "y_switch"] /\ schedule_locked' = FALSE
      /\ UNCHANGED <<threadVars, waitVars, current, need_resched, cpuVars, callVars,
                     argVars, fault>>
  BY <1>1 DEF YieldUnlock, At, Goto
<1>3. /\ ret' = ret /\ prev' = prev /\ next' = next /\ reap_list' = reap_list
      /\ head' = head /\ state' = state /\ cpu' = cpu
  BY <1>2, ZenonT(60) DEF callVars, localVars, threadVars, cpuVars
<1>4. current = next[h]
  BY <1>1, <1>2, PcFacts, SMTT(60), Z3T(60) DEF ActiveCtx, UpInv, ControlInv, CurrentInv
<1>5. ControlInv'
  <2>1. /\ "y_switch" \in PickedPcs /\ "y_unlock" \in PickedPcs
        /\ "y_switch" \notin LockedPcs /\ "y_switch" \in AwayPcs
    BY PcFacts
  <2>2. schedule_locked' = ("y_switch" \in LockedPcs)
    <3>1. ("y_switch" \in LockedPcs) = FALSE
      BY <2>1
    <3>2. schedule_locked' = FALSE
      BY <1>2
    <3>. QED
      BY <3>1, <3>2, ZenonT(30)
  <2>3. current' = IF "y_switch" \in AwayPcs THEN next[h] ELSE current
    BY <2>1, <1>2, <1>4
  <2>. QED
    BY <2>1, <2>2, <2>3, <1>1, <1>2, <1>3, PickedControl, ZenonT(30)
<1>6. BootInv' /\ StateInv' /\ QueueInv'
  BY <1>1, <1>2, <1>3, YieldKeeps, PcFacts, ZenonT(60)
<1>7. RunningInv'
  <2>1. cpu \in Stacks /\ thr(cpu) \in Ctx /\ irq(cpu) \in Ctx /\ thr(cpu) # irq(cpu)
    BY CtxFacts DEF TypeOK
  <2>2. \A c \in Ctx : pc'[c] = IF c = h THEN "y_switch" ELSE pc[c]
    BY <1>2 DEF TypeOK
  <2>3. {"y_unlock", "y_switch"} \subseteq PickedPcs
    BY PcFacts, Zenon
  <2>. QED
    BY <1>1, <1>2, <1>3, <2>1, <2>2, <2>3, SMTT(60), Z3T(60) DEF UpInv, RunningInv
<1>8. TypeOK'
  BY <1>2, <1>3, PcFacts, ZenonT(30) DEF TypeOK, threadVars, waitVars, cpuVars, argVars
<1>9. AssertionsHold'
  BY <1>2 DEF Up, AssertionsHold
<1>. QED
  BY <1>5, <1>6, <1>7, <1>8, <1>9 DEF IInv, UpInv

(* The store to current_thread keeps the invariant.                        *)
LEMMA YieldCurrent_step ==
  ASSUME TypeOK, UpInv, Up, YieldCurrent
  PROVE  IInv'
<1>1. PICK h \in Ctx : h = here /\ ActiveCtx(h)
  BY Active
<1>2. /\ pc[h] = "y_current" /\ pc' = [pc EXCEPT ![h] = "y_unlock"] /\ current' = next[h]
      /\ UNCHANGED <<threadVars, waitVars, schedule_locked, need_resched, cpuVars, callVars,
                     argVars, fault>>
  BY <1>1, Zenon DEF YieldCurrent, At, Goto
<1>3. /\ ret' = ret /\ prev' = prev /\ next' = next /\ reap_list' = reap_list
      /\ head' = head /\ state' = state /\ cpu' = cpu
  BY <1>2 DEF callVars, localVars, threadVars, cpuVars
<1>4. /\ next[h] \in Threads /\ state[next[h]] = "RUNNING" /\ schedule_locked = TRUE
      /\ prev[h] = current
  <2>1. "y_current" \in LockedPcs /\ "y_current" \in PickedPcs /\ "y_current" \notin AwayPcs
        /\ "none" \notin PickedPcs /\ "none" \notin LockedPcs /\ "none" \notin AwayPcs
        /\ AwayPcs \subseteq PickedPcs /\ cpu \in Stacks /\ "y_current" \in YieldPcs
    BY PcFacts, Zenon DEF TypeOK
  <2>2. next[h] \in Threads /\ prev[h] = current
    <3>1. CASE h = thr(cpu) /\ pc[irq(cpu)] = "none"
      BY <3>1, <2>1, <1>2, Zenon DEF UpInv, ControlInv, CurrentInv
    <3>2. CASE h = irq(cpu)
      BY <3>2, <2>1, <1>2, ZenonT(60) DEF UpInv, ControlInv, CurrentInv
    <3>. QED
      BY <3>1, <3>2, <1>1, Zenon DEF ActiveCtx
  <2>3. state[next[h]] = "RUNNING"
    <3>1. CASE h = thr(cpu) /\ pc[irq(cpu)] = "none"
      BY <3>1, <2>1, <1>2, ZenonT(60) DEF UpInv, RunningInv
    <3>2. CASE h = irq(cpu)
      BY <3>2, <2>1, <1>2 DEF UpInv, RunningInv
    <3>. QED
      BY <3>1, <3>2, <1>1 DEF ActiveCtx
  <2>4. schedule_locked = TRUE
    BY <1>1, <1>2, <2>1, ZenonT(30) DEF ActiveCtx, UpInv, ControlInv, LockInv
  <2>. QED
    BY <2>2, <2>3, <2>4, Zenon
<1>5. ControlInv'
  BY <1>1, <1>2, <1>3, <1>4, PickedControl, PcFacts, ZenonT(30)
<1>6. BootInv' /\ StateInv' /\ QueueInv'
  BY <1>1, <1>2, <1>3, <1>4, YieldKeeps, PcFacts, ZenonT(60)
<1>7. RunningInv'
  <2>1. cpu \in Stacks /\ thr(cpu) \in Ctx /\ irq(cpu) \in Ctx /\ thr(cpu) # irq(cpu)
    BY CtxFacts DEF TypeOK
  <2>2. \A c \in Ctx : pc'[c] = IF c = h THEN "y_unlock" ELSE pc[c]
    BY <1>2 DEF TypeOK
  <2>3. "y_unlock" \in PickedPcs /\ "y_current" \in PickedPcs
    BY PcFacts, Zenon
  <2>4. prev[h] = Boot \/ state[prev[h]] # "RUNNING"
    BY <1>1, <1>2, Zenon DEF ActiveCtx, UpInv, RunningInv
  <2>6. RunningInv
    BY ZenonT(30) DEF UpInv
  <2>5. \A t \in Threads : state[t] = "RUNNING" => t = next[h]
    <3>1. \A c \in {thr(cpu), irq(cpu)} : c # h => pc[c] # "y_current"
      BY <1>1, <1>2, <2>1, PcFacts, SMTT(60), Z3T(60)
         DEF ActiveCtx, UpInv, ControlInv, LockInv
    <3>. QED
      BY <3>1, <2>4, <2>6, <1>4, SetFacts, SMTT(60), Z3T(60) DEF RunningInv
  <2>. QED
    BY <1>1, <1>2, <1>3, <1>4, <2>1, <2>2, <2>3, <2>5, <2>6, SMTT(60), Z3T(60)
       DEF RunningInv
<1>8. TypeOK'
  BY <1>2, <1>3, <1>4, SetFacts, PcFacts, ZenonT(60) DEF TypeOK, threadVars, waitVars,
     cpuVars, argVars
<1>9. AssertionsHold'
  BY <1>2, ZenonT(30) DEF Up, AssertionsHold
<1>. QED
  BY <1>5, <1>6, <1>7, <1>8, <1>9 DEF IInv, UpInv

(* A step of a switch that makes one thread READY or RUNNING.              *)
LEMMA PickedState ==
  ASSUME TypeOK, UpInv, NEW h \in Ctx, ActiveCtx(h), pc[h] \in PickedPcs \ AwayPcs,
         NEW p \in PickedPcs \ AwayPcs, pc' = [pc EXCEPT ![h] = p], ret' = ret,
         NEW u \in Threads, state[u] \in {"READY", "RUNNING"},
         state' = [state EXCEPT ![u] = state'[u]], state'[u] \in {"READY", "RUNNING"},
         \A t \in Threads : t # u => wake_in'[t] = wake_in[t],
         UNCHANGED <<queued, next_thread_id, freed, waitVars, argVars, reap_list, cpu, current>>
  PROVE  BootInv' /\ StateInv' /\ QueueInv'
<1>1. /\ queued' = queued /\ freed' = freed
      /\ next_thread_id' = next_thread_id /\ cond' = cond /\ target' = target
      /\ wait_queue' = wait_queue /\ waiters' = waiters /\ cpu' = cpu
      /\ reap_list' = reap_list /\ current' = current
      /\ pc[h] \in YieldPcs /\ p \in YieldPcs
  BY PcFacts, Zenon DEF waitVars, argVars
<1>2. \A t \in Threads :
        /\ InWait(t)' <=> InWait(t)
        /\ \A x \in ThreadPcs \ YieldPcs : BlockedAt(t, x)' <=> BlockedAt(t, x)
        /\ pc'[thr(t)] \in YieldPcs <=> pc[thr(t)] \in YieldPcs
  BY <1>1, YieldStays, ZenonT(30)
<1>3. \A t \in Threads :
        \/ state'[t] = state[t]
        \/ t = u /\ state[t] \in {"READY", "RUNNING"} /\ state'[t] \in {"READY", "RUNNING"}
  BY ZenonT(60) DEF TypeOK
<1>4. BootInv'
  <2>1. next_thread_id > N
    BY <1>1, YieldNotIdle, Zenon
  <2>2. /\ pc'[thr(Boot)] = IF h = thr(Boot) THEN p ELSE pc[thr(Boot)]
        /\ pc'[irq(Boot)] = IF h = irq(Boot) THEN p ELSE pc[irq(Boot)]
        /\ h = thr(Boot) => cpu = Boot /\ pc[irq(Boot)] = "none" /\ h # irq(Boot)
        /\ cpu = Boot => h = thr(Boot) \/ h = irq(Boot)
    BY CtxFacts, SetFacts, ZenonT(30) DEF TypeOK, ActiveCtx
  <2>3. /\ {"boot", "y_assert", "y_reap", "y_release"} \cap PickedPcs = {}
        /\ "none" \notin YieldPcs
    BY DEF YieldPcs, PickedPcs
  <2>4. pc'[irq(Boot)] \in YieldPcs => pc'[thr(Boot)] \in AwayPcs
    BY <2>2, <2>3, <1>1, ZenonT(30) DEF UpInv, BootInv
  <2>5. cpu = Boot => pc'[thr(Boot)] \notin {"boot", "y_assert", "y_reap", "y_release"}
    BY <2>2, <2>3, <2>4, <1>1, PcFacts, ZenonT(60)
  <2>6. \A t \in Threads : state'[t] = "NONE" <=> state[t] = "NONE"
    BY <1>3
  <2>. QED
    <3>1. BootInv
      BY ZenonT(30) DEF UpInv
    <3>2. next_thread_id \in 1..(N + 1)
      BY ZenonT(30) DEF TypeOK
    <3>. QED
      BY <2>1, <2>4, <2>5, <2>6, <1>1, <3>1, <3>2, SchedAssumption, SMTT(60), Z3T(60)
         DEF BootInv
<1>5. StateInv'
  <2>1. \A t \in Threads : (pc'[thr(t)] = "exit" \/ ret'[thr(t)] = "exit") <=>
                           (pc[thr(t)] = "exit" \/ ret[thr(t)] = "exit")
    BY <1>2, PcFacts, ZenonT(60) DEF BlockedAt
  <2>2. cpu' \in Threads /\ pc'[thr(cpu')] \notin YieldPcs
          => state'[cpu'] \in {"READY", "RUNNING"}
    BY <1>1, <1>2, <1>3, ZenonT(30) DEF UpInv, StateInv
  <2>3. \A t \in Threads : /\ state'[t] \in {"ZOMBIE", "DEAD"} <=> state[t] \in {"ZOMBIE", "DEAD"}
                           /\ state'[t] = "DEAD" <=> state[t] = "DEAD"
                           /\ state'[t] = "NONE" <=> state[t] = "NONE"
                           /\ state[t] = "DEAD" => t # u
    BY <1>3, Zenon
  <2>4. state'[Idle] \in {"NONE", "READY", "RUNNING"}
    BY <1>3, SetFacts, Zenon DEF UpInv, StateInv
  <2>5. \A t \in Threads : state'[t] = "DEAD" => t # current' /\ wake_in'[t] = Cleared
    BY <1>1, <2>3, ZenonT(60) DEF UpInv, StateInv
  <2>6. \A c \in Ctx : \A t \in reap_list'[c] : state'[t] = "DEAD"
    <3>1. reap_list' = reap_list /\ reap_list \in [Ctx -> SUBSET Threads]
      BY <1>1, ZenonT(30) DEF TypeOK
    <3>2. \A c \in Ctx : \A t \in reap_list[c] : state[t] = "DEAD"
      BY ZenonT(30) DEF UpInv, StateInv
    <3>. QED
      BY <3>1, <3>2, <2>3, Zenon
  <2>7. queued' = {t \in Threads : state'[t] \notin {"NONE", "DEAD"}}
    BY <1>1, <2>3, Zenon DEF UpInv, StateInv
  <2>8. freed' \subseteq {t \in Threads : state'[t] = "DEAD"}
    BY <1>1, <2>3, ZenonT(30) DEF UpInv, StateInv
  <2>9. \A t \in Threads : state'[t] \in {"ZOMBIE", "DEAD"} <=>
          pc'[thr(t)] = "exit" \/ ret'[thr(t)] = "exit"
    BY <2>1, <2>3, Zenon DEF UpInv, StateInv
  <2>. QED
    BY <2>2, <2>4, <2>5, <2>6, <2>7, <2>8, <2>9, ZenonT(30) DEF StateInv
<1>6. QueueInv'
  <2>1. QueueInv
    BY Zenon DEF UpInv
  <2>2. \A t \in Threads : \A x \in {"s_check", "w_remove", "t_remove"} :
          BlockedAt(t, x) => BlockedAt(t, x)'
    BY <1>2, PcFacts, ZenonT(60)
  <2>3. \A t \in Threads : state'[t] = "WAITING" <=> state[t] = "WAITING"
    BY <1>3, ZenonT(30)
  <2>. QED
    BY <1>1, <1>2, <2>1, <2>2, <2>3, QueueQuiet, ZenonT(60) DEF QueueInv
<1>. QED
  BY <1>4, <1>5, <1>6

(* Making the previous thread READY keeps the invariant.                   *)
LEMMA YieldReady_step ==
  ASSUME TypeOK, UpInv, Up, YieldReady
  PROVE  IInv'
<1>1. PICK h \in Ctx : h = here /\ ActiveCtx(h)
  BY Active
<1>2. /\ pc[h] = "y_ready" /\ pc' = [pc EXCEPT ![h] = "y_run"]
      /\ IF prev[h] # Boot /\ state[prev[h]] = "RUNNING"
         THEN /\ state'   = [state EXCEPT ![prev[h]] = "READY"]
              /\ wake_in' = [wake_in EXCEPT ![prev[h]] = Cleared]
         ELSE UNCHANGED <<state, wake_in>>
      /\ UNCHANGED <<queued, next_thread_id, freed, waitVars, current, schedule_locked,
                     need_resched, cpuVars, ret, prev, next, head, reap_list, argVars, fault>>
  BY <1>1 DEF YieldReady, At, Goto, schedVars, callVars, localVars
<1>3. /\ "y_ready" \in PickedPcs /\ "y_ready" \in LockedPcs /\ "y_ready" \notin AwayPcs
      /\ "y_run" \in PickedPcs /\ "y_run" \in LockedPcs /\ "y_run" \notin AwayPcs
      /\ "y_run" \in Pcs
  BY PcFacts, Zenon
<1>4. /\ cpu \in Stacks /\ thr(cpu) \in Ctx /\ irq(cpu) \in Ctx /\ thr(cpu) # irq(cpu)
      /\ next[h] \in Threads /\ prev[h] \in Stacks /\ next[h] # prev[h]
      /\ current = prev[h] /\ schedule_locked = TRUE
      /\ \A c \in {thr(cpu), irq(cpu)} : c # h => pc[c] \notin LockedPcs
  BY <1>1, <1>2, <1>3, PickedLocals, ZenonT(30)
<1>5. ControlInv'
  BY <1>1, <1>2, <1>3, <1>4, PickedControl, ZenonT(30)
<1>6. cpu' = cpu
  BY <1>2 DEF cpuVars
<1>7. \A t \in Threads : state'[t] =
        IF t = prev[h] /\ state[t] = "RUNNING" THEN "READY" ELSE state[t]
  BY <1>2, SetFacts DEF TypeOK
<1>8. BootInv' /\ StateInv' /\ QueueInv'
  <2>1. CASE prev[h] # Boot /\ state[prev[h]] = "RUNNING"
    <3>1. /\ prev[h] \in Threads /\ state[prev[h]] \in {"READY", "RUNNING"}
          /\ state' = [state EXCEPT ![prev[h]] = state'[prev[h]]]
          /\ state'[prev[h]] \in {"READY", "RUNNING"}
          /\ \A t \in Threads : t # prev[h] => wake_in'[t] = wake_in[t]
      BY <2>1, <1>2, <1>4, SetFacts DEF TypeOK
    <3>. QED
      BY <3>1, <1>1, <1>2, <1>3, <1>6, PickedState, ZenonT(60)
  <2>2. CASE ~(prev[h] # Boot /\ state[prev[h]] = "RUNNING")
    <3>1. UNCHANGED <<threadVars, waitVars, argVars, reap_list, cpu>>
      BY <2>2, <1>2, <1>6, ZenonT(30) DEF threadVars
    <3>. QED
      BY <3>1, <1>1, <1>2, <1>3, YieldKeeps, PcFacts, ZenonT(30)
  <2>. QED
    BY <2>1, <2>2
<1>9. RunningInv'
  <2>1. \A c \in Ctx : pc'[c] = IF c = h THEN "y_run" ELSE pc[c]
    BY <1>2, ZenonT(30) DEF TypeOK
  <2>2. \A t \in Threads : state'[t] # "RUNNING"
    <3>1. \A t \in Threads : state[t] = "RUNNING" => t = current
      <4>1. RunningInv
        BY ZenonT(30) DEF UpInv
      <4>2. \A c \in {thr(cpu), irq(cpu)} : pc[c] # "y_current"
        BY <1>2, <1>4, PcFacts, ZenonT(60)
      <4>. QED
        BY <4>1, <4>2, ZenonT(30) DEF RunningInv
    <3>. QED
      BY <3>1, <1>4, <1>7, ZenonT(30)
  <2>3. pc'[irq(cpu)] \notin {"y_current", "y_unlock", "y_switch"}
    BY <1>1, <1>2, <1>4, <2>1, SMTT(60), Z3T(60) DEF ActiveCtx
  <2>4. pc'[thr(cpu)] \in {"y_current", "y_unlock", "y_switch"}
          => pc'[irq(cpu)] \in PickedPcs \ {"y_lock", "y_ready"}
    BY <1>1, <1>3, <1>4, <2>1 DEF ActiveCtx
  <2>5. \A c \in {thr(cpu), irq(cpu)} : pc'[c] \in {"y_run", "y_current"} =>
          prev[c] = Boot \/ state'[prev[c]] # "RUNNING"
    <3>1. \A c \in {thr(cpu), irq(cpu)} : pc'[c] \in {"y_run", "y_current"} => c = h
      BY <1>4, <2>1, PcFacts, ZenonT(60)
    <3>. QED
      BY <3>1, <2>2, <1>4, SetFacts, ZenonT(30)
  <2>. QED
    BY <2>2, <2>3, <2>4, <2>5, <1>2, <1>6, ZenonT(30) DEF RunningInv
<1>10. TypeOK'
  <2>1. state' \in [Threads -> States] /\ wake_in' \in [Threads -> Ticks \cup {Cleared}]
    BY <1>2, ZenonT(30) DEF TypeOK, States
  <2>. QED
    BY <2>1, <1>2, <1>3, Zenon DEF TypeOK, waitVars, cpuVars, argVars
<1>11. AssertionsHold'
  BY <1>2 DEF Up, AssertionsHold
<1>. QED
  BY <1>5, <1>8, <1>9, <1>10, <1>11 DEF IInv, UpInv

(* Making the next thread RUNNING keeps the invariant: nobody else is.     *)
LEMMA YieldRun_step ==
  ASSUME TypeOK, UpInv, Up, YieldRun
  PROVE  IInv'
<1>1. PICK h \in Ctx : h = here /\ ActiveCtx(h)
  BY Active
<1>2. /\ pc[h] = "y_run" /\ pc' = [pc EXCEPT ![h] = "y_current"]
      /\ state' = [state EXCEPT ![next[h]] = "RUNNING"]
      /\ fault' = IF next[h] \in freed THEN "use_after_free"
                  ELSE IF thread_state_transition_is_valid(state[next[h]], "RUNNING")
                  THEN "none" ELSE "transition"
      /\ UNCHANGED <<wake_in, queued, next_thread_id, freed, waitVars, current,
                     schedule_locked, need_resched, cpuVars, ret, prev, next, head,
                     reap_list, argVars>>
  BY <1>1 DEF YieldRun, At, Goto, schedVars, callVars, localVars
<1>3. /\ "y_run" \in PickedPcs /\ "y_run" \in LockedPcs /\ "y_run" \notin AwayPcs
      /\ "y_current" \in PickedPcs /\ "y_current" \in LockedPcs /\ "y_current" \notin AwayPcs
      /\ "y_current" \in Pcs
  BY PcFacts, Zenon
<1>4. /\ cpu \in Stacks /\ thr(cpu) \in Ctx /\ irq(cpu) \in Ctx /\ thr(cpu) # irq(cpu)
      /\ next[h] \in Threads /\ prev[h] \in Stacks /\ next[h] # prev[h]
      /\ current = prev[h] /\ schedule_locked = TRUE
      /\ \A c \in {thr(cpu), irq(cpu)} : c # h => pc[c] \notin LockedPcs
  BY <1>1, <1>2, <1>3, PickedLocals, ZenonT(30)
<1>5. TypeOK'
  <2>1. state' \in [Threads -> States] /\ fault' \in {"none"} \cup Panics \cup Undefined
    BY <1>2, ZenonT(30) DEF TypeOK, States, Panics, Undefined
  <2>. QED
    BY <2>1, <1>2, <1>3, Zenon DEF TypeOK, waitVars, cpuVars, argVars
<1>6. AssertionsHold'
  BY <1>2, ZenonT(30) DEF AssertionsHold
<1>7. ASSUME Up' PROVE UpInv'
  <2>1. state[next[h]] \in {"READY", "RUNNING"}
    <3>1. fault' = "none"
      BY <1>7, ZenonT(30) DEF Up
    <3>. QED
      BY <1>2, <3>1, ZenonT(30) DEF thread_state_transition_is_valid
  <2>2. ControlInv'
    BY <1>1, <1>2, <1>3, <1>4, PickedControl, ZenonT(30)
  <2>3. cpu' = cpu
    BY <1>2, ZenonT(30) DEF cpuVars
  <2>4. BootInv' /\ StateInv' /\ QueueInv'
    <3>1. /\ state' = [state EXCEPT ![next[h]] = state'[next[h]]]
          /\ state'[next[h]] \in {"READY", "RUNNING"}
      BY <1>2, <1>4, ZenonT(30) DEF TypeOK
    <3>. QED
      BY <3>1, <2>1, <2>3, <1>1, <1>2, <1>3, <1>4, PickedState, ZenonT(30)
  <2>5. RunningInv'
    <3>1. \A c \in Ctx : pc'[c] = IF c = h THEN "y_current" ELSE pc[c]
      BY <1>2, Zenon DEF TypeOK
    <3>2. \A t \in Threads : state[t] # "RUNNING"
      <4>1. prev[h] = Boot \/ state[prev[h]] # "RUNNING"
        BY <1>1, <1>2, ZenonT(30) DEF ActiveCtx, UpInv, RunningInv
      <4>2. \A t \in Threads : state[t] = "RUNNING" => t = current
        <5>1. RunningInv
          BY ZenonT(30) DEF UpInv
        <5>2. \A c \in {thr(cpu), irq(cpu)} : pc[c] # "y_current"
          BY <1>2, <1>4, PcFacts, ZenonT(30)
        <5>. QED
          BY <5>1, <5>2, ZenonT(30) DEF RunningInv
      <4>. QED
        BY <4>1, <4>2, <1>4, SetFacts, ZenonT(30)
    <3>3. \A t \in Threads : state'[t] = "RUNNING" <=> t = next[h]
      BY <3>2, <1>2, <1>4, Zenon DEF TypeOK
    <3>4. h \in {thr(cpu), irq(cpu)} /\ pc'[h] = "y_current"
      BY <1>1, <3>1, Zenon DEF ActiveCtx
    <3>5. \A c \in {thr(cpu), irq(cpu)} : pc'[c] \in {"y_run", "y_current"} => c = h
      BY <1>4, <3>1, PcFacts, ZenonT(30)
    <3>6. \A c \in {thr(cpu), irq(cpu)} : pc'[c] \in {"y_run", "y_current"} =>
            prev[c] = Boot \/ state'[prev[c]] # "RUNNING"
      BY <3>3, <3>5, <1>4, SetFacts, Zenon
    <3>7. pc'[irq(cpu)] \in {"y_current", "y_unlock", "y_switch"} =>
            state'[next[irq(cpu)]] = "RUNNING"
      BY <1>1, <1>4, <3>1, <3>3, ZenonT(30) DEF ActiveCtx
    <3>8. pc'[thr(cpu)] \in {"y_current", "y_unlock", "y_switch"}
            /\ pc'[irq(cpu)] \notin PickedPcs \ {"y_lock", "y_ready"} =>
            state'[next[thr(cpu)]] = "RUNNING"
      BY <1>1, <1>3, <1>4, <3>1, <3>3, Zenon DEF ActiveCtx
    <3>. QED
      BY <3>3, <3>4, <3>6, <3>7, <3>8, <2>3, <1>2, ZenonT(60) DEF RunningInv
  <2>. QED
    BY <2>2, <2>4, <2>5, ZenonT(30) DEF UpInv
<1>. QED
  BY <1>5, <1>6, <1>7 DEF IInv

(* The context switch.  When it does not clobber a context, prev is the    *)
(* thread that executes; next was READY and has been made RUNNING, and     *)
(* what is on its stack is a sched_yield() or a handler that is done.      *)
LEMMA YieldSwitch_step ==
  ASSUME TypeOK, UpInv, Up, YieldSwitch
  PROVE  IInv'
<1>1. PICK h \in Ctx : h = here /\ ActiveCtx(h)
  BY Active
<1>2. /\ pc[h] = "y_switch" /\ cpu' = next[h]
      /\ fault' = IF prev[h] = cpu THEN "none" ELSE "context_clobbered"
      /\ pc' = [pc EXCEPT ![h] = ret[h]] /\ ret' = [ret EXCEPT ![h] = "none"]
      /\ prev' = [prev EXCEPT ![h] = 0] /\ next' = [next EXCEPT ![h] = 0]
      /\ UNCHANGED <<state, wake_in, queued, next_thread_id, freed, wait_queue, waiters,
                     cond, current, schedule_locked, need_resched, iflag, inirq,
                     irq_depth, head, reap_list, target, left, expired>>
  BY <1>1 DEF YieldSwitch, At, Return, Goto, Check, threadVars, waitVars, schedVars, argVars
<1>3. /\ "y_switch" \in PickedPcs /\ "y_switch" \in AwayPcs /\ "y_switch" \notin LockedPcs
      /\ "y_switch" \in YieldPcs
  BY PcFacts, Zenon
<1>4. /\ cpu \in Stacks /\ thr(cpu) \in Ctx /\ irq(cpu) \in Ctx /\ thr(cpu) # irq(cpu)
      /\ next[h] \in Threads /\ next[h] \in Stacks /\ prev[h] \in Stacks /\ next[h] # prev[h]
      /\ current = next[h] /\ schedule_locked = FALSE
      /\ \A c \in {thr(cpu), irq(cpu)} : c # h => pc[c] \notin LockedPcs
  <2>1. schedule_locked = FALSE
    BY <1>1, <1>2, <1>3, EarlyUnlocked, ZenonT(60) DEF TypeOK
  <2>. QED
    BY <2>1, <1>1, <1>2, <1>3, PickedLocals, SetFacts, ZenonT(60)
<1>5. /\ h \in {thr(cpu), irq(cpu)}
      /\ h = irq(cpu) => ret[h] = "iret"
      /\ h = thr(cpu) => \/ ret[h] \in ThreadRets /\ cpu \in Threads /\ cpu # Idle
                         \/ ret[h] = "boot_return" /\ cpu = Boot
  BY <1>1, <1>2, <1>3, <1>4, SetFacts, PcFacts, SMTT(60), Z3T(60) DEF ActiveCtx, UpInv,
     ControlInv, PcInv
<1>6. ret[h] \in Pcs \ YieldPcs /\ ret[h] # "none" /\ ret[h] # "irq_exit" /\ ret[h] # "boot"
  BY <1>5, PcFacts, Zenon
<1>7. TypeOK'
  BY <1>2, <1>4, <1>6, SetFacts, PcFacts, ZenonT(60) DEF TypeOK, Undefined, Boot
<1>8. AssertionsHold'
  BY <1>2 DEF AssertionsHold
<1>9. ASSUME Up' PROVE UpInv'
  <2>. DEFINE n == next[h]
  <2>1. prev[h] = cpu /\ n # cpu /\ n \in Threads /\ n \in Stacks
    BY <1>2, <1>4, <1>9 DEF Up
  <2>. HIDE DEF n
  <2>2. h = irq(cpu) => pc[thr(cpu)] \notin AwayPcs
    <3>. SUFFICES ASSUME h = irq(cpu), pc[thr(cpu)] \in AwayPcs PROVE FALSE
      OBVIOUS
    <3>1. prev[h] = next[thr(cpu)] /\ next[thr(cpu)] # cpu
      BY <1>2, <1>3, <1>4, PcFacts, ZenonT(60) DEF UpInv, ControlInv, CurrentInv
    <3>. QED
      BY <3>1, <2>1
  <2>3. \A s \in Stacks :
        /\ pc'[thr(s)] = IF h = thr(s) THEN ret[h] ELSE pc[thr(s)]
        /\ pc'[irq(s)] = IF h = irq(s) THEN ret[h] ELSE pc[irq(s)]
        /\ ret'[thr(s)] = IF h = thr(s) THEN "none" ELSE ret[thr(s)]
        /\ ret'[irq(s)] = IF h = irq(s) THEN "none" ELSE ret[irq(s)]
        /\ h = thr(s) \/ h = irq(s) => s = cpu
        /\ h # thr(s) => prev'[thr(s)] = prev[thr(s)] /\ next'[thr(s)] = next[thr(s)]
    BY <1>2, <1>4, <1>5, CtxFacts, ZenonT(60) DEF TypeOK
  <2>4. /\ cpu' = n /\ current = n
    BY <1>2, <1>4, ZenonT(30) DEF n
  <2>5. /\ pc'[thr(n)] = pc[thr(n)] /\ pc'[irq(n)] = pc[irq(n)]
        /\ pc[thr(n)] \notin LockedPcs \cup AwayPcs /\ pc[irq(n)] \in {"none", "iret"}
    <3>1. LockInv /\ IrqInv
      BY ZenonT(30) DEF UpInv, ControlInv
    <3>. QED
      BY <2>1, <2>3, <3>1, Zenon DEF LockInv, IrqInv
  <2>6. PcInv'
    <3>. PcInv
      BY ZenonT(30) DEF UpInv, ControlInv
    <3>1. \A s \in Stacks :
         /\ inirq'[s] = (pc'[irq(s)] # "none")
         /\ pc'[irq(s)] \in YieldPcs \cup {"none", "irq_exit", "iret"}
         /\ pc'[irq(s)] \in YieldPcs => ret'[irq(s)] = "iret"
      <4>. inirq' = inirq /\ pc[h] = "y_switch"
        BY <1>2, ZenonT(30)
      <4>1. \A s \in Stacks : inirq'[s] = (pc'[irq(s)] # "none")
        BY <1>6, <2>3, ZenonT(60) DEF PcInv
      <4>2. \A s \in Stacks :
         /\ pc'[irq(s)] \in YieldPcs \cup {"none", "irq_exit", "iret"}
         /\ pc'[irq(s)] \in YieldPcs => ret'[irq(s)] = "iret"
        <5>1. h = irq(cpu) => ret[h] = "iret" /\ "iret" \notin YieldPcs
          BY <1>5, PcFacts, ZenonT(30)
        <5>2. \A s \in Stacks : h = irq(s) => h = irq(cpu)
          BY <2>3, ZenonT(30)
        <5>3. \A s \in Stacks : h # irq(s) => ret'[irq(s)] = ret[irq(s)]
          BY <2>3, ZenonT(30)
        <5>. QED
          BY <5>1, <5>2, <5>3, <2>3, ZenonT(60) DEF PcInv
      <4>. QED
        BY <4>1, <4>2, ZenonT(30)
    <3>2. \A t \in Threads :
         /\ pc'[thr(t)] \in ThreadPcs
         /\ pc'[thr(t)] \in YieldPcs => ret'[thr(t)] \in ThreadRets
         /\ pc'[thr(t)] \notin YieldPcs => ret'[thr(t)] = "none"
      <4>1. /\ Threads \subseteq Stacks /\ Boot \notin Threads
            /\ ThreadRets \subseteq ThreadPcs \ YieldPcs
        BY SetFacts, PcFacts, ZenonT(30)
      <4>2. \A t \in Threads : h = thr(t) => ret[h] \in ThreadRets
        BY <4>1, <1>5, <2>3, CtxFacts, SetFacts, ZenonT(60)
      <4>. QED
        BY <4>1, <4>2, <2>3, ZenonT(60) DEF PcInv
    <3>3. pc'[thr(Boot)] \in YieldPcs \cup {"boot", "boot_return"}
          /\ (pc'[thr(Boot)] \in YieldPcs => ret'[thr(Boot)] = "boot_return")
      <4>1. Boot \in Stacks /\ (h = thr(Boot) => ret[h] = "boot_return")
        BY <1>5, <2>3, SetFacts, CtxFacts, ZenonT(30)
      <4>2. "boot_return" \notin YieldPcs
        BY PcFacts, ZenonT(30)
      <4>. QED
        BY <4>1, <4>2, <2>3, ZenonT(60) DEF PcInv
    <3>4. pc'[thr(Idle)] = "run"
      BY <1>5, <2>3, SetFacts, SMTT(60) DEF PcInv
    <3>. QED
      BY <3>1, <3>2, <3>3, <3>4, ZenonT(30) DEF PcInv
  <2>7. IrqInv'
    <3>1. irq_depth = 0
      <4>. IrqInv
        BY ZenonT(30) DEF UpInv, ControlInv
      <4>. QED
        BY <1>1, <1>2, <1>3, PcFacts, Zenon DEF ActiveCtx, IrqInv
    <3>2. pc'[irq(cpu)] \in {"none", "iret"}
      BY <1>1, <1>4, <1>5, <2>3, CtxFacts, ZenonT(60) DEF ActiveCtx
    <3>3. \A s \in Stacks \ {n} : pc'[irq(s)] \in {"none", "iret"}
      <4>. IrqInv
        BY ZenonT(30) DEF UpInv, ControlInv
      <4>. QED
        BY <3>2, <2>3, Zenon DEF IrqInv
    <3>4. inirq[n] => pc[irq(n)] = "iret"
      BY <2>1, <2>5, ZenonT(30) DEF UpInv, ControlInv, PcInv
    <3>. QED
      BY <3>1, <3>3, <3>4, <2>4, <2>5, <1>2, ZenonT(60) DEF IrqInv
  <2>8. LockInv'
    <3>1. pc'[thr(cpu)] \notin LockedPcs \cup AwayPcs
      BY <1>4, <1>5, <1>6, <2>2, <2>3, PcFacts, ZenonT(60)
    <3>2. \A s \in Stacks \ {n} : pc'[thr(s)] \notin LockedPcs \cup AwayPcs
      <4>. LockInv
        BY ZenonT(30) DEF UpInv, ControlInv
      <4>. QED
        BY <3>1, <2>3, Zenon DEF LockInv
    <3>3. pc[irq(n)] \notin LockedPcs /\ pc[irq(n)] \notin YieldPcs
      BY <2>5, PcFacts, Zenon
    <3>. QED
      BY <3>2, <3>3, <2>4, <2>5, <1>2, <1>4, ZenonT(60) DEF LockInv
  <2>9. CurrentInv'
    <3>1. \A s \in Stacks : pc'[thr(s)] \in PickedPcs =>
            prev'[thr(s)] = s /\ next'[thr(s)] \in Threads \ {s}
      BY <1>6, <2>3, PcFacts, ZenonT(60) DEF UpInv, ControlInv, CurrentInv
    <3>2. pc[irq(n)] \notin PickedPcs /\ pc[irq(n)] \notin AwayPcs
      BY <2>5, PcFacts, ZenonT(60)
    <3>. QED
      BY <3>1, <3>2, <2>4, <2>5, <1>2, ZenonT(30) DEF CurrentInv
  <2>10. BootInv'
    <3>1. next_thread_id > N /\ \A t \in Threads : state[t] # "NONE"
      BY <1>1, <1>2, <1>3, YieldNotIdle
    <3>2. n # Boot
      BY <2>1, SetFacts
    <3>3. pc'[irq(Boot)] \in YieldPcs => pc'[thr(Boot)] \in AwayPcs
      <4>1. CASE cpu = Boot
        BY <4>1, <2>3, <1>1, <1>4, <1>5, <1>6, SetFacts, PcFacts, ZenonT(60) DEF ActiveCtx
      <4>2. CASE cpu # Boot
        BY <4>2, <2>3, SetFacts, ZenonT(30) DEF UpInv, BootInv
      <4>. QED
        BY <4>1, <4>2, ZenonT(30)
    <3>4. ~(next_thread_id <= N)
      BY <3>1, SchedAssumption DEF TypeOK
    <3>. QED
      BY <3>1, <3>2, <3>3, <3>4, <2>4, <1>2, ZenonT(60) DEF UpInv, BootInv
  <2>11. state[n] = "RUNNING"
    <3>1. CASE h = thr(cpu) /\ pc[irq(cpu)] = "none"
      BY <3>1, <1>2, PcFacts, ZenonT(30) DEF UpInv, RunningInv, n
    <3>2. CASE h = irq(cpu)
      BY <3>2, <1>2, ZenonT(60) DEF UpInv, RunningInv, n
    <3>. QED
      BY <1>1, <3>1, <3>2, Zenon DEF ActiveCtx
  <2>12. RunningInv'
    <3>1. \A t \in Threads : state[t] = "RUNNING" => t = n
      BY <1>2, <1>3, <1>4, <1>5, <2>4, PcFacts, SMTT(60), Z3T(60) DEF UpInv, RunningInv
    <3>2. \A c \in {thr(n), irq(n)} : pc'[c] \notin {"y_run", "y_current", "y_unlock", "y_switch"}
      BY <2>5, PcFacts, Zenon
    <3>. QED
      BY <3>1, <3>2, <2>4, <1>2, ZenonT(60) DEF RunningInv
  <2>13. StateInv'
    <3>1. \A t \in Threads : (pc'[thr(t)] = "exit" \/ ret'[thr(t)] = "exit") <=>
                             (pc[thr(t)] = "exit" \/ ret[thr(t)] = "exit")
      BY <1>2, <2>3, SetFacts
    <3>. QED
      BY <3>1, <2>4, <2>11, <1>2, ZenonT(60) DEF UpInv, StateInv
  <2>14. QueueInv'
    BY <1>1, <1>2, <1>3, ReturnQueue, ZenonT(30)
  <2>. QED
    BY <2>6, <2>7, <2>8, <2>9, <2>10, <2>12, <2>13, <2>14, ZenonT(60) DEF UpInv, ControlInv
<1>. QED
  BY <1>7, <1>8, <1>9 DEF IInv
====
