-------------------------- MODULE SchedYieldProofs --------------------------
(***************************************************************************)
(* Proofs about Sched, part four: the steps of sched_yield() up to the     *)
(* choice of the next thread, and its return when there is none, keep the  *)
(* inductive invariant.                                                    *)
(***************************************************************************)
EXTENDS SchedBodyProofs

(* idle never calls sched_yield() itself, and nobody does before all       *)
(* threads are created.                                                    *)
LEMMA YieldNotIdle ==
  ASSUME TypeOK, UpInv, NEW h \in Ctx, ActiveCtx(h), pc[h] \in YieldPcs
  PROVE  /\ h = thr(cpu) => cpu # Idle
         /\ next_thread_id > N
         /\ \A t \in Threads : state[t] # "NONE"
<1>1. h = thr(cpu) => cpu # Idle
  BY PcFacts DEF UpInv, ControlInv, PcInv
<1>2. cpu \in Stacks /\ next_thread_id \in 1..(N + 1)
  BY DEF TypeOK
<1>3. CASE next_thread_id <= N
  <2>1. pc[thr(Boot)] = "boot" /\ cpu = Boot
    BY <1>3 DEF UpInv, BootInv
  <2>2. h = irq(Boot) /\ pc[irq(Boot)] \in YieldPcs
    BY <2>1, PcFacts DEF ActiveCtx
  <2>. QED
    BY <2>1, <2>2, PcFacts DEF UpInv, BootInv
<1>4. CASE next_thread_id > N
  <2>1. \A t \in Threads : state[t] # "NONE"
    BY <1>4, <1>2, SchedAssumption DEF UpInv, BootInv, Threads
  <2>. QED
    BY <1>1, <1>4, <2>1
<1>. QED
  BY <1>2, <1>3, <1>4, SchedAssumption

(* A step between two control points p0 and p of sched_yield() that come   *)
(* before the choice of the next thread, or a return from there.           *)
LEMMA EarlyControl ==
  ASSUME TypeOK, UpInv, NEW h \in Ctx, ActiveCtx(h),
         pc[h] \in YieldPcs \ PickedPcs, NEW p \in YieldPcs \ PickedPcs,
         pc' = [pc EXCEPT ![h] = p], ret' = ret, prev' = prev, next' = next,
         schedVars' = schedVars, cpuVars' = cpuVars
  PROVE  ControlInv'
<1>1. /\ cpu' = cpu /\ iflag' = iflag /\ inirq' = inirq /\ irq_depth' = irq_depth
      /\ current' = current /\ schedule_locked' = schedule_locked
  BY DEF schedVars, cpuVars
<1>2. /\ cpu \in Stacks /\ pc \in [Ctx -> Pcs]
      /\ \A c \in Ctx : pc'[c] = IF c = h THEN p ELSE pc[c]
      /\ h \in {thr(cpu), irq(cpu)} /\ p # "none" /\ p # "irq_exit" /\ pc[h] # "irq_exit"
      /\ pc[h] # "iret" /\ pc[h] # "none" /\ p # "boot" /\ pc[h] # "run"
  BY PcFacts DEF TypeOK, ActiveCtx
<1>3. \A s \in Stacks :
        /\ pc'[thr(s)] = IF h = thr(s) THEN p ELSE pc[thr(s)]
        /\ pc'[irq(s)] = IF h = irq(s) THEN p ELSE pc[irq(s)]
        /\ s # cpu => h # thr(s) /\ h # irq(s)
        /\ h = thr(s) => pc[thr(s)] \in YieldPcs \ PickedPcs
        /\ h = irq(s) => pc[irq(s)] \in YieldPcs \ PickedPcs
  BY <1>2, CtxFacts
<1>4. PcInv'
  BY <1>1, <1>2, <1>3, SetFacts, PcFacts, SMTT(60), Z3T(60) DEF UpInv, ControlInv, PcInv
<1>5. IrqInv'
  BY <1>1, <1>2, <1>3 DEF UpInv, ControlInv, IrqInv
<1>6. LockInv'
  BY <1>1, <1>2, <1>3, PcFacts, ZenonT(60) DEF UpInv, ControlInv, LockInv
<1>7. CurrentInv'
  BY <1>1, <1>2, <1>3, PcFacts DEF UpInv, ControlInv, CurrentInv
<1>. QED
  BY <1>4, <1>5, <1>6, <1>7 DEF ControlInv

(* Before a thread is picked schedule_locked is clear, so that             *)
(* sched_assert_can_switch() cannot panic.                                 *)
LEMMA EarlyUnlocked ==
  ASSUME TypeOK, UpInv, NEW h \in Ctx, ActiveCtx(h), pc[h] \in YieldPcs \ LockedPcs
  PROVE  ~schedule_locked
<1>1. CASE h = thr(cpu) /\ pc[irq(cpu)] = "none"
  <2>1. pc[thr(cpu)] \notin LockedPcs /\ pc[irq(cpu)] \notin LockedPcs
    BY <1>1, PcFacts
  <2>. QED
    BY <2>1, ZenonT(30) DEF UpInv, ControlInv, LockInv
<1>2. CASE h = irq(cpu)
  BY <1>2, PcFacts, ZenonT(30) DEF TypeOK, UpInv, ControlInv, LockInv
<1>. QED
  BY <1>1, <1>2 DEF ActiveCtx

(* As long as no next thread is picked, the RUNNING thread is the current  *)
(* one.                                                                    *)
LEMMA EarlyRunning ==
  ASSUME TypeOK, UpInv, NEW h \in Ctx, ActiveCtx(h),
         pc[h] \in YieldPcs \ PickedPcs, NEW p \in Pcs \ (PickedPcs \ {"y_lock"}),
         pc' = [pc EXCEPT ![h] = p],
         \A c \in Ctx : c # h => prev'[c] = prev[c] /\ next'[c] = next[c],
         current' = current, cpu' = cpu,
         \A t \in Threads : state'[t] # state[t] =>
            state[t] # "RUNNING" /\ state'[t] # "RUNNING"
  PROVE  RunningInv'
<1>1. /\ cpu \in Stacks /\ pc \in [Ctx -> Pcs] /\ thr(cpu) \in Ctx /\ irq(cpu) \in Ctx
      /\ next \in [Ctx -> Stacks] /\ prev \in [Ctx -> Stacks] /\ thr(cpu) # irq(cpu)
  BY CtxFacts, ZenonT(30) DEF TypeOK
<1>2. /\ {"y_run", "y_current", "y_unlock", "y_switch"} \subseteq PickedPcs \ {"y_lock", "y_ready"}
      /\ "y_ready" \in PickedPcs /\ "y_ready" # "y_lock"
      /\ "none" \notin PickedPcs
  BY DEF PickedPcs
<1>3. \A t \in Threads : state'[t] = "RUNNING" <=> state[t] = "RUNNING"
  OBVIOUS
<1>4. CASE h = thr(cpu) /\ pc[irq(cpu)] = "none"
  <2>1. /\ pc'[thr(cpu)] = p /\ pc'[irq(cpu)] = "none" 
    BY <1>1, <1>4, ZenonT(30)
  <2>. QED
    BY <2>1, <1>1, <1>2, <1>3, <1>4, SMTT(60), Z3T(60) DEF UpInv, RunningInv
<1>5. CASE h = irq(cpu)
  <2>1. /\ pc'[irq(cpu)] = p /\ pc'[thr(cpu)] = pc[thr(cpu)]
        /\ prev'[thr(cpu)] = prev[thr(cpu)] /\ next'[thr(cpu)] = next[thr(cpu)]
    BY <1>1, <1>5
  <2>2. pc[thr(cpu)] \in {"y_run", "y_current"} => FALSE
    BY <1>1, <1>5, PcFacts DEF UpInv, ControlInv, LockInv
  <2>3. pc[thr(cpu)] \in {"y_unlock", "y_switch"} => next[thr(cpu)] \in Threads
    BY <1>1, PcFacts DEF UpInv, ControlInv, CurrentInv
  <2>4. RunningInv
    BY ZenonT(30) DEF UpInv
  <2>. QED
    BY <2>1, <2>2, <2>3, <2>4, <1>1, <1>2, <1>3, <1>5, SMTT(60), Z3T(60) DEF RunningInv
<1>. QED
  BY <1>4, <1>5 DEF ActiveCtx

(* From one control point of sched_yield() to another: no thread enters or *)
(* leaves a blocking call.                                                 *)
LEMMA YieldStays ==
  ASSUME TypeOK, UpInv, NEW h \in Ctx, ActiveCtx(h), pc[h] \in YieldPcs,
         NEW p \in YieldPcs, pc' = [pc EXCEPT ![h] = p], ret' = ret
  PROVE  \A t \in Threads :
           /\ InWait(t)' <=> InWait(t)
           /\ \A x \in ThreadPcs \ YieldPcs : BlockedAt(t, x)' <=> BlockedAt(t, x)
           /\ pc'[thr(t)] \in YieldPcs <=> pc[thr(t)] \in YieldPcs
<1>. SUFFICES ASSUME NEW t \in Threads
              PROVE  /\ InWait(t)' <=> InWait(t)
                     /\ \A x \in ThreadPcs \ YieldPcs : BlockedAt(t, x)' <=> BlockedAt(t, x)
                     /\ pc'[thr(t)] \in YieldPcs <=> pc[thr(t)] \in YieldPcs
  OBVIOUS
<1>1. /\ \/ pc'[thr(t)] = pc[thr(t)]
         \/ pc'[thr(t)] = p /\ pc[thr(t)] \in YieldPcs
      /\ ret'[thr(t)] = ret[thr(t)]
  BY CtxFacts, SetFacts DEF TypeOK
<1>2. InWait(t) <=> ret[thr(t)] \in WaitPcs \/ pc[thr(t)] \in WaitPcs
  BY DEF InWait, thr
<1>3. InWait(t)' <=> ret'[thr(t)] \in WaitPcs \/ pc'[thr(t)] \in WaitPcs
  BY DEF InWait, thr
<1>. QED
  BY <1>1, <1>2, <1>3, PcFacts DEF BlockedAt

(* A step inside sched_yield() leaves every blocked thread blocked in its  *)
(* call.                                                                   *)
LEMMA YieldKeeps ==
  ASSUME TypeOK, UpInv, NEW h \in Ctx, ActiveCtx(h), pc[h] \in YieldPcs,
         NEW p \in YieldPcs, pc' = [pc EXCEPT ![h] = p], ret' = ret,
         pc[h] \in PickedPcs => p \in PickedPcs,
         h = thr(cpu) /\ pc[h] \in AwayPcs => p \in AwayPcs,
         UNCHANGED <<threadVars, waitVars, argVars, reap_list, cpu>>,
         current' = current \/ (current' \in Threads /\ state[current'] # "DEAD")
  PROVE  BootInv' /\ StateInv' /\ QueueInv'
<1>1. /\ state' = state /\ wake_in' = wake_in /\ queued' = queued /\ freed' = freed
      /\ next_thread_id' = next_thread_id /\ cond' = cond /\ target' = target
      /\ wait_queue' = wait_queue /\ waiters' = waiters /\ cpu' = cpu
      /\ reap_list' = reap_list
  BY DEF threadVars, waitVars, argVars
<1>2. \A t \in Threads :
        /\ InWait(t)' <=> InWait(t)
        /\ \A x \in ThreadPcs \ YieldPcs : BlockedAt(t, x)' <=> BlockedAt(t, x)
        /\ pc'[thr(t)] \in YieldPcs <=> pc[thr(t)] \in YieldPcs
  BY YieldStays, ZenonT(30)
<1>3. BootInv'
  <2>1. next_thread_id > N
    BY YieldNotIdle, Zenon
  <2>2. /\ pc'[thr(Boot)] = IF h = thr(Boot) THEN p ELSE pc[thr(Boot)]
        /\ pc'[irq(Boot)] = IF h = irq(Boot) THEN p ELSE pc[irq(Boot)]
        /\ h = thr(Boot) => cpu = Boot /\ pc[irq(Boot)] = "none" /\ h # irq(Boot)
    BY CtxFacts, SetFacts, ZenonT(30) DEF TypeOK, ActiveCtx
  <2>3. /\ {"y_assert", "y_reap", "y_release"} = YieldPcs \ PickedPcs
        /\ "boot" \notin YieldPcs /\ "none" \notin YieldPcs
    BY DEF YieldPcs, PickedPcs
  <2>4. cpu = Boot /\ pc'[thr(Boot)] \in {"boot", "y_assert", "y_reap", "y_release"}
         => pc[thr(Boot)] \in {"boot", "y_assert", "y_reap", "y_release"}
    BY <2>2, <2>3
  <2>5. pc'[irq(Boot)] \in YieldPcs => pc'[thr(Boot)] \in AwayPcs
    BY <2>2, <2>3 DEF UpInv, BootInv
  <2>. QED
    BY <2>1, <2>4, <2>5, <1>1, SchedAssumption, SMTT(60), Z3T(60) DEF TypeOK, UpInv, BootInv
<1>4. StateInv'
  <2>1. \A t \in Threads : (pc'[thr(t)] = "exit" \/ ret'[thr(t)] = "exit") <=>
                           (pc[thr(t)] = "exit" \/ ret[thr(t)] = "exit")
    BY <1>2, PcFacts, ZenonT(30) DEF BlockedAt
  <2>2. cpu' \in Threads /\ pc'[thr(cpu')] \notin YieldPcs
          => state'[cpu'] \in {"READY", "RUNNING"}
    BY <1>1, <1>2, Zenon DEF UpInv, StateInv
  <2>3. StateInv
    BY ZenonT(30) DEF UpInv
  <2>. QED
    BY <1>1, <2>1, <2>2, <2>3, Zenon DEF StateInv
<1>5. QueueInv'
  <2>1. QueueInv
    BY DEF UpInv
  <2>2. \A t \in Threads : \A x \in {"s_check", "w_remove", "t_remove"} :
          BlockedAt(t, x) => BlockedAt(t, x)'
    BY <1>2, PcFacts
  <2>. QED
    BY <1>1, <1>2, <2>1, <2>2, QueueQuiet, ZenonT(30) DEF QueueInv
<1>. QED
  BY <1>3, <1>4, <1>5

(* The assertion at the start of sched_yield() holds, and reading the head *)
(* of the run queue keeps the invariant.                                   *)
LEMMA YieldAssert_step ==
  ASSUME TypeOK, UpInv, Up, YieldAssert
  PROVE  IInv'
<1>1. PICK h \in Ctx : h = here /\ ActiveCtx(h)
  BY Active
<1>2. /\ pc[h] = "y_assert" /\ pc' = [pc EXCEPT ![h] = "y_reap"]
      /\ \E first \in run_queue_head : head' = [head EXCEPT ![h] = first]
      /\ UNCHANGED <<state, wake_in, queued, next_thread_id, freed, waitVars, schedVars,
                     cpuVars, prev, next, reap_list, ret, argVars>>
  BY <1>1, ZenonT(30) DEF YieldAssert, At, Goto, threadVars
<1>3. fault' = "none"
  <2>1. irq_depth = 0
    BY <1>1, <1>2 DEF ActiveCtx, UpInv, ControlInv, IrqInv
  <2>2. ~schedule_locked
    BY <1>1, <1>2, EarlyUnlocked, PcFacts
  <2>. QED
    BY <2>1, <2>2 DEF YieldAssert, Check, CanSwitch
<1>4. ControlInv'
  BY <1>1, <1>2, EarlyControl, PcFacts, ZenonT(60)
<1>5. /\ cpu' = cpu /\ current' = current /\ target' = target /\ cond' = cond
      /\ wait_queue' = wait_queue /\ waiters' = waiters
  BY <1>2 DEF cpuVars, schedVars, argVars, waitVars
<1>6. BootInv' /\ StateInv' /\ QueueInv'
  BY <1>1, <1>2, <1>5, YieldKeeps, PcFacts, ZenonT(60) DEF threadVars
<1>7. RunningInv'
  BY <1>1, <1>2, <1>5, EarlyRunning, PcFacts, ZenonT(60)
<1>8. TypeOK'
  <2>1. \A first \in run_queue_head : first \in Stacks
    BY SetFacts DEF TypeOK, run_queue_head, Oldest, Boot
  <2>. QED
    BY <2>1, <1>2, <1>3, PcFacts, SMTT(60), Z3T(60)
       DEF TypeOK, waitVars, schedVars, cpuVars, argVars
<1>9. AssertionsHold'
  BY <1>3 DEF AssertionsHold
<1>. QED
  BY <1>4, <1>6, <1>7, <1>8, <1>9 DEF IInv, UpInv

(* Detaching the zombies keeps the invariant: they are not current, so no  *)
(* context can go on in them.                                              *)
LEMMA YieldReap_step ==
  ASSUME TypeOK, UpInv, Up, YieldReap
  PROVE  IInv'
<1>1. PICK h \in Ctx : h = here /\ ActiveCtx(h)
  BY Active
<1>. DEFINE dead == Reapable(head[h])
<1>2. /\ pc[h] = "y_reap" /\ pc' = [pc EXCEPT ![h] = "y_release"]
      /\ state'   = [t \in Threads |-> IF t \in dead THEN "DEAD" ELSE state[t]]
      /\ wake_in' = [t \in Threads |-> IF t \in dead THEN Cleared ELSE wake_in[t]]
      /\ queued'  = queued \ dead
      /\ reap_list' = [reap_list EXCEPT ![h] = dead]
      /\ head' = [head EXCEPT ![h] = 0]
      /\ UNCHANGED <<next_thread_id, freed, waitVars, schedVars, cpuVars, prev,
                     next, ret, argVars>>
      /\ fault' \in {"none", "use_after_free"}
  BY <1>1 DEF YieldReap, At, Goto, Check
<1>3. /\ dead \subseteq Threads
      /\ \A t \in dead : state[t] = "ZOMBIE" /\ t # current
  BY DEF Reapable, TypeOK
<1>. HIDE DEF dead
<1>4. /\ cpu' = cpu /\ current' = current /\ target' = target /\ cond' = cond
      /\ wait_queue' = wait_queue /\ waiters' = waiters /\ ret' = ret
      /\ next_thread_id' = next_thread_id /\ freed' = freed
      /\ \A t \in Threads : state'[t] = IF t \in dead THEN "DEAD" ELSE state[t]
      /\ \A t \in Threads : wake_in'[t] = IF t \in dead THEN Cleared ELSE wake_in[t]
  BY <1>2, Zenon DEF cpuVars, schedVars, argVars, waitVars
<1>5. ControlInv'
  BY <1>1, <1>2, EarlyControl, PcFacts, ZenonT(30)
<1>6. RunningInv'
  BY <1>1, <1>2, <1>3, <1>4, EarlyRunning, PcFacts, ZenonT(60)
<1>7. \A t \in Threads :
        /\ InWait(t)' <=> InWait(t)
        /\ \A x \in ThreadPcs \ YieldPcs : BlockedAt(t, x)' <=> BlockedAt(t, x)
        /\ pc'[thr(t)] \in YieldPcs <=> pc[thr(t)] \in YieldPcs
  BY <1>1, <1>2, YieldStays, PcFacts, ZenonT(30)
<1>8. BootInv'
  <2>1. next_thread_id > N /\ \A t \in Threads : state[t] # "NONE"
    BY <1>1, <1>2, YieldNotIdle, PcFacts, Zenon
  <2>2. /\ pc'[thr(Boot)] = IF h = thr(Boot) THEN "y_release" ELSE pc[thr(Boot)]
        /\ pc'[irq(Boot)] = IF h = irq(Boot) THEN "y_release" ELSE pc[irq(Boot)]
        /\ h = thr(Boot) => cpu = Boot /\ pc[irq(Boot)] = "none" /\ h # irq(Boot)
    BY <1>1, <1>2, CtxFacts, SetFacts, ZenonT(30) DEF TypeOK, ActiveCtx
  <2>3. pc'[irq(Boot)] \in YieldPcs => pc'[thr(Boot)] \in AwayPcs
    BY <2>2, <1>2, PcFacts DEF UpInv, BootInv
  <2>4. cpu = Boot /\ pc'[thr(Boot)] \in {"boot", "y_assert", "y_reap", "y_release"}
         => \A t \in Threads : state[t] \in {"NONE", "READY"}
    BY <2>2, <1>2, Zenon DEF UpInv, BootInv
  <2>5. ~(next_thread_id <= N) /\ \A t \in Threads : ~(t >= next_thread_id)
    <3>1. ~(next_thread_id <= N)
      BY <2>1, SchedAssumption DEF TypeOK
    <3>2. \A t \in Threads : ~(t >= next_thread_id)
      BY <2>1, ZenonT(30) DEF UpInv, BootInv
    <3>. QED
      BY <3>1, <3>2
  <2>6. \A t \in Threads : state'[t] # "NONE" /\ (state[t] \in {"NONE", "READY"}
                                                => state'[t] \in {"NONE", "READY"})
    BY <2>1, <1>3, <1>4
  <2>. QED
    BY <2>3, <2>4, <2>5, <2>6, <1>4, ZenonT(30) DEF BootInv
<1>9. StateInv'
  <2>. StateInv
    BY ZenonT(30) DEF UpInv
  <2>1. \A t \in Threads : (pc'[thr(t)] = "exit" \/ ret'[thr(t)] = "exit") <=>
                           (pc[thr(t)] = "exit" \/ ret[thr(t)] = "exit")
    BY <1>7, PcFacts, ZenonT(30) DEF BlockedAt
  <2>2. cpu' \in Threads /\ pc'[thr(cpu')] \notin YieldPcs
          => state'[cpu'] \in {"READY", "RUNNING"}
    BY <1>3, <1>4, <1>7, Zenon DEF StateInv
  <2>3. \A t \in Threads : state'[t] \in {"ZOMBIE", "DEAD"} <=> state[t] \in {"ZOMBIE", "DEAD"}
    BY <1>3, <1>4
  <2>4. state'[Idle] \in {"NONE", "READY", "RUNNING"}
    BY <1>3, <1>4, SetFacts DEF StateInv
  <2>5. \A t \in Threads : state'[t] = "DEAD" => t # current' /\ wake_in'[t] = Cleared
    BY <1>3, <1>4, ZenonT(30) DEF StateInv
  <2>6. \A c \in Ctx : \A t \in reap_list'[c] : state'[t] = "DEAD"
    BY <1>2, <1>3, <1>4, ZenonT(60) DEF TypeOK, StateInv
  <2>7. queued' = {t \in Threads : state'[t] \notin {"NONE", "DEAD"}}
    BY <1>2, <1>3, <1>4, Zenon DEF StateInv
  <2>8. freed' \subseteq {t \in Threads : state'[t] = "DEAD"}
    BY <1>3, <1>4, Zenon DEF StateInv
  <2>9. \A t \in Threads : state'[t] \in {"ZOMBIE", "DEAD"} <=>
          pc'[thr(t)] = "exit" \/ ret'[thr(t)] = "exit"
    BY <2>1, <2>3, ZenonT(30) DEF StateInv
  <2>. QED
    BY <2>2, <2>4, <2>5, <2>6, <2>7, <2>8, <2>9, ZenonT(30) DEF StateInv
<1>10. QueueInv'
  <2>1. QueueInv
    BY DEF UpInv
  <2>2. \A t \in Threads : \A x \in {"s_check", "w_remove", "t_remove"} :
          BlockedAt(t, x) => BlockedAt(t, x)'
    BY <1>7, PcFacts
  <2>3. \A t \in Threads : state'[t] = "WAITING" <=> state[t] = "WAITING"
    BY <1>3, <1>4, ZenonT(60)
  <2>. QED
    BY <1>4, <1>7, <2>1, <2>2, <2>3, QueueQuiet, ZenonT(30) DEF QueueInv
<1>11. TypeOK'
  <2>1. /\ state' \in [Threads -> States] /\ wake_in' \in [Threads -> Ticks \cup {Cleared}]
    BY <1>2, Zenon DEF TypeOK, States
  <2>2. /\ queued' \in SUBSET Threads /\ reap_list' \in [Ctx -> SUBSET Threads]
        /\ head' \in [Ctx -> Stacks] /\ pc' \in [Ctx -> Pcs]
    BY <1>2, <1>3, SetFacts, PcFacts, ZenonT(30) DEF TypeOK, Boot
  <2>. QED
    BY <2>1, <2>2, <1>2 DEF TypeOK, waitVars, schedVars, cpuVars, argVars, Undefined
<1>12. AssertionsHold'
  BY <1>2 DEF AssertionsHold
<1>. QED
  BY <1>5, <1>6, <1>8, <1>9, <1>10, <1>11, <1>12, ZenonT(60) DEF IInv, UpInv

(* release_thread() passes its four checks and keeps the invariant.        *)
LEMMA YieldRelease_step ==
  ASSUME TypeOK, UpInv, Up, YieldRelease
  PROVE  IInv'
<1>1. PICK h \in Ctx : h = here /\ ActiveCtx(h)
  BY Active
<1>2. PICK t \in reap_list[h] :
      /\ fault' =
            IF \/ t = current
               \/ state[t] # "DEAD"
               \/ wait_queue[t] # NoQueue
               \/ wake_in[t] # Cleared
            THEN "release"
            ELSE IF t = cpu THEN "stack_freed" ELSE "none"
      /\ freed' = freed \cup {t}
      /\ reap_list' = [reap_list EXCEPT ![h] = @ \ {t}]
  BY <1>1, ZenonT(30) DEF YieldRelease
<1>3. /\ UNCHANGED <<state, wake_in, queued, next_thread_id, wait_queue, waiters, cond,
                     current, schedule_locked, need_resched, cpu, iflag, inirq, irq_depth,
                     pc, prev, next, head, ret, target, left, expired>>
  BY DEF YieldRelease, waitVars, schedVars, cpuVars, argVars
<1>4. t \in Threads /\ state[t] = "DEAD" /\ t # current /\ wake_in[t] = Cleared
  BY <1>2 DEF TypeOK, UpInv, StateInv
<1>5. wait_queue[t] = NoQueue
  <2>1. pc[thr(t)] = "exit" \/ ret[thr(t)] = "exit"
    BY <1>4 DEF UpInv, StateInv
  <2>2. pc[thr(t)] \in YieldPcs \/ ret[thr(t)] = "none"
    BY <1>4 DEF UpInv, ControlInv, PcInv
  <2>3. \A x \in {"s_check", "w_remove", "t_remove"} : ~BlockedAt(t, x)
    BY <2>1, <2>2, PcFacts DEF BlockedAt
  <2>. QED
    BY <1>4, <2>3, ZenonT(60) DEF UpInv, QueueInv
<1>6. fault' \in {"none", "stack_freed"}
  BY <1>2, <1>4, <1>5, Zenon
<1>7. ControlInv'
  BY <1>3, ZenonT(30) DEF UpInv, ControlInv, PcInv, IrqInv, LockInv, CurrentInv
<1>8. BootInv' /\ RunningInv'
  BY <1>3, ZenonT(60) DEF UpInv, BootInv, RunningInv
<1>9. StateInv'
  <2>1. \A c \in Ctx : reap_list'[c] \subseteq reap_list[c]
    BY <1>2, Zenon DEF TypeOK
  <2>2. \A c \in Ctx : \A u \in reap_list'[c] : state'[u] = "DEAD"
    BY <2>1, <1>3, ZenonT(30) DEF UpInv, StateInv
  <2>3. freed' \subseteq {u \in Threads : state'[u] = "DEAD"}
    BY <1>2, <1>3, <1>4, ZenonT(30) DEF UpInv, StateInv
  <2>4. StateInv
    BY ZenonT(30) DEF UpInv
  <2>. QED
    BY <1>3, <2>2, <2>3, <2>4, Zenon DEF StateInv
<1>10. QueueInv'
  <2>1. QueueInv
    BY ZenonT(30) DEF UpInv
  <2>2. /\ \A q : Members(q)' = Members(q)
        /\ \A u : InWait(u)' = InWait(u) /\ \A x : BlockedAt(u, x)' = BlockedAt(u, x)
    BY <1>3, ZenonT(30) DEF Members, InWait, BlockedAt
  <2>. QED
    BY <1>3, <2>1, <2>2, ZenonT(60) DEF QueueInv
<1>11. TypeOK'
  BY <1>2, <1>3, <1>4, <1>6 DEF TypeOK, Undefined
<1>12. AssertionsHold'
  BY <1>6 DEF AssertionsHold
<1>. QED
  BY <1>7, <1>8, <1>9, <1>10, <1>11, <1>12 DEF IInv, UpInv

(* Picking the next thread keeps the invariant: it is a thread other than  *)
(* current_thread.                                                         *)
LEMMA YieldPick_step ==
  ASSUME TypeOK, UpInv, Up, YieldPick
  PROVE  IInv'
<1>1. PICK h \in Ctx : h = here /\ ActiveCtx(h)
  BY Active
<1>2. PICK n \in next_runnable_thread \ {current} :
        /\ prev' = [prev EXCEPT ![h] = current]
        /\ next' = [next EXCEPT ![h] = n]
        /\ pc' = [pc EXCEPT ![h] = "y_lock"]
  BY <1>1, ZenonT(30) DEF YieldPick, Goto
<1>3. /\ pc[h] = "y_release"
      /\ UNCHANGED <<threadVars, waitVars, schedVars, cpuVars, head, reap_list,
                     ret, argVars, fault>>
  BY <1>1, ZenonT(30) DEF YieldPick, At
<1>4. n \in Threads /\ n # current
  BY SetFacts DEF TypeOK, next_runnable_thread, Runnable, Oldest
<1>5. /\ cpu' = cpu /\ iflag' = iflag /\ inirq' = inirq /\ irq_depth' = irq_depth
      /\ current' = current /\ schedule_locked' = schedule_locked /\ ret' = ret
      /\ state' = state
  BY <1>3 DEF schedVars, cpuVars, threadVars
<1>6. /\ cpu \in Stacks /\ pc \in [Ctx -> Pcs]
      /\ \A c \in Ctx : pc'[c] = IF c = h THEN "y_lock" ELSE pc[c]
      /\ \A c \in Ctx : prev'[c] = IF c = h THEN current ELSE prev[c]
      /\ \A c \in Ctx : next'[c] = IF c = h THEN n ELSE next[c]
      /\ h \in {thr(cpu), irq(cpu)}
  BY <1>1, <1>2, Zenon DEF TypeOK, ActiveCtx
<1>7. \A s \in Stacks :
        /\ pc'[thr(s)] = IF h = thr(s) THEN "y_lock" ELSE pc[thr(s)]
        /\ pc'[irq(s)] = IF h = irq(s) THEN "y_lock" ELSE pc[irq(s)]
        /\ s # cpu => h # thr(s) /\ h # irq(s)
  BY <1>6, CtxFacts
<1>8. ControlInv'
  <2>1. PcInv'
    <3>1. PcInv
      BY <1>3, ZenonT(30) DEF UpInv, ControlInv
    <3>. QED
      BY <3>1, <1>1, <1>3, <1>5, <1>7, SetFacts, PcFacts, SMTT(60), Z3T(60)
         DEF ActiveCtx, PcInv
  <2>2. IrqInv'
    BY <1>1, <1>3, <1>5, <1>6, <1>7, ZenonT(60) DEF ActiveCtx, UpInv, ControlInv, IrqInv
  <2>3. LockInv'
    BY <1>3, <1>5, <1>6, <1>7, PcFacts, SMTT(60), Z3T(60) DEF UpInv, ControlInv, LockInv
  <2>4. CurrentInv'
    <3>1. CASE h = thr(cpu) /\ pc[irq(cpu)] = "none"
      <4>1. current = cpu
        BY <1>3, <3>1, PcFacts, ZenonT(60) DEF UpInv, ControlInv, CurrentInv
      <4>2. CurrentInv
        BY <1>3, ZenonT(30) DEF UpInv, ControlInv
      <4>3. /\ pc'[irq(cpu)] = "none" /\ pc'[thr(cpu)] = "y_lock"
            /\ prev'[thr(cpu)] = cpu /\ next'[thr(cpu)] = n
        BY <3>1, <4>1, <1>6, <1>7, CtxFacts, ZenonT(30)
      <4>4. \A s \in Stacks \ {cpu} :
              pc'[thr(s)] = pc[thr(s)] /\ prev'[thr(s)] = prev[thr(s)] /\ next'[thr(s)] = next[thr(s)]
        BY <3>1, <1>6, <1>7, CtxFacts, ZenonT(30)
      <4>5. \A s \in Stacks : pc'[thr(s)] \in PickedPcs =>
              prev'[thr(s)] = s /\ next'[thr(s)] \in Threads \ {s}
        BY <4>1, <4>2, <4>3, <4>4, <1>4 DEF CurrentInv
      <4>6. {"none", "y_lock"} \cap AwayPcs = {} /\ "none" \notin PickedPcs
        BY PcFacts, ZenonT(30)
      <4>. QED
        BY <4>1, <4>3, <4>5, <4>6, <1>5 DEF CurrentInv
    <3>2. CASE h = irq(cpu)
      <4>1. /\ \A s \in Stacks : /\ pc'[thr(s)] = pc[thr(s)] /\ prev'[thr(s)] = prev[thr(s)]
                                  /\ next'[thr(s)] = next[thr(s)]
            /\ pc'[irq(cpu)] = "y_lock" /\ prev'[irq(cpu)] = current /\ next'[irq(cpu)] = n
        BY <3>2, <1>6, <1>7, CtxFacts, ZenonT(30)
      <4>2. current = IF pc[thr(cpu)] \in AwayPcs THEN next[thr(cpu)] ELSE cpu
        <5>1. CurrentInv /\ pc[irq(cpu)] \notin AwayPcs
          BY <3>2, <1>3, PcFacts, ZenonT(30) DEF UpInv, ControlInv
        <5>. QED
          BY <5>1, ZenonT(30) DEF CurrentInv
      <4>3. \A s \in Stacks : pc'[thr(s)] \in PickedPcs =>
              prev'[thr(s)] = s /\ next'[thr(s)] \in Threads \ {s}
        <5>1. CurrentInv
          BY ZenonT(30) DEF UpInv, ControlInv
        <5>. QED
          BY <5>1, <4>1, Zenon DEF CurrentInv
      <4>4. /\ prev'[irq(cpu)] = IF pc'[thr(cpu)] \in AwayPcs THEN next'[thr(cpu)] ELSE cpu
            /\ next'[irq(cpu)] \in Threads \ {prev'[irq(cpu)]}
            /\ pc'[irq(cpu)] \notin AwayPcs
        <5>1. "y_lock" \notin AwayPcs /\ cpu \in Stacks
          BY <1>6, PcFacts, ZenonT(30)
        <5>. QED
          BY <5>1, <4>1, <4>2, <1>4, Zenon
      <4>5. current = IF pc'[thr(cpu)] \in AwayPcs THEN next'[thr(cpu)] ELSE cpu
        BY <4>1, <4>2, <1>6, Zenon
      <4>. QED
        BY <4>3, <4>4, <4>5, <1>5, Zenon DEF CurrentInv
    <3>. QED
      BY <1>1, <3>1, <3>2, ZenonT(60) DEF ActiveCtx
  <2>. QED
    BY <2>1, <2>2, <2>3, <2>4, ZenonT(60) DEF ControlInv
<1>9. BootInv' /\ StateInv' /\ QueueInv'
  BY <1>1, <1>2, <1>3, <1>5, YieldKeeps, PcFacts, ZenonT(30)
<1>10. RunningInv'
  <2>1. "y_lock" \in Pcs \ (PickedPcs \ {"y_lock"}) /\ pc[h] \in YieldPcs \ PickedPcs
    BY <1>3, PcFacts
  <2>. QED
    BY <2>1, <1>1, <1>2, <1>5, <1>6, EarlyRunning, ZenonT(60)
<1>11. TypeOK'
  BY <1>2, <1>3, <1>4, SetFacts, PcFacts DEF TypeOK, threadVars, waitVars, schedVars,
     cpuVars, argVars
<1>12. AssertionsHold'
  BY <1>3, Zenon DEF AssertionsHold, Up
<1>. QED
  BY <1>8, <1>9, <1>10, <1>11, <1>12, ZenonT(30) DEF IInv, UpInv

(* A return from sched_yield() leaves a thread in the call it was in.      *)
LEMMA ReturnQueue ==
  ASSUME TypeOK, UpInv, NEW h \in Ctx, pc[h] \in YieldPcs,
         pc' = [pc EXCEPT ![h] = ret[h]], ret' = [ret EXCEPT ![h] = "none"],
         wait_queue' = wait_queue, waiters' = waiters, cond' = cond, target' = target,
         state' = state
  PROVE  QueueInv'
<1>1. \A t \in Threads :
        \/ pc'[thr(t)] = pc[thr(t)] /\ ret'[thr(t)] = ret[thr(t)]
        \/ pc'[thr(t)] = ret[thr(t)] /\ ret'[thr(t)] = "none" /\ pc[thr(t)] \in YieldPcs
  BY CtxFacts, SetFacts, ZenonT(60) DEF TypeOK
<1>2. \A t : InWait(t) <=> ret[thr(t)] \in WaitPcs \/ pc[thr(t)] \in WaitPcs
  BY ZenonT(30) DEF InWait, thr
<1>3. \A t : InWait(t)' <=> ret'[thr(t)] \in WaitPcs \/ pc'[thr(t)] \in WaitPcs
  BY DEF InWait, thr
<1>4. "none" \notin WaitPcs
  BY PcFacts
<1>5. \A t \in Threads : InWait(t)' => InWait(t)
  BY <1>1, <1>2, <1>3, <1>4
<1>6. \A t \in Threads : \A x \in {"s_check", "w_remove", "t_remove"} :
        BlockedAt(t, x) => BlockedAt(t, x)'
  BY <1>1, PcFacts DEF BlockedAt
<1>7. QueueInv
  BY ZenonT(30) DEF UpInv
<1>. QED
  BY <1>5, <1>6, <1>7, QueueQuiet, ZenonT(30) DEF QueueInv

(* prev and next of a switch that has begun, and who is current.           *)
LEMMA PickedLocals ==
  ASSUME TypeOK, UpInv, NEW h \in Ctx, ActiveCtx(h), pc[h] \in PickedPcs
  PROVE  /\ cpu \in Stacks /\ thr(cpu) \in Ctx /\ irq(cpu) \in Ctx /\ thr(cpu) # irq(cpu)
         /\ next[h] \in Threads /\ prev[h] \in Stacks /\ next[h] # prev[h]
         /\ pc[h] \notin AwayPcs => current = prev[h]
         /\ pc[h] \in AwayPcs => current = next[h]
         /\ \A c \in {thr(cpu), irq(cpu)} : c # h => pc[c] \notin LockedPcs
         /\ schedule_locked = (pc[h] \in LockedPcs)
<1>1. /\ cpu \in Stacks /\ thr(cpu) \in Ctx /\ irq(cpu) \in Ctx /\ thr(cpu) # irq(cpu)
      /\ prev[h] \in Stacks
      /\ "none" \notin PickedPcs /\ "none" \notin LockedPcs /\ "none" \notin AwayPcs
      /\ AwayPcs \subseteq PickedPcs /\ PickedPcs \subseteq YieldPcs
  BY CtxFacts, PcFacts, ZenonT(30) DEF TypeOK
<1>2. CASE h = thr(cpu) /\ pc[irq(cpu)] = "none"
  <2>1. /\ next[h] \in Threads /\ next[h] # prev[h]
        /\ pc[h] \notin AwayPcs => current = prev[h]
        /\ pc[h] \in AwayPcs => current = next[h]
    BY <1>1, <1>2, ZenonT(30) DEF UpInv, ControlInv, CurrentInv
  <2>2. LockInv
    BY ZenonT(60) DEF UpInv, ControlInv
  <2>3. /\ \A c \in {thr(cpu), irq(cpu)} : c # h => pc[c] \notin LockedPcs
        /\ schedule_locked = (pc[h] \in LockedPcs)
    BY <1>1, <1>2, <2>2, SMTT(60), Z3T(60) DEF LockInv
  <2>. QED
    BY <1>1, <2>1, <2>3, ZenonT(30)
<1>3. CASE h = irq(cpu)
  <2>1. /\ next[h] \in Threads /\ next[h] # prev[h]
        /\ pc[h] \notin AwayPcs => current = prev[h]
        /\ pc[h] \in AwayPcs => current = next[h]
    BY <1>1, <1>3, ZenonT(60) DEF UpInv, ControlInv, CurrentInv
  <2>2. pc[thr(cpu)] \notin LockedPcs
    BY <1>1, <1>3 DEF UpInv, ControlInv, LockInv
  <2>3. /\ \A c \in {thr(cpu), irq(cpu)} : c # h => pc[c] \notin LockedPcs
        /\ schedule_locked = (pc[h] \in LockedPcs)
    BY <1>1, <1>3, <2>2, SMTT(60) DEF UpInv, ControlInv, LockInv
  <2>. QED
    BY <1>1, <2>1, <2>3, ZenonT(30)
<1>. QED
  BY <1>2, <1>3, ZenonT(30) DEF ActiveCtx

(* sched_yield() that finds nobody else returns to its caller and keeps    *)
(* the invariant; in the boot context this cannot happen.  (That a part of *)
(* the run queue that is not empty has an oldest thread is OldestExists.)  *)
LEMMA YieldNothing_step ==
  ASSUME TypeOK, UpInv, Up, YieldNothing,
         \A S \in SUBSET Threads : S # {} => Oldest(S) # {}
  PROVE  IInv'
<1>1. PICK h \in Ctx : h = here /\ ActiveCtx(h)
  BY Active
<1>2. /\ pc[h] = "y_release" /\ next_runnable_thread \ {current} = {}
      /\ fault' = IF ret[h] # "boot_return" THEN "none" ELSE "boot_return"
      /\ pc' = [pc EXCEPT ![h] = ret[h]] /\ ret' = [ret EXCEPT ![h] = "none"]
      /\ prev' = [prev EXCEPT ![h] = 0] /\ next' = [next EXCEPT ![h] = 0]
      /\ UNCHANGED <<state, wake_in, queued, next_thread_id, freed, wait_queue, waiters,
                     cond, current, schedule_locked, need_resched, cpu, iflag, inirq,
                     irq_depth, head, reap_list, target, left, expired>>
  BY <1>1, ZenonT(30) DEF YieldNothing, At, Return, Goto, Check, threadVars,
     waitVars, schedVars,
     cpuVars, argVars
<1>3. cpu \in Stacks /\ next_thread_id > N /\ \A t \in Threads : state[t] # "NONE"
  BY <1>1, <1>2, YieldNotIdle, PcFacts, ZenonT(60) DEF TypeOK
<1>4. h = thr(cpu) => current = cpu /\ cpu # Idle /\ pc[irq(cpu)] = "none"
  <2>. SUFFICES ASSUME h = thr(cpu) PROVE current = cpu /\ cpu # Idle /\ pc[irq(cpu)] = "none"
    OBVIOUS
  <2>1. pc[irq(cpu)] = "none"
    BY <1>1, <1>3, CtxFacts, ZenonT(30) DEF ActiveCtx
  <2>. QED
    BY <2>1, <1>1, <1>2, YieldNotIdle, PcFacts, SMTT(60), Z3T(60)
       DEF UpInv, ControlInv, CurrentInv
(* A thread that cannot go on always finds another one to switch to: idle. *)
<1>5. h = thr(cpu) => cpu \in Threads /\ state[cpu] \in {"READY", "RUNNING"}
  <2>. SUFFICES ASSUME h = thr(cpu), cpu = Boot \/ state[cpu] \notin {"READY", "RUNNING"}
                PROVE  FALSE
    BY <1>3, SetFacts
  <2>1. current = cpu /\ cpu # Idle /\ pc[irq(cpu)] = "none" /\ pc[thr(cpu)] = "y_release"
    BY <1>2, <1>4
  <2>2. state[Idle] # "RUNNING"
    BY <2>1, SetFacts, Zenon DEF UpInv, RunningInv
  <2>3. state[Idle] = "READY"
    BY <2>2, <1>3, SetFacts, ZenonT(60) DEF UpInv, StateInv
  <2>4. \A t \in Runnable : t \in Threads /\ t # current
    BY <2>1, SetFacts DEF Runnable, TypeOK
  <2>. DEFINE behind == {t \in Runnable : t > current}
              walk == IF behind # {} THEN behind ELSE Runnable
  <2>5. walk \subseteq Runnable
    OBVIOUS
  <2>6. next_runnable_thread = IF walk # {} THEN Oldest(walk) ELSE {Idle}
    BY <2>3 DEF next_runnable_thread
  <2>. HIDE DEF walk
  <2>7. CASE walk # {}
    <3>1. walk \subseteq Threads
      BY <2>4, <2>5
    <3>2. PICK t \in Oldest(walk) : TRUE
      BY <2>7, <3>1
    <3>3. t \in walk
      BY <3>2 DEF Oldest
    <3>. QED
      BY <3>2, <3>3, <2>4, <2>5, <2>6, <2>7, <1>2
  <2>8. CASE walk = {}
    BY <2>1, <2>6, <2>8, <1>2, ZenonT(60)
  <2>. QED
    BY <2>7, <2>8
<1>6. /\ h = thr(cpu) => ret[h] \in ThreadRets /\ ret[h] # "exit"
      /\ h = irq(cpu) => ret[h] = "iret"
  BY <1>2, <1>3, <1>5, PcFacts, SMTT(60), Z3T(60) DEF UpInv, ControlInv, PcInv, StateInv
<1>7. h \in {thr(cpu), irq(cpu)} /\ thr(cpu) # irq(cpu) /\ thr(cpu) \in Ctx /\ irq(cpu) \in Ctx
  BY <1>1, <1>3, CtxFacts, ZenonT(30) DEF ActiveCtx
<1>8. fault' = "none" /\ ret[h] \in Pcs \ YieldPcs /\ ret[h] # "none" /\ ret[h] # "irq_exit"
  BY <1>2, <1>6, <1>7, PcFacts, Zenon
<1>9. \A s \in Stacks :
        /\ pc'[thr(s)] = IF h = thr(s) THEN ret[h] ELSE pc[thr(s)]
        /\ pc'[irq(s)] = IF h = irq(s) THEN ret[h] ELSE pc[irq(s)]
        /\ ret'[thr(s)] = IF h = thr(s) THEN "none" ELSE ret[thr(s)]
        /\ ret'[irq(s)] = IF h = irq(s) THEN "none" ELSE ret[irq(s)]
        /\ h = thr(s) \/ h = irq(s) => s = cpu
        /\ h # thr(s) => prev'[thr(s)] = prev[thr(s)] /\ next'[thr(s)] = next[thr(s)]
  BY <1>2, <1>7, CtxFacts, ZenonT(60) DEF TypeOK
<1>10. PcInv'
  <2>1. \A s \in Stacks :
       /\ inirq'[s] = (pc'[irq(s)] # "none")
       /\ pc'[irq(s)] \in YieldPcs \cup {"none", "irq_exit", "iret"}
       /\ pc'[irq(s)] \in YieldPcs => ret'[irq(s)] = "iret"
    <3>1. PcInv
      BY ZenonT(30) DEF UpInv, ControlInv
    <3>2. inirq' = inirq /\ pc[h] = "y_release"
      BY <1>2, ZenonT(30)
    <3>3. ASSUME NEW s \in Stacks, h = irq(s)
          PROVE  pc[irq(s)] = "y_release" /\ pc'[irq(s)] = "iret"
      BY <3>2, <3>3, <1>6, <1>9, ZenonT(30)
    <3>4. ASSUME NEW s \in Stacks, h # irq(s)
          PROVE  pc'[irq(s)] = pc[irq(s)] /\ ret'[irq(s)] = ret[irq(s)]
      BY <3>4, <1>9, ZenonT(30)
    <3>. QED
      BY <3>1, <3>2, <3>3, <3>4, PcFacts, ZenonT(30) DEF PcInv
  <2>2. \A t \in Threads :
       /\ pc'[thr(t)] \in ThreadPcs
       /\ pc'[thr(t)] \in YieldPcs => ret'[thr(t)] \in ThreadRets
       /\ pc'[thr(t)] \notin YieldPcs => ret'[thr(t)] = "none"
    BY <1>6, <1>8, <1>9, SetFacts, PcFacts, ZenonT(60) DEF UpInv, ControlInv, PcInv
  <2>3. h # thr(Boot) /\ h # thr(Idle)
    BY <1>4, <1>5, <1>9, SetFacts, ZenonT(30)
  <2>. QED
    BY <2>1, <2>2, <2>3, <1>9, SetFacts, ZenonT(60) DEF UpInv, ControlInv, PcInv
<1>11. IrqInv'
  BY <1>1, <1>2, <1>3, <1>6, <1>7, <1>8, <1>9, ZenonT(60) DEF ActiveCtx, UpInv,
     ControlInv, IrqInv
<1>12. LockInv'
  <2>1. LockInv
    BY ZenonT(30) DEF UpInv, ControlInv
  <2>. QED
    BY <2>1, <1>2, <1>3, <1>7, <1>8, <1>9, PcFacts, SMTT(60), ZenonT(120) DEF LockInv
<1>13. CurrentInv'
  <2>1. CurrentInv
    BY ZenonT(30) DEF UpInv, ControlInv
  <2>2. cpu' = cpu /\ current' = current /\ pc[h] = "y_release"
    BY <1>2, ZenonT(30)
  <2>3. h # irq(cpu) => prev'[irq(cpu)] = prev[irq(cpu)] /\ next'[irq(cpu)] = next[irq(cpu)]
    BY <1>2, <1>7, ZenonT(60) DEF TypeOK
  <2>4. /\ ret[h] \notin YieldPcs /\ pc[h] \notin PickedPcs
        /\ PickedPcs \subseteq YieldPcs /\ AwayPcs \subseteq PickedPcs
    BY <2>2, <1>8, PcFacts, ZenonT(30)
  <2>5. \A s \in Stacks : pc'[thr(s)] \in PickedPcs =>
          prev'[thr(s)] = s /\ next'[thr(s)] \in Threads \ {s}
    BY <2>1, <2>4, <1>9, ZenonT(30) DEF CurrentInv
  <2>6. /\ pc'[thr(cpu)] \in AwayPcs <=> pc[thr(cpu)] \in AwayPcs
        /\ pc'[irq(cpu)] \in PickedPcs <=> pc[irq(cpu)] \in PickedPcs
        /\ pc'[irq(cpu)] \in AwayPcs <=> pc[irq(cpu)] \in AwayPcs
        /\ pc[irq(cpu)] \in PickedPcs => h # irq(cpu)
        /\ pc[thr(cpu)] \in PickedPcs => h # thr(cpu)
    BY <2>4, <1>3, <1>9, ZenonT(30)
  <2>7. /\ pc[irq(cpu)] \in PickedPcs => /\ prev'[irq(cpu)] = prev[irq(cpu)]
                                        /\ next'[irq(cpu)] = next[irq(cpu)]
        /\ pc[thr(cpu)] \in PickedPcs => next'[thr(cpu)] = next[thr(cpu)]
    BY <2>3, <2>6, <1>3, <1>9, ZenonT(30)
  <2>. QED
    BY <2>1, <2>2, <2>4, <2>5, <2>6, <2>7, ZenonT(30) DEF CurrentInv
<1>14. BootInv'
  <2>1. h # thr(Boot)
    BY <1>5, <1>9, SetFacts, ZenonT(30)
  <2>2. pc'[irq(Boot)] \in YieldPcs => pc[irq(Boot)] \in YieldPcs
    BY <1>8, <1>9, SetFacts, Zenon
  <2>. QED
    BY <2>1, <2>2, <1>2, <1>9, SetFacts DEF UpInv, BootInv
<1>15. RunningInv'
  <2>1. ret[h] \in Pcs \ (PickedPcs \ {"y_lock"}) /\ pc[h] \in YieldPcs \ PickedPcs
    BY <1>2, <1>8, PcFacts
  <2>2. \A c \in Ctx : c # h => prev'[c] = prev[c] /\ next'[c] = next[c]
    BY <1>2, Zenon DEF TypeOK
  <2>. QED
    BY <2>1, <2>2, <1>1, <1>2, EarlyRunning, ZenonT(60)
<1>16. StateInv'
  <2>1. \A t \in Threads : (pc'[thr(t)] = "exit" \/ ret'[thr(t)] = "exit") <=>
                           (pc[thr(t)] = "exit" \/ ret[thr(t)] = "exit")
    <3>1. pc[h] = "y_release"
      BY <1>2, ZenonT(30)
    <3>2. ASSUME NEW t \in Threads, h = thr(t)
          PROVE  /\ pc[thr(t)] = "y_release" /\ ret[thr(t)] # "exit"
                 /\ pc'[thr(t)] # "exit" /\ ret'[thr(t)] = "none"
      BY <3>1, <3>2, <1>6, <1>9, SetFacts, ZenonT(30)
    <3>3. ASSUME NEW t \in Threads, h # thr(t)
          PROVE  pc'[thr(t)] = pc[thr(t)] /\ ret'[thr(t)] = ret[thr(t)]
      BY <3>3, <1>9, SetFacts, ZenonT(30)
    <3>. QED
      BY <3>2, <3>3, ZenonT(30)
  <2>2. cpu' \in Threads /\ pc'[thr(cpu')] \notin YieldPcs
          => state'[cpu'] \in {"READY", "RUNNING"}
    <3>1. cpu' = cpu /\ state' = state
      BY <1>2, ZenonT(30)
    <3>2. h # thr(cpu) => pc'[thr(cpu)] = pc[thr(cpu)]
      BY <1>3, <1>9, ZenonT(30)
    <3>3. cpu \in Threads /\ pc[thr(cpu)] \notin YieldPcs => state[cpu] \in {"READY", "RUNNING"}
      BY ZenonT(30) DEF UpInv, StateInv
    <3>. QED
      BY <3>1, <3>2, <3>3, <1>5, ZenonT(30)
  <2>. QED
    BY <2>1, <2>2, <1>2, ZenonT(60) DEF UpInv, StateInv
<1>17. QueueInv'
  BY <1>1, <1>2, ReturnQueue, PcFacts, ZenonT(30)
<1>18. TypeOK'
  BY <1>2, <1>8, SetFacts, PcFacts, ZenonT(60) DEF TypeOK, Boot
<1>19. AssertionsHold'
  BY <1>8 DEF AssertionsHold
<1>. QED
  BY <1>10, <1>11, <1>12, <1>13, <1>14, <1>15, <1>16, <1>17, <1>18, <1>19, ZenonT(60)
     DEF IInv, UpInv, ControlInv
====
