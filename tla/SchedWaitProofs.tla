-------------------------- MODULE SchedWaitProofs ---------------------------
(***************************************************************************)
(* Proofs about Sched, part three: what the operations on wait queues do   *)
(* to the lists, and that they keep the inductive invariant; so do the     *)
(* initial state and stuttering steps.                                     *)
(***************************************************************************)
EXTENDS SchedBodyProofs

(* The lists of the wait queues.                                           *)

Elems(s)    == {s[i] : i \in DOMAIN s}

Distinct(s) == \A i, j \in DOMAIN s : s[i] = s[j] => i = j

(* wait_queue_remove_head_locked() takes exactly the head out of a list    *)
(* without repetitions.                                                    *)
LEMMA ListTail ==
  ASSUME NEW s \in Seq(Threads), s # <<>>, Distinct(s)
  PROVE  /\ Tail(s) \in Seq(Threads) /\ Distinct(Tail(s)) /\ Head(s) \in Threads
         /\ Elems(Tail(s)) = Elems(s) \ {Head(s)} /\ Head(s) \in Elems(s)
<1>1. /\ Len(s) \in Nat /\ Len(s) >= 1 /\ DOMAIN s = 1..Len(s)
      /\ Tail(s) \in Seq(Threads) /\ DOMAIN Tail(s) = 1..(Len(s) - 1)
      /\ \A i \in 1..(Len(s) - 1) : Tail(s)[i] = s[i + 1]
      /\ Head(s) = s[1] /\ \A i \in 1..Len(s) : s[i] \in Threads
  OBVIOUS
<1>2. Distinct(Tail(s))
  BY <1>1 DEF Distinct
<1>3. \A x \in Elems(s) \ {Head(s)} : x \in Elems(Tail(s))
  <2>. TAKE x \in Elems(s) \ {Head(s)}
  <2>1. PICK i \in 1..Len(s) : x = s[i]
    BY <1>1 DEF Elems
  <2>2. i - 1 \in 1..(Len(s) - 1) /\ Tail(s)[i - 1] = x
    BY <1>1, <2>1
  <2>. QED
    BY <2>2, <1>1, ZenonT(30) DEF Elems
<1>4. \A x \in Elems(Tail(s)) : x \in Elems(s) \ {Head(s)}
  <2>. TAKE x \in Elems(Tail(s))
  <2>1. PICK i \in 1..(Len(s) - 1) : x = Tail(s)[i]
    BY <1>1 DEF Elems
  <2>2. i + 1 \in 1..Len(s) /\ s[i + 1] = x /\ 1 \in 1..Len(s) /\ i + 1 # 1
    BY <1>1, <2>1
  <2>. QED
    BY <2>2, <1>1 DEF Elems, Distinct
<1>. QED
  BY <1>1, <1>2, <1>3, <1>4, SMTT(60), Z3T(60) DEF Elems

(* wait_queue_enqueue_locked() adds exactly the new thread, and no second  *)
(* time, to a list it is not on.                                           *)
LEMMA ListAppend ==
  ASSUME NEW s \in Seq(Threads), NEW t \in Threads, Distinct(s), t \notin Elems(s)
  PROVE  /\ Append(s, t) \in Seq(Threads) /\ Distinct(Append(s, t))
         /\ Elems(Append(s, t)) = Elems(s) \cup {t}
<1>1. /\ Len(s) \in Nat /\ DOMAIN s = 1..Len(s)
      /\ Append(s, t) \in Seq(Threads) /\ DOMAIN Append(s, t) = 1..(Len(s) + 1)
      /\ \A i \in 1..Len(s) : Append(s, t)[i] = s[i]
      /\ Append(s, t)[Len(s) + 1] = t
  OBVIOUS
<1>2. \A i \in 1..(Len(s) + 1) : i \in 1..Len(s) \/ i = Len(s) + 1
  BY <1>1
<1>3. \A i \in 1..Len(s) : i \in 1..(Len(s) + 1) /\ i # Len(s) + 1
  BY <1>1
<1>4. Distinct(Append(s, t))
  BY <1>1, <1>2, <1>3 DEF Distinct, Elems
<1>5. Elems(Append(s, t)) \subseteq Elems(s) \cup {t}
  BY <1>1, <1>2 DEF Elems
<1>6. Elems(s) \subseteq Elems(Append(s, t))
  BY <1>1, <1>3 DEF Elems
<1>7. t \in Elems(Append(s, t))
  BY <1>1 DEF Elems
<1>. QED
  BY <1>1, <1>4, <1>5, <1>6, <1>7

(* wait_queue_remove_locked() takes exactly the one thread out of the      *)
(* middle of a list and keeps the order of the others.                     *)
LEMMA ListUnlink ==
  ASSUME NEW s \in Seq(Threads), Distinct(s), NEW k \in DOMAIN s
  PROVE  /\ Unlink(s, k) \in Seq(Threads) /\ Distinct(Unlink(s, k))
         /\ Elems(Unlink(s, k)) = Elems(s) \ {s[k]}
<1>. DEFINE u == Unlink(s, k)
<1>1. /\ Len(s) \in Nat /\ DOMAIN s = 1..Len(s) /\ k \in 1..Len(s)
      /\ \A i \in 1..Len(s) : s[i] \in Threads
  OBVIOUS
<1>2. /\ DOMAIN u = 1..(Len(s) - 1)
      /\ \A i \in 1..(Len(s) - 1) : u[i] = IF i < k THEN s[i] ELSE s[i + 1]
  BY <1>1 DEF Unlink
<1>3. \A i \in 1..(Len(s) - 1) : u[i] \in Threads
  BY <1>1, <1>2
<1>4. u \in Seq(Threads)
  <2>1. u \in [1..(Len(s) - 1) -> Threads]
    BY <1>1, <1>3 DEF Unlink
  <2>2. Len(s) - 1 \in Nat
    BY <1>1
  <2>. QED
    BY <2>1, <2>2
<1>5. \A i \in 1..(Len(s) - 1) : \E j \in 1..Len(s) :
         j # k /\ u[i] = s[j] /\ j = IF i < k THEN i ELSE i + 1
  BY <1>1, <1>2
<1>6. \A j \in 1..Len(s) : j # k => \E i \in 1..(Len(s) - 1) : u[i] = s[j]
  <2>. TAKE j \in 1..Len(s)
  <2>1. CASE j < k
    <3>1. j \in 1..(Len(s) - 1) /\ u[j] = s[j]
      BY <1>1, <1>2, <2>1
    <3>. QED
      BY <3>1
  <2>2. CASE j > k
    <3>1. j - 1 \in 1..(Len(s) - 1) /\ u[j - 1] = s[j]
      BY <1>1, <1>2, <2>2
    <3>. QED
      BY <3>1
  <2>. QED
    BY <2>1, <2>2, <1>1
<1>. HIDE DEF u
<1>7. Distinct(u)
  <2>. SUFFICES ASSUME NEW i \in 1..(Len(s) - 1), NEW j \in 1..(Len(s) - 1), u[i] = u[j]
                PROVE  i = j
    BY <1>2 DEF Distinct
  <2>. DEFINE f(x) == IF x < k THEN x ELSE x + 1
  <2>1. /\ f(i) \in 1..Len(s) /\ u[i] = s[f(i)]
        /\ f(j) \in 1..Len(s) /\ u[j] = s[f(j)]
    BY <1>5
  <2>2. f(i) = f(j)
    <3>. HIDE DEF f
    <3>. QED
      BY <1>1, <2>1, ZenonT(30) DEF Distinct
  <2>. QED
    BY <2>2, <1>1
<1>8. Elems(u) \subseteq Elems(s) \ {s[k]}
  BY <1>1, <1>2, <1>5, SMTT(60), Z3T(60) DEF Elems, Distinct
<1>9. Elems(s) \ {s[k]} \subseteq Elems(u)
  <2>. SUFFICES ASSUME NEW x \in Elems(s), x # s[k] PROVE x \in Elems(u)
    OBVIOUS
  <2>1. PICK j \in 1..Len(s) : x = s[j]
    BY <1>1 DEF Elems
  <2>2. PICK i \in 1..(Len(s) - 1) : u[i] = s[j]
    BY <2>1, <1>6
  <2>. QED
    BY <2>1, <2>2, <1>2, ZenonT(30) DEF Elems
<1>10. u = Unlink(s, k)
  BY DEF u
<1>. QED
  BY <1>4, <1>7, <1>8, <1>9, <1>10

(* Taking the threads of W off the lists, to wake them or because they     *)
(* leave, keeps it too; a condition may become true if its list is emptied *)
(* or belongs to a device.                                                 *)
LEMMA QueueTake ==
  ASSUME TypeOK, QueueInv, NEW W \in SUBSET Threads,
         \A q \in Queues :
           Elems(waiters'[q]) = Elems(waiters[q]) \ W /\ Distinct(waiters'[q]),
         \A t \in Threads :
           wait_queue'[t] = IF t \in W THEN NoQueue ELSE wait_queue[t],
         \A q \in Queues :
           cond'[q] => cond[q] \/ q \in IrqQueues \/ Elems(waiters'[q]) = {},
         \A t \in Threads : target'[t] = target[t] /\ (InWait(t)' => InWait(t)),
         \A t \in Threads \ W : state'[t] = state[t]
           /\ \A p \in {"s_check", "w_remove", "t_remove"} :
                BlockedAt(t, p) => BlockedAt(t, p)',
         \A t \in W : state'[t] # "WAITING"
  PROVE  QueueInv'
<1>1. \A q \in Queues : /\ Members(q) = Elems(waiters[q]) /\ Members(q)' = Members(q) \ W
                        /\ Distinct(waiters'[q])
                        /\ cond'[q] => cond[q] \/ q \in IrqQueues \/ Members(q)' = {}
  BY ZenonT(30) DEF Members, Elems
<1>2. \A q \in Queues : \A t \in Members(q) : t \in Threads
  BY SMTT(60), Z3T(60) DEF TypeOK, Members
<1>3. \A t \in Threads, q \in Queues : wait_queue'[t] = q <=> t \in Members(q)'
  BY <1>1, SchedAssumption, SMTT(60), Z3T(60) DEF QueueInv
<1>4. \A q \in Queues : \A i, j \in DOMAIN waiters'[q] :
        waiters'[q][i] = waiters'[q][j] => i = j
  BY <1>1 DEF Distinct
<1>5. \A t \in Threads : wait_queue'[t] # NoQueue =>
        /\ wait_queue'[t] = wait_queue[t] /\ t \notin W
  OBVIOUS
<1>6. \A t \in Threads : wait_queue'[t] # NoQueue =>
       \/ BlockedAt(t, "s_check")' /\ state'[t] = "WAITING"
       \/ BlockedAt(t, "w_remove")' /\ target'[t] = wait_queue'[t]
       \/ BlockedAt(t, "t_remove")' /\ target'[t] = wait_queue'[t]
  BY <1>5 DEF QueueInv
<1>7. \A t \in Threads : state'[t] = "WAITING" => wait_queue'[t] # NoQueue
  BY DEF QueueInv
<1>8. \A t \in Threads : InWait(t)' => target'[t] \in Queues
  BY DEF QueueInv
<1>9. \A q \in Queues \ IrqQueues : cond'[q] => \A t \in Members(q)' : ~InWait(t)'
  BY <1>1, <1>2, SMTT(60), Z3T(60) DEF QueueInv
<1>. QED
  BY <1>3, <1>4, <1>6, <1>7, <1>8, <1>9 DEF QueueInv

(* The current thread blocks on q, whose condition is false unless it      *)
(* waits for no condition.                                                 *)
LEMMA QueuePut ==
  ASSUME TypeOK, QueueInv, NEW q \in Queues, NEW p \in {"s_check", "w_remove", "t_remove"},
         current \in Threads, current' = current, wait_queue[current] = NoQueue, Enqueue(q),
         cond' = cond, target' = target,
         p # "s_check" => ~cond[q] /\ target[current] = q,
         state'[current] \in {"WAITING", "SLEEPING"},
         p = "s_check" => state'[current] = "WAITING",
         BlockedAt(current, p)', InWait(current)' => p # "s_check",
         \A t \in Threads \ {current} :
           /\ state'[t] = state[t] /\ (InWait(t)' => InWait(t))
           /\ \A x \in {"s_check", "w_remove", "t_remove"} :
                BlockedAt(t, x) => BlockedAt(t, x)'
  PROVE  QueueInv'
<1>1. /\ \A t \in Threads : wait_queue'[t] = IF t = current THEN q ELSE wait_queue[t]
      /\ \A x \in Queues : waiters'[x] = IF x = q THEN Append(waiters[q], current)
                                        ELSE waiters[x]
  BY DEF Enqueue, TypeOK
<1>2. /\ \A x \in Queues : Members(x) = Elems(waiters[x]) /\ Members(x)' = Elems(waiters'[x])
      /\ \A x \in Queues : waiters[x] \in Seq(Threads) /\ Distinct(waiters[x])
  BY DEF Members, Elems, TypeOK, QueueInv, Distinct
<1>3. \A x \in Queues : current \notin Members(x)
  BY SchedAssumption DEF QueueInv
<1>4. \A x \in Queues : /\ Distinct(waiters'[x])
                        /\ Members(x)' = IF x = q THEN Members(q) \cup {current}
                                         ELSE Members(x)
  BY <1>1, <1>2, <1>3, ListAppend, SMTT(60), Z3T(60)
<1>5. \A x \in Queues : \A t \in Members(x) : t \in Threads /\ t # current
  BY <1>3, SMTT(60), Z3T(60) DEF TypeOK, Members
<1>6. \A t \in Threads, x \in Queues : wait_queue'[t] = x <=> t \in Members(x)'
  BY <1>1, <1>3, <1>4, SMTT(60), Z3T(60) DEF QueueInv
<1>7. \A x \in Queues : \A i, j \in DOMAIN waiters'[x] :
        waiters'[x][i] = waiters'[x][j] => i = j
  BY <1>4 DEF Distinct
<1>8. \A t \in Threads : wait_queue'[t] # NoQueue =>
       \/ BlockedAt(t, "s_check")' /\ state'[t] = "WAITING"
       \/ BlockedAt(t, "w_remove")' /\ target'[t] = wait_queue'[t]
       \/ BlockedAt(t, "t_remove")' /\ target'[t] = wait_queue'[t]
  BY <1>1 DEF QueueInv
<1>9. \A t \in Threads : state'[t] = "WAITING" => wait_queue'[t] # NoQueue
  BY <1>1, SchedAssumption DEF QueueInv
<1>10. \A t \in Threads : InWait(t)' => target'[t] \in Queues
  BY DEF QueueInv
<1>11. \A x \in Queues \ IrqQueues : cond'[x] => \A t \in Members(x)' : ~InWait(t)'
  BY <1>4, <1>5, SMTT(60), Z3T(60) DEF QueueInv
<1>. QED
  BY <1>6, <1>7, <1>8, <1>9, <1>10, <1>11 DEF QueueInv

(* wait_queue_sleep() and the two waits block in the same way.             *)
LEMMA Block_step ==
  ASSUME TypeOK, UpInv, Up, NEW g \in {"run", "w_lock", "t_lock"}, At(g),
         g = "run" => \E op : op \in Ops[cpu],
         NEW q \in Queues, NEW how \in {"WAITING", "SLEEPING"},
         NEW until \in Ticks \cup {Cleared},
         NEW p \in {"s_check", "w_remove", "t_remove"},
         Block(q, how, until, p), p = "s_check" => how = "WAITING",
         p # "s_check" => ~cond[q] /\ target[current] = q,
         UNCHANGED <<queued, next_thread_id, freed, cond, schedVars, cpuVars, argVars>>
  PROVE  IInv'
<1>1. /\ here = thr(cpu) /\ pc[irq(cpu)] = "none" /\ pc[thr(cpu)] = g
      /\ cpu \in Threads \ {Idle} /\ current = cpu /\ CanSwitch
      /\ state[cpu] \in {"READY", "RUNNING"} /\ wait_queue[cpu] = NoQueue
  BY BodyHere, PcFacts
<1>2. BodyMove("y_assert", p)
  BY <1>1, PcFacts, Zenon DEF Block, CallYield, Goto, BodyMove, ThreadRets
<1>3. BodyState("y_assert", p)
  BY <1>1, ZenonT(30) DEF Block, BodyState, TypeOK
<1>4. ControlInv' /\ BootInv' /\ RunningInv' /\ StateInv'
  BY <1>2, <1>3, BodyInv DEF Block, CallYield
<1>5. current' = current /\ target' = target
  BY ZenonT(30) DEF schedVars, argVars
<1>6. QueueInv'
  <2>1. /\ BlockedAt(current, p)' /\ (InWait(current)' => p # "s_check")
    BY <1>1, <1>2, <1>5, BodyWaits, ZenonT(60) DEF WaitPcs
  <2>2. \A t \in Threads \ {current} :
           /\ state'[t] = state[t] /\ (InWait(t)' => InWait(t))
           /\ \A x \in {"s_check", "w_remove", "t_remove"} :
                BlockedAt(t, x) => BlockedAt(t, x)'
    BY <1>1, <1>2, BodyWaits DEF Block, TypeOK
  <2>3. state'[current] = how
    BY <1>1, ZenonT(30) DEF Block, TypeOK
  <2>. QED
    BY <2>1, <2>2, <2>3, <1>1, <1>5, QueuePut, Zenon DEF Block, UpInv
<1>7. TypeOK'
  <2>1. pc' \in [Ctx -> Pcs] /\ ret' \in [Ctx -> Pcs]
    BY <1>2, BodyTypes, ZenonT(60)
  <2>2. /\ wait_queue' \in [Threads -> Queues \cup {NoQueue}]
        /\ waiters' \in [Queues -> Seq(Threads)]
    BY <1>1, SMTT(60), Z3T(60) DEF Block, Enqueue, TypeOK
  <2>3. /\ state' \in [Threads -> States]
        /\ wake_in' \in [Threads -> Ticks \cup {Cleared}]
        /\ fault' \in {"none"} \cup Panics \cup Undefined
    BY <1>1, ZenonT(30) DEF Block, TypeOK, States, Panics
  <2>. QED
    BY <2>1, <2>2, <2>3, ZenonT(30) DEF TypeOK, Block, CallYield, schedVars, cpuVars,
       localVars, argVars
<1>8. AssertionsHold'
  BY <1>1, ZenonT(30) DEF Block, AssertionsHold
<1>. QED
  BY <1>4, <1>6, <1>7, <1>8 DEF IInv, UpInv

(* wait_queue_sleep() keeps the invariant.                                 *)
LEMMA wait_queue_sleep_step ==
  ASSUME TypeOK, UpInv, Up, NEW q \in Queues, wait_queue_sleep(q)
  PROVE  IInv'
<1>1. At("run") /\ \E op : op \in Ops[cpu]
  BY DEF wait_queue_sleep, Calls
<1>. QED
  BY <1>1, Block_step, ZenonT(30) DEF wait_queue_sleep

(* Inside wait_queue_wait() and wait_queue_wait_timeout() the queue        *)
(* argument is a queue.                                                    *)
LEMMA WaitTarget ==
  ASSUME TypeOK, UpInv, NEW p \in WaitPcs, At(p)
  PROVE  /\ current \in Threads /\ target[current] \in Queues
         /\ left[current] \in Ticks
<1>1. current = cpu /\ cpu \in Threads /\ pc[thr(cpu)] = p
  BY BodyHere, PcFacts
<1>. QED
  BY <1>1, ZenonT(30) DEF TypeOK, UpInv, QueueInv, InWait, thr

(* The locked section of wait_queue_wait() that enqueues and blocks keeps  *)
(* the invariant: the condition is false there.                            *)
LEMMA WaitBlock_step ==
  ASSUME TypeOK, UpInv, Up, WaitBlock
  PROVE  IInv'
<1>1. At("w_lock") /\ target[current] \in Queues
  BY WaitTarget, PcFacts DEF WaitBlock
<1>. QED
  BY <1>1, Block_step DEF WaitBlock

(* The locked section of wait_queue_wait_timeout() that enqueues and       *)
(* sleeps keeps the invariant.                                             *)
LEMMA TimeoutBlock_step ==
  ASSUME TypeOK, UpInv, Up, TimeoutBlock
  PROVE  IInv'
<1>1. At("t_lock") /\ target[current] \in Queues /\ left[current] \in Ticks
  BY WaitTarget, PcFacts DEF TimeoutBlock
<1>. QED
  BY <1>1, Block_step DEF TimeoutBlock

(* The calls that wake threads stay at the same place in the body.         *)
LEMMA Wake_step ==
  ASSUME TypeOK, UpInv, Up, At("run"), \E op : op \in Ops[cpu],
         NEW W \in SUBSET Threads, MarkReady(W),
         waiters' \in [Queues -> Seq(Threads)],
         \A q \in Queues :
           Elems(waiters'[q]) = Elems(waiters[q]) \ W /\ Distinct(waiters'[q]),
         cond' \in [Queues -> BOOLEAN],
         \A q \in Queues : cond'[q] => cond[q] \/ Elems(waiters'[q]) = {},
         UNCHANGED <<queued, next_thread_id, freed, schedVars, cpuVars, pc,
                     callVars, argVars>>
  PROVE  IInv'
<1>1. /\ here = thr(cpu) /\ pc[irq(cpu)] = "none" /\ pc[thr(cpu)] = "run"
      /\ cpu \in Threads \ {Idle} /\ current = cpu
      /\ state[cpu] \in {"READY", "RUNNING"} /\ ret[thr(cpu)] = "none"
  BY BodyHere, PcFacts, Zenon
<1>2. /\ pc' = pc /\ ret' = ret /\ target' = target /\ pc \in [Ctx -> Pcs]
  BY ZenonT(30) DEF callVars, argVars, TypeOK
<1>3. BodyMove("run", "none")
  BY <1>1, <1>2, PcFacts, Zenon DEF BodyMove
<1>4. TypeOK'
  <2>1. /\ state' \in [Threads -> States]
        /\ wake_in' \in [Threads -> Ticks \cup {Cleared}]
        /\ wait_queue' \in [Threads -> Queues \cup {NoQueue}]
        /\ fault' \in {"none"} \cup Panics \cup Undefined
    BY ZenonT(30) DEF MarkReady, Check, TypeOK, States, Panics
  <2>. QED
    BY <2>1, ZenonT(30) DEF TypeOK, schedVars, cpuVars, callVars, localVars, argVars
<1>5. AssertionsHold'
  BY ZenonT(60) DEF MarkReady, Check, AssertionsHold
<1>6. ASSUME Up' PROVE UpInv'
  <2>1. \A t \in W : state[t] \in {"WAITING", "SLEEPING"}
    BY <1>6 DEF MarkReady, Check, Up
  <2>2. \A t \in Threads : state'[t] = IF t \in W THEN "READY" ELSE state[t]
    BY ZenonT(30) DEF MarkReady
  <2>3. BodyState("run", "none")
    <3>1. \A t \in Threads : state[t] = "DEAD" => wake_in'[t] = wake_in[t]
      BY <2>1, ZenonT(30) DEF MarkReady
    <3>. QED
      BY <2>1, <2>2, <3>1, <1>1, ZenonT(30) DEF BodyState
  <2>4. ControlInv' /\ BootInv' /\ RunningInv' /\ StateInv'
    BY <1>3, <2>3, BodyInv, ZenonT(30) DEF callVars
  <2>5. \A t \in Threads :
           wait_queue'[t] = IF t \in W THEN NoQueue ELSE wait_queue[t]
    BY ZenonT(30) DEF MarkReady
  <2>6. \A t : /\ InWait(t)' <=> InWait(t)
               /\ \A x : BlockedAt(t, x)' <=> BlockedAt(t, x)
    BY <1>2, Zenon DEF InWait, BlockedAt
  <2>7. QueueInv'
    BY <2>2, <2>5, <2>6, <1>2, QueueTake, ZenonT(30) DEF UpInv
  <2>. QED
    BY <2>4, <2>7 DEF UpInv
<1>. QED
  BY <1>4, <1>5, <1>6, ZenonT(30) DEF IInv

(* What wake_one and wake_all take off the lists.                          *)
LEMMA WakeOneLists ==
  ASSUME TypeOK, UpInv, NEW q \in Queues, wait_queue_wake_one_locked(q)
  PROVE  \E W \in SUBSET Threads :
           /\ MarkReady(W)
           /\ waiters' \in [Queues -> Seq(Threads)]
           /\ \A x \in Queues : /\ Elems(waiters'[x]) = Elems(waiters[x]) \ W
                                /\ Distinct(waiters'[x])
<1>1. /\ waiters \in [Queues -> Seq(Threads)]
      /\ \A x \in Queues : waiters[x] \in Seq(Threads) /\ Distinct(waiters[x])
      /\ \A x \in Queues : Members(x) = Elems(waiters[x])
  BY ZenonT(30) DEF TypeOK, UpInv, QueueInv, Distinct, Members, Elems
<1>2. CASE waiters[q] = <<>>
  <2>1. waiters' = waiters
    BY <1>1, <1>2 DEF wait_queue_wake_one_locked
  <2>2. MarkReady({})
    BY <1>2 DEF wait_queue_wake_one_locked
  <2>. WITNESS {} \in SUBSET Threads
  <2>. QED
    BY <2>1, <2>2, <1>1
<1>3. CASE waiters[q] # <<>>
  <2>. DEFINE t == Head(waiters[q])
  <2>1. /\ Tail(waiters[q]) \in Seq(Threads) /\ Distinct(Tail(waiters[q])) /\ t \in Threads
        /\ Elems(Tail(waiters[q])) = Elems(waiters[q]) \ {t} /\ t \in Elems(waiters[q])
    BY <1>1, <1>3, ListTail
  <2>2. MarkReady({t})
    BY <1>3 DEF wait_queue_wake_one_locked
  <2>3. waiters' = [waiters EXCEPT ![q] = Tail(waiters[q])]
    BY <1>1, <1>3 DEF wait_queue_wake_one_locked
  <2>. HIDE DEF t
  <2>4. \A x \in Queues : x # q => t \notin Elems(waiters[x])
    BY <2>1, <1>1, SMTT(60), Z3T(60) DEF UpInv, QueueInv
  <2>5. waiters' \in [Queues -> Seq(Threads)]
    BY <1>1, <2>1, <2>3
  <2>6. \A x \in Queues : waiters'[x] = IF x = q THEN Tail(waiters[q]) ELSE waiters[x]
    BY <1>1, <2>3
  <2>. {t} \in SUBSET Threads
    BY <2>1
  <2>. WITNESS {t} \in SUBSET Threads
  <2>. QED
    BY <1>1, <2>1, <2>2, <2>4, <2>5, <2>6, ZenonT(30)
<1>. QED
  BY <1>2, <1>3, Zenon

(* wait_queue_wake_all_locked() takes all threads out of its list and out  *)
(* of no other.                                                            *)
LEMMA WakeAllLists ==
  ASSUME TypeOK, UpInv, NEW q \in Queues, wait_queue_wake_all_locked(q)
  PROVE  \E W \in SUBSET Threads :
           /\ MarkReady(W)
           /\ waiters' \in [Queues -> Seq(Threads)]
           /\ \A x \in Queues : /\ Elems(waiters'[x]) = Elems(waiters[x]) \ W
                                /\ Distinct(waiters'[x])
           /\ Elems(waiters'[q]) = {}
<1>1. /\ waiters \in [Queues -> Seq(Threads)]
      /\ \A x \in Queues : waiters[x] \in Seq(Threads) /\ Distinct(waiters[x])
      /\ \A x \in Queues : Members(x) = Elems(waiters[x])
  BY ZenonT(30) DEF TypeOK, UpInv, QueueInv, Distinct, Members, Elems
<1>2. Members(q) \in SUBSET Threads
  BY <1>1 DEF Elems
<1>3. \A x \in Queues : waiters'[x] = IF x = q THEN <<>> ELSE waiters[x]
  BY <1>1 DEF wait_queue_wake_all_locked
<1>4. waiters' \in [Queues -> Seq(Threads)]
  BY <1>1 DEF wait_queue_wake_all_locked
<1>5. Elems(<<>>) = {} /\ Distinct(<<>>)
  BY SMTT(60), Z3T(60) DEF Elems, Distinct
<1>6. \A x \in Queues : x # q => \A t \in Elems(waiters[x]) : t \notin Members(q)
  <2>1. \A x \in Queues : \A t \in Elems(waiters[x]) : t \in Threads
    BY <1>1 DEF Elems
  <2>. QED
    BY <2>1, <1>1, SMTT(60), Z3T(60) DEF UpInv, QueueInv
<1>7. MarkReady(Members(q))
  BY DEF wait_queue_wake_all_locked
<1>. WITNESS Members(q) \in SUBSET Threads
<1>. QED
  BY <1>1, <1>3, <1>4, <1>5, <1>6, <1>7, ZenonT(60)

(* wait_queue_wake_one() keeps the invariant, or panics on a thread that   *)
(* is not blocked.                                                         *)
LEMMA wait_queue_wake_one_step ==
  ASSUME TypeOK, UpInv, Up, NEW q \in Queues, wait_queue_wake_one(q)
  PROVE  IInv'
<1>1. At("run") /\ \E op : op \in Ops[cpu]
  BY DEF wait_queue_wake_one, Calls
<1>2. cond' = cond /\ cond \in [Queues -> BOOLEAN]
  BY DEF wait_queue_wake_one, TypeOK
<1>. QED
  BY <1>1, <1>2, WakeOneLists, Wake_step, ZenonT(30) DEF wait_queue_wake_one

(* wait_queue_wake_all() keeps the invariant, or panics on a thread that   *)
(* is not blocked.                                                         *)
LEMMA wait_queue_wake_all_step ==
  ASSUME TypeOK, UpInv, Up, NEW q \in Queues, wait_queue_wake_all(q)
  PROVE  IInv'
<1>1. At("run") /\ \E op : op \in Ops[cpu]
  BY DEF wait_queue_wake_all, Calls
<1>2. cond' = cond /\ cond \in [Queues -> BOOLEAN]
  BY DEF wait_queue_wake_all, TypeOK
<1>. QED
  BY <1>1, <1>2, WakeAllLists, Wake_step, ZenonT(30) DEF wait_queue_wake_all

(* Making a condition true and waking all its waiters under one hold of    *)
(* the queue lock keeps the invariant: this is where no waiter may be left *)
(* behind.                                                                 *)
LEMMA Signal_step ==
  ASSUME TypeOK, UpInv, Up, NEW q \in Queues, Signal(q)
  PROVE  IInv'
<1>1. At("run") /\ \E op : op \in Ops[cpu]
  BY DEF Signal, Calls
<1>2. cond' \in [Queues -> BOOLEAN] /\ \A x \in Queues : x # q => cond'[x] = cond[x]
  BY DEF Signal, TypeOK
<1>. QED
  BY <1>1, <1>2, WakeAllLists, Wake_step, ZenonT(30) DEF Signal

(* Making a condition false keeps the invariant.                           *)
LEMMA Clear_step ==
  ASSUME TypeOK, UpInv, Up, NEW q \in Queues, Clear(q)
  PROVE  IInv'
<1>1. At("run") /\ \E op : op \in Ops[cpu]
  BY DEF Clear, Calls
<1>2. /\ here = thr(cpu) /\ pc[irq(cpu)] = "none" /\ pc[thr(cpu)] = "run"
      /\ cpu \in Threads \ {Idle} /\ current = cpu
      /\ state[cpu] \in {"READY", "RUNNING"} /\ wait_queue[cpu] = NoQueue
  BY <1>1, BodyHere, PcFacts, ZenonT(30)
<1>3. BodyMove("run", "none")
  BY <1>2, PcFacts, ZenonT(60) DEF BodyMove, Clear, callVars, TypeOK
<1>4. BodyState("run", "none")
  BY <1>2 DEF Clear, threadVars, BodyState
<1>5. ControlInv' /\ BootInv' /\ RunningInv' /\ StateInv'
  BY <1>3, <1>4, BodyInv DEF Clear, threadVars, callVars
<1>6. \A x \in Queues : cond'[x] => cond[x]
  BY ZenonT(30) DEF Clear, TypeOK
<1>7. QueueInv'
  BY <1>2, <1>3, <1>6, BodyQuiet, ZenonT(30) DEF Clear, threadVars, argVars, WaitPcs
<1>8. TypeOK'
  BY DEF Clear, TypeOK, threadVars, schedVars, cpuVars, callVars, localVars, argVars
<1>9. AssertionsHold'
  BY Zenon DEF Clear, Up, AssertionsHold
<1>. QED
  BY <1>5, <1>7, <1>8, <1>9 DEF IInv, UpInv

(* wait_queue_remove_locked(): whether or not a waker has taken it off     *)
(* already, the thread that leaves the wait is on no list.                 *)
LEMMA Remove_step ==
  ASSUME TypeOK, UpInv, Up, NEW g \in {"w_remove", "t_remove"}, At(g),
         NEW p \in {"w_lock", "t_now"}, Goto(p),
         wait_queue_remove_locked(target[current]),
         UNCHANGED <<threadVars, cond, schedVars, cpuVars, callVars, argVars>>
  PROVE  IInv'
<1>1. /\ here = thr(cpu) /\ pc[irq(cpu)] = "none" /\ pc[thr(cpu)] = g
      /\ cpu \in Threads \ {Idle} /\ current = cpu
      /\ state[cpu] \in {"READY", "RUNNING"} /\ ret[thr(cpu)] = "none"
  BY BodyHere, PcFacts, ZenonT(30)
<1>2. target[cpu] \in Queues
  BY <1>1, WaitTarget, PcFacts, Zenon
<1>3. BodyMove(p, "none")
  BY <1>1, PcFacts, ZenonT(60) DEF BodyMove, Goto, callVars
<1>4. BodyState(p, "none")
  BY <1>1 DEF threadVars, BodyState
<1>5. ControlInv' /\ BootInv' /\ RunningInv' /\ StateInv'
  BY <1>3, <1>4, BodyInv, ZenonT(60) DEF threadVars, callVars
<1>6. wait_queue[cpu] \in {NoQueue, target[cpu]}
  BY <1>1 DEF UpInv, QueueInv, BlockedAt
<1>7. pc' \in [Ctx -> Pcs] /\ ret' \in [Ctx -> Pcs]
  BY <1>3, BodyTypes
<1>8. CASE wait_queue[cpu] = NoQueue
  <2>1. UNCHANGED <<wait_queue, waiters, fault>>
    BY <1>1, <1>2, <1>8, SchedAssumption, ZenonT(30) DEF wait_queue_remove_locked
  <2>2. QueueInv'
    BY <2>1, <1>1, <1>2, <1>3, <1>8, BodyQuiet, ZenonT(30) DEF threadVars, argVars
  <2>3. TypeOK'
    BY <2>1, <1>7, ZenonT(30)
     DEF TypeOK, threadVars, schedVars, cpuVars, callVars, localVars, argVars
  <2>4. AssertionsHold'
    BY <2>1, ZenonT(60) DEF Up, AssertionsHold
  <2>. QED
    BY <1>5, <2>2, <2>3, <2>4, ZenonT(30) DEF IInv, UpInv
<1>9. CASE wait_queue[cpu] = target[cpu]
  <2>. DEFINE q == target[cpu]
              s == waiters[q]
              k == CHOOSE i \in Places(s, cpu) : TRUE
  <2>1. /\ s \in Seq(Threads) /\ Distinct(s) /\ cpu \in Elems(s)
        /\ \A x \in Queues : Distinct(waiters[x])
        /\ \A x \in Queues : x # q => cpu \notin Elems(waiters[x])
    <3>1. waiters \in [Queues -> Seq(Threads)]
      BY ZenonT(30) DEF TypeOK
    <3>2. QueueInv
      BY ZenonT(30) DEF UpInv
    <3>3. \A x \in Queues : Distinct(waiters[x])
      BY <3>2, ZenonT(60) DEF QueueInv, Distinct
    <3>4. \A x \in Queues : wait_queue[cpu] = x <=> cpu \in Elems(waiters[x])
      BY <3>2, <1>1 DEF QueueInv, Members, Elems
    <3>. QED
      BY <1>2, <1>9, <3>1, <3>3, <3>4
  <2>2. Places(s, cpu) # {} /\ Places(s, cpu) \subseteq DOMAIN s
    BY <2>1, ZenonT(60) DEF Places, Elems
  <2>3. k \in Places(s, cpu)
    BY <2>2
  <2>4. k \in DOMAIN s /\ s[k] = cpu
    BY <2>3, ZenonT(30) DEF Places
  <2>5. /\ fault' = "none"
        /\ wait_queue' = [wait_queue EXCEPT ![cpu] = NoQueue]
        /\ waiters' = [waiters EXCEPT ![q] = Unlink(s, k)]
    BY <1>1, <1>2, <1>9, <2>2, ZenonT(60) DEF wait_queue_remove_locked, Check, TypeOK
  <2>. HIDE DEF q, s, k
  <2>6. /\ Unlink(s, k) \in Seq(Threads) /\ Distinct(Unlink(s, k))
        /\ Elems(Unlink(s, k)) = Elems(s) \ {cpu}
    BY <2>1, <2>4, ListUnlink, ZenonT(30)
  <2>7. q \in Queues /\ s = waiters[q] /\ q = target[cpu]
    BY <1>2 DEF q, s
  <2>8. \A x \in Queues : waiters'[x] = IF x = q THEN Unlink(s, k) ELSE waiters[x]
    BY <2>5, ZenonT(30) DEF TypeOK
  <2>9. \A x \in Queues : /\ Elems(waiters'[x]) = Elems(waiters[x]) \ {cpu}
                          /\ Distinct(waiters'[x])
    BY <2>1, <2>6, <2>7, <2>8, ZenonT(60)
  <2>10. \A t \in Threads :
           wait_queue'[t] = IF t \in {cpu} THEN NoQueue ELSE wait_queue[t]
    BY <2>5 DEF TypeOK
  <2>11. /\ state' = state /\ cond' = cond /\ target' = target
    BY DEF threadVars, argVars
  <2>12. \A t \in Threads : InWait(t)' => InWait(t)
    <3>1. InWait(cpu)
      BY <1>1, PcFacts, ZenonT(30) DEF InWait, thr
    <3>. QED
      BY <3>1, <1>3, BodyWaits
  <2>13. \A t \in Threads \ {cpu} : \A x : BlockedAt(t, x) => BlockedAt(t, x)'
    BY <1>3, BodyWaits
  <2>14. QueueInv
    BY Zenon DEF UpInv
  <2>15. QueueInv'
    BY <2>9, <2>10, <2>11, <2>12, <2>13, <2>14, <1>1, QueueTake, ZenonT(30)
  <2>16. TypeOK'
    <3>1. waiters' \in [Queues -> Seq(Threads)] /\ wait_queue' \in [Threads -> Queues \cup {NoQueue}]
      BY <2>5, <2>6, ZenonT(30) DEF TypeOK
    <3>. QED
      BY <3>1, <2>5, <1>7, Zenon DEF TypeOK, threadVars, schedVars, cpuVars,
         callVars, localVars, argVars
  <2>17. AssertionsHold'
    BY <2>5 DEF AssertionsHold
  <2>. QED
    BY <1>5, <2>15, <2>16, <2>17, ZenonT(30) DEF IInv, UpInv
<1>. QED
  BY <1>6, <1>8, <1>9, Zenon

(* wait_queue_wait() that takes its thread off the queue after a switch    *)
(* keeps the invariant.                                                    *)
LEMMA WaitRemove_step ==
  ASSUME TypeOK, UpInv, Up, WaitRemove
  PROVE  IInv'
BY Remove_step DEF WaitRemove

(* wait_queue_wait_timeout() that takes its thread off the queue, where a  *)
(* timeout leaves it, keeps the invariant.                                 *)
LEMMA TimeoutRemove_step ==
  ASSUME TypeOK, UpInv, Up, TimeoutRemove
  PROVE  IInv'
BY Remove_step DEF TimeoutRemove

(* The invariant.                                                          *)

LEMMA InitIInv ==
  Init => IInv
<1>. SUFFICES ASSUME Init PROVE IInv
  OBVIOUS
<1>1. \A s \in Stacks :
        /\ pc[irq(s)] = "none" /\ pc[thr(s)] = IF s = Boot THEN "boot" ELSE "run"
        /\ ret[irq(s)] = "none" /\ ret[thr(s)] = "none" /\ inirq[s] = FALSE
        /\ prev[thr(s)] = 0 /\ next[thr(s)] = 0
  BY CtxFacts, ZenonT(30) DEF Init, thr, irq, Ctx
<1>2. \A t \in Threads : pc[thr(t)] = "run" /\ t # Boot /\ ret[thr(t)] = "none"
  BY <1>1, SetFacts
<1>3. /\ "none" \notin YieldPcs /\ "none" \notin PickedPcs /\ "none" \notin LockedPcs
      /\ "none" \notin AwayPcs /\ "none" \notin WaitPcs /\ "none" \in Pcs
      /\ "boot" \notin YieldPcs /\ "boot" \notin PickedPcs /\ "boot" \notin LockedPcs
      /\ "boot" \notin AwayPcs /\ "boot" \in Pcs
      /\ "run" \notin YieldPcs /\ "run" \notin PickedPcs /\ "run" \notin LockedPcs
      /\ "run" \notin AwayPcs /\ "run" \in ThreadPcs /\ "run" \in Pcs /\ "run" \notin WaitPcs
  BY PcFacts, ZenonT(30)
<1>4. TypeOK
  <2>1. pc \in [Ctx -> Pcs] /\ ret \in [Ctx -> Pcs]
    BY <1>3 DEF Init
  <2>2. /\ wake_in \in [Threads -> Ticks \cup {Cleared}] /\ left \in [Threads -> Ticks]
        /\ next_thread_id \in 1..(N + 1)
    BY TickFacts, SchedAssumption, SMTT(60), Z3T(60) DEF Init
  <2>3. /\ waiters \in [Queues -> Seq(Threads)] /\ cond \in [Queues -> BOOLEAN]
        /\ wait_queue \in [Threads -> Queues \cup {NoQueue}]
        /\ target \in [Threads -> Queues \cup {NoQueue}]
        /\ expired \in [Threads -> BOOLEAN] /\ state \in [Threads -> States]
    BY SMTT(60), Z3T(60) DEF Init, States
  <2>4. /\ prev \in [Ctx -> Stacks] /\ next \in [Ctx -> Stacks] /\ head \in [Ctx -> Stacks]
        /\ reap_list \in [Ctx -> SUBSET Threads] /\ inirq \in [Stacks -> BOOLEAN]
        /\ cpu \in Stacks /\ current \in Stacks
    BY SetFacts DEF Init, Boot
  <2>. QED
    BY <2>1, <2>2, <2>3, <2>4, ZenonT(60) DEF Init, TypeOK
<1>5. AssertionsHold
  BY ZenonT(60) DEF Init, AssertionsHold
<1>6. PcInv
  <2>1. \A s \in Stacks : inirq[s] = (pc[irq(s)] # "none")
    <3>. TAKE s \in Stacks
    <3>1. inirq[s] = FALSE /\ (pc[irq(s)] # "none") = FALSE
      BY <1>1
    <3>. QED
      BY <3>1, ZenonT(30)
  <2>. QED
    BY <2>1, <1>1, <1>2, <1>3, SetFacts DEF PcInv
<1>7. cpu = Boot /\ Boot \in Stacks /\ current = Boot /\ schedule_locked = FALSE
      /\ irq_depth = 0 /\ next_thread_id = 1
  BY SetFacts DEF Init
<1>8. IrqInv
  BY <1>1, <1>7, Zenon DEF IrqInv
<1>9. LockInv
  <2>1. (pc[thr(cpu)] \in LockedPcs \/ pc[irq(cpu)] \in LockedPcs) = FALSE
    BY <1>1, <1>3, <1>7
  <2>2. schedule_locked = (pc[thr(cpu)] \in LockedPcs \/ pc[irq(cpu)] \in LockedPcs)
    BY <2>1, <1>7, ZenonT(30)
  <2>. QED
    BY <2>2, <1>1, <1>3, <1>7, ZenonT(60) DEF LockInv
<1>10. CurrentInv
  BY <1>1, <1>3, <1>7, ZenonT(30) DEF CurrentInv
<1>11. \A t \in Threads : /\ state[t] = "NONE" /\ wait_queue[t] = NoQueue
                          /\ wake_in[t] = Cleared
  BY ZenonT(30) DEF Init
<1>12. BootInv
  <2>1. \A t \in Threads : t >= next_thread_id
    BY <1>7, SMTT(60) DEF Threads
  <2>. QED
    BY <2>1, <1>1, <1>3, <1>7, <1>11, ZenonT(60) DEF BootInv
<1>13. RunningInv
  BY <1>1, <1>3, <1>7, <1>11, ZenonT(60) DEF RunningInv
<1>14. StateInv
  <2>1. \A c \in Ctx : reap_list[c] = {}
    BY Zenon DEF Init
  <2>2. queued = {} /\ freed = {}
    BY ZenonT(60) DEF Init
  <2>. QED
    BY <2>1, <2>2, <1>2, <1>7, <1>11, SetFacts, ZenonT(30) DEF StateInv
<1>15. QueueInv
  <2>1. \A q \in Queues : waiters[q] = <<>> /\ Members(q) = {}
    BY DEF Init, Members
  <2>2. \A t \in Threads : ~InWait(t)
    BY <1>2, <1>3, ZenonT(30) DEF InWait, thr
  <2>. QED
    BY <2>1, <2>2, <1>11, SchedAssumption, SMTT(60), Z3T(60) DEF QueueInv
<1>. QED
  BY <1>4, <1>5, <1>6, <1>8, <1>9, <1>10, <1>12, <1>13, <1>14, <1>15, ZenonT(60)
     DEF IInv, UpInv, ControlInv

(* A step that changes nothing keeps the invariant.                        *)
LEMMA StutterIInv ==
  ASSUME IInv, UNCHANGED vars
  PROVE  IInv'
<1>1. /\ UNCHANGED <<state, wake_in, queued, next_thread_id, freed, wait_queue, waiters, cond,
                     current, schedule_locked, need_resched, cpu, iflag, inirq,
                        irq_depth, pc,
                     ret, prev, next, head, reap_list, target, left, expired, fault>>
  BY ZenonT(60)
     DEF vars, threadVars, waitVars, schedVars, cpuVars, callVars, localVars, argVars
<1>2. TypeOK' /\ AssertionsHold' /\ (Up' <=> Up)
  BY <1>1 DEF IInv, TypeOK, AssertionsHold, Up
<1>3. ASSUME Up PROVE UpInv'
  <2>1. UpInv
    BY <1>3, Zenon DEF IInv
  <2>2. ControlInv'
    BY <2>1, <1>1, ZenonT(60) DEF UpInv, ControlInv, PcInv, IrqInv, LockInv, CurrentInv
  <2>3. BootInv' /\ RunningInv' /\ StateInv'
    BY <2>1, <1>1, ZenonT(60) DEF UpInv, BootInv, RunningInv, StateInv
  <2>4. /\ \A q \in Queues : Members(q)' = Members(q)
        /\ \A t : InWait(t)' <=> InWait(t)
        /\ \A t, x : BlockedAt(t, x)' <=> BlockedAt(t, x)
    BY <1>1, ZenonT(30) DEF Members, InWait, BlockedAt
  <2>5. QueueInv'
    <3>1. QueueInv
      BY <2>1, ZenonT(30) DEF UpInv
    <3>2. UNCHANGED <<wait_queue, waiters, target, state, cond>>
      BY <1>1, ZenonT(30)
    <3>. QED
      BY <3>1, <3>2, <2>4, SMTT(60) DEF QueueInv
  <2>. QED
    BY <2>2, <2>3, <2>5 DEF UpInv
<1>. QED
  BY <1>2, <1>3 DEF IInv
====
