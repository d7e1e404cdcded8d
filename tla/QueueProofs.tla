---------------------------- MODULE QueueProofs -----------------------------
(***************************************************************************)
(* Proofs about the two queues of the input path, for every set of items.  *)
(*                                                                         *)
(* The ring is a bounded FIFO queue: RingInv ties tail to head and count,  *)
(* so the slot Put() writes is the one after the last item of Contents and *)
(* no other item of Contents is in it; Get() moves every item one place    *)
(* forward.                                                                *)
(*                                                                         *)
(* The workqueue loses no request.  Its three properties are inductive     *)
(* together: that queue_work() links no item twice rests on pending being  *)
(* exact, and that the worker does not sleep on a request rests on where   *)
(* its item is.                                                            *)
(***************************************************************************)
EXTENDS Ring, Workqueue, TLAPS

(* (i + 1) % Cap, the only use of % in the rings, is the next slot or 0.   *)
LEMMA NextSlot ==
  ASSUME NEW i \in Slots
  PROVE  (i + 1) % Cap = IF i + 1 = Cap THEN 0 ELSE i + 1
<1>1. i \in Nat /\ i < Cap /\ Cap \in Nat /\ Cap > 0
  BY RingCap DEF Slots
<1>2. CASE i + 1 = Cap
  <2>1. Cap % Cap = 0
    BY <1>1, SMTT(20)
  <2> QED BY <1>1, <1>2, <2>1
<1>3. CASE i + 1 # Cap
  <2>1. i + 1 < Cap
    BY <1>1, <1>3
  <2>2. (i + 1) % Cap = i + 1
    BY <1>1, <2>1, SMTT(20)
  <2> QED BY <1>3, <2>2
<1> QED BY <1>2, <1>3

(* Every operation keeps the indices in the array and the tail count       *)
(* places after the head (input_report_event(), input_pop_locked()). *)
LEMMA RingInvStep ==
  ASSUME RingInv, [Next]_vars
  PROVE  RingInv'
<1> USE RingCap, RingDropped DEF RingInv, Slots, Slot
<1>1. ASSUME NEW x \in Items, Put(x) PROVE RingInv'
  <2>1. tail' = IF tail + 1 = Cap THEN 0 ELSE tail + 1
    BY <1>1, NextSlot DEF Put
  <2> QED BY <1>1, <2>1 DEF Put
<1>2. CASE Drop
  BY <1>2 DEF Drop
<1>3. CASE Get
  <2>1. head' = IF head + 1 = Cap THEN 0 ELSE head + 1
    BY <1>3, NextSlot DEF Get
  <2> QED BY <1>3, <2>1 DEF Get
<1>4. CASE GetEmpty
  BY <1>4 DEF GetEmpty
<1>5. CASE UNCHANGED vars
  BY <1>5 DEF vars
<1> QED BY <1>1, <1>2, <1>3, <1>4, <1>5 DEF Next

(* RingInv is an invariant of the rings.                                   *)
THEOREM RingInvariant == Spec => []RingInv
<1>1. Init => RingInv
  BY RingCap, RingDropped DEF Init, RingInv, Slots, Slot
<1>2. RingInv /\ [Next]_vars => RingInv'
  BY RingInvStep
<1> QED BY <1>1, <1>2, PTL DEF Spec

(* The items of a ring are a sequence as long as the count.                *)
LEMMA ContentsSeq ==
  ASSUME RingInv
  PROVE  /\ Contents \in Seq(Items)
         /\ Len(Contents) = count
         /\ Contents = <<>> <=> count = 0
<1>1. \A i \in 1..count : Slot(head, i - 1) \in Slots
  BY RingCap DEF RingInv, Slots, Slot
<1>2. \A i \in 1..count : events[Slot(head, i - 1)] \in Items
  BY <1>1 DEF RingInv
<1>3. count \in Nat
  BY RingCap DEF RingInv
<1> QED BY <1>2, <1>3 DEF Contents

(* Append() element by element.                                            *)
LEMMA AppendElements ==
  ASSUME NEW S, NEW s \in Seq(S), NEW x \in S, NEW n \in Nat, Len(s) = n
  PROVE  Append(s, x) = [i \in 1..n + 1 |-> IF i = n + 1 THEN x ELSE s[i]]
<1> DEFINE f == [i \in 1..n + 1 |-> IF i = n + 1 THEN x ELSE s[i]]
<1>1. f \in Seq(S) /\ Len(f) = n + 1
  OBVIOUS
<1>2. Append(s, x) \in Seq(S) /\ Len(Append(s, x)) = n + 1
  OBVIOUS
<1>3. \A i \in 1..n + 1 : Append(s, x)[i] = f[i]
  OBVIOUS
<1> HIDE DEF f
<1>4. Append(s, x) = f
  BY <1>1, <1>2, <1>3
<1> QED BY <1>4 DEF f

(* A step of a ring is a step of the queue: the slot input_report_event()  *)
(* writes is the place after the last item, input_pop_locked()       *)
(* returns the oldest.                                                     *)
LEMMA RingStepSimulation ==
  ASSUME RingInv, [Next]_vars
  PROVE  [Fifo!Next]_(Fifo!vars)
<1>0. /\ Cap \in Nat /\ Cap > 0
      /\ head \in Nat /\ head < Cap
      /\ count \in Nat /\ count <= Cap
      /\ events \in [Slots -> Items]
      /\ head \in Slots /\ tail \in Slots
      /\ tail = Slot(head, count)
  BY RingCap DEF RingInv, Slots
<1>1. ASSUME NEW x \in Items, Put(x) PROVE Fifo!Put(x)
  <2>1. Contents \in Seq(Items) /\ Len(Contents) = count /\ Len(Contents) < Cap
    BY <1>1, ContentsSeq DEF Put
  <2>2. /\ head' = head
        /\ count' = count + 1
        /\ events' = [events EXCEPT ![tail] = x]
        /\ count < Cap
    BY <1>1 DEF Put
  <2>3. \A i \in 1..count :
          Slot(head, i - 1) # tail /\ Slot(head, i - 1) \in Slots
    BY <1>0, <2>2 DEF Slot, Slots
  <2>4. Contents' = [i \in 1..count + 1 |-> events'[Slot(head, i - 1)]]
    BY <2>2 DEF Contents
  <2>5. \A i \in 1..count + 1 :
          events'[Slot(head, i - 1)] = IF i = count + 1 THEN x ELSE Contents[i]
    <3> TAKE i \in 1..count + 1
    <3>1. CASE i = count + 1
      <4>1. i - 1 = count
        BY <3>1, <1>0
      <4>2. events'[tail] = x
        BY <2>2, <1>0
      <4> QED BY <3>1, <4>1, <4>2, <1>0
    <3>2. CASE i # count + 1
      <4>1. i \in 1..count
        BY <3>2, <1>0
      <4>2. Contents[i] = events[Slot(head, i - 1)]
        BY <4>1 DEF Contents
      <4>3. events'[Slot(head, i - 1)] = events[Slot(head, i - 1)]
        BY <4>1, <2>2, <2>3, <1>0
      <4> QED BY <3>2, <4>2, <4>3
    <3> QED BY <3>1, <3>2
  <2>6. Append(Contents, x) =
          [i \in 1..count + 1 |-> IF i = count + 1 THEN x ELSE Contents[i]]
    BY <2>1, <1>0, AppendElements
  <2>7. Contents' = Append(Contents, x)
    BY <2>4, <2>5, <2>6, Zenon
  <2> QED BY <1>1, <2>1, <2>7 DEF Put, Fifo!Put
<1>2. ASSUME Drop PROVE Fifo!Drop
  <2>1. Len(Contents) = Cap
    BY <1>0, <1>2, ContentsSeq DEF Drop
  <2>2. Contents' = Contents
    BY <1>2 DEF Drop, Contents
  <2> QED BY <1>2, <2>1, <2>2 DEF Drop, Fifo!Drop
<1>3. ASSUME Get PROVE Fifo!Get
  <2>1. Contents # <<>> /\ Len(Contents) = count /\ count >= 1
    BY <1>0, <1>3, ContentsSeq DEF Get
  <2>2. /\ head' = IF head + 1 = Cap THEN 0 ELSE head + 1
        /\ count' = count - 1
        /\ events' = events
        /\ out' = events[head]
        /\ dropped' = dropped
    BY <1>0, <1>3, NextSlot DEF Get
  <2>3. out' = Contents[1]
    <3>1. Slot(head, 1 - 1) = head
      BY <1>0 DEF Slot
    <3>2. 1 \in 1..count
      BY <1>0, <2>1
    <3>3. Contents[1] = events[Slot(head, 1 - 1)]
      BY <3>2 DEF Contents
    <3> QED BY <2>2, <3>1, <3>3
  <2>4. \A i \in 1..count - 1 : Slot(head', i - 1) = Slot(head, i)
    BY <1>0, <2>1, <2>2 DEF Slot
  <2>5. \A i \in 1..count - 1 : Contents[i + 1] = events[Slot(head, i)]
    <3> TAKE i \in 1..count - 1
    <3>1. i + 1 \in 1..count /\ (i + 1) - 1 = i
      BY <1>0
    <3>2. Contents[i + 1] = events[Slot(head, (i + 1) - 1)]
      BY <3>1 DEF Contents
    <3> QED BY <3>1, <3>2
  <2>6. Contents' = [i \in 1..count - 1 |-> events[Slot(head', i - 1)]]
    BY <2>2 DEF Contents
  <2>7. Contents' = [i \in 1..count - 1 |-> Contents[i + 1]]
    BY <2>4, <2>5, <2>6, Zenon
  <2> QED BY <2>1, <2>2, <2>3, <2>7 DEF Fifo!Get
<1>4. ASSUME GetEmpty PROVE Fifo!GetEmpty
  <2>1. Contents = <<>>
    BY <1>4, ContentsSeq DEF GetEmpty
  <2>2. Contents' = Contents
    BY <1>4 DEF GetEmpty, Contents
  <2> QED BY <1>4, <2>1, <2>2 DEF GetEmpty, Fifo!GetEmpty
<1>5. CASE UNCHANGED vars
  <2>1. Contents' = Contents
    BY <1>5 DEF vars, Contents
  <2> QED BY <1>5, <2>1 DEF vars, Fifo!vars
<1> QED BY <1>1, <1>2, <1>3, <1>4, <1>5 DEF Next, Fifo!Next

(* The rings of the input path implement a bounded FIFO queue.             *)
THEOREM RingIsFifo == Spec => IsFifo
<1>1. Init => Fifo!Init
  <2> SUFFICES ASSUME Init PROVE Fifo!Init
    OBVIOUS
  <2>1. RingInv
    BY RingCap, RingDropped DEF Init, RingInv, Slots, Slot
  <2>2. Contents = <<>>
    BY <2>1, ContentsSeq DEF Init
  <2> QED BY <2>2 DEF Init, Fifo!Init
<1>2. RingInv /\ [Next]_vars => [Fifo!Next]_(Fifo!vars)
  BY RingStepSimulation
<1> QED BY <1>1, <1>2, RingInvariant, PTL DEF Spec, IsFifo, Fifo!Spec

-----------------------------------------------------------------------------
WqInv == WqTypeOK /\ PendingExact /\ NoStrandedWork

(* What Append() does to the elements of a list, as queue_work() links an  *)
(* item at the tail.                                                       *)
LEMMA AppendItem ==
  ASSUME NEW s \in Seq(Works), NEW w \in Works
  PROVE  /\ Append(s, w) \in Seq(Works)
         /\ Append(s, w) # <<>>
         /\ {Append(s, w)[i] : i \in DOMAIN Append(s, w)} =
              {s[i] : i \in DOMAIN s} \cup {w}
         /\ w \notin {s[i] : i \in DOMAIN s} /\ (\A i, j \in DOMAIN s : s[i] = s[j] => i = j)
              => \A i, j \in DOMAIN Append(s, w) :
                   Append(s, w)[i] = Append(s, w)[j] => i = j
<1> DEFINE t == Append(s, w)
<1>1. t \in Seq(Works) /\ Len(t) = Len(s) + 1 /\ DOMAIN t = 1..Len(s) + 1
      /\ DOMAIN s = 1..Len(s) /\ Len(s) \in Nat
  OBVIOUS
<1>2. t[Len(s) + 1] = w /\ \A i \in DOMAIN s : t[i] = s[i]
  OBVIOUS
<1>3. t # <<>>
  BY <1>1
<1>4. {t[i] : i \in DOMAIN t} = {s[i] : i \in DOMAIN s} \cup {w}
  BY <1>1, <1>2
<1>5. ASSUME w \notin {s[i] : i \in DOMAIN s},
             \A i, j \in DOMAIN s : s[i] = s[j] => i = j
      PROVE  \A i, j \in DOMAIN t : t[i] = t[j] => i = j
  <2> TAKE i, j \in DOMAIN t
  <2>1. CASE i \in DOMAIN s /\ j \in DOMAIN s
    BY <2>1, <1>2, <1>5
  <2>2. CASE i = Len(s) + 1 /\ j \in DOMAIN s
    BY <2>2, <1>2, <1>5
  <2>3. CASE j = Len(s) + 1 /\ i \in DOMAIN s
    BY <2>3, <1>2, <1>5
  <2>4. CASE i = Len(s) + 1 /\ j = Len(s) + 1
    BY <2>4
  <2> QED
    BY <2>1, <2>2, <2>3, <2>4, <1>1
<1> QED
  BY <1>1, <1>3, <1>4, <1>5

(* What Tail() does to them, as workqueue_pop() unlinks the head.          *)
LEMMA UnlinkHead ==
  ASSUME NEW s \in Seq(Works), s # <<>>,
         \A i, j \in DOMAIN s : s[i] = s[j] => i = j
  PROVE  /\ Tail(s) \in Seq(Works) /\ Head(s) \in Works
         /\ {Tail(s)[i] : i \in DOMAIN Tail(s)} = {s[i] : i \in DOMAIN s} \ {Head(s)}
         /\ \A i, j \in DOMAIN Tail(s) : Tail(s)[i] = Tail(s)[j] => i = j
<1> DEFINE t == Tail(s)
<1>1. t \in Seq(Works) /\ Len(s) \in Nat \ {0} /\ DOMAIN t = 1..Len(s) - 1 /\ DOMAIN s = 1..Len(s)
  OBVIOUS
<1>2. s[1] \in Works /\ Head(s) = s[1] /\ \A i \in DOMAIN t : t[i] = s[i + 1] /\ i + 1 \in DOMAIN s
  BY <1>1
<1>3. \A i \in DOMAIN s : s[i] # Head(s) => i - 1 \in DOMAIN t /\ t[i - 1] = s[i]
  BY <1>1, <1>2
<1>4. \A i \in DOMAIN t : t[i] # Head(s)
  BY <1>1, <1>2
<1>5. {t[i] : i \in DOMAIN t} = {s[i] : i \in DOMAIN s} \ {Head(s)}
  <2>1. ASSUME NEW i \in DOMAIN t PROVE t[i] \in {s[k] : k \in DOMAIN s} \ {Head(s)}
    BY <1>2, <1>4
  <2>2. ASSUME NEW i \in DOMAIN s, s[i] # Head(s) PROVE s[i] \in {t[k] : k \in DOMAIN t}
    BY <2>2, <1>3, ZenonT(60)
  <2> QED
    BY <2>1, <2>2
<1>6. \A i, j \in DOMAIN t : t[i] = t[j] => i = j
  BY <1>1, <1>2
<1> QED
  BY <1>1, <1>2, <1>5, <1>6, ZenonT(60)

(* queue_work() preserves the invariant, whoever calls it and when.        *)
LEMMA QueueWorkStep ==
  ASSUME WqInv, NEW w \in Works, queue_work(w), UNCHANGED work
  PROVE  WqInv'
<1>1. CASE w \in pending
  <2>1. UNCHANGED <<list, pending, worker, work>> /\ requested' = requested \cup {w}
    BY <1>1 DEF queue_work
  <2> QED
    BY <1>1, <2>1 DEF WqInv, WqTypeOK, PendingExact, NoStrandedWork, WorkerPcs
<1>2. CASE w \notin pending
  <2>1. /\ list' = Append(list, w) /\ pending' = pending \cup {w}
        /\ worker' = Woken(worker) /\ requested' = requested \cup {w}
    BY <1>2 DEF queue_work
  <2>2. /\ list' \in Seq(Works) /\ list' # <<>>
        /\ {list'[i] : i \in DOMAIN list'} = {list[i] : i \in DOMAIN list} \cup {w}
        /\ \A i, j \in DOMAIN list' : list'[i] = list'[j] => i = j
    BY <1>2, <2>1, AppendItem DEF WqInv, WqTypeOK, PendingExact
  <2>3. worker' \in WorkerPcs \ {"asleep"} /\ (worker' = "run" <=> worker = "run")
    BY <2>1 DEF WqInv, WqTypeOK, WorkerPcs, Woken
  <2>4. WqTypeOK'
    BY <2>1, <2>2, <2>3 DEF WqInv, WqTypeOK
  <2>5. PendingExact'
    BY <2>1, <2>2 DEF WqInv, PendingExact
  <2>6. NoStrandedWork'
    BY <2>1, <2>2, <2>3 DEF WqInv, NoStrandedWork
  <2> QED
    BY <2>4, <2>5, <2>6 DEF WqInv
<1> QED
  BY <1>1, <1>2

(* So does workqueue_pop(), which clears pending and unlinks in one locked *)
(* section.                                                                *)
LEMMA PopStep ==
  ASSUME WqInv, workqueue_pop
  PROVE  WqInv'
<1>1. CASE list = <<>>
  <2>1. worker = "pop" /\ worker' = "wait" /\ UNCHANGED <<list, pending, work, requested>>
    BY <1>1 DEF workqueue_pop
  <2> QED
    BY <2>1 DEF WqInv, WqTypeOK, PendingExact, NoStrandedWork, WorkerPcs
<1>2. CASE list # <<>>
  <2>1. /\ worker = "pop" /\ worker' = "run" /\ work' = Head(list) /\ list' = Tail(list)
        /\ pending' = pending \ {Head(list)} /\ requested' = requested \ {Head(list)}
    BY <1>2 DEF workqueue_pop
  <2>2. /\ list' \in Seq(Works) /\ work' \in Works
        /\ {list'[i] : i \in DOMAIN list'} = {list[i] : i \in DOMAIN list} \ {Head(list)}
        /\ \A i, j \in DOMAIN list' : list'[i] = list'[j] => i = j
    BY <1>2, <2>1, UnlinkHead, ZenonT(60) DEF WqInv, WqTypeOK, PendingExact
  <2>3. WqTypeOK'
    BY <2>1, <2>2, SelftestAssumption DEF WqInv, WqTypeOK, WorkerPcs
  <2>4. PendingExact'
    BY <2>1, <2>2 DEF WqInv, PendingExact
  <2>5. NoStrandedWork'
    BY <2>1, <2>2 DEF WqInv, NoStrandedWork
  <2> QED
    BY <2>3, <2>4, <2>5 DEF WqInv
<1> QED
  BY <1>1, <1>2

(* Boot queues the selftest item itself, which nobody has queued before:   *)
(* the worker exists only from here on.                                    *)
BeforeStart == worker = "none" => Selftest \notin pending

(* No request is lost: in every reachable state pending is exact, and a    *)
(* request not yet served has its item on the list of a worker that is     *)
(* awake, for every set of work items and every interleaving of            *)
(* queue_work() with workqueue_thread().                                   *)
THEOREM NoRequestLost == WqSpec => [](WqTypeOK /\ PendingExact /\ NoStrandedWork)
<1> DEFINE Inv == WqInv /\ BeforeStart
<1>1. WqInit => Inv
  <2> SUFFICES ASSUME WqInit PROVE Inv
    OBVIOUS
  <2>1. list = <<>> /\ DOMAIN list = {} /\ list \in Seq(Works)
    BY DEF WqInit
  <2> QED
    BY <2>1
       DEF WqInit, WqInv, WqTypeOK, PendingExact, NoStrandedWork, WorkerPcs, BeforeStart
<1>2. Inv /\ [WqNext]_wqVars => Inv'
  <2> SUFFICES ASSUME Inv, [WqNext]_wqVars PROVE Inv'
    OBVIOUS
  <2>1. ASSUME NEW w \in Works \ {Selftest}, queue_work(w), UNCHANGED work
        PROVE  Inv'
    <3>1. WqInv'
      BY <2>1, QueueWorkStep
    <3>2. worker' = "none" => worker = "none"
      BY <2>1 DEF queue_work, Woken
    <3>3. pending' \subseteq pending \cup {w}
      BY <2>1 DEF queue_work
    <3> QED
      BY <2>1, <3>1, <3>2, <3>3 DEF BeforeStart
  <2>2. CASE workqueue_start
    <3>1. /\ worker = "none" /\ worker' = "wait" /\ work' = work
          /\ list' = Append(list, Selftest) /\ pending' = pending \cup {Selftest}
          /\ requested' = requested \cup {Selftest}
      BY <2>2 DEF workqueue_start
    <3>2. Selftest \in Works /\ Selftest \notin pending
      BY <3>1, SelftestAssumption DEF BeforeStart
    <3>3. /\ list' \in Seq(Works) /\ list' # <<>>
          /\ {list'[i] : i \in DOMAIN list'} = {list[i] : i \in DOMAIN list} \cup {Selftest}
          /\ \A i, j \in DOMAIN list' : list'[i] = list'[j] => i = j
      BY <3>1, <3>2, AppendItem DEF WqInv, WqTypeOK, PendingExact
    <3> QED
      BY <3>1, <3>2, <3>3
         DEF WqInv, WqTypeOK, PendingExact, NoStrandedWork, WorkerPcs, BeforeStart
  <2>3. CASE WorkerWait
    <3>1. /\ worker = "wait" /\ worker' \in {"pop", "asleep"}
          /\ worker' = "asleep" => list = <<>>
          /\ UNCHANGED <<list, pending, work, requested>>
      BY <2>3 DEF WorkerWait
    <3> QED
      BY <3>1 DEF WqInv, WqTypeOK, PendingExact, NoStrandedWork, WorkerPcs, BeforeStart
  <2>4. CASE workqueue_pop
    <3>1. WqInv'
      BY <2>4, PopStep
    <3>2. worker' # "none"
      BY <2>4 DEF workqueue_pop
    <3> QED
      BY <3>1, <3>2 DEF BeforeStart
  <2>5. CASE FuncReturns
    <3>1. worker = "run" /\ worker' = "pop" /\ work' = NoWork /\ UNCHANGED <<list, pending, requested>>
      BY <2>5 DEF FuncReturns
    <3> QED
      BY <3>1, SelftestAssumption
      DEF WqInv, WqTypeOK, PendingExact, NoStrandedWork, WorkerPcs, BeforeStart
  <2>6. CASE UNCHANGED wqVars
    <3>1. UNCHANGED <<list, pending, worker, work, requested>>
      BY <2>6 DEF wqVars
    <3> QED
      BY <3>1 DEF WqInv, WqTypeOK, PendingExact, NoStrandedWork, BeforeStart
  <2> QED
    BY <2>1, <2>2, <2>3, <2>4, <2>5, <2>6 DEF WqNext
<1>3. Inv => WqTypeOK /\ PendingExact /\ NoStrandedWork
  BY DEF WqInv
<1> QED
  BY <1>1, <1>2, <1>3, PTL DEF WqSpec
====
