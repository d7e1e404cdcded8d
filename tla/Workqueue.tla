------------------------------ MODULE Workqueue ------------------------------
(***************************************************************************)
(* kernel/workqueue.c: one global list of work items, and one worker       *)
(* thread that runs their functions.  queue_work() is called by interrupt  *)
(* handlers and threads at any moment between two critical sections of the *)
(* worker; every critical section is under the spinlock of the wait queue, *)
(* with interrupts off, so each is one step.  wait_queue_wait() is         *)
(* modelled by what Sched shows of it: the worker is on the queue exactly  *)
(* while it is asleep, and re-checks the condition when it was woken.      *)
(***************************************************************************)
EXTENDS Naturals, Sequences

CONSTANTS
  Works,        \* the work items, owned by their callers
  Selftest,     \* workqueue_selftest_work
  NoWork

ASSUME SelftestAssumption == Selftest \in Works /\ NoWork \notin Works

VARIABLES
  list,         \* head to tail
  pending,      \* the items whose pending flag is set
  worker,       \* where workqueue_thread() is
  work,         \* the item whose function runs
  requested     \* history: items queue_work() was called for since their last run

wqVars == <<list, pending, worker, work, requested>>

WorkerPcs == {"none", "wait", "asleep", "pop", "run"}

(* workqueue_init().                                                       *)
WqInit ==
  /\ list = <<>>
  /\ pending = {}
  /\ worker = "none"
  /\ work = NoWork
  /\ requested = {}

(* wait_queue_wake_one_locked() on the worker's queue.                     *)
Woken(pc) == IF pc = "asleep" THEN "wait" ELSE pc

(* Mutant: the worker is not woken.                                        *)
queue_work_no_wake(w) ==
  /\ requested' = requested \cup {w}
  /\ \/ w \in pending /\ UNCHANGED <<list, pending, worker>>
     \/ /\ w \notin pending
        /\ list' = Append(list, w)
        /\ pending' = pending \cup {w}
        /\ UNCHANGED worker

(* queue_work(): -EBUSY for an item that is on the list, else append it    *)
(* and wake the worker.                                                    *)
queue_work(w) ==
  /\ requested' = requested \cup {w}
  /\ \/ w \in pending /\ UNCHANGED <<list, pending, worker>>
     \/ /\ w \notin pending
        /\ list' = Append(list, w)
        /\ pending' = pending \cup {w}
        /\ worker' = Woken(worker)

(* workqueue_start(): the thread is created, then the selftest is queued,  *)
(* which nothing else queues.                                              *)
workqueue_start ==
  /\ worker = "none"
  /\ requested' = requested \cup {Selftest}
  /\ list' = Append(list, Selftest)
  /\ pending' = pending \cup {Selftest}
  /\ worker' = "wait"
  /\ UNCHANGED work

(* workqueue_thread(): wait_queue_wait() for workqueue_has_work().         *)
WorkerWait ==
  /\ worker = "wait"
  /\ worker' = IF list # <<>> THEN "pop" ELSE "asleep"
  /\ UNCHANGED <<list, pending, work, requested>>

(* Mutant: pending is only cleared when the function has returned.         *)
workqueue_pop_keeps_pending ==
  /\ worker = "pop"
  /\ \/ /\ list = <<>>
        /\ worker' = "wait"
        /\ UNCHANGED <<list, pending, work, requested>>
     \/ /\ list # <<>>
        /\ work' = Head(list)
        /\ list' = Tail(list)
        /\ requested' = requested \ {Head(list)}
        /\ worker' = "run"
        /\ UNCHANGED pending

(* workqueue_pop(): the item may be queued again from here on, also while  *)
(* its function runs.                                                      *)
workqueue_pop ==
  /\ worker = "pop"
  /\ \/ /\ list = <<>>
        /\ worker' = "wait"
        /\ UNCHANGED <<list, pending, work, requested>>
     \/ /\ list # <<>>
        /\ work' = Head(list)
        /\ list' = Tail(list)
        /\ pending' = pending \ {Head(list)}
        /\ requested' = requested \ {Head(list)}
        /\ worker' = "run"

(* Mutant: the finished item is still taken for the running one.           *)
FuncReturnsStale ==
  /\ worker = "run"
  /\ worker' = "pop"
  /\ UNCHANGED <<list, pending, requested, work>>

(* work->func(work) has returned.                                          *)
FuncReturns ==
  /\ worker = "run"
  /\ worker' = "pop"
  /\ work' = NoWork
  /\ UNCHANGED <<list, pending, requested>>

WqNext ==
  \/ \E w \in Works \ {Selftest} : queue_work(w) /\ UNCHANGED work
  \/ workqueue_start
  \/ WorkerWait
  \/ workqueue_pop
  \/ FuncReturns

WqSpec == WqInit /\ [][WqNext]_wqVars

-----------------------------------------------------------------------------
(* The list holds work items, and workqueue_thread() has one in hand       *)
(* exactly while its function runs.                                        *)
WqTypeOK ==
  /\ list \in Seq(Works)
  /\ pending \subseteq Works
  /\ worker \in WorkerPcs
  /\ work \in Works \cup {NoWork}
  /\ work # NoWork <=> worker = "run"
  /\ requested \subseteq Works

(* pending says exactly whether the item is on the list, and no item is on *)
(* it twice: a second link of one item would cut off the items behind it   *)
(* (queue_work() sets next to NULL).                                       *)
PendingExact ==
  /\ pending = {list[i] : i \in DOMAIN list}
  /\ \A i, j \in DOMAIN list : list[i] = list[j] => i = j

(* A request not yet served, also one answered -EBUSY, has its item on the *)
(* list, and the worker does not sleep while the list has one.             *)
NoStrandedWork ==
  /\ requested \subseteq {list[i] : i \in DOMAIN list}
  /\ list # <<>> => worker # "asleep"
====
