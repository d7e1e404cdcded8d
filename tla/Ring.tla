-------------------------------- MODULE Ring --------------------------------
(***************************************************************************)
(* The ring the kernel writes three times: a static array, the indices     *)
(* head (next to read) and tail (next to write), the number of items and a *)
(* drop counter.  The names are those of drivers/input/input.c; ps2.c and  *)
(* tty.c differ in the type of the slot only.  Every operation runs under  *)
(* the ring's spinlock with interrupts off, so it is one step.             *)
(***************************************************************************)
EXTENDS Naturals, Sequences

CONSTANTS
  Items,        \* what a slot holds
  Cap,          \* INPUT_QUEUE_CAPACITY
  NoItem,       \* what a reader gets from an empty ring (-EAGAIN)
  MaxDropped    \* bound on the drop counter

ASSUME RingCap == Cap \in Nat \ {0}
ASSUME RingDropped == MaxDropped \in Nat
ASSUME NoItemFresh == NoItem \notin Items

VARIABLES
  events, head, tail, count, dropped,
  out           \* what the last read returned

vars == <<events, head, tail, count, dropped, out>>

Slots == 0..Cap - 1

(* input_init().  The array holds what it held.                            *)
Init ==
  /\ events \in [Slots -> Items]
  /\ head = 0
  /\ tail = 0
  /\ count = 0
  /\ dropped = 0
  /\ out = NoItem

(* input_report_event() with a free slot.                                  *)
Put(x) ==
  /\ count < Cap
  /\ events' = [events EXCEPT ![tail] = x]
  /\ tail' = (tail + 1) % Cap
  /\ count' = count + 1
  /\ UNCHANGED <<head, dropped, out>>

(* input_report_event() when the ring is full.                             *)
Drop ==
  /\ count >= Cap
  /\ dropped < MaxDropped
  /\ dropped' = dropped + 1
  /\ UNCHANGED <<events, head, tail, count, out>>

(* input_pop_locked().                                                     *)
Get ==
  /\ count # 0
  /\ out' = events[head]
  /\ head' = (head + 1) % Cap
  /\ count' = count - 1
  /\ UNCHANGED <<events, tail, dropped>>

GetEmpty ==
  /\ count = 0
  /\ out' = NoItem
  /\ UNCHANGED <<events, head, tail, count, dropped>>

Next == (\E x \in Items : Put(x)) \/ Drop \/ Get \/ GetEmpty

Spec == Init /\ [][Next]_vars

-----------------------------------------------------------------------------
(* The slot i places after slot h, and the items oldest first.             *)
Slot(h, i) == IF h + i < Cap THEN h + i ELSE h + i - Cap

Contents == [i \in 1..count |-> events[Slot(head, i - 1)]]

Fifo == INSTANCE BoundedFifo WITH queue <- Contents

(* The indices stay in the array, the count in 0..Cap, and the tail is     *)
(* count places after the head: input_pop_locked() and input_report_event() *)
(* each move one index and the count.                                      *)
RingInv ==
  /\ events \in [Slots -> Items]
  /\ head \in Slots
  /\ tail \in Slots
  /\ count \in 0..Cap
  /\ dropped \in 0..MaxDropped
  /\ out \in Items \cup {NoItem}
  /\ tail = Slot(head, count)

(* The rings are bounded FIFO queues: readers get the items in the order   *)
(* they were accepted, each once, and an item is refused only when Cap     *)
(* items are waiting.                                                      *)
IsFifo == Fifo!Spec
====
