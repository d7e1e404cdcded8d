---------------------------- MODULE BoundedFifo ----------------------------
(***************************************************************************)
(* What the kernel's three static rings promise to their users (the raw    *)
(* scancodes of drivers/input/keyboard/ps2.c, the events of                *)
(* drivers/input/input.c and the lines of drivers/tty/tty.c): a first-in   *)
(* first-out queue of at most Cap items that refuses, and counts, what     *)
(* does not fit.                                                           *)
(***************************************************************************)
EXTENDS Naturals, Sequences

CONSTANTS
  Items,        \* what a slot holds
  Cap,          \* the capacity of the ring
  NoItem,       \* out before the first read, and after a read of an empty ring
  MaxDropped    \* bound on the drop counter

VARIABLES
  queue,        \* the items, oldest first
  dropped,      \* how many items were refused
  out           \* what the last read returned

vars == <<queue, dropped, out>>

Init == queue = <<>> /\ dropped = 0 /\ out = NoItem

Put(x) ==
  /\ Len(queue) < Cap
  /\ queue' = Append(queue, x)
  /\ UNCHANGED <<dropped, out>>

Drop ==
  /\ Len(queue) = Cap
  /\ dropped < MaxDropped
  /\ dropped' = dropped + 1
  /\ UNCHANGED <<queue, out>>

Get ==
  /\ queue # <<>>
  /\ out' = queue[1]
  /\ queue' = [i \in 1..Len(queue) - 1 |-> queue[i + 1]]
  /\ UNCHANGED dropped

GetEmpty ==
  /\ queue = <<>>
  /\ out' = NoItem
  /\ UNCHANGED <<queue, dropped>>

Next == (\E x \in Items : Put(x)) \/ Drop \/ Get \/ GetEmpty

Spec == Init /\ [][Next]_vars
====
