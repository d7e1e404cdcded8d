--------------------------------- MODULE Irq ---------------------------------
(***************************************************************************)
(* Interrupts and the critical sections they must not enter:               *)
(* arch/x86/kernel/irq.c (PIC, IF, dispatch, EOI), the entry and exit of   *)
(* exception_entry.S (with Traps), kernel/locking/spinlock.c, and the      *)
(* operations of a ring, store by store, in threads and in the keyboard    *)
(* interrupt.                                                              *)
(*                                                                         *)
(* mem is the ring in memory.  The variables of Ring are the ring as those *)
(* who take the lock find it: they get the values of mem when the lock is  *)
(* released.  Which thread runs next is left open (see Sched).             *)
(***************************************************************************)
EXTENDS Ring, Traps, FiniteSets

CONSTANTS
  Threads,
  Boot,         \* the context kernel_main() runs in
  MaxNest       \* bound on the trap frames on one stack

Contexts == Threads \cup {Boot}

ASSUME IrqAssumption == Threads # {} /\ Boot \notin Threads /\ MaxNest \in Nat \ {0}

VARIABLES
  mem,          \* the ring: events, head, tail, count, dropped
  locked, spinlock_depth,
  iflag,        \* RFLAGS.IF
  irr, isr, imr, base,  \* the PIC: requested, in service, masked, first vector
  data,         \* the byte in the keyboard controller, or NoItem
  early,        \* history: a byte was there when the PIC was initialised
  idt,          \* load_idt() is done
  irq_actions,  \* the lines with a handler
  started,      \* sched_start() is done
  cur, act,     \* the running context, and the activations on each stack
  reg,          \* who wrote the caller-saved registers: the code that runs ("own"),
                \* or a "handler"
  fault         \* the end of the run: <<reason, vector>>

ringVars == vars
lockVars == <<locked, spinlock_depth>>
picVars  == <<irr, isr, imr, base>>
bootVars == <<idt, irq_actions, started, early>>
irqVars  == <<ringVars, mem, lockVars, iflag, picVars, data, bootVars, cur, act, reg, fault>>

NoFault == <<"none", 0>>
NoIrq == 16

IRQ_TIMER == 0
IRQ_KEYBOARD == 1
OtherIrq == 3     \* a line of the PIC that has no driver
Lines == {IRQ_TIMER, IRQ_KEYBOARD, OtherIrq}

(* An activation: a thread's body, or a handler on top of what it          *)
(* interrupted.  pc, the operation on the ring with its item and flags;    *)
(* of a handler the line, and rflags.IF and the registers of its frame.    *)
Body(p) == [pc |-> p, op |-> "none", item |-> NoItem, flags |-> FALSE,
            line |-> NoIrq, irq |-> NoIrq, rf |-> FALSE, saved |-> "own"]

Top == act[cur][Len(act[cur])]
At(p) == fault = NoFault /\ Top.pc = p
Becomes(a) == act' = [act EXCEPT ![cur][Len(act[cur])] = a]
Goto(p) == Becomes([Top EXCEPT !.pc = p])

(* The CPU comes from the firmware with IF off, and the PIC as the comment *)
(* at pic_remap() says: vectors from 0 on, and nothing is masked.          *)
IrqInit ==
  /\ Init
  /\ mem = [events |-> events, head |-> 0, tail |-> 0, count |-> 0, dropped |-> 0]
  /\ locked = FALSE /\ spinlock_depth = 0
  /\ iflag = FALSE
  /\ irr = {} /\ isr = {} /\ imr = {} /\ base = 0
  /\ data = NoItem /\ early = FALSE
  /\ idt = FALSE /\ irq_actions = {} /\ started = FALSE
  /\ cur = Boot
  /\ act = [c \in Contexts |-> <<Body(IF c = Boot THEN "idt" ELSE "run")>>]
  /\ reg = "own"
  /\ fault = NoFault

-----------------------------------------------------------------------------
(* The devices.                                                            *)

(* Puts under way, so that no more bytes are dropped than MaxDropped.      *)
PutsUnderWay ==
  Cardinality({c \in Contexts : \E i \in DOMAIN act[c] : act[c][i].op = "put"})
    + (IF data = NoItem THEN 0 ELSE 1)
PutAllowed == mem.dropped + PutsUnderWay < MaxDropped

(* The PIT, or a device without a driver, raises its line.  Nothing here   *)
(* unmasks a line again, so that requests of a masked one are left out.    *)
Raise(l) ==
  /\ l \notin irr \cup imr
  /\ irr' = irr \cup {l}
  /\ UNCHANGED <<ringVars, mem, lockVars, iflag, isr, imr, base, data, bootVars, cur, act,
                 reg, fault>>

(* The controller has a byte.  It raises its line once, and keeps the next *)
(* byte back until this one was read.                                      *)
KeyByte(x) ==
  /\ data = NoItem
  /\ PutAllowed
  /\ data' = x
  /\ irr' = irr \cup {IRQ_KEYBOARD}
  /\ UNCHANGED <<ringVars, mem, lockVars, iflag, isr, imr, base, bootVars, cur, act, reg, fault>>

-----------------------------------------------------------------------------
(* The boot of kernel_main(), as far as interrupts go.                     *)

(* arch_traps_init().                                                      *)
arch_traps_init ==
  /\ At("idt")
  /\ idt' = TRUE
  /\ Goto("ps2")
  /\ UNCHANGED <<ringVars, mem, lockVars, iflag, picVars, data, irq_actions, started, early,
                 cur, reg, fault>>

(* irq_register(): -EBUSY, which makes its callers panic, cannot happen.   *)
irq_register(l) ==
  IF l \in irq_actions THEN fault' = <<"registration", 0>> /\ UNCHANGED irq_actions
  ELSE irq_actions' = irq_actions \cup {l} /\ UNCHANGED fault

(* ps2_keyboard_init(): the byte the controller may hold is not read.      *)
ps2_keyboard_init ==
  /\ At("ps2")
  /\ irq_register(IRQ_KEYBOARD)
  /\ Goto("remap")
  /\ UNCHANGED <<ringVars, mem, lockVars, iflag, picVars, data, idt, started, early, cur, reg>>

(* arch_timer_init(): pic_remap().  The first command word resets requests *)
(* and masks, and a line that is up stays unnoticed until it falls.        *)
pic_remap ==
  /\ At("remap")
  /\ base' = X86_LEGACY_IRQ_VECTOR_BASE
  /\ irr' = {} /\ isr' = {} /\ imr' = {}
  /\ early' = (data # NoItem)
  /\ Goto("mask")
  /\ UNCHANGED <<ringVars, mem, lockVars, iflag, data, idt, irq_actions, started, cur, reg, fault>>

(* Mutant: the lines without a driver stay open.                           *)
pic_mask_none ==
  /\ At("mask")
  /\ imr' = {}
  /\ Goto("timer")
  /\ UNCHANGED <<ringVars, mem, lockVars, iflag, irr, isr, base, data, bootVars, cur, reg, fault>>

(* pic_mask_initial_irqs().                                                *)
pic_mask_initial_irqs ==
  /\ At("mask")
  /\ imr' = Lines \ {IRQ_TIMER, IRQ_KEYBOARD}
  /\ Goto("timer")
  /\ UNCHANGED <<ringVars, mem, lockVars, iflag, irr, isr, base, data, bootVars, cur, reg, fault>>

(* The rest of arch_timer_init(): IRQ0, pit_init(), and interrupts go on.  *)
arch_timer_init ==
  /\ At("timer")
  /\ irq_register(IRQ_TIMER)
  /\ iflag' = TRUE
  /\ Goto("run")
  /\ UNCHANGED <<ringVars, mem, lockVars, picVars, data, idt, started, early, cur, reg>>

(* The builds with KERNEL_TEST_*: ud2 and a page fault go through a gate,  *)
(* arch_test_*() make a frame and call trap_dispatch().  A user frame only *)
(* differs in the policy it ends in.                                       *)
TestTraps == {6, 8, 13, 14}

Trap(v) ==
  LET frame == IF v \in {6, 14} THEN Taken(v, 7) ELSE Frame(v, 7)
  IN  /\ At("run") /\ cur = Boot /\ ~started
      /\ fault' = trap_dispatch(frame)
      /\ iflag' = FALSE
      /\ UNCHANGED <<ringVars, mem, lockVars, picVars, data, bootVars, cur, act, reg>>

(* sched_start(): the first thread is entered, Boot is not left again.     *)
sched_start ==
  /\ At("run") /\ cur = Boot /\ ~started
  /\ started' = TRUE
  /\ cur' \in Threads
  /\ UNCHANGED <<ringVars, mem, lockVars, iflag, picVars, data, idt, irq_actions, early, act,
                 reg, fault>>

BootStep ==
  \/ arch_traps_init \/ ps2_keyboard_init \/ pic_remap \/ pic_mask_initial_irqs
  \/ arch_timer_init \/ sched_start

-----------------------------------------------------------------------------
(* A ring operation, under the lock.                                       *)

(* A thread calls one: input_report_event() or tty_submit_edit_line() with *)
(* an item, or a reader's pop.                                             *)
Call(op, x) ==
  /\ At("run")
  /\ op = "put" => PutAllowed
  /\ Becomes([Top EXCEPT !.pc = "save", !.op = op, !.item = x])
  /\ UNCHANGED <<ringVars, mem, lockVars, iflag, picVars, data, bootVars, cur, reg, fault>>

(* spin_lock_irqsave(): arch_irq_save() ...                                *)
arch_irq_save ==
  /\ At("save")
  /\ iflag' = FALSE
  /\ Becomes([Top EXCEPT !.pc = "lock", !.flags = iflag])
  /\ UNCHANGED <<ringVars, mem, lockVars, picVars, data, bootVars, cur, reg, fault>>

(* ... and the lock, which on one CPU nobody can hold.                     *)
spin_lock ==
  /\ At("lock")
  /\ \/ /\ locked
        /\ fault' = <<"spinlock", 0>>
        /\ UNCHANGED <<lockVars, act>>
     \/ /\ ~locked
        /\ locked' = TRUE
        /\ spinlock_depth' = spinlock_depth + 1
        /\ Goto("test")
        /\ UNCHANGED fault
  /\ UNCHANGED <<ringVars, mem, iflag, picVars, data, bootVars, cur, reg>>

(* The section: a full or an empty ring ends it; else one store each for   *)
(* the slot or the item, the index and the count.                          *)
SectionTest ==
  /\ At("test")
  /\ \/ /\ Top.op = "put" /\ mem.count = Cap
        /\ mem' = [mem EXCEPT !.dropped = @ + 1]
        /\ Goto("unlock")
     \/ /\ Top.op = "put" /\ mem.count # Cap
        /\ mem' = [mem EXCEPT !.events[mem.tail] = Top.item]
        /\ Goto("index")
     \/ /\ Top.op = "get"
        /\ Becomes(IF mem.count = 0
                   THEN [Top EXCEPT !.pc = "unlock", !.item = NoItem]
                   ELSE [Top EXCEPT !.pc = "index", !.item = mem.events[mem.head]])
        /\ UNCHANGED mem
  /\ UNCHANGED <<ringVars, lockVars, iflag, picVars, data, bootVars, cur, reg, fault>>

SectionIndex ==
  /\ At("index")
  /\ mem' = IF Top.op = "put" THEN [mem EXCEPT !.tail = (@ + 1) % Cap]
                              ELSE [mem EXCEPT !.head = (@ + 1) % Cap]
  /\ Goto("count")
  /\ UNCHANGED <<ringVars, lockVars, iflag, picVars, data, bootVars, cur, reg, fault>>

(* Mutant: the number of items is not brought up to date by a pop.         *)
SectionCountPuts ==
  /\ At("count")
  /\ mem' = IF Top.op = "put" THEN [mem EXCEPT !.count = @ + 1] ELSE mem
  /\ Goto("unlock")
  /\ UNCHANGED <<ringVars, lockVars, iflag, picVars, data, bootVars, cur, reg, fault>>

SectionCount ==
  /\ At("count")
  /\ mem' = IF Top.op = "put" THEN [mem EXCEPT !.count = @ + 1]
                              ELSE [mem EXCEPT !.count = @ - 1]
  /\ Goto("unlock")
  /\ UNCHANGED <<ringVars, lockVars, iflag, picVars, data, bootVars, cur, reg, fault>>

(* Mutant: interrupts go on before the lock is free.                       *)
spin_unlock_restore_first ==
  /\ At("unlock")
  /\ iflag' = (iflag \/ Top.flags)
  /\ \/ /\ Top.flags /\ ~iflag
        /\ UNCHANGED <<lockVars, ringVars, fault, act>>
     \/ /\ ~(Top.flags /\ ~iflag)
        /\ spinlock_depth' = spinlock_depth - 1
        /\ locked' = FALSE
        /\ events' = mem.events /\ head' = mem.head /\ tail' = mem.tail
        /\ count' = mem.count /\ dropped' = mem.dropped
        /\ out' = IF Top.op = "get" THEN Top.item ELSE out
        /\ Goto("restore")
        /\ UNCHANGED fault
  /\ UNCHANGED <<mem, picVars, data, bootVars, cur, reg>>

(* spin_unlock_irqrestore(): the lock ...                                  *)
spin_unlock ==
  /\ At("unlock")
  /\ \/ /\ ~locked \/ spinlock_depth <= 0
        /\ fault' = <<"spinlock", 0>>
        /\ UNCHANGED <<lockVars, ringVars, act>>
     \/ /\ locked /\ spinlock_depth > 0
        /\ spinlock_depth' = spinlock_depth - 1
        /\ locked' = FALSE
        /\ events' = mem.events /\ head' = mem.head /\ tail' = mem.tail
        /\ count' = mem.count /\ dropped' = mem.dropped
        /\ out' = IF Top.op = "get" THEN Top.item ELSE out
        /\ Goto("restore")
        /\ UNCHANGED fault
  /\ UNCHANGED <<mem, iflag, picVars, data, bootVars, cur, reg>>

(* ... and arch_irq_restore(), which turns IF on or leaves it.  The body   *)
(* goes on, or the handler to its EOI.                                     *)
arch_irq_restore ==
  /\ At("restore")
  /\ iflag' = (iflag \/ Top.flags)
  /\ Becomes([Top EXCEPT !.pc = IF Top.line = NoIrq THEN "run" ELSE "eoi",
                         !.op = "none", !.item = NoItem, !.flags = FALSE])
  /\ UNCHANGED <<ringVars, mem, lockVars, picVars, data, bootVars, cur, reg, fault>>

Section == arch_irq_save \/ spin_lock \/ SectionTest \/ SectionIndex \/ SectionCount
             \/ spin_unlock \/ arch_irq_restore

(* A thread computes, or gives up the CPU, and IF stays what it is.        *)
Compute ==
  /\ At("run") /\ reg # "own"
  /\ reg' = "own"
  /\ UNCHANGED <<ringVars, mem, lockVars, iflag, picVars, data, bootVars, cur, act, fault>>

(* Another context goes on: code that expects nothing of the registers     *)
(* after its call of sched_yield(), or a handler.                          *)
Switch ==
  /\ cur' \in Threads \ {cur}
  /\ reg' = IF Len(act[cur']) = 1 THEN "own" ELSE "handler"

sched_yield ==
  /\ At("run") /\ started
  /\ Switch
  /\ UNCHANGED <<ringVars, mem, lockVars, iflag, picVars, data, bootVars, act, fault>>

-----------------------------------------------------------------------------
(* An interrupt.                                                           *)

Requested(l) ==
  /\ fault = NoFault /\ iflag
  /\ l \in irr \ imr
  /\ \A k \in irr \ imr : l <= k
  /\ \A k \in isr : l < k

(* The PIC hands over its first request, the CPU goes through the gate     *)
(* with IF off, and the stub builds the frame that trap_dispatch() reads.  *)
Deliver(l) ==
  LET to == trap_dispatch(Taken(base + l, 0))
  IN  /\ Requested(l)
      /\ Len(act[cur]) <= MaxNest
      /\ irr' = irr \ {l} /\ isr' = isr \cup {l}
      /\ iflag' = FALSE
      /\ reg' = "handler"
      /\ \/ /\ ~idt \/ to[1] # "handle_irq"
            /\ fault' = to
            /\ UNCHANGED act
         \/ /\ idt /\ to[1] = "handle_irq"
            /\ act' = [act EXCEPT ![cur] = Append(@,
                         [Body("handle") EXCEPT !.line = l, !.irq = to[2], !.rf = iflag,
                                                !.saved = reg])]
            /\ UNCHANGED fault
      /\ UNCHANGED <<ringVars, mem, lockVars, imr, base, data, bootVars, cur>>

(* The timer's line falls again before the CPU asks, after half a period   *)
(* with IF off: the PIC answers with IRQ7, which has no gate.              *)
Spurious ==
  /\ fault = NoFault /\ iflag
  /\ isr = {} /\ IRQ_TIMER \in irr \ imr
  /\ irr' = irr \ {IRQ_TIMER}
  /\ iflag' = FALSE
  /\ fault' = trap_dispatch(Taken(base + 7, 0))
  /\ UNCHANGED <<ringVars, mem, lockVars, isr, imr, base, data, bootVars, cur, act, reg>>

(* Mutant: the keyboard handler looks for room before it reads the byte.   *)
handle_irq_room ==
  /\ At("handle")
  /\ \/ /\ Top.irq = IRQ_KEYBOARD /\ data # NoItem /\ mem.count < Cap
        /\ data' = NoItem
        /\ Becomes([Top EXCEPT !.pc = "save", !.op = "put", !.item = data])
     \/ /\ Top.irq = IRQ_KEYBOARD => data = NoItem \/ mem.count = Cap
        /\ Goto("eoi")
        /\ UNCHANGED data
  /\ UNCHANGED <<ringVars, mem, lockVars, iflag, picVars, bootVars, cur, reg, fault>>

(* handle_irq(): timer_tick(), ps2_keyboard_irq() up to its section, or    *)
(* for a line without a handler a message.                                 *)
handle_irq ==
  /\ At("handle")
  /\ \/ /\ Top.irq = IRQ_KEYBOARD /\ Top.irq \in irq_actions /\ data # NoItem
        /\ data' = NoItem
        /\ Becomes([Top EXCEPT !.pc = "save", !.op = "put", !.item = data])
     \/ /\ Top.irq = IRQ_KEYBOARD => Top.irq \notin irq_actions \/ data = NoItem
        /\ Goto("eoi")
        /\ UNCHANGED data
  /\ UNCHANGED <<ringVars, mem, lockVars, iflag, picVars, bootVars, cur, reg, fault>>

(* Mutant: only the lines of the second PIC are acknowledged.              *)
pic_send_eoi_slave ==
  /\ At("eoi")
  /\ isr' = IF Top.irq >= 8 THEN {k \in isr : \E j \in isr : j < k} ELSE isr
  /\ Goto("exit")
  /\ UNCHANGED <<ringVars, mem, lockVars, iflag, irr, imr, base, data, bootVars, cur, reg, fault>>

(* pic_send_eoi(): the PIC takes the first line out of service.            *)
pic_send_eoi ==
  /\ At("eoi")
  /\ isr' = {k \in isr : \E j \in isr : j < k}
  /\ Goto("exit")
  /\ UNCHANGED <<ringVars, mem, lockVars, iflag, irr, imr, base, data, bootVars, cur, reg, fault>>

(* x86_trap_exit(): sched_irq_exit() may switch, with IF off.              *)
x86_trap_exit ==
  /\ At("exit")
  /\ Goto("iret")
  /\ (started /\ Switch) \/ UNCHANGED <<cur, reg>>
  /\ UNCHANGED <<ringVars, mem, lockVars, iflag, picVars, data, bootVars, fault>>

(* The end of exception_common: the saved registers are skipped, and iretq *)
(* restores RFLAGS.                                                        *)
iretq ==
  /\ At("iret")
  /\ iflag' = Top.rf
  /\ act' = [act EXCEPT ![cur] = SubSeq(@, 1, Len(@) - 1)]
  /\ UNCHANGED <<ringVars, mem, lockVars, picVars, data, bootVars, cur, reg, fault>>

Handler == handle_irq \/ pic_send_eoi \/ x86_trap_exit \/ iretq

(* panic(): cli and hlt for ever.                                          *)
arch_halt_forever == fault # NoFault /\ UNCHANGED irqVars

-----------------------------------------------------------------------------
Device == Raise(IRQ_TIMER) \/ Raise(OtherIrq) \/ \E x \in Items : KeyByte(x)

Operation == Call("get", NoItem) \/ \E x \in Items : Call("put", x)

IrqNext ==
  \/ fault = NoFault /\ Device
  \/ BootStep \/ (\E v \in TestTraps : Trap(v))
  \/ Operation \/ Compute \/ sched_yield \/ Section
  \/ (\E l \in Lines : Deliver(l)) \/ Spurious \/ Handler
  \/ arch_halt_forever

IrqSpec == IrqInit /\ [][IrqNext]_irqVars

(* The CPU goes on with what it has begun, and takes an interrupt at the   *)
(* first instruction after IF went on.                                     *)
IrqFairSpec ==
  /\ IrqSpec
  /\ WF_irqVars(BootStep) /\ WF_irqVars(Section) /\ WF_irqVars(Handler)
  /\ \A l \in {IRQ_TIMER, IRQ_KEYBOARD} : SF_irqVars(Deliver(l))

-----------------------------------------------------------------------------
Activations == {<<c, i>> : c \in Contexts, i \in 1..MaxNest + 1}
Live == {a \in Activations : a[2] <= Len(act[a[1]])}
A(a) == act[a[1]][a[2]]

InSection == {"test", "index", "count", "unlock"}
Unacknowledged == {"handle", "save", "lock", "restore", "eoi"} \cup InSection

(* The stores of a section, in threads and in the interrupt, amount to one *)
(* step of Ring each: what Ring and its theorems take to be atomic is.     *)
SectionsAtomic == Spec

(* The lock is held exactly by one activation in its section, which has    *)
(* the CPU with IF off: no handler and no other thread gets between        *)
(* spin_lock_irqsave() and spin_unlock_irqrestore(), whose panics do not   *)
(* fire, and spinlock_held_count() is right whenever a thread asks.        *)
SectionsExclusive ==
  LET inside == {a \in Live : A(a).pc \in InSection}
  IN  /\ locked <=> inside # {}
      /\ inside \subseteq {<<cur, Len(act[cur])>>}
      /\ locked => ~iflag
      /\ spinlock_depth = Cardinality(inside)
      /\ fault[1] # "spinlock"

(* pic_send_eoi() comes before x86_trap_exit(): a line is in service       *)
(* exactly while its handler has not acknowledged it, so never when        *)
(* interrupts are on, and no thread is switched to with one in service.    *)
InServiceExact ==
  fault = NoFault =>
    /\ isr = {A(a).line : a \in {b \in Live : A(b).line # NoIrq /\ A(b).pc \in Unacknowledged}}
    /\ iflag => isr = {}

(* Whatever interrupts the CPU comes to its own handler: the lines to the  *)
(* registered ones, the test traps to their policies, and the frame of     *)
(* every gate has the error code and the return address where trap_frame   *)
(* and iretq look for them.  Only a spurious IRQ7, which sets no bit in    *)
(* service, ends in the fault of a missing gate.                           *)
EventsRouted ==
  /\ \A a \in Live : A(a).line # NoIrq => A(a).irq = A(a).line /\ A(a).line \in irq_actions
  /\ fault \in {NoFault, <<ExceptionHandler(11), 11>>}
                 \cup {<<ExceptionHandler(v), v>> : v \in TestTraps}
  /\ fault = <<ExceptionHandler(11), 11>> => isr = {}
  /\ \A v \in Gates :
       /\ ReturnsTo(Frame(v, 7)) = <<"rip", 0>>
       /\ error_code(Frame(v, 7)) = <<"error", IF v \in PushesError THEN 7 ELSE 0>>

(* A byte in the keyboard controller has its interrupt still to come or in *)
(* ps2_keyboard_irq(): it is not forgotten there, which would silence the  *)
(* keyboard for good.  The exception is a byte from before pic_remap(),    *)
(* which ps2_keyboard_init() does not read.                                *)
NoForgottenByte ==
  fault = NoFault /\ data # NoItem /\ ~early =>
    \/ IRQ_KEYBOARD \in irr
    \/ \E a \in Live : A(a).line = IRQ_KEYBOARD /\ A(a).pc = "handle"

(* Every request of a line with a driver is taken, as long as IF keeps     *)
(* coming back on while no line before it asks.                            *)
RequestsServed ==
  \A l \in {IRQ_TIMER, IRQ_KEYBOARD} :
    [](fault = NoFault) /\ []<>(iflag /\ \A k \in irr : l <= k) =>
      (l \in irr ~> l \notin irr)

(* arch/x86/include/arch/traps.h calls the trap frame a "Register snapshot *)
(* built by x86 exception/IRQ entry": what was interrupted goes on with    *)
(* the registers it had.                                                   *)
RegistersRestored == [][iretq => reg' = Top.saved]_irqVars
====
