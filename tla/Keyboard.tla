------------------------------ MODULE Keyboard ------------------------------
(***************************************************************************)
(* From the keyboard to the input event queue: IRQ1 stores raw bytes       *)
(* (drivers/input/keyboard/ps2.c), the worker of kernel/workqueue.c        *)
(* decodes them and reports key events to drivers/input/input.c, and the   *)
(* input-console thread reads the events (kernel/console/input_console.c). *)
(*                                                                         *)
(* The three rings are the FIFO queues Ring shows them to be.  A handler   *)
(* runs with interrupts off and is one step; the worker and the reader     *)
(* are interrupted between their critical sections.                        *)
(*                                                                         *)
(* Scancodes are the bytes of set 1; of the two keycode tables the entries *)
(* of the keys in Layout are kept.                                         *)
(***************************************************************************)
EXTENDS Workqueue, SequencesExt

CONSTANTS
  Kbd,            \* ps2_keyboard.work
  RawCap,         \* PS2_RAW_QUEUE_CAPACITY
  EventCap,       \* INPUT_QUEUE_CAPACITY
  Keys,           \* the keys that get pressed, of DOMAIN Layout or "PAUSE"
  MaxKeys,        \* bound on the number of presses and releases
  MaxBytes        \* bound on the number of bytes they send

ASSUME KeyboardAssumption ==
  /\ Kbd \in Works \ {Selftest}
  /\ RawCap \in Nat \ {0} /\ EventCap \in Nat \ {0}
  /\ MaxKeys \in Nat /\ MaxBytes \in Nat

VARIABLES
  wire,           \* bytes the controller still has to hand over
  held,           \* keys that are down
  typed,          \* history: the key events of the user, <<key, pressed>>
  raw,            \* ps2_keyboard.raw, head to tail
  raw_dropped,    \* ps2_keyboard.dropped
  scancode,       \* the byte ps2_keyboard_work() decodes, NoByte or Drained
  extended_pending, pause_bytes, modifiers,
  decoded,        \* history: the events ps2_keyboard_work() reported
  events,         \* input_queue.events, head to tail
  dropped,        \* input_queue.dropped
  console,        \* where input_console_thread() is
  event,          \* the event it delivers, or NoEvent
  read            \* history: the events it has read

hwVars  == <<wire, held, typed>>
decVars == <<extended_pending, pause_bytes, modifiers, decoded>>
evVars  == <<events, dropped>>
conVars == <<console, event, read>>
kbVars  == <<wqVars, hwVars, raw, raw_dropped, scancode, decVars, evVars, conVars>>

NoByte  == 256     \* ps2_keyboard_work() is about to ask for a byte
Drained == 257     \* it was told that there is none
NoEvent == <<"NONE", FALSE, {}>>

EXTENDED == 224     \* PS2_SCANCODE_EXTENDED, 0xe0
PAUSE    == 225     \* PS2_SCANCODE_PAUSE, 0xe1
RELEASE  == 128     \* PS2_SCANCODE_RELEASE, 0x80

(* What a set-1 keyboard sends: the make code of a key and whether 0xe0    *)
(* goes before it.  "SYSRQ" stands for the keys the driver does not know.  *)
Layout ==
  [ENTER      |-> <<28, FALSE>>,
   A          |-> <<30, FALSE>>,
   LEFTCTRL   |-> <<29, FALSE>>,
   RIGHTCTRL  |-> <<29, TRUE>>,
   LEFTSHIFT  |-> <<42, FALSE>>,
   RIGHTSHIFT |-> <<54, FALSE>>,
   BACKSPACE  |-> <<14, FALSE>>,
   CAPSLOCK   |-> <<58, FALSE>>,
   KP8        |-> <<72, FALSE>>,
   UP         |-> <<72, TRUE>>,
   SYSRQ      |-> <<84, FALSE>>]

Bytes(k, pressed) ==
  LET code == Layout[k][1] + IF pressed THEN 0 ELSE RELEASE
  IN  IF Layout[k][2] THEN <<EXTENDED, code>> ELSE <<code>>

PauseBytes == <<PAUSE, 29, 69, PAUSE, 29 + RELEASE, 69 + RELEASE>>

-----------------------------------------------------------------------------
(* drivers/input/keyboard/ps2.c                                            *)

ps2_set1_keycode(code) ==
  CASE code = 14 -> "BACKSPACE"  [] code = 28 -> "ENTER"
    [] code = 29 -> "LEFTCTRL"   [] code = 30 -> "A"
    [] code = 42 -> "LEFTSHIFT"  [] code = 54 -> "RIGHTSHIFT"
    [] code = 58 -> "CAPSLOCK"   [] code = 69 -> "NUMLOCK"
    [] code = 72 -> "KP8"        [] OTHER -> "RESERVED"

ps2_set1_e0_keycode(code) ==
  CASE code = 28 -> "KPENTER" [] code = 29 -> "RIGHTCTRL"
    [] code = 72 -> "UP"      [] OTHER -> "RESERVED"

keycode_from_set1(code, extended) ==
  IF extended THEN ps2_set1_e0_keycode(code) ELSE ps2_set1_keycode(code)

(* The modifier a key holds down, and the one it toggles.                  *)
HeldModifier(key) ==
  CASE key \in {"LEFTSHIFT", "RIGHTSHIFT"} -> {"SHIFT"}
    [] key \in {"LEFTCTRL", "RIGHTCTRL"}   -> {"CTRL"}
    [] OTHER -> {}

ToggledModifier(key) ==
  CASE key = "CAPSLOCK" -> {"CAPS"} [] key = "NUMLOCK" -> {"NUM"} [] OTHER -> {}

Toggle(S, T) == (S \ T) \cup (T \ S)

(* Mutant: a release is not told from a press.                             *)
update_modifier_sticky(mods, key, pressed) ==
  Toggle(mods \cup HeldModifier(key), IF pressed THEN ToggledModifier(key) ELSE {})

(* ps2_update_modifier().                                                  *)
update_modifier(mods, key, pressed) ==
  IF pressed THEN Toggle(mods \cup HeldModifier(key), ToggledModifier(key))
             ELSE mods \ HeldModifier(key)

KeyboardInit ==
  /\ wire = <<>> /\ held = {} /\ typed = <<>>
  /\ raw = <<>> /\ raw_dropped = 0 /\ scancode = NoByte
  /\ extended_pending = FALSE /\ pause_bytes = 0 /\ modifiers = {}
  /\ decoded = <<>>
  /\ events = <<>> /\ dropped = 0
  /\ console = "none" /\ event = NoEvent /\ read = <<>>

(* The user presses or releases a key and the keyboard sends its bytes,    *)
(* once those of the key before have left it.  Pause has no release code.  *)
KeyBytes(e) == IF e[1] = "PAUSE" THEN PauseBytes ELSE Bytes(e[1], e[2])

Sent == FoldSeq(LAMBDA e, n : n + Len(KeyBytes(e)), 0, typed)

PressOrRelease(k) ==
  LET e == <<k, k \notin held>>
  IN  /\ wire = <<>>
      /\ Len(typed) < MaxKeys
      /\ Sent + Len(KeyBytes(e)) <= MaxBytes
      /\ wire' = KeyBytes(e)
      /\ typed' = Append(typed, e)
      /\ held' = IF k = "PAUSE" THEN held ELSE Toggle(held, {k})

User ==
  /\ \E k \in Keys : PressOrRelease(k)
  /\ UNCHANGED <<wqVars, raw, raw_dropped, scancode, decVars, evVars, conVars>>

(* Mutant: no work is queued while the decoder runs.                       *)
ps2_keyboard_irq_unless_running ==
  /\ wire # <<>>
  /\ wire' = Tail(wire)
  /\ \/ /\ Len(raw) = RawCap
        /\ raw_dropped' = raw_dropped + 1
        /\ UNCHANGED <<raw, wqVars>>
     \/ /\ Len(raw) < RawCap
        /\ raw' = Append(raw, Head(wire))
        /\ \/ work # Kbd /\ queue_work(Kbd)
           \/ work = Kbd /\ UNCHANGED <<list, pending, worker, requested>>
        /\ UNCHANGED <<raw_dropped, work>>
  /\ UNCHANGED <<held, typed, scancode, decVars, evVars, conVars>>

(* ps2_keyboard_irq(): without a byte in the controller it changes nothing *)
(* and is no step; a full ring counts the byte and queues no work.         *)
ps2_keyboard_irq ==
  /\ wire # <<>>
  /\ wire' = Tail(wire)
  /\ \/ /\ Len(raw) = RawCap
        /\ raw_dropped' = raw_dropped + 1
        /\ UNCHANGED <<raw, wqVars>>
     \/ /\ Len(raw) < RawCap
        /\ raw' = Append(raw, Head(wire))
        /\ queue_work(Kbd)
        /\ UNCHANGED <<raw_dropped, work>>
  /\ UNCHANGED <<held, typed, scancode, decVars, evVars, conVars>>

(* ps2_keyboard_work() runs.                                               *)
Decoding == worker = "run" /\ work = Kbd

(* ps2_raw_pop(): the loop of ps2_keyboard_work() ends when it fails.      *)
ps2_raw_pop ==
  /\ Decoding
  /\ scancode = NoByte
  /\ \/ raw # <<>> /\ scancode' = Head(raw) /\ raw' = Tail(raw)
     \/ raw = <<>> /\ scancode' = Drained /\ UNCHANGED raw
  /\ UNCHANGED <<wqVars, hwVars, raw_dropped, decVars, evVars, conVars>>

(* What input_report_event() does to the queue and to its reader.          *)
input_report_event(e) ==
  \/ /\ Len(events) = EventCap
     /\ dropped' = dropped + 1
     /\ UNCHANGED <<events, console>>
  \/ /\ Len(events) < EventCap
     /\ events' = Append(events, e)
     /\ console' = Woken(console)
     /\ UNCHANGED dropped

(* The byte is neither swallowed by a Pause sequence nor a prefix.         *)
IsKeyByte == pause_bytes = 0 /\ scancode \notin {PAUSE, EXTENDED}

(* Mutant: the 0xe0 prefix stays in force.                                 *)
DecodeKeyExtended ==
  /\ IsKeyByte
  /\ UNCHANGED <<pause_bytes, extended_pending>>
  /\ LET key     == keycode_from_set1(scancode % RELEASE, extended_pending)
         pressed == scancode < RELEASE
         mods    == update_modifier(modifiers, key, pressed)
     IN \/ /\ key = "RESERVED"
           /\ UNCHANGED <<modifiers, decoded, evVars, console>>
        \/ /\ key # "RESERVED"
           /\ modifiers' = mods
           /\ decoded' = Append(decoded, <<key, pressed, mods>>)
           /\ input_report_event(<<key, pressed, mods>>)

(* A key byte: an unknown one is logged, any other reported with the       *)
(* modifiers it leads to.                                                  *)
DecodeKey ==
  /\ IsKeyByte
  /\ extended_pending' = FALSE
  /\ UNCHANGED pause_bytes
  /\ LET key     == keycode_from_set1(scancode % RELEASE, extended_pending)
         pressed == scancode < RELEASE
         mods    == update_modifier(modifiers, key, pressed)
     IN \/ /\ key = "RESERVED"
           /\ UNCHANGED <<modifiers, decoded, evVars, console>>
        \/ /\ key # "RESERVED"
           /\ modifiers' = mods
           /\ decoded' = Append(decoded, <<key, pressed, mods>>)
           /\ input_report_event(<<key, pressed, mods>>)

DecodePrefix ==
  /\ \/ /\ pause_bytes # 0
        /\ pause_bytes' = pause_bytes - 1
        /\ UNCHANGED extended_pending
     \/ /\ pause_bytes = 0 /\ scancode = PAUSE
        /\ pause_bytes' = 5
        /\ UNCHANGED extended_pending
     \/ /\ pause_bytes = 0 /\ scancode = EXTENDED
        /\ extended_pending' = TRUE
        /\ UNCHANGED pause_bytes
  /\ UNCHANGED <<modifiers, decoded, evVars, console>>

(* The body of the loop of ps2_keyboard_work().                            *)
ps2_keyboard_work ==
  /\ Decoding
  /\ scancode \notin {NoByte, Drained}
  /\ scancode' = NoByte
  /\ DecodePrefix \/ DecodeKey
  /\ UNCHANGED <<wqVars, hwVars, raw, raw_dropped, event, read>>

(* The worker's own steps; ps2_keyboard_work() returns when it was told    *)
(* that the ring is empty, which need not be true any more.                *)
WorkerStep ==
  /\ \/ (WorkerWait \/ workqueue_pop) /\ UNCHANGED scancode
     \/ FuncReturns /\ (work = Kbd => scancode = Drained) /\ scancode' = NoByte
  /\ UNCHANGED <<hwVars, raw, raw_dropped, decVars, evVars, conVars>>

-----------------------------------------------------------------------------
(* drivers/input/input.c, read side, and kernel/console/input_console.c    *)

(* Mutant: the event is taken without asking input_has_event().            *)
InputWaitUnchecked ==
  /\ console = "wait"
  /\ console' = "pop"
  /\ UNCHANGED <<event, read, events, dropped>>

(* input_read_event(): wait_queue_wait() for input_has_event() ...         *)
InputWait ==
  /\ console = "wait"
  /\ console' = IF events # <<>> THEN "pop" ELSE "asleep"
  /\ UNCHANGED <<event, read, events, dropped>>

(* ... and, under the lock taken anew, input_pop_locked().  -EAGAIN makes  *)
(* the thread panic.                                                       *)
InputPop ==
  /\ console = "pop"
  /\ IF events = <<>>
     THEN console' = "panic" /\ UNCHANGED <<event, read, events>>
     ELSE /\ console' = "deliver"
          /\ event' = Head(events)
          /\ events' = Tail(events)
          /\ read' = Append(read, Head(events))
  /\ UNCHANGED dropped

-----------------------------------------------------------------------------
(* No byte waits in the ring unless the decoder will ask for it: IRQ1      *)
(* ignores the result of queue_work(), queues nothing for a byte it drops, *)
(* and may come when the decoder has just found the ring empty.            *)
NoStrandedScancodes ==
  raw # <<>> => Kbd \in pending \/ (Decoding /\ scancode # Drained)

(* The key events of the user that the driver has a keycode for.           *)
Known(e) == e[1] \notin {"PAUSE", "SYSRQ"}
KnownTyped == SelectSeq(typed, Known)

(* Nothing is left between the keyboard and the event queue.               *)
DecodedAll == wire = <<>> /\ raw = <<>> /\ scancode \in {NoByte, Drained}

(* As long as no byte was dropped the driver reports the keys the user     *)
(* pressed and released, each once and in order, whatever the prefixes,    *)
(* Pause sequences and unknown keys between them, and misses none.         *)
DecodesWhatWasTyped ==
  raw_dropped = 0 =>
    /\ Len(decoded) <= Len(KnownTyped)
    /\ \A i \in 1..Len(decoded) :
         decoded[i][1] = KnownTyped[i][1] /\ decoded[i][2] = KnownTyped[i][2]
    /\ DecodedAll => Len(decoded) = Len(KnownTyped)

(* A modifier does not stay on after its keys were released, when no byte  *)
(* was dropped: ps2_update_modifier() clears what it set.                  *)
NoStuckModifiers ==
  raw_dropped = 0 /\ DecodedAll =>
    modifiers \cap {"SHIFT", "CTRL"} \subseteq UNION {HeldModifier(k) : k \in held}

(* The reader gets the reported events in order and each once; what is     *)
(* missing was counted.                                                    *)
EventsInOrder ==
  /\ Len(read) + Len(events) + dropped = Len(decoded)
  /\ dropped = 0 => read \o events = decoded
====
