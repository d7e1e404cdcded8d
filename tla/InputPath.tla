------------------------------ MODULE InputPath ------------------------------
(***************************************************************************)
(* The whole input path: Keyboard up to the input-console thread, and Tty  *)
(* from there to kdb.  Four actors interleave: the keyboard interrupt, the *)
(* workqueue thread, the input-console thread and the kdb thread.          *)
(***************************************************************************)
EXTENDS Keyboard, Tty

pathVars == <<kbVars, ttyVars>>

PathInit == WqInit /\ KeyboardInit /\ TtyInit

(* The end of kernel_main(): workqueue_start(), input_console_init() and   *)
(* kdb_init() create the three threads, and sched_start() lets them run.   *)
(* Keyboard interrupts are handled from arch_timer_init() on, before it.   *)
kernel_main ==
  /\ workqueue_start
  /\ console' = "wait"
  /\ kdb' = "wait"
  /\ UNCHANGED <<hwVars, raw, raw_dropped, scancode, decVars, evVars, event, read,
                 edit_line, lines, lines_dropped, submitted, line, commands>>

(* input_console_deliver_key(): releases are ignored, and so are keys the  *)
(* keymap does not have.                                                   *)
input_console_deliver_key ==
  /\ console = "deliver"
  /\ console' = "wait"
  /\ event' = NoEvent
  /\ \/ ~event[2] /\ UNCHANGED ttyVars
     \/ event[2] /\ tty_receive_keysym(Characters(event[1], event[3]))
  /\ UNCHANGED <<wqVars, hwVars, raw, raw_dropped, scancode, decVars, evVars, read>>

Interrupt == ps2_keyboard_irq /\ UNCHANGED ttyVars

Worker == (WorkerStep \/ ps2_raw_pop \/ ps2_keyboard_work) /\ UNCHANGED ttyVars

Console ==
  \/ /\ InputWait \/ InputPop
     /\ UNCHANGED <<wqVars, hwVars, raw, raw_dropped, scancode, decVars, ttyVars>>
  \/ input_console_deliver_key

Kdb ==
  /\ LineWait \/ LinePop \/ kdb_run_command
  /\ UNCHANGED kbVars

PathNext ==
  \/ User /\ UNCHANGED ttyVars
  \/ kernel_main
  \/ Interrupt
  \/ Worker
  \/ Console
  \/ Kdb

PathSpec == PathInit /\ [][PathNext]_pathVars

(* The keyboard controller raises its interrupt again for the next byte,   *)
(* and each thread runs on when it can: the scheduler is round robin.  The *)
(* user may stop typing at any time.                                       *)
PathFairSpec ==
  /\ PathSpec
  /\ WF_pathVars(kernel_main)
  /\ WF_pathVars(Interrupt)
  /\ WF_pathVars(Worker)
  /\ WF_pathVars(Console)
  /\ WF_pathVars(Kdb)

-----------------------------------------------------------------------------
ReaderPcs == {"none", "wait", "asleep", "pop"}

(* The rings stay within their arrays, the edit line leaves room for the   *)
(* NUL, and ps2_keyboard_work() has a byte in hand only while it runs.     *)
PathTypeOK ==
  /\ WqTypeOK
  /\ Len(raw) <= RawCap /\ Len(events) <= EventCap /\ Len(lines) <= LineCap
  /\ scancode \in 0..Drained
  /\ scancode # NoByte => Decoding
  /\ pause_bytes \in 0..5
  /\ extended_pending \in BOOLEAN
  /\ console \in ReaderPcs \cup {"deliver", "panic"}
  /\ kdb \in ReaderPcs \cup {"run", "panic"}
  /\ Len(edit_line) < LineLength

(* The two blocking readers take the lock twice, for the condition and for *)
(* the item.  Neither finds the queue empty the second time, so neither    *)
(* panics ("input console read failed", "kdb read failed"), and neither    *)
(* sleeps on an item that came in between.                                 *)
ReadersNeverFail ==
  /\ console # "panic" /\ kdb # "panic"
  /\ events # <<>> => console # "asleep"
  /\ lines # <<>> => kdb # "asleep"

(* Events and lines come out of their queues in order and each once; what  *)
(* is missing was counted.                                                 *)
InputInOrder == EventsInOrder /\ LinesInOrder

(* Once the user stops, everything that was typed reaches kdb, and the     *)
(* three threads go to sleep.                                              *)
PathDrains ==
  <>[](/\ wire = <<>> /\ raw = <<>> /\ events = <<>> /\ lines = <<>>
       /\ worker = "asleep" /\ console = "asleep" /\ kdb = "asleep")
====
