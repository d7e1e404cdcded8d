--------------------------------- MODULE Tty ---------------------------------
(***************************************************************************)
(* drivers/tty: the keymap, the line discipline and the queue of submitted *)
(* lines, and kernel/debug/kdb.c, the thread that reads the lines.         *)
(*                                                                         *)
(* The edit line belongs to the thread that delivers keys; the queue is a  *)
(* FIFO (see Ring) under the spinlock of its wait queue.  The terminal     *)
(* output (echo, prompt, what commands print) is left out.                 *)
(***************************************************************************)
EXTENDS Naturals, Sequences

CONSTANTS
  LineLength,     \* TTY_LINE_LENGTH, room for the terminating NUL included
  LineCap         \* TTY_LINE_QUEUE_SIZE

ASSUME TtyAssumption == LineLength \in Nat \ {0} /\ LineCap \in Nat \ {0}

VARIABLES
  edit_line,      \* the first edit_length characters
  lines,          \* tty_lines, head to tail
  lines_dropped,  \* tty_lines.dropped
  submitted,      \* history: the lines of tty_submit_edit_line()
  kdb,            \* where kdb_thread() is
  line,           \* the line it runs
  commands        \* history: the lines it has read

ttyVars == <<edit_line, lines, lines_dropped, submitted, kdb, line, commands>>

NoLine == <<"NONE">>

(* tty_init(); kdb_init() comes later.                                     *)
TtyInit ==
  /\ edit_line = <<>>
  /\ lines = <<>> /\ lines_dropped = 0 /\ submitted = <<>>
  /\ kdb = "none" /\ line = NoLine /\ commands = <<>>

(* tty_key_event_to_keysym() and the bytes tty_receive_keysym() makes of   *)
(* the keysym: a character, or the string of a function key; <<>> for a    *)
(* key the keymap does not have.  Shift inverts Caps Lock for letters.     *)
Characters(key, mods) ==
  CASE key = "A"         -> IF ("SHIFT" \in mods) # ("CAPS" \in mods) THEN <<"A">> ELSE <<"a">>
    [] key = "ENTER"     -> <<"newline">>
    [] key = "BACKSPACE" -> <<"backspace">>
    [] key = "UP"        -> <<"ESC", "[", "A">>
    [] OTHER             -> <<>>

(* tty_handle_backspace().                                                 *)
Backspace ==
  /\ edit_line' = IF edit_line = <<>> THEN <<>> ELSE SubSeq(edit_line, 1, Len(edit_line) - 1)
  /\ UNCHANGED <<lines, lines_dropped, submitted, kdb, line, commands>>

(* Mutant: a full queue loses its oldest line and does not count it.       *)
tty_submit_edit_line_over ==
  /\ submitted' = Append(submitted, edit_line)
  /\ edit_line' = <<>>
  /\ \/ /\ Len(lines) = LineCap
        /\ lines' = Append(Tail(lines), edit_line)
        /\ UNCHANGED <<lines_dropped, kdb>>
     \/ /\ Len(lines) < LineCap
        /\ lines' = Append(lines, edit_line)
        /\ kdb' = IF kdb = "asleep" THEN "wait" ELSE kdb
        /\ UNCHANGED lines_dropped
  /\ UNCHANGED <<line, commands>>

(* tty_submit_edit_line().                                                 *)
tty_submit_edit_line ==
  /\ submitted' = Append(submitted, edit_line)
  /\ edit_line' = <<>>
  /\ \/ /\ Len(lines) = LineCap
        /\ lines_dropped' = lines_dropped + 1
        /\ UNCHANGED <<lines, kdb>>
     \/ /\ Len(lines) < LineCap
        /\ lines' = Append(lines, edit_line)
        /\ kdb' = IF kdb = "asleep" THEN "wait" ELSE kdb
        /\ UNCHANGED lines_dropped
  /\ UNCHANGED <<line, commands>>

(* tty_receive_char() of every character of a printable string: what does  *)
(* not fit is ignored.                                                     *)
Type(chars) ==
  /\ LET room == LineLength - 1 - Len(edit_line)
     IN edit_line' = edit_line \o SubSeq(chars, 1, IF Len(chars) < room THEN Len(chars) ELSE room)
  /\ UNCHANGED <<lines, lines_dropped, submitted, kdb, line, commands>>

(* tty_receive_keysym().                                                   *)
tty_receive_keysym(chars) ==
  \/ chars = <<"newline">> /\ tty_submit_edit_line
  \/ chars = <<"backspace">> /\ Backspace
  \/ chars \notin {<<"newline">>, <<"backspace">>} /\ Type(chars)

-----------------------------------------------------------------------------
(* tty_read_line(): wait_queue_wait() for tty_has_line() ...               *)
LineWait ==
  /\ kdb = "wait"
  /\ kdb' = IF lines # <<>> THEN "pop" ELSE "asleep"
  /\ UNCHANGED <<edit_line, lines, lines_dropped, submitted, line, commands>>

(* ... and, under the lock taken anew, tty_pop_line_locked(), whose buffer *)
(* of KDB_LINE_LENGTH = LineLength characters a line fits in.  -EAGAIN     *)
(* makes kdb panic.                                                        *)
LinePop ==
  /\ kdb = "pop"
  /\ IF lines = <<>>
     THEN kdb' = "panic" /\ UNCHANGED <<lines, line, commands>>
     ELSE /\ kdb' = "run"
          /\ line' = IF Len(Head(lines)) + 1 > LineLength
                     THEN SubSeq(Head(lines), 1, LineLength - 1)
                     ELSE Head(lines)
          /\ lines' = Tail(lines)
          /\ commands' = Append(commands, line')
  /\ UNCHANGED <<edit_line, lines_dropped, submitted>>

(* kdb_run_command() has printed what the line asks for.                   *)
kdb_run_command ==
  /\ kdb = "run"
  /\ kdb' = "wait"
  /\ line' = NoLine
  /\ UNCHANGED <<edit_line, lines, lines_dropped, submitted, commands>>

-----------------------------------------------------------------------------
(* kdb reads the submitted lines in order, each once and whole; what is    *)
(* missing was counted.                                                    *)
LinesInOrder ==
  /\ Len(commands) + Len(lines) + lines_dropped = Len(submitted)
  /\ lines_dropped = 0 => commands \o lines = submitted
====
