------------------------------- MODULE Console -------------------------------
(***************************************************************************)
(* Kernel output: the log ring of kernel/printk/printk.c and the text      *)
(* screen of drivers/video/fbdev/core/fbcon.c, behind the console list.    *)
(*                                                                         *)
(* printk() takes no lock and runs with interrupts as they are, so threads *)
(* and handlers meet inside the handling of a character.  The build does   *)
(* not optimise: every mention of a variable is a load or a store, and     *)
(* each is a step of the context that prints.  A glyph, a cell and a       *)
(* scroll are one step each.  Formatting, the serial and the debug port,   *)
(* and the carriage return, which fbcon_putc() ignores, have no state      *)
(* here.                                                                   *)
(***************************************************************************)
EXTENDS Integers, Sequences, FiniteSets

CONSTANTS
  Printers,       \* the contexts that print
  Letters,        \* printable characters
  LF, BS,         \* and those that are not
  Screens,        \* <<width, height>> in pixels; <<0, 0>> without framebuffer
  RingSize,       \* PRINTK_RING_SIZE
  Modulus,        \* 2^32
  MaxChars        \* bound on the characters printed

CELL_WIDTH == 6
CELL_HEIGHT == 9
Blank == "blank"

ASSUME ConsoleAssumption ==
  /\ RingSize \in Nat \ {0} /\ MaxChars \in Nat
  /\ \A s \in Screens : s[1] + CELL_WIDTH * (MaxChars + 1) < Modulus
                          /\ s[2] + CELL_HEIGHT * (MaxChars + 1) < Modulus

VARIABLES
  screen,                   \* fbcon_info.width and height
  cursor_x, cursor_y, cells,
  buffer, head, count, dropped,   \* printk_ring
  pc, ch,                   \* of each printer: where it is, and with which character
  v,                        \* a register
  printed,                  \* history: the number of characters, ...
  text,                     \* ... and what they amount to as rows of text
  log,                      \* history: the characters as the log has to keep them
  alone,                    \* history: the printers nobody has interfered with
  torn, calm                \* history: printers have met; and a line was ended since

ringVars == <<buffer, head, count, dropped>>
fbVars == <<cursor_x, cursor_y, cells>>
histVars == <<printed, text, log, alone, torn, calm>>
vars == <<screen, fbVars, ringVars, pc, ch, v, histVars>>

columns == screen[1] \div CELL_WIDTH
rows == screen[2] \div CELL_HEIGHT

Cells == {<<x, y>> : x \in 0..columns - 1, y \in 0..rows - 1}

(* early_log_init() and printk_init() are the first calls of               *)
(* kernel_main().  fbcon_init() clears the screen; one too small for a     *)
(* cell is left alone from then on.                                        *)
Init ==
  /\ screen \in Screens
  /\ cursor_x = 0 /\ cursor_y = 0
  /\ cells = [c \in Cells |-> Blank]
  /\ buffer = [i \in 0..RingSize - 1 |-> Blank]
  /\ head = 0 /\ count = 0 /\ dropped = 0
  /\ pc = [p \in Printers |-> "idle"]
  /\ ch = [p \in Printers |-> LF]
  /\ v = [p \in Printers |-> 0]
  /\ printed = 0 /\ text = <<<<>>>> /\ log = <<>>
  /\ alone = {} /\ torn = FALSE /\ calm = TRUE

Goto(p, q) == pc' = [pc EXCEPT ![p] = q]
Load(p, n) == v' = [v EXCEPT ![p] = n]

-----------------------------------------------------------------------------
(* The rows of text that characters amount to: a letter goes to the end of *)
(* the last row, and a full row ends like a line; a backspace takes back a *)
(* letter of the last row.  The screen has the last rows.                  *)

LastRow(t) == t[Len(t)]
NewRow(t) == LET all == Append(t, <<>>)
             IN  IF Len(all) > rows THEN Tail(all) ELSE all
SetLast(t, row) == [t EXCEPT ![Len(t)] = row]

Put(t, c) ==
  IF c = LF THEN NewRow(t)
  ELSE IF c = BS
       THEN IF LastRow(t) = <<>> THEN t
            ELSE SetLast(t, SubSeq(LastRow(t), 1, Len(LastRow(t)) - 1))
  ELSE LET long == SetLast(t, Append(LastRow(t), c))
       IN  IF Len(LastRow(long)) = columns THEN NewRow(long) ELSE long

Shown(t) ==
  [c \in Cells |-> IF c[2] < Len(t) /\ c[1] < Len(t[c[2] + 1]) THEN t[c[2] + 1][c[1] + 1]
                   ELSE Blank]

Keep(l, c) == LET all == Append(l, c)
              IN  IF Len(all) > RingSize THEN Tail(all) ELSE all

-----------------------------------------------------------------------------
(* printk_emit_char().                                                     *)

(* A context takes the next character of what it prints.  Whoever is       *)
(* inside a character now has met another.                                 *)
Emit(p, c) ==
  LET busy == {q \in Printers : pc[q] # "idle"}
  IN  /\ pc[p] = "idle"
      /\ printed < MaxChars
      /\ Goto(p, "load")
      /\ ch' = [ch EXCEPT ![p] = c]
      /\ printed' = printed + 1
      /\ torn' = (torn \/ busy # {})
      /\ calm' = (calm /\ busy = {})
      /\ alone' = IF busy = {} THEN {p} ELSE {}
      /\ text' = IF torn' \/ columns = 0 \/ rows = 0 THEN <<>> ELSE Put(text, c)
      /\ log' = IF torn' THEN <<>> ELSE Keep(log, c)
      /\ UNCHANGED <<screen, fbVars, ringVars, v>>

(* printk_ring_putc(): the slot, ...                                       *)
RingSlot(p) ==
  /\ pc[p] = "load"
  /\ Load(p, head)
  /\ Goto(p, "store")
  /\ UNCHANGED <<screen, fbVars, ringVars, ch, histVars>>

RingStore(p) ==
  /\ pc[p] = "store"
  /\ buffer' = [buffer EXCEPT ![v[p]] = ch[p]]
  /\ Goto(p, "h_load")
  /\ UNCHANGED <<screen, fbVars, head, count, dropped, ch, v, histVars>>

(* Mutant: the index stays at the end of the ring.                         *)
RingHeadLoadStuck(p) ==
  /\ pc[p] = "h_load"
  /\ Load(p, IF head + 1 < RingSize THEN head + 1 ELSE head)
  /\ Goto(p, "h_store")
  /\ UNCHANGED <<screen, fbVars, ringVars, ch, histVars>>

(* ... the index, ...                                                      *)
RingHeadLoad(p) ==
  /\ pc[p] = "h_load"
  /\ Load(p, (head + 1) % RingSize)
  /\ Goto(p, "h_store")
  /\ UNCHANGED <<screen, fbVars, ringVars, ch, histVars>>

RingHeadStore(p) ==
  /\ pc[p] = "h_store"
  /\ head' = v[p]
  /\ Goto(p, "c_test")
  /\ UNCHANGED <<screen, fbVars, buffer, count, dropped, ch, v, histVars>>

(* ... and the number of bytes kept or overwritten.                        *)
RingTest(p) ==
  /\ pc[p] = "c_test"
  /\ Goto(p, IF count < RingSize THEN "c_load" ELSE "d_load")
  /\ UNCHANGED <<screen, fbVars, ringVars, ch, v, histVars>>

RingCountLoad(p) ==
  /\ pc[p] \in {"c_load", "d_load"}
  /\ Load(p, 1 + IF pc[p] = "c_load" THEN count ELSE dropped)
  /\ Goto(p, IF pc[p] = "c_load" THEN "c_store" ELSE "d_store")
  /\ UNCHANGED <<screen, fbVars, ringVars, ch, histVars>>

RingCountStore(p) ==
  /\ \/ pc[p] = "c_store" /\ count' = v[p] /\ UNCHANGED dropped
     \/ pc[p] = "d_store" /\ dropped' = v[p] /\ UNCHANGED count
  /\ Goto(p, "putc")
  /\ UNCHANGED <<screen, fbVars, buffer, head, ch, v, histVars>>

printk_ring_putc(p) ==
  \/ RingSlot(p) \/ RingStore(p) \/ RingHeadLoad(p) \/ RingHeadStore(p)
  \/ RingTest(p) \/ RingCountLoad(p) \/ RingCountStore(p)

-----------------------------------------------------------------------------
(* fbcon_putc(), reached through console_write_all().                      *)

(* The pixels of a cell, in the arithmetic of uint32_t, that draw_pixel()  *)
(* does not refuse, as the cells they are in.                              *)
Pixels(column, row) ==
  {<<(column * CELL_WIDTH + x) % Modulus, (row * CELL_HEIGHT + y) % Modulus>> :
     x \in 0..CELL_WIDTH - 1, y \in 0..CELL_HEIGHT - 1}

Hit(column, row) ==
  {<<q[1] \div CELL_WIDTH, q[2] \div CELL_HEIGHT>> :
     q \in {r \in Pixels(column, row) : r[1] < screen[1] /\ r[2] < screen[2]}} \cap Cells

Draw(c, column, row) ==
  cells' = [k \in Cells |-> IF k \in Hit(column, row) THEN c ELSE cells[k]]

(* The character is done.                                                  *)
Done(p) ==
  /\ Goto(p, "idle")
  /\ calm' = (calm \/ (p \in alone /\ ch[p] = LF))
  /\ alone' = alone \ {p}
  /\ UNCHANGED <<printed, text, log, torn>>

Continue(p, q) == Goto(p, q) /\ UNCHANGED histVars

Putc(p) ==
  /\ pc[p] = "putc"
  /\ \/ (columns = 0 \/ rows = 0) /\ Done(p)
     \/ /\ columns # 0 /\ rows # 0
        /\ \/ ch[p] = BS /\ cursor_x = 0 /\ Done(p)
           \/ ch[p] = BS /\ cursor_x # 0 /\ Continue(p, "b_load")
           \/ ch[p] = LF /\ Continue(p, "n_x")
           \/ ch[p] \in Letters /\ Continue(p, "draw")
  /\ UNCHANGED <<screen, fbVars, ringVars, ch, v>>

(* draw_char().                                                            *)
draw_char(p) ==
  /\ pc[p] = "draw"
  /\ Draw(ch[p], cursor_x, cursor_y)
  /\ Continue(p, "x_load")
  /\ UNCHANGED <<screen, cursor_x, cursor_y, ringVars, ch, v>>

(* cursor_x++, and cursor_x-- of backspace().                              *)
CursorLoad(p) ==
  /\ \/ pc[p] = "x_load" /\ Load(p, (cursor_x + 1) % Modulus) /\ Continue(p, "x_store")
     \/ pc[p] = "b_load" /\ Load(p, (cursor_x - 1) % Modulus) /\ Continue(p, "b_store")
  /\ UNCHANGED <<screen, fbVars, ringVars, ch>>

CursorStore(p) ==
  /\ cursor_x' = v[p]
  /\ \/ pc[p] = "x_store" /\ Continue(p, "x_test")
     \/ pc[p] = "b_store" /\ Continue(p, "b_clear")
  /\ UNCHANGED <<screen, cursor_y, cells, ringVars, ch, v>>

(* Mutant: the row is ended when the cursor is past its end.               *)
CursorTestLate(p) ==
  /\ pc[p] = "x_test"
  /\ \/ cursor_x > columns /\ Continue(p, "n_x")
     \/ cursor_x <= columns /\ Done(p)
  /\ UNCHANGED <<screen, fbVars, ringVars, ch, v>>

(* The end of the row.                                                     *)
CursorTest(p) ==
  /\ pc[p] = "x_test"
  /\ \/ cursor_x >= columns /\ Continue(p, "n_x")
     \/ cursor_x < columns /\ Done(p)
  /\ UNCHANGED <<screen, fbVars, ringVars, ch, v>>

(* clear_cell() of backspace().                                            *)
clear_cell(p) ==
  /\ pc[p] = "b_clear"
  /\ Draw(Blank, cursor_x, cursor_y)
  /\ Done(p)
  /\ UNCHANGED <<screen, cursor_x, cursor_y, ringVars, ch, v>>

(* newline().                                                              *)
NewlineX(p) ==
  /\ pc[p] = "n_x"
  /\ cursor_x' = 0
  /\ Continue(p, "n_test")
  /\ UNCHANGED <<screen, cursor_y, cells, ringVars, ch, v>>

(* Mutant: the last row is told by equality.                               *)
NewlineTestEqual(p) ==
  /\ pc[p] = "n_test"
  /\ Continue(p, IF (cursor_y + 1) % Modulus # rows THEN "n_load" ELSE "scroll")
  /\ UNCHANGED <<screen, fbVars, ringVars, ch, v>>

NewlineTest(p) ==
  /\ pc[p] = "n_test"
  /\ Continue(p, IF (cursor_y + 1) % Modulus < rows THEN "n_load" ELSE "scroll")
  /\ UNCHANGED <<screen, fbVars, ringVars, ch, v>>

NewlineLoad(p) ==
  /\ pc[p] = "n_load"
  /\ Load(p, (cursor_y + 1) % Modulus)
  /\ Continue(p, "n_store")
  /\ UNCHANGED <<screen, fbVars, ringVars, ch>>

NewlineStore(p) ==
  /\ \/ pc[p] = "n_store" /\ cursor_y' = v[p]
     \/ pc[p] = "n_last" /\ cursor_y' = rows - 1
  /\ Done(p)
  /\ UNCHANGED <<screen, cursor_x, cells, ringVars, ch, v>>

(* scroll_up() with clear_text_row().                                      *)
scroll_up(p) ==
  /\ pc[p] = "scroll"
  /\ cells' = [c \in Cells |-> IF c[2] < rows - 1 THEN cells[<<c[1], c[2] + 1>>] ELSE Blank]
  /\ Continue(p, "n_last")
  /\ UNCHANGED <<screen, cursor_x, cursor_y, ringVars, ch, v>>

newline(p) == NewlineX(p) \/ NewlineTest(p) \/ NewlineLoad(p) \/ NewlineStore(p) \/ scroll_up(p)

fbcon_putc(p) ==
  \/ Putc(p) \/ draw_char(p) \/ CursorLoad(p) \/ CursorStore(p) \/ CursorTest(p)
  \/ clear_cell(p) \/ newline(p)

Next ==
  \E p \in Printers :
    (\E c \in Letters \cup {LF, BS} : Emit(p, c)) \/ printk_ring_putc(p) \/ fbcon_putc(p)

Spec == Init /\ [][Next]_vars

-----------------------------------------------------------------------------
Quiet == \A p \in Printers : pc[p] = "idle"

(* As long as no character was interrupted by another, the screen shows    *)
(* the last rows of the text, the cursor stands behind it, and the cells   *)
(* scrolled in are blank.                                                  *)
ScreenShowsText ==
  Quiet /\ ~torn /\ columns # 0 /\ rows # 0 =>
    /\ cells = Shown(text)
    /\ cursor_y = Len(text) - 1 /\ cursor_x = Len(LastRow(text))

(* However the stores of several printers to the cursor mixed, one line    *)
(* that is ended undisturbed brings the cursor back onto the screen, where *)
(* it stays until printers meet again.  Until then a cursor that is off    *)
(* the screen, also by wrapping below 0, does no harm: what draw_char()    *)
(* and clear_cell() are about to change is the cell of the cursor or none. *)
CursorHeals ==
  /\ Quiet /\ calm => \/ cursor_x < columns /\ cursor_y < rows
                      \/ cursor_x = 0 /\ cursor_y = 0
  /\ \A p \in Printers : pc[p] \in {"draw", "b_clear"} =>
       Hit(cursor_x, cursor_y) \subseteq {<<cursor_x, cursor_y>>}

(* printk_ring: as long as no character was interrupted by another, the    *)
(* count bytes before head are the last that were printed, and the rest    *)
(* was counted as dropped.  After that the bytes may be mixed up, but no   *)
(* more bytes are claimed than printers can have added at once.            *)
LogKeepsLast ==
  /\ head \in 0..RingSize - 1
  /\ count <= RingSize + Cardinality(Printers) - 1
  /\ Quiet /\ ~torn =>
       /\ count + dropped = printed
       /\ log = [i \in 1..count |-> buffer[(head - count + i - 1) % RingSize]]
====
