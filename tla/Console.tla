-------------------------------- MODULE Console --------------------------------
(***************************************************************************)
(* The console: the text screen (src/vga.c), the keyboard interrupt          *)
(* (src/keyboard.c) and what kernel_main does between sti and its hlt loop   *)
(* (kernel.c:161-164 and kernel_shell).  A run of the handler is one step,   *)
(* because its gate clears IF.  The main thread is interruptible at each     *)
(* load and store of vga_index and of a cell, also inside vga_index++; only  *)
(* a scroll of its own is one step.  Colours are left out.                   *)
(***************************************************************************)
EXTENDS Shell

CONSTANTS
  Columns, Rows,  \* 80 and 25
  BufferSize,     \* 256
  Keys,           \* the characters kbd_us gives for the keys in use, 0 for dead keys
  Prompt,         \* what the prompt shows
  LogPrefix,      \* what klog_ok and klog_err put before a message
  LogText,        \* a message of boot or of page_fault_handler
  LogLines,       \* how many of them boot may print before os_greeting
  EarlyKeys       \* keys struck before the prompt is locked (a bound of the model)

Cells == Columns * Rows
ASSUME ConsoleAssumption ==
  /\ Columns \in Nat \ {0} /\ Rows \in Nat \ {0, 1}
  /\ BufferSize \in Nat \ {0} /\ EarlyKeys \in Nat
  /\ Keys \subseteq Nat /\ LogLines \subseteq Nat
  /\ Prompt \in Seq(Nat \ {NL, BS})
  /\ LogPrefix \in Seq(Nat) /\ LogText \in Seq(Nat)

VARIABLES
  screen,        \* buff (the glyph of each cell), vga_index and vga_limit, and
                 \* moved: history, how often the screen scrolled since the
                 \* last lock, counted up to Rows (by then the line is gone)
  shell_buffer,  \* its first buffer_idx characters
  main,          \* where the main thread is: pc, loop index i, register
  halted,        \* page_fault_handler runs, with interrupts off for good
  early          \* keys struck before the first lock; 0 again when a line
                 \* typed on top of them is ended

vars == <<screen, shell_buffer, main, halted, early>>

(***************************************************************************)
(* vga.c.  One character as vga_print_color handles it, the scroll included.*)
(***************************************************************************)
ScrollsLate(s) == s.index > Cells
Scrolls(s) == s.index >= Cells
Scroll(s) ==
  IF ~Scrolls(s) THEN s
  ELSE [s EXCEPT !.index = (Rows - 1) * Columns,
                 !.buff = [k \in 0 .. Cells - 1 |->
                             IF k < (Rows - 1) * Columns THEN @[k + Columns] ELSE SPACE]]

Erase(s) == IF s.index > s.limit
            THEN [s EXCEPT !.index = @ - 1, !.buff[s.index - 1] = SPACE]
            ELSE s

Place(s, c) ==
  CASE c = NL -> [s EXCEPT !.index = (@ \div Columns + 1) * Columns]
    [] c = BS -> Erase(s)
    [] OTHER -> [s EXCEPT !.buff[s.index] = c, !.index = @ + 1]

vga_print_char(s, c) ==
  LET placed == Place(s, c)
  IN  [Scroll(placed) EXCEPT !.moved = IF Scrolls(placed) /\ @ < Rows THEN @ + 1 ELSE @]

vga_print(s, str) ==
  LET after[i \in 0 .. Len(str)] ==
        IF i = 0 THEN s ELSE vga_print_char(after[i - 1], str[i])
  IN  after[Len(str)]
vga_clear_screen(s) == [s EXCEPT !.buff = [k \in 0 .. Cells - 1 |-> SPACE], !.index = 0]
LockNothing(s) == [s EXCEPT !.moved = 0]
vga_lock_cursor(s) == [s EXCEPT !.limit = s.index, !.moved = 0]

(* klog_ok and klog_err, which differ in prefix and colour, and os_greeting.*)
klog(s, message) == vga_print(s, LogPrefix \o message \o <<NL>>)
os_greeting(s, message) == vga_print(s, message \o <<NL>>)

(* What kernel_main has printed when it comes to sti: a line for each part  *)
(* it set up and for each entry of the memory map, the greeting, one more.  *)
Booted(lines) ==
  LET dark == vga_clear_screen([buff |-> <<>>, index |-> 0, limit |-> 0, moved |-> 0])
      log[n \in 0 .. lines] == IF n = 0 THEN dark ELSE klog(log[n - 1], LogText)
  IN  klog(os_greeting(log[lines], LogText), LogText)

(***************************************************************************)
(* The main thread, from sti on: clear the cells, home the cursor, print    *)
(* the prompt character by character, lock, and halt for good.              *)
(***************************************************************************)
Init == /\ \E lines \in LogLines : screen = Booted(lines)
        /\ shell_buffer = <<>>
        /\ main = [pc |-> "clear", i |-> 0, reg |-> 0]
        /\ halted = FALSE
        /\ early = 0

Running(pc) == main.pc = pc /\ ~halted
Goto(pc, i, reg) == /\ main' = [pc |-> pc, i |-> i, reg |-> reg]
                    /\ UNCHANGED <<shell_buffer, halted, early>>

clear_cell == /\ Running("clear") /\ main.i < Cells
              /\ screen' = [screen EXCEPT !.buff[main.i] = SPACE]
              /\ Goto("clear", main.i + 1, 0)
home == /\ Running("clear") /\ main.i = Cells
        /\ screen' = [screen EXCEPT !.index = 0]
        /\ Goto("put", 1, 0)
aim == /\ Running("put") /\ main.i <= Len(Prompt)
       /\ UNCHANGED screen
       /\ Goto("cell", main.i, screen.index)
put == /\ Running("cell")
       /\ screen' = [screen EXCEPT !.buff[main.reg] = Prompt[main.i]]
       /\ Goto("load", main.i, 0)
load == /\ Running("load")
        /\ UNCHANGED screen
        /\ Goto("store", main.i, screen.index)
store == /\ Running("store")
         /\ screen' = [screen EXCEPT !.index = main.reg + 1]
         /\ Goto("scroll", main.i, 0)
scroll == /\ Running("scroll")
          /\ screen' = Scroll(screen)
          /\ Goto("put", main.i + 1, 0)
read_cursor == /\ Running("put") /\ main.i > Len(Prompt)
               /\ UNCHANGED screen
               /\ Goto("lock", 0, screen.index)
lock_cursor == /\ Running("lock")
               /\ screen' = [screen EXCEPT !.limit = main.reg, !.moved = 0]
               /\ Goto("hlt", 0, 0)

kernel_shell == \/ clear_cell \/ home \/ aim \/ put \/ load \/ store \/ scroll
                \/ read_cursor \/ lock_cursor

(***************************************************************************)
(* keyboard_handler_main, for a key that yields a character.  Dead keys and *)
(* key releases change nothing.                                             *)
(***************************************************************************)
Struck(line) == /\ ~halted
                /\ main.pc = "hlt" \/ early < EarlyKeys
                /\ early' = IF main.pc # "hlt" THEN early + 1
                            ELSE IF line = "ended" THEN 0 ELSE early
                /\ UNCHANGED main

(* The new prompt: printed, then locked; or the other way round.            *)
LockedFirst(s) == vga_print(vga_lock_cursor(s), <<NL>> \o Prompt)
NewPrompt(s) == vga_lock_cursor(vga_print(s, <<NL>> \o Prompt))

Enter ==
  LET onward == vga_print(screen, <<NL>>)
      does == execute_command(shell_buffer)
      after == IF does.clear THEN vga_clear_screen(onward) ELSE vga_print(onward, does.print)
      Fault == /\ does.fault
               /\ screen' = klog(onward, LogText)
               /\ halted' = TRUE
               /\ UNCHANGED shell_buffer
      Prompts == /\ ~does.fault
                 /\ screen' = NewPrompt(after)
                 /\ shell_buffer' = <<>>
                 /\ UNCHANGED halted
  IN  Struck("ended") /\ (Fault \/ Prompts)

Backspace == /\ Struck("edited") /\ shell_buffer # <<>>
             /\ shell_buffer' = Front(shell_buffer)
             /\ screen' = vga_print(screen, <<BS>>)
             /\ UNCHANGED halted

(* Without the test that keeps a place for the NUL.                         *)
LetterUnbounded(c) == /\ Struck("edited")
                      /\ shell_buffer' = Append(shell_buffer, c)
                      /\ screen' = vga_print(screen, <<c>>)
                      /\ UNCHANGED halted

Letter(c) == /\ Struck("edited") /\ Len(shell_buffer) < BufferSize - 1
             /\ shell_buffer' = Append(shell_buffer, c)
             /\ screen' = vga_print(screen, <<c>>)
             /\ UNCHANGED halted

keyboard_handler_main == \/ NL \in Keys /\ Enter
                         \/ BS \in Keys /\ Backspace
                         \/ \E c \in Keys \ {NUL, NL, BS} : Letter(c)

Next == kernel_shell \/ keyboard_handler_main
Spec == Init /\ [][Next]_vars
--------------------------------------------------------------------------------
Ready == main.pc = "hlt" /\ ~halted
CellsAre(from, text) ==
  \A k \in DOMAIN text : from + k - 1 \in 0 .. Cells - 1 /\ screen.buff[from + k - 1] = text[k]

(* Type invariant; shell_buffer leaves room for its NUL.                    *)
TypeOK ==
  /\ screen \in [buff : [0 .. Cells - 1 -> Nat], index : Nat, limit : Nat, moved : 0 .. Rows]
  /\ shell_buffer \in Seq(Keys \ {NUL, NL, BS}) /\ Len(shell_buffer) < BufferSize
  /\ main \in [pc : {"clear", "put", "cell", "load", "store", "scroll", "lock", "hlt"},
               i : 0 .. Max({Cells, Len(Prompt) + 1}), reg : Nat]
  /\ halted \in BOOLEAN /\ early \in 0 .. EarlyKeys

(* Cursor and limit are inside the 2000 cells of video memory (vga.c:121,   *)
(* 190), with one exception: between vga_index++ and its own scroll the     *)
(* main thread leaves the cursor one past the end, and a key struck right   *)
(* there would put its glyph off the screen.                                *)
CursorOnScreen == main.pc # "scroll" => screen.index < Cells /\ screen.limit < Cells

(* What the user sees between the prompt and the cursor is what Enter will  *)
(* execute, as long as the line has not scrolled.  Keys struck while the    *)
(* main thread still prints the first prompt spoil this, but only until the *)
(* line they went into is ended.                                            *)
Echoes == /\ screen.index = screen.limit + Len(shell_buffer)
          /\ CellsAre(screen.limit, shell_buffer)
EchoMatches == Ready /\ early = 0 /\ screen.moved = 0 => Echoes

(* vga.c:6, "precaution for not accidentally overwriting the command        *)
(* prompt": whatever is typed and erased, the prompt stands on the screen   *)
(* before the line being edited, scrolled up with it, until it scrolls out, *)
(* whatever an early key did to the first prompt.                           *)
PromptStands ==
  LET end == screen.limit - screen.moved * Columns
      from == end - Len(Prompt)
  IN  Ready /\ early = 0 /\ from >= 0 => end <= screen.index /\ CellsAre(from, Prompt)
--------------------------------------------------------------------------------
(* Statements of the sources that the code does not keep (see the README).  *)

(* kernel.c:149-150: interrupts are never turned on before the kernel is    *)
(* "100% fully initialized and ready to handle them": keys struck right     *)
(* after sti are treated like any other.                                    *)
EarlyKeysShown == Ready /\ screen.moved = 0 => Echoes

(* vga.c:6: vga_limit only keeps Backspace off the prompt; the characters   *)
(* of the line being edited are erased where they are deleted, also after   *)
(* the screen scrolled.                                                     *)
EchoAlwaysMatches == Ready => CellsAre(screen.index - Len(shell_buffer), shell_buffer)
================================================================================
