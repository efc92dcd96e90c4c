------------------------------- MODULE Console -------------------------------
(***************************************************************************)
(* The terminals: keyboard.c turns a key into a call of tty.c, whose text  *)
(* goes through vga.c into a ring of Hist lines of which Height are shown. *)
(* A handler runs with interrupts off, so one key is one step.  A text is  *)
(* a sequence of characters with NL and TAB; an empty cell holds NUL.      *)
(* Colours are left out, and so is the copy of the visible lines to the    *)
(* video memory, which every handler ends with.                            *)
(***************************************************************************)
EXTENDS StringOps

CONSTANTS Ttys,         \* 1 .. MAX_TTY
          Width, Height,
          Hist,         \* TTY_HIST_SIZE, the range of top_line_index
          TabStop,
          MAX_CMD_LEN,
          Banner, Prompt,
          Blank,        \* the character " "
          Clear,        \* the word "clear"
          Command,      \* another word the shell knows ...
          Output,       \* ... and the text it prints
          NotFound,     \* the text before a word it does not know
          Sessions      \* what happens at the keyboard: the keys that are pressed, the texts the
                        \* kernel prints by itself, and a bound on the keys and messages

NL  == -1
TAB == -2

\* What the values of the constants must satisfy
ConsoleAssumptions ==
  /\ 1 \in Ttys
  /\ Width % TabStop = 0
  /\ Height < Hist
  /\ MAX_CMD_LEN + Len(Prompt) < Width * Height

VARIABLES session,      \* what the user does
          tty,          \* the terminals
          cur,          \* current_tty
          held,         \* the modifier flags that are true
          dead,         \* the machine is switched off or has panicked
          steps

vars == <<session, tty, cur, held, dead, steps>>
-----------------------------------------------------------------------------
EmptyLine == [x \in 0 .. Width - 1 |-> NUL]
EmptyFb   == [l \in 0 .. Hist - 1 |-> EmptyLine]

\* cli and, as its last cell, the byte behind the array: padding at the end of struct tty
EmptyCli == [k \in 0 .. MAX_CMD_LEN |-> NUL]

(* tty_init.  `live` and `odd` are no fields of the code.  `live` is the   *)
(* first line of the window into which text is written, whatever the user  *)
(* looks at.  `odd` names what has happened that the code does not handle: *)
(*   "full"     a key was pressed when the line was full: it is echoed and *)
(*              not kept;                                                  *)
(*   "mixed"    text of the kernel came between the characters of a line;  *)
(*   "strayed"  the window of the history was changed or taken for the     *)
(*              live one, while the user looked back.                      *)
(* The first two last as long as the line, the third until the screen is   *)
(* cleared.                                                                *)
tty_init ==
  [loaded |-> FALSE, fb |-> EmptyFb, top |-> 0, x |-> 0, y |-> 0, status |-> FALSE,
   stop_scroll |-> TRUE, save |-> 0, cli |-> EmptyCli, live |-> 0, odd |-> {}]

\* The user looks back at other lines than those text goes into
LooksBack(t) == t.status /\ t.top # t.save

\* t, in which `what` has happened if `when`
Noted(t, what, when) == IF when THEN [t EXCEPT !.odd = @ \cup {what}] ELSE t

\* ft_strlen of cli, and the command line it ends
ft_strlen(t) == CHOOSE k \in 0 .. MAX_CMD_LEN : t.cli[k] = NUL /\ \A j \in 0 .. k - 1 : t.cli[j] # NUL
line(t)      == [k \in 1 .. ft_strlen(t) |-> t.cli[k - 1]]

\* The history stays entered, so what was saved is what text goes into afterwards
tty_framebuffer_clear(t) ==
  [Noted([t EXCEPT !.odd = @ \ {"strayed"}], "strayed", t.status)
     EXCEPT !.fb = EmptyFb, !.top = 0, !.x = 0, !.y = 0, !.live = 0]

\* Entered again, it saves a line of the history
tty_history_enable(t) == [Noted(t, "strayed", LooksBack(t)) EXCEPT !.status = TRUE, !.save = t.top]

tty_history_disable_Stays(t) == [t EXCEPT !.status = FALSE]

tty_history_disable(t) == [t EXCEPT !.status = FALSE, !.top = t.save]

tty_history_scroll_up_NoEnd(t) == IF ~t.status THEN t ELSE [t EXCEPT !.top = (@ - 1) % Hist]

tty_history_scroll_up(t) ==
  LET oldest_line == IF t.stop_scroll THEN 0 ELSE (t.save + 1) % Hist
  IN  IF ~t.status \/ t.top = oldest_line THEN t ELSE [t EXCEPT !.top = (@ - 1) % Hist]

tty_history_scroll_down(t) ==
  IF ~t.status \/ (t.save + t.y) % Hist = (t.top + t.y) % Hist THEN t
  ELSE [t EXCEPT !.top = (@ + 1) % Hist]

tty_framebuffer_scroll_down_Dirty(t) ==
  LET top == (t.top + 1) % Hist
  IN  [t EXCEPT !.top = top, !.live = (@ + 1) % Hist, !.stop_scroll = @ /\ top # 0]

(* A new line at the bottom of the window, which is emptied.  A newline    *)
(* does not leave the history: it is then its window that moves.           *)
tty_framebuffer_scroll_down(t) ==
  LET top == (t.top + 1) % Hist
  IN  [Noted(t, "strayed", t.status)
         EXCEPT !.top = top, !.live = (@ + 1) % Hist,
                !.stop_scroll = @ /\ top # 0,
                !.fb[(top + Height - 1) % Hist] = EmptyLine]

\* A character at the cursor; the history is left first
tty_framebuffer_write(t, c) ==
  LET u == IF t.status THEN tty_history_disable(t) ELSE t
  IN  IF ~t.loaded THEN t ELSE [u EXCEPT !.fb[(u.top + u.y) % Hist][u.x] = c]

\* The two loops at the end of ft_putchar, which run at most once each
settle(t) ==
  LET u == IF t.x >= Width THEN [t EXCEPT !.x = @ - Width, !.y = @ + 1] ELSE t
  IN  IF u.y >= Height THEN [tty_framebuffer_scroll_down(u) EXCEPT !.y = @ - 1] ELSE u

put_cell(t, c) == settle([tty_framebuffer_write(t, c) EXCEPT !.x = @ + 1])

\* ft_putchar; a tab is at least one blank, up to the next tab stop
ft_putchar(t, c) ==
  CASE c = NL  -> settle([t EXCEPT !.y = @ + 1, !.x = 0])
    [] c = TAB -> FoldLeft(put_cell, t, [i \in 1 .. TabStop - (t.x % TabStop) |-> Blank])
    [] OTHER   -> put_cell(t, c)

\* vga_printf of a text whose conversions are done
vga_printf(t, text) == FoldLeft(ft_putchar, t, text)
-----------------------------------------------------------------------------
(* keyboard_printable_handler: the line keeps what fits, the echo shows    *)
(* all.  The character that fills the line is ended behind the array.      *)
printable(t, c) ==
  LET len == ft_strlen(t)
      u   == IF len < MAX_CMD_LEN THEN [t EXCEPT !.cli[len] = c, !.cli[len + 1] = NUL]
             ELSE Noted(t, "full", TRUE)
  IN  vga_printf(u, <<c>>)

\* Nothing that happened to a line outlives it
Emptied(t) == [t EXCEPT !.odd = @ \ {"full", "mixed"}]

backspace_NoLineUp(t) ==
  LET len == ft_strlen(t)
      u   == IF t.x > 0 THEN [t EXCEPT !.x = @ - 1] ELSE t
  IN  IF len = 0 THEN t
      ELSE [u EXCEPT !.cli[len - 1] = NUL, !.fb[(u.top + u.y) % Hist][u.x] = NUL]

(* keyboard_backspace_handler: the cell is found from the window shown,    *)
(* that of the history too.                                                *)
backspace(t) ==
  LET len == ft_strlen(t)
      u == CASE t.x > 0 -> [t EXCEPT !.x = @ - 1]
             [] t.x = 0 /\ t.y > 0 -> [t EXCEPT !.x = Width - 1, !.y = @ - 1]
             [] OTHER -> t
      v == Noted([u EXCEPT !.cli[len - 1] = NUL, !.fb[(u.top + u.y) % Hist][u.x] = NUL],
                 "strayed", LooksBack(t))
  IN  CASE len = 0 -> t
        [] len = 1 -> Emptied(v)
        [] OTHER   -> v

\* The command of a line: what the shell does with its first word
run_command(t, argv) ==
  CASE argv[1] = Clear   -> tty_framebuffer_clear(t)
    [] argv[1] = Command -> vga_printf(t, Output)
    [] OTHER -> vga_printf(t, NotFound \o argv[1] \o <<NL>>)

(* tty_cli_handle_nl: the table of ft_split, or a copy of a word, may not  *)
(* be had; a line of blanks has no first word.                             *)
tty_cli_handle_nl(t, fail) ==
  LET argv == ft_split(line(t), Blank, fail).tab
      u    == vga_printf(t, <<NL>>)
      done == IF ft_strlen(t) > 0 /\ 0 \notin fail /\ argv[1] # NULL THEN run_command(u, argv) ELSE u
  IN  vga_printf([Emptied(done) EXCEPT !.cli = EmptyCli], Prompt)

\* keyboard_get_shifted_value of a letter and of a key of the number pad
Alt(c)     == c + 10
shifted(c) == IF held \cap {"caps", "left_shift", "right_shift"} # {} THEN Alt(c) ELSE c

\* The keys that call tty_history_enable, whether or not the history is shown already
enters(key) == key = "pgup" \/ (key = "up" /\ "ctrl" \in held)

(* keyboard_navigation_handler.  A key of the number pad prints its digit  *)
(* when Num Lock is on and changes the colour when it is off.              *)
navigation(t, key, digit) ==
  LET u == IF enters(key) THEN tty_history_enable(t) ELSE t
  IN  CASE u.status /\ key \in {"pgup", "up"}   -> tty_history_scroll_up(u)
        [] u.status /\ key \in {"pgdn", "down"} -> tty_history_scroll_down(u)
        [] ~u.status /\ "num" \in held          -> printable(u, digit)
        [] OTHER -> u
-----------------------------------------------------------------------------
Init ==
  /\ session \in Sessions
  /\ tty = [i \in Ttys |->
              IF i = 1 THEN vga_printf([tty_init EXCEPT !.loaded = TRUE], Banner \o Prompt) ELSE tty_init]
  /\ cur = 1
  /\ held = {}
  /\ dead = FALSE
  /\ steps = 0

Pressed(category, value) == <<category, value>> \in session.keys

Values(category) == {k[2] : k \in {j \in session.keys : j[1] = category}}

Printable ==
  \E c \in Values("char") :
    /\ Pressed("char", c)
    /\ tty' = [tty EXCEPT ![cur] = printable(@, shifted(c))]
    /\ UNCHANGED <<cur, held, dead>>

Backspace ==
  /\ Pressed("special", "backspace")
  /\ tty' = [tty EXCEPT ![cur] = backspace(@)]
  /\ UNCHANGED <<cur, held, dead>>

Enter ==
  /\ Pressed("special", "enter")
  /\ \E fail \in {{}, {0}, {1}} : tty' = [tty EXCEPT ![cur] = tty_cli_handle_nl(@, fail)]
  /\ UNCHANGED <<cur, held, dead>>

Escape ==
  /\ Pressed("special", "escape")
  /\ dead' = TRUE
  /\ UNCHANGED <<tty, cur, held>>

Navigation ==
  \E k \in Values("nav") :
    /\ Pressed("nav", k)
    /\ tty' = [tty EXCEPT ![cur] = navigation(@, k, Blank)]
    /\ UNCHANGED <<cur, held, dead>>

\* keyboard_press_handler, keyboard_release_handler and keyboard_toggle_handler
Control ==
  /\ \/ \E f \in Values("press")   : Pressed("press", f) /\ held' = held \cup {f}
     \/ \E f \in Values("release") : Pressed("release", f) /\ held' = held \ {f}
     \/ \E f \in Values("toggle")  : Pressed("toggle", f) /\ held' = IF f \in held THEN held \ {f} ELSE held \cup {f}
  /\ UNCHANGED <<tty, cur, dead>>

\* Text that the user has not asked for, which may come into the line
printed(t, text) == vga_printf(Noted(t, "mixed", ft_strlen(t) > 0), text)


(* tty_load: the buffer of a terminal is allocated when it is first shown, *)
(* or the kernel panics.  The banner and the prompt are printed before     *)
(* current_tty changes, on the terminal the user leaves.                   *)
tty_load(i) ==
  \/ /\ tty[i].loaded
     /\ cur' = i
     /\ UNCHANGED <<tty, held, dead>>
  \/ /\ ~tty[i].loaded
     /\ tty' = [tty EXCEPT ![i] = [tty_framebuffer_clear(@) EXCEPT !.loaded = TRUE],
                           ![cur] = printed(@, Banner \o Prompt)]
     /\ cur' = i
     /\ UNCHANGED <<held, dead>>
  \/ /\ ~tty[i].loaded
     /\ dead' = TRUE
     /\ UNCHANGED <<tty, cur, held>>

Function == \E i \in Values("function") : Pressed("function", i) /\ tty_load(i)

\* printk and vga_printf anywhere else in the kernel
Message ==
  \E m \in session.messages :
    /\ tty' = [tty EXCEPT ![cur] = printed(@, m)]
    /\ UNCHANGED <<cur, held, dead>>

\* keyboard_handle: the key read from the controller and its routine
Handle == Printable \/ Backspace \/ Enter \/ Escape \/ Navigation \/ Control \/ Function

Next ==
  /\ ~dead
  /\ steps < session.steps
  /\ steps' = steps + 1
  /\ Handle \/ Message
  /\ session' = session

Spec == Init /\ [][Next]_vars
-----------------------------------------------------------------------------
Loaded == {i \in Ttys : tty[i].loaded}

\* The cell k places before the cursor, in the ring
CellBefore(t, k) ==
  LET p == (((t.top + t.y) % Hist) * Width + t.x - k) % (Hist * Width)
  IN  t.fb[p \div Width][p % Width]

(* Before the cursor the screen shows exactly the line that Enter would    *)
(* run, over the end of a line, after scrolling, after backspaces and      *)
(* after a look at the history, on every terminal.                         *)
EchoIsCommandLine(t) ==
  \A k \in DOMAIN line(t) : CellBefore(t, Len(line(t)) - k + 1) = line(t)[k]

\* From the cursor to the end of the window there is nothing.
NothingBehindCursor(t) ==
  \A y \in t.y .. Height - 1 : \A x \in 0 .. Width - 1 :
    y > t.y \/ x >= t.x => t.fb[(t.top + y) % Hist][x] = NUL


(* Who has left the history writes where the text had ended: the window is *)
(* the one text goes into, and while the history is shown it is saved.     *)
BackToLive(t) == (IF t.status THEN t.save ELSE t.top) = t.live

(* As long as the ring has not been filled, looking back ends at its first *)
(* line and looking forward at the live window.                            *)
HistoryInOrder(t) == t.status /\ t.stop_scroll /\ t.live + Height =< Hist => t.top =< t.live

(* The history is a look back that ends where it began: within the lines   *)
(* that were written, and back at the live window.  Exceptions, which the  *)
(* code has: Page Up pressed again while the user looks back saves a line  *)
(* of the history over the live one (keyboard.c:69, tty.c:62); a newline   *)
(* at the bottom of the screen scrolls the history instead of the text     *)
(* (tty.c:99); and clear empties the buffer without leaving the history.   *)
(* From then on the terminal is "strayed", until it is cleared.            *)
HistorySound ==
  \A i \in Loaded : "strayed" \notin tty[i].odd => BackToLive(tty[i]) /\ HistoryInOrder(tty[i])
=============================================================================
