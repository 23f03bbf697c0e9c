----------------------------- MODULE CommandLine ----------------------------
(***************************************************************************)
(* The line the user edits in command and search mode: the line itself     *)
(* (cmdline.c), its history (history.c), the completion of a command with  *)
(* the tab key (tabexp.c) and the keys, escapes and mouse events of the    *)
(* two modes (command_mode.c, search_mode.c).                              *)
(*                                                                         *)
(* A text is a sequence of bytes.  The character "e" has two of them, "e1" *)
(* and "e2"; the others are their own byte.  "/" separates words for the   *)
(* escapes and begins a restricted search; " " separates words for ^W.     *)
(* What the commands and searches do is left to the other modules.         *)
(***************************************************************************)
EXTENDS Integers, Sequences, SequencesExt

CONSTANTS
  Chars,        \* characters that are typed
  Commands,     \* the names of the commands, a sorted sequence of texts
  MaxBytes,     \* bound: bytes of the line
  FirstSize,    \* the size of the line's buffer at the start
  MaxHistory    \* max_lines of both histories

VARIABLES
  cl,           \* cmdline: line, blen, clen, bpos, cpos, size
  mode,         \* input_mode
  hist,         \* the histories, newest entry first
  hpos,         \* their search_pos: 0 is NULL, Gone an entry that was freed
  htext,        \* their history_search_text
  tab,          \* tabexp: the expansions and the index of the last one used
  clicked,      \* modes that the mouse has left in the middle of a recall
  stray         \* an escape or the mouse was used since the last expansion

lvars == <<cl, mode, hist, hpos, htext, tab, clicked, stray>>

Modes == {"command", "search"}
NoText == <<"none">>
Gone == -1
NoTab == [words |-> <<>>, idx |-> 0]

Bytes(ch) == IF ch = "e" THEN <<"e1", "e2">> ELSE <<ch>>

(* u_strlen_safe, u_prev_char_pos, u_get_char: characters and positions *)
u_strlen(s) == Len(SelectSeq(s, LAMBDA b : b # "e2"))
u_prev_char_pos(s, i) == IF s[i] = "e2" THEN i - 2 ELSE i - 1
u_next_char_pos(s, i) == IF s[i + 1] = "e1" THEN i + 2 ELSE i + 1

Before(s, i) == SubSeq(s, 1, i)
After(s, i)  == SubSeq(s, i + 1, Len(s))

-----------------------------------------------------------------------------
(* The line: operators from a cmdline to the cmdline after the call. *)

cmdline_init == [line |-> <<>>, blen |-> 0, clen |-> 0, bpos |-> 0, cpos |-> 0, size |-> FirstSize]

cmdline_insert_ch(c, ch) ==
  LET n == Len(Bytes(ch)) IN
  [line |-> Before(c.line, c.bpos) \o Bytes(ch) \o After(c.line, c.bpos),
   blen |-> c.blen + n, clen |-> c.clen + 1, bpos |-> c.bpos + n, cpos |-> c.cpos + 1,
   size |-> IF c.blen + n > c.size THEN 2 * c.size ELSE c.size]

cmdline_backspace(c) ==
  IF c.bpos = 0 THEN c
  ELSE LET p == u_prev_char_pos(c.line, c.bpos) IN
       [c EXCEPT !.line = Before(c.line, p) \o After(c.line, c.bpos),
                 !.bpos = p, !.cpos = @ - 1, !.blen = @ - (c.bpos - p), !.clen = @ - 1]

cmdline_backspace_to_bol(c) ==
  [c EXCEPT !.line = After(c.line, c.bpos), !.bpos = 0, !.cpos = 0,
            !.blen = @ - c.bpos, !.clen = @ - c.cpos]

(* Fault_* definitions are faulty variants of the definition that follows. *)
Fault_DeleteOneByte(c) ==
  IF c.bpos = c.blen THEN c
  ELSE [c EXCEPT !.line = Before(c.line, c.bpos) \o After(c.line, c.bpos + 1),
                 !.blen = @ - 1, !.clen = @ - 1]

cmdline_delete_ch(c) ==
  IF c.bpos = c.blen THEN c
  ELSE LET p == u_next_char_pos(c.line, c.bpos) IN
       [c EXCEPT !.line = Before(c.line, c.bpos) \o After(c.line, p),
                 !.blen = @ - (p - c.bpos), !.clen = @ - 1]

Larger(size, len) ==
  CHOOSE n \in {size * 2 ^ k : k \in 0 .. len} :
    n > len /\ \A m \in {size * 2 ^ k : k \in 0 .. len} : m > len => n <= m

cmdline_set_text(c, text) ==
  [line |-> text, blen |-> Len(text), clen |-> u_strlen(text), bpos |-> Len(text),
   cpos |-> u_strlen(text), size |-> Larger(c.size, Len(text))]

cmdline_clear(c) == [cmdline_init EXCEPT !.size = c.size]

cmdline_clear_end(c) ==
  LET s == Before(c.line, c.bpos)
  IN [c EXCEPT !.line = s, !.clen = u_strlen(s), !.blen = Len(s)]

cmdline_move_left(c) ==
  IF c.bpos = 0 THEN c
  ELSE [c EXCEPT !.bpos = u_prev_char_pos(c.line, c.bpos), !.cpos = @ - 1]
cmdline_move_right(c) ==
  IF c.bpos = c.blen THEN c
  ELSE [c EXCEPT !.bpos = u_next_char_pos(c.line, c.bpos), !.cpos = @ + 1]
cmdline_move_home(c) == [c EXCEPT !.bpos = 0, !.cpos = 0]
cmdline_move_end(c)  == [c EXCEPT !.bpos = c.blen, !.cpos = c.clen]

(* next_word: over delimiters, then over the word. *)
Beyond(s, i, j, delim) == \E k \in i + 1 .. j : s[k] # delim
forward_pos(c, delim) ==
  LET s == c.line
      Stop(p) == p = Len(s) \/ (s[p + 1] = delim /\ Beyond(s, c.bpos, p, delim))
  IN CHOOSE p \in c.bpos .. Len(s) : Stop(p) /\ \A q \in c.bpos .. p - 1 : ~Stop(q)
backward_pos(c, delim) ==
  LET s == c.line
      Stop(p) == p = 0 \/ (s[p] = delim /\ Beyond(s, p, c.bpos, delim))
  IN CHOOSE p \in 0 .. c.bpos : Stop(p) /\ \A q \in p + 1 .. c.bpos : ~Stop(q)
cdiff(c, p, q) == u_strlen(SubSeq(c.line, p + 1, q))

cmdline_forward_word(c, delim) ==
  LET p == forward_pos(c, delim) IN [c EXCEPT !.bpos = p, !.cpos = @ + cdiff(c, c.bpos, p)]
cmdline_backward_word(c, delim) ==
  LET p == backward_pos(c, delim) IN [c EXCEPT !.bpos = p, !.cpos = @ - cdiff(c, p, c.bpos)]
cmdline_delete_word(c, delim) ==
  LET p == forward_pos(c, delim) IN
  [c EXCEPT !.line = Before(c.line, c.bpos) \o After(c.line, p),
            !.blen = @ - (p - c.bpos), !.clen = @ - cdiff(c, c.bpos, p)]
cmdline_backward_delete_word(c, delim) ==
  LET p == backward_pos(c, delim) IN
  [c EXCEPT !.line = Before(c.line, p) \o After(c.line, c.bpos),
            !.blen = @ + p - c.bpos, !.bpos = p,
            !.clen = @ - cdiff(c, p, c.bpos), !.cpos = @ - cdiff(c, p, c.bpos)]

-----------------------------------------------------------------------------
(* History: h is the list of entries; Kept(h, i, new) is where the entry   *)
(* that was at i is after a line was added.                                *)

history_add_line(h, text) ==
  LET new == <<text>> \o SelectSeq(h, LAMBDA t : t # text)
  IN IF Len(new) > MaxHistory THEN Front(new) ELSE new

Kept(h, i, text) ==
  LET new == history_add_line(h, text)
  IN IF i <= 0 THEN i
     ELSE IF h[i] = text \/ ~Contains(new, h[i]) THEN Gone
     ELSE CHOOSE j \in 1 .. Len(new) : new[j] = h[i]

(* history_search_forward and backward: the entry found, or 0 *)
Match(text, t) == IsPrefix(text, t)
history_search_forward(h, i, text) ==
  LET found == {j \in i + 1 .. Len(h) : Match(text, h[j])}
  IN IF found = {} THEN 0 ELSE CHOOSE j \in found : \A k \in found : j <= k
history_search_backward(h, i, text) ==
  LET found == {j \in 1 .. i - 1 : Match(text, h[j])}
  IN IF found = {} THEN 0 ELSE CHOOSE j \in found : \A k \in found : j >= k

-----------------------------------------------------------------------------
(* Search mode looks at the text after the character that restricts the    *)
(* search; command mode at the whole line.                                 *)
restricted == mode = "search" /\ cl.line # <<>> /\ cl.line[1] = "/"
Text == IF restricted THEN Tail(cl.line) ELSE cl.line
update_line(text) ==
  cmdline_set_text(cl, IF restricted THEN <<"/">> \o text ELSE text)

LineInit ==
  /\ cl = cmdline_init /\ mode = "normal"
  /\ hist = [m \in Modes |-> <<>>] /\ hpos = [m \in Modes |-> 0]
  /\ htext = [m \in Modes |-> NoText]
  /\ tab = NoTab /\ clicked = {} /\ stray = FALSE

reset_history_search ==
  /\ hpos' = [hpos EXCEPT ![mode] = 0] /\ htext' = [htext EXCEPT ![mode] = NoText]
  /\ clicked' = clicked \ {mode}
KeepHistory == UNCHANGED <<hist, hpos, htext, clicked>>

(* Only command mode has completions. *)
reset_tab_expansion ==
  IF mode = "command" THEN tab' = NoTab /\ stray' = FALSE ELSE UNCHANGED <<tab, stray>>
Stray == stray' = (stray \/ tab # NoTab)

Editing == mode \in Modes

(* enter_command_mode, enter_search_mode; :push, from a key binding *)
EnterMode(m) ==
  /\ mode = "normal" /\ mode' = m
  /\ UNCHANGED <<cl, tab, stray>> /\ KeepHistory
cmd_push(text) ==
  /\ mode = "normal" /\ mode' = "command"
  /\ cl' = cmdline_set_text(cl, text)
  /\ UNCHANGED <<tab, stray>> /\ KeepHistory

(* The characters that edit: of command_mode_ch and search_mode_ch *)
Moves(c) == {cmdline_move_home(c), cmdline_move_left(c), cmdline_move_end(c), cmdline_move_right(c)}
Edits(c) == {cmdline_delete_ch(c), cmdline_clear_end(c), cmdline_backspace_to_bol(c),
             cmdline_backward_delete_word(c, " ")}
Fits(c) == Len(c.line) <= MaxBytes

mode_ch(c) ==
  /\ Editing /\ Fits(c)
  /\ cl' = c
  /\ reset_history_search /\ reset_tab_expansion
  /\ UNCHANGED <<mode, hist>>

(* ^H, and KEY_BACKSPACE, which does the same *)
backspace ==
  /\ Editing
  /\ IF cl.clen > 0 THEN cl' = cmdline_backspace(cl) /\ UNCHANGED mode
     ELSE mode' = "normal" /\ UNCHANGED cl
  /\ reset_history_search /\ reset_tab_expansion
  /\ UNCHANGED hist

(* KEY_LEFT, RIGHT, HOME, END return before the history is reset. *)
mode_key(c) ==
  /\ Editing
  /\ cl' = c
  /\ reset_tab_expansion /\ KeepHistory
  /\ UNCHANGED mode

(* command_mode_escape, search_mode_escape leave the completions alone. *)
Escapes(c) == {cmdline_backward_word(c, "/"), cmdline_delete_word(c, "/"),
               cmdline_forward_word(c, "/"), cmdline_backward_delete_word(c, "/")}
mode_escape(c) ==
  /\ Editing
  /\ cl' = c
  /\ reset_history_search /\ Stray
  /\ UNCHANGED <<mode, hist, tab>>

(* The line becomes an entry of the history, and is gone. *)
AddLine(text) ==
  IF text = <<>> THEN UNCHANGED <<cl, hist>>
  ELSE /\ hist' = [hist EXCEPT ![mode] = history_add_line(@, text)]
       /\ cl' = cmdline_clear(cl)

Fault_EscKeepsSearch ==
  /\ Editing /\ mode' = "normal"
  /\ AddLine(Text)
  /\ hpos' = [hpos EXCEPT ![mode] = IF Text = <<>> THEN @ ELSE Kept(hist[mode], @, Text)]
  /\ reset_tab_expansion
  /\ UNCHANGED <<htext, clicked>>

Esc ==
  /\ Editing /\ mode' = "normal"
  /\ AddLine(Text)
  /\ reset_history_search /\ reset_tab_expansion

(* Enter.  In command mode the line is added to the history after it was   *)
(* run: :push has changed it by then.  In search mode (search_text) an     *)
(* empty text repeats the last search, and the line is cleared anyway.     *)
Enter(ran) ==
  /\ Editing /\ mode' = "normal"
  /\ LET text == IF mode = "command" THEN ran ELSE Text IN
     IF text = <<>> \/ cl.line = <<>> THEN UNCHANGED hist
     ELSE hist' = [hist EXCEPT ![mode] = history_add_line(@, text)]
  /\ cl' = cmdline_clear(cl)
  /\ reset_history_search /\ reset_tab_expansion

(* KEY_UP and KEY_DOWN, the wheel of the mouse *)
Typed == IF htext[mode] = NoText THEN Text ELSE htext[mode]
Dangling == Editing /\ hpos[mode] = Gone
Up ==
  /\ Editing /\ ~Dangling
  /\ htext' = [htext EXCEPT ![mode] = Typed]
  /\ LET i == history_search_forward(hist[mode], hpos[mode], Typed) IN
     IF i = 0 THEN UNCHANGED <<cl, hpos>>
     ELSE cl' = update_line(hist[mode][i]) /\ hpos' = [hpos EXCEPT ![mode] = i]
  /\ Fits(cl')
  /\ reset_tab_expansion
  /\ UNCHANGED <<mode, hist, clicked>>
Down ==
  /\ Editing /\ ~Dangling
  /\ IF htext[mode] = NoText THEN UNCHANGED <<cl, hpos>>
     ELSE LET i == history_search_backward(hist[mode], hpos[mode], Typed) IN
          /\ cl' = update_line(IF i = 0 THEN Typed ELSE hist[mode][i])
          /\ hpos' = [hpos EXCEPT ![mode] = i]
  /\ Fits(cl')
  /\ reset_tab_expansion
  /\ UNCHANGED <<mode, hist, htext, clicked>>

(* A click on the windows leaves the mode as Esc does, but resets nothing; *)
(* one on the line moves the cursor.                                       *)
MouseLeave ==
  /\ Editing /\ mode' = "normal"
  /\ AddLine(Text)
  /\ hpos' = [hpos EXCEPT ![mode] = IF Text = <<>> THEN @ ELSE Kept(hist[mode], @, Text)]
  /\ clicked' = clicked \cup {mode} /\ Stray
  /\ UNCHANGED <<htext, tab>>
MouseMove(i) ==
  /\ Editing /\ i <= cl.clen
  /\ LET p == CHOOSE p \in 0 .. cl.blen : u_strlen(Before(cl.line, p)) = i
                /\ (p = cl.blen \/ cl.line[p + 1] # "e2")
     IN cl' = [cl EXCEPT !.cpos = i, !.bpos = p]
  /\ Stray /\ KeepHistory
  /\ UNCHANGED <<mode, tab>>

-----------------------------------------------------------------------------
(* expand_commands: the commands that begin with what is left of the       *)
(* cursor; a space after the only one.                                     *)
expand_commands(src) ==
  LET found == SelectSeq(Commands, LAMBDA name : IsPrefix(src, name))
  IN IF Len(found) = 1 THEN <<found[1] \o <<" ">>>> ELSE found

(* tabexp_expand: the expansions are kept for the next tab. *)
Expansions == IF tab.words = <<>> THEN expand_commands(Before(cl.line, cl.bpos)) ELSE tab.words
Index(d, n) ==
  LET i == (IF tab.words = <<>> THEN 0 ELSE tab.idx) + d
  IN IF i > n THEN 1 ELSE IF i < 1 THEN n ELSE i

(* What follows the cursor stays. *)
Replaced(word) ==
  LET s == word \o After(cl.line, cl.bpos) IN
  [line |-> s, blen |-> Len(s), clen |-> u_strlen(s), bpos |-> Len(word), cpos |-> u_strlen(word),
   size |-> Larger(cl.size, Len(s))]

tab_expand(d) ==
  /\ mode = "command"
  /\ IF Expansions = <<>> THEN UNCHANGED <<cl, tab, stray>>
     ELSE LET n == Len(Expansions)
              i == Index(d, n)
          IN /\ cl' = Replaced(Expansions[i])
             /\ tab' = IF n = 1 THEN NoTab ELSE [words |-> Expansions, idx |-> i]
             /\ stray' = (stray /\ tab' # NoTab)
  /\ Fits(cl')
  /\ reset_history_search
  /\ UNCHANGED <<mode, hist>>

(* bound: one of the two histories, which share nothing, is still empty *)
OneHistory == \E m \in Modes : hist[m] = <<>>

LineNext ==
  /\ OneHistory
  /\ \/ (\E m \in Modes : EnterMode(m))
     \/ (\E i \in 1 .. Len(Commands) : cmd_push(Commands[i]))
     \/ (\E ch \in Chars : mode_ch(cmdline_insert_ch(cl, ch)))
     \/ (\E c \in Edits(cl) \cup Moves(cl) : mode_ch(c))
     \/ backspace \/ mode_ch(cmdline_delete_ch(cl)) \/ (\E c \in Moves(cl) : mode_key(c))
     \/ (\E c \in Escapes(cl) : mode_escape(c))
     \/ Esc \/ (\E ran \in {cl.line} \cup ToSet(Commands) : Enter(ran))
     \/ Up \/ Down \/ MouseLeave \/ (\E i \in 0 .. MaxBytes : MouseMove(i))
     \/ (\E d \in {-1, 1} : tab_expand(d))

-----------------------------------------------------------------------------
(* The four counters that cmdline.c keeps for the line agree with its text *)
(* after any sequence of keys, recalls and completions: bytes and          *)
(* characters of all of it and of what is left of the cursor, which never  *)
(* stands inside a character; and as long as completions are kept, and     *)
(* neither mouse nor escape came in between, what is left of the cursor is *)
(* the completion shown last, so that the next tab replaces just that.     *)
CmdlineConsistent ==
  /\ cl.blen = Len(cl.line) /\ cl.clen = u_strlen(cl.line)
  /\ cl.bpos \in 0 .. cl.blen /\ cl.cpos = u_strlen(Before(cl.line, cl.bpos))
  /\ cl.bpos < cl.blen => cl.line[cl.bpos + 1] # "e2"
  /\ cl.blen <= cl.size
  /\ tab.words # <<>> /\ ~stray =>
       Before(cl.line, cl.bpos) = tab.words[tab.idx]

(* Entries of a history are distinct and no more than max_lines, and while *)
(* one is recalled search_pos is one of them and the line an entry that    *)
(* begins with what was typed, or just that, perhaps after the character   *)
(* that restricts a search: unless the mouse has left a mode, nothing of   *)
(* an earlier recall survives.                                             *)
HistorySound ==
  \A m \in Modes :
    /\ IsInjective(hist[m]) /\ Len(hist[m]) <= MaxHistory
    /\ m \notin clicked =>
         /\ hpos[m] \in 0 .. Len(hist[m])
         /\ htext[m] # NoText =>
              /\ mode = m
              /\ LET e == IF hpos[m] > 0 THEN hist[m][hpos[m]] ELSE htext[m]
                 IN IsPrefix(htext[m], e) /\ cl.line \in {e, <<"/">> \o e}
=============================================================================
