------------------------------ MODULE Bindings ------------------------------
(***************************************************************************)
(* Key bindings (keys.c), the help window that lists them with the         *)
(* commands no key is bound to (help.c), and how they are saved at the end *)
(* and loaded at the next start (options.c).                               *)
(*                                                                         *)
(* Contexts, keys and commands are numbers in the order of their names;    *)
(* command 0 is one get_command does not find.                             *)
(***************************************************************************)
EXTENDS Integers, FiniteSets, Sequences, SequencesExt

CONSTANTS
  Contexts,   \* key contexts; 1 is "common"
  Keys,       \* names of keys
  Commands    \* names of commands

VARIABLES
  key_bindings, \* the sorted list of each context
  bc,           \* command.bc: keys bound to each command
  rows,         \* help_head: the rows of the help window
  sel           \* the selected row

bvars == <<key_bindings, bc, rows, sel>>

(* Rows: the headings, of which one stands for each group, the bindings,   *)
(* the unbound commands.                                                   *)
Heading(n)    == [type |-> "text", ctx |-> n, key |-> 0]
Bound(c, k)   == [type |-> "bound", ctx |-> c, key |-> k]
Unbound(cmd)  == [type |-> "unbound", ctx |-> cmd, key |-> 0]
Binding(k, cmd) == [key |-> k, cmd |-> cmd]

(* bound_cmp, unbound_cmp *)
Less(a, b) == a.ctx < b.ctx \/ (a.ctx = b.ctx /\ a.key < b.key)

At(list, row) == CHOOSE i \in 1 .. Len(list) : list[i] = row
Tie(list, b) == CHOOSE i \in 1 .. Len(list) : list[i].key = b
find_binding(b, c, k) == {i \in 1 .. Len(b[c]) : b[c][i].key = k}

(* The state of bindings and help window that the functions below change. *)
Here == [b |-> key_bindings, bc |-> bc, rows |-> rows, sel |-> sel]
Become(s) == key_bindings' = s.b /\ bc' = s.bc /\ rows' = s.rows /\ sel' = s.sel

(* list_add_sorted: from the tail, a heading, back to the first row that   *)
(* is not greater, or to the heading above.                                *)
list_add_sorted(list, row, head, tail) ==
  LET from == At(list, Heading(head))
      to   == At(list, Heading(tail)) - 1
      after == {i \in from + 1 .. to : ~Less(row, list[i])}
      i == IF after = {} THEN from ELSE CHOOSE i \in after : \A j \in after : j <= i
  IN InsertAt(list, i + 1, row)

help_add_bound(s, c, k)  == [s EXCEPT !.rows = list_add_sorted(@, Bound(c, k), 1, 2)]
help_add_unbound(s, cmd) == [s EXCEPT !.rows = list_add_sorted(@, Unbound(cmd), 2, 3)]

(* window_row_vanishes: the selection goes to the next row; the last row   *)
(* is never removed.                                                       *)
Vanish(s, row) ==
  IF ~Contains(s.rows, row) THEN s
  ELSE LET i == At(s.rows, row)
       IN [s EXCEPT !.rows = RemoveAt(@, i), !.sel = IF @ = row THEN s.rows[i + 1] ELSE @]
help_remove_unbound(s, cmd) == Vanish(s, Unbound(cmd))
help_remove_bound(s, c, k)  == Vanish(s, Bound(c, k))

(* key_unbind of a key that is bound *)
key_unbind(s, c, k) ==
  LET i == Tie(s.b[c], k)
      cmd == s.b[c][i].cmd
      s1 == [s EXCEPT !.b[c] = RemoveAt(@, i)]
      s2 == IF cmd = 0 THEN s1 ELSE [s1 EXCEPT !.bc[cmd] = @ - 1]
      s3 == IF cmd # 0 /\ s2.bc[cmd] = 0 THEN help_add_unbound(s2, cmd) ELSE s2
  IN help_remove_bound(s3, c, k)

(* key_bind: a key that is bound already, and forced, is unbound first. *)
Insert(list, b) ==
  InsertAt(list, 1 + Cardinality({i \in 1 .. Len(list) : list[i].key <= b.key}), b)
NewBinding(s, c, k, cmd) ==
  LET s1 == [s EXCEPT !.b[c] = Insert(@, Binding(k, cmd))]
      s2 == IF cmd = 0 THEN s1 ELSE [s1 EXCEPT !.bc[cmd] = @ + 1]
      s3 == IF cmd # 0 /\ s1.bc[cmd] = 0 THEN help_remove_unbound(s2, cmd) ELSE s2
  IN help_add_bound(s3, c, k)

(* Fault_* definitions are faulty variants of the definition that follows. *)
Fault_BindKeepsOld(s, c, k, cmd) ==
  IF find_binding(s.b, c, k) = {} THEN NewBinding(s, c, k, cmd)
  ELSE LET i == Tie(s.b[c], k)
       IN NewBinding(help_remove_bound([s EXCEPT !.b[c] = RemoveAt(@, i)], c, k), c, k, cmd)
key_bind(s, c, k, cmd) ==
  NewBinding(IF find_binding(s.b, c, k) = {} THEN s ELSE key_unbind(s, c, k), c, k, cmd)

-----------------------------------------------------------------------------
(* Start: help_init, the saved commands, help_add_all_unbound. *)
help_init ==
  [b |-> [c \in Contexts |-> <<>>], bc |-> [cmd \in Commands |-> 0],
   rows |-> <<Heading(1), Heading(2), Heading(3)>>, sel |-> Heading(1)]

RunBind(s, l) ==
  IF find_binding(s.b, l.ctx, l.key) # {} THEN s ELSE key_bind(s, l.ctx, l.key, l.cmd)

help_add_all_unbound(s) ==
  FoldLeft(LAMBDA t, cmd : IF t.bc[cmd] = 0 THEN help_add_unbound(t, cmd) ELSE t,
           s, SetToSortSeq(Commands, LAMBDA a, b : a < b))

Started(lines) == help_add_all_unbound(FoldLeft(RunBind, help_init, lines))

(* options_exit: the bindings as bind commands *)
Saved ==
  FoldLeft(LAMBDA out, c : out \o [i \in 1 .. Len(key_bindings[c]) |->
             [ctx |-> c, key |-> key_bindings[c][i].key, cmd |-> key_bindings[c][i].cmd]],
           <<>>, SetToSortSeq(Contexts, LAMBDA a, b : a < b))

BindingsInit ==
  LET s == Started(<<>>)
  IN /\ key_bindings = s.b /\ bc = s.bc /\ rows = s.rows /\ sel = s.sel

-----------------------------------------------------------------------------
cmd_bind(c, k, cmd, force) ==
  /\ force \/ find_binding(key_bindings, c, k) = {}
  /\ Become(key_bind(Here, c, k, cmd))

cmd_unbind(c, k) ==
  /\ find_binding(key_bindings, c, k) # {}
  /\ Become(key_unbind(Here, c, k))

(* The command the pressed key runs in a view, view-specific before common *)
(* ones: when it unbinds that very key, its binding is freed on the way.   *)
handle_key(c, k) ==
  LET in == IF find_binding(key_bindings, c, k) # {} THEN c ELSE 1
  IN /\ find_binding(key_bindings, in, k) # {}
     /\ Become(key_unbind(Here, in, k))

(* Keys move the selection; help_remove unbinds the selected key. *)
SelectRow(i) ==
  /\ i <= Len(rows)
  /\ sel' = rows[i]
  /\ UNCHANGED <<key_bindings, bc, rows>>
help_remove ==
  /\ sel.type = "bound"
  /\ Become(key_unbind(Here, sel.ctx, sel.key))

(* The end and the next start.  After a crash the next start finds what    *)
(* an earlier end saved: a state that was reached before.                  *)
Exit == Become(Started(Saved))

BindingsNext ==
  \/ \E c \in Contexts, k \in Keys :
       \/ \E cmd \in Commands \cup {0}, force \in BOOLEAN : cmd_bind(c, k, cmd, force)
       \/ cmd_unbind(c, k) \/ handle_key(c, k)
  \/ (\E i \in 1 .. Len(rows) : SelectRow(i)) \/ help_remove
  \/ Exit

-----------------------------------------------------------------------------
(* The help window tells the truth about the bindings, whatever was bound, *)
(* bound anew, unbound and loaded, in whatever order: every binding is in  *)
(* its list once, the counter of each command is the number of its         *)
(* bindings, and the rows are the bindings of all contexts in order and    *)
(* then just the commands without one.  The selected row is among them.    *)
BindingsAgree ==
  LET all == FoldLeft(LAMBDA out, c : out \o [i \in 1 .. Len(key_bindings[c]) |->
                        Bound(c, key_bindings[c][i].key)],
                      <<>>, SetToSortSeq(Contexts, LAMBDA a, b : a < b))
      Uses(cmd) == Cardinality({p \in Contexts \X Keys :
                     \E i \in find_binding(key_bindings, p[1], p[2]) :
                       key_bindings[p[1]][i].cmd = cmd})
      free == SetToSortSeq({cmd \in Commands : Uses(cmd) = 0}, LAMBDA a, b : a < b)
  IN /\ \A c \in Contexts : \A i \in 1 .. Len(key_bindings[c]) - 1 :
          key_bindings[c][i].key < key_bindings[c][i + 1].key
     /\ \A cmd \in Commands : bc[cmd] = Uses(cmd)
     /\ rows = <<Heading(1)>> \o all \o <<Heading(2)>>
                 \o [i \in 1 .. Len(free) |-> Unbound(free[i])] \o <<Heading(3)>>
     /\ Contains(rows, sel)

(* Bindings survive the end of the program: the next start binds the same  *)
(* keys to the same commands.                                              *)
BindingsSurvive == Started(Saved).b = key_bindings
=============================================================================
