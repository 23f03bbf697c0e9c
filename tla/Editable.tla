------------------------------ MODULE Editable ------------------------------
(***************************************************************************)
(* A track list that the user edits: a playlist, the play queue or the     *)
(* sorted view of the library (editable.c, track.c), with the window that  *)
(* shows it (window.c, module Window).                                     *)
(*                                                                         *)
(* The list is indexed by a red-black tree that holds the first track of   *)
(* each run of tracks with equal sort keys.  The tree is modelled by its   *)
(* nodes in order, its shape is not: a search arrives at any place where   *)
(* the neighbours, which both lie on its path, compare as they must.       *)
(***************************************************************************)
EXTENDS Integers, FiniteSets, Sequences, SequencesExt, Selection, Window

CONSTANTS
  Tracks,     \* struct simple_track objects
  Infos,      \* track_info objects, numbers in the order of the sort keys
  Heights,    \* values of nr_rows
  Offsets     \* values of the option scroll_offset

ASSUME InfosAssumption == Infos \subseteq Nat /\ Infos # {}
ASSUME HeightsAssumption == Heights \subseteq Nat \ {0} /\ Offsets \subseteq Nat

VARIABLES
  e,        \* the struct editable and its window
  info,     \* info[t]: t->info
  keys,     \* shared->sort_keys: "none" (empty) or "info"
  owned,    \* shared->owner is this list
  tidy,     \* history: no shuffle and no changed info since the last sort
  overshot  \* history: a page command went past the last row

vars == <<e, info, keys, owned, tidy, overshot>>

(* nodes: the tracks whose tree_node is not cleared.  ub: a node that is   *)
(* not in the tree was used as if it were, and memory is corrupt.          *)
Empty(h) == [list |-> <<>>, tree |-> <<>>, nodes |-> {}, ub |-> FALSE,
             marked |-> {}, nr_tracks |-> 0, nr_marked |-> 0,
             win |-> [top |-> 0, sel |-> 0, nr_rows |-> h, bug |-> FALSE]]

Init ==
  /\ \E h \in Heights : e = Empty(h)
  /\ info = [t \in Tracks |-> CHOOSE i \in Infos : \A j \in Infos : i <= j]
  /\ keys = "none" /\ owned = TRUE /\ tidy = TRUE /\ overshot = FALSE

-----------------------------------------------------------------------------
(* The sorted list (track.c). *)

Pos(l, t) == CHOOSE i \in 1 .. Len(l) : l[i] = t

(* track_info_cmp *)
Cmp(k, inf, a, b) == IF k = "none" THEN 0 ELSE inf[a] - inf[b]

(* The place in the list of the tree's j-th node, or the end. *)
Place(s, j) == IF j > Len(s.tree) THEN Len(s.list) + 1 ELSE Pos(s.list, s.tree[j])

(* t gets a node between two others, or joins the run of an equal node: at *)
(* the front, where it takes over the node, or at the end.                 *)
sorted_list_add_track(s, t, inf, k, tiebreak) ==
  LET c(j)  == Cmp(k, inf, t, s.tree[j])
      n     == Len(s.tree)
      gaps  == {g \in 0 .. n : (g > 0 => c(g) > 0) /\ (g < n => c(g + 1) < 0)}
      equal == {j \in 1 .. n : c(j) = 0}
  IN {[s EXCEPT !.list = InsertAt(@, Place(s, g + 1), t),
                !.tree = InsertAt(@, g + 1, t),
                !.nodes = @ \cup {t}] : g \in gaps}
     \cup
     {IF tiebreak < 0
      THEN [s EXCEPT !.list = InsertAt(@, Place(s, j), t),
                     !.tree[j] = t,
                     !.nodes = (@ \cup {t}) \ {s.tree[j]}]
      ELSE [s EXCEPT !.list = InsertAt(@, Place(s, j + 1), t)] : j \in equal}

Fault_RemoveErasesNode(s, t) ==
  LET l == RemoveAt(s.list, Pos(s.list, t))
  IN [s EXCEPT !.list = l, !.tree = SelectSeq(@, LAMBDA x : x # t),
               !.ub = @ \/ (t \in s.nodes /\ ~Contains(s.tree, t))]

(* The node goes to the next track of the run.  rb_erase leaves the erased *)
(* node as it is: the track still seems to have one.                       *)
sorted_list_remove_track(s, t) ==
  LET i == Pos(s.list, t)
      j == Pos(s.tree, t)
      l == RemoveAt(s.list, i)
  IN IF t \notin s.nodes THEN [s EXCEPT !.list = l]
     ELSE IF ~Contains(s.tree, t) THEN [s EXCEPT !.list = l, !.ub = TRUE]
     ELSE IF i < Len(s.list) /\ (j = Len(s.tree) \/ s.tree[j + 1] # s.list[i + 1])
     THEN [s EXCEPT !.list = l, !.tree[j] = s.list[i + 1],
                    !.nodes = (@ \cup {s.list[i + 1]}) \ {t}]
     ELSE [s EXCEPT !.list = l, !.tree = RemoveAt(@, j)]

(* What the operators on e and a track are applied to, one after another. *)
Lists == [list : Seq(Tracks), tree : Seq(Tracks), nodes : SUBSET Tracks, ub : BOOLEAN,
          marked : SUBSET Tracks, nr_tracks : Int, nr_marked : Int,
          win : [top : Int, sel : Int, nr_rows : Int, bug : BOOLEAN]]

(* sorted_list_rebuild and rand_list_rebuild: all tracks are taken out and *)
(* put into a new list and tree in the order ts, where each finds just one *)
(* place.  Putting one in does not touch those still to be taken out.      *)
Rebuilt(s, ts, inf, k) ==
  LET take == [x \in Lists \X Tracks |-> sorted_list_remove_track(x[1], x[2])]
      add  == [x \in Lists \X Tracks |->
                 CHOOSE y \in sorted_list_add_track(x[1], x[2], inf, k, 0) : TRUE]
  IN Fold(add, [Fold(take, s, s.list) EXCEPT !.tree = <<>>], ts)

-----------------------------------------------------------------------------
(* The editable list. *)

(* The window points to rows: it follows them from list l to that of s. *)
Following(s, l) ==
  LET place(i) == IF i = 0 THEN 0 ELSE Pos(s.list, l[i])
  IN [s EXCEPT !.win.top = place(@), !.win.sel = place(@)]

Changed(s) == IF owned THEN [s EXCEPT !.win = window_changed(Len(s.list), @)] ELSE s

Vanishes(s, t) ==
  IF owned THEN [s EXCEPT !.win = window_row_vanishes(Len(s.list), @, Pos(s.list, t))]
  ELSE s

Down(s, off) == [s EXCEPT !.win = window_down(Len(s.list), @, off, 1)]

(* get_selected; there is none if the selection is at the head. *)
Selected(s) == IF s.win.sel = 0 THEN {} ELSE {s.list[s.win.sel]}

(* "treat marked tracks as selected" *)
Chosen(s) == IF s.nr_marked > 0 THEN s.marked ELSE Selected(s)

Fault_RemoveKeepsMarkCount(s, t) ==
  LET v == Vanishes(s, t)
      r == Following(sorted_list_remove_track(v, t), v.list)
  IN [r EXCEPT !.nodes = @ \ {t}, !.marked = @ \ {t}, !.nr_tracks = @ - 1]

editable_remove_track(s, t) ==
  LET v == Vanishes(s, t)
      r == Following(sorted_list_remove_track(v, t), v.list)
  IN [r EXCEPT !.nodes = @ \ {t}, !.marked = @ \ {t}, !.nr_tracks = @ - 1,
               !.nr_marked = @ - (IF t \in s.marked THEN 1 ELSE 0)]

(* The tracks of a set, in the order of the list. *)
InOrder(s, S) == Select(s.list, S)

RemoveAll(S) ==
  LET remove == [x \in Lists \X Tracks |-> editable_remove_track(x[1], x[2])]
  IN e' = Fold(remove, e, InOrder(e, S))

Same == UNCHANGED <<info, keys, owned, tidy>>
Quiet == overshot' = (overshot /\ e'.list # <<>>)

(* Neither a failed BUG_ON nor corrupt memory. *)
Alive == ~e.ub /\ ~e.win.bug

do_editable_add(t, i, tiebreak) ==
  /\ Alive
  /\ ~Contains(e.list, t)
  /\ info' = [info EXCEPT ![t] = i]
  /\ \E s \in sorted_list_add_track(e, t, info', keys, tiebreak) :
       e' = Changed(Following([s EXCEPT !.nr_tracks = @ + 1], e.list))
  /\ UNCHANGED <<keys, owned, tidy, overshot>>

(* play_queue_remove *)
play_queue_remove ==
  /\ Alive
  /\ e.list # <<>>
  /\ RemoveAll({Head(e.list)})
  /\ Same /\ Quiet

editable_remove_sel ==
  /\ Alive /\ owned
  /\ RemoveAll(Chosen(e))
  /\ Same /\ Quiet

(* Also editable_clear, and editable_update_track for a track that is gone. *)
editable_remove_matching_tracks(S) ==
  /\ Alive
  /\ RemoveAll({t \in Tracks : info[t] \in S})
  /\ Same /\ Quiet

(* The new info is not sorted in. *)
editable_update_track(old, new) ==
  /\ Alive
  /\ info' = [t \in Tracks |-> IF Contains(e.list, t) /\ info[t] = old THEN new ELSE info[t]]
  /\ tidy' = (tidy /\ (info' = info \/ keys = "none"))
  /\ UNCHANGED <<e, keys, owned, overshot>>

(* window_changed and window_goto_top after a new order. *)
Reordered(s) ==
  LET c == Changed(Following(s, e.list))
  IN IF owned THEN [c EXCEPT !.win = window_goto_top(Len(s.list), @)] ELSE c

Fault_SortForgetsTies(k) ==
  /\ Alive
  /\ keys' = k
  /\ e' = IF e.nr_tracks <= 1 THEN e ELSE Reordered(Rebuilt(e, Reverse(e.list), info, k))
  /\ tidy' = TRUE
  /\ overshot' = (overshot /\ e.nr_tracks <= 1)
  /\ UNCHANGED <<info, owned>>

(* editable_shared_set_sort_keys and editable_sort *)
editable_sort(k) ==
  /\ Alive
  /\ keys' = k
  /\ e' = IF e.nr_tracks <= 1 THEN e ELSE Reordered(Rebuilt(e, e.list, info, k))
  /\ tidy' = TRUE
  /\ overshot' = (overshot /\ e.nr_tracks <= 1)
  /\ UNCHANGED <<info, owned>>

editable_rand ==
  /\ Alive
  /\ e.nr_tracks > 1
  /\ \E f \in [DOMAIN e.list -> DOMAIN e.list] :
       /\ IsInjective(f)
       /\ e' = Reordered(Rebuilt(e, [i \in DOMAIN e.list |-> e.list[f[i]]], info, "none"))
  /\ tidy' = (tidy /\ keys = "none")
  /\ overshot' = FALSE
  /\ UNCHANGED <<info, keys, owned>>

-----------------------------------------------------------------------------
(* Marks and moves. *)

editable_toggle_mark(off) ==
  /\ Alive /\ owned
  /\ \E t \in Selected(e) :
       LET marked == IF t \in e.marked THEN e.marked \ {t} ELSE e.marked \cup {t}
           delta  == IF t \in e.marked THEN -1 ELSE 1
       IN e' = Down([e EXCEPT !.marked = marked, !.nr_marked = @ + delta], off)
  /\ Same /\ Quiet

(* editable_mark with a filter that the infos S pass, editable_unmark with *)
(* none, editable_invert_marks.                                            *)
Remark(marked) ==
  /\ Alive
  /\ e' = [e EXCEPT !.marked = marked,
                    !.nr_marked = @ - Cardinality(e.marked) + Cardinality(marked)]
  /\ Same /\ Quiet

editable_mark(S) == Remark({t \in ToSet(e.list) : info[t] \in S})
editable_invert_marks == Remark(ToSet(e.list) \ e.marked)

(* The last position from i upwards that is not marked, or the head. *)
Unmarked(i) ==
  LET up == {j \in 1 .. i : e.list[j] \notin e.marked}
  IN IF up = {} THEN 0 ELSE CHOOSE j \in up : \A h \in up : h <= j

find_insert_after_point(i) ==
  IF e.nr_marked = 0 THEN Forward(Len(e.list), i, 1) ELSE Unmarked(i)

find_insert_before_point(i) ==
  IF e.nr_marked = 0 THEN Backward(Len(e.list), i, 2) ELSE Unmarked(i - 1)

(* The first track of the list takes over the tree's first node. *)
reset_tree(s) ==
  IF s.tree[1] = s.list[1] THEN s
  ELSE [s EXCEPT !.tree[1] = s.list[1], !.nodes = (@ \cup {s.list[1]}) \ {s.tree[1]}]

(* move_item *)
Taken(s, t) ==
  LET v == Vanishes(s, t)
  IN Following([v EXCEPT !.list = RemoveAt(@, Pos(@, t))], v.list)

(* Taken out one by one, put back together after position i of the list. *)
move_sel(i, off) ==
  LET moved   == InOrder(e, Chosen(e))
      take    == [x \in Lists \X Tracks |-> Taken(x[1], x[2])]
      rest    == Fold(take, e, moved)
      at      == IF i = 0 THEN 0 ELSE Pos(rest.list, e.list[i])
      joined  == SubSeq(rest.list, 1, at) \o moved \o SubSeq(rest.list, at + 1, Len(rest.list))
      s       == Changed(reset_tree(Following([rest EXCEPT !.list = joined], rest.list)))
  IN [s EXCEPT !.win = window_set_sel(Len(joined), @, off, at + 1)]

Move(i, off) ==
  /\ Alive /\ owned
  /\ e.nr_tracks > 1 /\ keys = "none"
  /\ e.win.sel # 0
  /\ e' = move_sel(i, off)
  /\ Same /\ UNCHANGED overshot

editable_move_after(off) == Move(find_insert_after_point(e.win.sel), off)
editable_move_before(off) == Move(find_insert_before_point(e.win.sel), off)

-----------------------------------------------------------------------------
(* The window commands.  The window shows this list while it owns it.      *)

n == Len(e.list)
w == e.win

Show(win, past) ==
  /\ Alive /\ owned
  /\ e' = [e EXCEPT !.win = win]
  /\ overshot' = past
  /\ Same

(* win-up, win-down, the mouse wheel, and the step after a command on the  *)
(* selected track (editable_for_each_sel).                                 *)
StepSel(rows, off) ==
  \/ Show(window_up(n, w, off, rows), overshot)
  \/ Show(window_down(n, w, off, rows), overshot)

Jump ==
  \/ Show(window_goto_top(n, w), FALSE)
  \/ Show(window_goto_bottom(n, w), FALSE)

Page(rows) ==
  \/ Show(PageUp(n, w, rows), overshot)
  \/ Show(PageDown(n, w, rows), overshot)

Scroll ==
  \/ Show(window_scroll_up(n, w), overshot)
  \/ Show(window_scroll_down(n, w), overshot)

(* win-page-top, win-page-middle, win-page-bottom *)
GotoPos(pos) == Show(window_goto_pos(n, w, pos), overshot \/ w.top + pos > n)

(* A search that has found row i, a click on it, sorted_sel_current. *)
SelectRow(i, off) == Show(window_set_sel(n, w, off, i), overshot)

Resize(h) ==
  /\ Alive
  /\ e' = [e EXCEPT !.win = IF owned THEN window_set_nr_rows(n, @, h)
                                     ELSE [@ EXCEPT !.nr_rows = h]]
  /\ Same /\ UNCHANGED overshot

(* The user goes to another playlist that shares the window, and back. *)
Leave ==
  /\ Alive /\ owned
  /\ owned' = FALSE
  /\ e' = [e EXCEPT !.win.top = 0, !.win.sel = 0]
  /\ overshot' = FALSE
  /\ UNCHANGED <<info, keys, tidy>>

editable_take_ownership ==
  /\ Alive /\ ~owned
  /\ owned' = TRUE
  /\ e' = [e EXCEPT !.win = window_set_contents(n, @)]
  /\ UNCHANGED <<info, keys, tidy, overshot>>

Edit ==
  \/ \E t \in Tracks, i \in Infos, tiebreak \in {-1, 1} : do_editable_add(t, i, tiebreak)
  \/ play_queue_remove
  \/ editable_remove_sel
  \/ \E S \in SUBSET Infos : editable_remove_matching_tracks(S) \/ editable_mark(S)
  \/ \E old, new \in Infos : editable_update_track(old, new)
  \/ \E k \in {"none", "info"} : editable_sort(k)
  \/ editable_rand
  \/ editable_invert_marks
  \/ \E off \in Offsets :
       editable_toggle_mark(off) \/ editable_move_after(off) \/ editable_move_before(off)

View ==
  \/ \E rows \in 1 .. 2, off \in Offsets : StepSel(rows, off)
  \/ Jump \/ Scroll
  \/ \E rows \in {w.nr_rows - 1, (w.nr_rows - 1) \div 2} : Page(rows)
  \/ \E pos \in {0, w.nr_rows \div 2, w.nr_rows - 1} : GotoPos(pos)
  \/ \E i \in 1 .. n, off \in Offsets : SelectRow(i, off)
  \/ \E h \in Heights : Resize(h)
  \/ Leave \/ editable_take_ownership

Next == Edit \/ View

Spec == Init /\ [][Next]_vars

-----------------------------------------------------------------------------
TypeOK ==
  /\ e.list \in Seq(Tracks) /\ e.tree \in Seq(Tracks)
  /\ e.nodes \subseteq Tracks /\ e.marked \subseteq ToSet(e.list)
  /\ IsInjective(e.list)
  /\ e.ub \in BOOLEAN
  /\ e.nr_tracks = n /\ e.nr_marked = Cardinality(e.marked)
  /\ w.top \in 0 .. n /\ w.sel \in 0 .. n /\ w.nr_rows \in Heights /\ w.bug \in BOOLEAN
  /\ info \in [Tracks -> Infos] /\ keys \in {"none", "info"}
  /\ owned \in BOOLEAN /\ tidy \in BOOLEAN /\ overshot \in BOOLEAN

(* The places of the list where a run of equal tracks begins. *)
RunHeads == {i \in 1 .. n : i = 1 \/ Cmp(keys, info, e.list[i - 1], e.list[i]) # 0}

(* The tree indexes the list: its nodes are tracks of the list in the      *)
(* list's order, beginning with the first.  If the order was not disturbed *)
(* by a shuffle or a changed info, the list is sorted and the nodes are    *)
(* exactly the first tracks of its runs.                                   *)
TreeIndexesList ==
  ~e.ub =>
    /\ \A j \in 1 .. Len(e.tree) : Contains(e.list, e.tree[j])
    /\ \A i, j \in 1 .. Len(e.tree) : i < j => Pos(e.list, e.tree[i]) < Pos(e.list, e.tree[j])
    /\ n > 0 => Contains(e.tree, e.list[1])
    /\ tidy => /\ \A i \in 2 .. n : Cmp(keys, info, e.list[i - 1], e.list[i]) <= 0
               /\ ToSet(e.tree) = {e.list[i] : i \in RunHeads}

(* The list, its counts and its tree agree. *)
ListSound == TypeOK /\ TreeIndexesList

(* window.c:186 "make sure selection is visible": whatever the user does,  *)
(* a list that is not empty has a selected row, and it is on the screen.   *)
(* The exception is win-page-middle or win-page-bottom in a short list.    *)
SelectionVisible ==
  owned /\ n > 0 /\ ~overshot => 1 <= w.top /\ w.top <= w.sel /\ w.sel < w.top + w.nr_rows

(* Two tracks change their order only if one of them is moved, the sort    *)
(* keys demand it, or the list is shuffled: sorting is stable, a move      *)
(* keeps the moved tracks in their order and the others in theirs.         *)
Precedes(l, a, b) == Contains(l, a) /\ Contains(l, b) /\ Pos(l, a) < Pos(l, b)
OrderKept ==
  [][\A a, b \in Tracks : Precedes(e.list, a, b) /\ Precedes(e'.list, b, a) =>
       \/ (a \in Chosen(e)) # (b \in Chosen(e)) /\ keys' = keys
       \/ Cmp(keys', info', a, b) > 0
       \/ editable_rand]_vars

(* sorted_list_remove_track asks RB_EMPTY_NODE whether a track is in the   *)
(* tree (track.c:236): only tracks in the tree have a node.                *)
NodesInTree == ~e.ub

(* window.c:334 BUG_ON(iter_is_empty(&win->top)): when a row is searched   *)
(* for, clicked or moved, the top of the window is a row.                  *)
TopIsRow == ~w.bug
=============================================================================
