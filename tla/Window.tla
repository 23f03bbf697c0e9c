------------------------------- MODULE Window -------------------------------
(***************************************************************************)
(* The functions of window.c that move the selection and the top row of a  *)
(* window over a list of rows.  The rows form a ring with a head that is   *)
(* no row: position 0 is the head, positions 1 .. n are the rows, and a    *)
(* step past either end arrives at the head (iter.h).                      *)
(*                                                                         *)
(* A window w is a record of the positions top and sel, the height nr_rows *)
(* and bug, which says that a BUG_ON has failed; n is the number of rows   *)
(* and off the option scroll_offset.                                       *)
(* Every row is selectable, as in the windows of track lists.              *)
(***************************************************************************)
EXTENDS Integers

Least(a, b) == IF a < b THEN a ELSE b
Most(a, b) == IF a > b THEN a ELSE b

(* k calls of get_next, or of get_prev. *)
Forward(n, i, k) == (i + k) % (n + 1)
Backward(n, i, k) == (i - k) % (n + 1)

(* How many calls return 1 before the first that returns 0. *)
Below(n, i) == n - i
Above(n, i) == IF i = 0 THEN n ELSE i - 1

(* Rows from top to sel, going down. *)
Distance(n, w) == (w.sel - w.top) % (n + 1)

window_set_contents(n, w) ==
  [w EXCEPT !.top = Forward(n, 0, 1), !.sel = Forward(n, 0, 1)]

window_up(n, w, off, rows) ==
  LET buffer == Distance(n, w)
      up     == Least(rows, Above(n, w.sel))
      bound  == IF up = 0 THEN Least(buffer + rows, w.nr_rows \div 2)
                          ELSE Least(off, w.nr_rows \div 2)
      sel    == Backward(n, w.sel, up)
      top_up == Least(bound, Above(n, sel)) + up - buffer
  IN [w EXCEPT !.sel = sel, !.top = Backward(n, @, Most(0, top_up))]

window_down(n, w, off, rows) ==
  LET buffer   == w.nr_rows - 1 - Distance(n, w)
      down     == Least(rows, Below(n, w.sel))
      bound    == IF down = 0 THEN Least(buffer + rows, (w.nr_rows - 1) \div 2)
                              ELSE Least(off, (w.nr_rows - 1) \div 2)
      sel      == Forward(n, w.sel, down)
      top_down == Most(0, Least(bound, Below(n, sel))) + down - buffer
  IN [w EXCEPT !.sel = sel, !.top = Forward(n, @, Most(0, top_down))]

(* "minimize number of empty lines visible" *)
Minimized(n, w) ==
  LET missing == w.nr_rows - 1 - Below(n, w.top)
  IN IF missing <= 0 \/ n = 0 THEN w
     ELSE [w EXCEPT !.top = Most(1, (IF @ = 0 THEN n + 1 ELSE @) - missing)]

Fault_ChangedLooksUp(n, w) ==
  IF w.top = 0 THEN window_set_contents(n, w)
  ELSE IF w.sel < w.top THEN Minimized(n, [w EXCEPT !.top = w.sel])
  ELSE Minimized(n, w)

(* "make sure selection is visible" *)
window_changed(n, w) ==
  IF w.top = 0 THEN window_set_contents(n, w)
  ELSE IF w.sel < w.top THEN Minimized(n, [w EXCEPT !.top = w.sel])
  ELSE Minimized(n, [w EXCEPT !.top = Most(@, w.sel - w.nr_rows + 1)])

(* Called before row i is removed: top and sel go on to the next row, or   *)
(* to the previous one if there is none.                                   *)
window_row_vanishes(n, w, i) ==
  LET other == IF Forward(n, i, 1) # 0 THEN i + 1 ELSE i - 1
      moved(x) == IF x = i THEN other ELSE x
  IN [w EXCEPT !.top = moved(@), !.sel = moved(@)]

(* BUG_ON(iter_is_empty(&win->top)) *)
window_set_sel(n, w, off, i) ==
  LET above == Least(off, w.nr_rows \div 2)
      below == Least(off, (w.nr_rows - 1) \div 2)
      last  == w.top + w.nr_rows - 1
      top   == IF i < w.top + above THEN Most(1, i - above)
               ELSE IF i > last THEN i - w.nr_rows + 1 + Least(below, n - i)
               ELSE w.top + Most(0, Least(i + below, n) - last)
  IN IF w.top = 0 THEN [w EXCEPT !.bug = TRUE]
     ELSE IF w.sel = i THEN w
     ELSE [w EXCEPT !.sel = i, !.top = top]

window_goto_top(n, w) == window_set_contents(n, w)

window_goto_bottom(n, w) ==
  [w EXCEPT !.sel = n, !.top = Least(n, Most(1, n - w.nr_rows + 1))]

(* window_page_up and window_half_page_up *)
PageUp(n, w, rows) ==
  LET k == Least(rows, Least(Above(n, w.sel), Above(n, w.top)))
  IN [w EXCEPT !.sel = Backward(n, @, k), !.top = Backward(n, @, k)]

window_bottom(n, w) == w.top + Least(w.nr_rows - 1, Below(n, w.top))

(* window_page_down and window_half_page_down *)
PageDown(n, w, rows) ==
  LET k == Least(rows, Least(Below(n, w.sel), Below(n, window_bottom(n, w))))
  IN [w EXCEPT !.sel = Forward(n, @, k), !.top = Forward(n, @, k)]

window_scroll_down(n, w) ==
  IF Below(n, window_bottom(n, w)) = 0 \/ Below(n, w.top) = 0 THEN w
  ELSE [w EXCEPT !.top = Forward(n, @, 1), !.sel = IF @ = w.top THEN Forward(n, @, 1) ELSE @]

window_scroll_up(n, w) ==
  IF Above(n, w.top) = 0 THEN w
  ELSE [w EXCEPT !.top = Backward(n, @, 1),
                 !.sel = IF @ = window_bottom(n, w) THEN Backward(n, @, 1) ELSE @]

(* window_page_top, window_page_middle and window_page_bottom.  Nothing    *)
(* stops the walk at the last row.                                         *)
window_goto_pos(n, w, pos) == [w EXCEPT !.sel = Forward(n, w.top, pos)]

window_set_nr_rows(n, w, nr_rows) == window_changed(n, [w EXCEPT !.nr_rows = nr_rows])
=============================================================================
