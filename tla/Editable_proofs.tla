-------------------------- MODULE Editable_proofs --------------------------
(***************************************************************************)
(* Proofs about a list that the user edits, for any tracks, sort keys,     *)
(* heights of the window and scroll offsets: its tree indexes it, its      *)
(* counts are right, and its selected row is on the screen.                *)
(*                                                                         *)
(* First the functions of window.c, then those of track.c on the list and  *)
(* its tree, then the actions.                                             *)
(***************************************************************************)
EXTENDS Editable, Selection_proofs, FiniteSetTheorems

-----------------------------------------------------------------------------
(* The window. *)

Windows == [top : Int, sel : Int, nr_rows : Int, bug : BOOLEAN]

(* A window over k rows: its positions are rows, or the head. *)
Over(k, v) == v \in Windows /\ v.top \in 0 .. k /\ v.sel \in 0 .. k /\ v.nr_rows \in Nat \ {0}

(* The selected row is on the screen. *)
OnScreen(v) == 1 <= v.top /\ v.top <= v.sel /\ v.sel < v.top + v.nr_rows

(* What a step of a window keeps. *)
Moves(k, v, u) ==
  /\ Over(k, u) /\ u.nr_rows = v.nr_rows
  /\ OnScreen(v) => OnScreen(u)

(* The remainder, once around the ring in either direction. *)
LEMMA Around ==
  ASSUME NEW m \in Nat \ {0}, NEW x \in Int
  PROVE  /\ x % m \in 0 .. m - 1
         /\ 0 <= x /\ x < m => x % m = x
         /\ m <= x /\ x < 2 * m => x % m = x - m
         /\ -m <= x /\ x < 0 => x % m = x + m
  <1> DEFINE q == x \div m
             r == x % m
  <1>1. q \in Int /\ r \in Int /\ x = m * q + r /\ 0 <= r /\ r < m
    BY SMT
  <1> HIDE DEF q, r
  <1>2. /\ q >= 1 => m * q >= m
        /\ q >= 2 => m * q >= 2 * m
        /\ q <= -1 => m * q <= -m
        /\ q <= -2 => m * q <= -(2 * m)
        /\ q = 0 => m * q = 0
        /\ q = 1 => m * q = m
        /\ q = -1 => m * q = -m
    BY <1>1, SMT
  <1>3. ASSUME 0 <= x, x < m PROVE r = x
    <2>1. ~(q >= 1) /\ ~(q <= -1)
      BY <1>1, <1>2, <1>3
    <2> QED BY <1>1, <1>2, <2>1
  <1>4. ASSUME m <= x, x < 2 * m PROVE r = x - m
    <2>1. ~(q >= 2) /\ ~(q <= -1) /\ q # 0
      BY <1>1, <1>2, <1>4
    <2> QED BY <1>1, <1>2, <2>1
  <1>5. ASSUME -m <= x, x < 0 PROVE r = x + m
    <2>1. ~(q >= 1) /\ ~(q <= -2) /\ q # 0
      BY <1>1, <1>2, <1>5
    <2> QED BY <1>1, <1>2, <2>1
  <1>6. r \in 0 .. m - 1
    BY <1>1
  <1> QED BY <1>3, <1>4, <1>5, <1>6 DEF r

(* iter.h: steps from a position. *)
LEMMA StepForward ==
  ASSUME NEW k \in Nat, NEW i \in 0 .. k, NEW j \in Nat
  PROVE  /\ Forward(k, i, j) \in 0 .. k
         /\ i + j <= k => Forward(k, i, j) = i + j
         /\ i + j = k + 1 => Forward(k, i, j) = 0
  <1> DEFINE m == k + 1
             x == i + j
  <1>1. m \in Nat \ {0} /\ x \in Int /\ m = k + 1 /\ x = i + j /\ 0 <= x
    OBVIOUS
  <1>2. Forward(k, i, j) = x % m
    BY DEF Forward
  <1> HIDE DEF m, x
  <1>3. /\ x % m \in 0 .. m - 1
        /\ 0 <= x /\ x < m => x % m = x
        /\ m <= x /\ x < 2 * m => x % m = x - m
    BY <1>1, Around
  <1>4. x % m \in 0 .. k
    BY <1>1, <1>3
  <1>5. ASSUME i + j <= k PROVE x % m = i + j
    BY <1>1, <1>3, <1>5
  <1>6. ASSUME i + j = k + 1 PROVE x % m = 0
    BY <1>1, <1>3, <1>6
  <1> QED BY <1>2, <1>4, <1>5, <1>6

LEMMA StepBackward ==
  ASSUME NEW k \in Nat, NEW i \in 0 .. k, NEW j \in Nat
  PROVE  /\ Backward(k, i, j) \in 0 .. k
         /\ j <= i => Backward(k, i, j) = i - j
  <1> DEFINE m == k + 1
             x == i - j
  <1>1. m \in Nat \ {0} /\ x \in Int /\ m = k + 1 /\ x = i - j /\ x <= k
    OBVIOUS
  <1>2. Backward(k, i, j) = x % m
    BY DEF Backward
  <1> HIDE DEF m, x
  <1>3. /\ x % m \in 0 .. m - 1
        /\ 0 <= x /\ x < m => x % m = x
    BY <1>1, Around
  <1>4. x % m \in 0 .. k
    BY <1>1, <1>3
  <1>5. ASSUME j <= i PROVE x % m = i - j
    BY <1>1, <1>3, <1>5
  <1> QED BY <1>2, <1>4, <1>5

(* Rows from the top to the selection. *)
LEMMA Distances ==
  ASSUME NEW k \in Nat, NEW v, Over(k, v)
  PROVE  Distance(k, v) \in 0 .. k /\ (v.top <= v.sel => Distance(k, v) = v.sel - v.top)
  <1> DEFINE m == k + 1
             x == v.sel - v.top
  <1>1. m \in Nat \ {0} /\ x \in Int /\ x <= k
    BY DEF Over
  <1>2. v.top <= v.sel <=> 0 <= x
    BY DEF Over, Windows
  <1> HIDE DEF m, x
  <1>3. m = k + 1
    BY DEF m
  <1>4. x % m \in 0 .. m - 1 /\ (0 <= x /\ x < m => x % m = x)
    BY <1>1, Around
  <1>5. Distance(k, v) = x % m
    BY DEF Distance, x, m
  <1>6. x = v.sel - v.top
    BY DEF x
  <1> QED BY <1>1, <1>2, <1>3, <1>4, <1>5, <1>6

(* A window whose selection and top are moved. *)
Put(v, s, t) == [v EXCEPT !.sel = s, !.top = t]

LEMMA Moved ==
  ASSUME NEW k \in Nat, NEW v, Over(k, v), NEW s \in 0 .. k, NEW t \in 0 .. k
  PROVE  /\ Over(k, Put(v, s, t))
         /\ Put(v, s, t).sel = s /\ Put(v, s, t).top = t
         /\ Put(v, s, t).nr_rows = v.nr_rows /\ Put(v, s, t).bug = v.bug
  <1>1. v \in Windows /\ v.nr_rows \in Nat \ {0} /\ s \in Int /\ t \in Int
    BY DEF Over
  <1> DEFINE u == Put(v, s, t)
  <1>2. u \in Windows
    BY <1>1 DEF Windows, Put
  <1>3. u.sel = s /\ u.top = t /\ u.nr_rows = v.nr_rows /\ u.bug = v.bug
    BY <1>1 DEF Windows, Put
  <1> HIDE DEF u
  <1>4. Over(k, u)
    BY <1>1, <1>2, <1>3 DEF Over
  <1> QED BY <1>3, <1>4 DEF u

(* window_set_contents and window_goto_top: the first row, if there is one. *)
LEMMA SetContents ==
  ASSUME NEW k \in Nat, NEW v, Over(k, v)
  PROVE  /\ Over(k, window_set_contents(k, v))
         /\ window_set_contents(k, v).nr_rows = v.nr_rows
         /\ window_set_contents(k, v).bug = v.bug
         /\ k > 0 => OnScreen(window_set_contents(k, v))
  <1> DEFINE u == window_set_contents(k, v)
             x == Forward(k, 0, 1)
  <1>1. x \in 0 .. k /\ (k > 0 => x = 1)
    <2>1. 0 \in 0 .. k /\ 1 \in Nat
      OBVIOUS
    <2>2. x \in 0 .. k /\ (0 + 1 <= k => x = 0 + 1)
      BY <2>1, StepForward
    <2> HIDE DEF x
    <2> QED BY <2>2
  <1>2. u = Put(v, x, x)
    BY <1>1 DEF window_set_contents, Over, Windows, Put
  <1> HIDE DEF x, u
  <1>3. Over(k, u) /\ u.sel = x /\ u.top = x /\ u.nr_rows = v.nr_rows /\ u.bug = v.bug
    BY <1>1, <1>2, Moved
  <1>4. v.nr_rows \in Nat \ {0}
    BY DEF Over
  <1> QED BY <1>1, <1>3, <1>4 DEF OnScreen, u

LEMMA WindowUp ==
  ASSUME NEW k \in Nat, NEW v, Over(k, v), NEW off \in Nat, NEW rows \in Nat
  PROVE  Moves(k, v, window_up(k, v, off, rows))
  <1> DEFINE buffer == Distance(k, v)
             up     == Least(rows, Above(k, v.sel))
             bound  == IF up = 0 THEN Least(buffer + rows, v.nr_rows \div 2)
                          ELSE Least(off, v.nr_rows \div 2)
             s2     == Backward(k, v.sel, up)
             top_up == Least(bound, Above(k, s2)) + up - buffer
             t2     == Backward(k, v.top, Most(0, top_up))
  <1>1. window_up(k, v, off, rows) = Put(v, s2, t2)
    BY DEF window_up, Put
  <1>2. v.top \in 0 .. k /\ v.sel \in 0 .. k /\ v.nr_rows \in Nat \ {0}
    BY DEF Over
  <1>3. buffer \in 0 .. k
    BY Distances
  <1>4. up \in Nat
    BY <1>2 DEF Least, Above
  <1> HIDE DEF buffer, up
  <1>5. v.nr_rows \div 2 \in Nat
    BY <1>2
  <1>6. bound \in Nat
    BY <1>3, <1>5 DEF Least
  <1>7. s2 \in 0 .. k /\ (up <= v.sel => s2 = v.sel - up)
    BY <1>2, <1>4, StepBackward
  <1> HIDE DEF bound, s2
  <1>8. top_up \in Int
    BY <1>3, <1>4, <1>6, <1>7 DEF Least, Above
  <1>9. Most(0, top_up) \in Nat
    BY <1>8 DEF Most
  <1> HIDE DEF top_up
  <1>10. t2 \in 0 .. k /\ (Most(0, top_up) <= v.top => t2 = v.top - Most(0, top_up))
    BY <1>2, <1>9, StepBackward
  <1>11. ASSUME OnScreen(v) PROVE 1 <= t2 /\ t2 <= s2 /\ s2 < t2 + v.nr_rows
    <2>1. 1 <= v.top /\ v.top <= v.sel /\ v.sel < v.top + v.nr_rows
      BY <1>11 DEF OnScreen
    <2>2. buffer = v.sel - v.top
      BY <2>1, Distances DEF buffer
    <2>3. up = Least(rows, v.sel - 1)
      BY <2>1, <1>2 DEF up, Above
    <2>4. up <= v.sel - 1 /\ up <= rows
      BY <1>2, <2>1, <2>3 DEF Least
    <2>5. s2 = v.sel - up
      BY <1>2, <1>4, <1>7, <2>4
    <2>6. Above(k, s2) = s2 - 1
      BY <1>7, <2>4, <2>5, <1>2, <1>4 DEF Above
    <2>7. top_up = Least(bound, s2 - 1) + up - buffer
      BY <2>6 DEF top_up
    <2>8. Most(0, top_up) <= v.top - 1
      BY <1>2, <1>3, <1>4, <1>6, <1>7, <1>8, <2>1, <2>2, <2>5, <2>7 DEF Most, Least
    <2>9. t2 = v.top - Most(0, top_up)
      <3> DEFINE y == Most(0, top_up)
      <3> HIDE DEF y, t2
      <3>1. y \in Nat /\ y <= v.top - 1 /\ (y <= v.top => t2 = v.top - y)
        BY <1>9, <1>10, <2>8 DEF y
      <3>2. t2 = v.top - y
        BY <1>2, <3>1
      <3> QED BY <3>2 DEF y
    <2>10. bound <= v.nr_rows \div 2
      BY <1>3, <1>5, <1>6 DEF bound, Least
    <2>11. 2 * (v.nr_rows \div 2) <= v.nr_rows
      BY <1>2
    <2>12. CASE up = 0
      <3>1. s2 = v.sel
        BY <2>5, <2>12, <1>2
      <3>2. t2 <= s2
        BY <1>2, <1>8, <2>1, <2>9, <3>1 DEF Most
      <3>3. v.sel - t2 = buffer + Most(0, top_up)
        BY <1>2, <1>8, <1>9, <2>2, <2>9
      <3>4. v.sel - t2 < v.nr_rows
        BY <1>2, <1>3, <1>5, <1>6, <1>7, <1>8, <2>1, <2>2, <2>7, <2>10, <2>11, <2>12, <3>3 DEF Most, Least
      <3> QED BY <1>2, <1>9, <1>10, <2>1, <2>8, <2>9, <3>1, <3>2, <3>4
    <2>13. CASE up # 0
      <3>1. 1 <= t2
        BY <1>2, <1>9, <2>8, <2>9
      <3>2. s2 - t2 = buffer - up + Most(0, top_up)
        BY <1>2, <1>3, <1>4, <1>9, <2>2, <2>5, <2>9
      <3>3. 0 <= s2 - t2
        BY <1>2, <1>3, <1>4, <1>6, <1>7, <1>8, <2>4, <2>5, <2>1, <2>7, <3>2 DEF Most, Least
      <3>4. s2 - t2 < v.nr_rows
        BY <1>2, <1>3, <1>4, <1>5, <1>6, <1>7, <1>8, <2>1, <2>2, <2>7, <2>10, <2>11, <2>13, <3>2 DEF Most, Least
      <3> QED BY <1>2, <1>7, <1>10, <3>1, <3>3, <3>4
    <2> QED BY <2>12, <2>13
  <1> DEFINE u == window_up(k, v, off, rows)
  <1> HIDE DEF t2, u
  <1>12. Over(k, u) /\ u.sel = s2 /\ u.top = t2 /\ u.nr_rows = v.nr_rows /\ u.bug = v.bug
    BY <1>1, <1>7, <1>10, Moved DEF u
  <1> QED BY <1>11, <1>12 DEF Moves, OnScreen, u

LEMMA WindowDown ==
  ASSUME NEW k \in Nat, NEW v, Over(k, v), NEW off \in Nat, NEW rows \in Nat
  PROVE  Moves(k, v, window_down(k, v, off, rows))
  <1> DEFINE buffer == v.nr_rows - 1 - Distance(k, v)
             down   == Least(rows, Below(k, v.sel))
             half   == (v.nr_rows - 1) \div 2
             bound  == IF down = 0 THEN Least(buffer + rows, half) ELSE Least(off, half)
             s2     == Forward(k, v.sel, down)
             top_down == Most(0, Least(bound, Below(k, s2))) + down - buffer
             t2     == Forward(k, v.top, Most(0, top_down))
  <1>1. window_down(k, v, off, rows) = Put(v, s2, t2)
    BY DEF window_down, Put
  <1>2. v.top \in 0 .. k /\ v.sel \in 0 .. k /\ v.nr_rows \in Nat \ {0}
    BY DEF Over
  <1>3. buffer \in Int
    BY <1>2, Distances
  <1>4. down \in Nat /\ down <= rows /\ down <= k - v.sel
    BY <1>2 DEF Least, Below
  <1>5. half \in Nat /\ 2 * half <= v.nr_rows - 1
    BY <1>2
  <1> HIDE DEF buffer, down, half
  <1>6. bound \in Int /\ bound <= half
    BY <1>3, <1>5 DEF Least
  <1>7. s2 \in 0 .. k /\ s2 = v.sel + down
    <2>1. s2 \in 0 .. k /\ (v.sel + down <= k => s2 = v.sel + down)
      BY <1>2, <1>4, StepForward
    <2> HIDE DEF s2
    <2> QED BY <1>2, <1>4, <2>1
  <1> HIDE DEF bound, s2
  <1>8. top_down \in Int
    BY <1>3, <1>4, <1>6, <1>7 DEF Least, Below, Most
  <1>9. Most(0, top_down) \in Nat
    BY <1>8 DEF Most
  <1>10. top_down = Most(0, Least(bound, k - s2)) + down - buffer
    BY DEF Below
  <1> HIDE DEF top_down
  <1>11. t2 \in 0 .. k /\ (v.top + Most(0, top_down) <= k => t2 = v.top + Most(0, top_down))
    BY <1>2, <1>9, StepForward
  <1>12. ASSUME OnScreen(v) PROVE 1 <= t2 /\ t2 <= s2 /\ s2 < t2 + v.nr_rows
    <2>1. 1 <= v.top /\ v.top <= v.sel /\ v.sel < v.top + v.nr_rows
      BY <1>12 DEF OnScreen
    <2>2. buffer = v.nr_rows - 1 - (v.sel - v.top)
      BY <2>1, Distances DEF buffer
    <2>3. 0 <= buffer
      BY <1>2, <2>1, <2>2
    <2>4. down = 0 => bound <= buffer + rows
      BY <1>3, <1>5 DEF bound, Least
    <2>5. Most(0, Least(bound, k - s2)) <= half
      BY <1>5, <1>6, <1>7 DEF Most, Least
    <2>6. v.top + Most(0, top_down) <= s2
      <3>1. CASE top_down <= 0
        BY <1>2, <1>4, <1>7, <1>8, <2>1, <3>1 DEF Most
      <3>2. CASE top_down > 0
        <4>1. Most(0, Least(bound, k - s2)) <= v.nr_rows - 1
          <5> HIDE DEF t2
          <5> DEFINE y == Most(0, Least(bound, k - s2))
          <5>1. y <= half /\ y \in Int
            BY <1>6, <1>7, <2>5 DEF Most, Least
          <5> HIDE DEF y
          <5>2. y <= v.nr_rows - 1
            BY <1>2, <1>5, <5>1
          <5> QED BY <5>2 DEF y
        <4>2. Most(0, Least(bound, k - s2)) \in Int
          BY <1>6, <1>7 DEF Most, Least
        <4> QED BY <1>2, <1>3, <1>4, <1>7, <1>8, <1>10, <2>2, <3>2, <4>1, <4>2 DEF Most
      <3> QED BY <1>8, <3>1, <3>2
    <2>7. t2 = v.top + Most(0, top_down)
      <3> DEFINE y == Most(0, top_down)
      <3> HIDE DEF y, t2
      <3>1. y \in Nat /\ v.top + y <= s2 /\ (v.top + y <= k => t2 = v.top + y)
        BY <1>9, <1>11, <2>6 DEF y
      <3>2. t2 = v.top + y
        BY <1>2, <1>7, <3>1
      <3> QED BY <3>2 DEF y
    <2>8. s2 < t2 + v.nr_rows
      <3>1. Most(0, Least(bound, k - s2)) \in Nat
        BY <1>6, <1>7 DEF Most, Least
      <3>2. top_down >= down - buffer
        BY <1>3, <1>4, <1>10, <3>1
      <3>3. Most(0, top_down) >= down - buffer
        BY <1>3, <1>4, <1>8, <3>2 DEF Most
      <3> QED BY <1>2, <1>3, <1>4, <1>7, <1>9, <2>2, <2>7, <3>3
    <2> QED BY <1>2, <1>9, <2>1, <2>6, <2>7, <2>8
  <1> DEFINE u == window_down(k, v, off, rows)
  <1> HIDE DEF t2, u
  <1>13. Over(k, u) /\ u.sel = s2 /\ u.top = t2 /\ u.nr_rows = v.nr_rows /\ u.bug = v.bug
    <2>1. s2 \in 0 .. k /\ t2 \in 0 .. k
      BY <1>7, <1>11
    <2>2. u = Put(v, s2, t2)
      BY <1>1 DEF u
    <2>3. /\ Over(k, Put(v, s2, t2))
          /\ Put(v, s2, t2).sel = s2 /\ Put(v, s2, t2).top = t2
          /\ Put(v, s2, t2).nr_rows = v.nr_rows /\ Put(v, s2, t2).bug = v.bug
      BY <2>1, Moved
    <2> QED BY <2>2, <2>3
  <1> QED BY <1>12, <1>13 DEF Moves, OnScreen, u

(* window_changed over k rows, of a window that is at the head or at rows. *)
LEMMA Changes ==
  ASSUME NEW k \in Nat, NEW v, Over(k, v)
  PROVE  /\ Over(k, window_changed(k, v)) /\ window_changed(k, v).nr_rows = v.nr_rows
         /\ k > 0 /\ (v.top = 0 \/ v.sel # 0) => OnScreen(window_changed(k, v))
  <1> DEFINE u == window_changed(k, v)
             t1 == IF v.sel < v.top THEN v.sel ELSE Most(v.top, v.sel - v.nr_rows + 1)
             v1 == Put(v, v.sel, t1)
             missing == v.nr_rows - 1 - (k - t1)
             t2 == IF missing <= 0 \/ k = 0 THEN t1
                   ELSE Most(1, (IF t1 = 0 THEN k + 1 ELSE t1) - missing)
  <1>1. /\ v \in Windows /\ v.top \in 0 .. k /\ v.sel \in 0 .. k
        /\ v.nr_rows \in Nat \ {0}
    BY DEF Over
  <1>2. CASE v.top = 0
    BY <1>2, SetContents DEF window_changed
  <1>3. CASE v.top # 0
    <2>1. t1 \in 0 .. k
      BY <1>1 DEF Most
    <2>2. u = Minimized(k, v1)
      BY <1>1, <1>3 DEF window_changed, Put, Windows
    <2>3. Over(k, v1) /\ v1.sel = v.sel /\ v1.top = t1 /\ v1.nr_rows = v.nr_rows
      <3> DEFINE s1 == v.sel
      <3>1. s1 \in 0 .. k
        BY <1>1
      <3>2. v1 = Put(v, s1, t1)
        OBVIOUS
      <3> HIDE DEF t1, s1, v1
      <3>3. /\ Over(k, Put(v, s1, t1))
            /\ Put(v, s1, t1).sel = s1 /\ Put(v, s1, t1).top = t1
            /\ Put(v, s1, t1).nr_rows = v.nr_rows
        BY <2>1, <3>1, Moved
      <3>4. Over(k, v1) /\ v1.sel = s1 /\ v1.top = t1 /\ v1.nr_rows = v.nr_rows
        BY <3>2, <3>3
      <3> QED BY <3>4 DEF s1
    <2> HIDE DEF v1
    <2>4. v1 \in Windows
      BY <2>3 DEF Over
    <2>5. u = Put(v1, v.sel, t2)
      <3> HIDE DEF t1
      <3>1. CASE missing <= 0 \/ k = 0
        <4>1. u = v1
          BY <2>2, <2>3, <3>1 DEF Minimized, Below
        <4>2. v1 = Put(v1, v1.sel, v1.top)
          BY <2>4 DEF Put, Windows
        <4> QED BY <2>3, <3>1, <4>1, <4>2
      <3>2. CASE ~(missing <= 0 \/ k = 0)
        <4>1. u = [v1 EXCEPT !.top = t2]
          BY <2>2, <2>3, <3>2 DEF Minimized, Below
        <4>2. [v1 EXCEPT !.top = t2] = Put(v1, v1.sel, t2)
          <5> HIDE DEF t2
          <5> QED BY <2>4 DEF Put, Windows
        <4> QED BY <2>3, <4>1, <4>2
      <3> QED BY <3>1, <3>2
    <2>6. t2 \in 0 .. k
      <3> HIDE DEF t1
      <3> QED BY <1>1, <2>1 DEF Most
    <2>7. ASSUME v.sel # 0 PROVE 1 <= t2 /\ t2 <= v.sel /\ v.sel < t2 + v.nr_rows
      <3>1. 1 <= t1 /\ t1 <= v.sel /\ v.sel < t1 + v.nr_rows
        BY <1>1, <1>3, <2>7 DEF Most
      <3> HIDE DEF t1
      <3>2. CASE missing <= 0 \/ k = 0
        BY <3>1, <3>2
      <3>3. CASE ~(missing <= 0 \/ k = 0)
        <4>1. t2 = Most(1, k - v.nr_rows + 1) /\ t1 > k - v.nr_rows + 1
          BY <1>1, <2>1, <3>1, <3>3
        <4> HIDE DEF t2
        <4> QED BY <1>1, <2>1, <3>1, <4>1 DEF Most
      <3> QED BY <3>2, <3>3
    <2> HIDE DEF t2
    <2>8. /\ Over(k, Put(v1, v.sel, t2))
          /\ Put(v1, v.sel, t2).sel = v.sel /\ Put(v1, v.sel, t2).top = t2
          /\ Put(v1, v.sel, t2).nr_rows = v1.nr_rows
      <3> DEFINE s1 == v.sel
      <3>1. s1 \in 0 .. k
        BY <1>1
      <3> HIDE DEF s1
      <3>2. /\ Over(k, Put(v1, s1, t2))
            /\ Put(v1, s1, t2).sel = s1 /\ Put(v1, s1, t2).top = t2
            /\ Put(v1, s1, t2).nr_rows = v1.nr_rows
        BY <2>3, <2>6, <3>1, Moved
      <3> QED BY <3>2 DEF s1
    <2> HIDE DEF u
    <2>9. Over(k, u) /\ u.sel = v.sel /\ u.top = t2 /\ u.nr_rows = v.nr_rows
      BY <2>3, <2>5, <2>8
    <2>10. ASSUME v.sel # 0 PROVE OnScreen(u)
      BY <2>7, <2>9, <2>10 DEF OnScreen
    <2> QED BY <1>3, <2>9, <2>10 DEF u
  <1> QED BY <1>2, <1>3

LEMMA Resized ==
  ASSUME NEW k \in Nat, NEW v, Over(k, v), NEW h \in Nat \ {0}
  PROVE  /\ Over(k, window_set_nr_rows(k, v, h))
         /\ window_set_nr_rows(k, v, h).nr_rows = h
         /\ k > 0 /\ v.sel # 0 => OnScreen(window_set_nr_rows(k, v, h))
  <1> DEFINE u == [v EXCEPT !.nr_rows = h]
  <1>1. v \in Windows
    BY DEF Over
  <1>2. u \in Windows /\ u.nr_rows = h /\ u.sel = v.sel /\ u.top = v.top
    BY <1>1 DEF Windows
  <1>3. window_set_nr_rows(k, v, h) = window_changed(k, u)
    BY DEF window_set_nr_rows
  <1> HIDE DEF u
  <1>4. Over(k, u)
    BY <1>2 DEF Over
  <1> QED BY <1>2, <1>3, <1>4, Changes

(* window_row_vanishes before row i of k is removed. *)
Beside(k, i, x) == IF x = i THEN (IF i < k THEN i + 1 ELSE i - 1) ELSE x

LEMMA Vanishing ==
  ASSUME NEW k \in Nat, NEW v, Over(k, v), NEW i \in 1 .. k
  PROVE  LET u == window_row_vanishes(k, v, i)
         IN  /\ Over(k, u) /\ u.nr_rows = v.nr_rows
             /\ u.top = Beside(k, i, v.top) /\ u.sel = Beside(k, i, v.sel)
  <1> DEFINE u == window_row_vanishes(k, v, i)
             s == Beside(k, i, v.sel)
             t == Beside(k, i, v.top)
  <1>1. Forward(k, i, 1) # 0 <=> i < k
    <2>1. i \in 0 .. k /\ 1 \in Nat
      OBVIOUS
    <2>2. (i + 1 <= k => Forward(k, i, 1) = i + 1) /\ (i + 1 = k + 1 => Forward(k, i, 1) = 0)
      BY <2>1, StepForward
    <2> QED BY <2>2
  <1>2. v \in Windows /\ v.top \in 0 .. k /\ v.sel \in 0 .. k
    BY DEF Over
  <1>3. u = Put(v, s, t)
    BY <1>1, <1>2 DEF window_row_vanishes, Beside, Put, Windows
  <1>4. s \in 0 .. k /\ t \in 0 .. k
    BY <1>2 DEF Beside
  <1> HIDE DEF s, t
  <1>5. /\ Over(k, Put(v, s, t)) /\ Put(v, s, t).nr_rows = v.nr_rows
        /\ Put(v, s, t).sel = s /\ Put(v, s, t).top = t
    BY <1>4, Moved
  <1> HIDE DEF u
  <1>6. Over(k, u) /\ u.nr_rows = v.nr_rows /\ u.sel = s /\ u.top = t
    BY <1>3, <1>5
  <1> QED BY <1>6 DEF u, s, t

LEMMA SetSel ==
  ASSUME NEW k \in Nat, NEW v, Over(k, v), NEW off \in Nat, NEW i \in 1 .. k
  PROVE  Moves(k, v, window_set_sel(k, v, off, i))
  <1> DEFINE u == window_set_sel(k, v, off, i)
             above == Least(off, v.nr_rows \div 2)
             below == Least(off, (v.nr_rows - 1) \div 2)
             last == v.top + v.nr_rows - 1
             t == IF i < v.top + above THEN Most(1, i - above)
                  ELSE IF i > last THEN i - v.nr_rows + 1 + Least(below, k - i)
                  ELSE v.top + Most(0, Least(i + below, k) - last)
  <1>1. /\ v \in Windows /\ v.top \in 0 .. k /\ v.sel \in 0 .. k
        /\ v.nr_rows \in Nat \ {0}
    BY DEF Over
  <1>2. CASE v.top = 0
    <2>1. u = [v EXCEPT !.bug = TRUE]
      BY <1>2 DEF window_set_sel
    <2>2. u \in Windows /\ u.top = v.top /\ u.sel = v.sel /\ u.nr_rows = v.nr_rows
      BY <1>1, <2>1 DEF Windows
    <2> HIDE DEF u
    <2>3. Over(k, u)
      BY <1>1, <2>2 DEF Over
    <2> QED BY <2>2, <2>3 DEF Moves, OnScreen, u
  <1>3. CASE v.top # 0 /\ v.sel = i
    <2>1. u = v
      BY <1>3 DEF window_set_sel
    <2> QED BY <2>1 DEF Moves
  <1>4. CASE v.top # 0 /\ v.sel # i
    <2>1. u = Put(v, i, t)
      BY <1>4 DEF window_set_sel, Put
    <2>2. /\ above \in Nat /\ 2 * above <= v.nr_rows
          /\ below \in Nat /\ 2 * below <= v.nr_rows - 1
      BY <1>1 DEF Least
    <2> HIDE DEF above, below
    <2>3. 1 <= t /\ t <= i /\ i < t + v.nr_rows /\ t \in Int
      <3>1. CASE i < v.top + above
        <4>1. t = Most(1, i - above)
          BY <3>1
        <4> HIDE DEF t
        <4> QED BY <1>1, <2>2, <4>1 DEF Most
      <3>2. CASE ~(i < v.top + above) /\ i > last
        <4>1. t = i - v.nr_rows + 1 + Least(below, k - i)
          BY <3>2
        <4>2. Least(below, k - i) \in Nat /\ Least(below, k - i) <= below
          BY <2>2 DEF Least
        <4> HIDE DEF t
        <4> QED BY <1>1, <1>4, <2>2, <3>2, <4>1, <4>2
      <3>3. CASE ~(i < v.top + above) /\ ~(i > last)
        <4>1. t = v.top + Most(0, Least(i + below, k) - last)
          BY <3>3
        <4> HIDE DEF t
        <4>2. /\ Least(i + below, k) \in Nat /\ Least(i + below, k) <= i + below
              /\ i <= Least(i + below, k)
          BY <2>2 DEF Least
        <4>3. CASE Least(i + below, k) - last > 0
          BY <1>1, <1>4, <2>2, <3>3, <4>1, <4>2, <4>3 DEF Most
        <4>4. CASE ~(Least(i + below, k) - last > 0)
          BY <1>1, <1>4, <2>2, <3>3, <4>1, <4>2, <4>4 DEF Most
        <4> QED BY <4>3, <4>4
      <3> QED BY <3>1, <3>2, <3>3
    <2> HIDE DEF t
    <2>4. i \in 0 .. k /\ t \in 0 .. k
      BY <2>3
    <2>5. /\ Over(k, Put(v, i, t)) /\ Put(v, i, t).nr_rows = v.nr_rows
          /\ Put(v, i, t).sel = i /\ Put(v, i, t).top = t
      BY <2>4, Moved
    <2> HIDE DEF u
    <2>6. Over(k, u) /\ u.nr_rows = v.nr_rows /\ u.sel = i /\ u.top = t
      BY <2>1, <2>5
    <2> QED BY <2>3, <2>6 DEF Moves, OnScreen, u
  <1> QED BY <1>2, <1>3, <1>4

LEMMA GotoBottom ==
  ASSUME NEW k \in Nat, NEW v, Over(k, v)
  PROVE  LET u == window_goto_bottom(k, v)
         IN  Over(k, u) /\ u.nr_rows = v.nr_rows /\ (k > 0 => OnScreen(u))
  <1> DEFINE u == window_goto_bottom(k, v)
             t == Least(k, Most(1, k - v.nr_rows + 1))
  <1>1. v.nr_rows \in Nat \ {0}
    BY DEF Over
  <1>2. u = Put(v, k, t)
    BY DEF window_goto_bottom, Put
  <1>3. t \in 0 .. k /\ k < t + v.nr_rows /\ (k > 0 => 1 <= t)
    BY <1>1 DEF Least, Most
  <1> HIDE DEF t
  <1>4. /\ Over(k, Put(v, k, t)) /\ Put(v, k, t).nr_rows = v.nr_rows
        /\ Put(v, k, t).sel = k /\ Put(v, k, t).top = t
    <2>1. k \in 0 .. k
      OBVIOUS
    <2> QED BY <1>3, <2>1, Moved
  <1> HIDE DEF u
  <1>5. Over(k, u) /\ u.nr_rows = v.nr_rows /\ u.sel = k /\ u.top = t
    BY <1>2, <1>4
  <1> QED BY <1>3, <1>5 DEF OnScreen, u

LEMMA PagesUp ==
  ASSUME NEW k \in Nat, NEW v, Over(k, v), NEW rows \in Nat
  PROVE  Moves(k, v, PageUp(k, v, rows))
  <1> DEFINE u == PageUp(k, v, rows)
             j == Least(rows, Least(Above(k, v.sel), Above(k, v.top)))
             s == Backward(k, v.sel, j)
             t == Backward(k, v.top, j)
  <1>1. v.top \in 0 .. k /\ v.sel \in 0 .. k /\ v \in Windows
    BY DEF Over
  <1>2. u = Put(v, s, t)
    BY <1>1 DEF PageUp, Put, Windows
  <1>3. j \in Nat /\ (v.sel # 0 => j <= v.sel - 1) /\ (v.top # 0 => j <= v.top - 1)
    BY <1>1 DEF Least, Above
  <1> HIDE DEF j
  <1>4. /\ s \in 0 .. k /\ (j <= v.sel => s = v.sel - j)
        /\ t \in 0 .. k /\ (j <= v.top => t = v.top - j)
    BY <1>1, <1>3, StepBackward
  <1> HIDE DEF s, t
  <1>5. /\ Over(k, Put(v, s, t)) /\ Put(v, s, t).nr_rows = v.nr_rows
        /\ Put(v, s, t).sel = s /\ Put(v, s, t).top = t
    BY <1>4, Moved
  <1> HIDE DEF u
  <1>6. Over(k, u) /\ u.nr_rows = v.nr_rows /\ u.sel = s /\ u.top = t
    BY <1>2, <1>5
  <1>7. ASSUME OnScreen(v) PROVE 1 <= t /\ t <= s /\ s < t + v.nr_rows
    <2>1. 1 <= v.top /\ v.top <= v.sel /\ v.sel < v.top + v.nr_rows
      BY <1>7 DEF OnScreen
    <2>2. v.nr_rows \in Nat
      BY DEF Over
    <2> QED BY <1>1, <1>3, <1>4, <2>1, <2>2
  <1> QED BY <1>6, <1>7 DEF Moves, OnScreen, u

LEMMA PagesDown ==
  ASSUME NEW k \in Nat, NEW v, Over(k, v), NEW rows \in Nat
  PROVE  Moves(k, v, PageDown(k, v, rows))
  <1> DEFINE u == PageDown(k, v, rows)
             bottom == window_bottom(k, v)
             j == Least(rows, Least(Below(k, v.sel), Below(k, bottom)))
             s == Forward(k, v.sel, j)
             t == Forward(k, v.top, j)
  <1>1. v.top \in 0 .. k /\ v.sel \in 0 .. k /\ v \in Windows /\ v.nr_rows \in Nat \ {0}
    BY DEF Over
  <1>2. u = Put(v, s, t)
    BY <1>1 DEF PageDown, Put, Windows
  <1>3. bottom \in 0 .. k /\ v.top <= bottom
    BY <1>1 DEF window_bottom, Below, Least
  <1> HIDE DEF bottom
  <1>4. j \in Nat /\ v.sel + j <= k /\ v.top + j <= k
    BY <1>1, <1>3 DEF Least, Below
  <1> HIDE DEF j
  <1>5. /\ s \in 0 .. k /\ (v.sel + j <= k => s = v.sel + j)
        /\ t \in 0 .. k /\ (v.top + j <= k => t = v.top + j)
    BY <1>1, <1>4, StepForward
  <1> HIDE DEF s, t
  <1>6. /\ Over(k, Put(v, s, t)) /\ Put(v, s, t).nr_rows = v.nr_rows
        /\ Put(v, s, t).sel = s /\ Put(v, s, t).top = t
    BY <1>5, Moved
  <1> HIDE DEF u
  <1>7. Over(k, u) /\ u.nr_rows = v.nr_rows /\ u.sel = s /\ u.top = t
    BY <1>2, <1>6
  <1>8. ASSUME OnScreen(v) PROVE 1 <= t /\ t <= s /\ s < t + v.nr_rows
    <2>1. 1 <= v.top /\ v.top <= v.sel /\ v.sel < v.top + v.nr_rows
      BY <1>8 DEF OnScreen
    <2> QED BY <1>1, <1>4, <1>5, <2>1
  <1> QED BY <1>7, <1>8 DEF Moves, OnScreen, u

LEMMA ScrollsDown ==
  ASSUME NEW k \in Nat, NEW v, Over(k, v)
  PROVE  Moves(k, v, window_scroll_down(k, v))
  <1> DEFINE u == window_scroll_down(k, v)
             s == IF v.sel = v.top THEN v.top + 1 ELSE v.sel
             t == v.top + 1
  <1>1. v.top \in 0 .. k /\ v.sel \in 0 .. k /\ v \in Windows /\ v.nr_rows \in Nat \ {0}
    BY DEF Over
  <1>2. CASE Below(k, window_bottom(k, v)) = 0 \/ Below(k, v.top) = 0
    <2>1. u = v
      BY <1>2 DEF window_scroll_down
    <2> QED BY <2>1 DEF Moves
  <1>3. CASE ~(Below(k, window_bottom(k, v)) = 0 \/ Below(k, v.top) = 0)
    <2>1. v.top < k
      BY <1>1, <1>3 DEF Below
    <2>2. Forward(k, v.top, 1) = v.top + 1
      <3> DEFINE x == v.top
      <3>1. x \in 0 .. k /\ 1 \in Nat /\ x + 1 <= k
        BY <1>1, <2>1
      <3> HIDE DEF x
      <3>2. Forward(k, x, 1) = x + 1
        BY <3>1, StepForward
      <3> QED BY <3>2 DEF x
    <2>3. u = Put(v, s, t)
      BY <1>1, <1>3, <2>2 DEF window_scroll_down, Put, Windows
    <2>4. s \in 0 .. k /\ t \in 0 .. k
      BY <1>1, <2>1
    <2>5. ASSUME OnScreen(v) PROVE 1 <= t /\ t <= s /\ s < t + v.nr_rows
      BY <1>1, <2>5 DEF OnScreen
    <2> HIDE DEF s, t
    <2>6. /\ Over(k, Put(v, s, t)) /\ Put(v, s, t).nr_rows = v.nr_rows
          /\ Put(v, s, t).sel = s /\ Put(v, s, t).top = t
      BY <2>4, Moved
    <2> HIDE DEF u
    <2>7. Over(k, u) /\ u.nr_rows = v.nr_rows /\ u.sel = s /\ u.top = t
      BY <2>3, <2>6
    <2> QED BY <2>5, <2>7 DEF Moves, OnScreen, u
  <1> QED BY <1>2, <1>3

LEMMA ScrollsUp ==
  ASSUME NEW k \in Nat, NEW v, Over(k, v)
  PROVE  Moves(k, v, window_scroll_up(k, v))
  <1> DEFINE u == window_scroll_up(k, v)
             bottom == window_bottom(k, v)
             s == IF v.sel = bottom THEN Backward(k, v.sel, 1) ELSE v.sel
             t == Backward(k, v.top, 1)
  <1>1. v.top \in 0 .. k /\ v.sel \in 0 .. k /\ v \in Windows /\ v.nr_rows \in Nat \ {0}
    BY DEF Over
  <1>2. CASE Above(k, v.top) = 0
    <2>1. u = v
      BY <1>2 DEF window_scroll_up
    <2> QED BY <2>1 DEF Moves
  <1>3. CASE Above(k, v.top) # 0
    <2>1. u = Put(v, s, t)
      BY <1>1, <1>3 DEF window_scroll_up, Put, Windows
    <2>2. /\ t \in 0 .. k /\ (1 <= v.top => t = v.top - 1)
          /\ s \in 0 .. k
          /\ 1 <= v.sel => s = IF v.sel = bottom THEN v.sel - 1 ELSE v.sel
      <3> DEFINE x == v.top
                 y == v.sel
      <3>1. x \in 0 .. k /\ y \in 0 .. k /\ 1 \in Nat
        BY <1>1
      <3> HIDE DEF x, y
      <3>2. /\ Backward(k, x, 1) \in 0 .. k /\ (1 <= x => Backward(k, x, 1) = x - 1)
            /\ Backward(k, y, 1) \in 0 .. k /\ (1 <= y => Backward(k, y, 1) = y - 1)
        BY <3>1, StepBackward
      <3> QED BY <3>1, <3>2 DEF x, y
    <2>3. ASSUME OnScreen(v) PROVE 1 <= t /\ t <= s /\ s < t + v.nr_rows
      <3>1. 1 <= v.top /\ v.top <= v.sel /\ v.sel < v.top + v.nr_rows
        BY <2>3 DEF OnScreen
      <3>2. v.top # 1
        BY <1>1, <1>3 DEF Above
      <3>3. t = v.top - 1 /\ s = IF v.sel = bottom THEN v.sel - 1 ELSE v.sel
        BY <1>1, <2>2, <3>1
      <3>4. bottom = v.top + Least(v.nr_rows - 1, k - v.top)
        BY DEF window_bottom, Below
      <3> HIDE DEF s, t, bottom
      <3>5. v.sel = v.top + v.nr_rows - 1 => v.sel = bottom
        BY <1>1, <3>1, <3>4 DEF Least
      <3> QED BY <1>1, <3>1, <3>2, <3>3, <3>5
    <2> HIDE DEF s, t
    <2>4. /\ Over(k, Put(v, s, t)) /\ Put(v, s, t).nr_rows = v.nr_rows
          /\ Put(v, s, t).sel = s /\ Put(v, s, t).top = t
      BY <2>2, Moved
    <2> HIDE DEF u
    <2>5. Over(k, u) /\ u.nr_rows = v.nr_rows /\ u.sel = s /\ u.top = t
      BY <2>1, <2>4
    <2> QED BY <2>3, <2>5 DEF Moves, OnScreen, u
  <1> QED BY <1>2, <1>3

(* window_goto_pos, if the walk does not pass the last row. *)
LEMMA GotoRow ==
  ASSUME NEW k \in Nat, NEW v, Over(k, v), NEW pos \in Nat
  PROVE  LET u == window_goto_pos(k, v, pos)
         IN  /\ Over(k, u) /\ u.nr_rows = v.nr_rows
             /\ v.top + pos <= k /\ pos < v.nr_rows /\ v.top # 0 => OnScreen(u)
  <1> DEFINE u == window_goto_pos(k, v, pos)
             x == v.top
             s == Forward(k, x, pos)
  <1>1. x \in 0 .. k /\ v \in Windows /\ v.nr_rows \in Nat \ {0}
    BY DEF Over
  <1>2. u = Put(v, s, x)
    BY <1>1 DEF window_goto_pos, Put, Windows
  <1>3. x = v.top
    OBVIOUS
  <1> HIDE DEF x
  <1>4. s \in 0 .. k /\ (x + pos <= k => s = x + pos)
    BY <1>1, StepForward
  <1> HIDE DEF s
  <1>5. /\ Over(k, Put(v, s, x)) /\ Put(v, s, x).nr_rows = v.nr_rows
        /\ Put(v, s, x).sel = s /\ Put(v, s, x).top = x
    BY <1>1, <1>4, Moved
  <1> HIDE DEF u
  <1>6. Over(k, u) /\ u.nr_rows = v.nr_rows /\ u.sel = s /\ u.top = x
    BY <1>2, <1>5
  <1>7. ASSUME v.top + pos <= k, pos < v.nr_rows, v.top # 0 PROVE OnScreen(u)
    BY <1>1, <1>3, <1>4, <1>6, <1>7 DEF OnScreen
  <1> QED BY <1>6, <1>7 DEF u

-----------------------------------------------------------------------------
(* Sequences. *)



LEMMA PlaceOf ==
  ASSUME NEW l, NEW i \in 1 .. Len(l), Once(l)
  PROVE  Pos(l, l[i]) = i
  BY DEF Pos, Once

LEMMA PlaceIn ==
  ASSUME NEW l, NEW t, Contains(l, t)
  PROVE  Pos(l, t) \in 1 .. Len(l) /\ l[Pos(l, t)] = t
  BY DEF Pos, Contains




-----------------------------------------------------------------------------
(* The tree.  P leads from its nodes, in order, to their places in the     *)
(* list, and last to the place behind the end of the list.  The list has k *)
(* tracks and the tree m nodes.                                            *)

Shape(l, k, tr, m, P) ==
  /\ \A j \in 1 .. m + 1 : P[j] \in 1 .. k + 1
  /\ P[1] = 1 /\ P[m + 1] = k + 1
  /\ \A i, j \in 1 .. m + 1 : i < j => P[i] < P[j]
  /\ \A j \in 1 .. m : tr[j] = l[P[j]]

(* From the place of a node to that of the next, all keys are the node's.  *)
Runs(l, k, tr, m, P, key) ==
  /\ \A i, j \in 1 .. m : i < j => key[tr[i]] < key[tr[j]]
  /\ \A j \in 1 .. m, i \in 1 .. k :
       P[j] <= i /\ i < P[j + 1] => key[l[i]] = key[tr[j]]

LEMMA NotBelow ==
  ASSUME NEW l, NEW k \in Nat, NEW tr, NEW m \in Nat, NEW P, Shape(l, k, tr, m, P)
  PROVE  \A i, j \in 1 .. m + 1 : i <= j => P[i] <= P[j]
  <1>1. /\ \A j \in 1 .. m + 1 : P[j] \in 1 .. k + 1
        /\ \A i, j \in 1 .. m + 1 : i < j => P[i] < P[j]
    BY DEF Shape
  <1> SUFFICES ASSUME NEW i \in 1 .. m + 1, NEW j \in 1 .. m + 1, i <= j PROVE P[i] <= P[j]
    OBVIOUS
  <1>2. P[i] \in Int /\ P[j] \in Int
    BY <1>1
  <1>3. CASE i = j
    BY <1>2, <1>3
  <1>4. CASE i < j
    BY <1>1, <1>2, <1>4
  <1> QED BY <1>3, <1>4

(* A track that gets a node of its own, as the c-th. *)
LEMMA NewNode ==
  ASSUME NEW l, NEW k \in Nat, NEW tr, NEW m \in Nat, NEW P, Shape(l, k, tr, m, P),
         NEW c \in 1 .. m + 1, NEW t, NEW l2, NEW tr2, NEW P2,
         Put1(l2, l, k, P[c], t), Put1(tr2, tr, m, c, t),
         \A j \in 1 .. m + 2 : P2[j] = IF j <= c THEN P[j] ELSE P[j - 1] + 1
  PROVE  Shape(l2, k + 1, tr2, m + 1, P2)
  <1> DEFINE p == P[c]
  <1>1. /\ \A j \in 1 .. m + 1 : P[j] \in 1 .. k + 1
        /\ P[1] = 1 /\ P[m + 1] = k + 1
        /\ \A i, j \in 1 .. m + 1 : i < j => P[i] < P[j]
        /\ \A j \in 1 .. m : tr[j] = l[P[j]]
    BY DEF Shape
  <1>2. \A j \in 1 .. m + 1 : P[j] \in 1 .. k + 1
    BY <1>1
  <1>3. \A j \in 1 .. m + 2 : P2[j] = IF j <= c THEN P[j] ELSE P[j - 1] + 1
    OBVIOUS
  <1>4. p \in 1 .. k + 1 /\ p = P[c] /\ \A i, j \in 1 .. m + 1 : i <= j => P[i] <= P[j]
    BY <1>2, NotBelow
  <1>5. \A j \in 1 .. k + 1 : l2[j] = IF j < p THEN l[j] ELSE IF j = p THEN t ELSE l[j - 1]
    BY DEF Put1
  <1>6. \A j \in 1 .. m + 1 : tr2[j] = IF j < c THEN tr[j] ELSE IF j = c THEN t ELSE tr[j - 1]
    BY DEF Put1
  <1> HIDE DEF p
  <1>7. ASSUME NEW j \in 1 .. m + 2 PROVE P2[j] \in 1 .. k + 2
    <2>1. CASE j <= c
      BY <1>2, <1>3, <2>1
    <2>2. CASE j > c
      <3>1. j - 1 \in 1 .. m + 1
        BY <2>2
      <3> QED BY <1>2, <1>3, <2>2, <3>1
    <2> QED BY <2>1, <2>2
  <1>8. ASSUME NEW i \in 1 .. m + 2, NEW j \in 1 .. m + 2, i < j PROVE P2[i] < P2[j]
    <2>1. CASE j <= c
      BY <1>1, <1>3, <1>8, <2>1
    <2>2. CASE j > c /\ i > c
      <3>1. i - 1 \in 1 .. m + 1 /\ j - 1 \in 1 .. m + 1 /\ i - 1 < j - 1
        BY <1>8, <2>2
      <3> QED BY <1>1, <1>2, <1>3, <2>2, <3>1
    <2>3. CASE j > c /\ i <= c
      <3>1. i \in 1 .. m + 1 /\ j - 1 \in 1 .. m + 1 /\ i <= j - 1
        BY <1>8, <2>3
      <3>2. P[i] <= P[j - 1]
        BY <1>1, <1>2, <3>1
      <3> QED BY <1>2, <1>3, <2>3, <3>1, <3>2
    <2> QED BY <2>1, <2>2, <2>3
  <1>9. ASSUME NEW j \in 1 .. m + 1 PROVE tr2[j] = l2[P2[j]]
    <2>1. CASE j < c
      <3>1. j \in 1 .. m /\ j \in 1 .. m + 1 /\ j \in 1 .. m + 2
        BY <2>1
      <3>2. P2[j] = P[j] /\ P[j] < p /\ P[j] \in 1 .. k + 1
        BY <1>1, <1>2, <1>3, <1>4, <2>1, <3>1
      <3>3. l2[P[j]] = l[P[j]]
        BY <1>5, <3>2
      <3> QED BY <1>1, <1>6, <2>1, <3>1, <3>2, <3>3
    <2>2. CASE j = c
      <3>1. P2[j] = p
        BY <1>3, <1>4, <2>2
      <3> QED BY <1>4, <1>5, <1>6, <2>2, <3>1
    <2>3. CASE j > c
      <3> DEFINE h == j - 1
      <3>1. h \in 1 .. m /\ h \in 1 .. m + 1 /\ h >= c /\ j \in 1 .. m + 2 /\ m + 1 \in 1 .. m + 1 /\ h < m + 1
        BY <2>3
      <3>2. P2[j] = P[h] + 1 /\ tr2[j] = tr[h]
        BY <1>3, <1>6, <2>3, <3>1
      <3> HIDE DEF h
      <3>3. P[h] >= p /\ P[h] < k + 1 /\ P[h] \in 1 .. k + 1
        <4>1. P[c] <= P[h] /\ P[h] < P[m + 1]
          BY <1>1, <1>4, <3>1
        <4> QED BY <1>1, <1>2, <1>4, <3>1, <4>1
      <3> DEFINE y == P[h]
                 z == y + 1
      <3>4. z \in 1 .. k + 1 /\ z > p /\ z - 1 = y
        BY <1>4, <3>3
      <3>5. l2[z] = l[z - 1]
        <4> HIDE DEF z
        <4> QED BY <1>4, <1>5, <3>4
      <3> QED BY <1>1, <3>1, <3>2, <3>4, <3>5
    <2> QED BY <2>1, <2>2, <2>3
  <1>10. P2[1] = 1 /\ P2[m + 2] = k + 2
    <2>1. 1 \in 1 .. m + 2 /\ m + 2 \in 1 .. m + 2 /\ 1 <= c /\ ~(m + 2 <= c) /\ (m + 2) - 1 = m + 1
      OBVIOUS
    <2> QED BY <1>1, <1>3, <2>1
  <1>11. (m + 1) + 1 = m + 2 /\ (k + 1) + 1 = k + 2
    OBVIOUS
  <1> QED BY <1>7, <1>8, <1>9, <1>10, <1>11 DEF Shape

LEMMA NewNodeRuns ==
  ASSUME NEW l, NEW k \in Nat, NEW tr, NEW m \in Nat, NEW P, Shape(l, k, tr, m, P),
         NEW c \in 1 .. m + 1, NEW t, NEW l2, NEW tr2, NEW P2,
         Put1(l2, l, k, P[c], t), Put1(tr2, tr, m, c, t),
         \A j \in 1 .. m + 2 : P2[j] = IF j <= c THEN P[j] ELSE P[j - 1] + 1,
         NEW key, Runs(l, k, tr, m, P, key),
         \A j \in 1 .. m : IF j < c THEN key[tr[j]] < key[t] ELSE key[t] < key[tr[j]]
  PROVE  Runs(l2, k + 1, tr2, m + 1, P2, key)
  <1> DEFINE p == P[c]
  <1>1. /\ \A j \in 1 .. m + 1 : P[j] \in 1 .. k + 1
        /\ P[1] = 1 /\ P[m + 1] = k + 1
        /\ \A i, j \in 1 .. m + 1 : i < j => P[i] < P[j]
    BY DEF Shape
  <1>2. \A j \in 1 .. m + 1 : P[j] \in 1 .. k + 1
    BY <1>1
  <1>3. \A j \in 1 .. m + 2 : P2[j] = IF j <= c THEN P[j] ELSE P[j - 1] + 1
    OBVIOUS
  <1>4. p \in 1 .. k + 1 /\ p = P[c] /\ \A i, j \in 1 .. m + 1 : i <= j => P[i] <= P[j]
    BY <1>2, NotBelow
  <1>5. \A j \in 1 .. k + 1 : l2[j] = IF j < p THEN l[j] ELSE IF j = p THEN t ELSE l[j - 1]
    BY DEF Put1
  <1>6. \A j \in 1 .. m + 1 : tr2[j] = IF j < c THEN tr[j] ELSE IF j = c THEN t ELSE tr[j - 1]
    BY DEF Put1
  <1>7. /\ \A i, j \in 1 .. m : i < j => key[tr[i]] < key[tr[j]]
        /\ \A j \in 1 .. m, i \in 1 .. k : P[j] <= i /\ i < P[j + 1] => key[l[i]] = key[tr[j]]
    BY DEF Runs
  <1>8. \A j \in 1 .. m : /\ j < c => key[tr[j]] < key[t]
                         /\ j >= c => key[t] < key[tr[j]]
    OBVIOUS
  <1> HIDE DEF p
  <1>9. ASSUME NEW i \in 1 .. m + 1, NEW j \in 1 .. m + 1, i < j PROVE key[tr2[i]] < key[tr2[j]]
    <2>1. CASE j < c
      <3>1. i \in 1 .. m /\ j \in 1 .. m /\ i < c
        BY <1>9, <2>1
      <3> QED BY <1>6, <1>7, <1>9, <2>1, <3>1
    <2>2. CASE j = c
      <3>1. i \in 1 .. m /\ i < c
        BY <1>9, <2>2
      <3> QED BY <1>6, <1>8, <2>2, <3>1
    <2>3. CASE j > c
      <3> DEFINE h == j - 1
      <3>1. h \in 1 .. m /\ h >= c
        BY <2>3
      <3>2. tr2[j] = tr[h]
        BY <1>6, <2>3
      <3>3. h = j - 1
        OBVIOUS
      <3> HIDE DEF h
      <3>4. CASE i < c
        <4>1. i \in 1 .. m /\ i < h /\ tr2[i] = tr[i]
          BY <1>6, <2>3, <3>1, <3>3, <3>4
        <4> QED BY <1>7, <3>1, <3>2, <4>1
      <3>5. CASE i = c
        <4>1. tr2[i] = t
          BY <1>6, <3>5
        <4> QED BY <1>8, <3>1, <3>2, <4>1
      <3>6. CASE i > c
        <4> DEFINE y == i - 1
        <4>1. y \in 1 .. m /\ y < h
          BY <1>9, <3>3, <3>6
        <4>2. tr2[i] = tr[y]
          BY <1>6, <3>6
        <4> HIDE DEF y
        <4> QED BY <1>7, <3>1, <3>2, <4>1, <4>2
      <3> QED BY <3>4, <3>5, <3>6
    <2> QED BY <2>1, <2>2, <2>3
  <1>10. ASSUME NEW j \in 1 .. m + 1, NEW i \in 1 .. k + 1, P2[j] <= i, i < P2[j + 1]
         PROVE  key[l2[i]] = key[tr2[j]]
    <2>0. j \in 1 .. m + 2 /\ j + 1 \in 1 .. m + 2
      OBVIOUS
    <2>1. CASE j < c
      <3>1. j \in 1 .. m /\ j + 1 \in 1 .. m + 1 /\ j + 1 <= c
        BY <2>1
      <3>2. P2[j] = P[j] /\ P2[j + 1] = P[j + 1]
        BY <1>3, <2>0, <2>1, <3>1
      <3>3. P[j + 1] <= p
        BY <1>4, <3>1
      <3>4. P[j + 1] \in Int /\ i < P[j + 1] /\ P[j] <= i
        BY <1>2, <1>10, <3>1, <3>2
      <3>5. i < p /\ i \in 1 .. k
        BY <1>4, <3>3, <3>4
      <3>6. l2[i] = l[i] /\ tr2[j] = tr[j]
        BY <1>5, <1>6, <2>1, <3>5
      <3> QED BY <1>7, <3>1, <3>4, <3>5, <3>6
    <2>2. CASE j = c
      <3>1. P2[j] = p /\ P2[j + 1] = p + 1
        BY <1>3, <1>4, <2>0, <2>2
      <3>2. i = p
        <4>1. p <= i /\ i < p + 1 /\ p \in Int /\ i \in Int
          BY <1>4, <1>10, <3>1
        <4> QED BY <4>1
      <3> QED BY <1>5, <1>6, <2>2, <3>2
    <2>3. CASE j > c
      <3> DEFINE h == j - 1
                 x == i - 1
      <3>1. h \in 1 .. m /\ h \in 1 .. m + 1 /\ h >= c /\ h + 1 \in 1 .. m + 1
        BY <2>3
      <3>2. P2[j] = P[h] + 1 /\ P2[j + 1] = P[h + 1] + 1 /\ tr2[j] = tr[h]
        BY <1>3, <1>6, <2>0, <2>3
      <3>3. x \in Int /\ i = x + 1
        OBVIOUS
      <3> HIDE DEF h
      <3>4. P[h] >= p /\ P[h] \in 1 .. k + 1 /\ P[h + 1] \in 1 .. k + 1
        <4>1. P[c] <= P[h]
          BY <1>4, <3>1
        <4> QED BY <1>2, <1>4, <3>1, <4>1
      <3>5. P[h] <= x /\ x < P[h + 1] /\ i > p /\ x \in 1 .. k
        <4>1. P[h] + 1 <= i /\ i < P[h + 1] + 1
          BY <1>10, <3>2
        <4> DEFINE y == P[h]
                   z == P[h + 1]
        <4>2. y >= p /\ y \in 1 .. k + 1 /\ z \in 1 .. k + 1 /\ y + 1 <= i /\ i < z + 1 /\ p \in 1 .. k + 1
          BY <1>4, <3>4, <4>1
        <4> HIDE DEF x, y, z
        <4>3. y <= x /\ x < z /\ i > p /\ x \in 1 .. k
          BY <3>3, <4>2
        <4> QED BY <4>3 DEF y, z
      <3>6. l2[i] = l[x]
        BY <1>4, <1>5, <3>5
      <3> HIDE DEF x
      <3> QED BY <1>7, <3>1, <3>2, <3>5, <3>6
    <2> QED BY <2>1, <2>2, <2>3
  <1> QED BY <1>9, <1>10 DEF Runs

Joined(tr2, tr, m, c, P, p, t) ==
  \A j \in 1 .. m : tr2[j] = IF j = c /\ p = P[c] THEN t ELSE tr[j]
Shifted(P2, P, m, c) == \A j \in 1 .. m + 1 : P2[j] = IF j <= c THEN P[j] ELSE P[j] + 1

(* A track that joins the c-th run: at its front, where it takes over the  *)
(* node, or at its end.                                                    *)
LEMMA JoinsRun ==
  ASSUME NEW l, NEW k \in Nat, NEW tr, NEW m \in Nat, NEW P, Shape(l, k, tr, m, P),
         NEW c \in 1 .. m, NEW p \in {P[c], P[c + 1]}, NEW t, NEW l2, NEW tr2, NEW P2,
         Put1(l2, l, k, p, t), Joined(tr2, tr, m, c, P, p, t), Shifted(P2, P, m, c)
  PROVE  /\ Shape(l2, k + 1, tr2, m, P2)
         /\ \A key : Runs(l, k, tr, m, P, key) /\ key[t] = key[tr[c]]
                     => Runs(l2, k + 1, tr2, m, P2, key)
  <1>1. /\ \A j \in 1 .. m + 1 : P[j] \in 1 .. k + 1
        /\ P[1] = 1 /\ P[m + 1] = k + 1
        /\ \A i, j \in 1 .. m + 1 : i < j => P[i] < P[j]
        /\ \A j \in 1 .. m : tr[j] = l[P[j]]
    BY DEF Shape
  <1>2. \A j \in 1 .. m + 1 : P[j] \in 1 .. k + 1
    BY <1>1
  <1>3. \A j \in 1 .. m + 1 : P2[j] = IF j <= c THEN P[j] ELSE P[j] + 1
    BY DEF Shifted
  <1>0. \A j \in 1 .. m : tr2[j] = IF j = c /\ p = P[c] THEN t ELSE tr[j]
    BY DEF Joined
  <1> USE <1>0
  <1>4. \A i, j \in 1 .. m + 1 : i <= j => P[i] <= P[j]
    BY NotBelow
  <1>5. \A j \in 1 .. k + 1 : l2[j] = IF j < p THEN l[j] ELSE IF j = p THEN t ELSE l[j - 1]
    BY DEF Put1
  <1>6. c \in 1 .. m + 1 /\ c + 1 \in 1 .. m + 1 /\ P[c] < P[c + 1]
    BY <1>1
  <1>7. p \in 1 .. k + 1 /\ P[c] <= p /\ p <= P[c + 1]
    BY <1>2, <1>6
  <1>8. \A j \in 1 .. m + 1 : P2[j] \in 1 .. k + 2
    BY <1>2, <1>3
  <1>9. ASSUME NEW i \in 1 .. m + 1, NEW j \in 1 .. m + 1, i < j PROVE P2[i] < P2[j]
    <2>1. P[i] < P[j] /\ P[i] \in Int /\ P[j] \in Int
      BY <1>1, <1>2, <1>9
    <2> QED BY <1>3, <1>9, <2>1
  <1>10. ASSUME NEW j \in 1 .. m PROVE tr2[j] = l2[P2[j]]
    <2>0. j \in 1 .. m + 1 /\ P[j] \in 1 .. k + 1
      BY <1>2
    <2>1. CASE j < c
      <3>1. P2[j] = P[j] /\ P[j] < P[c]
        BY <1>1, <1>3, <1>6, <2>0, <2>1
      <3>2. P[j] < p
        BY <1>2, <1>6, <1>7, <2>0, <3>1
      <3> QED BY <1>1, <1>5, <2>0, <2>1, <3>1, <3>2
    <2>2. CASE j = c
      <3>1. P2[j] = P[c]
        BY <1>3, <2>0, <2>2
      <3>2. CASE p = P[c]
        BY <1>5, <1>7, <2>2, <3>1, <3>2
      <3>3. CASE p # P[c]
        <4>1. P[c] < p
          BY <1>2, <1>6, <1>7, <3>3
        <4> QED BY <1>1, <1>5, <2>0, <2>2, <3>1, <3>3, <4>1
      <3> QED BY <3>2, <3>3
    <2>3. CASE j > c
      <3>1. P2[j] = P[j] + 1 /\ P[c + 1] <= P[j] /\ P[j] < P[m + 1]
        BY <1>1, <1>3, <1>4, <1>6, <2>0, <2>3
      <3> DEFINE y == P[j]
                 z == y + 1
      <3>2. z \in 1 .. k + 1 /\ z > p /\ z - 1 = y
        BY <1>1, <1>2, <1>6, <1>7, <2>0, <3>1
      <3>3. l2[z] = l[z - 1]
        <4> HIDE DEF z
        <4> QED BY <1>5, <1>7, <3>2
      <3> QED BY <1>1, <2>3, <3>1, <3>2, <3>3
    <2> QED BY <2>1, <2>2, <2>3
  <1>11. P2[1] = 1 /\ P2[m + 1] = (k + 1) + 1
    BY <1>1, <1>3
  <1>12. Shape(l2, k + 1, tr2, m, P2)
    <2>1. (k + 1) + 1 = k + 2
      OBVIOUS
    <2> QED BY <1>8, <1>9, <1>10, <1>11, <2>1 DEF Shape
  <1>13. ASSUME NEW key, Runs(l, k, tr, m, P, key), key[t] = key[tr[c]]
         PROVE  Runs(l2, k + 1, tr2, m, P2, key)
    <2>1. \A j \in 1 .. m : key[tr2[j]] = key[tr[j]]
      BY <1>13
    <2>2. /\ \A i, j \in 1 .. m : i < j => key[tr[i]] < key[tr[j]]
          /\ \A j \in 1 .. m, i \in 1 .. k : P[j] <= i /\ i < P[j + 1] => key[l[i]] = key[tr[j]]
      BY <1>13 DEF Runs
    <2>3. ASSUME NEW j \in 1 .. m, NEW i \in 1 .. k + 1, P2[j] <= i, i < P2[j + 1]
          PROVE  key[l2[i]] = key[tr[j]]
      <3>0. /\ j \in 1 .. m + 1 /\ j + 1 \in 1 .. m + 1
            /\ P[j] \in 1 .. k + 1 /\ P[j + 1] \in 1 .. k + 1
        BY <1>2
      <3> DEFINE x == i - 1
      <3>1. CASE j < c
        <4>1. P2[j] = P[j] /\ P2[j + 1] = P[j + 1] /\ P[j + 1] <= P[c]
          BY <1>3, <1>4, <1>6, <3>0, <3>1
        <4>2. P[j] <= i /\ i < P[j + 1]
          BY <2>3, <4>1
        <4>3. i < p /\ i \in 1 .. k
          BY <1>2, <1>6, <1>7, <3>0, <4>1, <4>2
        <4> QED BY <1>5, <2>2, <4>2, <4>3
      <3>2. CASE j = c
        <4>1. P2[j] = P[c] /\ P2[j + 1] = P[c + 1] + 1
          BY <1>3, <3>0, <3>2
        <4>2. P[c] <= i /\ i < P[c + 1] + 1
          BY <2>3, <4>1
        <4>3. CASE i < p
          <5>1. i < P[c + 1] /\ i \in 1 .. k
            BY <1>2, <1>6, <1>7, <4>3
          <5> QED BY <1>5, <2>2, <3>2, <4>2, <4>3, <5>1
        <4>4. CASE i = p
          BY <1>5, <1>13, <3>2, <4>4
        <4>5. CASE i > p
          <5>1. P[c] <= x /\ x < P[c + 1] /\ x \in 1 .. k
            BY <1>2, <1>6, <1>7, <4>2, <4>5
          <5>2. l2[i] = l[x]
            BY <1>5, <1>7, <4>5
          <5> HIDE DEF x
          <5> QED BY <2>2, <3>2, <5>1, <5>2
        <4> QED BY <1>7, <4>3, <4>4, <4>5
      <3>3. CASE j > c
        <4>1. P2[j] = P[j] + 1 /\ P2[j + 1] = P[j + 1] + 1 /\ P[c + 1] <= P[j]
          BY <1>3, <1>4, <1>6, <3>0, <3>3
        <4>2. P[j] + 1 <= i /\ i < P[j + 1] + 1
          BY <2>3, <4>1
        <4>3. i > p
          BY <1>2, <1>6, <1>7, <3>0, <4>1, <4>2
        <4>4. P[j] <= x /\ x < P[j + 1] /\ x \in 1 .. k
          BY <3>0, <4>2
        <4>5. l2[i] = l[x]
          BY <1>5, <1>7, <4>3
        <4> HIDE DEF x
        <4> QED BY <2>2, <4>4, <4>5
      <3> QED BY <3>1, <3>2, <3>3
    <2> QED BY <2>1, <2>2, <2>3 DEF Runs
  <1> QED BY <1>12, <1>13

Handed(tr2, tr, m, P, i, l) ==
  \A j \in 1 .. m : /\ P[j] = i => P[j + 1] # i + 1
                    /\ tr2[j] = IF P[j] = i THEN l[i + 1] ELSE tr[j]
Drawn(P2, P, m, i) == \A j \in 1 .. m + 1 : P2[j] = IF P[j] <= i THEN P[j] ELSE P[j] - 1
Skipped(P2, P, m, c) == \A j \in 1 .. m : P2[j] = IF j < c THEN P[j] ELSE P[j + 1] - 1

(* A track that is taken out, and leaves its node, if it has one, to the   *)
(* next of its run.                                                        *)
LEMMA LeavesRun ==
  ASSUME NEW l, NEW k \in Nat, NEW tr, NEW m \in Nat, NEW P, Shape(l, k, tr, m, P),
         NEW i \in 1 .. k, NEW l2, NEW tr2, NEW P2,
         Take1(l2, l, k, i), Handed(tr2, tr, m, P, i, l), Drawn(P2, P, m, i)
  PROVE  /\ Shape(l2, k - 1, tr2, m, P2)
         /\ \A key : Runs(l, k, tr, m, P, key) => Runs(l2, k - 1, tr2, m, P2, key)
  <1>1. /\ \A j \in 1 .. m + 1 : P[j] \in 1 .. k + 1
        /\ P[1] = 1 /\ P[m + 1] = k + 1
        /\ \A x, j \in 1 .. m + 1 : x < j => P[x] < P[j]
        /\ \A j \in 1 .. m : tr[j] = l[P[j]]
    BY DEF Shape
  <1>2. \A j \in 1 .. m + 1 : P[j] \in 1 .. k + 1
    BY <1>1
  <1>0. /\ \A j \in 1 .. m : P[j] = i => P[j + 1] # i + 1
        /\ \A j \in 1 .. m : tr2[j] = IF P[j] = i THEN l[i + 1] ELSE tr[j]
    BY DEF Handed
  <1> USE <1>0
  <1>3. \A j \in 1 .. m + 1 : P2[j] = IF P[j] <= i THEN P[j] ELSE P[j] - 1
    BY DEF Drawn
  <1>4. \A x, j \in 1 .. m + 1 : x <= j => P[x] <= P[j]
    BY NotBelow
  <1>5. \A j \in 1 .. k - 1 : l2[j] = IF j < i THEN l[j] ELSE l[j + 1]
    BY DEF Take1
  <1>6. ASSUME NEW j \in 1 .. m, P[j] = i PROVE P[j + 1] \in i + 2 .. k + 1
    <2>1. j \in 1 .. m + 1 /\ j + 1 \in 1 .. m + 1 /\ j < j + 1
      OBVIOUS
    <2>2. P[j] < P[j + 1] /\ P[j + 1] \in 1 .. k + 1 /\ P[j + 1] # i + 1
      BY <1>1, <1>2, <1>6, <2>1
    <2> QED BY <1>6, <2>2
  <1>7. \A j \in 1 .. m + 1 : P2[j] \in 1 .. k
    BY <1>2, <1>3
  <1>8. ASSUME NEW x \in 1 .. m + 1, NEW j \in 1 .. m + 1, x < j PROVE P2[x] < P2[j]
    <2>1. P[x] < P[j] /\ P[x] \in Int /\ P[j] \in Int
      BY <1>1, <1>2, <1>8
    <2>2. CASE P[x] # i
      BY <1>3, <2>1, <2>2
    <2>3. CASE P[x] = i
      <3>1. x \in 1 .. m /\ x + 1 \in 1 .. m + 1 /\ x + 1 <= j
        BY <1>8
      <3>2. P[x + 1] \in i + 2 .. k + 1 /\ P[x + 1] <= P[j]
        BY <1>4, <1>6, <2>3, <3>1
      <3> QED BY <1>3, <2>1, <2>3, <3>2
    <2> QED BY <2>2, <2>3
  <1>9. ASSUME NEW j \in 1 .. m PROVE tr2[j] = l2[P2[j]]
    <2>0. j \in 1 .. m + 1 /\ P[j] \in 1 .. k + 1 /\ P[j] < P[m + 1]
      BY <1>1, <1>2
    <2>1. CASE P[j] < i
      <3>1. P2[j] = P[j] /\ P[j] \in 1 .. k - 1
        BY <1>3, <2>0, <2>1
      <3> QED BY <1>1, <1>5, <2>1, <3>1
    <2>2. CASE P[j] = i
      <3>1. P2[j] = i /\ i \in 1 .. k - 1
        BY <1>3, <1>6, <2>0, <2>2
      <3> QED BY <1>5, <2>2, <3>1
    <2>3. CASE P[j] > i
      <3> DEFINE y == P[j]
                 z == y - 1
      <3>1. P2[j] = z /\ z \in 1 .. k - 1 /\ z >= i /\ z + 1 = y
        BY <1>1, <1>3, <2>0, <2>3
      <3>2. l2[z] = l[z + 1]
        <4> HIDE DEF z
        <4> QED BY <1>5, <3>1
      <3> QED BY <1>1, <2>3, <3>1, <3>2
    <2> QED BY <2>0, <2>1, <2>2, <2>3
  <1>10. P2[1] = 1 /\ P2[m + 1] = (k - 1) + 1
    BY <1>1, <1>3
  <1>11. Shape(l2, k - 1, tr2, m, P2)
    <2>1. (k - 1) + 1 = k
      OBVIOUS
    <2> QED BY <1>7, <1>8, <1>9, <1>10, <2>1 DEF Shape
  <1>12. ASSUME NEW key, Runs(l, k, tr, m, P, key)
         PROVE  Runs(l2, k - 1, tr2, m, P2, key)
    <2>1. /\ \A x, j \in 1 .. m : x < j => key[tr[x]] < key[tr[j]]
          /\ \A j \in 1 .. m, x \in 1 .. k : P[j] <= x /\ x < P[j + 1] => key[l[x]] = key[tr[j]]
      BY <1>12 DEF Runs
    <2>2. ASSUME NEW j \in 1 .. m PROVE key[tr2[j]] = key[tr[j]]
      <3>1. CASE P[j] # i
        BY <3>1
      <3>2. CASE P[j] = i
        <4> DEFINE x == i + 1
        <4>1. x \in 1 .. k /\ P[j] <= x /\ x < P[j + 1]
          BY <1>6, <3>2
        <4>2. tr2[j] = l[x]
          BY <3>2
        <4> HIDE DEF x
        <4> QED BY <2>1, <4>1, <4>2
      <3> QED BY <3>1, <3>2
    <2>3. ASSUME NEW j \in 1 .. m, NEW x \in 1 .. k - 1, P2[j] <= x, x < P2[j + 1]
          PROVE  key[l2[x]] = key[tr[j]]
      <3>0. /\ j \in 1 .. m + 1 /\ j + 1 \in 1 .. m + 1
            /\ P[j] \in 1 .. k + 1 /\ P[j + 1] \in 1 .. k + 1
        BY <1>2
      <3>1. /\ P2[j] = IF P[j] <= i THEN P[j] ELSE P[j] - 1
            /\ P2[j + 1] = IF P[j + 1] <= i THEN P[j + 1] ELSE P[j + 1] - 1
        BY <1>3, <3>0
      <3>2. CASE x < i
        <4>1. P[j] <= x /\ x < P[j + 1] /\ x \in 1 .. k
          BY <2>3, <3>0, <3>1, <3>2
        <4> QED BY <1>5, <2>1, <3>2, <4>1
      <3>3. CASE x >= i
        <4> DEFINE y == x + 1
        <4>1. P[j] <= y /\ y < P[j + 1] /\ y \in 1 .. k
          BY <2>3, <3>0, <3>1, <3>3
        <4>2. l2[x] = l[y]
          BY <1>5, <3>3
        <4> HIDE DEF y
        <4> QED BY <2>1, <4>1, <4>2
      <3> QED BY <3>2, <3>3
    <2> QED BY <2>1, <2>2, <2>3 DEF Runs
  <1> QED BY <1>11, <1>12

(* A track that is taken out, and was alone in the c-th run. *)
LEMMA LeavesTree ==
  ASSUME NEW l, NEW k \in Nat, NEW tr, NEW m \in Nat, NEW P, Shape(l, k, tr, m, P),
         NEW c \in 1 .. m, P[c + 1] = P[c] + 1, NEW l2, NEW tr2, NEW P2,
         Take1(l2, l, k, P[c]), Take1(tr2, tr, m, c), Skipped(P2, P, m, c)
  PROVE  /\ Shape(l2, k - 1, tr2, m - 1, P2)
         /\ \A key : Runs(l, k, tr, m, P, key) => Runs(l2, k - 1, tr2, m - 1, P2, key)
  <1> DEFINE i == P[c]
  <1>1. /\ \A j \in 1 .. m + 1 : P[j] \in 1 .. k + 1
        /\ P[1] = 1 /\ P[m + 1] = k + 1
        /\ \A x, j \in 1 .. m + 1 : x < j => P[x] < P[j]
        /\ \A j \in 1 .. m : tr[j] = l[P[j]]
    BY DEF Shape
  <1>2. \A j \in 1 .. m + 1 : P[j] \in 1 .. k + 1
    BY <1>1
  <1>3. \A j \in 1 .. m : P2[j] = IF j < c THEN P[j] ELSE P[j + 1] - 1
    BY DEF Skipped
  <1>4. \A x, j \in 1 .. m + 1 : x <= j => P[x] <= P[j]
    BY NotBelow
  <1>5. /\ i \in 1 .. k /\ P[c] = i /\ P[c + 1] = i + 1
        /\ c \in 1 .. m + 1 /\ c + 1 \in 1 .. m + 1
    BY <1>2
  <1>6. \A j \in 1 .. k - 1 : l2[j] = IF j < i THEN l[j] ELSE l[j + 1]
    BY DEF Take1
  <1>7. \A j \in 1 .. m - 1 : tr2[j] = IF j < c THEN tr[j] ELSE tr[j + 1]
    BY DEF Take1
  <1> HIDE DEF i
  <1>8. ASSUME NEW j \in 1 .. m PROVE /\ j < c => P2[j] = P[j] /\ P[j] \in 1 .. i - 1
                                      /\ j >= c => /\ P[j + 1] \in i + 1 .. k + 1
                                                   /\ P2[j] = P[j + 1] - 1
    <2>1. j \in 1 .. m + 1 /\ j + 1 \in 1 .. m + 1
      OBVIOUS
    <2>2. P[j] \in 1 .. k + 1 /\ P[j + 1] \in 1 .. k + 1
      BY <1>2, <2>1
    <2>3. CASE j < c
      BY <1>1, <1>3, <1>5, <2>1, <2>2, <2>3
    <2>4. CASE j >= c
      <3>1. P[c + 1] <= P[j + 1]
        BY <1>4, <1>5, <2>1, <2>4
      <3> QED BY <1>3, <1>5, <2>2, <2>4, <3>1
    <2> QED BY <2>3, <2>4
  <1>9. \A j \in 1 .. m : P2[j] \in 1 .. k
    BY <1>5, <1>8
  <1>10. ASSUME NEW x \in 1 .. m, NEW j \in 1 .. m, x < j PROVE P2[x] < P2[j]
    <2>1. /\ x \in 1 .. m + 1 /\ x + 1 \in 1 .. m + 1
          /\ j \in 1 .. m + 1 /\ j + 1 \in 1 .. m + 1 /\ x + 1 < j + 1
      BY <1>10
    <2>2. CASE j < c
      BY <1>1, <1>8, <1>10, <2>1, <2>2
    <2>3. CASE x < c /\ j >= c
      BY <1>5, <1>8, <2>3
    <2>4. CASE x >= c
      <3>1. P[x + 1] < P[j + 1]
        BY <1>1, <2>1
      <3> QED BY <1>5, <1>8, <1>10, <2>1, <2>4, <3>1
    <2> QED BY <2>2, <2>3, <2>4
  <1>11. ASSUME NEW j \in 1 .. m - 1 PROVE tr2[j] = l2[P2[j]]
    <2>0. j \in 1 .. m /\ j + 1 \in 1 .. m /\ j + 1 \in 1 .. m + 1 /\ j + 1 < m + 1 /\ m + 1 \in 1 .. m + 1
      OBVIOUS
    <2>1. CASE j < c
      BY <1>1, <1>5, <1>6, <1>7, <1>8, <2>0, <2>1
    <2>2. CASE j >= c
      <3> DEFINE y == P[j + 1]
                 z == y - 1
      <3>1. P[j + 1] < P[m + 1]
        BY <1>1, <2>0
      <3>2. P2[j] = z /\ z \in 1 .. k - 1 /\ z >= i /\ z + 1 = y
        BY <1>1, <1>5, <1>8, <2>0, <2>2, <3>1
      <3>3. l2[z] = l[z + 1]
        <4> HIDE DEF z
        <4> QED BY <1>5, <1>6, <3>2
      <3>4. tr2[j] = tr[j + 1] /\ tr[j + 1] = l[y]
        BY <1>1, <1>7, <2>0, <2>2
      <3> QED BY <3>2, <3>3, <3>4
    <2> QED BY <2>1, <2>2
  <1>12. P2[1] = 1 /\ P2[m] = k
    BY <1>1, <1>5, <1>8
  <1>13. Shape(l2, k - 1, tr2, m - 1, P2)
    <2>1. (k - 1) + 1 = k /\ (m - 1) + 1 = m
      OBVIOUS
    <2> QED BY <1>9, <1>10, <1>11, <1>12, <2>1 DEF Shape
  <1>14. ASSUME NEW key, Runs(l, k, tr, m, P, key)
         PROVE  Runs(l2, k - 1, tr2, m - 1, P2, key)
    <2>1. /\ \A x, j \in 1 .. m : x < j => key[tr[x]] < key[tr[j]]
          /\ \A j \in 1 .. m, x \in 1 .. k : P[j] <= x /\ x < P[j + 1] => key[l[x]] = key[tr[j]]
      BY <1>14 DEF Runs
    <2>2. ASSUME NEW x \in 1 .. m - 1, NEW j \in 1 .. m - 1, x < j PROVE key[tr2[x]] < key[tr2[j]]
      <3>1. /\ x \in 1 .. m /\ x + 1 \in 1 .. m /\ j \in 1 .. m /\ j + 1 \in 1 .. m
            /\ x < j + 1 /\ x + 1 < j + 1
        BY <2>2
      <3> QED BY <1>7, <2>1, <2>2, <3>1
    <2>3. ASSUME NEW j \in 1 .. m - 1, NEW x \in 1 .. k - 1, P2[j] <= x, x < P2[j + 1]
          PROVE  key[l2[x]] = key[tr2[j]]
      <3>0. j \in 1 .. m /\ j + 1 \in 1 .. m
        OBVIOUS
      <3> DEFINE y == x + 1
      <3>1. CASE j + 1 < c
        <4>1. P[j] <= x /\ x < P[j + 1] /\ x < i /\ x \in 1 .. k
          BY <1>5, <1>8, <2>3, <3>0, <3>1
        <4> QED BY <1>6, <1>7, <2>1, <3>0, <3>1, <4>1
      <3>2. CASE j + 1 = c
        <4>1. P2[j] = P[j] /\ P2[j + 1] = i
          BY <1>5, <1>8, <3>0, <3>2
        <4>2. P[j] <= x /\ x < P[j + 1] /\ x < i /\ x \in 1 .. k
          BY <1>5, <2>3, <3>2, <4>1
        <4> QED BY <1>6, <1>7, <2>1, <3>0, <3>2, <4>2
      <3>3. CASE j >= c
        <4> DEFINE h == j + 1
        <4>1. h \in 1 .. m /\ h + 1 \in 1 .. m + 1
          OBVIOUS
        <4>2. P2[j] = P[h] - 1 /\ P2[h] = P[h + 1] - 1 /\ P[h] \in i + 1 .. k + 1 /\ P[h + 1] \in i + 1 .. k + 1
          BY <1>8, <3>0, <3>3
        <4>3. tr2[j] = tr[h]
          BY <1>7, <3>3
        <4>4. P2[h] = P2[j + 1]
          OBVIOUS
        <4> HIDE DEF h
        <4>5. P[h] <= y /\ y < P[h + 1] /\ y \in 1 .. k /\ x >= i
          BY <1>5, <2>3, <4>2, <4>4
        <4>6. l2[x] = l[y]
          BY <1>5, <1>6, <4>5
        <4> HIDE DEF y
        <4> QED BY <2>1, <4>1, <4>3, <4>5, <4>6
      <3> QED BY <3>1, <3>2, <3>3
    <2> QED BY <2>2, <2>3 DEF Runs
  <1> QED BY <1>13, <1>14

-----------------------------------------------------------------------------
(* Lists. *)

LEMMA Smallest ==
  ASSUME NEW S \in SUBSET Nat, NEW x \in S
  PROVE  \E y \in S : \A z \in S : y <= z
  <1>1. IsWellFoundedOn(OpToRel(<, Nat), Nat)
    BY NatLessThanWellFounded
  <1>2. PICK y \in S : \A z \in S : ~(<<z, y>> \in OpToRel(<, Nat))
    BY <1>1, WFMin
  <1>3. ASSUME NEW z \in S PROVE y <= z
    <2>1. y \in Nat /\ z \in Nat
      OBVIOUS
    <2>2. ~(z < y)
      BY <1>2, <2>1 DEF OpToRel
    <2> QED BY <2>1, <2>2
  <1> QED BY <1>3

(* Each place of the list is in the run of a node. *)
LEMMA InARun ==
  ASSUME NEW l, NEW k \in Nat, NEW tr, NEW m \in Nat, NEW P, Shape(l, k, tr, m, P),
         NEW i \in 1 .. k
  PROVE  \E j \in 1 .. m : P[j] <= i /\ i < P[j + 1]
  <1> DEFINE A == {j \in 1 .. m + 1 : i < P[j]}
  <1>1. /\ \A j \in 1 .. m + 1 : P[j] \in 1 .. k + 1
        /\ P[1] = 1 /\ P[m + 1] = k + 1
    BY DEF Shape
  <1>2. m + 1 \in A /\ A \in SUBSET Nat
    BY <1>1
  <1>3. PICK y \in A : \A z \in A : y <= z
    BY <1>2, Smallest
  <1>4. y \in 1 .. m + 1 /\ i < P[y] /\ y # 1
    BY <1>1
  <1> DEFINE j == y - 1
  <1>5. j \in 1 .. m /\ j \in 1 .. m + 1 /\ j + 1 = y /\ j < y
    BY <1>4
  <1> HIDE DEF j
  <1>6. j \notin A
    BY <1>3, <1>5
  <1>7. P[j] <= i
    BY <1>1, <1>5, <1>6
  <1> QED BY <1>4, <1>5, <1>7

(* The order of the sort keys. *)
KeyOf(k, inf) == [t \in Tracks |-> IF k = "none" THEN 0 ELSE inf[t]]

LEMMA Compared ==
  ASSUME NEW k, NEW inf \in [Tracks -> Int], NEW a \in Tracks, NEW b \in Tracks
  PROVE  /\ KeyOf(k, inf) \in [Tracks -> Int]
         /\ Cmp(k, inf, a, b) = KeyOf(k, inf)[a] - KeyOf(k, inf)[b]
  BY DEF KeyOf, Cmp

Shaped(s, P) == Shape(s.list, Len(s.list), s.tree, Len(s.tree), P)
Running(s, P, key) == Runs(s.list, Len(s.list), s.tree, Len(s.tree), P, key)

LEMMA Parts ==
  ASSUME NEW s \in Lists
  PROVE  /\ s.list \in Seq(Tracks) /\ s.tree \in Seq(Tracks)
         /\ Len(s.list) \in Nat /\ Len(s.tree) \in Nat
         /\ s.nodes \subseteq Tracks /\ s.ub \in BOOLEAN /\ s.marked \subseteq Tracks
         /\ s.nr_tracks \in Int /\ s.nr_marked \in Int /\ s.win \in Windows
  <1>1. /\ s.list \in Seq(Tracks) /\ s.tree \in Seq(Tracks)
        /\ s.nodes \subseteq Tracks /\ s.ub \in BOOLEAN /\ s.marked \subseteq Tracks
        /\ s.nr_tracks \in Int /\ s.nr_marked \in Int /\ s.win \in Windows
    BY DEF Lists, Windows
  <1> QED BY <1>1

(* A list with another order, tree and nodes. *)
Relisted(s, l, tr, nd, u) == [s EXCEPT !.list = l, !.tree = tr, !.nodes = nd, !.ub = u]

LEMMA Relists ==
  ASSUME NEW s \in Lists, NEW l \in Seq(Tracks), NEW tr \in Seq(Tracks),
         NEW nd \in SUBSET Tracks, NEW u \in BOOLEAN
  PROVE  LET r == Relisted(s, l, tr, nd, u)
         IN  /\ r \in Lists
             /\ r.list = l /\ r.tree = tr /\ r.nodes = nd /\ r.ub = u
             /\ r.marked = s.marked /\ r.nr_tracks = s.nr_tracks
             /\ r.nr_marked = s.nr_marked /\ r.win = s.win
  BY DEF Lists, Relisted

(* The same without the unchanged parts. *)
LEMMA SameParts ==
  ASSUME NEW s \in Lists, NEW l, NEW tr, NEW nd
  PROVE  /\ [s EXCEPT !.list = l] = Relisted(s, l, s.tree, s.nodes, s.ub)
         /\ [s EXCEPT !.list = l, !.ub = TRUE] = Relisted(s, l, s.tree, s.nodes, TRUE)
         /\ [s EXCEPT !.list = l, !.tree = tr] = Relisted(s, l, tr, s.nodes, s.ub)
         /\ [s EXCEPT !.list = l, !.tree = tr, !.nodes = nd] = Relisted(s, l, tr, nd, s.ub)
  BY DEF Lists, Relisted

(* Place finds the place of a node. *)
LEMMA PlaceFound ==
  ASSUME NEW s \in Lists, Once(s.list), NEW P, Shaped(s, P), NEW j \in 1 .. Len(s.tree) + 1
  PROVE  Place(s, j) = P[j] /\ P[j] \in 1 .. Len(s.list) + 1
  <1>1. Len(s.list) \in Nat /\ Len(s.tree) \in Nat
    BY Parts
  <1>2. /\ \A i \in 1 .. Len(s.tree) + 1 : P[i] \in 1 .. Len(s.list) + 1
        /\ P[Len(s.tree) + 1] = Len(s.list) + 1
        /\ \A x, y \in 1 .. Len(s.tree) + 1 : x < y => P[x] < P[y]
        /\ \A i \in 1 .. Len(s.tree) : s.tree[i] = s.list[P[i]]
    BY DEF Shaped, Shape
  <1>3. CASE j = Len(s.tree) + 1
    BY <1>1, <1>2, <1>3 DEF Place
  <1>4. CASE j # Len(s.tree) + 1
    <2>1. j \in 1 .. Len(s.tree) /\ Len(s.tree) + 1 \in 1 .. Len(s.tree) + 1
      BY <1>1, <1>4
    <2>2. P[j] < P[Len(s.tree) + 1]
      BY <1>1, <1>2, <2>1
    <2>3. P[j] \in 1 .. Len(s.list)
      BY <1>1, <1>2, <2>1, <2>2
    <2>4. Pos(s.list, s.list[P[j]]) = P[j]
      BY <2>3, PlaceOf
    <2> QED BY <1>1, <1>2, <2>1, <2>4 DEF Place
  <1> QED BY <1>3, <1>4

(* What adding a track yields: the list l with t put into it, with a tree  *)
(* of which some P2 gives the places.                                      *)
Yields(l, tr, nd, P, key, t, l2, tr2, nd2) ==
  /\ \E p \in 1 .. Len(l) + 1 : l2 = InsertAt(l, p, t)
  /\ l2 \in Seq(Tracks) /\ tr2 \in Seq(Tracks) /\ nd2 \in SUBSET Tracks
  /\ ToSet(tr) \subseteq nd => ToSet(tr2) \subseteq nd2
  /\ \E P2 : /\ Shape(l2, Len(l2), tr2, Len(tr2), P2)
             /\ Runs(l, Len(l), tr, Len(tr), P, key) => Runs(l2, Len(l2), tr2, Len(tr2), P2, key)

LEMMA AddNode ==
  ASSUME NEW l \in Seq(Tracks), NEW tr \in Seq(Tracks), NEW P, Shape(l, Len(l), tr, Len(tr), P),
         NEW t \in Tracks, NEW nd \in SUBSET Tracks, NEW key \in [Tracks -> Int],
         NEW d \in 1 .. Len(tr) + 1,
         \A j \in 1 .. Len(tr) : j = d - 1 => key[tr[j]] < key[t],
         \A j \in 1 .. Len(tr) : j = d => key[t] < key[tr[j]],
         NEW l2, l2 = InsertAt(l, P[d], t), NEW tr2, tr2 = InsertAt(tr, d, t)
  PROVE  Yields(l, tr, nd, P, key, t, l2, tr2, nd \cup {t})
  <1> DEFINE k == Len(l)
             m == Len(tr)
             p == P[d]
             P2 == [j \in 1 .. m + 2 |-> IF j <= d THEN P[j] ELSE P[j - 1] + 1]
  <1>1. k \in Nat /\ m \in Nat
    OBVIOUS
  <1>2. p \in 1 .. Len(l) + 1
    BY DEF Shape
  <1>3. l2 \in Seq(Tracks) /\ Len(l2) = k + 1 /\ Put1(l2, l, k, p, t)
    <2> HIDE DEF p
    <2>1. l2 = InsertAt(l, p, t)
      BY DEF p
    <2> QED BY <1>2, <2>1, Inserted
  <1>4. tr2 \in Seq(Tracks) /\ Len(tr2) = m + 1 /\ Put1(tr2, tr, m, d, t)
    BY Inserted
  <1>5. \A j \in 1 .. m + 2 : P2[j] = IF j <= d THEN P[j] ELSE P[j - 1] + 1
    OBVIOUS
  <1>6. DOMAIN tr2 = 1 .. m + 1 /\ DOMAIN tr = 1 .. m
    BY <1>4
  <1>7. \A j \in 1 .. m : tr[j] \in Tracks
    OBVIOUS
  <1>8. d \in 1 .. m + 1
    OBVIOUS
  <1>9. /\ \A j \in 1 .. m : j = d - 1 => key[tr[j]] < key[t]
        /\ \A j \in 1 .. m : j = d => key[t] < key[tr[j]]
    OBVIOUS
  <1>10. Shape(l, k, tr, m, P)
    OBVIOUS
  <1> HIDE DEF k, m, P2
  <1>11. ASSUME ToSet(tr) \subseteq nd PROVE ToSet(tr2) \subseteq nd \cup {t}
    <2> SUFFICES ASSUME NEW j \in 1 .. m + 1 PROVE tr2[j] \in nd \cup {t}
      BY <1>6 DEF ToSet
    <2>1. \A x \in 1 .. m : tr[x] \in nd
      BY <1>6, <1>11 DEF ToSet
    <2>2. \A x \in 1 .. m + 1 : tr2[x] = IF x < d THEN tr[x] ELSE IF x = d THEN t ELSE tr[x - 1]
      BY <1>4 DEF Put1
    <2>3. CASE j < d
      <3>1. j \in 1 .. m
        BY <1>1, <1>8, <2>3
      <3>2. tr2[j] = tr[j]
        BY <2>2, <2>3
      <3> QED BY <2>1, <3>1, <3>2
    <2>4. CASE j = d
      BY <1>1, <1>8, <2>2, <2>4
    <2>5. CASE j > d
      <3> DEFINE h == j - 1
      <3>1. h \in 1 .. m
        BY <1>1, <1>8, <2>5
      <3>2. tr2[j] = tr[h]
        BY <1>1, <1>8, <2>2, <2>5
      <3> HIDE DEF h
      <3> QED BY <2>1, <3>1, <3>2
    <2> QED BY <1>1, <1>8, <2>3, <2>4, <2>5
  <1>12. Put1(l2, l, k, P[d], t)
    BY <1>3
  <1> HIDE DEF p
  <1>13. Shape(l2, k + 1, tr2, m + 1, P2)
    BY <1>1, <1>4, <1>5, <1>8, <1>10, <1>12, NewNode
  <1>14. ASSUME Runs(l, k, tr, m, P, key) PROVE Runs(l2, k + 1, tr2, m + 1, P2, key)
    <2>1. \A i, j \in 1 .. m : i < j => key[tr[i]] < key[tr[j]]
      BY <1>14 DEF Runs
    <2>2. \A j \in 1 .. m : key[tr[j]] \in Int /\ key[t] \in Int
      BY <1>7
    <2>3. ASSUME NEW j \in 1 .. m
          PROVE  IF j < d THEN key[tr[j]] < key[t] ELSE key[t] < key[tr[j]]
      <3>1. CASE j < d
        <4> DEFINE g == d - 1
        <4>1. g \in 1 .. m /\ (j = g \/ j < g)
          BY <1>1, <1>8, <3>1
        <4>2. key[tr[g]] < key[t]
          BY <1>9, <4>1
        <4> HIDE DEF g
        <4>3. key[tr[j]] \in Int /\ key[tr[g]] \in Int /\ key[t] \in Int
          BY <2>2, <4>1
        <4>4. j = g \/ key[tr[j]] < key[tr[g]]
          BY <2>1, <4>1
        <4> QED BY <3>1, <4>2, <4>3, <4>4
      <3>2. CASE ~(j < d)
        <4>1. d \in 1 .. m /\ (j = d \/ d < j)
          BY <1>1, <1>8, <3>2
        <4>2. key[t] < key[tr[d]]
          BY <1>9, <4>1
        <4>3. key[tr[j]] \in Int /\ key[tr[d]] \in Int /\ key[t] \in Int
          BY <2>2, <4>1
        <4>4. j = d \/ key[tr[d]] < key[tr[j]]
          BY <2>1, <4>1
        <4> QED BY <3>2, <4>2, <4>3, <4>4
      <3> QED BY <3>1, <3>2
    <2> QED BY <1>1, <1>4, <1>5, <1>8, <1>10, <1>12, <1>14, <2>3, NewNodeRuns
  <1>15. \E q \in 1 .. k + 1 : l2 = InsertAt(l, q, t)
    BY <1>2 DEF p, k
  <1> QED BY <1>3, <1>4, <1>11, <1>13, <1>14, <1>15 DEF k, m, Yields

LEMMA AddToRun ==
  ASSUME NEW l \in Seq(Tracks), NEW tr \in Seq(Tracks), NEW P, Shape(l, Len(l), tr, Len(tr), P),
         Once(l), NEW t \in Tracks, t \notin ToSet(l), NEW nd \in SUBSET Tracks,
         NEW key \in [Tracks -> Int], NEW c \in 1 .. Len(tr), key[tr[c]] = key[t],
         NEW l2, NEW tr2, NEW nd2,
         \/ l2 = InsertAt(l, P[c], t) /\ tr2 = [tr EXCEPT ![c] = t] /\ nd2 = (nd \cup {t}) \ {tr[c]}
         \/ l2 = InsertAt(l, P[c + 1], t) /\ tr2 = tr /\ nd2 = nd
  PROVE  Yields(l, tr, nd, P, key, t, l2, tr2, nd2)
  <1> DEFINE k == Len(l)
             m == Len(tr)
             P2 == [x \in 1 .. m + 1 |-> IF x <= c THEN P[x] ELSE P[x] + 1]
  <1>1. k \in Nat /\ m \in Nat /\ DOMAIN tr = 1 .. m /\ DOMAIN l = 1 .. k /\ c \in 1 .. m
    OBVIOUS
  <1>2. Shape(l, k, tr, m, P)
    OBVIOUS
  <1>3. \A x \in 1 .. m + 1 : P2[x] = IF x <= c THEN P[x] ELSE P[x] + 1
    OBVIOUS
  <1>4. /\ \A x \in 1 .. m + 1 : P[x] \in 1 .. k + 1
        /\ P[m + 1] = k + 1
        /\ \A x, y \in 1 .. m + 1 : x < y => P[x] < P[y]
        /\ \A x \in 1 .. m : tr[x] = l[P[x]]
    BY <1>2 DEF Shape
  <1>5. /\ tr2 \in Seq(Tracks) /\ Len(tr2) = m /\ DOMAIN tr2 = 1 .. m
        /\ nd2 \in SUBSET Tracks
    <2>1. CASE tr2 = tr /\ nd2 = nd
      BY <2>1
    <2>2. CASE tr2 = [tr EXCEPT ![c] = t] /\ nd2 = (nd \cup {t}) \ {tr[c]}
      BY <2>2
    <2> QED BY <2>1, <2>2
  <1>6. PICK p \in {P[c], P[c + 1]} :
          /\ l2 = InsertAt(l, p, t)
          /\ p = P[c] => tr2 = [tr EXCEPT ![c] = t]
          /\ p # P[c] => tr2 = tr
    <2>1. c \in 1 .. m + 1 /\ c + 1 \in 1 .. m + 1 /\ c < c + 1
      BY <1>1
    <2>2. P[c] < P[c + 1] /\ P[c] \in Int /\ P[c + 1] \in Int
      BY <1>4, <2>1
    <2>3. P[c] # P[c + 1]
      BY <2>2
    <2> QED BY <2>3
  <1>7. \A x \in 1 .. m : tr2[x] = IF x = c /\ p = P[c] THEN t ELSE tr[x]
    BY <1>1, <1>6
  <1>8. p \in 1 .. k + 1
    <2>1. c \in 1 .. m + 1 /\ c + 1 \in 1 .. m + 1
      BY <1>1
    <2> QED BY <1>4, <1>6, <2>1
  <1>9. l2 \in Seq(Tracks) /\ Len(l2) = k + 1 /\ Put1(l2, l, k, p, t)
    BY <1>6, <1>8, Inserted
  <1>10. key[t] = key[tr[c]]
    OBVIOUS
  <1>11. Once(l) /\ t \notin ToSet(l)
    OBVIOUS
  <1>12. nd2 = nd \/ (nd2 = (nd \cup {t}) \ {tr[c]} /\ tr2 = [tr EXCEPT ![c] = t])
    OBVIOUS
  <1>13. nd2 = nd => tr2 = tr \/ tr2 = [tr EXCEPT ![c] = t]
    OBVIOUS
  <1>14. (tr2 = tr /\ nd2 = nd) \/ (nd2 = (nd \cup {t}) \ {tr[c]} /\ tr2 = [tr EXCEPT ![c] = t])
    OBVIOUS
  <1> HIDE DEF k, m, P2
  <1>15. /\ Shape(l2, k + 1, tr2, m, P2)
         /\ \A kk : Runs(l, k, tr, m, P, kk) /\ kk[t] = kk[tr[c]] => Runs(l2, k + 1, tr2, m, P2, kk)
    <2>1. p \in {P[c], P[c + 1]} /\ Put1(l2, l, k, p, t) /\ k \in Nat /\ m \in Nat /\ c \in 1 .. m
      BY <1>1, <1>9
    <2>2. Joined(tr2, tr, m, c, P, p, t) /\ Shifted(P2, P, m, c)
      BY <1>3, <1>7 DEF Joined, Shifted
    <2> QED BY <1>2, <2>1, <2>2, JoinsRun
  <1>16. Runs(l, k, tr, m, P, key) => Runs(l2, k + 1, tr2, m, P2, key)
    BY <1>10, <1>15
  <1>17. ASSUME ToSet(tr) \subseteq nd PROVE ToSet(tr2) \subseteq nd2
    <2>1. CASE tr2 = tr /\ nd2 = nd
      BY <1>17, <2>1
    <2>2. CASE nd2 = (nd \cup {t}) \ {tr[c]} /\ tr2 = [tr EXCEPT ![c] = t]
      <3>1. \A x \in 1 .. m : tr[x] \in nd
        BY <1>1, <1>17 DEF ToSet
      <3>2. \A y \in 1 .. m : P[y] \in 1 .. k
        <4> SUFFICES ASSUME NEW y \in 1 .. m PROVE P[y] \in 1 .. k
          OBVIOUS
        <4>1. y \in 1 .. m + 1 /\ m + 1 \in 1 .. m + 1 /\ y < m + 1
          BY <1>1
        <4>2. P[y] \in 1 .. k + 1 /\ P[y] < k + 1
          BY <1>4, <4>1
        <4> QED BY <1>1, <4>2
      <3>3. \A i \in 1 .. k : l[i] # t
        BY <1>1, <1>11 DEF ToSet
      <3>4. t # tr[c]
        BY <1>1, <1>4, <3>2, <3>3
      <3>5. \A x \in 1 .. m : x # c => tr[x] # tr[c]
        <4> SUFFICES ASSUME NEW x \in 1 .. m, x # c PROVE tr[x] # tr[c]
          OBVIOUS
        <4>1. x \in 1 .. m + 1 /\ c \in 1 .. m + 1 /\ (x < c \/ c < x)
          BY <1>1
        <4>2. P[x] < P[c] \/ P[c] < P[x]
          BY <1>4, <4>1
        <4>3. P[x] # P[c] /\ P[x] \in 1 .. Len(l) /\ P[c] \in 1 .. Len(l)
          BY <1>1, <1>4, <3>2, <4>1, <4>2 DEF k
        <4>4. l[P[x]] # l[P[c]]
          BY <1>11, <4>3 DEF Once
        <4> QED BY <1>1, <1>4, <4>4
      <3>6. \A x \in 1 .. m : tr2[x] = IF x = c THEN t ELSE tr[x]
        BY <1>1, <2>2
      <3> SUFFICES ASSUME NEW x \in 1 .. m PROVE tr2[x] \in (nd \cup {t}) \ {tr[c]}
        BY <1>5, <2>2 DEF ToSet
      <3> QED BY <3>1, <3>4, <3>5, <3>6
    <2> QED BY <1>14, <2>1, <2>2
  <1>18. \E q \in 1 .. k + 1 : l2 = InsertAt(l, q, t)
    BY <1>6, <1>8
  <1> QED BY <1>5, <1>9, <1>15, <1>16, <1>17, <1>18 DEF k, m, Yields

(* sorted_list_add_track *)
LEMMA AddTrack ==
  ASSUME NEW s \in Lists, Once(s.list), NEW P, Shaped(s, P),
         NEW t \in Tracks, t \notin ToSet(s.list),
         NEW inf \in [Tracks -> Int], NEW k, NEW tiebreak,
         NEW r \in sorted_list_add_track(s, t, inf, k, tiebreak)
  PROVE  /\ r \in Lists
         /\ \E p \in 1 .. Len(s.list) + 1 : r.list = InsertAt(s.list, p, t)
         /\ ToSet(s.tree) \subseteq s.nodes => ToSet(r.tree) \subseteq r.nodes
         /\ r.ub = s.ub /\ r.marked = s.marked /\ r.nr_tracks = s.nr_tracks
         /\ r.nr_marked = s.nr_marked /\ r.win = s.win
         /\ \E P2 : Shaped(r, P2) /\ (Running(s, P, KeyOf(k, inf)) => Running(r, P2, KeyOf(k, inf)))
  <1> DEFINE l == s.list
             tr == s.tree
             nd == s.nodes
             n_ == Len(tr)
             c(j) == Cmp(k, inf, t, tr[j])
             key == KeyOf(k, inf)
             gap(g) == [s EXCEPT !.list = InsertAt(@, Place(s, g + 1), t),
                                 !.tree = InsertAt(@, g + 1, t), !.nodes = @ \cup {t}]
             front(j) == [s EXCEPT !.list = InsertAt(@, Place(s, j), t), !.tree[j] = t,
                                   !.nodes = (@ \cup {t}) \ {s.tree[j]}]
             back(j) == [s EXCEPT !.list = InsertAt(@, Place(s, j + 1), t)]
  <1>1. /\ l \in Seq(Tracks) /\ tr \in Seq(Tracks)
        /\ Len(l) \in Nat /\ n_ \in Nat /\ nd \in SUBSET Tracks /\ s.ub \in BOOLEAN
    BY Parts
  <1>2. Once(l) /\ Shape(l, Len(l), tr, Len(tr), P) /\ t \notin ToSet(l)
    BY DEF Shaped
  <1>3. \/ \E g \in 0 .. n_ : (g > 0 => c(g) > 0) /\ (g < n_ => c(g + 1) < 0) /\ r = gap(g)
        \/ \E j \in 1 .. n_ : c(j) = 0 /\ (r = front(j) \/ r = back(j))
    BY DEF sorted_list_add_track
  <1>4. \A j \in 1 .. n_ + 1 : Place(s, j) = P[j]
    BY PlaceFound
  <1>5. key \in [Tracks -> Int]
    BY Compared
  <1>6. \A j \in 1 .. n_ : c(j) = key[t] - key[tr[j]] /\ key[tr[j]] \in Int /\ key[t] \in Int
    <2> SUFFICES ASSUME NEW j \in 1 .. n_
                 PROVE  c(j) = key[t] - key[tr[j]] /\ key[tr[j]] \in Int /\ key[t] \in Int
      OBVIOUS
    <2> DEFINE a == tr[j]
    <2>1. a \in Tracks
      BY <1>1
    <2> HIDE DEF a
    <2>2. Cmp(k, inf, t, a) = key[t] - key[a]
      BY <2>1, Compared
    <2>3. key[a] \in Int /\ key[t] \in Int
      BY <1>5, <2>1
    <2> QED BY <2>2, <2>3 DEF a
  <1> HIDE DEF key
  <1>7. \E l2, tr2, nd2 : Yields(l, tr, nd, P, key, t, l2, tr2, nd2) /\ r = Relisted(s, l2, tr2, nd2, s.ub)
    <2>1. ASSUME NEW g \in 0 .. n_, g > 0 => c(g) > 0, g < n_ => c(g + 1) < 0, r = gap(g)
          PROVE  \E l2, tr2, nd2 : Yields(l, tr, nd, P, key, t, l2, tr2, nd2) /\ r = Relisted(s, l2, tr2, nd2, s.ub)
      <3> DEFINE d == g + 1
                 l2 == InsertAt(l, P[d], t)
                 tr2 == InsertAt(tr, d, t)
      <3>1. d \in 1 .. n_ + 1
        BY <1>1
      <3>2. r = [s EXCEPT !.list = l2, !.tree = tr2, !.nodes = nd \cup {t}]
        <4>1. Place(s, d) = P[d]
          BY <1>4, <3>1
        <4> QED BY <2>1, <4>1
      <3>3. r = Relisted(s, l2, tr2, nd \cup {t}, s.ub)
        <4> HIDE DEF l2, tr2, nd
        <4> QED BY <3>2 DEF Relisted, Lists
      <3>4. \A j \in 1 .. n_ : j = d - 1 => key[tr[j]] < key[t]
        <4> SUFFICES ASSUME NEW j \in 1 .. n_, j = d - 1 PROVE key[tr[j]] < key[t]
          OBVIOUS
        <4>1. j = g /\ g > 0
          BY <1>1
        <4>2. c(j) > 0
          BY <2>1, <4>1
        <4>3. c(j) = key[t] - key[tr[j]] /\ key[tr[j]] \in Int /\ key[t] \in Int
          BY <1>6
        <4> HIDE DEF c
        <4> QED BY <4>2, <4>3
      <3>5. \A j \in 1 .. n_ : j = d => key[t] < key[tr[j]]
        <4> SUFFICES ASSUME NEW j \in 1 .. n_, j = d PROVE key[t] < key[tr[j]]
          OBVIOUS
        <4>1. j = g + 1 /\ g < n_
          BY <1>1
        <4>2. c(j) < 0
          BY <2>1, <4>1
        <4>3. c(j) = key[t] - key[tr[j]] /\ key[tr[j]] \in Int /\ key[t] \in Int
          BY <1>6
        <4> HIDE DEF c
        <4> QED BY <4>2, <4>3
      <3> HIDE DEF l, tr, nd, d
      <3>6. Yields(l, tr, nd, P, key, t, l2, tr2, nd \cup {t})
        BY <1>1, <1>2, <1>5, <3>1, <3>4, <3>5, AddNode
      <3> QED BY <3>3, <3>6
    <2>2. ASSUME NEW j \in 1 .. n_, c(j) = 0, r = front(j) \/ r = back(j)
          PROVE  \E l2, tr2, nd2 : Yields(l, tr, nd, P, key, t, l2, tr2, nd2) /\ r = Relisted(s, l2, tr2, nd2, s.ub)
      <3>1. key[tr[j]] = key[t]
        <4>1. c(j) = key[t] - key[tr[j]] /\ key[tr[j]] \in Int /\ key[t] \in Int
          BY <1>6
        <4> HIDE DEF c
        <4> QED BY <2>2, <4>1
      <3>2. j \in 1 .. n_ + 1 /\ j + 1 \in 1 .. n_ + 1
        BY <1>1
      <3>3. Place(s, j) = P[j] /\ Place(s, j + 1) = P[j + 1]
        BY <1>4, <3>2
      <3>4. CASE r = front(j)
        <4> DEFINE l2 == InsertAt(l, P[j], t)
                   tr2 == [tr EXCEPT ![j] = t]
                   nd2 == (nd \cup {t}) \ {tr[j]}
        <4>1. r = [s EXCEPT !.list = l2, !.tree = tr2, !.nodes = nd2]
          BY <3>3, <3>4
        <4>2. r = Relisted(s, l2, tr2, nd2, s.ub)
          <5> HIDE DEF l2, tr2, nd2
          <5> QED BY <4>1 DEF Relisted, Lists
        <4> HIDE DEF l, tr, nd
        <4>3. Yields(l, tr, nd, P, key, t, l2, tr2, nd2)
          BY <1>1, <1>2, <1>5, <3>1, AddToRun
        <4> QED BY <4>2, <4>3
      <3>5. CASE r = back(j)
        <4> DEFINE l2 == InsertAt(l, P[j + 1], t)
        <4>1. r = [s EXCEPT !.list = l2]
          BY <3>3, <3>5
        <4>2. r = Relisted(s, l2, tr, nd, s.ub)
          <5> HIDE DEF l2
          <5> QED BY <4>1 DEF Relisted, Lists
        <4> HIDE DEF l, tr, nd
        <4>3. Yields(l, tr, nd, P, key, t, l2, tr, nd)
          BY <1>1, <1>2, <1>5, <3>1, AddToRun
        <4> QED BY <4>2, <4>3
      <3> QED BY <2>2, <3>4, <3>5
    <2> HIDE DEF gap, front, back, c
    <2> QED BY <1>3, <2>1, <2>2
  <1>8. PICK l2, tr2, nd2 : Yields(l, tr, nd, P, key, t, l2, tr2, nd2) /\ r = Relisted(s, l2, tr2, nd2, s.ub)
    BY <1>7
  <1>9. /\ l2 \in Seq(Tracks) /\ tr2 \in Seq(Tracks) /\ nd2 \in SUBSET Tracks
        /\ \E p \in 1 .. Len(l) + 1 : l2 = InsertAt(l, p, t)
        /\ ToSet(tr) \subseteq nd => ToSet(tr2) \subseteq nd2
        /\ \E P2 : /\ Shape(l2, Len(l2), tr2, Len(tr2), P2)
                   /\ Runs(l, Len(l), tr, Len(tr), P, key) => Runs(l2, Len(l2), tr2, Len(tr2), P2, key)
    BY <1>8 DEF Yields
  <1>10. /\ r \in Lists /\ r.list = l2 /\ r.tree = tr2 /\ r.nodes = nd2
         /\ r.ub = s.ub /\ r.marked = s.marked /\ r.nr_tracks = s.nr_tracks
         /\ r.nr_marked = s.nr_marked /\ r.win = s.win
    BY <1>1, <1>8, <1>9, Relists
  <1>11. \E P2 : Shaped(r, P2) /\ (Running(s, P, key) => Running(r, P2, key))
    BY <1>9, <1>10 DEF Shaped, Running
  <1> QED BY <1>9, <1>10, <1>11 DEF key

(* There is a place for every track if the keys of the nodes increase.     *)
LEMMA AddExists ==
  ASSUME NEW s \in Lists, NEW t \in Tracks, NEW inf \in [Tracks -> Int], NEW k, NEW tiebreak,
         \A i, j \in 1 .. Len(s.tree) :
           i < j => KeyOf(k, inf)[s.tree[i]] < KeyOf(k, inf)[s.tree[j]]
  PROVE  sorted_list_add_track(s, t, inf, k, tiebreak) # {}
  <1> DEFINE m == Len(s.tree)
             c(j) == Cmp(k, inf, t, s.tree[j])
             key == KeyOf(k, inf)
             gaps == {g \in 0 .. m : (g > 0 => c(g) > 0) /\ (g < m => c(g + 1) < 0)}
             equal == {j \in 1 .. m : c(j) = 0}
  <1>1. m \in Nat /\ s.tree \in Seq(Tracks)
    BY Parts
  <1>2. \A j \in 1 .. m : c(j) = key[t] - key[s.tree[j]] /\ key[s.tree[j]] \in Int /\ key[t] \in Int
    <2> SUFFICES ASSUME NEW j \in 1 .. m
                 PROVE  c(j) = key[t] - key[s.tree[j]] /\ key[s.tree[j]] \in Int /\ key[t] \in Int
      OBVIOUS
    <2> DEFINE a == s.tree[j]
    <2>1. a \in Tracks
      BY <1>1
    <2> HIDE DEF a
    <2>2. Cmp(k, inf, t, a) = key[t] - key[a] /\ key \in [Tracks -> Int]
      BY <2>1, Compared
    <2>3. key[a] \in Int /\ key[t] \in Int
      BY <2>1, <2>2
    <2> QED BY <2>2, <2>3 DEF a
  <1>3. gaps # {} \/ equal # {} => sorted_list_add_track(s, t, inf, k, tiebreak) # {}
    <2>1. ASSUME NEW g \in gaps PROVE sorted_list_add_track(s, t, inf, k, tiebreak) # {}
      <3>1. [s EXCEPT !.list = InsertAt(@, Place(s, g + 1), t), !.tree = InsertAt(@, g + 1, t),
                      !.nodes = @ \cup {t}] \in sorted_list_add_track(s, t, inf, k, tiebreak)
        BY <2>1, Zenon DEF sorted_list_add_track
      <3> QED BY <3>1
    <2>2. ASSUME NEW j \in equal PROVE sorted_list_add_track(s, t, inf, k, tiebreak) # {}
      <3> DEFINE r == IF tiebreak < 0
                      THEN [s EXCEPT !.list = InsertAt(@, Place(s, j), t), !.tree[j] = t,
                                     !.nodes = (@ \cup {t}) \ {s.tree[j]}]
                      ELSE [s EXCEPT !.list = InsertAt(@, Place(s, j + 1), t)]
      <3>1. r \in sorted_list_add_track(s, t, inf, k, tiebreak)
        BY <2>2, Zenon DEF sorted_list_add_track
      <3> QED BY <3>1
    <2> QED BY <2>1, <2>2
  <1>4. SUFFICES ASSUME equal = {} PROVE gaps # {}
    BY <1>3
  <1> DEFINE A == {j \in 1 .. m : c(j) < 0} \cup {m + 1}
  <1>5. A \in SUBSET Nat /\ m + 1 \in A
    BY <1>1
  <1>6. PICK y \in A : \A z \in A : y <= z
    BY <1>5, Smallest
  <1> DEFINE g == y - 1
  <1>7. y \in 1 .. m + 1 /\ g \in 0 .. m /\ g < y /\ g + 1 = y
    BY <1>1
  <1>8. g < m => c(g + 1) < 0
    BY <1>1, <1>6, <1>7
  <1>9. ASSUME g > 0 PROVE c(g) > 0
    <2>1. g \in 1 .. m
      BY <1>1, <1>7, <1>9
    <2>2. g \notin A
      BY <1>6, <1>7, <2>1
    <2>3. ~(c(g) < 0) /\ c(g) # 0
      BY <1>4, <2>1, <2>2
    <2> HIDE DEF g
    <2>4. c(g) \in Int
      BY <1>2, <2>1
    <2> HIDE DEF c
    <2> QED BY <2>3, <2>4
  <1> HIDE DEF c
  <1> QED BY <1>7, <1>8, <1>9

(* The tree of a list: it has a node for every run, and, if ord holds, the *)
(* runs are those of equal keys.                                           *)
Indexed(s, ord, key) ==
  /\ ToSet(s.tree) \subseteq s.nodes
  /\ \E P : Shaped(s, P) /\ (ord => Running(s, P, key))

(* The tracks of the tree are tracks of the list. *)
LEMMA TreeInList ==
  ASSUME NEW s \in Lists, NEW ord, NEW key, Indexed(s, ord, key)
  PROVE  ToSet(s.tree) \subseteq ToSet(s.list)
  <1> DEFINE k == Len(s.list)
             m == Len(s.tree)
  <1>1. PICK P : Shape(s.list, k, s.tree, m, P)
    BY DEF Indexed, Shaped
  <1>2. k \in Nat /\ m \in Nat /\ DOMAIN s.list = 1 .. k /\ DOMAIN s.tree = 1 .. m
    BY Parts
  <1>3. /\ \A j \in 1 .. m + 1 : P[j] \in 1 .. k + 1
        /\ P[m + 1] = k + 1
        /\ \A i, j \in 1 .. m + 1 : i < j => P[i] < P[j]
        /\ \A j \in 1 .. m : s.tree[j] = s.list[P[j]]
    BY <1>1 DEF Shape
  <1> HIDE DEF k, m
  <1> SUFFICES ASSUME NEW j \in 1 .. m PROVE s.tree[j] \in ToSet(s.list)
    BY <1>2 DEF ToSet
  <1>4. j \in 1 .. m + 1 /\ m + 1 \in 1 .. m + 1 /\ j < m + 1
    BY <1>2
  <1>5. P[j] \in 1 .. k + 1 /\ P[j] < k + 1
    BY <1>3, <1>4
  <1>6. P[j] \in 1 .. k
    BY <1>2, <1>5
  <1> QED BY <1>2, <1>3, <1>6 DEF ToSet

(* sorted_list_remove_track, whatever the tree is. *)
LEMMA RemoveTrack ==
  ASSUME NEW s \in Lists, NEW t \in ToSet(s.list)
  PROVE  LET r == sorted_list_remove_track(s, t)
         IN  /\ r \in Lists
             /\ r.list = RemoveAt(s.list, Pos(s.list, t))
             /\ r.ub = s.ub \/ r.ub = TRUE
             /\ r.marked = s.marked /\ r.nr_tracks = s.nr_tracks
             /\ r.nr_marked = s.nr_marked /\ r.win = s.win
  <1> DEFINE i == Pos(s.list, t)
             j == Pos(s.tree, t)
             l == RemoveAt(s.list, i)
             x == s.list[i + 1]
             r == sorted_list_remove_track(s, t)
  <1>1. /\ s.list \in Seq(Tracks) /\ s.tree \in Seq(Tracks) /\ s.nodes \subseteq Tracks
        /\ Len(s.list) \in Nat /\ Len(s.tree) \in Nat /\ s.ub \in BOOLEAN
    BY Parts
  <1>2. i \in 1 .. Len(s.list)
    <2>1. PICK y \in 1 .. Len(s.list) : s.list[y] = t
      BY <1>1 DEF ToSet
    <2> QED BY <2>1 DEF Pos
  <1>3. l \in Seq(Tracks)
    BY <1>1, <1>2, TakenAt
  <1>4. Contains(s.tree, t) => j \in 1 .. Len(s.tree)
    BY PlaceIn
  <1>5. i < Len(s.list) => x \in Tracks
    BY <1>1, <1>2
  <1>6. \/ r = [s EXCEPT !.list = l]
        \/ r = [s EXCEPT !.list = l, !.ub = TRUE]
        \/ /\ i < Len(s.list) /\ Contains(s.tree, t)
           /\ r = [s EXCEPT !.list = l, !.tree[j] = x, !.nodes = (@ \cup {x}) \ {t}]
        \/ Contains(s.tree, t) /\ r = [s EXCEPT !.list = l, !.tree = RemoveAt(@, j)]
    BY DEF sorted_list_remove_track
  <1> HIDE DEF i, j, l, x, r
  <1>7. \E tr \in Seq(Tracks), nd \in SUBSET Tracks, u \in {s.ub, TRUE} : r = Relisted(s, l, tr, nd, u)
    <2>1. CASE r = [s EXCEPT !.list = l]
      <3>1. r = Relisted(s, l, s.tree, s.nodes, s.ub)
        BY <2>1 DEF Relisted, Lists
      <3> QED BY <1>1, <3>1
    <2>2. CASE r = [s EXCEPT !.list = l, !.ub = TRUE]
      <3>1. r = Relisted(s, l, s.tree, s.nodes, TRUE)
        BY <2>2 DEF Relisted, Lists
      <3> QED BY <1>1, <3>1
    <2>3. CASE /\ i < Len(s.list) /\ Contains(s.tree, t)
               /\ r = [s EXCEPT !.list = l, !.tree[j] = x, !.nodes = (@ \cup {x}) \ {t}]
      <3> DEFINE tr == [s.tree EXCEPT ![j] = x]
                 nd == (s.nodes \cup {x}) \ {t}
      <3>1. tr \in Seq(Tracks) /\ nd \in SUBSET Tracks
        BY <1>1, <1>4, <1>5, <2>3
      <3>2. r = [s EXCEPT !.list = l, !.tree = tr, !.nodes = nd]
        BY <2>3
      <3> HIDE DEF tr, nd
      <3>3. r = Relisted(s, l, tr, nd, s.ub)
        BY <3>2 DEF Relisted, Lists
      <3> QED BY <3>1, <3>3
    <2>4. CASE Contains(s.tree, t) /\ r = [s EXCEPT !.list = l, !.tree = RemoveAt(@, j)]
      <3> DEFINE tr == RemoveAt(s.tree, j)
      <3>1. tr \in Seq(Tracks)
        BY <1>1, <1>4, <2>4, TakenAt
      <3>2. r = [s EXCEPT !.list = l, !.tree = tr]
        BY <2>4
      <3> HIDE DEF tr
      <3>3. r = Relisted(s, l, tr, s.nodes, s.ub)
        BY <3>2 DEF Relisted, Lists
      <3> QED BY <1>1, <3>1, <3>3
    <2> QED BY <1>6, <2>1, <2>2, <2>3, <2>4
  <1>8. PICK tr \in Seq(Tracks), nd \in SUBSET Tracks, u \in {s.ub, TRUE} : r = Relisted(s, l, tr, nd, u)
    BY <1>7
  <1>9. u \in BOOLEAN
    BY <1>1
  <1>10. /\ r \in Lists /\ r.list = l /\ r.ub = u
         /\ r.marked = s.marked /\ r.nr_tracks = s.nr_tracks
         /\ r.nr_marked = s.nr_marked /\ r.win = s.win
    BY <1>3, <1>8, <1>9, Relists
  <1> QED BY <1>10 DEF r, l, i

(* The same, with the tree: the node goes on to the next of the run, or is *)
(* erased with the run.                                                    *)
LEMMA RemoveNode ==
  ASSUME NEW s \in Lists, Once(s.list), NEW ord, NEW key, Indexed(s, ord, key),
         NEW t \in ToSet(s.list), ~s.ub, ~sorted_list_remove_track(s, t).ub
  PROVE  Indexed(sorted_list_remove_track(s, t), ord, key)
  <1> DEFINE k == Len(s.list)
             m == Len(s.tree)
             i == Pos(s.list, t)
             j == Pos(s.tree, t)
             l == RemoveAt(s.list, i)
             x == s.list[i + 1]
             r == sorted_list_remove_track(s, t)
  <1>1. /\ s.list \in Seq(Tracks) /\ s.tree \in Seq(Tracks) /\ s.nodes \subseteq Tracks
        /\ k \in Nat /\ m \in Nat /\ DOMAIN s.list = 1 .. k /\ DOMAIN s.tree = 1 .. m
    BY Parts
  <1>2. i \in 1 .. k /\ s.list[i] = t
    <2>1. PICK y \in 1 .. k : s.list[y] = t
      BY <1>1 DEF ToSet
    <2> QED BY <2>1 DEF Pos
  <1>3. l \in Seq(Tracks) /\ Len(l) = k - 1 /\ Take1(l, s.list, k, i)
    BY <1>1, <1>2, TakenAt
  <1>4. ToSet(s.tree) \subseteq s.nodes
    BY DEF Indexed
  <1>5. PICK P : Shape(s.list, k, s.tree, m, P) /\ (ord => Runs(s.list, k, s.tree, m, P, key))
    BY DEF Indexed, Shaped, Running
  <1>6. /\ \A y \in 1 .. m + 1 : P[y] \in 1 .. k + 1
        /\ P[m + 1] = k + 1
        /\ \A y, z \in 1 .. m + 1 : y < z => P[y] < P[z]
        /\ \A y \in 1 .. m : s.tree[y] = s.list[P[y]]
    BY <1>5 DEF Shape
  <1>7. \A y, z \in 1 .. k : s.list[y] = s.list[z] => y = z
    BY DEF Once
  <1>8. Contains(s.tree, t) => j \in 1 .. m /\ s.tree[j] = t
    BY PlaceIn
  <1>9. ~Contains(s.tree, t) => \A y \in 1 .. m : s.tree[y] # t
    BY DEF Contains
  <1>10. \/ t \notin s.nodes /\ r = [s EXCEPT !.list = l]
         \/ t \in s.nodes /\ ~Contains(s.tree, t) /\ r = [s EXCEPT !.list = l, !.ub = TRUE]
         \/ /\ Contains(s.tree, t) /\ i < k /\ (j = m \/ s.tree[j + 1] # x)
            /\ r = [s EXCEPT !.list = l, !.tree[j] = x, !.nodes = (@ \cup {x}) \ {t}]
         \/ /\ Contains(s.tree, t) /\ ~(i < k /\ (j = m \/ s.tree[j + 1] # x))
            /\ r = [s EXCEPT !.list = l, !.tree = RemoveAt(@, j)]
    BY DEF sorted_list_remove_track
  <1>11. ~r.ub
    OBVIOUS
  <1> SUFFICES Indexed(r, ord, key)
    OBVIOUS
  <1> HIDE DEF k, m, i, j, l, x, r
  <1>12. \A y \in 1 .. m : P[y] \in 1 .. k
    <2> SUFFICES ASSUME NEW y \in 1 .. m PROVE P[y] \in 1 .. k
      OBVIOUS
    <2>1. y \in 1 .. m + 1 /\ m + 1 \in 1 .. m + 1 /\ y < m + 1
      BY <1>1
    <2>2. P[y] \in 1 .. k + 1 /\ P[y] < k + 1
      BY <1>6, <2>1
    <2> QED BY <1>1, <2>2
  <1>13. \A y \in 1 .. m : P[y] = i <=> s.tree[y] = t
    <2> SUFFICES ASSUME NEW y \in 1 .. m PROVE P[y] = i <=> s.tree[y] = t
      OBVIOUS
    <2>1. s.tree[y] = s.list[P[y]] /\ P[y] \in 1 .. k
      BY <1>6, <1>12
    <2> QED BY <1>2, <1>7, <2>1
  <1>14. \A y, z \in 1 .. m : s.tree[y] = s.tree[z] => y = z
    <2> SUFFICES ASSUME NEW y \in 1 .. m, NEW z \in 1 .. m, s.tree[y] = s.tree[z] PROVE y = z
      OBVIOUS
    <2>1. P[y] = P[z] /\ P[y] \in 1 .. k
      BY <1>6, <1>7, <1>12
    <2>2. ~(P[y] < P[z]) /\ ~(P[z] < P[y])
      BY <2>1
    <2>3. y \in 1 .. m + 1 /\ z \in 1 .. m + 1
      BY <1>1
    <2>4. ~(y < z) /\ ~(z < y)
      BY <1>6, <2>2, <2>3
    <2> QED BY <2>3, <2>4
  <1>15. ASSUME NEW tr, NEW nd, r.list = l, r.tree = tr, r.nodes = nd, NEW q, NEW P2,
                ToSet(tr) \subseteq nd, Len(tr) = q, Shape(l, k - 1, tr, q, P2),
                Runs(s.list, k, s.tree, m, P, key) => Runs(l, k - 1, tr, q, P2, key)
         PROVE  Indexed(r, ord, key)
    BY <1>3, <1>5, <1>15 DEF Indexed, Shaped, Running
  <1> DEFINE P2 == [y \in 1 .. m + 1 |-> IF P[y] <= i THEN P[y] ELSE P[y] - 1]
  <1>16. \A y \in 1 .. m + 1 : P2[y] = IF P[y] <= i THEN P[y] ELSE P[y] - 1
    OBVIOUS
  <1> HIDE DEF P2
  <1>17. CASE t \notin s.nodes /\ r = [s EXCEPT !.list = l]
    <2>1. r.list = l /\ r.tree = s.tree /\ r.nodes = s.nodes
      BY <1>17 DEF Lists
    <2>2. \A y \in 1 .. m : s.tree[y] # t
      BY <1>1, <1>4, <1>17 DEF ToSet
    <2>3. \A y \in 1 .. m : P[y] # i
      BY <1>13, <2>2
    <2>4. /\ \A y \in 1 .. m : P[y] = i => P[y + 1] # i + 1
          /\ \A y \in 1 .. m : s.tree[y] = IF P[y] = i THEN s.list[i + 1] ELSE s.tree[y]
      BY <2>3
    <2>5. /\ Shape(l, k - 1, s.tree, m, P2)
          /\ \A kk : Runs(s.list, k, s.tree, m, P, kk) => Runs(l, k - 1, s.tree, m, P2, kk)
      <3> DEFINE tr == s.tree
                 ls == s.list
      <3>1. Handed(tr, tr, m, P, i, ls) /\ Drawn(P2, P, m, i)
        BY <1>16, <2>4 DEF Handed, Drawn
      <3>2. Shape(ls, k, tr, m, P) /\ k \in Nat /\ m \in Nat /\ i \in 1 .. k /\ Take1(l, ls, k, i)
        BY <1>1, <1>2, <1>3, <1>5
      <3> HIDE DEF tr, ls
      <3>3. /\ Shape(l, k - 1, tr, m, P2)
            /\ \A kk : Runs(ls, k, tr, m, P, kk) => Runs(l, k - 1, tr, m, P2, kk)
        BY <3>1, <3>2, LeavesRun
      <3> QED BY <3>3 DEF tr, ls
    <2> QED BY <1>4, <1>15, <2>1, <2>5 DEF m
  <1>18. CASE t \in s.nodes /\ ~Contains(s.tree, t) /\ r = [s EXCEPT !.list = l, !.ub = TRUE]
    BY <1>11, <1>18 DEF Lists
  <1>19. CASE /\ Contains(s.tree, t) /\ i < k /\ (j = m \/ s.tree[j + 1] # x)
              /\ r = [s EXCEPT !.list = l, !.tree[j] = x, !.nodes = (@ \cup {x}) \ {t}]
    <2> DEFINE tr == [s.tree EXCEPT ![j] = x]
               nd == (s.nodes \cup {x}) \ {t}
    <2>1. r.list = l /\ r.tree = tr /\ r.nodes = nd
      BY <1>19 DEF Lists
    <2>2. j \in 1 .. m /\ s.tree[j] = t /\ P[j] = i
      BY <1>8, <1>13, <1>19
    <2>3. x = s.list[i + 1] /\ i + 1 \in 1 .. k
      BY <1>1, <1>2, <1>19 DEF x
    <2>4. x \in Tracks /\ x # t
      <3>1. s.list[i + 1] # s.list[i]
        BY <1>2, <1>7, <2>3
      <3> QED BY <1>1, <1>2, <2>3, <3>1
    <2>5. tr \in Seq(Tracks) /\ Len(tr) = m /\ DOMAIN tr = 1 .. m
      <3>1. tr \in Seq(Tracks) /\ Len(tr) = Len(s.tree) /\ DOMAIN tr = DOMAIN s.tree
        BY <1>1, <2>2, <2>4
      <3> HIDE DEF tr
      <3> QED BY <1>1, <3>1 DEF m
    <2>6. \A y \in 1 .. m : tr[y] = IF y = j THEN x ELSE s.tree[y]
      BY <1>1
    <2>7. P[j + 1] # i + 1
      <3>1. CASE j = m
        <4>1. P[j + 1] = k + 1
          BY <1>6, <3>1
        <4> QED BY <1>1, <1>2, <1>19, <4>1
      <3>2. CASE j # m /\ s.tree[j + 1] # x
        <4>1. j + 1 \in 1 .. m
          BY <1>1, <2>2, <3>2
        <4>2. s.tree[j + 1] = s.list[P[j + 1]]
          BY <1>6, <4>1
        <4> QED BY <2>3, <3>2, <4>2
      <3> QED BY <1>19, <3>1, <3>2
    <2> HIDE DEF tr, nd
    <2>8. \A y \in 1 .. m : P[y] = i <=> y = j
      BY <1>13, <1>14, <2>2
    <2>9. /\ \A y \in 1 .. m : P[y] = i => P[y + 1] # i + 1
          /\ \A y \in 1 .. m : tr[y] = IF P[y] = i THEN s.list[i + 1] ELSE s.tree[y]
      BY <2>3, <2>6, <2>7, <2>8
    <2>10. /\ Shape(l, k - 1, tr, m, P2)
           /\ \A kk : Runs(s.list, k, s.tree, m, P, kk) => Runs(l, k - 1, tr, m, P2, kk)
      <3>1. Handed(tr, s.tree, m, P, i, s.list) /\ Drawn(P2, P, m, i)
        BY <1>16, <2>9 DEF Handed, Drawn
      <3> QED BY <1>1, <1>2, <1>3, <1>5, <3>1, LeavesRun
    <2>11. ToSet(tr) \subseteq nd
      <3> SUFFICES ASSUME NEW y \in 1 .. m PROVE tr[y] \in nd
        BY <2>5 DEF ToSet
      <3>1. y # j => s.tree[y] # t /\ s.tree[y] \in s.nodes
        BY <1>1, <1>4, <1>14, <2>2 DEF ToSet
      <3> QED BY <2>4, <2>6, <3>1 DEF nd
    <2>12. Runs(s.list, k, s.tree, m, P, key) => Runs(l, k - 1, tr, m, P2, key)
      BY <2>10
    <2>13. Len(tr) = m /\ Len(l) = k - 1
      BY <1>3, <2>5
    <2> QED BY <1>5, <2>1, <2>10, <2>11, <2>12, <2>13 DEF Indexed, Shaped, Running
  <1>20. CASE /\ Contains(s.tree, t) /\ ~(i < k /\ (j = m \/ s.tree[j + 1] # x))
              /\ r = [s EXCEPT !.list = l, !.tree = RemoveAt(@, j)]
    <2> DEFINE tr == RemoveAt(s.tree, j)
               P3 == [y \in 1 .. m |-> IF y < j THEN P[y] ELSE P[y + 1] - 1]
    <2>1. r.list = l /\ r.tree = tr /\ r.nodes = s.nodes
      BY <1>20 DEF Lists
    <2>2. j \in 1 .. m /\ s.tree[j] = t /\ P[j] = i
      BY <1>8, <1>13, <1>20
    <2>3. tr \in Seq(Tracks) /\ Len(tr) = m - 1 /\ Take1(tr, s.tree, m, j)
      BY <1>1, <2>2, TakenAt DEF m
    <2>4. P[j + 1] = P[j] + 1
      <3>1. CASE j = m
        <4>1. P[j + 1] = k + 1 /\ i = k
          BY <1>1, <1>2, <1>6, <1>20, <3>1
        <4> QED BY <2>2, <4>1
      <3>2. CASE j # m
        <4>1. j + 1 \in 1 .. m /\ j \in 1 .. m + 1 /\ j + 1 \in 1 .. m + 1 /\ j < j + 1
          BY <1>1, <2>2, <3>2
        <4>2. P[j] < P[j + 1] /\ P[j + 1] \in 1 .. k
          BY <1>6, <1>12, <4>1
        <4>3. i < k
          BY <1>1, <1>2, <2>2, <4>2
        <4>4. s.list[P[j + 1]] = s.list[i + 1] /\ i + 1 \in 1 .. k
          BY <1>1, <1>2, <1>6, <1>20, <3>2, <4>1, <4>3 DEF x
        <4>5. P[j + 1] = i + 1
          BY <1>7, <4>2, <4>4
        <4> QED BY <2>2, <4>5
      <3> QED BY <3>1, <3>2
    <2>5. \A y \in 1 .. m : P3[y] = IF y < j THEN P[y] ELSE P[y + 1] - 1
      OBVIOUS
    <2>6. ToSet(tr) \subseteq s.nodes
      <3>1. \A y \in 1 .. m : s.tree[y] \in s.nodes
        BY <1>1, <1>4 DEF ToSet
      <3>2. DOMAIN tr = 1 .. m - 1
        BY <1>1, <2>3
      <3> SUFFICES ASSUME NEW y \in 1 .. m - 1 PROVE tr[y] \in s.nodes
        BY <3>2 DEF ToSet
      <3>3. y \in 1 .. m /\ y + 1 \in 1 .. m
        BY <1>1
      <3>4. tr[y] = s.tree[y] \/ tr[y] = s.tree[y + 1]
        BY <2>3 DEF Take1
      <3> QED BY <3>1, <3>3, <3>4
    <2> HIDE DEF tr, P3
    <2>7. Take1(l, s.list, k, P[j])
      BY <1>3, <2>2
    <2>8. /\ Shape(l, k - 1, tr, m - 1, P3)
          /\ \A kk : Runs(s.list, k, s.tree, m, P, kk) => Runs(l, k - 1, tr, m - 1, P3, kk)
      <3>1. Skipped(P3, P, m, j)
        BY <2>5 DEF Skipped
      <3> DEFINE ls == s.list
                 ts == s.tree
      <3>2. Shape(ls, k, ts, m, P) /\ k \in Nat /\ m \in Nat /\ Take1(l, ls, k, P[j]) /\ Take1(tr, ts, m, j)
        BY <1>1, <1>5, <2>3, <2>7
      <3> HIDE DEF ls, ts
      <3>3. /\ Shape(l, k - 1, tr, m - 1, P3)
            /\ \A kk : Runs(ls, k, ts, m, P, kk) => Runs(l, k - 1, tr, m - 1, P3, kk)
        BY <2>2, <2>4, <3>1, <3>2, LeavesTree
      <3> QED BY <3>3 DEF ls, ts
    <2> QED BY <1>15, <2>1, <2>3, <2>6, <2>8
  <1> QED BY <1>10, <1>17, <1>18, <1>19, <1>20

-----------------------------------------------------------------------------
(* The editable list and its window. *)

Windowed(s, v) == [s EXCEPT !.win = v]

LEMMA Shown ==
  ASSUME NEW s \in Lists, NEW v \in Windows
  PROVE  LET r == Windowed(s, v)
         IN  /\ r \in Lists /\ r.win = v
             /\ r.list = s.list /\ r.tree = s.tree /\ r.nodes = s.nodes /\ r.ub = s.ub
             /\ r.marked = s.marked /\ r.nr_tracks = s.nr_tracks /\ r.nr_marked = s.nr_marked
  BY DEF Lists, Windowed, Windows

(* The place in m of the track at place i of l. *)
Track(l, m, i) == IF i = 0 THEN 0 ELSE Pos(m, l[i])

LEMMA Tracked ==
  ASSUME NEW l \in Seq(Tracks), NEW m \in Seq(Tracks), NEW i \in 0 .. Len(l),
         i # 0 => l[i] \in ToSet(m)
  PROVE  /\ Track(l, m, i) \in 0 .. Len(m)
         /\ Track(l, m, i) = 0 <=> i = 0
         /\ i # 0 => m[Track(l, m, i)] = l[i]
  <1>1. CASE i = 0
    BY <1>1 DEF Track
  <1>2. CASE i # 0
    <2>1. DOMAIN m = 1 .. Len(m) /\ Len(m) \in Nat
      OBVIOUS
    <2>2. PICK y \in 1 .. Len(m) : m[y] = l[i]
      BY <1>2, <2>1 DEF ToSet
    <2>3. Pos(m, l[i]) \in 1 .. Len(m) /\ m[Pos(m, l[i])] = l[i]
      BY <2>2 DEF Pos
    <2> QED BY <1>2, <2>1, <2>3 DEF Track
  <1> QED BY <1>1, <1>2

LEMMA Follows ==
  ASSUME NEW s \in Lists, NEW l \in Seq(Tracks), Over(Len(l), s.win),
         s.win.top # 0 => l[s.win.top] \in ToSet(s.list),
         s.win.sel # 0 => l[s.win.sel] \in ToSet(s.list)
  PROVE  LET r == Following(s, l)
         IN  /\ r \in Lists /\ Over(Len(s.list), r.win) /\ r.win.nr_rows = s.win.nr_rows
             /\ r.win.top = Track(l, s.list, s.win.top)
             /\ r.win.sel = Track(l, s.list, s.win.sel)
             /\ r.list = s.list /\ r.tree = s.tree /\ r.nodes = s.nodes /\ r.ub = s.ub
             /\ r.marked = s.marked /\ r.nr_tracks = s.nr_tracks /\ r.nr_marked = s.nr_marked
  <1> DEFINE v == s.win
             top == Track(l, s.list, v.top)
             sel == Track(l, s.list, v.sel)
             k == Len(s.list)
  <1>1. s.list \in Seq(Tracks) /\ k \in Nat /\ v \in Windows
    BY Parts
  <1>2. v.top \in 0 .. Len(l) /\ v.sel \in 0 .. Len(l) /\ v.nr_rows \in Nat \ {0}
    BY DEF Over
  <1>3. top \in 0 .. k /\ sel \in 0 .. k
    BY <1>1, <1>2, Tracked
  <1>4. Following(s, l) = Windowed(s, Put(v, sel, top))
    BY DEF Following, Windowed, Put, Track, Lists
  <1> HIDE DEF v, top, sel, k
  <1>5. Put(v, sel, top) \in Windows
    <2>1. sel \in Int /\ top \in Int
      BY <1>1, <1>3
    <2> QED BY <1>1, <2>1 DEF Put, Windows
  <1>6. /\ Put(v, sel, top).sel = sel /\ Put(v, sel, top).top = top
        /\ Put(v, sel, top).nr_rows = v.nr_rows
    BY <1>1 DEF Put, Windows
  <1>7. Over(k, Put(v, sel, top))
    BY <1>2, <1>3, <1>5, <1>6 DEF Over
  <1>8. LET r == Windowed(s, Put(v, sel, top))
        IN  /\ r \in Lists /\ r.win = Put(v, sel, top)
            /\ r.list = s.list /\ r.tree = s.tree /\ r.nodes = s.nodes /\ r.ub = s.ub
            /\ r.marked = s.marked /\ r.nr_tracks = s.nr_tracks /\ r.nr_marked = s.nr_marked
    BY <1>5, Shown
  <1> QED BY <1>4, <1>6, <1>7, <1>8 DEF v, top, sel, k

(* Where the window is after row i of k, at which it is not left, is gone. *)
After(k, i, x) == IF x < i \/ (x = i /\ i < k) THEN x ELSE x - 1

LEMMA Vanished ==
  ASSUME NEW s \in Lists, Once(s.list), Over(Len(s.list), s.win), NEW t \in ToSet(s.list),
         ~owned => s.win.top = 0 /\ s.win.sel = 0
  PROVE  LET v == Vanishes(s, t)
             k == Len(s.list)
             i == Pos(s.list, t)
         IN  /\ v \in Lists /\ Over(k, v.win) /\ v.win.nr_rows = s.win.nr_rows
             /\ v.win.top = Beside(k, i, s.win.top) /\ v.win.sel = Beside(k, i, s.win.sel)
             /\ v.list = s.list /\ v.tree = s.tree /\ v.nodes = s.nodes /\ v.ub = s.ub
             /\ v.marked = s.marked /\ v.nr_tracks = s.nr_tracks /\ v.nr_marked = s.nr_marked
             /\ i \in 1 .. k /\ s.list[i] = t
  <1> DEFINE k == Len(s.list)
             i == Pos(s.list, t)
             u == window_row_vanishes(k, s.win, i)
  <1>1. s.list \in Seq(Tracks) /\ k \in Nat /\ DOMAIN s.list = 1 .. k
    BY Parts
  <1>2. i \in 1 .. k /\ s.list[i] = t
    <2>1. PICK y \in 1 .. k : s.list[y] = t
      BY <1>1 DEF ToSet
    <2> QED BY <2>1 DEF Pos
  <1> HIDE DEF i
  <1>3. CASE owned
    <2>1. /\ Over(k, u) /\ u.nr_rows = s.win.nr_rows
          /\ u.top = Beside(k, i, s.win.top) /\ u.sel = Beside(k, i, s.win.sel)
      BY <1>1, <1>2, Vanishing
    <2>2. Vanishes(s, t) = Windowed(s, u)
      BY <1>3 DEF Vanishes, Windowed, i
    <2>3. u \in Windows
      BY <2>1 DEF Over
    <2> HIDE DEF u
    <2>4. LET r == Windowed(s, u)
          IN  /\ r \in Lists /\ r.win = u
              /\ r.list = s.list /\ r.tree = s.tree /\ r.nodes = s.nodes /\ r.ub = s.ub
              /\ r.marked = s.marked /\ r.nr_tracks = s.nr_tracks /\ r.nr_marked = s.nr_marked
      BY <2>3, Shown
    <2> QED BY <1>2, <2>1, <2>2, <2>4 DEF i
  <1>4. CASE ~owned
    <2>1. Vanishes(s, t) = s
      BY <1>4 DEF Vanishes
    <2>2. Beside(k, i, 0) = 0
      BY <1>1, <1>2 DEF Beside
    <2> QED BY <1>2, <1>4, <2>1, <2>2 DEF i
  <1> QED BY <1>3, <1>4

LEMMA RowGone ==
  ASSUME NEW s \in Lists, Once(s.list), Over(Len(s.list), s.win), NEW t \in ToSet(s.list),
         ~owned => s.win.top = 0 /\ s.win.sel = 0,
         NEW q \in Lists, q.list = RemoveAt(s.list, Pos(s.list, t)), q.win = Vanishes(s, t).win
  PROVE  LET r == Following(q, s.list)
             k == Len(s.list)
             i == Pos(s.list, t)
         IN  /\ r \in Lists /\ Over(Len(r.list), r.win) /\ r.win.nr_rows = s.win.nr_rows
             /\ r.win.top = After(k, i, s.win.top) /\ r.win.sel = After(k, i, s.win.sel)
             /\ r.list = q.list /\ r.tree = q.tree /\ r.nodes = q.nodes /\ r.ub = q.ub
             /\ r.marked = q.marked /\ r.nr_tracks = q.nr_tracks /\ r.nr_marked = q.nr_marked
             /\ i \in 1 .. k /\ Len(r.list) = k - 1
             /\ Once(r.list) /\ ToSet(r.list) = ToSet(s.list) \ {t}
  <1> DEFINE k == Len(s.list)
             i == Pos(s.list, t)
             v == Vanishes(s, t)
             l == s.list
             m == q.list
  <1>1. l \in Seq(Tracks) /\ k \in Nat /\ DOMAIN l = 1 .. k /\ m \in Seq(Tracks)
    BY Parts
  <1>2. /\ Over(k, v.win) /\ v.win.nr_rows = s.win.nr_rows
        /\ v.win.top = Beside(k, i, s.win.top) /\ v.win.sel = Beside(k, i, s.win.sel)
        /\ i \in 1 .. k /\ l[i] = t
    BY Vanished
  <1>3. q.win = v.win /\ m = RemoveAt(l, i) /\ Once(l)
    OBVIOUS
  <1> HIDE DEF i, v
  <1>4. /\ Len(m) = k - 1
        /\ \A j \in 1 .. k : j < i => m[j] = l[j]
        /\ \A j \in 1 .. k : j > i => m[j - 1] = l[j]
    <2>1. i \in 1 .. Len(l)
      BY <1>2
    <2> HIDE DEF l, m
    <2>2. /\ Len(RemoveAt(l, i)) = Len(l) - 1
          /\ \A j \in 1 .. Len(l) : j < i => RemoveAt(l, i)[j] = l[j]
          /\ \A j \in 1 .. Len(l) : j > i => RemoveAt(l, i)[j - 1] = l[j]
      BY <1>1, <2>1, TakenAt
    <2> QED BY <1>3, <2>2 DEF l
  <1>5. Once(m) /\ ToSet(m) = ToSet(l) \ {t}
    BY <1>1, <1>2, <1>3, RemovedSet
  <1>6. s.win.top \in 0 .. k /\ s.win.sel \in 0 .. k /\ k = Len(l)
    BY DEF Over
  <1> HIDE DEF k, l, m
  <1>7. ASSUME NEW x \in 0 .. k
        PROVE  LET y == Beside(k, i, x)
               IN  y \in 0 .. k /\ (y # 0 => l[y] \in ToSet(m)) /\ Track(l, m, y) = After(k, i, x)
    <2> DEFINE y == Beside(k, i, x)
    <2>1. y \in 0 .. k /\ y # i
      BY <1>1, <1>2, <1>7 DEF Beside
    <2>2. y # 0 => l[y] \in ToSet(m)
      <3> SUFFICES ASSUME y # 0 PROVE l[y] \in ToSet(m)
        OBVIOUS
      <3>1. y \in 1 .. k
        BY <2>1
      <3>2. l[y] \in ToSet(l)
        BY <1>1, <3>1 DEF ToSet
      <3>3. l[y] # t
        BY <1>2, <1>3, <1>6, <2>1, <3>1 DEF Once
      <3> QED BY <1>5, <3>2, <3>3
    <2>3. After(k, i, x) = IF y < i THEN y ELSE y - 1
      BY <1>1, <1>2, <1>7 DEF After, Beside
    <2> HIDE DEF y
    <2>4. CASE y = 0
      BY <1>1, <1>2, <2>3, <2>4 DEF Track, y
    <2>5. CASE y # 0 /\ y < i
      <3>1. y \in 1 .. Len(m) /\ m[y] = l[y]
        BY <1>1, <1>2, <1>4, <2>1, <2>5
      <3>2. Pos(m, m[y]) = y
        BY <1>5, <3>1, PlaceOf
      <3> QED BY <2>1, <2>2, <2>3, <2>5, <3>1, <3>2 DEF Track, y
    <2>6. CASE y > i
      <3> DEFINE h == y - 1
      <3>1. h \in 1 .. Len(m) /\ m[h] = l[y]
        BY <1>1, <1>2, <1>4, <2>1, <2>6
      <3>2. h = IF y < i THEN y ELSE y - 1
        BY <1>2, <2>1, <2>6
      <3> HIDE DEF h
      <3>3. Pos(m, m[h]) = h
        BY <1>5, <3>1, PlaceOf
      <3>4. y # 0
        BY <1>2, <2>1, <2>6
      <3> QED BY <2>1, <2>2, <2>3, <3>1, <3>2, <3>3, <3>4 DEF Track, y
    <2> QED BY <1>2, <2>1, <2>4, <2>5, <2>6
  <1>8. Over(Len(l), q.win)
    BY <1>2, <1>3, <1>6
  <1>9. /\ q.win.top # 0 => l[q.win.top] \in ToSet(m)
        /\ q.win.sel # 0 => l[q.win.sel] \in ToSet(m)
        /\ Track(l, m, q.win.top) = After(k, i, s.win.top)
        /\ Track(l, m, q.win.sel) = After(k, i, s.win.sel)
    <2> DEFINE a == s.win.top
               b == s.win.sel
    <2>1. q.win.top = Beside(k, i, a) /\ q.win.sel = Beside(k, i, b)
      BY <1>2, <1>3
    <2>2. a \in 0 .. k /\ b \in 0 .. k
      BY <1>6
    <2> HIDE DEF a, b
    <2>3. /\ Beside(k, i, a) # 0 => l[Beside(k, i, a)] \in ToSet(m)
          /\ Track(l, m, Beside(k, i, a)) = After(k, i, a)
      BY <1>7, <2>2
    <2>4. /\ Beside(k, i, b) # 0 => l[Beside(k, i, b)] \in ToSet(m)
          /\ Track(l, m, Beside(k, i, b)) = After(k, i, b)
      BY <1>7, <2>2
    <2> QED BY <2>1, <2>3, <2>4 DEF a, b
  <1>10. LET r == Following(q, l)
         IN  /\ r \in Lists /\ Over(Len(m), r.win) /\ r.win.nr_rows = q.win.nr_rows
             /\ r.win.top = Track(l, m, q.win.top)
             /\ r.win.sel = Track(l, m, q.win.sel)
             /\ r.list = m /\ r.tree = q.tree /\ r.nodes = q.nodes /\ r.ub = q.ub
             /\ r.marked = q.marked /\ r.nr_tracks = q.nr_tracks /\ r.nr_marked = q.nr_marked
    BY <1>1, <1>8, <1>9, Follows DEF m
  <1> QED BY <1>2, <1>3, <1>4, <1>5, <1>9, <1>10 DEF k, i, l, m

(* The screen after row i of k is gone. *)
LEMMA StaysOn ==
  ASSUME NEW k \in Nat, NEW i \in 1 .. k, NEW v, Over(k, v), NEW u, Over(k - 1, u),
         u.top = After(k, i, v.top), u.sel = After(k, i, v.sel), u.nr_rows = v.nr_rows
  PROVE  /\ OnScreen(v) /\ k # 1 => OnScreen(u)
         /\ v.sel # 0 /\ k # 1 => u.sel # 0
         /\ v.top = 0 => u.top = 0
         /\ v.sel = 0 => u.sel = 0
  BY DEF Over, OnScreen, After, Windows


(* Tracks are taken out of a list, or put into it, one after another. *)
Takes(f, Ok) ==
  \A x \in Ok : \A t \in ToSet(x.list) :
    f[<<x, t>>] \in Ok /\ ToSet(f[<<x, t>>].list) = ToSet(x.list) \ {t}
Puts(f, Ok, S) ==
  \A x \in Ok : \A t \in S \ ToSet(x.list) :
    f[<<x, t>>] \in Ok /\ ToSet(f[<<x, t>>].list) = ToSet(x.list) \cup {t}

LEMMA TakenOut ==
  ASSUME NEW f, NEW s, NEW ts \in Seq(Tracks), Once(ts), NEW Ok, s \in Ok,
         ToSet(ts) \subseteq ToSet(s.list), Takes(f, Ok)
  PROVE  /\ Fold(f, s, ts) \in Ok
         /\ ToSet(Fold(f, s, ts).list) = ToSet(s.list) \ ToSet(ts)
  <1> DEFINE k == Len(ts)
             Gone(i) == {ts[j] : j \in 1 .. i}
             G == [i \in 0 .. k |-> {x \in Ok : ToSet(x.list) = ToSet(s.list) \ Gone(i)}]
  <1>1. k \in Nat /\ DOMAIN ts = 1 .. k
    OBVIOUS
  <1>2. \A i \in 0 .. k : G[i] = {x \in Ok : ToSet(x.list) = ToSet(s.list) \ Gone(i)}
    OBVIOUS
  <1> HIDE DEF G, k
  <1>3. s \in G[0]
    <2>1. Gone(0) = {}
      OBVIOUS
    <2> HIDE DEF Gone
    <2> QED BY <1>1, <1>2, <2>1
  <1>4. ASSUME NEW i \in 1 .. k, NEW x \in G[i - 1] PROVE f[<<x, ts[i]>>] \in G[i]
    <2>1. i - 1 \in 0 .. k /\ i \in 0 .. k
      BY <1>1
    <2>2. x \in Ok /\ ToSet(x.list) = ToSet(s.list) \ Gone(i - 1)
      BY <1>2, <1>4, <2>1
    <2>3. ts[i] \in ToSet(s.list)
      BY <1>1 DEF ToSet
    <2>4. ts[i] \notin Gone(i - 1)
      <3> SUFFICES ASSUME NEW j \in 1 .. i - 1 PROVE ts[i] # ts[j]
        OBVIOUS
      <3>1. j \in 1 .. Len(ts) /\ i \in 1 .. Len(ts) /\ j # i
        BY <1>1 DEF k
      <3> QED BY <3>1 DEF Once
    <2>5. Gone(i) = Gone(i - 1) \cup {ts[i]}
      <3>1. \A j : j \in 1 .. i <=> j \in 1 .. i - 1 \/ j = i
        BY <1>1
      <3> QED BY <3>1
    <2> HIDE DEF Gone
    <2>6. ts[i] \in ToSet(x.list)
      BY <2>2, <2>3, <2>4
    <2>7. /\ f[<<x, ts[i]>>] \in Ok
          /\ ToSet(f[<<x, ts[i]>>].list) = ToSet(x.list) \ {ts[i]}
      BY <2>2, <2>6 DEF Takes
    <2> QED BY <1>2, <2>1, <2>2, <2>5, <2>7
  <1>5. Fold(f, s, ts) \in G[k]
    BY <1>1, <1>3, <1>4, FoldInduction DEF k
  <1>6. Gone(k) = ToSet(ts)
    BY <1>1 DEF ToSet
  <1> QED BY <1>1, <1>2, <1>5, <1>6

LEMMA PutIn ==
  ASSUME NEW f, NEW s, NEW ts \in Seq(Tracks), Once(ts), NEW Ok, s \in Ok,
         ToSet(ts) \cap ToSet(s.list) = {}, Puts(f, Ok, ToSet(ts))
  PROVE  /\ Fold(f, s, ts) \in Ok
         /\ ToSet(Fold(f, s, ts).list) = ToSet(s.list) \cup ToSet(ts)
  <1> DEFINE k == Len(ts)
             In(i) == {ts[j] : j \in 1 .. i}
             G == [i \in 0 .. k |-> {x \in Ok : ToSet(x.list) = ToSet(s.list) \cup In(i)}]
  <1>1. k \in Nat /\ DOMAIN ts = 1 .. k
    OBVIOUS
  <1>2. \A i \in 0 .. k : G[i] = {x \in Ok : ToSet(x.list) = ToSet(s.list) \cup In(i)}
    OBVIOUS
  <1> HIDE DEF G, k
  <1>3. s \in G[0]
    <2>1. In(0) = {}
      OBVIOUS
    <2> HIDE DEF In
    <2> QED BY <1>1, <1>2, <2>1
  <1>4. ASSUME NEW i \in 1 .. k, NEW x \in G[i - 1] PROVE f[<<x, ts[i]>>] \in G[i]
    <2>1. i - 1 \in 0 .. k /\ i \in 0 .. k
      BY <1>1
    <2>2. x \in Ok /\ ToSet(x.list) = ToSet(s.list) \cup In(i - 1)
      BY <1>2, <1>4, <2>1
    <2>3. ts[i] \in ToSet(ts) \ ToSet(s.list)
      BY <1>1 DEF ToSet
    <2>4. ts[i] \notin In(i - 1)
      <3> SUFFICES ASSUME NEW j \in 1 .. i - 1 PROVE ts[i] # ts[j]
        OBVIOUS
      <3>1. j \in 1 .. Len(ts) /\ i \in 1 .. Len(ts) /\ j # i
        BY <1>1 DEF k
      <3> QED BY <3>1 DEF Once
    <2>5. In(i) = In(i - 1) \cup {ts[i]}
      <3>1. \A j : j \in 1 .. i <=> j \in 1 .. i - 1 \/ j = i
        BY <1>1
      <3> QED BY <3>1
    <2> HIDE DEF In
    <2>6. ts[i] \in ToSet(ts) \ ToSet(x.list)
      BY <2>2, <2>3, <2>4
    <2>7. /\ f[<<x, ts[i]>>] \in Ok
          /\ ToSet(f[<<x, ts[i]>>].list) = ToSet(x.list) \cup {ts[i]}
      BY <2>2, <2>6 DEF Puts
    <2> QED BY <1>2, <2>1, <2>2, <2>5, <2>7
  <1>5. Fold(f, s, ts) \in G[k]
    BY <1>1, <1>3, <1>4, FoldInduction DEF k
  <1>6. In(k) = ToSet(ts)
    BY <1>1 DEF ToSet
  <1> QED BY <1>1, <1>2, <1>5, <1>6

(* A list of which everything agrees: its counts, its tree and its window. *)
Whole(s, ord, key) ==
  /\ s \in Lists /\ Once(s.list) /\ Over(Len(s.list), s.win)
  /\ s.marked \subseteq ToSet(s.list)
  /\ s.nr_tracks = Len(s.list) /\ s.nr_marked = Cardinality(s.marked)
  /\ ~s.ub => Indexed(s, ord, key)
  /\ ~owned => s.win.top = 0 /\ s.win.sel = 0

LEMMA Removes ==
  ASSUME NEW s, NEW ord, NEW key, Whole(s, ord, key), NEW t \in ToSet(s.list)
  PROVE  LET r == editable_remove_track(s, t)
         IN  /\ Whole(r, ord, key)
             /\ ToSet(r.list) = ToSet(s.list) \ {t}
             /\ r.win.nr_rows = s.win.nr_rows
             /\ OnScreen(s.win) /\ r.list # <<>> => OnScreen(r.win)
  <1> DEFINE k == Len(s.list)
             i == Pos(s.list, t)
             v == Vanishes(s, t)
             q == sorted_list_remove_track(v, t)
             p == Following(q, v.list)
             r == editable_remove_track(s, t)
  <1>1. /\ s \in Lists /\ Once(s.list) /\ Over(Len(s.list), s.win)
        /\ ~owned => s.win.top = 0 /\ s.win.sel = 0
        /\ s.marked \subseteq ToSet(s.list)
        /\ s.nr_tracks = Len(s.list) /\ s.nr_marked = Cardinality(s.marked)
        /\ ~s.ub => Indexed(s, ord, key)
    BY DEF Whole
  <1>2. r = [p EXCEPT !.nodes = @ \ {t}, !.marked = @ \ {t}, !.nr_tracks = @ - 1,
                      !.nr_marked = @ - (IF t \in s.marked THEN 1 ELSE 0)]
    BY DEF editable_remove_track
  <1>3. /\ v \in Lists /\ v.list = s.list /\ v.tree = s.tree /\ v.nodes = s.nodes /\ v.ub = s.ub
        /\ v.marked = s.marked /\ v.nr_tracks = s.nr_tracks /\ v.nr_marked = s.nr_marked
    BY <1>1, Vanished
  <1>4. /\ q \in Lists /\ q.list = RemoveAt(s.list, i) /\ (q.ub = v.ub \/ q.ub = TRUE)
        /\ q.marked = s.marked /\ q.nr_tracks = s.nr_tracks
        /\ q.nr_marked = s.nr_marked /\ q.win = v.win
    <2> HIDE DEF v
    <2>1. t \in ToSet(v.list)
      BY <1>3
    <2> QED BY <1>3, <2>1, RemoveTrack
  <1>5. ASSUME ~q.ub PROVE Indexed(q, ord, key)
    <2> HIDE DEF v
    <2>1. ~s.ub /\ ~v.ub
      BY <1>3, <1>4, <1>5
    <2>2. Indexed(v, ord, key)
      BY <1>1, <1>3, <2>1 DEF Indexed, Shaped, Running
    <2>3. t \in ToSet(v.list) /\ Once(v.list)
      BY <1>1, <1>3
    <2> QED BY <1>3, <1>5, <2>1, <2>2, <2>3, RemoveNode
  <1> HIDE DEF q
  <1>6. p = Following(q, s.list)
    BY <1>3
  <1> HIDE DEF p
  <1>7. /\ p \in Lists /\ Over(Len(p.list), p.win) /\ p.win.nr_rows = s.win.nr_rows
        /\ p.win.top = After(k, i, s.win.top) /\ p.win.sel = After(k, i, s.win.sel)
        /\ p.list = q.list /\ p.tree = q.tree /\ p.nodes = q.nodes /\ p.ub = q.ub
        /\ p.marked = q.marked /\ p.nr_tracks = q.nr_tracks /\ p.nr_marked = q.nr_marked
        /\ i \in 1 .. k /\ Len(p.list) = k - 1
        /\ Once(p.list) /\ ToSet(p.list) = ToSet(s.list) \ {t}
    <2>1. q.win = Vanishes(s, t).win /\ q.list = RemoveAt(s.list, Pos(s.list, t)) /\ q \in Lists
      BY <1>4
    <2> DEFINE y == Following(q, s.list)
    <2>2. /\ y \in Lists /\ Over(Len(y.list), y.win) /\ y.win.nr_rows = s.win.nr_rows
          /\ y.win.top = After(k, i, s.win.top) /\ y.win.sel = After(k, i, s.win.sel)
          /\ y.list = q.list /\ y.tree = q.tree /\ y.nodes = q.nodes /\ y.ub = q.ub
          /\ y.marked = q.marked /\ y.nr_tracks = q.nr_tracks /\ y.nr_marked = q.nr_marked
          /\ i \in 1 .. k /\ Len(y.list) = k - 1
          /\ Once(y.list) /\ ToSet(y.list) = ToSet(s.list) \ {t}
      BY <1>1, <2>1, RowGone
    <2> QED BY <1>6, <2>2
  <1>8. /\ p.nodes \subseteq Tracks /\ p.marked \subseteq Tracks
        /\ p.nr_tracks \in Int /\ p.nr_marked \in Int
    BY <1>7, Parts
  <1> HIDE DEF r, v
  <1>9. /\ r \in Lists /\ r.list = p.list /\ r.tree = p.tree /\ r.nodes = p.nodes \ {t}
        /\ r.ub = p.ub /\ r.win = p.win
        /\ r.marked = s.marked \ {t}
        /\ r.nr_tracks = s.nr_tracks - 1
        /\ r.nr_marked = s.nr_marked - (IF t \in s.marked THEN 1 ELSE 0)
    <2>1. r \in Lists
      <3> DEFINE a == p.nodes \ {t}
                 b == p.marked \ {t}
                 c == p.nr_tracks - 1
                 d == p.nr_marked - (IF t \in s.marked THEN 1 ELSE 0)
      <3>1. a \in SUBSET Tracks /\ b \in SUBSET Tracks /\ c \in Int /\ d \in Int
        BY <1>8
      <3>2. r = [p EXCEPT !.nodes = a, !.marked = b, !.nr_tracks = c, !.nr_marked = d]
        BY <1>2
      <3> HIDE DEF a, b, c, d
      <3> QED BY <1>7, <3>1, <3>2 DEF Lists
    <2>2. /\ r.list = p.list /\ r.tree = p.tree /\ r.nodes = p.nodes \ {t}
          /\ r.ub = p.ub /\ r.win = p.win /\ r.marked = p.marked \ {t}
          /\ r.nr_tracks = p.nr_tracks - 1
          /\ r.nr_marked = p.nr_marked - (IF t \in s.marked THEN 1 ELSE 0)
      BY <1>2, <1>7 DEF Lists
    <2> QED BY <1>4, <1>7, <2>1, <2>2
  <1>10. ASSUME ~r.ub PROVE Indexed(r, ord, key)
    <2>1. Indexed(q, ord, key)
      BY <1>5, <1>7, <1>9, <1>10
    <2>2. ToSet(q.tree) \subseteq ToSet(q.list) /\ ToSet(q.tree) \subseteq q.nodes
      BY <1>4, <2>1, TreeInList DEF Indexed
    <2>3. t \notin ToSet(q.list)
      BY <1>7
    <2>4. ToSet(r.tree) \subseteq r.nodes
      BY <1>7, <1>9, <2>2, <2>3
    <2> QED BY <1>7, <1>9, <2>1, <2>4 DEF Indexed, Shaped, Running
  <1>11. r.marked \subseteq ToSet(r.list) /\ r.nr_tracks = Len(r.list)
    BY <1>1, <1>7, <1>9
  <1>12. r.nr_marked = Cardinality(r.marked)
    <2>1. IsFiniteSet(s.marked)
      BY <1>1, ElementSet, Parts, FS_Subset
    <2>2. Cardinality(s.marked \ {t}) = Cardinality(s.marked) - (IF t \in s.marked THEN 1 ELSE 0)
      BY <2>1, FS_RemoveElement, FS_CardinalityType
    <2> QED BY <1>1, <1>9, <2>2
  <1>13. /\ OnScreen(s.win) /\ k # 1 => OnScreen(r.win)
         /\ s.win.top = 0 => r.win.top = 0
         /\ s.win.sel = 0 => r.win.sel = 0
    <2>1. k \in Nat /\ k = Len(s.list)
      BY <1>1, Parts
    <2>2. Over(k, s.win) /\ Over(k - 1, p.win)
      BY <1>1, <1>7
    <2> DEFINE a == s.win
               b == p.win
    <2>3. /\ Over(k, a) /\ Over(k - 1, b) /\ k \in Nat /\ i \in 1 .. k
          /\ b.top = After(k, i, a.top) /\ b.sel = After(k, i, a.sel) /\ b.nr_rows = a.nr_rows
      BY <1>7, <2>1, <2>2
    <2>4. r.win = b
      BY <1>9
    <2> HIDE DEF k, i, a, b
    <2>5. /\ OnScreen(a) /\ k # 1 => OnScreen(b)
          /\ a.top = 0 => b.top = 0
          /\ a.sel = 0 => b.sel = 0
      BY <2>3, StaysOn
    <2> QED BY <2>4, <2>5 DEF a
  <1>14. OnScreen(s.win) /\ r.list # <<>> => OnScreen(r.win)
    <2>1. r.list \in Seq(Tracks)
      BY <1>9, Parts
    <2>2. k = 1 => r.list = <<>>
      BY <1>7, <1>9, <2>1
    <2> QED BY <1>13, <2>2
  <1> QED BY <1>1, <1>7, <1>9, <1>10, <1>11, <1>12, <1>13, <1>14 DEF r, Whole

LEMMA RemovesAll ==
  ASSUME NEW s, NEW ord, NEW key, Whole(s, ord, key), NEW S
  PROVE  LET f == [x \in Lists \X Tracks |-> editable_remove_track(x[1], x[2])]
             r == Fold(f, s, Select(s.list, S))
         IN  /\ Whole(r, ord, key)
             /\ ToSet(r.list) = ToSet(s.list) \ S
             /\ r.win.nr_rows = s.win.nr_rows
             /\ OnScreen(s.win) /\ r.list # <<>> => OnScreen(r.win)
  <1> DEFINE f == [x \in Lists \X Tracks |-> editable_remove_track(x[1], x[2])]
             ts == Select(s.list, S)
             Ok == {x \in Lists : /\ Whole(x, ord, key)
                                  /\ x.win.nr_rows = s.win.nr_rows
                                  /\ OnScreen(s.win) /\ x.list # <<>> => OnScreen(x.win)}
  <1>1. s \in Lists /\ Once(s.list) /\ s.list \in Seq(Tracks)
    BY Parts DEF Whole
  <1>2. ts \in Seq(Tracks) /\ Once(ts) /\ ToSet(ts) = ToSet(s.list) \cap S
    BY <1>1, SelectedSet
  <1> HIDE DEF ts
  <1>3. s \in Ok
    BY <1>1
  <1>4. ASSUME NEW x \in Ok, NEW t \in ToSet(x.list)
        PROVE  f[<<x, t>>] \in Ok /\ ToSet(f[<<x, t>>].list) = ToSet(x.list) \ {t}
    <2> DEFINE r == editable_remove_track(x, t)
    <2>1. /\ x \in Lists /\ Whole(x, ord, key) /\ x.win.nr_rows = s.win.nr_rows
          /\ OnScreen(s.win) /\ x.list # <<>> => OnScreen(x.win)
      OBVIOUS
    <2>2. x.list \in Seq(Tracks) /\ ToSet(x.list) \subseteq Tracks /\ x.list # <<>>
      <3>1. x.list \in Seq(Tracks)
        BY <2>1, Parts
      <3>2. ToSet(x.list) \subseteq Tracks /\ (ToSet(x.list) = {} <=> Len(x.list) = 0)
        BY <3>1, ElementSet
      <3>3. Len(x.list) # 0
        BY <3>2
      <3> QED BY <3>1, <3>2, <3>3
    <2>3. f[<<x, t>>] = r
      BY <2>1, <2>2
    <2>4. /\ Whole(r, ord, key) /\ ToSet(r.list) = ToSet(x.list) \ {t}
          /\ r.win.nr_rows = x.win.nr_rows
          /\ OnScreen(x.win) /\ r.list # <<>> => OnScreen(r.win)
      BY <2>1, Removes
    <2> HIDE DEF r, f
    <2>5. r \in Lists
      BY <2>4 DEF Whole
    <2> QED BY <2>1, <2>2, <2>3, <2>4, <2>5
  <1> HIDE DEF Ok, f
  <1>5. Fold(f, s, ts) \in Ok /\ ToSet(Fold(f, s, ts).list) = ToSet(s.list) \ ToSet(ts)
    <2>1. ToSet(ts) \subseteq ToSet(s.list)
      BY <1>2
    <2>2. Takes(f, Ok)
      BY <1>4 DEF Takes
    <2> QED BY <1>2, <1>3, <2>1, <2>2, TakenOut
  <1>6. ToSet(s.list) \ ToSet(ts) = ToSet(s.list) \ S
    BY <1>2
  <1> QED BY <1>5, <1>6 DEF Ok, f, ts

(* Another window over the same list. *)
LEMMA Shows ==
  ASSUME NEW s, NEW ord, NEW key, Whole(s, ord, key), NEW v, Over(Len(s.list), v),
         ~owned => v.top = 0 /\ v.sel = 0
  PROVE  LET r == Windowed(s, v)
         IN  Whole(r, ord, key) /\ r.list = s.list /\ r.win = v /\ r.ub = s.ub
  <1> DEFINE r == Windowed(s, v)
  <1>1. s \in Lists /\ v \in Windows
    BY DEF Whole, Over
  <1>2. /\ r \in Lists /\ r.win = v
        /\ r.list = s.list /\ r.tree = s.tree /\ r.nodes = s.nodes /\ r.ub = s.ub
        /\ r.marked = s.marked /\ r.nr_tracks = s.nr_tracks /\ r.nr_marked = s.nr_marked
    BY <1>1, Shown
  <1> HIDE DEF r
  <1>3. Indexed(s, ord, key) => Indexed(r, ord, key)
    BY <1>2 DEF Indexed, Shaped, Running
  <1>4. Whole(r, ord, key)
    BY <1>2, <1>3 DEF Whole
  <1> QED BY <1>2, <1>4 DEF r

LEMMA IsChanged ==
  ASSUME NEW s, NEW ord, NEW key, Whole(s, ord, key)
  PROVE  LET r == Changed(s)
         IN  /\ Whole(r, ord, key) /\ r.list = s.list /\ r.win.nr_rows = s.win.nr_rows
             /\ r.ub = s.ub
             /\ owned /\ r.list # <<>> /\ (s.win.top = 0 \/ s.win.sel # 0) => OnScreen(r.win)
  <1>1. s \in Lists /\ Over(Len(s.list), s.win) /\ s.list \in Seq(Tracks) /\ Len(s.list) \in Nat
    BY Parts DEF Whole
  <1>2. CASE ~owned
    BY <1>2 DEF Changed
  <1>3. CASE owned
    <2> DEFINE v == window_changed(Len(s.list), s.win)
    <2>1. /\ Over(Len(s.list), v) /\ v.nr_rows = s.win.nr_rows
          /\ Len(s.list) > 0 /\ (s.win.top = 0 \/ s.win.sel # 0) => OnScreen(v)
      BY <1>1, Changes
    <2>2. Changed(s) = Windowed(s, v)
      BY <1>3 DEF Changed, Windowed
    <2> HIDE DEF v
    <2>3. LET r == Windowed(s, v)
          IN  Whole(r, ord, key) /\ r.list = s.list /\ r.win = v /\ r.ub = s.ub
      BY <1>3, <2>1, Shows
    <2>4. s.list # <<>> => Len(s.list) > 0
      BY <1>1
    <2> QED BY <2>1, <2>2, <2>3, <2>4
  <1> QED BY <1>2, <1>3

(* do_editable_add *)
LEMMA Adds ==
  ASSUME NEW s, NEW ord, NEW inf \in [Tracks -> Int], NEW k, NEW tiebreak,
         Whole(s, ord, KeyOf(k, inf)), ~s.ub,
         NEW t \in Tracks, t \notin ToSet(s.list),
         NEW q \in sorted_list_add_track(s, t, inf, k, tiebreak)
  PROVE  LET r == Changed(Following([q EXCEPT !.nr_tracks = @ + 1], s.list))
         IN  /\ Whole(r, ord, KeyOf(k, inf)) /\ ~r.ub
             /\ r.win.nr_rows = s.win.nr_rows
             /\ owned /\ (s.win.top = 0 \/ s.win.sel # 0) => OnScreen(r.win)
  <1> DEFINE key == KeyOf(k, inf)
             p == [q EXCEPT !.nr_tracks = @ + 1]
             u == Following(p, s.list)
  <1>1. /\ s \in Lists /\ Once(s.list) /\ Over(Len(s.list), s.win)
        /\ s.marked \subseteq ToSet(s.list)
        /\ s.nr_tracks = Len(s.list) /\ s.nr_marked = Cardinality(s.marked)
        /\ Indexed(s, ord, key)
        /\ ~owned => s.win.top = 0 /\ s.win.sel = 0
    BY DEF Whole
  <1>2. s.list \in Seq(Tracks) /\ Len(s.list) \in Nat /\ DOMAIN s.list = 1 .. Len(s.list)
    BY <1>1, Parts
  <1>3. PICK P : Shaped(s, P) /\ (ord => Running(s, P, key))
    BY <1>1 DEF Indexed
  <1>4. /\ q \in Lists
        /\ \E i \in 1 .. Len(s.list) + 1 : q.list = InsertAt(s.list, i, t)
        /\ ToSet(s.tree) \subseteq s.nodes => ToSet(q.tree) \subseteq q.nodes
        /\ q.ub = s.ub /\ q.marked = s.marked /\ q.nr_tracks = s.nr_tracks
        /\ q.nr_marked = s.nr_marked /\ q.win = s.win
        /\ \E P2 : Shaped(q, P2) /\ (Running(s, P, key) => Running(q, P2, key))
    BY <1>1, <1>3, AddTrack
  <1> HIDE DEF key
  <1>5. Indexed(q, ord, key)
    BY <1>1, <1>3, <1>4 DEF Indexed
  <1>6. PICK i \in 1 .. Len(s.list) + 1 : q.list = InsertAt(s.list, i, t)
    BY <1>4
  <1>7. /\ q.list \in Seq(Tracks) /\ Len(q.list) = Len(s.list) + 1
        /\ Once(q.list) /\ ToSet(q.list) = ToSet(s.list) \cup {t}
    BY <1>1, <1>2, <1>6, Inserted, InsertedSet
  <1>8. /\ p \in Lists /\ p.list = q.list /\ p.tree = q.tree /\ p.nodes = q.nodes
        /\ p.ub = q.ub /\ p.marked = q.marked /\ p.nr_tracks = s.nr_tracks + 1
        /\ p.nr_marked = q.nr_marked /\ p.win = q.win
    <2>1. q.nr_tracks + 1 \in Int
      BY <1>4, Parts
    <2> QED BY <1>4, <2>1 DEF Lists
  <1> HIDE DEF p
  <1>9. /\ Over(Len(s.list), p.win)
        /\ p.win.top # 0 => s.list[p.win.top] \in ToSet(p.list)
        /\ p.win.sel # 0 => s.list[p.win.sel] \in ToSet(p.list)
    <2>1. \A j \in 1 .. Len(s.list) : s.list[j] \in ToSet(p.list)
      <3>1. \A j \in 1 .. Len(s.list) : s.list[j] \in ToSet(s.list)
        BY <1>2 DEF ToSet
      <3>2. ToSet(s.list) \subseteq ToSet(p.list)
        BY <1>7, <1>8
      <3> QED BY <3>1, <3>2
    <2>2. p.win = s.win /\ p.win.top \in 0 .. Len(s.list) /\ p.win.sel \in 0 .. Len(s.list)
      BY <1>1, <1>4, <1>8 DEF Over
    <2>3. p.win.top # 0 => p.win.top \in 1 .. Len(s.list)
      BY <2>2
    <2>4. p.win.sel # 0 => p.win.sel \in 1 .. Len(s.list)
      BY <2>2
    <2> QED BY <1>1, <2>1, <2>2, <2>3, <2>4
  <1>10. /\ u \in Lists /\ Over(Len(p.list), u.win) /\ u.win.nr_rows = p.win.nr_rows
         /\ u.win.top = Track(s.list, p.list, p.win.top)
         /\ u.win.sel = Track(s.list, p.list, p.win.sel)
         /\ u.list = p.list /\ u.tree = p.tree /\ u.nodes = p.nodes /\ u.ub = p.ub
         /\ u.marked = p.marked /\ u.nr_tracks = p.nr_tracks /\ u.nr_marked = p.nr_marked
    BY <1>2, <1>8, <1>9, Follows
  <1>11. /\ u.win.top = 0 <=> s.win.top = 0
         /\ u.win.sel = 0 <=> s.win.sel = 0
    <2>1. p.list \in Seq(Tracks) /\ p.win = s.win
      BY <1>4, <1>7, <1>8
    <2>2. p.win.top \in 0 .. Len(s.list) /\ p.win.sel \in 0 .. Len(s.list)
      BY <1>9 DEF Over
    <2> DEFINE a == p.win.top
               b == p.win.sel
               l == s.list
               m == p.list
    <2>3. /\ l \in Seq(Tracks) /\ m \in Seq(Tracks)
          /\ a \in 0 .. Len(l) /\ b \in 0 .. Len(l)
          /\ a # 0 => l[a] \in ToSet(m)
          /\ b # 0 => l[b] \in ToSet(m)
      BY <1>2, <1>9, <2>1, <2>2
    <2> HIDE DEF a, b, l, m
    <2>4. /\ Track(l, m, a) = 0 <=> a = 0
          /\ Track(l, m, b) = 0 <=> b = 0
      <3>1. Track(l, m, a) = 0 <=> a = 0
        BY <2>3, Tracked
      <3>2. Track(l, m, b) = 0 <=> b = 0
        BY <2>3, Tracked
      <3> QED BY <3>1, <3>2
    <2> QED BY <1>10, <2>1, <2>4 DEF a, b, l, m
  <1> HIDE DEF u
  <1>12. Whole(u, ord, key)
    <2>1. Indexed(u, ord, key)
      BY <1>5, <1>8, <1>10 DEF Indexed, Shaped, Running
    <2>2. u.marked \subseteq ToSet(u.list)
      BY <1>1, <1>4, <1>7, <1>8, <1>10
    <2>3. u.nr_tracks = Len(u.list)
      BY <1>1, <1>7, <1>8, <1>10
    <2>4. u.nr_marked = Cardinality(u.marked) /\ Once(u.list)
      BY <1>1, <1>4, <1>7, <1>8, <1>10
    <2> QED BY <1>1, <1>10, <1>11, <2>1, <2>2, <2>3, <2>4 DEF Whole
  <1> DEFINE r == Changed(u)
  <1>13. /\ Whole(r, ord, key) /\ r.list = u.list /\ r.win.nr_rows = u.win.nr_rows
         /\ r.ub = u.ub
         /\ owned /\ r.list # <<>> /\ (u.win.top = 0 \/ u.win.sel # 0) => OnScreen(r.win)
    BY <1>12, IsChanged
  <1>14. u.list # <<>>
    BY <1>2, <1>7, <1>8, <1>10
  <1>15. ~r.ub /\ r.win.nr_rows = s.win.nr_rows
    BY <1>4, <1>8, <1>10, <1>13
  <1> HIDE DEF r
  <1>16. owned /\ (s.win.top = 0 \/ s.win.sel # 0) => OnScreen(r.win)
    BY <1>11, <1>13, <1>14
  <1> QED BY <1>13, <1>15, <1>16 DEF r, u, p, key


(* What rebuilding a list does not touch. *)
Kept(s, r) ==
  /\ r.marked = s.marked /\ r.nr_tracks = s.nr_tracks /\ r.nr_marked = s.nr_marked
  /\ r.win = s.win

LEMMA AllTaken ==
  ASSUME NEW s \in Lists, Once(s.list)
  PROVE  LET f == [x \in Lists \X Tracks |-> sorted_list_remove_track(x[1], x[2])]
             r == Fold(f, s, s.list)
         IN  r \in Lists /\ Kept(s, r) /\ r.list = <<>>
  <1> DEFINE f == [x \in Lists \X Tracks |-> sorted_list_remove_track(x[1], x[2])]
             Ok == {x \in Lists : Once(x.list) /\ Kept(s, x)}
             r == Fold(f, s, s.list)
  <1>1. s.list \in Seq(Tracks)
    BY Parts
  <1>2. s \in Ok
    BY DEF Kept
  <1>3. ASSUME NEW x \in Ok, NEW t \in ToSet(x.list)
        PROVE  f[<<x, t>>] \in Ok /\ ToSet(f[<<x, t>>].list) = ToSet(x.list) \ {t}
    <2> DEFINE y == sorted_list_remove_track(x, t)
               i == Pos(x.list, t)
    <2>1. x \in Lists /\ Once(x.list) /\ Kept(s, x)
      OBVIOUS
    <2>2. x.list \in Seq(Tracks) /\ ToSet(x.list) \subseteq Tracks
      BY <2>1, Parts, ElementSet
    <2>3. f[<<x, t>>] = y
      BY <2>1, <2>2
    <2>4. /\ y \in Lists /\ y.list = RemoveAt(x.list, i)
          /\ y.marked = x.marked /\ y.nr_tracks = x.nr_tracks
          /\ y.nr_marked = x.nr_marked /\ y.win = x.win
      BY <2>1, RemoveTrack
    <2>5. i \in 1 .. Len(x.list) /\ x.list[i] = t
      <3>1. DOMAIN x.list = 1 .. Len(x.list)
        BY <2>2
      <3>2. PICK j \in 1 .. Len(x.list) : x.list[j] = t
        BY <3>1 DEF ToSet
      <3> QED BY <3>2 DEF Pos
    <2> HIDE DEF y, f, i
    <2>6. Once(y.list) /\ ToSet(y.list) = ToSet(x.list) \ {t}
      BY <2>1, <2>2, <2>4, <2>5, RemovedSet
    <2>7. Kept(s, y)
      BY <2>1, <2>4 DEF Kept
    <2> QED BY <2>3, <2>4, <2>6, <2>7
  <1> HIDE DEF Ok, f
  <1>4. Takes(f, Ok)
    BY <1>3 DEF Takes
  <1>5. r \in Ok /\ ToSet(r.list) = ToSet(s.list) \ ToSet(s.list)
    BY <1>1, <1>2, <1>4, TakenOut
  <1> HIDE DEF r
  <1>6. r \in Lists /\ Kept(s, r)
    BY <1>5 DEF Ok
  <1>7. r.list \in Seq(Tracks) /\ ToSet(r.list) = {}
    BY <1>5, <1>6, Parts
  <1>8. r.list = <<>>
    <2> DEFINE l == r.list
    <2>1. l \in Seq(Tracks) /\ Len(l) = 0
      BY <1>7, ElementSet
    <2> HIDE DEF l
    <2>2. l = <<>>
      BY <2>1
    <2> QED BY <2>2 DEF l
  <1> QED BY <1>6, <1>8 DEF r, f

LEMMA AllPut ==
  ASSUME NEW s \in Lists, s.list = <<>>, s.tree = <<>>,
         NEW ts \in Seq(Tracks), Once(ts), NEW inf \in [Tracks -> Int], NEW k
  PROVE  LET f == [x \in Lists \X Tracks |->
                     CHOOSE y \in sorted_list_add_track(x[1], x[2], inf, k, 0) : TRUE]
             r == Fold(f, s, ts)
         IN  /\ r \in Lists /\ Kept(s, r) /\ Once(r.list) /\ ToSet(r.list) = ToSet(ts)
             /\ Indexed(r, TRUE, KeyOf(k, inf))
  <1> DEFINE f == [x \in Lists \X Tracks |->
                     CHOOSE y \in sorted_list_add_track(x[1], x[2], inf, k, 0) : TRUE]
             key == KeyOf(k, inf)
             Ok == {x \in Lists : Once(x.list) /\ Kept(s, x) /\ Indexed(x, TRUE, key)}
             r == Fold(f, s, ts)
  <1>1. ToSet(s.list) = {} /\ Len(s.list) = 0 /\ Len(s.tree) = 0 /\ ToSet(s.tree) = {}
    BY DEF ToSet
  <1>2. s \in Ok
    <2> DEFINE P == [j \in 1 .. 1 |-> 1]
    <2>1. P[1] = 1
      OBVIOUS
    <2> HIDE DEF P
    <2>2. Shaped(s, P) /\ Running(s, P, key)
      BY <1>1, <2>1 DEF Shaped, Shape, Running, Runs
    <2>3. Indexed(s, TRUE, key)
      BY <1>1, <2>2 DEF Indexed
    <2>4. Once(s.list)
      BY <1>1 DEF Once
    <2> QED BY <2>3, <2>4 DEF Kept
  <1>3. ASSUME NEW x \in Ok, NEW t \in ToSet(ts) \ ToSet(x.list)
        PROVE  f[<<x, t>>] \in Ok /\ ToSet(f[<<x, t>>].list) = ToSet(x.list) \cup {t}
    <2> DEFINE A == sorted_list_add_track(x, t, inf, k, 0)
               y == CHOOSE y \in A : TRUE
    <2>1. x \in Lists /\ Once(x.list) /\ Kept(s, x) /\ Indexed(x, TRUE, key)
      OBVIOUS
    <2>2. t \in Tracks /\ t \notin ToSet(x.list) /\ x.list \in Seq(Tracks)
      BY <2>1, Parts, ElementSet
    <2>3. f[<<x, t>>] = y
      BY <2>1, <2>2
    <2>4. PICK P : Shaped(x, P) /\ Running(x, P, key)
      BY <2>1 DEF Indexed
    <2>5. A # {}
      <3>1. \A i, j \in 1 .. Len(x.tree) : i < j => key[x.tree[i]] < key[x.tree[j]]
        BY <2>4 DEF Running, Runs
      <3> QED BY <2>1, <2>2, <3>1, AddExists
    <2>6. y \in A
      <3> HIDE DEF A
      <3> QED BY <2>5
    <2> HIDE DEF y, f
    <2>11. y \in sorted_list_add_track(x, t, inf, k, 0)
      BY <2>6
    <2> HIDE DEF A
    <2>7. /\ y \in Lists
          /\ \E i \in 1 .. Len(x.list) + 1 : y.list = InsertAt(x.list, i, t)
          /\ ToSet(x.tree) \subseteq x.nodes => ToSet(y.tree) \subseteq y.nodes
          /\ y.marked = x.marked /\ y.nr_tracks = x.nr_tracks
          /\ y.nr_marked = x.nr_marked /\ y.win = x.win
          /\ \E P2 : Shaped(y, P2) /\ (Running(x, P, key) => Running(y, P2, key))
      <3>1. x \in Lists /\ Once(x.list) /\ Shaped(x, P) /\ t \in Tracks /\ t \notin ToSet(x.list)
        BY <2>1, <2>2, <2>4
      <3> HIDE DEF Ok
      <3>2. /\ y \in Lists
            /\ \E i \in 1 .. Len(x.list) + 1 : y.list = InsertAt(x.list, i, t)
            /\ ToSet(x.tree) \subseteq x.nodes => ToSet(y.tree) \subseteq y.nodes
            /\ y.ub = x.ub /\ y.marked = x.marked /\ y.nr_tracks = x.nr_tracks
            /\ y.nr_marked = x.nr_marked /\ y.win = x.win
            /\ \E P2 : Shaped(y, P2) /\ (Running(x, P, KeyOf(k, inf)) => Running(y, P2, KeyOf(k, inf)))
        BY <2>11, <3>1, AddTrack
      <3> QED BY <3>2
    <2>8. Once(y.list) /\ ToSet(y.list) = ToSet(x.list) \cup {t}
      <3>1. PICK i \in 1 .. Len(x.list) + 1 : y.list = InsertAt(x.list, i, t)
        BY <2>7
      <3> QED BY <2>1, <2>2, <3>1, InsertedSet
    <2>9. Indexed(y, TRUE, key)
      BY <2>1, <2>4, <2>7 DEF Indexed
    <2>10. Kept(s, y)
      BY <2>1, <2>7 DEF Kept
    <2> QED BY <2>3, <2>7, <2>8, <2>9, <2>10
  <1> HIDE DEF Ok, f, key
  <1>4. Puts(f, Ok, ToSet(ts))
    BY <1>3 DEF Puts
  <1>5. ToSet(ts) \cap ToSet(s.list) = {}
    BY <1>1
  <1>6. r \in Ok /\ ToSet(r.list) = ToSet(s.list) \cup ToSet(ts)
    BY <1>2, <1>4, <1>5, PutIn
  <1>7. ToSet(r.list) = ToSet(ts)
    BY <1>1, <1>6
  <1> HIDE DEF r
  <1> QED BY <1>6, <1>7 DEF Ok, r, f, key

(* sorted_list_rebuild and rand_list_rebuild *)
LEMMA Rebuilds ==
  ASSUME NEW s \in Lists, Once(s.list), NEW ts \in Seq(Tracks), Once(ts),
         NEW inf \in [Tracks -> Int], NEW k
  PROVE  LET r == Rebuilt(s, ts, inf, k)
         IN  /\ r \in Lists /\ Kept(s, r) /\ Once(r.list) /\ ToSet(r.list) = ToSet(ts)
             /\ Indexed(r, TRUE, KeyOf(k, inf))
  <1> DEFINE take == [x \in Lists \X Tracks |-> sorted_list_remove_track(x[1], x[2])]
             add == [x \in Lists \X Tracks |->
                       CHOOSE y \in sorted_list_add_track(x[1], x[2], inf, k, 0) : TRUE]
             u == Fold(take, s, s.list)
             v == [u EXCEPT !.tree = <<>>]
             r == Fold(add, v, ts)
  <1>1. u \in Lists /\ Kept(s, u) /\ u.list = <<>>
    BY AllTaken
  <1>2. Rebuilt(s, ts, inf, k) = r
    BY DEF Rebuilt
  <1> HIDE DEF u
  <1>3. v \in Lists /\ Kept(s, v) /\ v.list = <<>> /\ v.tree = <<>>
    <2>1. <<>> \in Seq(Tracks)
      OBVIOUS
    <2> QED BY <1>1, <2>1 DEF Lists, Kept
  <1> HIDE DEF v
  <1>4. /\ r \in Lists /\ Kept(v, r) /\ Once(r.list) /\ ToSet(r.list) = ToSet(ts)
        /\ Indexed(r, TRUE, KeyOf(k, inf))
    BY <1>3, AllPut
  <1> HIDE DEF r
  <1>5. Kept(s, r)
    BY <1>3, <1>4 DEF Kept
  <1> QED BY <1>2, <1>4, <1>5

(* editable_sort and editable_rand *)
LEMMA Reorders ==
  ASSUME NEW ord, NEW key, Whole(e, ord, key), NEW ts \in Seq(Tracks), Once(ts),
         ToSet(ts) = ToSet(e.list), NEW inf \in [Tracks -> Int], NEW k
  PROVE  LET r == Reordered(Rebuilt(e, ts, inf, k))
         IN  /\ Whole(r, TRUE, KeyOf(k, inf)) /\ ToSet(r.list) = ToSet(e.list)
             /\ r.win.nr_rows = e.win.nr_rows
             /\ owned /\ r.list # <<>> => OnScreen(r.win)
  <1> DEFINE s == Rebuilt(e, ts, inf, k)
             ky == KeyOf(k, inf)
             f == Following(s, e.list)
             c == Changed(f)
             r == Reordered(s)
  <1>1. /\ e \in Lists /\ Once(e.list) /\ Over(Len(e.list), e.win)
        /\ e.marked \subseteq ToSet(e.list)
        /\ e.nr_tracks = Len(e.list) /\ e.nr_marked = Cardinality(e.marked)
        /\ ~owned => e.win.top = 0 /\ e.win.sel = 0
    BY DEF Whole
  <1>2. e.list \in Seq(Tracks) /\ Len(e.list) \in Nat /\ DOMAIN e.list = 1 .. Len(e.list)
    BY <1>1, Parts
  <1>3. /\ s \in Lists /\ Kept(e, s) /\ Once(s.list) /\ ToSet(s.list) = ToSet(e.list)
        /\ Indexed(s, TRUE, ky)
    BY <1>1, Rebuilds
  <1> HIDE DEF s, ky
  <1>4. s.list \in Seq(Tracks) /\ Len(s.list) = Len(e.list)
    <2>1. s.list \in Seq(Tracks)
      BY <1>3, Parts
    <2>2. Cardinality(ToSet(s.list)) = Len(s.list) /\ Cardinality(ToSet(e.list)) = Len(e.list)
      BY <1>1, <1>2, <1>3, <2>1, OnceSize
    <2> QED BY <1>3, <2>1, <2>2
  <1>5. s.win = e.win
    BY <1>3 DEF Kept
  <1>6. /\ s.win.top # 0 => e.list[s.win.top] \in ToSet(s.list)
        /\ s.win.sel # 0 => e.list[s.win.sel] \in ToSet(s.list)
    <2>1. \A j \in 1 .. Len(e.list) : e.list[j] \in ToSet(s.list)
      BY <1>2, <1>3 DEF ToSet
    <2>2. s.win.top \in 0 .. Len(e.list) /\ s.win.sel \in 0 .. Len(e.list)
      BY <1>1, <1>5 DEF Over
    <2>3. s.win.top # 0 => s.win.top \in 1 .. Len(e.list)
      BY <2>2
    <2>4. s.win.sel # 0 => s.win.sel \in 1 .. Len(e.list)
      BY <2>2
    <2> QED BY <2>1, <2>3, <2>4
  <1>7. /\ f \in Lists /\ Over(Len(s.list), f.win) /\ f.win.nr_rows = s.win.nr_rows
        /\ f.win.top = Track(e.list, s.list, s.win.top)
        /\ f.win.sel = Track(e.list, s.list, s.win.sel)
        /\ f.list = s.list /\ f.tree = s.tree /\ f.nodes = s.nodes /\ f.ub = s.ub
        /\ f.marked = s.marked /\ f.nr_tracks = s.nr_tracks /\ f.nr_marked = s.nr_marked
    BY <1>1, <1>2, <1>3, <1>5, <1>6, Follows
  <1> HIDE DEF f
  <1>8. Whole(f, TRUE, ky)
    <2>1. Indexed(f, TRUE, ky)
      BY <1>3, <1>7 DEF Indexed, Shaped, Running
    <2>2. ~owned => f.win.top = 0 /\ f.win.sel = 0
      BY <1>1, <1>5, <1>7 DEF Track
    <2>3. f.marked \subseteq ToSet(f.list) /\ f.nr_tracks = Len(f.list) /\ f.nr_marked = Cardinality(f.marked)
      BY <1>1, <1>3, <1>4, <1>7 DEF Kept
    <2> QED BY <1>3, <1>7, <2>1, <2>2, <2>3 DEF Whole
  <1>9. /\ Whole(c, TRUE, ky) /\ c.list = f.list /\ c.win.nr_rows = f.win.nr_rows
    BY <1>8, IsChanged
  <1>10. r = IF owned THEN Windowed(c, window_goto_top(Len(s.list), c.win)) ELSE c
    BY DEF Reordered, Windowed, f, c
  <1> HIDE DEF c, r
  <1>11. c.list = s.list /\ c.win.nr_rows = e.win.nr_rows
    BY <1>5, <1>7, <1>9
  <1>12. CASE ~owned
    BY <1>3, <1>9, <1>10, <1>11, <1>12 DEF r, s, ky
  <1>13. CASE owned
    <2> DEFINE v == window_set_contents(Len(c.list), c.win)
    <2>1. Over(Len(c.list), c.win) /\ Len(c.list) \in Nat /\ c.list \in Seq(Tracks)
      BY <1>4, <1>9, <1>11 DEF Whole
    <2>2. /\ Over(Len(c.list), v) /\ v.nr_rows = c.win.nr_rows
          /\ Len(c.list) > 0 => OnScreen(v)
      BY <2>1, SetContents
    <2>3. r = Windowed(c, v)
      BY <1>10, <1>11, <1>13 DEF window_goto_top
    <2> HIDE DEF v
    <2>4. Whole(r, TRUE, ky) /\ r.list = c.list /\ r.win = v
      <3>1. Whole(c, TRUE, ky) /\ Over(Len(c.list), v) /\ (~owned => v.top = 0 /\ v.sel = 0)
        BY <1>9, <1>13, <2>2
      <3>2. LET y == Windowed(c, v)
            IN  Whole(y, TRUE, ky) /\ y.list = c.list /\ y.win = v /\ y.ub = c.ub
        BY <3>1, Shows
      <3> QED BY <2>3, <3>2
    <2>5. r.list # <<>> => Len(c.list) > 0
      BY <2>1, <2>4
    <2> QED BY <1>3, <1>11, <2>2, <2>4, <2>5 DEF r, s, ky
  <1> QED BY <1>12, <1>13

-----------------------------------------------------------------------------
(* Marks and moves. *)



(* move_item *)
LEMMA TakesOne ==
  ASSUME NEW s \in Lists, Once(s.list), Over(Len(s.list), s.win), NEW t \in ToSet(s.list), owned
  PROVE  LET r == Taken(s, t)
         IN  /\ r \in Lists /\ Over(Len(r.list), r.win) /\ r.win.nr_rows = s.win.nr_rows
             /\ Once(r.list) /\ ToSet(r.list) = ToSet(s.list) \ {t}
             /\ r.tree = s.tree /\ r.nodes = s.nodes /\ r.ub = s.ub
             /\ r.marked = s.marked /\ r.nr_tracks = s.nr_tracks /\ r.nr_marked = s.nr_marked
             /\ s.win.sel # 0 /\ r.list # <<>> => r.win.sel # 0
  <1> DEFINE v == Vanishes(s, t)
             i == Pos(s.list, t)
             k == Len(s.list)
             q == [v EXCEPT !.list = RemoveAt(@, Pos(@, t))]
             r == Following(q, s.list)
  <1>1. /\ v \in Lists /\ v.list = s.list /\ v.tree = s.tree /\ v.nodes = s.nodes /\ v.ub = s.ub
        /\ v.marked = s.marked /\ v.nr_tracks = s.nr_tracks /\ v.nr_marked = s.nr_marked
        /\ i \in 1 .. k
    BY Vanished
  <1>2. s.list \in Seq(Tracks) /\ k \in Nat
    BY Parts
  <1>3. RemoveAt(s.list, i) \in Seq(Tracks)
    BY <1>1, <1>2, TakenAt
  <1>4. Taken(s, t) = r
    BY <1>1 DEF Taken
  <1>5. q = [v EXCEPT !.list = RemoveAt(s.list, i)]
    BY <1>1
  <1> HIDE DEF q
  <1>6. /\ q \in Lists /\ q.list = RemoveAt(s.list, i) /\ q.win = v.win
        /\ q.tree = s.tree /\ q.nodes = s.nodes /\ q.ub = s.ub
        /\ q.marked = s.marked /\ q.nr_tracks = s.nr_tracks /\ q.nr_marked = s.nr_marked
    <2> DEFINE l == RemoveAt(s.list, i)
    <2>1. l \in Seq(Tracks) /\ q = [v EXCEPT !.list = l]
      BY <1>3, <1>5
    <2> HIDE DEF l, v
    <2> QED BY <1>1, <2>1 DEF Lists, l
  <1>7. /\ r \in Lists /\ Over(Len(r.list), r.win) /\ r.win.nr_rows = s.win.nr_rows
        /\ r.win.top = After(k, i, s.win.top) /\ r.win.sel = After(k, i, s.win.sel)
        /\ r.list = q.list /\ r.tree = q.tree /\ r.nodes = q.nodes /\ r.ub = q.ub
        /\ r.marked = q.marked /\ r.nr_tracks = q.nr_tracks /\ r.nr_marked = q.nr_marked
        /\ i \in 1 .. k /\ Len(r.list) = k - 1
        /\ Once(r.list) /\ ToSet(r.list) = ToSet(s.list) \ {t}
    BY <1>6, RowGone
  <1> HIDE DEF r
  <1>8. s.win.sel # 0 /\ r.list # <<>> => r.win.sel # 0
    <2> DEFINE a == s.win
               b == r.win
    <2>1. /\ Over(k, a) /\ Over(k - 1, b) /\ k \in Nat /\ i \in 1 .. k
          /\ b.top = After(k, i, a.top) /\ b.sel = After(k, i, a.sel) /\ b.nr_rows = a.nr_rows
      BY <1>2, <1>7
    <2>2. k = 1 => r.list = <<>>
      <3>1. r.list \in Seq(Tracks)
        BY <1>7, Parts
      <3> QED BY <1>7, <3>1
    <2> HIDE DEF k, i, a, b
    <2>3. a.sel # 0 /\ k # 1 => b.sel # 0
      BY <2>1, StaysOn
    <2> QED BY <2>2, <2>3 DEF a, b
  <1> QED BY <1>4, <1>6, <1>7, <1>8

(* With no sort keys, all tracks are one run. *)
LEMMA OneRun ==
  ASSUME NEW s \in Lists, s.list # <<>>, NEW inf, Indexed(s, TRUE, KeyOf("none", inf))
  PROVE  Len(s.tree) = 1
  <1> DEFINE k == Len(s.list)
             m == Len(s.tree)
             key == KeyOf("none", inf)
  <1>1. k \in Nat /\ m \in Nat /\ k # 0 /\ s.tree \in Seq(Tracks)
    <2>1. s.list \in Seq(Tracks)
      BY Parts
    <2> QED BY <2>1, Parts
  <1>2. PICK P : Shape(s.list, k, s.tree, m, P) /\ Runs(s.list, k, s.tree, m, P, key)
    BY DEF Indexed, Shaped, Running
  <1>3. m # 0
    <2>1. P[1] = 1 /\ P[m + 1] = k + 1
      BY <1>2 DEF Shape
    <2> QED BY <1>1, <2>1
  <1>4. ~(m >= 2)
    <2> SUFFICES ASSUME m >= 2 PROVE FALSE
      OBVIOUS
    <2>1. 1 \in 1 .. m /\ 2 \in 1 .. m
      BY <1>1
    <2>2. key[s.tree[1]] < key[s.tree[2]]
      BY <1>2, <2>1 DEF Runs
    <2>3. s.tree[1] \in Tracks /\ s.tree[2] \in Tracks
      BY <1>1, <2>1
    <2>4. key[s.tree[1]] = 0 /\ key[s.tree[2]] = 0
      BY <2>3 DEF KeyOf
    <2> HIDE DEF key
    <2> QED BY <2>2, <2>4
  <1>5. m = 1
    <2> HIDE DEF m
    <2> QED BY <1>1, <1>3, <1>4
  <1> QED BY <1>5

(* reset_tree *)
LEMMA Resets ==
  ASSUME NEW s \in Lists, s.list # <<>>, Len(s.tree) = 1, NEW inf, NEW ord,
         ToSet(s.tree) \subseteq s.nodes
  PROVE  LET r == reset_tree(s)
         IN  /\ r \in Lists /\ r.list = s.list /\ r.win = s.win /\ r.ub = s.ub
             /\ r.marked = s.marked /\ r.nr_tracks = s.nr_tracks /\ r.nr_marked = s.nr_marked
             /\ Indexed(r, ord, KeyOf("none", inf))
  <1> DEFINE l == s.list
             k == Len(l)
             tr == [s.tree EXCEPT ![1] = l[1]]
             nd == (s.nodes \cup {l[1]}) \ {s.tree[1]}
             key == KeyOf("none", inf)
             r == reset_tree(s)
  <1>1. l \in Seq(Tracks) /\ s.tree \in Seq(Tracks) /\ s.nodes \in SUBSET Tracks /\ s.ub \in BOOLEAN
    BY Parts
  <1>2. k \in Nat /\ k # 0 /\ DOMAIN s.tree = 1 .. 1 /\ l[1] \in Tracks
    BY <1>1
  <1>3. tr \in Seq(Tracks) /\ Len(tr) = 1 /\ tr[1] = l[1] /\ DOMAIN tr = 1 .. 1
    BY <1>1, <1>2
  <1>4. ASSUME NEW u \in Lists, u.list = l, Len(u.tree) = 1, u.tree[1] = l[1], l[1] \in u.nodes
        PROVE  Indexed(u, ord, key)
    <2> DEFINE P == [j \in 1 .. 2 |-> IF j = 1 THEN 1 ELSE k + 1]
    <2>1. P[1] = 1 /\ P[2] = k + 1
      OBVIOUS
    <2> HIDE DEF P, k
    <2>2. Shape(l, k, u.tree, 1, P)
      BY <1>2, <1>4, <2>1 DEF Shape
    <2>3. \A i \in 1 .. k : l[i] \in Tracks
      BY <1>1 DEF k
    <2>4. \A t \in Tracks : key[t] = 0
      BY DEF KeyOf
    <2> HIDE DEF key
    <2>5. Runs(l, k, u.tree, 1, P, key)
      BY <1>2, <1>4, <2>3, <2>4 DEF Runs
    <2>6. ToSet(u.tree) \subseteq u.nodes
      <3>1. u.tree \in Seq(Tracks)
        BY Parts
      <3>2. DOMAIN u.tree = 1 .. 1
        BY <1>4, <3>1
      <3> QED BY <1>4, <3>2 DEF ToSet
    <2> QED BY <1>4, <2>2, <2>5, <2>6 DEF Indexed, Shaped, Running, k
  <1>5. CASE s.tree[1] = l[1]
    <2>1. r = s
      BY <1>5 DEF reset_tree
    <2>2. l[1] \in s.nodes
      BY <1>2, <1>5 DEF ToSet
    <2>3. Indexed(s, ord, key)
      BY <1>4, <1>5, <2>2
    <2> QED BY <2>1, <2>3
  <1>6. CASE s.tree[1] # l[1]
    <2>1. r = [s EXCEPT !.tree = tr, !.nodes = nd]
      BY <1>6 DEF reset_tree
    <2>2. nd \in SUBSET Tracks /\ l[1] \in nd
      BY <1>1, <1>2, <1>6
    <2> HIDE DEF tr, nd, r
    <2>3. r = Relisted(s, l, tr, nd, s.ub)
      BY <2>1 DEF Relisted, Lists
    <2>4. /\ r \in Lists
          /\ r.list = l /\ r.tree = tr /\ r.nodes = nd /\ r.ub = s.ub
          /\ r.marked = s.marked /\ r.nr_tracks = s.nr_tracks
          /\ r.nr_marked = s.nr_marked /\ r.win = s.win
      BY <1>1, <1>3, <2>2, <2>3, Relists
    <2>5. Indexed(r, ord, key)
      BY <1>3, <1>4, <2>2, <2>4
    <2> QED BY <2>4, <2>5 DEF r
  <1> QED BY <1>5, <1>6

(* What taking tracks out with move_item does not touch. *)
Still(s, r) ==
  /\ r.tree = s.tree /\ r.nodes = s.nodes /\ r.ub = s.ub
  /\ r.marked = s.marked /\ r.nr_tracks = s.nr_tracks /\ r.nr_marked = s.nr_marked
  /\ r.win.nr_rows = s.win.nr_rows

LEMMA TakesAll ==
  ASSUME NEW s \in Lists, Once(s.list), Over(Len(s.list), s.win), s.win.sel # 0, owned,
         NEW ts \in Seq(Tracks), Once(ts), ToSet(ts) \subseteq ToSet(s.list)
  PROVE  LET f == [x \in Lists \X Tracks |-> Taken(x[1], x[2])]
             r == Fold(f, s, ts)
         IN  /\ r \in Lists /\ Once(r.list) /\ Over(Len(r.list), r.win) /\ Still(s, r)
             /\ r.list # <<>> => r.win.sel # 0
             /\ ToSet(r.list) = ToSet(s.list) \ ToSet(ts)
  <1> DEFINE f == [x \in Lists \X Tracks |-> Taken(x[1], x[2])]
             Ok == {x \in Lists : /\ Once(x.list) /\ Over(Len(x.list), x.win) /\ Still(s, x)
                                  /\ x.list # <<>> => x.win.sel # 0}
             r == Fold(f, s, ts)
  <1>1. s \in Ok
    BY DEF Still
  <1>2. ASSUME NEW x \in Ok, NEW t \in ToSet(x.list)
        PROVE  f[<<x, t>>] \in Ok /\ ToSet(f[<<x, t>>].list) = ToSet(x.list) \ {t}
    <2> DEFINE y == Taken(x, t)
    <2>1. /\ x \in Lists /\ Once(x.list) /\ Over(Len(x.list), x.win) /\ Still(s, x)
          /\ x.list # <<>> => x.win.sel # 0
      OBVIOUS
    <2>2. x.list \in Seq(Tracks) /\ ToSet(x.list) \subseteq Tracks /\ x.list # <<>>
      <3>1. x.list \in Seq(Tracks)
        BY <2>1, Parts
      <3>2. ToSet(x.list) \subseteq Tracks /\ (ToSet(x.list) = {} <=> Len(x.list) = 0)
        BY <3>1, ElementSet
      <3>3. Len(x.list) # 0
        BY <3>2
      <3> QED BY <3>1, <3>2, <3>3
    <2>3. f[<<x, t>>] = y
      BY <2>1, <2>2
    <2>4. /\ y \in Lists /\ Over(Len(y.list), y.win) /\ y.win.nr_rows = x.win.nr_rows
          /\ Once(y.list) /\ ToSet(y.list) = ToSet(x.list) \ {t}
          /\ y.tree = x.tree /\ y.nodes = x.nodes /\ y.ub = x.ub
          /\ y.marked = x.marked /\ y.nr_tracks = x.nr_tracks /\ y.nr_marked = x.nr_marked
          /\ x.win.sel # 0 /\ y.list # <<>> => y.win.sel # 0
      BY <2>1, TakesOne
    <2> HIDE DEF y, f
    <2>5. Still(s, y)
      BY <2>1, <2>4 DEF Still
    <2> QED BY <2>1, <2>2, <2>3, <2>4, <2>5
  <1> HIDE DEF Ok, f
  <1>3. Takes(f, Ok)
    BY <1>2 DEF Takes
  <1>4. r \in Ok /\ ToSet(r.list) = ToSet(s.list) \ ToSet(ts)
    BY <1>1, <1>3, TakenOut
  <1> HIDE DEF r
  <1> QED BY <1>4 DEF Ok, r, f

(* m is put together with l, after its first at elements. *)
LEMMA PutTogether ==
  ASSUME NEW l \in Seq(Tracks), Once(l), NEW m \in Seq(Tracks), Once(m),
         ToSet(l) \cap ToSet(m) = {}, NEW at \in 0 .. Len(l)
  PROVE  LET u == SubSeq(l, 1, at) \o m \o SubSeq(l, at + 1, Len(l))
         IN  /\ u \in Seq(Tracks) /\ Once(u) /\ ToSet(u) = ToSet(l) \cup ToSet(m)
             /\ Len(u) = Len(l) + Len(m)
  <1> DEFINE a == SubSeq(l, 1, at)
             b == SubSeq(l, at + 1, Len(l))
             k == Len(l)
             q == Len(m)
             u == a \o m \o b
             from(x) == IF x <= at THEN l[x] ELSE IF x <= at + q THEN m[x - at] ELSE l[x - q]
  <1>1. /\ k \in Nat /\ q \in Nat /\ DOMAIN l = 1 .. k /\ DOMAIN m = 1 .. q /\ at \in 0 .. k
        /\ m \in Seq(Tracks)
    OBVIOUS
  <1>2. a \in Seq(Tracks) /\ Len(a) = at /\ \A x \in 1 .. at : a[x] = l[x]
    BY SMT
  <1>3. b \in Seq(Tracks) /\ Len(b) = k - at /\ \A x \in 1 .. k - at : b[x] = l[x + at]
    BY SMT
  <1> HIDE DEF a, b
  <1> DEFINE c == a \o m
  <1>4. c \in Seq(Tracks) /\ Len(c) = at + q
    BY <1>1, <1>2
  <1>5. /\ \A x \in 1 .. at : c[x] = l[x]
        /\ \A x \in at + 1 .. at + q : c[x] = m[x - at]
    BY <1>1, <1>2
  <1>6. u = c \o b
    OBVIOUS
  <1> HIDE DEF c, u, k, q
  <1>7. u \in Seq(Tracks) /\ Len(u) = k + q /\ DOMAIN u = 1 .. k + q
    <2>1. u \in Seq(Tracks) /\ Len(u) = Len(c) + Len(b)
      BY <1>3, <1>4, <1>6, Concatenated
    <2>2. Len(c) + Len(b) = k + q
      BY <1>1, <1>3, <1>4
    <2> QED BY <2>1, <2>2
  <1>8. ASSUME NEW x \in 1 .. k + q PROVE u[x] = from(x)
    <2>1. x <= Len(c) => u[x] = c[x]
      <3>1. x <= Len(c) => x \in 1 .. Len(c)
        BY <1>1, <1>4
      <3> QED BY <1>3, <1>4, <1>6, <3>1, Concatenated
    <2>2. CASE x <= at
      BY <1>1, <1>4, <1>5, <2>1, <2>2
    <2>3. CASE at < x /\ x <= at + q
      BY <1>1, <1>4, <1>5, <2>1, <2>3
    <2>4. CASE x > at + q
      <3> DEFINE y == x - (at + q)
      <3>1. y \in 1 .. k - at
        BY <1>1, <2>4
      <3>2. u[x] = b[y]
        <4>1. y \in 1 .. Len(b) /\ x = Len(c) + y
          BY <1>1, <1>3, <1>4, <3>1
        <4> HIDE DEF y
        <4> QED BY <1>3, <1>4, <1>6, <4>1, Concatenated
      <3>3. y + at = x - q
        BY <1>1
      <3> HIDE DEF y
      <3>4. u[x] = l[x - q]
        BY <1>3, <3>1, <3>2, <3>3
      <3> QED BY <1>1, <2>4, <3>4
    <2> QED BY <1>1, <2>2, <2>3, <2>4
  <1>9. \A x \in 1 .. k, y \in 1 .. q : l[x] # m[y]
    BY <1>1 DEF ToSet
  <1>10. /\ \A x, y \in 1 .. k : l[x] = l[y] => x = y
         /\ \A x, y \in 1 .. q : m[x] = m[y] => x = y
    BY DEF Once, k, q
  <1>11. ASSUME NEW x \in 1 .. k + q, NEW y \in 1 .. k + q, u[x] = u[y] PROVE x = y
    <2>1. from(x) = from(y)
      BY <1>8, <1>11
    <2>2. /\ x <= at => x \in 1 .. k
          /\ at < x /\ x <= at + q => x - at \in 1 .. q
          /\ at + q < x => x - q \in 1 .. k /\ x - q > at
      BY <1>1
    <2>3. /\ y <= at => y \in 1 .. k
          /\ at < y /\ y <= at + q => y - at \in 1 .. q
          /\ at + q < y => y - q \in 1 .. k /\ y - q > at
      BY <1>1
    <2> QED BY <1>1, <1>9, <1>10, <2>1, <2>2, <2>3
  <1>12. Once(u)
    BY <1>7, <1>11 DEF Once
  <1>13. ToSet(u) \subseteq ToSet(l) \cup ToSet(m)
    <2> SUFFICES ASSUME NEW x \in 1 .. k + q PROVE u[x] \in ToSet(l) \cup ToSet(m)
      BY <1>7 DEF ToSet
    <2>1. /\ x <= at => x \in 1 .. k
          /\ at < x /\ x <= at + q => x - at \in 1 .. q
          /\ at + q < x => x - q \in 1 .. k
      BY <1>1
    <2>2. /\ \A y \in 1 .. k : l[y] \in ToSet(l)
          /\ \A y \in 1 .. q : m[y] \in ToSet(m)
      BY <1>1 DEF ToSet
    <2> QED BY <1>1, <1>8, <2>1, <2>2
  <1>14. ToSet(l) \subseteq ToSet(u)
    <2> SUFFICES ASSUME NEW y \in 1 .. k PROVE l[y] \in ToSet(u)
      BY <1>1 DEF ToSet
    <2>1. CASE y <= at
      <3>1. y \in 1 .. k + q
        BY <1>1
      <3>2. u[y] = l[y]
        BY <1>8, <2>1, <3>1
      <3> QED BY <1>7, <3>1, <3>2 DEF ToSet
    <2>2. CASE y > at
      <3> DEFINE x == y + q
      <3>1. x \in 1 .. k + q /\ x > at + q /\ x - q = y /\ x > at
        BY <1>1, <2>2
      <3> HIDE DEF x
      <3>2. u[x] = l[y]
        BY <1>1, <1>8, <3>1
      <3> QED BY <1>7, <3>1, <3>2 DEF ToSet
    <2> QED BY <1>1, <2>1, <2>2
  <1>15. ToSet(m) \subseteq ToSet(u)
    <2> SUFFICES ASSUME NEW y \in 1 .. q PROVE m[y] \in ToSet(u)
      BY <1>1 DEF ToSet
    <2> DEFINE x == y + at
    <2>1. x \in 1 .. k + q /\ x > at /\ x <= at + q /\ x - at = y
      BY <1>1
    <2> HIDE DEF x
    <2>2. u[x] = m[y]
      BY <1>1, <1>8, <2>1
    <2> QED BY <1>7, <2>1, <2>2 DEF ToSet
  <1> QED BY <1>7, <1>12, <1>13, <1>14, <1>15 DEF u, a, b, k, q

(* move_sel: the tracks that are left, and the moved ones, one list again. *)
LEMMA PutBack ==
  ASSUME NEW l \in Seq(Tracks), Once(l), NEW m \in Seq(Tracks), Once(m),
         ToSet(m) \subseteq ToSet(l), NEW rest \in Seq(Tracks), Once(rest),
         ToSet(rest) = ToSet(l) \ ToSet(m), NEW at \in 0 .. Len(rest)
  PROVE  LET u == SubSeq(rest, 1, at) \o m \o SubSeq(rest, at + 1, Len(rest))
         IN  /\ u \in Seq(Tracks) /\ Once(u) /\ ToSet(u) = ToSet(l) /\ Len(u) = Len(l)
             /\ ToSet(rest) \subseteq ToSet(u)
             /\ ToSet(m) # {} => at + 1 \in 1 .. Len(u)
  <1> DEFINE u == SubSeq(rest, 1, at) \o m \o SubSeq(rest, at + 1, Len(rest))
  <1>1. /\ u \in Seq(Tracks) /\ Once(u) /\ ToSet(u) = ToSet(rest) \cup ToSet(m)
        /\ Len(u) = Len(rest) + Len(m)
    <2>1. ToSet(rest) \cap ToSet(m) = {}
      OBVIOUS
    <2> QED BY <2>1, PutTogether
  <1> HIDE DEF u
  <1>2. ToSet(u) = ToSet(l)
    BY <1>1
  <1>3. Len(u) = Len(l)
    BY <1>1, <1>2, OnceSize
  <1>4. ToSet(m) # {} => at + 1 \in 1 .. Len(u)
    <2>1. Len(m) \in Nat /\ Len(rest) \in Nat /\ at \in 0 .. Len(rest)
      OBVIOUS
    <2>2. ToSet(m) # {} => Len(m) # 0
      BY ElementSet
    <2> DEFINE a == Len(m)
               b == Len(rest)
    <2> HIDE DEF a, b
    <2>3. a # 0 => at + 1 \in 1 .. b + a
      BY <2>1 DEF a, b
    <2> QED BY <1>1, <2>2, <2>3 DEF a, b
  <1> QED BY <1>1, <1>2, <1>3, <1>4 DEF u

(* editable_move_after and editable_move_before *)
LEMMA MovesSel ==
  ASSUME NEW inf, Whole(e, TRUE, KeyOf("none", inf)), ~e.ub, owned, e.win.sel # 0,
         NEW i \in 0 .. Len(e.list), i # 0 => e.list[i] \notin Chosen(e), NEW off \in Nat
  PROVE  LET r == move_sel(i, off)
         IN  /\ Whole(r, TRUE, KeyOf("none", inf)) /\ r.win.nr_rows = e.win.nr_rows
             /\ OnScreen(r.win)
  <1> DEFINE key == KeyOf("none", inf)
             f == [x \in Lists \X Tracks |-> Taken(x[1], x[2])]
             moved == Select(e.list, Chosen(e))
             rest == Fold(f, e, moved)
             at == IF i = 0 THEN 0 ELSE Pos(rest.list, e.list[i])
             joined == SubSeq(rest.list, 1, at) \o moved \o SubSeq(rest.list, at + 1, Len(rest.list))
             g == [rest EXCEPT !.list = joined]
             h == Following(g, rest.list)
             t == reset_tree(h)
             s == Changed(t)
             v == window_set_sel(Len(joined), s.win, off, at + 1)
  <1>1. /\ e \in Lists /\ Once(e.list) /\ Over(Len(e.list), e.win)
        /\ e.marked \subseteq ToSet(e.list)
        /\ e.nr_tracks = Len(e.list) /\ e.nr_marked = Cardinality(e.marked)
        /\ Indexed(e, TRUE, key)
    BY DEF Whole
  <1>2. e.list \in Seq(Tracks) /\ Len(e.list) \in Nat /\ DOMAIN e.list = 1 .. Len(e.list)
    BY <1>1, Parts
  <1>3. e.win.sel \in 1 .. Len(e.list) /\ e.list # <<>>
    <2>1. e.win.sel \in 0 .. Len(e.list)
      BY <1>1 DEF Over
    <2>2. e.win.sel \in 1 .. Len(e.list)
      BY <1>2, <2>1
    <2> QED BY <1>2, <2>2
  <1>4. /\ moved \in Seq(Tracks) /\ Once(moved) /\ ToSet(moved) = ToSet(e.list) \cap Chosen(e)
    BY <1>1, <1>2, SelectedSet
  <1>5. ToSet(moved) # {}
    <2>1. CASE e.nr_marked > 0
      <3>1. e.marked # {}
        BY <1>1, <2>1, FS_EmptySet
      <3> QED BY <1>1, <1>4, <2>1, <3>1 DEF Chosen
    <2>2. CASE ~(e.nr_marked > 0)
      <3>1. e.list[e.win.sel] \in ToSet(e.list)
        BY <1>2, <1>3 DEF ToSet
      <3> QED BY <1>4, <2>2, <3>1 DEF Chosen, Selected
    <2> QED BY <2>1, <2>2
  <1> HIDE DEF moved, key
  <1>6. /\ rest \in Lists /\ Once(rest.list) /\ Over(Len(rest.list), rest.win) /\ Still(e, rest)
        /\ rest.list # <<>> => rest.win.sel # 0
        /\ ToSet(rest.list) = ToSet(e.list) \ ToSet(moved)
    <2>1. ToSet(moved) \subseteq ToSet(e.list)
      BY <1>4
    <2> QED BY <1>1, <1>4, <2>1, TakesAll
  <1> HIDE DEF rest, f
  <1>7. rest.list \in Seq(Tracks) /\ Len(rest.list) \in Nat /\ DOMAIN rest.list = 1 .. Len(rest.list)
    BY <1>6, Parts
  <1>8. at \in 0 .. Len(rest.list)
    <2>1. CASE i = 0
      BY <1>7, <2>1
    <2>2. CASE i # 0
      <3>1. i \in 1 .. Len(e.list)
        BY <1>2, <2>2
      <3>2. e.list[i] \in ToSet(e.list)
        BY <1>2, <3>1 DEF ToSet
      <3>3. e.list[i] \in ToSet(rest.list)
        BY <1>4, <1>6, <2>2, <3>2
      <3>4. PICK j \in 1 .. Len(rest.list) : rest.list[j] = e.list[i]
        BY <1>7, <3>3 DEF ToSet
      <3>5. at \in 1 .. Len(rest.list)
        BY <2>2, <3>4 DEF Pos
      <3> HIDE DEF at
      <3> QED BY <1>7, <3>5
    <2> QED BY <2>1, <2>2
  <1> HIDE DEF at
  <1>9. /\ joined \in Seq(Tracks) /\ Once(joined) /\ ToSet(joined) = ToSet(e.list)
        /\ Len(joined) = Len(e.list)
        /\ ToSet(rest.list) \subseteq ToSet(joined)
        /\ at + 1 \in 1 .. Len(joined)
    <2> DEFINE l == rest.list
    <2>1. /\ l \in Seq(Tracks) /\ Once(l) /\ ToSet(l) = ToSet(e.list) \ ToSet(moved)
          /\ at \in 0 .. Len(l) /\ ToSet(moved) \subseteq ToSet(e.list)
      BY <1>4, <1>6, <1>7, <1>8
    <2> DEFINE u == SubSeq(l, 1, at) \o moved \o SubSeq(l, at + 1, Len(l))
    <2>2. u = joined
      OBVIOUS
    <2> HIDE DEF l
    <2>3. /\ u \in Seq(Tracks) /\ Once(u) /\ ToSet(u) = ToSet(e.list) /\ Len(u) = Len(e.list)
          /\ ToSet(l) \subseteq ToSet(u)
          /\ ToSet(moved) # {} => at + 1 \in 1 .. Len(u)
      BY <1>1, <1>2, <1>4, <2>1, PutBack
    <2> HIDE DEF u, joined
    <2> QED BY <1>5, <2>2, <2>3 DEF l
  <1> HIDE DEF joined
  <1>10. /\ g \in Lists /\ g.list = joined /\ Still(e, g) /\ g.win = rest.win
    BY <1>6, <1>9 DEF Lists, Still
  <1> HIDE DEF g
  <1>11. /\ Over(Len(rest.list), g.win)
         /\ g.win.top # 0 => rest.list[g.win.top] \in ToSet(g.list)
         /\ g.win.sel # 0 => rest.list[g.win.sel] \in ToSet(g.list)
    <2>1. \A j \in 1 .. Len(rest.list) : rest.list[j] \in ToSet(g.list)
      <3>1. \A j \in 1 .. Len(rest.list) : rest.list[j] \in ToSet(rest.list)
        BY <1>7 DEF ToSet
      <3> QED BY <1>9, <1>10, <3>1
    <2>2. g.win.top \in 0 .. Len(rest.list) /\ g.win.sel \in 0 .. Len(rest.list)
      BY <1>6, <1>10 DEF Over
    <2>3. g.win.top # 0 => g.win.top \in 1 .. Len(rest.list)
      BY <2>2
    <2>4. g.win.sel # 0 => g.win.sel \in 1 .. Len(rest.list)
      BY <2>2
    <2> QED BY <1>6, <1>10, <2>1, <2>3, <2>4
  <1>12. /\ h \in Lists /\ Over(Len(g.list), h.win) /\ h.win.nr_rows = g.win.nr_rows
         /\ h.win.top = Track(rest.list, g.list, g.win.top)
         /\ h.win.sel = Track(rest.list, g.list, g.win.sel)
         /\ h.list = g.list /\ h.tree = g.tree /\ h.nodes = g.nodes /\ h.ub = g.ub
         /\ h.marked = g.marked /\ h.nr_tracks = g.nr_tracks /\ h.nr_marked = g.nr_marked
    BY <1>7, <1>10, <1>11, Follows
  <1>13. h.win.top = 0 \/ h.win.sel # 0
    <2>1. CASE rest.list = <<>>
      <3>1. Len(rest.list) = 0
        BY <2>1
      <3>2. g.win.top \in 0 .. 0
        BY <1>11, <3>1 DEF Over
      <3>3. g.win.top = 0
        BY <3>2
      <3> QED BY <1>12, <3>3 DEF Track
    <2>2. CASE rest.list # <<>>
      <3> DEFINE a == g.win.sel
                 l == rest.list
                 m == g.list
      <3>1. /\ l \in Seq(Tracks) /\ m \in Seq(Tracks) /\ a \in 0 .. Len(l)
            /\ a # 0 => l[a] \in ToSet(m)
        BY <1>7, <1>9, <1>10, <1>11 DEF Over
      <3>2. a # 0
        BY <1>6, <1>10, <2>2
      <3> HIDE DEF a, l, m
      <3>3. Track(l, m, a) # 0
        BY <3>1, <3>2, Tracked
      <3> QED BY <1>12, <3>3 DEF a, l, m
    <2> QED BY <2>1, <2>2
  <1> HIDE DEF h
  <1>14. /\ h.list = joined /\ h.list # <<>> /\ Len(h.tree) = 1 /\ ToSet(h.tree) \subseteq h.nodes
         /\ h.ub = e.ub /\ h.marked = e.marked /\ h.nr_tracks = e.nr_tracks
         /\ h.nr_marked = e.nr_marked /\ h.win.nr_rows = e.win.nr_rows
    <2>1. Len(e.tree) = 1
      BY <1>1, <1>3, OneRun DEF key
    <2>2. h.list # <<>>
      <3>1. Len(joined) # 0
        BY <1>2, <1>3, <1>9
      <3> QED BY <1>10, <1>12, <3>1
    <2> QED BY <1>1, <1>10, <1>12, <2>1, <2>2 DEF Still, Indexed
  <1>15. /\ t \in Lists /\ t.list = h.list /\ t.win = h.win /\ t.ub = h.ub
         /\ t.marked = h.marked /\ t.nr_tracks = h.nr_tracks /\ t.nr_marked = h.nr_marked
         /\ Indexed(t, TRUE, key)
    BY <1>12, <1>14, Resets DEF key
  <1> HIDE DEF t
  <1>16. Whole(t, TRUE, key)
    <2>1. t.marked \subseteq ToSet(t.list) /\ t.nr_tracks = Len(t.list)
          /\ t.nr_marked = Cardinality(t.marked) /\ Once(t.list) /\ Over(Len(t.list), t.win)
      BY <1>1, <1>9, <1>10, <1>12, <1>14, <1>15
    <2> QED BY <1>15, <2>1 DEF Whole
  <1>17. /\ Whole(s, TRUE, key) /\ s.list = t.list /\ s.win.nr_rows = t.win.nr_rows
         /\ s.ub = t.ub
         /\ owned /\ s.list # <<>> /\ (t.win.top = 0 \/ t.win.sel # 0) => OnScreen(s.win)
    BY <1>16, IsChanged
  <1> HIDE DEF s
  <1>18. OnScreen(s.win) /\ s.list = joined /\ Over(Len(joined), s.win) /\ s.win.nr_rows = e.win.nr_rows
    BY <1>13, <1>14, <1>15, <1>17 DEF Whole
  <1>19. Moves(Len(joined), s.win, v)
    <2>1. Len(joined) \in Nat
      BY <1>9
    <2> QED BY <1>9, <1>18, <2>1, SetSel
  <1> HIDE DEF v
  <1>20. Over(Len(s.list), v) /\ OnScreen(v) /\ v.nr_rows = e.win.nr_rows
    BY <1>18, <1>19 DEF Moves
  <1>21. LET r == Windowed(s, v)
         IN  Whole(r, TRUE, key) /\ r.list = s.list /\ r.win = v /\ r.ub = s.ub
    BY <1>17, <1>20, Shows
  <1>22. move_sel(i, off) = Windowed(s, v)
    BY DEF move_sel, InOrder, Windowed, moved, f, rest, at, joined, g, h, t, s, v
  <1> QED BY <1>20, <1>21, <1>22 DEF key

(* find_insert_after_point and find_insert_before_point end at the head or *)
(* at a track that is not moved itself.                                    *)
LEMMA UnmarkedRow ==
  ASSUME NEW i \in Nat
  PROVE  Unmarked(i) = 0 \/ (Unmarked(i) \in 1 .. i /\ e.list[Unmarked(i)] \notin e.marked)
  <1> DEFINE up == {j \in 1 .. i : e.list[j] \notin e.marked}
  <1>1. CASE up = {}
    BY <1>1 DEF Unmarked
  <1>2. CASE up # {}
    <2> DEFINE S == {i - j : j \in up}
    <2>1. PICK j \in up : TRUE
      BY <1>2
    <2>2. S \subseteq Nat /\ i - j \in S
      OBVIOUS
    <2> HIDE DEF S
    <2>3. PICK y \in S : \A z \in S : y <= z
      BY <2>2, Smallest
    <2>4. PICK x \in up : y = i - x
      BY <2>3 DEF S
    <2>5. \A h \in up : h <= x
      <3> SUFFICES ASSUME NEW h \in up PROVE h <= x
        OBVIOUS
      <3>1. i - h \in S
        BY DEF S
      <3>2. i - x <= i - h
        BY <2>3, <2>4, <3>1
      <3> QED BY <3>2
    <2>6. Unmarked(i) = CHOOSE q \in up : \A h \in up : h <= q
      BY <1>2 DEF Unmarked
    <2> HIDE DEF up
    <2>7. Unmarked(i) \in up
      BY <2>4, <2>5, <2>6
    <2> QED BY <2>7 DEF up
  <1> QED BY <1>1, <1>2

LEMMA InsertPoints ==
  ASSUME NEW ord, NEW key, Whole(e, ord, key), e.win.sel # 0, e.nr_tracks > 1
  PROVE  /\ LET i == find_insert_after_point(e.win.sel)
            IN  i \in 0 .. Len(e.list) /\ (i # 0 => e.list[i] \notin Chosen(e))
         /\ LET i == find_insert_before_point(e.win.sel)
            IN  i \in 0 .. Len(e.list) /\ (i # 0 => e.list[i] \notin Chosen(e))
  <1> DEFINE k == Len(e.list)
             x == e.win.sel
             q == e.nr_marked
             a == find_insert_after_point(x)
             b == find_insert_before_point(x)
  <1>1. /\ k \in Nat /\ x \in 1 .. k /\ k > 1 /\ Once(e.list) /\ q \in Nat
    <2>1. /\ e \in Lists /\ Once(e.list) /\ x \in 0 .. k /\ e.nr_tracks = k
          /\ e.marked \subseteq ToSet(e.list) /\ e.nr_marked = Cardinality(e.marked)
      BY DEF Whole, Over
    <2>2. e.list \in Seq(Tracks) /\ k \in Nat
      BY <2>1, Parts
    <2>3. IsFiniteSet(e.marked)
      BY <2>1, <2>2, ElementSet, FS_Subset
    <2>4. q \in Nat
      BY <2>1, <2>3, FS_CardinalityType
    <2> HIDE DEF k
    <2> QED BY <2>1, <2>2, <2>4
  <1>2. CASE q = 0
    <2>1. Chosen(e) = {e.list[x]}
      BY <1>2, <1>1 DEF Chosen, Selected
    <2>2. a = Forward(k, x, 1) /\ b = Backward(k, x, 2)
      BY <1>2 DEF find_insert_after_point, find_insert_before_point
    <2> HIDE DEF a, b, k, x, q
    <2>3. a \in 0 .. k /\ b \in 0 .. k
      BY <1>1, <2>2, StepForward, StepBackward
    <2>4. a # x
      <3>1. x + 1 <= k => Forward(k, x, 1) = x + 1
        BY <1>1, StepForward
      <3>2. x + 1 = k + 1 => Forward(k, x, 1) = 0
        BY <1>1, StepForward
      <3> QED BY <1>1, <2>2, <3>1, <3>2
    <2>5. b # x
      <3>1. 2 <= x => Backward(k, x, 2) = x - 2
        BY <1>1, StepBackward
      <3>2. x = 1 => Backward(k, x, 2) = k
        <4> SUFFICES ASSUME x = 1 PROVE Backward(k, x, 2) = k
          OBVIOUS
        <4>1. Backward(k, x, 2) = (-1) % (k + 1)
          BY DEF Backward
        <4>2. k + 1 \in Nat \ {0} /\ -1 \in Int /\ -(k + 1) <= -1 /\ -1 < 0
          BY <1>1
        <4>3. (-1) % (k + 1) = (-1) + (k + 1)
          BY <4>2, Around
        <4> QED BY <1>1, <4>1, <4>3
      <3> QED BY <1>1, <2>2, <3>1, <3>2
    <2>6. \A i \in 1 .. k : i # x => e.list[i] # e.list[x]
      BY <1>1 DEF Once, k
    <2>7. \A i \in 0 .. k : i # 0 /\ i # x => e.list[i] \notin Chosen(e)
      BY <2>1, <2>6, <1>1
    <2> QED BY <2>3, <2>4, <2>5, <2>7 DEF a, b, x, k
  <1>3. CASE q # 0
    <2>1. Chosen(e) = e.marked
      BY <1>1, <1>3 DEF Chosen
    <2>2. a = Unmarked(x) /\ b = Unmarked(x - 1)
      BY <1>3 DEF find_insert_after_point, find_insert_before_point
    <2> HIDE DEF a, b, k, x, q
    <2>3. x \in Nat /\ x - 1 \in Nat
      BY <1>1
    <2>4. /\ a = 0 \/ (a \in 1 .. x /\ e.list[a] \notin e.marked)
          /\ b = 0 \/ (b \in 1 .. x - 1 /\ e.list[b] \notin e.marked)
      BY <2>2, <2>3, UnmarkedRow
    <2>5. a \in 0 .. k /\ b \in 0 .. k
      BY <1>1, <2>4
    <2> QED BY <2>1, <2>4, <2>5 DEF a, b, x, k
  <1> QED BY <1>2, <1>3

Marked(s, m, c) == [s EXCEPT !.marked = m, !.nr_marked = c]

LEMMA Marks ==
  ASSUME NEW s, NEW ord, NEW key, Whole(s, ord, key), NEW m \in SUBSET ToSet(s.list),
         NEW c, c = Cardinality(m)
  PROVE  LET r == Marked(s, m, c)
         IN  Whole(r, ord, key) /\ r.list = s.list /\ r.win = s.win /\ r.ub = s.ub
  <1> DEFINE r == Marked(s, m, c)
  <1>1. s \in Lists /\ s.list \in Seq(Tracks)
    BY Parts DEF Whole
  <1>2. m \in SUBSET Tracks /\ c \in Int
    <2>1. IsFiniteSet(m) /\ m \in SUBSET Tracks
      BY <1>1, ElementSet, FS_Subset
    <2> QED BY <2>1, FS_CardinalityType
  <1>3. /\ r \in Lists /\ r.marked = m /\ r.nr_marked = c
        /\ r.list = s.list /\ r.tree = s.tree /\ r.nodes = s.nodes /\ r.ub = s.ub
        /\ r.nr_tracks = s.nr_tracks /\ r.win = s.win
    BY <1>1, <1>2 DEF Lists, Marked
  <1> HIDE DEF r
  <1>4. Indexed(s, ord, key) => Indexed(r, ord, key)
    BY <1>3 DEF Indexed, Shaped, Running
  <1>5. Whole(r, ord, key)
    BY <1>3, <1>4 DEF Whole
  <1> QED BY <1>3, <1>5 DEF r

(* Keys that agree on the tracks of the list. *)
LEMMA Rekeyed ==
  ASSUME NEW s, NEW ord, NEW key, Whole(s, ord, key), NEW key2,
         \A t \in ToSet(s.list) : key2[t] = key[t]
  PROVE  Whole(s, ord, key2)
  <1> SUFFICES ASSUME Indexed(s, ord, key) PROVE Indexed(s, ord, key2)
    BY DEF Whole
  <1>1. s \in Lists /\ s.list \in Seq(Tracks) /\ s.tree \in Seq(Tracks)
    BY Parts DEF Whole
  <1>2. ToSet(s.tree) \subseteq ToSet(s.list)
    BY <1>1, TreeInList
  <1>3. /\ \A i \in 1 .. Len(s.list) : key2[s.list[i]] = key[s.list[i]]
        /\ \A j \in 1 .. Len(s.tree) : key2[s.tree[j]] = key[s.tree[j]]
    <2>1. DOMAIN s.list = 1 .. Len(s.list) /\ DOMAIN s.tree = 1 .. Len(s.tree)
      BY <1>1
    <2>2. /\ \A i \in 1 .. Len(s.list) : s.list[i] \in ToSet(s.list)
          /\ \A j \in 1 .. Len(s.tree) : s.tree[j] \in ToSet(s.tree)
      BY <2>1 DEF ToSet
    <2> QED BY <1>2, <2>2
  <1>4. ASSUME NEW P, Running(s, P, key) PROVE Running(s, P, key2)
    BY <1>3, <1>4 DEF Running, Runs
  <1> QED BY <1>4 DEF Indexed

LEMMA Untidy ==
  ASSUME NEW s, NEW ord, NEW key, Whole(s, ord, key), NEW key2
  PROVE  Whole(s, FALSE, key2)
  BY DEF Whole, Indexed

(* A list of one track is in any order. *)
LEMMA Short ==
  ASSUME NEW s, NEW ord, NEW key, Whole(s, ord, key), s.nr_tracks <= 1, NEW key2
  PROVE  Whole(s, TRUE, key2)
  <1> SUFFICES ASSUME Indexed(s, ord, key) PROVE Indexed(s, TRUE, key2)
    BY DEF Whole
  <1> DEFINE k == Len(s.list)
             m == Len(s.tree)
             l == s.list
             tr == s.tree
  <1>1. k \in Nat /\ m \in Nat /\ k <= 1
    BY Parts DEF Whole
  <1>2. PICK P : Shape(l, k, tr, m, P)
    BY DEF Indexed, Shaped
  <1> SUFFICES Runs(l, k, tr, m, P, key2)
    BY <1>2 DEF Indexed, Shaped, Running
  <1> HIDE DEF k, m, l, tr
  <1>3. /\ P[1] = 1 /\ P[m + 1] = k + 1
        /\ \A j \in 1 .. m + 1 : P[j] \in 1 .. k + 1
        /\ \A i, j \in 1 .. m + 1 : i < j => P[i] < P[j]
        /\ \A j \in 1 .. m : tr[j] = l[P[j]]
    BY <1>2 DEF Shape
  <1>4. ~(m >= 2)
    <2> SUFFICES ASSUME m >= 2 PROVE FALSE
      OBVIOUS
    <2>1. 1 \in 1 .. m + 1 /\ 2 \in 1 .. m + 1 /\ m + 1 \in 1 .. m + 1 /\ 2 < m + 1
      BY <1>1
    <2>2. P[1] < P[2] /\ P[2] < P[m + 1] /\ P[2] \in 1 .. k + 1
      BY <1>3, <2>1
    <2> QED BY <1>1, <1>3, <2>2
  <1>5. CASE m = 0
    BY <1>5 DEF Runs
  <1>6. CASE m = 1
    <2>1. tr[1] = l[1]
      BY <1>3, <1>6
    <2>2. \A i \in 1 .. k : i = 1
      BY <1>1
    <2>3. \A j \in 1 .. m : j = 1
      BY <1>6
    <2>4. \A i, j \in 1 .. m : ~(i < j)
      BY <2>3
    <2> QED BY <2>1, <2>2, <2>3, <2>4 DEF Runs
  <1> QED BY <1>1, <1>4, <1>5, <1>6

-----------------------------------------------------------------------------
(* The invariant. *)

(* tidy and the keys say which order the list is in: with no keys all      *)
(* tracks are equal, and nothing can disturb their order.                  *)
EInv ==
  /\ Whole(e, tidy, KeyOf(keys, info))
  /\ e.win.nr_rows \in Heights
  /\ info \in [Tracks -> Infos] /\ keys \in {"none", "info"}
  /\ owned \in BOOLEAN /\ tidy \in BOOLEAN /\ overshot \in BOOLEAN
  /\ keys = "none" => tidy
  /\ SelectionVisible

LEMMA Known ==
  ASSUME EInv
  PROVE  /\ e \in Lists /\ Once(e.list) /\ Over(Len(e.list), e.win)
         /\ e.list \in Seq(Tracks) /\ Len(e.list) \in Nat /\ DOMAIN e.list = 1 .. Len(e.list)
         /\ e.nr_tracks = Len(e.list)
         /\ info \in [Tracks -> Int]
         /\ owned /\ e.list # <<>> /\ ~overshot => OnScreen(e.win)
         /\ ~owned => e.win.top = 0 /\ e.win.sel = 0
         /\ (Len(e.list) > 0 <=> e.list # <<>>)
         /\ (Len(e.list) = 0 => e.win.top = 0 /\ e.win.sel = 0)
  <1>1. e \in Lists /\ Once(e.list) /\ Over(Len(e.list), e.win) /\ e.nr_tracks = Len(e.list)
        /\ (~owned => e.win.top = 0 /\ e.win.sel = 0)
    BY DEF EInv, Whole
  <1>2. e.list \in Seq(Tracks)
    BY <1>1, Parts
  <1>3. /\ Len(e.list) \in Nat /\ DOMAIN e.list = 1 .. Len(e.list)
        /\ (Len(e.list) > 0 <=> e.list # <<>>)
    BY <1>2
  <1>4. info \in [Tracks -> Int]
    <2>1. info \in [Tracks -> Infos] /\ Infos \subseteq Int
      BY InfosAssumption DEF EInv
    <2> QED BY <2>1
  <1>5. owned /\ e.list # <<>> /\ ~overshot => OnScreen(e.win)
    BY <1>3 DEF EInv, SelectionVisible, OnScreen, n, w
  <1>6. Len(e.list) = 0 => e.win.top = 0 /\ e.win.sel = 0
    BY <1>1 DEF Over
  <1> QED BY <1>1, <1>2, <1>3, <1>4, <1>5, <1>6

(* A step is known by what it makes of the list. *)
LEMMA Keeps ==
  ASSUME NEW r, e' = r, owned' = owned, owned \in BOOLEAN,
         Whole(r, tidy', KeyOf(keys', info')), r.win.nr_rows \in Heights,
         info' \in [Tracks -> Infos], keys' \in {"none", "info"},
         tidy' \in BOOLEAN, overshot' \in BOOLEAN, keys' = "none" => tidy',
         owned /\ r.list # <<>> /\ ~overshot' => OnScreen(r.win)
  PROVE  EInv'
  <1>1. Whole(e, tidy, KeyOf(keys, info))'
    BY DEF Whole
  <1>2. r.list \in Seq(Tracks)
    BY Parts DEF Whole
  <1>3. Len(r.list) > 0 => r.list # <<>>
    BY <1>2
  <1>4. SelectionVisible'
    BY <1>3 DEF SelectionVisible, OnScreen, n, w
  <1> QED BY <1>1, <1>4 DEF EInv

LEMMA InitInv == Init => EInv
  <1> SUFFICES ASSUME Init PROVE EInv
    OBVIOUS
  <1>1. PICK h \in Heights : e = Empty(h)
    BY DEF Init
  <1>2. h \in Nat \ {0}
    BY HeightsAssumption
  <1>3. e.list = <<>> /\ e.tree = <<>> /\ Len(e.list) = 0 /\ Len(e.tree) = 0 /\ ToSet(e.tree) = {}
    BY <1>1 DEF Empty, ToSet
  <1>4. e \in Lists
    <2>1. <<>> \in Seq(Tracks) /\ {} \in SUBSET Tracks /\ FALSE \in BOOLEAN
      OBVIOUS
    <2> QED BY <1>1, <1>2, <2>1 DEF Empty, Lists
  <1>5. Over(0, e.win)
    BY <1>1, <1>2 DEF Empty, Over, Windows
  <1>6. Indexed(e, tidy, KeyOf(keys, info))
    <2> DEFINE P == [j \in 1 .. 1 |-> 1]
    <2>1. P[1] = 1
      OBVIOUS
    <2> HIDE DEF P
    <2>2. Shaped(e, P) /\ Running(e, P, KeyOf(keys, info))
      BY <1>3, <2>1 DEF Shaped, Shape, Running, Runs
    <2> QED BY <1>3, <2>2 DEF Indexed
  <1>7. Once(e.list)
    BY <1>3 DEF Once
  <1>8. e.nr_tracks = 0 /\ e.marked = {} /\ e.nr_marked = 0 /\ e.win.top = 0 /\ e.win.sel = 0
        /\ e.win.nr_rows = h
    BY <1>1 DEF Empty
  <1>9. Whole(e, tidy, KeyOf(keys, info))
    BY <1>3, <1>4, <1>5, <1>6, <1>7, <1>8, FS_EmptySet DEF Whole
  <1>10. info \in [Tracks -> Infos]
    <2>1. PICK i \in Infos : TRUE
      BY InfosAssumption
    <2>2. PICK j \in Infos : \A x \in Infos : j <= x
      BY <2>1, Smallest, InfosAssumption
    <2>3. (CHOOSE a \in Infos : \A x \in Infos : a <= x) \in Infos
      BY <2>2
    <2> QED BY <2>3 DEF Init
  <1>11. SelectionVisible
    BY <1>3 DEF SelectionVisible, n
  <1> QED BY <1>8, <1>9, <1>10, <1>11 DEF Init, EInv

-----------------------------------------------------------------------------
(* The steps of Edit. *)

LEMMA AddStep ==
  ASSUME EInv, NEW t \in Tracks, NEW i \in Infos, NEW tiebreak, do_editable_add(t, i, tiebreak)
  PROVE  EInv'
  <1> DEFINE key == KeyOf(keys, info')
  <1>1. /\ ~e.ub /\ ~Contains(e.list, t) /\ info' = [info EXCEPT ![t] = i]
        /\ keys' = keys /\ owned' = owned /\ tidy' = tidy /\ overshot' = overshot
    BY DEF do_editable_add, Alive
  <1>2. /\ e \in Lists /\ e.list \in Seq(Tracks) /\ DOMAIN e.list = 1 .. Len(e.list)
        /\ Over(Len(e.list), e.win) /\ info \in [Tracks -> Int]
        /\ owned /\ e.list # <<>> /\ ~overshot => OnScreen(e.win)
        /\ (Len(e.list) > 0 <=> e.list # <<>>) /\ Len(e.list) \in Nat
        /\ (Len(e.list) = 0 => e.win.top = 0 /\ e.win.sel = 0)
    BY Known
  <1>3. t \notin ToSet(e.list)
    BY <1>1, <1>2 DEF Contains, ToSet
  <1>4. info' \in [Tracks -> Infos] /\ info' \in [Tracks -> Int]
        /\ \A x \in ToSet(e.list) : info'[x] = info[x]
    <2>1. info' \in [Tracks -> Infos]
      BY <1>1 DEF EInv
    <2>2. ToSet(e.list) \subseteq Tracks
      BY <1>2, ElementSet
    <2> QED BY <1>1, <1>2, <1>3, <2>1, <2>2, InfosAssumption
  <1>5. Whole(e, tidy, key)
    <2>1. ToSet(e.list) \subseteq Tracks
      BY <1>2, ElementSet
    <2>2. \A x \in ToSet(e.list) : key[x] = KeyOf(keys, info)[x]
      BY <1>4, <2>1 DEF KeyOf
    <2>3. Whole(e, tidy, KeyOf(keys, info))
      BY DEF EInv
    <2> HIDE DEF key
    <2> QED BY <2>2, <2>3, Rekeyed
  <1>6. PICK q \in sorted_list_add_track(e, t, info', keys, tiebreak) :
          e' = Changed(Following([q EXCEPT !.nr_tracks = @ + 1], e.list))
    BY DEF do_editable_add
  <1> DEFINE r == Changed(Following([q EXCEPT !.nr_tracks = @ + 1], e.list))
  <1>7. /\ Whole(r, tidy, key) /\ ~r.ub /\ r.win.nr_rows = e.win.nr_rows
        /\ owned /\ (e.win.top = 0 \/ e.win.sel # 0) => OnScreen(r.win)
    <2>1. Whole(e, tidy, KeyOf(keys, info'))
      BY <1>5
    <2> HIDE DEF key
    <2> DEFINE inf == info'
    <2>2. inf \in [Tracks -> Int] /\ q \in sorted_list_add_track(e, t, inf, keys, tiebreak)
      BY <1>4
    <2>3. Whole(e, tidy, KeyOf(keys, inf))
      BY <2>1
    <2> HIDE DEF inf, r
    <2>4. LET y == Changed(Following([q EXCEPT !.nr_tracks = @ + 1], e.list))
          IN  /\ Whole(y, tidy, KeyOf(keys, inf)) /\ ~y.ub /\ y.win.nr_rows = e.win.nr_rows
              /\ owned /\ (e.win.top = 0 \/ e.win.sel # 0) => OnScreen(y.win)
      BY <1>1, <1>3, <2>2, <2>3, Adds
    <2> QED BY <2>4 DEF key, inf, r
  <1> HIDE DEF r, key
  <1>8. owned /\ ~overshot => OnScreen(r.win)
    <2> SUFFICES ASSUME owned, ~overshot PROVE OnScreen(r.win)
      OBVIOUS
    <2>1. CASE e.list = <<>>
      BY <1>2, <1>7, <2>1
    <2>2. CASE e.list # <<>>
      <3>1. e.win.sel # 0
        BY <1>2, <2>2 DEF OnScreen, Over
      <3> QED BY <1>7, <3>1
    <2> QED BY <2>1, <2>2
  <1>9. e' = r
    BY <1>6 DEF r
  <1>10. Whole(r, tidy', KeyOf(keys', info'))
    BY <1>1, <1>7 DEF key
  <1>11. EInv
    OBVIOUS
  <1> QED BY <1>1, <1>4, <1>7, <1>8, <1>9, <1>10, Keeps DEF EInv

LEMMA RemoveStep ==
  ASSUME EInv, NEW S, RemoveAll(S), Same, Quiet
  PROVE  EInv'
  <1> DEFINE f == [x \in Lists \X Tracks |-> editable_remove_track(x[1], x[2])]
             r == Fold(f, e, Select(e.list, S))
  <1>1. /\ info' = info /\ keys' = keys /\ owned' = owned /\ tidy' = tidy
        /\ overshot' = (overshot /\ e'.list # <<>>)
    BY DEF Same, Quiet
  <1>2. e' = r
    BY DEF RemoveAll, InOrder
  <1>3. Whole(e, tidy, KeyOf(keys, info))
    BY DEF EInv
  <1>4. /\ Whole(r, tidy, KeyOf(keys, info)) /\ r.win.nr_rows = e.win.nr_rows
        /\ ToSet(r.list) = ToSet(e.list) \ S
        /\ OnScreen(e.win) /\ r.list # <<>> => OnScreen(r.win)
    BY <1>3, RemovesAll
  <1> HIDE DEF r, f
  <1>5. owned /\ r.list # <<>> /\ ~overshot' => OnScreen(r.win)
    <2> SUFFICES ASSUME owned, r.list # <<>>, ~overshot' PROVE OnScreen(r.win)
      OBVIOUS
    <2>1. ~overshot
      BY <1>1, <1>2
    <2>2. r.list \in Seq(Tracks)
      BY <1>4, Parts DEF Whole
    <2>3. ToSet(r.list) # {}
      <3>1. Len(r.list) # 0
        BY <2>2
      <3> QED BY <2>2, <3>1, ElementSet
    <2>4. e.list # <<>>
      <3>1. ToSet(e.list) # {}
        BY <1>4, <2>3
      <3>2. ToSet(<<>>) = {}
        BY DEF ToSet
      <3> QED BY <3>1, <3>2
    <2>5. OnScreen(e.win)
      BY <2>1, <2>4, Known
    <2> QED BY <1>4, <2>5
  <1>6. overshot' \in BOOLEAN
    BY <1>1 DEF EInv
  <1> QED BY <1>1, <1>2, <1>4, <1>5, <1>6, Keeps DEF EInv

LEMMA UpdateStep ==
  ASSUME EInv, NEW old \in Infos, NEW new \in Infos, editable_update_track(old, new)
  PROVE  EInv'
  <1>1. /\ info' = [t \in Tracks |-> IF Contains(e.list, t) /\ info[t] = old THEN new ELSE info[t]]
        /\ tidy' = (tidy /\ (info' = info \/ keys = "none"))
        /\ e' = e /\ keys' = keys /\ owned' = owned /\ overshot' = overshot
    BY DEF editable_update_track
  <1>2. info' \in [Tracks -> Infos] /\ tidy' \in BOOLEAN /\ (keys' = "none" => tidy')
    BY <1>1 DEF EInv
  <1>3. Whole(e, tidy, KeyOf(keys, info))
    BY DEF EInv
  <1>4. Whole(e, tidy', KeyOf(keys', info'))
    <2>1. CASE info' = info
      BY <1>1, <1>3, <2>1 DEF EInv
    <2>2. CASE keys = "none"
      <3>1. KeyOf(keys, info) = KeyOf(keys, info')
        BY <2>2 DEF KeyOf
      <3>2. tidy' = tidy
        BY <1>1, <2>2 DEF EInv
      <3> QED BY <1>1, <1>3, <3>1, <3>2
    <2>3. CASE info' # info /\ keys # "none"
      <3>1. tidy' = FALSE
        BY <1>1, <2>3
      <3>2. Whole(e, FALSE, KeyOf(keys', info'))
        BY <1>3, Untidy
      <3> QED BY <3>1, <3>2
    <2> QED BY <2>1, <2>2, <2>3
  <1>5. owned /\ e.list # <<>> /\ ~overshot' => OnScreen(e.win)
    BY <1>1, Known
  <1> QED BY <1>1, <1>2, <1>4, <1>5, Keeps DEF EInv

LEMMA SortStep ==
  ASSUME EInv, NEW k \in {"none", "info"}, editable_sort(k)
  PROVE  EInv'
  <1>1. /\ keys' = k /\ tidy' = TRUE /\ overshot' = (overshot /\ e.nr_tracks <= 1)
        /\ info' = info /\ owned' = owned
        /\ e' = IF e.nr_tracks <= 1 THEN e ELSE Reordered(Rebuilt(e, e.list, info, k))
    BY DEF editable_sort
  <1>2. Whole(e, tidy, KeyOf(keys, info))
    BY DEF EInv
  <1>3. /\ e.list \in Seq(Tracks) /\ Once(e.list) /\ info \in [Tracks -> Int]
        /\ owned /\ e.list # <<>> /\ ~overshot => OnScreen(e.win)
    BY Known
  <1>4. overshot' \in BOOLEAN
    BY <1>1 DEF EInv
  <1>5. CASE e.nr_tracks <= 1
    <2>1. Whole(e, TRUE, KeyOf(k, info))
      BY <1>2, <1>5, Short
    <2>2. e' = e /\ (overshot' = overshot)
      BY <1>1, <1>5 DEF EInv
    <2>3. Whole(e, tidy', KeyOf(keys', info')) /\ tidy' \in BOOLEAN
      BY <1>1, <2>1
    <2>4. owned /\ e.list # <<>> /\ ~overshot' => OnScreen(e.win)
      BY <1>3, <2>2
    <2> QED BY <1>1, <1>4, <2>2, <2>3, <2>4, Keeps DEF EInv
  <1>6. CASE ~(e.nr_tracks <= 1)
    <2> DEFINE r == Reordered(Rebuilt(e, e.list, info, k))
    <2>1. /\ Whole(r, TRUE, KeyOf(k, info)) /\ ToSet(r.list) = ToSet(e.list)
          /\ r.win.nr_rows = e.win.nr_rows
          /\ owned /\ r.list # <<>> => OnScreen(r.win)
      BY <1>2, <1>3, Reorders
    <2>2. e' = r
      BY <1>1, <1>6
    <2> HIDE DEF r
    <2> QED BY <1>1, <1>4, <2>1, <2>2, Keeps DEF EInv
  <1> QED BY <1>5, <1>6

LEMMA RandStep ==
  ASSUME EInv, editable_rand
  PROVE  EInv'
  <1>1. /\ tidy' = (tidy /\ keys = "none") /\ overshot' = FALSE
        /\ info' = info /\ keys' = keys /\ owned' = owned
    BY DEF editable_rand
  <1>2. PICK f \in [DOMAIN e.list -> DOMAIN e.list] :
          /\ IsInjective(f)
          /\ e' = Reordered(Rebuilt(e, [i \in DOMAIN e.list |-> e.list[f[i]]], info, "none"))
    BY DEF editable_rand
  <1>3. Whole(e, tidy, KeyOf(keys, info))
    BY DEF EInv
  <1>4. e.list \in Seq(Tracks) /\ Once(e.list) /\ info \in [Tracks -> Int]
    BY Known
  <1> DEFINE ts == [i \in DOMAIN e.list |-> e.list[f[i]]]
             r == Reordered(Rebuilt(e, ts, info, "none"))
  <1>5. ts \in Seq(Tracks) /\ Once(ts) /\ ToSet(ts) = ToSet(e.list)
    BY <1>2, <1>4, Permuted
  <1>6. e' = r
    BY <1>2
  <1> HIDE DEF ts
  <1>7. /\ Whole(r, TRUE, KeyOf("none", info)) /\ r.win.nr_rows = e.win.nr_rows
        /\ owned /\ r.list # <<>> => OnScreen(r.win)
    BY <1>3, <1>4, <1>5, Reorders
  <1> HIDE DEF r
  <1>8. Whole(r, tidy', KeyOf(keys', info'))
    <2>1. CASE keys = "none"
      BY <1>1, <1>7, <2>1 DEF EInv
    <2>2. CASE keys # "none"
      <3>1. Whole(r, FALSE, KeyOf(keys', info'))
        BY <1>7, Untidy
      <3> QED BY <1>1, <2>2, <3>1
    <2> QED BY <2>1, <2>2
  <1>9. tidy' \in BOOLEAN /\ (keys' = "none" => tidy')
    BY <1>1 DEF EInv
  <1> QED BY <1>1, <1>6, <1>7, <1>8, <1>9, Keeps DEF EInv

LEMMA RemarkStep ==
  ASSUME EInv, NEW m \in SUBSET ToSet(e.list), Remark(m)
  PROVE  EInv'
  <1> DEFINE r == Marked(e, m, Cardinality(m))
  <1>1. /\ info' = info /\ keys' = keys /\ owned' = owned /\ tidy' = tidy
        /\ overshot' = (overshot /\ e'.list # <<>>)
    BY DEF Remark, Same, Quiet
  <1>2. Whole(e, tidy, KeyOf(keys, info))
    BY DEF EInv
  <1>3. Cardinality(m) \in Nat /\ Cardinality(e.marked) \in Nat
        /\ e.nr_marked = Cardinality(e.marked)
    <2>1. IsFiniteSet(ToSet(e.list)) /\ e.marked \subseteq ToSet(e.list)
      BY <1>2, Known, ElementSet DEF Whole
    <2>2. IsFiniteSet(m) /\ IsFiniteSet(e.marked)
      BY <2>1, FS_Subset
    <2> QED BY <1>2, <2>2, FS_CardinalityType DEF Whole
  <1>4. e' = r
    <2>1. e.nr_marked - Cardinality(e.marked) + Cardinality(m) = Cardinality(m)
      BY <1>3
    <2>2. e' = Marked(e, m, e.nr_marked - Cardinality(e.marked) + Cardinality(m))
      BY DEF Remark, Marked
    <2> QED BY <2>1, <2>2
  <1>5. Whole(r, tidy, KeyOf(keys, info)) /\ r.list = e.list /\ r.win = e.win
    BY <1>2, Marks
  <1> HIDE DEF r
  <1>6. owned /\ r.list # <<>> /\ ~overshot' => OnScreen(r.win)
    BY <1>1, <1>4, <1>5, Known
  <1>7. overshot' \in BOOLEAN
    BY <1>1 DEF EInv
  <1> QED BY <1>1, <1>4, <1>5, <1>6, <1>7, Keeps DEF EInv

LEMMA ToggleStep ==
  ASSUME EInv, NEW off \in Offsets, editable_toggle_mark(off)
  PROVE  EInv'
  <1>1. PICK t \in Selected(e) :
          LET marked == IF t \in e.marked THEN e.marked \ {t} ELSE e.marked \cup {t}
              delta  == IF t \in e.marked THEN -1 ELSE 1
          IN e' = Down([e EXCEPT !.marked = marked, !.nr_marked = @ + delta], off)
    BY DEF editable_toggle_mark
  <1>2. /\ info' = info /\ keys' = keys /\ owned' = owned /\ tidy' = tidy /\ owned
        /\ overshot' = (overshot /\ e'.list # <<>>)
    BY DEF editable_toggle_mark, Same, Quiet
  <1> DEFINE m == IF t \in e.marked THEN e.marked \ {t} ELSE e.marked \cup {t}
             c == e.nr_marked + (IF t \in e.marked THEN -1 ELSE 1)
             s == Marked(e, m, c)
             v == window_down(Len(e.list), e.win, off, 1)
             r == Windowed(s, v)
  <1>3. Whole(e, tidy, KeyOf(keys, info))
    BY DEF EInv
  <1>4. /\ e.list \in Seq(Tracks) /\ Len(e.list) \in Nat /\ DOMAIN e.list = 1 .. Len(e.list)
        /\ Over(Len(e.list), e.win)
        /\ owned /\ e.list # <<>> /\ ~overshot => OnScreen(e.win)
    BY Known
  <1>5. t \in ToSet(e.list)
    <2>1. e.win.sel \in 1 .. Len(e.list) /\ t = e.list[e.win.sel]
      BY <1>4 DEF Selected, Over
    <2> QED BY <1>4, <2>1 DEF ToSet
  <1>6. m \subseteq ToSet(e.list) /\ c = Cardinality(m)
    <2>1. IsFiniteSet(e.marked) /\ e.marked \subseteq ToSet(e.list) /\ e.nr_marked = Cardinality(e.marked)
      BY <1>3, <1>4, ElementSet, FS_Subset DEF Whole
    <2>2. Cardinality(e.marked) \in Nat
      BY <2>1, FS_CardinalityType
    <2>3. Cardinality(e.marked \ {t}) = IF t \in e.marked THEN Cardinality(e.marked) - 1 ELSE Cardinality(e.marked)
      BY <2>1, FS_RemoveElement
    <2>4. Cardinality(e.marked \cup {t}) = IF t \in e.marked THEN Cardinality(e.marked) ELSE Cardinality(e.marked) + 1
      BY <2>1, FS_AddElement
    <2> QED BY <1>5, <2>1, <2>2, <2>3, <2>4
  <1> HIDE DEF m, c
  <1>7. Whole(s, tidy, KeyOf(keys, info)) /\ s.list = e.list /\ s.win = e.win
    BY <1>3, <1>6, Marks
  <1>8. Moves(Len(e.list), e.win, v)
    <2>1. off \in Nat
      BY HeightsAssumption
    <2> QED BY <1>4, <2>1, WindowDown
  <1>9. e' = r
    BY <1>1, <1>7 DEF Down, Windowed, Marked, m, c
  <1> HIDE DEF s, v
  <1>10. Whole(r, tidy, KeyOf(keys, info)) /\ r.list = s.list /\ r.win = v
    <2>1. Over(Len(s.list), v) /\ (~owned => v.top = 0 /\ v.sel = 0)
      BY <1>2, <1>7, <1>8 DEF Moves
    <2>2. LET y == Windowed(s, v)
          IN  Whole(y, tidy, KeyOf(keys, info)) /\ y.list = s.list /\ y.win = v /\ y.ub = s.ub
      BY <1>7, <2>1, Shows
    <2> QED BY <2>2
  <1> HIDE DEF r
  <1>11. owned /\ r.list # <<>> /\ ~overshot' => OnScreen(r.win)
    BY <1>2, <1>4, <1>7, <1>8, <1>9, <1>10 DEF Moves
  <1>12. overshot' \in BOOLEAN /\ r.win.nr_rows = e.win.nr_rows
    BY <1>2, <1>8, <1>10 DEF EInv, Moves
  <1> QED BY <1>2, <1>9, <1>10, <1>11, <1>12, Keeps DEF EInv

LEMMA MoveStep ==
  ASSUME EInv, NEW off \in Offsets, NEW i,
         i \in {find_insert_after_point(e.win.sel), find_insert_before_point(e.win.sel)},
         Move(i, off)
  PROVE  EInv'
  <1>1. /\ ~e.ub /\ owned /\ e.nr_tracks > 1 /\ keys = "none" /\ e.win.sel # 0
        /\ e' = move_sel(i, off)
        /\ info' = info /\ keys' = keys /\ owned' = owned /\ tidy' = tidy /\ overshot' = overshot
    BY DEF Move, Alive, Same
  <1>2. tidy = TRUE
    BY <1>1 DEF EInv
  <1>3. Whole(e, TRUE, KeyOf("none", info))
    BY <1>1, <1>2 DEF EInv
  <1>4. i \in 0 .. Len(e.list) /\ (i # 0 => e.list[i] \notin Chosen(e))
    BY <1>1, <1>3, InsertPoints
  <1>5. off \in Nat
    BY HeightsAssumption
  <1> DEFINE r == move_sel(i, off)
  <1>6. /\ Whole(r, TRUE, KeyOf("none", info)) /\ r.win.nr_rows = e.win.nr_rows
        /\ OnScreen(r.win)
    BY <1>1, <1>3, <1>4, <1>5, MovesSel
  <1> HIDE DEF r
  <1>7. e' = r
    BY <1>1 DEF r
  <1>8. Whole(r, tidy', KeyOf(keys', info'))
    BY <1>1, <1>2, <1>6
  <1> QED BY <1>1, <1>6, <1>7, <1>8, Keeps DEF EInv

-----------------------------------------------------------------------------
(* The steps of View. *)

(* A step that shows the list in another window, or stops showing it. *)
LEMMA Views ==
  ASSUME EInv, NEW v, e' = Windowed(e, v), Over(Len(e.list), v), v.nr_rows \in Heights,
         info' = info, keys' = keys, tidy' = tidy, owned' \in BOOLEAN, overshot' \in BOOLEAN,
         ~owned' => v.top = 0 /\ v.sel = 0,
         owned' /\ e.list # <<>> /\ ~overshot' => OnScreen(v)
  PROVE  EInv'
  <1> DEFINE r == Windowed(e, v)
             key == KeyOf(keys, info)
  <1>1. Whole(e, tidy, key)
    BY DEF EInv
  <1>2. e \in Lists /\ v \in Windows
    BY <1>1 DEF Whole, Over
  <1>3. /\ r \in Lists /\ r.win = v
        /\ r.list = e.list /\ r.tree = e.tree /\ r.nodes = e.nodes /\ r.ub = e.ub
        /\ r.marked = e.marked /\ r.nr_tracks = e.nr_tracks /\ r.nr_marked = e.nr_marked
    BY <1>2, Shown
  <1> HIDE DEF r, key
  <1>4. e' = r
    BY DEF r
  <1>5. Indexed(e, tidy, key) => Indexed(r, tidy, key)
    BY <1>3 DEF Indexed, Shaped, Running
  <1>6. Whole(e, tidy, key)'
    <2>1. key' = key
      BY DEF key
    <2>2. (~r.ub => Indexed(r, tidy, key))
      BY <1>1, <1>3, <1>5 DEF Whole
    <2>3. /\ r \in Lists /\ Once(r.list) /\ Over(Len(r.list), r.win)
          /\ r.marked \subseteq ToSet(r.list)
          /\ r.nr_tracks = Len(r.list) /\ r.nr_marked = Cardinality(r.marked)
          /\ ~owned' => r.win.top = 0 /\ r.win.sel = 0
      BY <1>1, <1>3 DEF Whole
    <2> QED BY <1>4, <2>1, <2>2, <2>3 DEF Whole
  <1>7. SelectionVisible'
    <2>1. Len(e.list) > 0 => e.list # <<>>
      BY Known
    <2>2. e'.list = e.list /\ e'.win = v
      BY <1>3, <1>4
    <2> QED BY <2>1, <2>2 DEF SelectionVisible, OnScreen, n, w
  <1>8. e'.win.nr_rows \in Heights
    BY <1>3, <1>4
  <1> QED BY <1>6, <1>7, <1>8 DEF EInv, key

LEMMA ShowStep ==
  ASSUME EInv, NEW v, NEW past, Show(v, past), Over(Len(e.list), v), v.nr_rows = e.win.nr_rows,
         past \in BOOLEAN, e.list # <<>> /\ ~past => OnScreen(v)
  PROVE  EInv'
  <1>1. /\ owned /\ e' = [e EXCEPT !.win = v] /\ (overshot' = past)
        /\ info' = info /\ keys' = keys /\ owned' = owned /\ tidy' = tidy
    BY DEF Show, Same
  <1>2. e' = Windowed(e, v)
    BY <1>1 DEF Windowed
  <1>3. v.nr_rows \in Heights /\ owned' \in BOOLEAN /\ overshot' \in BOOLEAN
    BY <1>1 DEF EInv
  <1> QED BY <1>1, <1>2, <1>3, Views

(* What moves the selection leaves it on the screen. *)
LEMMA MovesStep ==
  ASSUME EInv, NEW v, Show(v, overshot), Moves(Len(e.list), e.win, v)
  PROVE  EInv'
  <1>1. owned /\ overshot \in BOOLEAN
    BY DEF Show, EInv
  <1>2. e.list # <<>> /\ ~overshot => OnScreen(v)
    BY <1>1, Known DEF Moves
  <1> QED BY <1>1, <1>2, ShowStep DEF Moves

LEMMA StepSelStep ==
  ASSUME EInv, NEW rows \in 1 .. 2, NEW off \in Offsets, StepSel(rows, off)
  PROVE  EInv'
  <1>1. off \in Nat /\ rows \in Nat
    BY HeightsAssumption
  <1>2. Over(Len(e.list), e.win) /\ Len(e.list) \in Nat
    BY Known
  <1>3. CASE Show(window_up(n, w, off, rows), overshot)
    <2>1. Moves(Len(e.list), e.win, window_up(n, w, off, rows))
      BY <1>1, <1>2, WindowUp DEF n, w
    <2> QED BY <1>3, <2>1, MovesStep
  <1>4. CASE Show(window_down(n, w, off, rows), overshot)
    <2>1. Moves(Len(e.list), e.win, window_down(n, w, off, rows))
      BY <1>1, <1>2, WindowDown DEF n, w
    <2> QED BY <1>4, <2>1, MovesStep
  <1> QED BY <1>3, <1>4 DEF StepSel

LEMMA JumpStep ==
  ASSUME EInv, Jump
  PROVE  EInv'
  <1>1. /\ Over(Len(e.list), e.win) /\ Len(e.list) \in Nat
        /\ (Len(e.list) > 0 <=> e.list # <<>>)
    BY Known
  <1>2. CASE Show(window_goto_top(n, w), FALSE)
    <2> DEFINE v == window_set_contents(Len(e.list), e.win)
    <2>1. Over(Len(e.list), v) /\ v.nr_rows = e.win.nr_rows /\ (Len(e.list) > 0 => OnScreen(v))
      BY <1>1, SetContents
    <2>2. Show(v, FALSE)
      BY <1>2 DEF window_goto_top, n, w
    <2> HIDE DEF v
    <2> QED BY <1>1, <2>1, <2>2, ShowStep
  <1>3. CASE Show(window_goto_bottom(n, w), FALSE)
    <2> DEFINE v == window_goto_bottom(Len(e.list), e.win)
    <2>1. Over(Len(e.list), v) /\ v.nr_rows = e.win.nr_rows /\ (Len(e.list) > 0 => OnScreen(v))
      BY <1>1, GotoBottom
    <2>2. Show(v, FALSE)
      BY <1>3 DEF n, w
    <2> HIDE DEF v
    <2> QED BY <1>1, <2>1, <2>2, ShowStep
  <1> QED BY <1>2, <1>3 DEF Jump

LEMMA PageStep ==
  ASSUME EInv, NEW rows \in {w.nr_rows - 1, (w.nr_rows - 1) \div 2}, Page(rows)
  PROVE  EInv'
  <1>1. Over(Len(e.list), e.win) /\ Len(e.list) \in Nat
    BY Known
  <1>2. rows \in Nat
    <2> DEFINE h == e.win.nr_rows
    <2>1. h \in Nat \ {0} /\ rows \in {h - 1, (h - 1) \div 2}
      BY <1>1 DEF Over, w
    <2> HIDE DEF h
    <2>2. h - 1 \in Nat /\ (h - 1) \div 2 \in Nat
      BY <2>1
    <2> QED BY <2>1, <2>2
  <1>3. CASE Show(PageUp(n, w, rows), overshot)
    <2>1. Moves(Len(e.list), e.win, PageUp(n, w, rows))
      BY <1>1, <1>2, PagesUp DEF n, w
    <2> QED BY <1>3, <2>1, MovesStep
  <1>4. CASE Show(PageDown(n, w, rows), overshot)
    <2>1. Moves(Len(e.list), e.win, PageDown(n, w, rows))
      BY <1>1, <1>2, PagesDown DEF n, w
    <2> QED BY <1>4, <2>1, MovesStep
  <1> QED BY <1>3, <1>4 DEF Page

LEMMA ScrollStep ==
  ASSUME EInv, Scroll
  PROVE  EInv'
  <1>1. Over(Len(e.list), e.win) /\ Len(e.list) \in Nat
    BY Known
  <1>2. CASE Show(window_scroll_up(n, w), overshot)
    <2>1. Moves(Len(e.list), e.win, window_scroll_up(n, w))
      BY <1>1, ScrollsUp DEF n, w
    <2> QED BY <1>2, <2>1, MovesStep
  <1>3. CASE Show(window_scroll_down(n, w), overshot)
    <2>1. Moves(Len(e.list), e.win, window_scroll_down(n, w))
      BY <1>1, ScrollsDown DEF n, w
    <2> QED BY <1>3, <2>1, MovesStep
  <1> QED BY <1>2, <1>3 DEF Scroll

LEMMA SelectRowStep ==
  ASSUME EInv, NEW i \in 1 .. n, NEW off \in Offsets, SelectRow(i, off)
  PROVE  EInv'
  <1>1. Over(Len(e.list), e.win) /\ Len(e.list) \in Nat /\ off \in Nat /\ i \in 1 .. Len(e.list)
    BY Known, HeightsAssumption DEF n
  <1>2. Moves(Len(e.list), e.win, window_set_sel(n, w, off, i))
    BY <1>1, SetSel DEF n, w
  <1> QED BY <1>2, MovesStep DEF SelectRow

(* Only past the last row does win-page-middle or win-page-bottom leave    *)
(* the screen.                                                             *)
LEMMA GotoPosStep ==
  ASSUME EInv, NEW pos \in {0, w.nr_rows \div 2, w.nr_rows - 1}, GotoPos(pos)
  PROVE  EInv'
  <1> DEFINE k == Len(e.list)
             v == window_goto_pos(k, e.win, pos)
             past == overshot \/ e.win.top + pos > k
  <1>1. /\ Over(k, e.win) /\ k \in Nat
        /\ owned /\ e.list # <<>> /\ ~overshot => OnScreen(e.win)
    BY Known
  <1>2. Show(v, past) /\ owned
    BY DEF GotoPos, Show, n, w
  <1>3. pos \in Nat /\ pos < e.win.nr_rows
    <2> DEFINE h == e.win.nr_rows
    <2>1. h \in Nat \ {0} /\ pos \in {0, h \div 2, h - 1}
      BY <1>1 DEF Over, w
    <2> HIDE DEF h
    <2>2. h - 1 \in Nat /\ h \div 2 \in Nat /\ h \div 2 < h /\ h - 1 < h /\ 0 < h
      BY <2>1
    <2>3. pos \in Nat /\ pos < h
      BY <2>1, <2>2
    <2> QED BY <2>3 DEF h
  <1>4. /\ Over(k, v) /\ v.nr_rows = e.win.nr_rows
        /\ e.win.top + pos <= k /\ pos < e.win.nr_rows /\ e.win.top # 0 => OnScreen(v)
    BY <1>1, <1>3, GotoRow
  <1>5. past \in BOOLEAN
    BY DEF EInv
  <1>6. e.list # <<>> /\ ~past => OnScreen(v)
    <2> SUFFICES ASSUME e.list # <<>>, ~past PROVE OnScreen(v)
      OBVIOUS
    <2>1. ~overshot /\ ~(e.win.top + pos > k)
      OBVIOUS
    <2>2. OnScreen(e.win)
      BY <1>1, <1>2, <2>1
    <2>3. e.win.top \in Nat /\ e.win.top # 0
      BY <1>1, <2>2 DEF OnScreen, Over
    <2>4. e.win.top + pos <= k
      BY <1>1, <1>3, <2>1, <2>3
    <2> QED BY <1>3, <1>4, <2>3, <2>4
  <1> HIDE DEF v, past
  <1> QED BY <1>2, <1>4, <1>5, <1>6, ShowStep DEF k

LEMMA ResizeStep ==
  ASSUME EInv, NEW h \in Heights, Resize(h)
  PROVE  EInv'
  <1> DEFINE k == Len(e.list)
             v == IF owned THEN window_set_nr_rows(k, e.win, h) ELSE [e.win EXCEPT !.nr_rows = h]
  <1>1. /\ info' = info /\ keys' = keys /\ owned' = owned /\ tidy' = tidy
        /\ overshot' = overshot /\ e' = Windowed(e, v)
    BY DEF Resize, Same, Windowed, n
  <1>2. /\ Over(k, e.win) /\ k \in Nat /\ (k > 0 <=> e.list # <<>>)
        /\ owned /\ e.list # <<>> /\ ~overshot => OnScreen(e.win)
        /\ ~owned => e.win.top = 0 /\ e.win.sel = 0
    BY Known
  <1>3. h \in Nat \ {0}
    BY HeightsAssumption
  <1>4. /\ Over(k, window_set_nr_rows(k, e.win, h)) /\ window_set_nr_rows(k, e.win, h).nr_rows = h
        /\ k > 0 /\ e.win.sel # 0 => OnScreen(window_set_nr_rows(k, e.win, h))
    BY <1>2, <1>3, Resized
  <1>5. /\ Over(k, v) /\ v.nr_rows \in Heights
        /\ ~owned' => v.top = 0 /\ v.sel = 0
        /\ owned' /\ e.list # <<>> /\ ~overshot' => OnScreen(v)
    <2>1. CASE owned
      <3>1. v = window_set_nr_rows(k, e.win, h)
        BY <2>1
      <3> HIDE DEF v
      <3>2. e.list # <<>> /\ ~overshot => e.win.sel # 0
        BY <1>2, <2>1 DEF OnScreen, Over
      <3> QED BY <1>1, <1>2, <1>4, <2>1, <3>1, <3>2
    <2>2. CASE ~owned
      <3>1. v = [e.win EXCEPT !.nr_rows = h]
        BY <2>2
      <3> HIDE DEF v
      <3>2. Over(k, v) /\ v.top = 0 /\ v.sel = 0 /\ v.nr_rows = h
        BY <1>2, <1>3, <2>2, <3>1 DEF Over, Windows
      <3> QED BY <1>1, <2>2, <3>2
    <2> QED BY <2>1, <2>2
  <1> HIDE DEF v
  <1>6. owned' \in BOOLEAN /\ overshot' \in BOOLEAN
    BY <1>1 DEF EInv
  <1> QED BY <1>1, <1>5, <1>6, Views

LEMMA LeaveStep ==
  ASSUME EInv, Leave
  PROVE  EInv'
  <1> DEFINE v == [e.win EXCEPT !.top = 0, !.sel = 0]
  <1>1. /\ info' = info /\ keys' = keys /\ tidy' = tidy /\ owned' = FALSE /\ overshot' = FALSE
        /\ e' = [e EXCEPT !.win.top = 0, !.win.sel = 0]
    BY DEF Leave
  <1>2. Over(Len(e.list), e.win) /\ Len(e.list) \in Nat /\ e \in Lists
    BY Known
  <1>3. Over(Len(e.list), v) /\ v.nr_rows = e.win.nr_rows /\ v.top = 0 /\ v.sel = 0
    <2> DEFINE a == e.win
               k == Len(e.list)
    <2>1. Over(k, a) /\ k \in Nat /\ v = [a EXCEPT !.top = 0, !.sel = 0]
      BY <1>2
    <2> HIDE DEF a, k, v
    <2>2. /\ v \in Windows /\ v.nr_rows = a.nr_rows /\ v.top = 0 /\ v.sel = 0
          /\ a.nr_rows \in Nat \ {0}
      <3>1. 0 \in Int /\ a \in Windows /\ a.nr_rows \in Nat \ {0}
        BY <2>1 DEF Over
      <3>2. v \in Windows
        BY <2>1, <3>1 DEF Windows
      <3>3. v.nr_rows = a.nr_rows /\ v.top = 0 /\ v.sel = 0
        BY <2>1, <3>1 DEF Windows
      <3> QED BY <3>1, <3>2, <3>3
    <2>3. Over(k, v)
      BY <2>1, <2>2 DEF Over
    <2> QED BY <2>2, <2>3 DEF a, k
  <1>4. e' = Windowed(e, v)
    BY <1>1, <1>2 DEF Windowed, Lists
  <1>5. v.nr_rows \in Heights
    BY <1>3 DEF EInv
  <1> HIDE DEF v
  <1> QED BY <1>1, <1>3, <1>4, <1>5, Views

LEMMA OwnStep ==
  ASSUME EInv, editable_take_ownership
  PROVE  EInv'
  <1> DEFINE v == window_set_contents(Len(e.list), e.win)
  <1>1. /\ info' = info /\ keys' = keys /\ tidy' = tidy /\ owned' = TRUE /\ overshot' = overshot
        /\ e' = Windowed(e, v)
    BY DEF editable_take_ownership, Windowed, n
  <1>2. /\ Over(Len(e.list), e.win) /\ Len(e.list) \in Nat
        /\ (Len(e.list) > 0 <=> e.list # <<>>)
    BY Known
  <1>3. Over(Len(e.list), v) /\ v.nr_rows = e.win.nr_rows /\ (Len(e.list) > 0 => OnScreen(v))
    BY <1>2, SetContents
  <1> HIDE DEF v
  <1>4. v.nr_rows \in Heights /\ overshot' \in BOOLEAN
    BY <1>1, <1>3 DEF EInv
  <1> QED BY <1>1, <1>2, <1>3, <1>4, Views

-----------------------------------------------------------------------------
LEMMA NextInv == EInv /\ [Next]_vars => EInv'
  <1> SUFFICES ASSUME EInv, [Next]_vars PROVE EInv'
    OBVIOUS
  <1>1. CASE Edit
    <2>1. ASSUME NEW t \in Tracks, NEW i \in Infos, NEW tiebreak \in {-1, 1},
                 do_editable_add(t, i, tiebreak)
          PROVE  EInv'
      BY <2>1, AddStep
    <2>2. CASE play_queue_remove
      BY <2>2, RemoveStep DEF play_queue_remove
    <2>3. CASE editable_remove_sel
      BY <2>3, RemoveStep DEF editable_remove_sel
    <2>4. ASSUME NEW S \in SUBSET Infos, editable_remove_matching_tracks(S) PROVE EInv'
      BY <2>4, RemoveStep DEF editable_remove_matching_tracks
    <2>5. ASSUME NEW S \in SUBSET Infos, editable_mark(S) PROVE EInv'
      BY <2>5, RemarkStep DEF editable_mark
    <2>6. ASSUME NEW old \in Infos, NEW new \in Infos, editable_update_track(old, new) PROVE EInv'
      BY <2>6, UpdateStep
    <2>7. ASSUME NEW k \in {"none", "info"}, editable_sort(k) PROVE EInv'
      BY <2>7, SortStep
    <2>8. CASE editable_rand
      BY <2>8, RandStep
    <2>9. CASE editable_invert_marks
      BY <2>9, RemarkStep DEF editable_invert_marks
    <2>10. ASSUME NEW off \in Offsets, editable_toggle_mark(off) PROVE EInv'
      BY <2>10, ToggleStep
    <2>11. ASSUME NEW off \in Offsets, editable_move_after(off) PROVE EInv'
      BY <2>11, MoveStep DEF editable_move_after
    <2>12. ASSUME NEW off \in Offsets, editable_move_before(off) PROVE EInv'
      BY <2>12, MoveStep DEF editable_move_before
    <2> QED BY <1>1, <2>1, <2>2, <2>3, <2>4, <2>5, <2>6, <2>7, <2>8, <2>9, <2>10, <2>11, <2>12
            DEF Edit
  <1>2. CASE View
    <2>1. ASSUME NEW rows \in 1 .. 2, NEW off \in Offsets, StepSel(rows, off) PROVE EInv'
      BY <2>1, StepSelStep
    <2>2. CASE Jump
      BY <2>2, JumpStep
    <2>3. CASE Scroll
      BY <2>3, ScrollStep
    <2>4. ASSUME NEW rows \in {w.nr_rows - 1, (w.nr_rows - 1) \div 2}, Page(rows) PROVE EInv'
      BY <2>4, PageStep
    <2>5. ASSUME NEW pos \in {0, w.nr_rows \div 2, w.nr_rows - 1}, GotoPos(pos) PROVE EInv'
      BY <2>5, GotoPosStep
    <2>6. ASSUME NEW i \in 1 .. n, NEW off \in Offsets, SelectRow(i, off) PROVE EInv'
      BY <2>6, SelectRowStep
    <2>7. ASSUME NEW h \in Heights, Resize(h) PROVE EInv'
      BY <2>7, ResizeStep
    <2>8. CASE Leave
      BY <2>8, LeaveStep
    <2>9. CASE editable_take_ownership
      BY <2>9, OwnStep
    <2> QED BY <1>2, <2>1, <2>2, <2>3, <2>4, <2>5, <2>6, <2>7, <2>8, <2>9 DEF View
  <1>3. CASE UNCHANGED vars
    BY <1>3 DEF vars, EInv, Whole, SelectionVisible, n, w
  <1> QED BY <1>1, <1>2, <1>3 DEF Next

(* Whatever the user does with a list, with any sort keys, window heights  *)
(* and scroll offsets, its tree, counts, marks and window agree with it.   *)
THEOREM EditableInvariant == Spec => []EInv
  <1> QED BY InitInv, NextInv, PTL DEF Spec

-----------------------------------------------------------------------------
(* What the invariant says about the tree. *)

AllIn(l, k, X) == \A i \in 1 .. k : l[i] \in X

LEMMA RunOrder ==
  ASSUME NEW l, NEW k \in Nat, NEW tr, NEW m \in Nat, NEW P, Shape(l, k, tr, m, P),
         NEW key \in [Tracks -> Int], Runs(l, k, tr, m, P, key),
         AllIn(l, k, Tracks), AllIn(tr, m, Tracks)
  PROVE  /\ \A i \in 2 .. k : key[l[i - 1]] <= key[l[i]]
         /\ \A j \in 1 .. m : P[j] \in 1 .. k /\ (P[j] = 1 \/ key[l[P[j] - 1]] # key[l[P[j]]])
         /\ \A i \in 1 .. k : i = 1 \/ key[l[i - 1]] # key[l[i]] => \E j \in 1 .. m : P[j] = i
  <1>1. /\ P[1] = 1 /\ P[m + 1] = k + 1
        /\ \A j \in 1 .. m + 1 : P[j] \in 1 .. k + 1
        /\ \A i, j \in 1 .. m + 1 : i < j => P[i] < P[j]
        /\ \A j \in 1 .. m : tr[j] = l[P[j]]
    BY DEF Shape
  <1>2. /\ \A i, j \in 1 .. m : i < j => key[tr[i]] < key[tr[j]]
        /\ \A j \in 1 .. m, i \in 1 .. k :
             P[j] <= i /\ i < P[j + 1] => key[l[i]] = key[tr[j]]
    BY DEF Runs
  <1>3. /\ \A i \in 1 .. k : key[l[i]] \in Int
        /\ \A j \in 1 .. m : key[tr[j]] \in Int
    BY DEF AllIn
  <1>4. ASSUME NEW i \in 2 .. k PROVE key[l[i - 1]] <= key[l[i]]
    <2>1. i \in 1 .. k /\ i - 1 \in 1 .. k
      OBVIOUS
    <2>2. PICK a \in 1 .. m : P[a] <= i - 1 /\ i - 1 < P[a + 1]
      BY <2>1, InARun
    <2>3. PICK b \in 1 .. m : P[b] <= i /\ i < P[b + 1]
      BY <2>1, InARun
    <2>4. key[l[i - 1]] = key[tr[a]] /\ key[l[i]] = key[tr[b]]
      BY <1>2, <2>1, <2>2, <2>3
    <2>5. ~(b < a)
      <3> SUFFICES ASSUME b < a PROVE FALSE
        OBVIOUS
      <3>1. b + 1 \in 1 .. m + 1 /\ a \in 1 .. m + 1 /\ b + 1 <= a
        OBVIOUS
      <3>2. P[b + 1] <= P[a]
        BY <3>1, NotBelow
      <3>3. P[b + 1] \in Int /\ P[a] \in Int
        BY <1>1, <3>1
      <3> QED BY <2>2, <2>3, <3>2, <3>3
    <2>6. a = b \/ a < b
      BY <2>5
    <2>7. key[tr[a]] <= key[tr[b]]
      BY <1>2, <1>3, <2>6
    <2> QED BY <2>4, <2>7
  <1>5. ASSUME NEW j \in 1 .. m
        PROVE  P[j] \in 1 .. k /\ (P[j] = 1 \/ key[l[P[j] - 1]] # key[l[P[j]]])
    <2>1. P[j] \in 1 .. k
      <3>1. j \in 1 .. m + 1 /\ m + 1 \in 1 .. m + 1 /\ j < m + 1
        OBVIOUS
      <3>2. P[j] < P[m + 1] /\ P[j] \in 1 .. k + 1
        BY <1>1, <3>1
      <3> QED BY <1>1, <3>2
    <2>2. CASE j = 1
      BY <1>1, <2>1, <2>2
    <2>3. CASE j # 1
      <3>1. j - 1 \in 1 .. m /\ j - 1 \in 1 .. m + 1 /\ j \in 1 .. m + 1 /\ j - 1 < j /\ (j - 1) + 1 = j
        BY <2>3
      <3> DEFINE i == P[j] - 1
                 c == j - 1
      <3>2. P[c] < P[j] /\ P[c] \in 1 .. k + 1
        BY <1>1, <3>1
      <3>3. i \in 1 .. k /\ P[c] <= i /\ i < P[j]
        BY <2>1, <3>2
      <3> HIDE DEF i
      <3>4. key[l[i]] = key[tr[c]]
        <4>1. c + 1 = j /\ c \in 1 .. m
          BY <3>1
        <4> HIDE DEF c
        <4> QED BY <1>2, <3>3, <4>1
      <3>5. key[tr[c]] < key[tr[j]] /\ tr[j] = l[P[j]]
        BY <1>1, <1>2, <3>1
      <3>6. key[tr[c]] \in Int /\ key[tr[j]] \in Int
        BY <1>3, <3>1
      <3>7. key[l[i]] # key[l[P[j]]]
        BY <3>4, <3>5, <3>6
      <3> QED BY <2>1, <3>7 DEF i
    <2> QED BY <2>2, <2>3
  <1>6. ASSUME NEW i \in 1 .. k, i = 1 \/ key[l[i - 1]] # key[l[i]]
        PROVE  \E j \in 1 .. m : P[j] = i
    <2>1. PICK j \in 1 .. m : P[j] <= i /\ i < P[j + 1]
      BY InARun
    <2>2. P[j] \in 1 .. k
      BY <1>5
    <2>3. ~(P[j] < i)
      <3> SUFFICES ASSUME P[j] < i PROVE FALSE
        OBVIOUS
      <3>1. i - 1 \in 1 .. k /\ P[j] <= i - 1 /\ i # 1
        BY <2>2
      <3>2. P[j + 1] \in Int
        BY <1>1
      <3>3. i - 1 < P[j + 1]
        BY <2>1, <3>1, <3>2
      <3>4. key[l[i - 1]] = key[tr[j]] /\ key[l[i]] = key[tr[j]]
        BY <1>2, <2>1, <3>1, <3>3
      <3> QED BY <1>6, <3>1, <3>4
    <2> QED BY <2>1, <2>2, <2>3
  <1> QED BY <1>4, <1>5, <1>6

LEMMA TreeSound == EInv => TreeIndexesList
  <1> SUFFICES ASSUME EInv, ~e.ub PROVE TreeIndexesList
    BY DEF TreeIndexesList
  <1> DEFINE l == e.list
             k == Len(e.list)
             tr == e.tree
             m == Len(e.tree)
             key == KeyOf(keys, info)
  <1>1. /\ e \in Lists /\ Once(l) /\ l \in Seq(Tracks) /\ k \in Nat /\ DOMAIN l = 1 .. k
        /\ info \in [Tracks -> Int]
    BY Known
  <1>2. tr \in Seq(Tracks) /\ m \in Nat /\ DOMAIN tr = 1 .. m
    BY <1>1, Parts
  <1>3. PICK P : Shape(l, k, tr, m, P) /\ (tidy => Runs(l, k, tr, m, P, key))
    BY DEF EInv, Whole, Indexed, Shaped, Running
  <1>4. /\ \A i \in 1 .. k : l[i] \in Tracks
        /\ \A j \in 1 .. m : tr[j] \in Tracks
    BY <1>1, <1>2
  <1>5. key \in [Tracks -> Int]
    BY <1>1 DEF KeyOf
  <1>6. /\ P[1] = 1 /\ P[m + 1] = k + 1
        /\ \A j \in 1 .. m + 1 : P[j] \in 1 .. k + 1
        /\ \A i, j \in 1 .. m + 1 : i < j => P[i] < P[j]
        /\ \A j \in 1 .. m : tr[j] = l[P[j]]
    BY <1>3 DEF Shape
  <1> HIDE DEF l, k, tr, m, key
  <1>7. \A j \in 1 .. m : P[j] \in 1 .. k /\ Pos(l, tr[j]) = P[j]
    <2> SUFFICES ASSUME NEW j \in 1 .. m PROVE P[j] \in 1 .. k /\ Pos(l, tr[j]) = P[j]
      OBVIOUS
    <2>1. j \in 1 .. m + 1 /\ m + 1 \in 1 .. m + 1 /\ j < m + 1
      BY <1>2
    <2>2. P[j] < P[m + 1] /\ P[j] \in 1 .. k + 1
      BY <1>6, <2>1
    <2>3. P[j] \in 1 .. k
      BY <1>1, <1>6, <2>2
    <2>4. Pos(l, l[P[j]]) = P[j]
      BY <1>1, <2>3, PlaceOf DEF k, l
    <2> QED BY <1>6, <2>3, <2>4
  <1>8. \A j \in 1 .. m : Contains(l, tr[j])
    BY <1>6, <1>7 DEF Contains, k, l
  <1>9. \A i, j \in 1 .. m : i < j => Pos(l, tr[i]) < Pos(l, tr[j])
    <2> SUFFICES ASSUME NEW i \in 1 .. m, NEW j \in 1 .. m, i < j
                 PROVE  Pos(l, tr[i]) < Pos(l, tr[j])
      OBVIOUS
    <2>1. i \in 1 .. m + 1 /\ j \in 1 .. m + 1
      BY <1>2
    <2> QED BY <1>6, <1>7, <2>1
  <1>10. k > 0 => Contains(tr, l[1])
    <2> SUFFICES ASSUME k > 0 PROVE Contains(tr, l[1])
      OBVIOUS
    <2>1. m # 0
      BY <1>1, <1>6
    <2>2. 1 \in 1 .. m
      BY <1>2, <2>1
    <2>3. tr[1] = l[1]
      BY <1>6, <2>2
    <2> QED BY <2>2, <2>3 DEF Contains, m, tr
  <1>11. ASSUME tidy
         PROVE  /\ \A i \in 2 .. k : Cmp(keys, info, l[i - 1], l[i]) <= 0
                /\ ToSet(tr) = {l[i] : i \in RunHeads}
    <2>1. /\ \A i \in 2 .. k : key[l[i - 1]] <= key[l[i]]
          /\ \A j \in 1 .. m : P[j] \in 1 .. k /\ (P[j] = 1 \/ key[l[P[j] - 1]] # key[l[P[j]]])
          /\ \A i \in 1 .. k : i = 1 \/ key[l[i - 1]] # key[l[i]] => \E j \in 1 .. m : P[j] = i
      <3>1. Shape(l, k, tr, m, P) /\ Runs(l, k, tr, m, P, key)
        BY <1>3, <1>11
      <3>2. k \in Nat /\ m \in Nat
        BY <1>1, <1>2
      <3>3. AllIn(l, k, Tracks) /\ AllIn(tr, m, Tracks)
        BY <1>4 DEF AllIn
      <3> QED BY <1>5, <3>1, <3>2, <3>3, RunOrder
    <2>2. ASSUME NEW i \in 2 .. k
          PROVE  /\ Cmp(keys, info, l[i - 1], l[i]) = key[l[i - 1]] - key[l[i]]
                 /\ key[l[i - 1]] \in Int /\ key[l[i]] \in Int
      <3>1. i \in 1 .. k /\ i - 1 \in 1 .. k
        BY <1>1
      <3>2. l[i] \in Tracks /\ l[i - 1] \in Tracks
        BY <1>4, <3>1
      <3>3. Cmp(keys, info, l[i - 1], l[i]) = key[l[i - 1]] - key[l[i]]
        BY <1>1, <3>2, Compared DEF key
      <3> QED BY <1>5, <3>2, <3>3
    <2>3. \A i \in 2 .. k : Cmp(keys, info, l[i - 1], l[i]) <= 0
      BY <2>1, <2>2
    <2>4. \A i : i \in RunHeads <=> i \in 1 .. k /\ (i = 1 \/ key[l[i - 1]] # key[l[i]])
      <3> SUFFICES ASSUME NEW i \in 1 .. k, i # 1
                   PROVE  Cmp(keys, info, l[i - 1], l[i]) # 0 <=> key[l[i - 1]] # key[l[i]]
        BY DEF RunHeads, n, k, l
      <3>1. i \in 2 .. k
        BY <1>1
      <3> QED BY <2>2, <3>1
    <2>5. ToSet(tr) \subseteq {l[i] : i \in RunHeads}
      <3> SUFFICES ASSUME NEW j \in 1 .. m PROVE tr[j] \in {l[i] : i \in RunHeads}
        BY <1>2 DEF ToSet
      <3>1. P[j] \in RunHeads
        BY <2>1, <2>4
      <3> QED BY <1>6, <3>1
    <2>6. {l[i] : i \in RunHeads} \subseteq ToSet(tr)
      <3> SUFFICES ASSUME NEW i \in RunHeads PROVE l[i] \in ToSet(tr)
        OBVIOUS
      <3>1. PICK j \in 1 .. m : P[j] = i
        BY <2>1, <2>4
      <3>2. tr[j] = l[i]
        BY <1>6, <3>1
      <3> QED BY <1>2, <3>2 DEF ToSet
    <2> QED BY <2>3, <2>5, <2>6
  <1> QED BY <1>8, <1>9, <1>10, <1>11 DEF TreeIndexesList, n, l, k, tr, m

(* The types, and the counts of tracks and of marks. *)
LEMMA TypesSound == EInv => TypeOK
  <1> SUFFICES ASSUME EInv PROVE TypeOK
    OBVIOUS
  <1>1. /\ e \in Lists /\ Once(e.list) /\ Over(Len(e.list), e.win)
        /\ DOMAIN e.list = 1 .. Len(e.list) /\ e.nr_tracks = Len(e.list)
    BY Known
  <1>2. e.marked \subseteq ToSet(e.list) /\ e.nr_marked = Cardinality(e.marked)
    BY DEF EInv, Whole
  <1>3. IsInjective(e.list)
    BY <1>1 DEF IsInjective, Once
  <1>4. /\ e.list \in Seq(Tracks) /\ e.tree \in Seq(Tracks) /\ e.nodes \subseteq Tracks
        /\ e.ub \in BOOLEAN
    BY <1>1, Parts
  <1>5. e.win.top \in 0 .. Len(e.list) /\ e.win.sel \in 0 .. Len(e.list) /\ e.win.bug \in BOOLEAN
    BY <1>1 DEF Over, Windows
  <1> QED BY <1>1, <1>2, <1>3, <1>4, <1>5 DEF EInv, TypeOK, n, w

(* The red-black tree of track.c keeps indexing the list through every     *)
(* addition, removal, sort, shuffle and move, for as long as no erased     *)
(* node was used again, and the counts of tracks and marks stay right.     *)
THEOREM ListIsSound == Spec => []ListSound
  <1>1. EInv => ListSound
    BY TypesSound, TreeSound DEF ListSound
  <1> QED BY <1>1, EditableInvariant, PTL

(* window.c keeps the selected row of a list that is not empty on the      *)
(* screen, whatever the user does, for every height and scroll offset.     *)
THEOREM SelectionIsVisible == Spec => []SelectionVisible
  <1>1. EInv => SelectionVisible
    BY DEF EInv
  <1> QED BY <1>1, EditableInvariant, PTL
=====
