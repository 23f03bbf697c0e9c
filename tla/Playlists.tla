------------------------------ MODULE Playlists -----------------------------
(***************************************************************************)
(* The playlists (pl.c): which one is visible, marked (where new tracks    *)
(* go) and playing, the track that plays, and the commands of the playlist *)
(* view.  The list of one playlist is module Editable's subject: here it   *)
(* is the sequence of its tracks, with the marked ones and the selected    *)
(* one.  Deleting a playlist while the worker still adds to it is module   *)
(* Jobs' subject.                                                          *)
(***************************************************************************)
EXTENDS TrackOrder, FiniteSets, FiniteSetsExt

CONSTANTS
  Tracks,     \* struct simple_track objects, numbers; 0 is NULL
  Info,       \* Info[t]: the track_info that t is made for
  Names,      \* names of playlists and of playlist files
  MaxTries    \* pl_create_name: how many names are tried

VARIABLE
  p     \* the playlists, pl_head, and the pointers to them

(* Pointers are numbers and 0 is NULL; so is the name of no playlist. *)
ConstantsSound ==
  /\ Tracks \subseteq Nat \ {0} /\ MaxTries \in Nat
  /\ Names \subseteq Nat \ {0} /\ Names # {} /\ IsFiniteSet(Names)

(* A playlist is identified by its address, one of Ids. *)
Ids == 1 .. Cardinality(Names)
Pl(name) == [name |-> name, list |-> <<>>, shuf |-> <<>>, marks |-> {}]
None == [name |-> 0, list |-> <<>>, shuf |-> <<>>, marks |-> {}]

(* pl_init with no playlist file: pl_create_default *)
Init ==
  p = [pl |-> [i \in Ids |-> IF i = 1 THEN Pl(1) ELSE None], head |-> <<1>>,
       visible |-> 1, marked |-> 1, playing |-> 0, track |-> 0,
       cursor |-> FALSE, sel |-> 0, ub |-> FALSE]

Visible(s) == s.pl[s.visible]
pl_empty(s, i) == s.pl[i].list = <<>>
InPlay(s) == s.playing # 0 /\ Contains(s.pl[s.playing].list, s.track)

(* Reading pl_playing_track when it was freed. *)
Uses(s) == [s EXCEPT !.ub = @ \/ (s.track # 0 /\ ~InPlay(s))]

Do(s) == ~p.ub /\ p' = s

-----------------------------------------------------------------------------
(* Tracks. *)

(* editable_take_ownership through pl_list_sel_changed *)
Show(s, i) ==
  IF s.visible = i THEN s
  ELSE [s EXCEPT !.visible = i, !.sel = IF pl_empty(s, i) THEN 0 ELSE Head(s.pl[i].list)]

pl_add_track(i, t) ==
  /\ Contains(p.head, i)
  /\ \A j \in Ids : ~Contains(p.pl[j].list, t)
  /\ \E n \in 0 .. Len(p.pl[i].shuf) :
       Do([p EXCEPT !.pl[i] = [p.pl[i] EXCEPT !.list = Append(@, t), !.shuf = InsertAt(@, n + 1, t)],
                    !.sel = IF i = p.visible /\ @ = 0 THEN t ELSE @])

(* What the operators on the playlists are applied to one after another. *)
Playlists ==
  [pl : [Ids -> [name : Nat, list : Seq(Tracks), shuf : Seq(Tracks), marks : SUBSET Tracks]],
   head : Seq(Ids), visible : Ids, marked : Ids, playing : Ids \cup {0}, track : Tracks \cup {0},
   cursor : BOOLEAN, sel : Tracks \cup {0}, ub : BOOLEAN]

(* editable_remove_track and pl_free_track *)
Removed(s, i, t) ==
  LET l == s.pl[i].list
      n == Place(l, t)
      next == IF n < Len(l) THEN l[n + 1] ELSE IF n > 1 THEN l[n - 1] ELSE 0
      without(q) == Select(q, ToSet(q) \ {t})
  IN [s EXCEPT !.pl[i] = [s.pl[i] EXCEPT !.list = without(@), !.shuf = without(@), !.marks = @ \ {t}],
               !.sel = IF @ = t THEN next ELSE @]
RemoveAll(s, i, ts) == Fold([x \in Playlists \X Tracks |-> Removed(x[1], i, x[2])], s, ts)

pl_win_next(s) == [s EXCEPT !.cursor = ~@ /\ ~pl_empty(s, s.visible)]

(* pl_delete_selected_track: the marked tracks or the selected one; only   *)
(* the selected one is compared with the playing one.                      *)
pl_delete_selected_track(s) ==
  LET v == Visible(s)
      gone == IF v.marks # {} THEN Select(v.list, v.marks)
              ELSE IF s.sel # 0 THEN <<s.sel>> ELSE <<>>
      x == [s EXCEPT !.track = IF @ = s.sel THEN 0 ELSE @]
      y == RemoveAll(x, x.visible, gone)
  IN IF pl_empty(y, y.visible) THEN pl_win_next(y) ELSE y

pl_clear_visible_pl(s) ==
  LET x == IF s.cursor THEN pl_win_next(s) ELSE s
      y == [x EXCEPT !.track = IF x.visible = x.playing THEN 0 ELSE @]
  IN RemoveAll(y, y.visible, Visible(y).list)

pl_clear == p.cursor /\ Do(pl_clear_visible_pl(p))
pl_win_update == Do(pl_clear_visible_pl(p))

(* pl_update_track with a file that is gone: editable_remove_track from    *)
(* every playlist                                                          *)
pl_update_track(i) ==
  LET gone(j) == Select(p.pl[j].list, {t \in Tracks : Info[t] = i})
  IN /\ \E j \in Ids : gone(j) # <<>>
     /\ Do(Fold([x \in Playlists \X Ids |-> RemoveAll(x[1], x[2], gone(x[2]))], p, [j \in Ids |-> j]))

-----------------------------------------------------------------------------
(* Playlists. *)

pl_name_exists(n) == \E i \in ToSet(p.head) : p.pl[i].name = n
Free == {i \in Ids : p.pl[i] = None}

Added(n) ==
  LET i == CHOOSE j \in Free : TRUE
  IN [p EXCEPT !.pl[i] = Pl(n), !.head = Append(@, i)]

pl_create(n) == Free # {} /\ ~pl_name_exists(n) /\ Do(Added(n))

(* pl_import: the first of the names n, n.1, n.2, ... that is free *)
pl_create_name(n) ==
  LET tries == [k \in 0 .. MaxTries - 1 |-> IF k = 0 THEN n ELSE 100 * n + k]
      free == {k \in DOMAIN tries : ~pl_name_exists(tries[k])}
  IN IF free = {} THEN {} ELSE {tries[Min(free)]}
pl_import(n) == Free # {} /\ \E name \in pl_create_name(n) : Do(Added(name))

Fault_RenameUnchecked(n) == Do([p EXCEPT !.pl[p.visible].name = n])

pl_rename_selected_pl(n) ==
  /\ ~pl_name_exists(n)
  /\ Do([p EXCEPT !.pl[p.visible].name = n])

Fault_DeleteKeepsMarked(s) ==
  LET i == s.visible
      n == Place(s.head, i)
      next == IF n < Len(s.head) THEN s.head[n + 1] ELSE s.head[n - 1]
      x == Show(s, next)
  IN [x EXCEPT !.head = Select(@, Ids \ {i}), !.pl[i] = None,
               !.playing = IF @ = i THEN 0 ELSE @, !.track = IF s.playing = i THEN 0 ELSE @]

(* The row vanishes, so that another playlist becomes visible; it is also  *)
(* marked if the deleted one was.  Never the last playlist.                *)
pl_delete_selected_pl(s) ==
  LET i == s.visible
      n == Place(s.head, i)
      next == IF n < Len(s.head) THEN s.head[n + 1] ELSE s.head[n - 1]
      x == Show(s, next)
  IN [x EXCEPT !.head = Select(@, Ids \ {i}), !.pl[i] = None,
               !.marked = IF @ = i THEN x.visible ELSE @,
               !.playing = IF @ = i THEN 0 ELSE @, !.track = IF s.playing = i THEN 0 ELSE @]

pl_win_remove ==
  \/ p.cursor /\ Do(pl_delete_selected_track(p))
  \/ ~p.cursor /\ Len(p.head) > 1 /\ Do(pl_delete_selected_pl(p))

(* editable_toggle_mark, pl_mark_selected_pl *)
pl_win_toggle ==
  \/ /\ p.cursor /\ p.sel # 0
     /\ Do([p EXCEPT !.pl[p.visible].marks = SymDiff(@, {p.sel})])
  \/ ~p.cursor /\ Do([p EXCEPT !.marked = p.visible])

(* pl_mark and pl_invert_marks, which do the same, and pl_unmark *)
pl_mark ==
  /\ p.cursor
  /\ LET v == Visible(p)
     IN \/ Do([p EXCEPT !.pl[p.visible].marks = ToSet(v.list) \ @])
        \/ Do([p EXCEPT !.pl[p.visible].marks = {}])

pl_set_marked_pl_by_name(n) ==
  \E i \in ToSet(p.head) : p.pl[i].name = n /\ Do([p EXCEPT !.marked = i])

(* pl_rand, pl_win_mv_after, pl_win_mv_before, pl_set_sort_str: the list   *)
(* is brought into another order                                           *)
Reorder ==
  \E o \in SetToSeqs(ToSet(Visible(p).list)) :
    p.cursor /\ Do([p EXCEPT !.pl[p.visible].list = o])

(* The selection moves in one of the windows; win-next. *)
MoveSel ==
  \/ \E i \in ToSet(p.head) : ~p.cursor /\ Do(Show(p, i))
  \/ \E t \in ToSet(Visible(p).list) : p.cursor /\ Do([p EXCEPT !.sel = t])
  \/ Do(pl_win_next(p))

(* A match of the search: a playlist's name (t = 0) or a track. *)
pl_search_matches(i, t) ==
  /\ Contains(p.head, i) /\ (t = 0 \/ Contains(p.pl[i].list, t))
  /\ LET x == Show(p, i)
     IN Do([x EXCEPT !.sel = IF t = 0 THEN @ ELSE t, !.cursor = t # 0])

-----------------------------------------------------------------------------
(* Playing.  o holds the options shuffle, repeat, auto_reshuffle, follow.  *)

Options == [shuffle : BOOLEAN, repeat : BOOLEAN, auto_reshuffle : BOOLEAN, follow : BOOLEAN]

pl_select_playing_track(s) ==
  IF s.track = 0 THEN s
  ELSE [Show(Uses(s), s.playing) EXCEPT !.sel = s.track, !.cursor = TRUE]

pl_play_track(s, i, t, follow) ==
  LET x == [s EXCEPT !.playing = i, !.track = t]
  IN IF follow THEN pl_select_playing_track(x) ELSE x

All(l) == ToSet(l.list)

(* shuffle_list_get_next(root, NULL): the first of the shuffled tracks *)
ShuffledFirst(s, i, o) ==
  {<<[s EXCEPT !.pl[i].shuf = q[1]], CHOOSE t \in q[2] : TRUE>> :
     q \in shuffle_list_get_next(s.pl[i].shuf, FALSE, {}, All(s.pl[i]), FALSE, o.auto_reshuffle)}

pl_play_first_in_pl_playing(s, o) ==
  LET i == IF s.playing = 0 THEN s.visible ELSE s.playing
  IN IF pl_empty(s, i) THEN {[s EXCEPT !.playing = 0]}
     ELSE IF o.shuffle
     THEN {pl_play_track(q[1], i, q[2], o.follow) : q \in ShuffledFirst(s, i, o)}
     ELSE {pl_play_track(s, i, Head(s.pl[i].list), o.follow)}

(* pl_goto_next and, backwards, pl_goto_prev *)
pl_goto_generic(s, back, o) ==
  LET i == s.playing
      l == s.pl[i]
      shuffled == {<<[s EXCEPT !.pl[i].shuf = q[1]], q[2]>> :
                     q \in shuffle_list_get_next(l.shuf, back, {s.track}, All(l), o.repeat, o.auto_reshuffle)}
      normal == {<<s, simple_list_get_next(Dir(back, l.list), {s.track}, All(l), TRUE, o.repeat)>>}
  IN IF s.track = 0 THEN pl_play_first_in_pl_playing(s, o)
     ELSE IF ~InPlay(s) THEN {Uses(s)}
     ELSE {IF q[2] = {} THEN q[1] ELSE pl_play_track(q[1], i, CHOOSE t \in q[2] : TRUE, o.follow) :
             q \in IF o.shuffle THEN shuffled ELSE normal}

pl_goto_next(back, o) == \E s \in pl_goto_generic(p, back, o) : Do(s)

Fault_PlayRowInPlace(s, o) ==
  {pl_play_track(s, s.visible, s.sel, o.follow) : t \in IF s.sel = 0 THEN {} ELSE {s.sel}}

(* pl_play_selected_row: the selected track, or the first shuffled one of  *)
(* the selected playlist.  If the playlist was playing, the track moves    *)
(* right behind the one that played.                                       *)
pl_play_selected_row(s, o) ==
  LET first == o.shuffle /\ ~s.cursor
      chosen == IF first THEN ShuffledFirst(s, s.visible, o) ELSE {<<s, s.sel>>}
      behind(x) == IF InPlay(s) THEN [x.pl EXCEPT ![x.playing].shuf = shuffle_insert(@, {s.track}, x.track)]
                   ELSE x.pl
      moved(x) == IF o.shuffle /\ s.playing = x.playing /\ s.track # 0
                  THEN [Uses(s) EXCEPT !.pl = behind(x), !.playing = x.playing, !.track = x.track,
                          !.sel = x.sel, !.visible = x.visible]
                  ELSE x
  IN IF pl_empty(s, s.visible) THEN {}
     ELSE {[moved(pl_play_track(q[1], s.visible, q[2], first \/ o.follow)) EXCEPT !.cursor = s.cursor] :
             q \in chosen}

PlayRow(o) == \E s \in pl_play_selected_row(p, o) : Do(s)

pl_reshuffle ==
  /\ p.playing # 0
  /\ \E s \in shuffle_list_reshuffle(p.pl[p.playing].shuf) :
       Do(
          [Uses(p) EXCEPT !.pl[p.playing].shuf =
             IF p.track = 0 \/ ~InPlay(p) THEN s ELSE shuffle_insert(s, {}, p.track)])
-----------------------------------------------------------------------------
Next ==
  \/ \E i \in Ids, t \in Tracks : pl_add_track(i, t)
  \/ pl_clear \/ pl_win_update
  \/ \E i \in {Info[t] : t \in Tracks} : pl_update_track(i)
  \/ \E n \in Names : pl_create(n) \/ pl_import(n) \/ pl_rename_selected_pl(n) \/ pl_set_marked_pl_by_name(n)
  \/ pl_win_remove \/ pl_win_toggle \/ pl_mark \/ Reorder \/ MoveSel
  \/ \E i \in Ids, t \in Tracks \cup {0} : pl_search_matches(i, t)
  \/ Do(pl_select_playing_track(p))
  \/ \E o \in Options : PlayRow(o) \/ \E back \in BOOLEAN : pl_goto_next(back, o)
  \/ pl_reshuffle

Spec == Init /\ [][Next]_p
-----------------------------------------------------------------------------
(* Correctness. *)

(* The visible and the marked playlist are never NULL, the playing one     *)
(* exists if there is one, names and so the files of playlists differ, the *)
(* shuffled order holds the tracks of the list, and the selected track is  *)
(* one of the visible list, whatever is deleted, renamed and searched for. *)
PointersHold ==
  /\ {p.visible, p.marked} \subseteq ToSet(p.head) /\ p.playing \in ToSet(p.head) \cup {0}
  /\ \A i, j \in ToSet(p.head) : p.pl[i].name = p.pl[j].name => i = j
  /\ \A i \in Ids : /\ ToSet(p.pl[i].shuf) = ToSet(p.pl[i].list)
                    /\ Len(p.pl[i].shuf) = Len(p.pl[i].list) /\ IsInjective(p.pl[i].list)
                    /\ p.pl[i].marks \subseteq ToSet(p.pl[i].list)
  /\ ~p.ub => IF Visible(p).list = <<>> THEN p.sel = 0 ELSE Contains(Visible(p).list, p.sel)

(* Playing a row with shuffle puts the track at the current position of    *)
(* the shuffled order: the previous-track command goes back to the track   *)
(* that played before, and no other playlist's order is touched.           *)
RowFollowsPlaying ==
  p.track # 0 /\ InPlay(p) /\ ~p.ub =>
    \A o \in {x \in Options : x.shuffle} : \A s \in pl_play_selected_row(p, o) :
      s.playing = p.playing /\ s.track # p.track /\ ~s.ub =>
        LET order == s.pl[s.playing].shuf IN Place(order, s.track) = Place(order, p.track) + 1

(* Both: what the pointers of the playlists are good for. *)
PlaylistsSound == PointersHold /\ RowFollowsPlaying

(* "pl_playing_track != NULL implies pl_playing != NULL and                *)
(* pl_playing_track is in pl_playing" (pl.c): removing marked tracks or    *)
(* tracks whose file is gone frees the playing track without a look at it. *)
PlayingInPlaylist == p.track # 0 => InPlay(p)
=============================================================================
