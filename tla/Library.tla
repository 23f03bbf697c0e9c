------------------------------ MODULE Library -------------------------------
(***************************************************************************)
(* The library (lib.c): the table of all its tracks, the views of those    *)
(* that pass the filters (the sorted list, the tree of module LibTree and  *)
(* the two shuffled orders), the current track, and the choice of the next *)
(* and of the previous one.                                                *)
(*                                                                         *)
(* The sorted list is kept in the order of Meta[t].key (module Editable    *)
(* models the list itself).  A filter is the set of the tracks that match  *)
(* it; a live filter is the string the user typed.                         *)
(***************************************************************************)
EXTENDS LibTree

CONSTANTS
  Filters,      \* filters the user can set: sets of tracks
  LiveFilters,  \* strings the user can type as a live filter
  Words,        \* texts the user can search for
  Flags         \* which of the options auto_expand_albums_* the user changes

NoFilter == {0}      \* filter or add_filter is NULL
NoLive == <<>>       \* lib_live_filter is NULL

VARIABLES
  lib,      \* the library with its views and windows
  filter,   \* the filter and the live filter; grown is a history of the
            \* latter: see Regrown
  stored,   \* cur_track_ti
  expand    \* auto_expand_albums_follow, _search and _selcur

vars == <<lib, filter, stored, expand>>

Init ==
  /\ lib = EmptyLib
  /\ filter = [all |-> NoFilter, live |-> NoLive, grown |-> FALSE]
  /\ stored = 0
  /\ expand = [follow |-> TRUE, search |-> TRUE, selcur |-> TRUE]

-----------------------------------------------------------------------------
(* Filters.  A live filter that starts with ~ is an expression: ~t and a   *)
(* word, ~y and a year, or both.                                           *)

Occurs(w, s) == \E i \in 0 .. Len(s) - Len(w) : SubSeq(s, i + 1, i + Len(w)) = w
expr_is_short(s) == s # <<>> /\ s[1] \in {"~t", "~y"}

(* The terms of an expression: the places of its ~ and what follows each. *)
Terms(s) ==
  {[key |-> s[i], val |-> SubSeq(s, i + 1, j - 1)] :
     <<i, j>> \in {p \in (1 .. Len(s)) \X (2 .. Len(s) + 1) :
       /\ p[1] < p[2] /\ s[p[1]] \in {"~t", "~y"}
       /\ p[2] <= Len(s) => s[p[2]] \in {"~t", "~y"}
       /\ \A k \in p[1] + 1 .. p[2] - 1 : s[k] \notin {"~t", "~y"}}}

LiveMatches(s, t) ==
  IF expr_is_short(s)
  THEN \A x \in Terms(s) : IF x.key = "~t" THEN Occurs(x.val, Meta[t].title)
                           ELSE x.val = Meta[t].year
  ELSE Occurs(s, Meta[t].title)

(* Two terms make an EXPR_AND, of which only the right one is looked at. *)
LastKey(s) == s[Max({i \in DOMAIN s : s[i] \in {"~t", "~y"}})]
expr_is_harmless(s) == LastKey(s) # "~y"

is_filtered(f, t) ==
  \/ f.live # NoLive /\ ~LiveMatches(f.live, t)
  \/ f.all # NoFilter /\ t \notin f.all

-----------------------------------------------------------------------------
(* The views. *)

File(t) == Meta[t].file
Holds(l, t) == \E u \in l.hash : File(u) = File(t)

(* editable_remove_track and its callback free_lib_track *)
Freed(l, t, fromHash) ==
  LET x == [l EXCEPT !.cur = IF @ = t THEN 0 ELSE @,
                     !.hash = IF fromHash THEN @ \ {t} ELSE @,
                     !.shuf = SelectSeq(@, LAMBDA u : u # t),
                     !.sorted = SelectSeq(@, LAMBDA u : u # t)]
  IN tree_remove(x, t)
FreeAll(l, ts, fromHash) == FoldLeft(LAMBDA x, t : Freed(x, t, fromHash), l, ts)

(* lib_find_track: by file name *)
lib_find_track(l, t) == SelectSeq(l.sorted, LAMBDA u : t # 0 /\ File(u) = File(t))

Alive == ~lib.bug

Fault_AddBeforeFilter(t, add_filter) ==
  /\ Alive
  /\ \E x \in views_add_track([lib EXCEPT !.hash = @ \cup {t}], t) :
       lib' = IF Holds(lib, t) THEN lib ELSE x
  /\ UNCHANGED <<filter, stored, expand>>

(* add_filter, which lib_set_add_filter sets, is read only here. *)
lib_add_track(t, add_filter) ==
  /\ Alive
  /\ add_filter # NoFilter => t \in add_filter
  /\ ~Holds(lib, t)
  /\ LET x == [lib EXCEPT !.hash = @ \cup {t}]
     IN lib' \in IF is_filtered(filter, t) THEN {x} ELSE views_add_track(x, t)
  /\ UNCHANGED <<filter, stored, expand>>

lib_remove(t) ==
  /\ Alive
  /\ Contains(lib.sorted, t)
  /\ lib' = Freed(lib, t, TRUE)
  /\ UNCHANGED <<filter, stored, expand>>

(* A file that changed: job_handle_update_cache_result *)
Replaced(l, t, add_filter) ==
  LET x == [l EXCEPT !.hash = @ \cup {t}]
  IN IF add_filter # NoFilter /\ t \notin add_filter THEN {l}
     ELSE IF is_filtered(filter, t) THEN {x} ELSE views_add_track(x, t)

UpdateTrack(old, new, add_filter) ==
  /\ Alive
  /\ Contains(lib.sorted, old) /\ File(old) = File(new) /\ old # new
  /\ lib' \in Replaced(Freed(lib, old, TRUE), new, add_filter)
  /\ UNCHANGED <<filter, stored, expand>>

(* view_clear of the library: editable_clear and lib_clear_store *)
lib_clear_store ==
  /\ Alive /\ lib.hash # {}
  /\ lib' = [FreeAll(lib, lib.sorted, TRUE) EXCEPT !.hash = {}]
  /\ filter' = [filter EXCEPT !.grown = FALSE]
  /\ UNCHANGED <<stored, expand>>

-----------------------------------------------------------------------------
(* Setting a filter.  The current track is stored and found again. *)

Fault_FilterForgetsCurrent(l, f, clear_before) ==
  LET gone == SelectSeq(l.sorted, LAMBDA t : clear_before \/ is_filtered(f, t))
      x == FreeAll(l, gone, FALSE)
      back == IF clear_before THEN SelectSeq(SetToSeq(l.hash), LAMBDA t : ~is_filtered(f, t))
              ELSE <<>>
      top(y) == SelectRow([y EXCEPT !.win = "tree"], IF y.tree = <<>> THEN NoRow ELSE Head(TreeRows(y)))
  IN {[top(y) EXCEPT !.cur = 0] : y \in ViewsAddAll(x, back)}

do_lib_filter(l, f, clear_before) ==
  LET st == IF l.cur # 0 THEN l.cur ELSE stored
      gone == SelectSeq(l.sorted, LAMBDA t : clear_before \/ is_filtered(f, t))
      x == FreeAll(l, gone, FALSE)
      back == IF clear_before THEN SelectSeq(SetToSeq(l.hash), LAMBDA t : ~is_filtered(f, t))
              ELSE <<>>
      top(y) == SelectRow([y EXCEPT !.win = "tree"], IF y.tree = <<>> THEN NoRow ELSE Head(TreeRows(y)))
      again(y) == IF y.cur # 0 \/ lib_find_track(y, st) = <<>> THEN y
                  ELSE [y EXCEPT !.cur = Head(lib_find_track(y, st))]
  IN {again(top(y)) : y \in ViewsAddAll(x, back)}

Stores == stored' = IF lib.cur # 0 THEN lib.cur ELSE stored

lib_set_filter(f) ==
  /\ Alive
  /\ LET g == [all |-> f, live |-> NoLive, grown |-> FALSE]
     IN /\ filter' = g
        /\ lib' \in do_lib_filter(lib, g, filter.live # NoLive \/ filter.all # NoFilter)
  /\ Stores /\ UNCHANGED expand

Fault_NeverClearsBefore(s) == FALSE

(* "determine if filter results could grow" *)
do_clear_before(s) ==
  IF filter.live = NoLive THEN FALSE
  ELSE IF s = NoLive \/ expr_is_short(s) # expr_is_short(filter.live) THEN TRUE
  ELSE IF ~expr_is_short(s) \/ expr_is_harmless(s) THEN ~Occurs(filter.live, s)
  ELSE TRUE

(* The case that do_clear_before overlooks, as only the last term of an    *)
(* expression is looked at: a year before it has been typed on, as from    *)
(* ~y1 to ~y12~tb, and other tracks match.                                 *)
Regrown(s) ==
  /\ expr_is_short(filter.live) /\ expr_is_short(s) /\ Occurs(filter.live, s)
  /\ LastKey(s) # "~y"
  /\ \E x \in Terms(filter.live) : x.key = "~y" /\ x \notin Terms(s)

(* get_sel_track and set_sel_track in the tree view *)
Restored(l, t, x) ==
  IF t = 0 \/ lib_find_track(x, t) = <<>> THEN x
  ELSE tree_sel_track(x, Head(lib_find_track(x, t)), expand.selcur)

(* A string expands and selects what matches, NULL restores the selection. *)
lib_set_live_filter(s) ==
  /\ Alive
  /\ s # filter.live
  /\ LET g == [filter EXCEPT !.live = s,
                            !.grown = ~do_clear_before(s) /\ (@ \/ Regrown(s))]
         titles == {t \in Tracks : LiveMatches(s, t)}
         sel == IF lib.tree = <<>> THEN 0 ELSE tree_get_selected(lib)
         first(x) == IF x.tree = <<>> THEN x
                     ELSE tree_sel_track(x, Head(TreeTracks(x)), expand.search)
         after(x) == IF s = NoLive THEN Restored(lib, sel, x)
                     ELSE IF ~expr_is_short(s)
                     THEN tree_expand_matching(x, {}, titles, expand.search)
                     ELSE IF Contains(s, "~t") THEN first(x) ELSE x
     IN /\ filter' = g
        /\ lib' \in {after(x) : x \in do_lib_filter(lib, g, do_clear_before(s))}
  /\ Stores /\ UNCHANGED expand

-----------------------------------------------------------------------------
(* Playing.  Module PlayOrder models which track comes next. *)

(* lib_set_track: with follow, the windows show the current track *)
lib_set_track(l, t, follow) ==
  LET x == [l EXCEPT !.cur = t]
  IN IF t = 0 THEN l ELSE IF follow THEN tree_sel_track(x, t, expand.follow) ELSE x

(* lib_goto_next, _prev, _next_album, _prev_album: no track or a visible   *)
(* one; BUG_ON(lib_cur_track != NULL) when there is no tree                *)
lib_goto(t, follow) ==
  /\ Alive
  /\ t \in ToSet(lib.sorted) \cup {0}
  /\ lib' = IF lib.tree = <<>> THEN [lib EXCEPT !.bug = lib.cur # 0]
            ELSE lib_set_track(lib, t, follow)
  /\ UNCHANGED <<filter, stored, expand>>

-----------------------------------------------------------------------------
(* Commands of the views. *)

Tree(l) == Alive /\ lib' = l /\ UNCHANGED <<filter, stored, expand>>

tree_activate_selected == lib.tree # <<>> /\ Tree([lib EXCEPT !.cur = tree_get_selected(lib)])
tree_remove_sel == Tree(FreeAll(lib, SelTracks(lib), TRUE))
tree_sel_current == lib.cur # 0 /\ Tree(tree_sel_track(lib, lib.cur, expand.selcur))

(* The user moves the selection in one of the windows. *)
MoveSel ==
  \/ \E r \in ToSet(TreeRows(lib)) : lib.win = "tree" /\ Tree(SelectRow(lib, r))
  \/ \E t \in ToSet(TrackRows(lib)) \ {0} : lib.win = "track" /\ Tree([lib EXCEPT !.ksel = t])

ToggleWindows == Tree(tree_toggle_expand_artist(lib)) \/ Tree(tree_toggle_active_window(lib))

(* tree_search_matches.  The artist that the last match expanded is looked *)
(* up by a copy of its name and collapsed.                                 *)
tree_search_matches(t) ==
  LET id == Home(lib, t).art
      was == lib.tree[Artist(lib, id)].expanded
      old == {i \in DOMAIN lib.tree : ArtistKey(lib, lib.tree[i]) = lib.collapse /\ lib.tree[i].id # id}
      shut == IF \E i \in old : lib.tree[i].expanded
              THEN tree_set_expand_artist(lib, lib.tree[CHOOSE i \in old : TRUE].id, FALSE) ELSE lib
      c == IF lib.collapse = 0 \/ old # {}
           THEN (IF was THEN 0 ELSE ArtistKey(lib, lib.tree[Artist(lib, id)])) ELSE lib.collapse
      found == [shut EXCEPT !.collapse = c, !.tree[Artist(lib, id)].expanded = TRUE]
      x == IF expand.search THEN SelectRow(found, Home(lib, t)) ELSE SelectRow(lib, Row(id, 0))
  IN Tree([x EXCEPT !.ksel = t, !.bug = @ \/ TrackRows(x) = <<>>])

tree_search == \E w \in Words, t \in ToSet(lib.sorted) : Occurs(w, Meta[t].title) /\ tree_search_matches(t)

set_smart_artist_sort == Alive /\ lib' \in tree_sort_artists([lib EXCEPT !.smart = ~@])
                         /\ UNCHANGED <<filter, stored, expand>>

(* Options that exclude each other: without show_all_tracks a collapsed    *)
(* artist has no tracks to select, so that albums must be expanded.        *)
set_show_all_tracks(l, v) ==
  IF l.show_all = v THEN l
  ELSE LET x == [l EXCEPT !.show_all = v]
       IN IF x.tsel.alb # 0 THEN x ELSE tree_sel_update(x)

SetShowAll(v) ==
  /\ Alive /\ lib' = set_show_all_tracks(lib, v)
  /\ expand' = IF v THEN expand ELSE [k \in DOMAIN expand |-> TRUE]
  /\ UNCHANGED <<filter, stored>>

Fault_SetExpandAlone(k) ==
  /\ Alive /\ expand' = [expand EXCEPT ![k] = ~@]
  /\ UNCHANGED <<lib, filter, stored>>

set_auto_expand_albums(k) ==
  /\ Alive /\ expand' = [expand EXCEPT ![k] = ~@]
  /\ lib' = IF expand[k] THEN set_show_all_tracks(lib, TRUE) ELSE lib
  /\ UNCHANGED <<filter, stored>>
-----------------------------------------------------------------------------
Next ==
  \/ \E t \in Tracks, f \in Filters \cup {NoFilter} : lib_add_track(t, f)
  \/ \E t \in Tracks : lib_remove(t)
  \/ \E t, u \in Tracks, f \in Filters \cup {NoFilter} : UpdateTrack(t, u, f)
  \/ lib_clear_store
  \/ \E f \in Filters \cup {NoFilter} : lib_set_filter(f)
  \/ \E s \in LiveFilters \cup {NoLive} : lib_set_live_filter(s)
  \/ \E t \in Tracks \cup {0}, follow \in BOOLEAN : lib_goto(t, follow)
  \/ tree_activate_selected \/ tree_remove_sel \/ tree_sel_current \/ MoveSel \/ ToggleWindows
  \/ tree_search \/ set_smart_artist_sort
  \/ \E v \in BOOLEAN : SetShowAll(v)
  \/ \E k \in Flags : set_auto_expand_albums(k)

Spec == Init /\ [][Next]_vars
-----------------------------------------------------------------------------
(* Correctness. *)

Shown == {t \in lib.hash : ~is_filtered(filter, t)}
OneOrder(s, S) == IsInjective(s) /\ ToSet(s) = S

(* Whatever is added, removed, filtered, retagged and sorted, all views    *)
(* hold the same tracks, each once: those of the table that pass the       *)
(* filters.  The shuffled albums are the albums of the tree, the artists   *)
(* are in order and differ, and no file is there twice.  After a live      *)
(* filter that Regrown describes tracks that pass may be missing, from all *)
(* views, until the views are filled again.                                *)
ViewsAgree ==
  /\ LET rows == ToSet(lib.sorted)
     IN /\ OneOrder(lib.sorted, rows) /\ OneOrder(TreeTracks(lib), rows) /\ OneOrder(lib.shuf, rows)
        /\ rows \subseteq Shown
        /\ ~filter.grown => rows = Shown
  /\ OneOrder(lib.albshuf, ToSet(AlbumRows(lib)))
  /\ \A i, j \in DOMAIN lib.tree :
       i < j => ArtistKey(lib, lib.tree[i]) < ArtistKey(lib, lib.tree[j])
  /\ \A t, u \in lib.hash : File(t) = File(u) => t = u

(* The windows point into the tree, from which artists, albums and tracks  *)
(* are freed: the selected row and track are always there, the track       *)
(* window is active only with a track to act on, the current track is a    *)
(* visible one, and no assertion of the windows fails.                     *)
SelectionExists ==
  /\ ~lib.bug
  /\ lib.tsel \in ToSet(TreeRows(lib)) \cup (IF lib.tree = <<>> THEN {NoRow} ELSE {})
  /\ IF ToSet(TrackRows(lib)) = {} THEN lib.ksel = 0 /\ lib.win = "tree"
     ELSE lib.ksel \in ToSet(TrackRows(lib)) \ {0}
  /\ lib.cur \in ToSet(lib.sorted) \cup {0}

(* No command takes the current track away while it stays visible: a new   *)
(* filter removes the tracks and adds them again, and finds it.            *)
CurrentKept ==
  [][lib.cur # 0 /\ Contains(lib'.sorted, lib.cur) => lib'.cur # 0]_vars
=============================================================================
