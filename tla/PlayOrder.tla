------------------------------ MODULE PlayOrder -----------------------------
(***************************************************************************)
(* Which track of the library is played next (lib.c): through the tree,    *)
(* the sorted list or a shuffled order of tracks or albums, in one album,  *)
(* one artist or all.  l is a library of module LibTree; m holds the       *)
(* options shuffle, play_sorted, aaa_mode, repeat and auto_reshuffle.      *)
(***************************************************************************)
EXTENDS LibTree, TrackOrder

Modes == [shuffle : {"off", "tracks", "albums"}, sorted : BOOLEAN,
          aaa : {"all", "artist", "album"}, repeat : BOOLEAN, auto_reshuffle : BOOLEAN]

Cur(l) == IF l.cur = 0 THEN {} ELSE {l.cur}
CurAlbum(l) == {Home(l, t) : t \in Cur(l)}

(* aaa_mode_filter and cur_album_filter *)
Passes(l, aaa, row) ==
  CASE aaa = "all" -> TRUE
    [] aaa = "artist" -> row.art = Home(l, l.cur).art
    [] aaa = "album" -> row = Home(l, l.cur)
InScope(l, aaa, t) == Passes(l, aaa, Home(l, t))

(* The tree, forwards or backwards: the rest of the album unless it is     *)
(* skipped, then of the artist, then all; then from the start.             *)
normal_get_next(l, back, aaa, allow_repeat, repeat, skip_album) ==
  LET ts == Dir(back, TreeTracks(l))
      in(t) == InScope(l, aaa, t)
      rest == SelectSeq(Behind(ts, l.cur),
                LAMBDA t : in(t) /\ (skip_album => Home(l, t) # Home(l, l.cur)))
  IN IF l.cur = 0 THEN (IF allow_repeat THEN First(ts) ELSE {})
     ELSE IF rest # <<>> THEN First(rest)
     ELSE IF allow_repeat /\ repeat THEN First(SelectSeq(ts, in)) ELSE {}

(* sorted_album_first_track and _last_track, album_first_track and so on *)
AlbumEnd(l, m, back, row) ==
  LET ts == TracksOf(l, row)
      sorted == SelectSeq(l.sorted, LAMBDA t : Contains(ts, t))
  IN First(Dir(back, IF m.sorted THEN sorted ELSE ts))

(* A step through the shuffled albums leads to the album's first track,    *)
(* backwards to its last one.                                              *)
shuffle_album_get_next(l, back, m) ==
  LET ok == {r \in ToSet(l.albshuf) : Passes(l, m.aaa, r)}
  IN {<<[l EXCEPT !.albshuf = p[1]], UNION {AlbumEnd(l, m, back, r) : r \in p[2]}>> :
        p \in shuffle_list_get_next(l.albshuf, back, CurAlbum(l), ok, m.repeat, m.auto_reshuffle)}

Fault_AlbumsForgetRest(l, back, m) == {}

(* The rest of the album comes before another album is drawn. *)
InAlbum(l, back, m) ==
  IF m.sorted
  THEN simple_list_get_next(Dir(back, l.sorted), Cur(l), {t \in ToSet(l.sorted) : InScope(l, "album", t)}, FALSE, FALSE)
  ELSE normal_get_next(l, back, "album", FALSE, FALSE, FALSE)

(* lib_goto_next and, backwards, lib_goto_prev: the libraries and tracks   *)
(* that the call can end with.                                             *)
lib_goto_next(l, back, m) ==
  LET ok == {t \in ToSet(l.sorted) : InScope(l, m.aaa, t)}
      drawn == shuffle_list_get_next(l.shuf, back, Cur(l), ok, m.repeat, m.auto_reshuffle)
  IN CASE l.tree = <<>> -> {<<l, {}>>}
       [] m.shuffle = "tracks" -> {<<[l EXCEPT !.shuf = p[1]], p[2]>> : p \in drawn}
       [] m.shuffle = "albums" ->
            IF InAlbum(l, back, m) # {} THEN {<<l, InAlbum(l, back, m)>>}
            ELSE shuffle_album_get_next(l, back, m)
       [] m.shuffle = "off" /\ m.sorted ->
            {<<l, simple_list_get_next(Dir(back, l.sorted), Cur(l), ok, TRUE, m.repeat)>>}
       [] m.shuffle = "off" /\ ~m.sorted ->
            {<<l, normal_get_next(l, back, m.aaa, TRUE, m.repeat, FALSE)>>}

(* With play_sorted and no shuffle the album commands start from no track  *)
(* and so reach the first or the last of the list.                         *)
lib_goto_next_album(l, back, m) ==
  CASE l.tree = <<>> -> {<<l, {}>>}
    [] m.shuffle = "tracks" -> lib_goto_next(l, back, m)
    [] m.shuffle = "albums" -> shuffle_album_get_next(l, back, m)
    [] m.shuffle = "off" /\ m.sorted -> {<<l, First(Dir(back, l.sorted))>>}
    [] m.shuffle = "off" /\ ~m.sorted ->
         {<<l, normal_get_next(l, back, m.aaa, TRUE, m.repeat, TRUE)>>}

(* The previous album is entered at its first track. *)
lib_goto_prev_album(l, m) ==
  IF m.shuffle = "tracks" THEN lib_goto_next(l, TRUE, m)
  ELSE {<<p[1], UNION {AlbumEnd(l, m, FALSE, Home(l, t)) : t \in p[2]}>> :
          p \in lib_goto_next_album(l, TRUE, m)}

(* The commands; a track that was found becomes the current one. *)
Played(l, back, album, m) ==
  {IF p[2] = {} THEN p[1] ELSE [p[1] EXCEPT !.cur = CHOOSE t \in p[2] : TRUE] :
     p \in CASE ~album -> lib_goto_next(l, back, m)
             [] album /\ ~back -> lib_goto_next_album(l, FALSE, m)
             [] album /\ back -> lib_goto_prev_album(l, m)}

(* win-activate in a view of the library: the chosen track or its album is *)
(* put behind the one that played.                                         *)
cmd_win_activate(l, shuffle, t) ==
  LET x == [l EXCEPT !.cur = t]
  IN CASE shuffle = "off" -> x
       [] shuffle = "tracks" -> [x EXCEPT !.shuf = shuffle_insert(@, Cur(l), t)]
       [] shuffle = "albums" -> [x EXCEPT !.albshuf = shuffle_insert(@, CurAlbum(l), Home(l, t))]

(* The current track and its album come first. *)
lib_reshuffle(l) ==
  {[l EXCEPT !.shuf = IF l.cur = 0 THEN s ELSE shuffle_insert(s, {}, l.cur),
             !.albshuf = IF l.cur = 0 THEN b ELSE shuffle_insert(b, {}, Home(l, l.cur))] :
     s \in shuffle_list_reshuffle(l.shuf), b \in shuffle_list_reshuffle(l.albshuf)}

-----------------------------------------------------------------------------
(* Playing on with repeat goes through all tracks of the album, the artist *)
(* or the library before it comes back, whatever the mode, the views and   *)
(* the shuffled order; and the way back is the way: the track before the   *)
(* next one is the current one.                                            *)
NextReachesAll(l) ==
  l.cur # 0 =>
    \A m \in {x \in Modes : x.repeat /\ ~x.auto_reshuffle} :
      LET scope == {t \in ToSet(l.sorted) : InScope(l, m.aaa, t)}
          step(x, back) == CHOOSE y \in Played(x, back, FALSE, m) : TRUE
          tour == FoldLeft(LAMBDA s, i : Append(s, step(Last(s), FALSE)),
                           <<l>>, [i \in 1 .. Cardinality(scope) |-> i])
      IN {tour[i].cur : i \in DOMAIN tour} = scope /\ step(tour[2], TRUE) = l

(* Without repeat the music ends after each track was played once.         *)
OrderEnds(l) ==
  l.cur # 0 =>
    \A m \in {x \in Modes : ~x.repeat /\ ~x.auto_reshuffle} :
      LET step(x) == CHOOSE y \in Played(x, FALSE, FALSE, m) : TRUE
          n == Len(l.sorted)
          tour == FoldLeft(LAMBDA s, i : Append(s, step(Last(s))), <<l>>, [i \in 1 .. n |-> i])
      IN step(Last(tour)) = Last(tour)
=============================================================================
