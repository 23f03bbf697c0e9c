------------------------------ MODULE LibTree -------------------------------
(***************************************************************************)
(* The tree view of the library (tree.c): artists, their albums and the    *)
(* tracks of each, and the two windows that show it.  Every operator maps  *)
(* a library, the record that module Library keeps in its variable, to the *)
(* library (or, where rand() or the shape of a tree decides, to the set of *)
(* libraries) that the C function leaves behind.                           *)
(*                                                                         *)
(* A red-black tree is the sequence of its nodes; names and their          *)
(* collation keys are positive numbers, and 0 stands for NULL.             *)
(***************************************************************************)
EXTENDS Integers, FiniteSets, Sequences, SequencesExt, FiniteSetsExt

CONSTANTS
  Tracks,    \* track_info objects: numbers, 0 is NULL, in the order of filenames
  Meta,      \* Meta[t]: the tags of t that the library uses
  AutoSort,  \* AutoSort[n]: auto_artist_sort_name of the name n, or 0
  DrawTrack(_, _), \* DrawTrack(s, t): how many tracks of s rand() may put before t
  DrawAlbum(_, _)  \* the same for albums

NoRow == [art |-> 0, alb |-> 0]
Row(a, b) == [art |-> a, alb |-> b]

-----------------------------------------------------------------------------
(* Reading the tree. *)

(* artist_sort_collkey: the sort name, the automatic one, the name *)
ArtistKey(l, a) ==
  IF a.sort # 0 THEN a.sort
  ELSE IF l.smart /\ AutoSort[a.name] # 0 THEN AutoSort[a.name]
  ELSE a.name

Artist(l, id) == CHOOSE i \in DOMAIN l.tree : l.tree[i].id = id
AlbumsOf(l, id) == l.tree[Artist(l, id)].albums
Album(albums, name) == CHOOSE j \in DOMAIN albums : albums[j].name = name
Named(albums, name) == CHOOSE b \in ToSet(albums) : b.name = name
TracksOf(l, row) == Named(AlbumsOf(l, row.art), row.alb).tracks

(* The rows of all albums, of all tracks and of the tree window. *)
AlbumRows(l) ==
  FlattenSeq([i \in DOMAIN l.tree |->
    [j \in DOMAIN l.tree[i].albums |-> Row(l.tree[i].id, l.tree[i].albums[j].name)]])
AlbumTracks(albums) == FlattenSeq([j \in DOMAIN albums |-> albums[j].tracks])
TreeTracks(l) == FlattenSeq([i \in DOMAIN l.tree |-> AlbumTracks(l.tree[i].albums)])
Home(l, t) == CHOOSE r \in ToSet(AlbumRows(l)) : Contains(TracksOf(l, r), t)

ArtistRows(l, a) ==
  <<Row(a.id, 0)>> \o
  (IF a.expanded THEN [j \in DOMAIN a.albums |-> Row(a.id, a.albums[j].name)] ELSE <<>>)
TreeRows(l) == FlattenSeq([i \in DOMAIN l.tree |-> ArtistRows(l, l.tree[i])])

(* The rows of the track window: tracks, and a header (0) for each album   *)
(* when an artist is selected.                                             *)
Headed(albums) == FlattenSeq([j \in DOMAIN albums |-> <<0>> \o albums[j].tracks])
TrackRows(l) ==
  IF l.tsel.alb # 0 THEN TracksOf(l, l.tsel)
  ELSE IF l.tsel.art # 0 /\ l.show_all
  THEN Headed(AlbumsOf(l, l.tsel.art))
  ELSE <<>>

track_visible(l, t) ==
  IF l.tsel.alb # 0 THEN Home(l, t) = l.tsel
  ELSE l.show_all /\ Home(l, t).art = l.tsel.art

-----------------------------------------------------------------------------
(* The windows.  The screen is taller than the tree, so that only the      *)
(* selection matters: which row it falls on.                               *)

(* window_set_contents: the first row that is selectable *)
FirstOf(rows) == IF rows = <<>> THEN 0 ELSE Head(rows)
FirstTrack(l) == FirstOf(SelectSeq(TrackRows(l), LAMBDA t : t # 0))

Fault_SelUpdateKeepsWin(l) == [l EXCEPT !.ksel = FirstTrack(l)]

tree_sel_update(l) ==
  IF l.tsel.alb # 0 \/ (l.tsel.art # 0 /\ l.show_all)
  THEN [l EXCEPT !.ksel = FirstTrack(l)]
  ELSE [l EXCEPT !.ksel = 0, !.win = "tree"]

(* window_set_sel and window_goto_top on lib_tree_win *)
SelectRow(l, row) ==
  IF l.tsel = row THEN l ELSE tree_sel_update([l EXCEPT !.tsel = row])

(* window_changed on lib_tree_win: an empty window gets its first row *)
TreeChanged(l) ==
  IF l.tsel = NoRow /\ l.tree # <<>> THEN SelectRow(l, Head(TreeRows(l))) ELSE l

(* The row nearest to x that is not one of skip, below or, if none is as   *)
(* near, above; none if there is no other.                                 *)
Closest(rows, i, down, up, none) ==
  IF down # {} /\ (up = {} \/ Min(down) - i <= i - Max(up)) THEN rows[Min(down)]
  ELSE IF up # {} THEN rows[Max(up)] ELSE none
Nearest(rows, x, skip, none) ==
  LET i == CHOOSE k \in DOMAIN rows : rows[k] = x
      other == {k \in DOMAIN rows : rows[k] \notin skip}
  IN Closest(rows, i, {k \in other : k > i}, {k \in other : k < i}, none)

(* window_row_vanishes on lib_tree_win, before the row is taken out; the   *)
(* selection that follows is made with after, the library without it.      *)
RowVanishes(l, row, after) ==
  IF l.tsel # row THEN after
  ELSE tree_sel_update([after EXCEPT !.tsel = Nearest(TreeRows(l), row, {}, NoRow)])

(* The row of an album is in the window only below an expanded artist. *)
AlbumVanishes(l, a, name, after) ==
  IF a.expanded THEN RowVanishes(l, Row(a.id, name), after) ELSE after

-----------------------------------------------------------------------------
(* Changing the tree. *)

(* do_find_artist.  The artists are in order, except while they are being  *)
(* sorted: then shape lists them so that each comes before those below it, *)
(* and the search meets only those on its path.                            *)
do_find_artist(l, a) ==
  LET key(i) == ArtistKey(l, l.tree[i])
      k == ArtistKey(l, a)
      step(x, id) ==
        LET i == Artist(l, id)
        IN IF x.found # {} \/ i \notin x.lo .. x.hi THEN x
           ELSE IF key(i) = k THEN [x EXCEPT !.found = {i}]
           ELSE IF k < key(i) THEN [x EXCEPT !.hi = i - 1] ELSE [x EXCEPT !.lo = i + 1]
      ids == [i \in DOMAIN l.tree |-> l.tree[i].id]
      order == IF l.shape = <<>> THEN ids ELSE SelectSeq(l.shape, LAMBDA id : Contains(ids, id))
  IN FoldLeft(step, [found |-> {}, lo |-> 1, hi |-> Len(l.tree)], order)

(* insert_artist: an artist equal to one on the path is not linked *)
insert_artist(l, a) ==
  LET x == do_find_artist(l, a)
  IN IF x.found # {} THEN l ELSE [l EXCEPT !.tree = InsertAt(@, x.lo, a)]

(* special_album_cmp_date *)
AlbumLess(x, y) == x.date < y.date \/ (x.date = y.date /\ x.name < y.name)

(* Where a search in a sorted tree ends: between two nodes. *)
Gaps(s, b) ==
  {g \in 0 .. Len(s) : (g > 0 => AlbumLess(s[g], b)) /\ (g < Len(s) => AlbumLess(b, s[g + 1]))}

(* add_album: albums of one artist differ in their names *)
AddAlbum(albums, b) ==
  LET g == CHOOSE g \in Gaps(albums, b) : TRUE IN InsertAt(albums, g + 1, b)

(* shuffle_list_add of an album or a track *)
Shuffled(s, x, draws) == {InsertAt(s, n + 1, x) : n \in draws \cap 0 .. Len(s)}

(* album_add_track: by disc and track number, then by file name *)
TrackLess(x, y) == Meta[x].nr < Meta[y].nr \/ (Meta[x].nr = Meta[y].nr /\ x < y)
AddTrack(tracks, t) ==
  LET before == SelectSeq(tracks, LAMBDA x : ~TrackLess(t, x))
  IN before \o <<t>> \o SelectSeq(tracks, LAMBDA x : TrackLess(t, x))

SetAlbums(l, i, albums) == [l EXCEPT !.tree[i].albums = albums]

(* An album's date is the latest of its tracks and min_date the earliest   *)
(* known one; a change takes the album out and puts it in again, and the   *)
(* selection moves on if it is on the album.                               *)
Redated(l, i, j, date, min_date) ==
  LET a == l.tree[i]
      b == [a.albums[j] EXCEPT !.date = date, !.min_date = min_date]
  IN AlbumVanishes(l, a, b.name, SetAlbums(l, i, AddAlbum(RemoveAt(a.albums, j), b)))

(* An album that takes a track: its date, then its min_date. *)
EarlyDated(l, i, b, date) ==
  LET j == Album(l.tree[i].albums, b.name)
  IN IF b.min_date <= 0 \/ (b.min_date > date /\ date > 0)
     THEN Redated(l, i, j, l.tree[i].albums[j].date, date) ELSE l
LateDated(l, i, j, date) ==
  LET b == l.tree[i].albums[j]
  IN IF b.date < date THEN Redated(l, i, j, date, b.min_date) ELSE l
TrackToAlbum(l, i, j, t) ==
  LET taken == [l EXCEPT !.tree[i].albums[j].tracks = AddTrack(@, t)]
  IN EarlyDated(LateDated(taken, i, j, Meta[t].date), i, l.tree[i].albums[j], Meta[t].date)

NewAlbum(t) == [name |-> Meta[t].album, date |-> Meta[t].date,
                min_date |-> Meta[t].date, tracks |-> <<t>>]
Used(l) == {l.tree[i].id : i \in DOMAIN l.tree}
NewArtist(l, t) == [id |-> IF Meta[t].artist \in Used(l) THEN Max(Used(l)) + 10
                           ELSE Meta[t].artist,
                    name |-> Meta[t].artist, sort |-> Meta[t].artistsort,
                    expanded |-> FALSE, albums |-> <<>>]

(* An artist found under its key takes over a sort name it lacks and a     *)
(* name with an automatic sort name; it leaves the tree and comes back,    *)
(* and the selection moves on if it is on the artist.                      *)
Renamed(l, i, t) ==
  LET a  == l.tree[i]
      s  == IF a.sort = 0 THEN Meta[t].artistsort ELSE a.sort
      n  == IF AutoSort[a.name] = 0 /\ AutoSort[Meta[t].artist] # 0
            THEN Meta[t].artist ELSE a.name
      a2 == [a EXCEPT !.sort = s, !.name = n]
      out == [l EXCEPT !.tree = RemoveAt(@, i)]
  IN IF a2 = a THEN l
     ELSE TreeChanged(RowVanishes(l, Row(a.id, 0), insert_artist(out, a2)))

(* tree_add_track with add_album_cb: the album joins the shuffled albums. *)
AlbumAdded(l, i, b) ==
  LET x == SetAlbums(l, i, AddAlbum(l.tree[i].albums, b))
      r == Row(l.tree[i].id, b.name)
  IN {[x EXCEPT !.albshuf = s] : s \in Shuffled(l.albshuf, r, DrawAlbum(l.albshuf, r))}

ToArtist(l, i, t) ==
  LET known == {j \in DOMAIN l.tree[i].albums : l.tree[i].albums[j].name = Meta[t].album}
  IN IF known # {} THEN {TrackToAlbum(l, i, CHOOSE j \in known : TRUE, t)}
     ELSE {TreeChanged(x) : x \in AlbumAdded(l, i, NewAlbum(t))}

(* The artist new of t, unless found has the index of the one that is      *)
(* already there under its key.                                            *)
AddedArtist(l, t, new, found) ==
  IF found = {} THEN insert_artist(l, new) ELSE Renamed(l, CHOOSE i \in found : TRUE, t)
AddedTo(l, id, t) == ToArtist(l, Artist(l, id), t)
FoundOrNew(l, t, new, found) ==
  AddedTo(AddedArtist(l, t, new, found),
          IF found = {} THEN new.id ELSE l.tree[CHOOSE i \in found : TRUE].id, t)

tree_add_track(l, t) ==
  FoundOrNew(l, t, NewArtist(l, t), do_find_artist(l, NewArtist(l, t)).found)

(* remove_track: window_row_vanishes on lib_track_win, then rb_erase *)
remove_track(l, t, r) ==
  LET i == Artist(l, r.art)
      out == [l EXCEPT !.tree[i].albums[Album(l.tree[i].albums, r.alb)].tracks =
                         SelectSeq(@, LAMBDA x : x # t)]
  IN IF track_visible(l, t) /\ l.ksel = t
     THEN [out EXCEPT !.ksel = Nearest(TrackRows(l), t, {0}, 0)] ELSE out

(* The last album takes its artist along. *)
ArtistDropped(l, i, row) ==
  IF l.tree[i].albums # <<>> THEN l
  ELSE RowVanishes([l EXCEPT !.tree[i].expanded = FALSE], row, [l EXCEPT !.tree = RemoveAt(@, i)])

Fault_RemoveKeepsAlbumShuffled(l, i, j, r) ==
  LET w == IF l.tsel = r THEN [l EXCEPT !.win = "tree"] ELSE l
  IN AlbumVanishes(w, l.tree[i], r.alb, [w EXCEPT !.tree[i].albums = RemoveAt(@, j)])

(* tree_remove: the last track takes its album along; remove_album_cb      *)
(* takes the album out of the shuffled albums.                             *)
AlbumRemoved(l, i, j, r) ==
  LET w == IF l.tsel = r THEN [l EXCEPT !.win = "tree"] ELSE l
  IN AlbumVanishes(w, l.tree[i], r.alb,
       [w EXCEPT !.tree[i].albums = RemoveAt(@, j),
                 !.albshuf = SelectSeq(@, LAMBDA b : b # r)])
AlbumDropped(l, i, j, r) ==
  IF l.tree[i].albums[j].tracks # <<>> THEN l
  ELSE ArtistDropped(AlbumRemoved(l, i, j, r), i, Row(r.art, 0))

RemovedFrom(l, t, r) ==
  AlbumDropped(remove_track(l, t, r), Artist(l, r.art), Album(AlbumsOf(l, r.art), r.alb), r)
tree_remove(l, t) == RemovedFrom(l, t, Home(l, t))

(* The shapes of a red-black tree of up to four nodes: the root of three   *)
(* is the middle one and that of four one of the two in the middle.        *)
Reshaped(l, x) ==
  LET ids(y) == [i \in DOMAIN y.tree |-> y.tree[i].id]
      n == Len(x.tree)
      root == IF n <= 2 THEN 1 .. n ELSE {n \div 2, (n + 2) \div 2} \ {1}
  IN IF l.shape # <<>> /\ ids(l) = ids(x) THEN {x}
     ELSE {[x EXCEPT !.shape = s] :
             s \in {p \in SetToSeqs({x.tree[i].id : i \in 1 .. n}) :
                     n > 0 => Artist(x, Head(p)) \in root}}

(* tree_sort_artists: each track leaves the tree and comes back to it, in  *)
(* the old order, while the artists not yet visited stand in that order    *)
(* and are compared by their new keys.                                     *)
tree_sort_artists(l) ==
  LET again(x, t) ==
        UNION {UNION {Reshaped(y, z) : z \in tree_add_track(y, t)} : y \in Reshaped(x, tree_remove(x, t))}
      all == FoldLeft(LAMBDA S, t : UNION {again(x, t) : x \in S}, Reshaped(l, l), TreeTracks(l))
  IN {[x EXCEPT !.shape = <<>>] : x \in all}

-----------------------------------------------------------------------------
(* The commands of the tree view. *)

tree_set_expand_artist(l, id, expand) ==
  LET x == IF expand THEN l
           ELSE LET s == SelectRow(l, Row(id, 0))
                IN IF s.show_all THEN s ELSE [s EXCEPT !.win = "tree"]
  IN [x EXCEPT !.tree[Artist(l, id)].expanded = expand]

(* window_set_sel asserts that the track window is not empty. *)
tree_sel_track(l, t, auto_expand) ==
  LET r == Home(l, t)
      i == Artist(l, r.art)
      x == [l EXCEPT !.tree[i].expanded = @ \/ auto_expand]
      y == SelectRow(x, IF x.tree[i].expanded THEN r ELSE Row(r.art, 0))
  IN [y EXCEPT !.ksel = t, !.win = "track", !.bug = @ \/ TrackRows(y) = <<>>]

tree_toggle_expand_artist(l) ==
  LET id == l.tsel.art
      x  == tree_set_expand_artist(l, id, ~l.tree[Artist(l, id)].expanded)
  IN IF id = 0 THEN l
     ELSE IF l.tsel.alb # 0 /\ l.show_all THEN [x EXCEPT !.ksel = l.ksel] ELSE x

tree_toggle_active_window(l) ==
  IF l.win = "track" THEN [l EXCEPT !.win = "tree"]
  ELSE IF l.tsel.alb # 0 \/ (l.tsel.art # 0 /\ l.show_all) THEN [l EXCEPT !.win = "track"]
  ELSE l

tree_expand_all(l) ==
  [l EXCEPT !.tree = [i \in DOMAIN @ |-> [@[i] EXCEPT !.expanded = TRUE]]]

(* tree_expand_matching: an artist is expanded if one of its albums        *)
(* matches; the first artist with a match in the album or in a title of    *)
(* the album looked at gets the selection.                                 *)
tree_expand_matching(l, albumMatches, titleMatches, auto_expand) ==
  LET hits(a) == {j \in DOMAIN a.albums : Head(a.albums[j].tracks) \in albumMatches}
      seen(a) == a.albums[IF hits(a) # {} THEN Min(hits(a)) ELSE 1].tracks
      cands(a) == SelectSeq(seen(a), LAMBDA t : t \in titleMatches)
      chosen(a) == IF cands(a) # <<>> THEN Head(cands(a)) ELSE Head(seen(a))
      one(x, k) ==
        LET a == x.l.tree[k]
            e == [x.l EXCEPT !.tree[k].expanded = hits(a) # {}]
        IN IF ~x.done /\ (hits(a) # {} \/ cands(a) # <<>>)
           THEN [l |-> tree_sel_track(e, chosen(a), auto_expand), done |-> TRUE]
           ELSE [l |-> e, done |-> x.done]
  IN FoldLeft(one, [l |-> l, done |-> FALSE], [k \in DOMAIN l.tree |-> k]).l

tree_get_selected(l) ==
  IF l.tsel.alb = 0 /\ ~l.show_all
  THEN Head(Head(AlbumsOf(l, l.tsel.art)).tracks) ELSE l.ksel

(* tree_win_remove_sel and track_win_remove_sel: the tracks to remove *)
SelTracks(l) ==
  IF l.win = "track" THEN (IF l.ksel = 0 THEN <<>> ELSE <<l.ksel>>)
  ELSE IF l.tsel.alb # 0 THEN TracksOf(l, l.tsel)
  ELSE IF l.tsel.art # 0
  THEN AlbumTracks(AlbumsOf(l, l.tsel.art))
  ELSE <<>>

-----------------------------------------------------------------------------
(* All views together (lib.c). *)

EmptyLib == [hash |-> {}, sorted |-> <<>>, tree |-> <<>>, shuf |-> <<>>, albshuf |-> <<>>,
             cur |-> 0, tsel |-> NoRow, ksel |-> 0, win |-> "tree", collapse |-> 0,
             show_all |-> TRUE, smart |-> TRUE, shape |-> <<>>, bug |-> FALSE]

InsertSorted(s, t) ==
  SelectSeq(s, LAMBDA x : Meta[x].key <= Meta[t].key) \o <<t>>
    \o SelectSeq(s, LAMBDA x : Meta[x].key > Meta[t].key)

views_add_track(l, t) ==
  UNION {{[x EXCEPT !.shuf = s, !.sorted = InsertSorted(@, t)] :
            s \in Shuffled(x.shuf, t, DrawTrack(x.shuf, t))} :
           x \in tree_add_track(l, t)}

ViewsAddAll(l, ts) == FoldLeft(LAMBDA S, t : UNION {views_add_track(x, t) : x \in S}, {l}, ts)
=============================================================================
