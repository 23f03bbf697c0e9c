---------------------------- MODULE MCCollections ---------------------------
(***************************************************************************)
(* The library, the order in which its tracks are played, and the          *)
(* playlists, checked in one run: `part` names the one that runs, the      *)
(* others stay as they start.                                              *)
(*                                                                         *)
(* Library: two files, one of which changes its tags: an artist with two   *)
(* albums, or two artists, one with a name that starts with "The".  Order: *)
(* three tracks of one artist, two of them in one album, and one of        *)
(* another.  Playlists: up to two that share two tracks.                   *)
(***************************************************************************)
EXTENDS Playlists

CONSTANTS
  Songs, Meta, AutoSort, DrawTrack(_, _), DrawAlbum(_, _),   \* LibTree
  Filters, LiveFilters, Words, Flags                         \* Library

VARIABLES part, music, lib, filter, stored, expand

Tags(file, artist, album, date, title, year, key) ==
  [file |-> file, artist |-> artist, artistsort |-> 0, album |-> album, date |-> date,
   nr |-> 1, title |-> title, year |-> year, key |-> key]
MCMeta == << Tags(1, 5, 1, 2, <<"a">>, <<"1">>, 3),
             Tags(2, 5, 2, 1, <<"a", "b">>, <<"1", "2">>, 2),
             Tags(1, 9, 1, 1, <<"b">>, <<"2">>, 1) >>
MCAutoSort == [n \in 1 .. 9 |-> IF n = 9 THEN 3 ELSE 0]
Before(s, x, lt(_, _)) == {Len(SelectSeq(s, LAMBDA y : lt(y, x)))}
MCDrawTrack(s, x) == Before(s, x, LAMBDA y, z : y < z)
MCDrawAlbum(s, x) == Before(s, x, LAMBDA y, z : 10 * y.alb + y.art < 10 * z.alb + z.art)
MCFilters == {{2}}
MCLiveFilters == {<<"a">>, <<"~y", "1">>, <<"~y", "1", "2", "~t", "b">>}
MCWords == {<<"b">>}
MCFlags == {"selcur"}
MCInfo == <<1, 2>>

OrderMeta == << Tags(1, 5, 1, 1, <<"a">>, <<"1">>, 4), Tags(2, 5, 1, 1, <<"a">>, <<"1">>, 1),
                Tags(3, 5, 2, 2, <<"a">>, <<"1">>, 3), Tags(4, 6, 1, 1, <<"a">>, <<"1">>, 2) >>

TheLibrary == INSTANCE Library WITH Tracks <- Songs
TheOrder == INSTANCE PlayOrder WITH Tracks <- 1 .. 4, Meta <- OrderMeta

ASSUME PlaylistsAssumption == ConstantsSound

AllInit ==
  /\ part \in {"library", "order", "playlists"}
  /\ TheLibrary!Init
  /\ IF part = "order" THEN music \in TheOrder!ViewsAddAll(TheOrder!EmptyLib, <<1, 2, 3, 4>>)
     ELSE music = TheOrder!EmptyLib
  /\ Init

(* Next, previous, their album versions, reshuffle, and a chosen track. *)
PlayOn ==
  \/ \E back, album \in BOOLEAN, m \in {x \in TheOrder!Modes : x.repeat} :
       music' \in TheOrder!Played(music, back, album, m)
  \/ music' \in TheOrder!lib_reshuffle(music)
  \/ \E t \in 1 .. 4, shuffle \in {"off", "tracks", "albums"} :
       music' = TheOrder!cmd_win_activate(music, shuffle, t)

libraryVars == <<lib, filter, stored, expand>>

AllNext ==
  \/ part = "library" /\ TheLibrary!Next /\ UNCHANGED <<part, music, p>>
  \/ part = "order" /\ PlayOn /\ UNCHANGED <<part, libraryVars, p>>
  \/ part = "playlists" /\ Next /\ UNCHANGED <<part, libraryVars, music>>

AllSpec == AllInit /\ [][AllNext]_<<part, libraryVars, music, p>>

-----------------------------------------------------------------------------
(* Playlists.PlaylistsSound is checked as it stands: the playlists do not  *)
(* change while another part runs.                                         *)

(* Library.ViewsAgree: the views hold the tracks of the table that pass    *)
(* the filters, each once.                                                 *)
ViewsAgree == TheLibrary!ViewsAgree

(* Library.SelectionExists: the windows point into the tree.               *)
SelectionExists == TheLibrary!SelectionExists

(* Library.CurrentKept: no command takes the current track away while it   *)
(* stays visible.                                                          *)
CurrentKept == TheLibrary!CurrentKept

(* PlayOrder.NextReachesAll and OrderEnds: playing on with repeat reaches  *)
(* every track of the album, the artist or the library, in every mode and  *)
(* shuffled order, and back again; without repeat it comes to an end.      *)
OrderComplete ==
  part = "order" => TheOrder!NextReachesAll(music) /\ TheOrder!OrderEnds(music)
=============================================================================
