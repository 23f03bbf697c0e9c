----------------------------- MODULE TrackOrder -----------------------------
(***************************************************************************)
(* The steps through a list or a shuffled tree of tracks or albums         *)
(* (track.c), used by the library and by the playlists.  A list is the     *)
(* sequence of its elements; stepping backwards is stepping through the    *)
(* reverse.  A step returns the set of the element it arrives at: {} for   *)
(* NULL.  A tree without elements is never asked.                          *)
(***************************************************************************)
EXTENDS Integers, Sequences, SequencesExt, Selection

Dir(back, s) == IF back THEN Reverse(s) ELSE s
First(s) == IF s = <<>> THEN {} ELSE {Head(s)}
Place(s, x) == CHOOSE i \in DOMAIN s : s[i] = x
Behind(s, x) == SubSeq(s, Place(s, x) + 1, Len(s))

(* ok: the elements that pass the filter.  With no current element the     *)
(* filter is not asked.                                                    *)
simple_list_get_next(s, cur, ok, allow_repeat, repeat) ==
  IF cur = {} THEN (IF allow_repeat THEN First(s) ELSE {})
  ELSE LET x == CHOOSE y \in cur : TRUE
           more == IF allow_repeat /\ repeat THEN s ELSE <<>>
       IN First(Select(Behind(s, x) \o more, ok))

(* Every element is drawn again: any order. *)
shuffle_list_reshuffle(s) == SetToSeqs(ToSet(s))

(* The new node goes right behind previous or, if there is none, in front. *)
shuffle_insert(s, previous, next) ==
  LET rest == Select(s, ToSet(s) \ {next})
      at == IF previous = {} THEN 0 ELSE Place(rest, CHOOSE y \in previous : TRUE)
  IN IF previous = {next} THEN s ELSE InsertAt(rest, at + 1, next)

(* The pairs of an order and the element arrived at.  With auto_reshuffle  *)
(* the order is drawn anew when there is no current element and when the   *)
(* end is passed.                                                          *)
shuffle_list_get_next(s, back, cur, ok, repeat, auto_reshuffle) ==
  LET d == Dir(back, s)
      ahead == IF cur = {} THEN <<>> ELSE Select(Behind(d, CHOOSE y \in cur : TRUE), ok)
      pass == IF cur = {} THEN ToSet(s) ELSE ok
      again == IF auto_reshuffle THEN shuffle_list_reshuffle(s) ELSE {s}
  IN IF ahead # <<>> \/ (cur # {} /\ ~repeat) THEN {<<s, First(ahead)>>}
     ELSE {<<o, First(Select(Dir(back, o), pass))>> : o \in again}
=============================================================================
