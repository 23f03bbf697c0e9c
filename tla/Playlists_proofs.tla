-------------------------- MODULE Playlists_proofs --------------------------
(***************************************************************************)
(* Proofs about the playlists, for any tracks and names: whatever is       *)
(* deleted, renamed, drawn and played, the playlists that pl.c points to   *)
(* exist, the shuffled order of each holds the tracks of its list, and the *)
(* selected track is a visible one; and a row that is played goes right    *)
(* behind the track that played.                                           *)
(***************************************************************************)
EXTENDS Playlists, Selection_proofs

-----------------------------------------------------------------------------
(* The inductive invariant, of a record s of the playlists. *)

(* The lists hold each track once, in both orders, and marks of it. *)
ListSound(l) ==
  /\ Once(l.list) /\ Once(l.shuf) /\ ToSet(l.shuf) = ToSet(l.list)
  /\ l.marks \subseteq ToSet(l.list)

(* A track object is in one playlist at most. *)
Apart(s) == \A i, j \in Ids : i # j => ToSet(s.pl[i].list) \cap ToSet(s.pl[j].list) = {}

(* The playlists in pl_head have different names, and the pointers lead to *)
(* playlists in it; a track is played out of a playlist.                   *)
PointersSound(s) ==
  /\ Once(s.head)
  /\ s.visible \in ToSet(s.head) /\ s.marked \in ToSet(s.head)
  /\ s.playing \in ToSet(s.head) \cup {0}
  /\ s.track # 0 => s.playing # 0
  /\ \A i \in ToSet(s.head) : s.pl[i].name # 0
  /\ \A i, j \in ToSet(s.head) : s.pl[i].name = s.pl[j].name => i = j

Whole(s) ==
  /\ s \in Playlists
  /\ PointersSound(s)
  /\ \A i \in Ids : ListSound(s.pl[i])
  /\ Apart(s)

(* The selected track is one of the visible list. *)
Selects(s) ==
  IF s.pl[s.visible].list = <<>> THEN s.sel = 0 ELSE s.sel \in ToSet(s.pl[s.visible].list)

PlaylistsInv == Whole(p) /\ (~p.ub => Selects(p))

-----------------------------------------------------------------------------
(* Places in a list. *)

LEMMA IdsSound ==
  ASSUME ConstantsSound
  PROVE  /\ Cardinality(Names) \in Nat /\ 1 \in Ids /\ 0 \notin Ids /\ Ids \subseteq Nat
         /\ 0 \notin Tracks /\ Tracks \subseteq Nat
  <1>1. Cardinality(Names) \in Nat /\ Cardinality(Names) # 0
    BY FS_CardinalityType, FS_EmptySet DEF ConstantsSound
  <1> QED BY <1>1 DEF Ids, ConstantsSound

LEMMA ElementOf ==
  ASSUME NEW X, NEW l \in Seq(X)
  PROVE  /\ \A x : x \in ToSet(l) <=> \E i \in 1 .. Len(l) : l[i] = x
         /\ \A x : x \in ToSet(l) <=> Contains(l, x)
         /\ \A i \in 1 .. Len(l) : l[i] \in ToSet(l)
         /\ l # <<>> => Head(l) = l[1] /\ Head(l) \in ToSet(l) /\ ToSet(l) # {}
         /\ ToSet(<<>>) = {}
  <1>1. DOMAIN l = 1 .. Len(l) /\ Len(l) \in Nat
    OBVIOUS
  <1>2. \A x : x \in ToSet(l) <=> \E i \in 1 .. Len(l) : l[i] = x
    BY <1>1 DEF ToSet
  <1>3. \A i \in 1 .. Len(l) : l[i] \in ToSet(l)
    BY <1>2
  <1>4. l # <<>> => Len(l) # 0 /\ Head(l) = l[1]
    OBVIOUS
  <1>5. l # <<>> => 1 \in 1 .. Len(l)
    BY <1>1, <1>4
  <1>6. ToSet(<<>>) = {}
    BY DEF ToSet
  <1> QED BY <1>2, <1>3, <1>4, <1>5, <1>6 DEF Contains

LEMMA PlaceHere ==
  ASSUME NEW X, NEW l \in Seq(X), NEW x \in ToSet(l)
  PROVE  Place(l, x) \in 1 .. Len(l) /\ l[Place(l, x)] = x
  <1>1. DOMAIN l = 1 .. Len(l)
    OBVIOUS
  <1>2. \E i \in DOMAIN l : l[i] = x
    BY DEF ToSet
  <1> QED BY <1>1, <1>2 DEF Place

LEMMA PlaceOnce ==
  ASSUME NEW X, NEW l \in Seq(X), Once(l), NEW i \in 1 .. Len(l)
  PROVE  Place(l, l[i]) = i
  <1>1. l[i] \in ToSet(l)
    BY ElementOf
  <1> QED BY <1>1, PlaceHere DEF Once

(* What is left of a list. *)
LEMMA WithoutOne ==
  ASSUME NEW X, NEW l \in Seq(X), Once(l), NEW t
  PROVE  LET u == Select(l, ToSet(l) \ {t})
         IN  u \in Seq(X) /\ Once(u) /\ ToSet(u) = ToSet(l) \ {t}
  BY SelectedSet

(* A part of a list, in another order or not, reversed or not. *)
LEMMA Behinds ==
  ASSUME NEW X, NEW l \in Seq(X), NEW x \in ToSet(l)
  PROVE  Behind(l, x) \in Seq(X) /\ ToSet(Behind(l, x)) \subseteq ToSet(l)
  <1> DEFINE n == Place(l, x)
             u == SubSeq(l, n + 1, Len(l))
  <1>1. n \in 1 .. Len(l) /\ Len(l) \in Nat
    BY PlaceHere
  <1> HIDE DEF n
  <1>2. u \in Seq(X) /\ Len(u) = Len(l) - n /\ \A i \in 1 .. Len(u) : u[i] = l[n + i]
    BY <1>1
  <1> HIDE DEF u
  <1>3. ASSUME NEW i \in 1 .. Len(u) PROVE u[i] \in ToSet(l)
    <2>1. n + i \in 1 .. Len(l)
      BY <1>1, <1>2
    <2> QED BY <1>2, <2>1, ElementOf
  <1>4. \A y : y \in ToSet(u) <=> \E i \in 1 .. Len(u) : u[i] = y
    BY <1>2, ElementOf
  <1>5. ToSet(u) \subseteq ToSet(l)
    BY <1>3, <1>4
  <1> QED BY <1>2, <1>5 DEF Behind, u, n

LEMMA Directed ==
  ASSUME NEW X, NEW l \in Seq(X), NEW back
  PROVE  Dir(back, l) \in Seq(X) /\ ToSet(Dir(back, l)) = ToSet(l)
  <1> DEFINE u == Reverse(l)
             k == Len(l)
  <1>1. k \in Nat
    OBVIOUS
  <1>2. u \in Seq(X) /\ Len(u) = k /\ \A i \in 1 .. k : u[i] = l[k - i + 1]
    BY DEF Reverse
  <1> HIDE DEF u
  <1>3. ASSUME NEW i \in 1 .. k PROVE k - i + 1 \in 1 .. k /\ k - (k - i + 1) + 1 = i
    BY <1>1
  <1>4. \A x : x \in ToSet(u) <=> \E i \in 1 .. k : u[i] = x
    BY <1>2, ElementOf
  <1>5. \A x : x \in ToSet(l) <=> \E i \in 1 .. k : l[i] = x
    BY ElementOf
  <1>6. \A i \in 1 .. k : l[i] \in ToSet(u)
    <2> SUFFICES ASSUME NEW i \in 1 .. k PROVE l[i] \in ToSet(u)
      OBVIOUS
    <2> DEFINE j == k - i + 1
    <2>1. j \in 1 .. k /\ k - j + 1 = i
      BY <1>3
    <2> HIDE DEF j
    <2>2. u[j] = l[i]
      BY <1>2, <2>1
    <2> QED BY <1>4, <2>1, <2>2
  <1>7. \A i \in 1 .. k : u[i] \in ToSet(l)
    BY <1>2, <1>3, <1>5
  <1>8. ToSet(u) = ToSet(l)
    BY <1>4, <1>5, <1>6, <1>7
  <1> QED BY <1>2, <1>8 DEF Dir, u

LEMMA FirstOf ==
  ASSUME NEW X, NEW l \in Seq(X)
  PROVE  First(l) \subseteq ToSet(l) /\ (l # <<>> => First(l) # {})
  BY ElementOf DEF First

-----------------------------------------------------------------------------
(* The shuffled orders. *)

(* Any order of the tracks. *)
LEMMA Orders ==
  ASSUME NEW X, NEW S, S \subseteq X, IsFiniteSet(S), NEW u \in SetToSeqs(S)
  PROVE  u \in Seq(X) /\ Once(u) /\ ToSet(u) = S
  <1> DEFINE k == Cardinality(S)
             D == 1 .. k
  <1>1. k \in Nat
    BY FS_CardinalityType
  <1>2. u \in [D -> S] /\ \A i, j \in D : i # j => u[i] # u[j]
    BY DEF SetToSeqs
  <1>3. IsFiniteSet(D) /\ Cardinality(D) = k
    BY <1>1, FS_Interval
  <1> HIDE DEF k
  <1>4. u \in Seq(X) /\ Len(u) = k /\ DOMAIN u = D
    BY <1>1, <1>2
  <1>5. Once(u)
    BY <1>2, <1>4 DEF Once
  <1>6. u \in Injection(D, S)
    BY <1>2 DEF Injection, IsInjective
  <1>7. u \in Surjection(D, S)
    BY <1>3, <1>6, FS_Injection DEF k
  <1>8. ToSet(u) = S
    BY <1>2, <1>4, <1>7 DEF Surjection, ToSet
  <1> QED BY <1>4, <1>5, <1>8

LEMMA Reshuffled ==
  ASSUME NEW X, NEW s \in Seq(X), NEW u \in shuffle_list_reshuffle(s)
  PROVE  u \in Seq(X) /\ Once(u) /\ ToSet(u) = ToSet(s)
  <1>1. IsFiniteSet(ToSet(s)) /\ ToSet(s) \subseteq X
    BY ElementSet
  <1>2. u \in SetToSeqs(ToSet(s))
    BY DEF shuffle_list_reshuffle
  <1> QED BY <1>1, <1>2, Orders

(* x is put in front, or behind y. *)
LEMMA ShuffleInserted ==
  ASSUME NEW X, NEW s \in Seq(X), Once(s), NEW x \in ToSet(s),
         NEW previous, previous = {} \/ \E y \in ToSet(s) : previous = {y}
  PROVE  LET u == shuffle_insert(s, previous, x)
         IN  /\ u \in Seq(X) /\ Once(u) /\ ToSet(u) = ToSet(s)
             /\ \A y \in ToSet(s) : previous = {y} /\ y # x => Place(u, x) = Place(u, y) + 1
  <1> DEFINE rest == Select(s, ToSet(s) \ {x})
             at == IF previous = {} THEN 0 ELSE Place(rest, CHOOSE y \in previous : TRUE)
             v == InsertAt(rest, at + 1, x)
             u == shuffle_insert(s, previous, x)
  <1>1. rest \in Seq(X) /\ Once(rest) /\ ToSet(rest) = ToSet(s) \ {x}
    BY WithoutOne
  <1>2. Len(rest) \in Nat /\ x \in X /\ x \notin ToSet(rest)
    <2> HIDE DEF rest
    <2>1. Len(rest) \in Nat /\ x \notin ToSet(rest)
      BY <1>1
    <2>2. x \in X
      BY ElementSet
    <2> QED BY <2>1, <2>2
  <1>3. ASSUME NEW y \in ToSet(s), previous = {y}, y # x
        PROVE  at = Place(rest, y) /\ at \in 1 .. Len(rest) /\ rest[at] = y
    <2>1. (CHOOSE z \in previous : TRUE) = y
      BY <1>3
    <2>2. y \in ToSet(rest)
      BY <1>1, <1>3
    <2> HIDE DEF rest
    <2>3. Place(rest, y) \in 1 .. Len(rest) /\ rest[Place(rest, y)] = y
      BY <1>1, <2>2, PlaceHere
    <2>4. at = Place(rest, y)
      BY <1>3, <2>1
    <2> QED BY <2>3, <2>4
  <1>4. CASE previous = {x}
    BY <1>4 DEF shuffle_insert
  <1>5. CASE previous # {x}
    <2>1. at + 1 \in 1 .. Len(rest) + 1 /\ at \in 0 .. Len(rest)
      <3>1. CASE previous = {}
        <4>1. at = 0
          BY <3>1
        <4> QED BY <1>2, <4>1
      <3>2. CASE previous # {}
        <4>1. at \in 1 .. Len(rest)
          BY <1>3, <1>5, <3>2
        <4> HIDE DEF at, rest
        <4> QED BY <1>2, <4>1
      <3> QED BY <3>1, <3>2
    <2>2. u = v
      BY <1>5 DEF shuffle_insert
    <2> DEFINE i == at + 1
    <2>0. i \in 1 .. Len(rest) + 1 /\ i = at + 1
      BY <2>1
    <2> HIDE DEF rest, at, i
    <2>3. v \in Seq(X) /\ Once(v) /\ ToSet(v) = ToSet(rest) \cup {x}
      <3>1. InsertAt(rest, i, x) \in Seq(X)
        BY <1>1, <1>2, <2>0, Inserted
      <3>2. Once(InsertAt(rest, i, x)) /\ ToSet(InsertAt(rest, i, x)) = ToSet(rest) \cup {x}
        BY <1>1, <1>2, <2>0, InsertedSet
      <3> QED BY <2>0, <3>1, <3>2
    <2>4. /\ v[at + 1] = x /\ Len(v) = Len(rest) + 1
          /\ \A j \in 1 .. Len(rest) : j < at + 1 => v[j] = rest[j]
      <3>1. /\ InsertAt(rest, i, x)[i] = x /\ Len(InsertAt(rest, i, x)) = Len(rest) + 1
            /\ \A j \in 1 .. Len(rest) : j < i => InsertAt(rest, i, x)[j] = rest[j]
        BY <1>1, <1>2, <2>0, Inserted
      <3> QED BY <2>0, <3>1
    <2>5. ASSUME NEW y \in ToSet(s), previous = {y}, y # x PROVE Place(v, x) = Place(v, y) + 1
      <3>1. at \in 1 .. Len(rest) /\ rest[at] = y
        BY <1>3, <2>5
      <3>2. v[at] = y /\ at \in 1 .. Len(v) /\ at + 1 \in 1 .. Len(v)
        BY <1>2, <2>4, <3>1
      <3> HIDE DEF v
      <3>3. Place(v, v[at]) = at /\ Place(v, v[at + 1]) = at + 1
        BY <2>3, <3>2, PlaceOnce
      <3> QED BY <2>4, <3>2, <3>3
    <2>6. ToSet(v) = ToSet(s)
      BY <1>1, <2>3
    <2> QED BY <2>2, <2>3, <2>5, <2>6
  <1> QED BY <1>4, <1>5

(* A step leads to a track of the list; without a current one, and if the  *)
(* list is not empty, there is a step.                                     *)
LEMMA Stepped ==
  ASSUME NEW X, NEW s \in Seq(X), Once(s), NEW back, NEW repeat, NEW auto_reshuffle,
         NEW cur, cur = {} \/ \E y \in ToSet(s) : cur = {y},
         NEW q \in shuffle_list_get_next(s, back, cur, ToSet(s), repeat, auto_reshuffle)
  PROVE  /\ q[1] \in Seq(X) /\ Once(q[1]) /\ ToSet(q[1]) = ToSet(s)
         /\ q[2] \subseteq ToSet(s)
         /\ cur = {} /\ s # <<>> => q[2] # {}
  <1> DEFINE d == Dir(back, s)
             ahead == IF cur = {} THEN <<>> ELSE Select(Behind(d, CHOOSE y \in cur : TRUE), ToSet(s))
             again == IF auto_reshuffle THEN shuffle_list_reshuffle(s) ELSE {s}
  <1>1. d \in Seq(X) /\ ToSet(d) = ToSet(s)
    BY Directed
  <1>2. CASE ahead # <<>> \/ (cur # {} /\ ~repeat)
    <2>1. cur # {}
      BY <1>2
    <2>2. PICK y \in ToSet(s) : cur = {y} /\ (CHOOSE z \in cur : TRUE) = y
      BY <2>1
    <2>3. Behind(d, y) \in Seq(X) /\ ToSet(Behind(d, y)) \subseteq ToSet(s)
      <3> HIDE DEF d
      <3> QED BY <1>1, Behinds
    <2>4. ahead = Select(Behind(d, y), ToSet(s))
      BY <2>1, <2>2
    <2>5. ahead \in Seq(X) /\ ToSet(ahead) \subseteq ToSet(s)
      <3>1. Select(Behind(d, y), ToSet(s)) \in Seq(X) /\
            ToSet(Select(Behind(d, y), ToSet(s))) \subseteq ToSet(Behind(d, y))
        BY <2>3, SelectedPart
      <3> QED BY <2>3, <2>4, <3>1
    <2>6. q = <<s, First(ahead)>>
      BY <1>2 DEF shuffle_list_get_next
    <2> HIDE DEF ahead
    <2> QED BY <2>1, <2>5, <2>6, FirstOf
  <1>3. CASE ~(ahead # <<>> \/ (cur # {} /\ ~repeat))
    <2> DEFINE S == IF cur = {} THEN ToSet(s) ELSE ToSet(s)
    <2>1. PICK o \in again : q = <<o, First(Select(Dir(back, o), S))>>
      BY <1>3 DEF shuffle_list_get_next
    <2>2. o \in Seq(X) /\ Once(o) /\ ToSet(o) = ToSet(s)
      BY Reshuffled
    <2>3. Dir(back, o) \in Seq(X) /\ ToSet(Dir(back, o)) = ToSet(s)
      BY <2>2, Directed
    <2> DEFINE u == Select(Dir(back, o), ToSet(s))
    <2>4. u \in Seq(X) /\ ToSet(u) = ToSet(s)
      <3> DEFINE e == Dir(back, o)
      <3>1. e \in Seq(X) /\ ToSet(e) = ToSet(s)
        BY <2>3
      <3> HIDE DEF e
      <3>2. Select(e, ToSet(s)) \in Seq(X) /\ ToSet(Select(e, ToSet(s))) = ToSet(e) \cap ToSet(s)
        BY <3>1, SelectedPart
      <3> QED BY <3>1, <3>2 DEF e
    <2>5. q = <<o, First(u)>>
      BY <2>1
    <2> HIDE DEF u
    <2>6. s # <<>> => u # <<>>
      BY <2>4, ElementOf
    <2> QED BY <2>2, <2>4, <2>5, <2>6, FirstOf
  <1> QED BY <1>2, <1>3

(* The same of a list that is not shuffled. *)
LEMMA SteppedPlainly ==
  ASSUME NEW X, NEW s \in Seq(X), NEW y \in ToSet(s), NEW allow_repeat, NEW repeat
  PROVE  simple_list_get_next(s, {y}, ToSet(s), allow_repeat, repeat) \subseteq ToSet(s)
  <1> DEFINE more == IF allow_repeat /\ repeat THEN s ELSE <<>>
             u == Behind(s, y) \o more
             v == Select(u, ToSet(s))
  <1>1. Behind(s, y) \in Seq(X) /\ more \in Seq(X)
    BY Behinds
  <1>2. u \in Seq(X)
    BY <1>1
  <1>3. v \in Seq(X) /\ ToSet(v) \subseteq ToSet(s)
    <2> HIDE DEF u
    <2> QED BY <1>2, SelectedPart
  <1>4. (CHOOSE z \in {y} : TRUE) = y
    OBVIOUS
  <1>5. simple_list_get_next(s, {y}, ToSet(s), allow_repeat, repeat) = First(v)
    BY <1>4 DEF simple_list_get_next
  <1> HIDE DEF v
  <1> QED BY <1>3, <1>5, FirstOf

-----------------------------------------------------------------------------
(* What keeps the invariant. *)

(* Other pointers to the same playlists. *)
LEMMA Pointing ==
  ASSUME NEW s, PointersSound(s), s.head \in Seq(Ids), NEW r, r.head = s.head,
         r.visible \in ToSet(s.head), r.marked \in ToSet(s.head),
         r.playing \in ToSet(s.head) \cup {0}, r.track # 0 => r.playing # 0,
         \A j \in Ids : r.pl[j].name = s.pl[j].name
  PROVE  PointersSound(r)
  <1>1. ToSet(s.head) \subseteq Ids
    BY ElementSet
  <1> QED BY <1>1 DEF PointersSound

LEMMA WholeTypes ==
  ASSUME NEW s, Whole(s)
  PROVE  /\ s \in Playlists /\ s.head \in Seq(Ids) /\ ToSet(s.head) \subseteq Ids
         /\ s.visible \in Ids /\ s.marked \in Ids /\ s.playing \in Ids \cup {0}
         /\ s.track \in Tracks \cup {0} /\ s.sel \in Tracks \cup {0}
         /\ s.cursor \in BOOLEAN /\ s.ub \in BOOLEAN
         /\ \A i \in Ids : /\ s.pl[i].list \in Seq(Tracks) /\ s.pl[i].shuf \in Seq(Tracks)
                           /\ s.pl[i].marks \subseteq Tracks /\ s.pl[i].name \in Nat
  <1>1. s \in Playlists
    BY DEF Whole
  <1>2. /\ s.head \in Seq(Ids) /\ s.visible \in Ids /\ s.marked \in Ids
        /\ s.playing \in Ids \cup {0} /\ s.track \in Tracks \cup {0} /\ s.sel \in Tracks \cup {0}
        /\ s.cursor \in BOOLEAN /\ s.ub \in BOOLEAN
        /\ s.pl \in [Ids -> [name : Nat, list : Seq(Tracks), shuf : Seq(Tracks), marks : SUBSET Tracks]]
    BY <1>1 DEF Playlists
  <1>3. ToSet(s.head) \subseteq Ids
    BY <1>2, ElementSet
  <1>4. ASSUME NEW i \in Ids
        PROVE  /\ s.pl[i].list \in Seq(Tracks) /\ s.pl[i].shuf \in Seq(Tracks)
               /\ s.pl[i].marks \subseteq Tracks /\ s.pl[i].name \in Nat
    BY <1>2
  <1> QED BY <1>1, <1>2, <1>3, <1>4

(* One playlist with other contents, the rest as it is. *)
LEMMA Rewritten ==
  ASSUME NEW s, Whole(s), NEW i \in Ids, NEW r \in Playlists, PointersSound(r), ListSound(r.pl[i]),
         \A j \in Ids : j # i => /\ r.pl[j] = s.pl[j]
                                 /\ ToSet(r.pl[i].list) \cap ToSet(s.pl[j].list) = {}
  PROVE  Whole(r)
  <1>1. \A j \in Ids : ListSound(r.pl[j])
    BY DEF Whole
  <1>2. ASSUME NEW j \in Ids, NEW k \in Ids, j # k
        PROVE  ToSet(r.pl[j].list) \cap ToSet(r.pl[k].list) = {}
    BY <1>2 DEF Whole, Apart
  <1> QED BY <1>1, <1>2 DEF Whole, Apart

LEMMA SameLists ==
  ASSUME NEW s, Whole(s), NEW r \in Playlists, PointersSound(r), r.pl = s.pl
  PROVE  Whole(r)
  BY DEF Whole, Apart

(* Other pointers and selections. *)
LEMMA Pointed ==
  ASSUME NEW s, Whole(s), NEW r \in Playlists, r.pl = s.pl, r.head = s.head,
         r.visible \in ToSet(s.head), r.marked \in ToSet(s.head),
         r.playing \in ToSet(s.head) \cup {0}, r.track # 0 => r.playing # 0
  PROVE  Whole(r)
  <1>1. PointersSound(s) /\ s.head \in Seq(Ids)
    BY WholeTypes DEF Whole
  <1>2. PointersSound(r)
    BY <1>1, Pointing
  <1> QED BY <1>2, SameLists

LEMMA Heads ==
  ASSUME NEW s, Whole(s)
  PROVE  /\ s.visible \in ToSet(s.head) /\ s.marked \in ToSet(s.head)
         /\ s.playing \in ToSet(s.head) \cup {0} /\ (s.track # 0 => s.playing # 0)
         /\ PointersSound(s)
  BY DEF Whole, PointersSound

(* What a playlist holds. *)
LEMMA ListOf ==
  ASSUME NEW s, Whole(s), NEW i \in Ids
  PROVE  /\ s.pl[i].list \in Seq(Tracks) /\ s.pl[i].shuf \in Seq(Tracks)
         /\ Once(s.pl[i].list) /\ Once(s.pl[i].shuf)
         /\ ToSet(s.pl[i].shuf) = ToSet(s.pl[i].list)
         /\ s.pl[i].marks \subseteq ToSet(s.pl[i].list) /\ s.pl[i].marks \subseteq Tracks
         /\ ToSet(s.pl[i].list) \subseteq Tracks
         /\ s.pl[i].list = <<>> <=> ToSet(s.pl[i].list) = {}
  <1>1. s.pl[i].list \in Seq(Tracks) /\ s.pl[i].shuf \in Seq(Tracks) /\ s.pl[i].marks \subseteq Tracks
    BY WholeTypes
  <1>2. ListSound(s.pl[i])
    BY DEF Whole
  <1>3. ToSet(s.pl[i].list) \subseteq Tracks
    BY <1>1, ElementSet
  <1>4. s.pl[i].list = <<>> <=> ToSet(s.pl[i].list) = {}
    BY <1>1, ElementOf
  <1> QED BY <1>1, <1>2, <1>3, <1>4 DEF ListSound

-----------------------------------------------------------------------------
(* Tracks are removed. *)

Loses(s, r, i, T) ==
  /\ r.head = s.head /\ r.visible = s.visible /\ r.marked = s.marked
  /\ r.playing = s.playing /\ r.track = s.track /\ r.cursor = s.cursor /\ r.ub = s.ub
  /\ \A j \in Ids : r.pl[j].name = s.pl[j].name /\ (j # i => r.pl[j] = s.pl[j])
  /\ ToSet(r.pl[i].list) = ToSet(s.pl[i].list) \ T

(* One of a list: the selection goes to its neighbour. *)
LEMMA RemovesOne ==
  ASSUME ConstantsSound, NEW s, Whole(s), NEW i \in Ids, NEW t \in ToSet(s.pl[i].list)
  PROVE  LET r == Removed(s, i, t)
         IN  /\ Whole(r) /\ Loses(s, r, i, {t})
             /\ Selects(s) => Selects(r)
  <1> DEFINE l == s.pl[i].list
             q == s.pl[i].shuf
             l2 == Select(l, ToSet(l) \ {t})
             q2 == Select(q, ToSet(q) \ {t})
             m2 == s.pl[i].marks \ {t}
             n == Place(l, t)
             next == IF n < Len(l) THEN l[n + 1] ELSE IF n > 1 THEN l[n - 1] ELSE 0
             sel == IF s.sel = t THEN next ELSE s.sel
             r == Removed(s, i, t)
  <1>1. /\ l \in Seq(Tracks) /\ q \in Seq(Tracks) /\ Once(l) /\ Once(q) /\ ToSet(q) = ToSet(l)
        /\ s.pl[i].marks \subseteq ToSet(l) /\ s.pl[i].marks \subseteq Tracks
    BY WholeTypes DEF Whole, ListSound
  <1>2. /\ l2 \in Seq(Tracks) /\ Once(l2) /\ ToSet(l2) = ToSet(l) \ {t}
        /\ q2 \in Seq(Tracks) /\ Once(q2) /\ ToSet(q2) = ToSet(l) \ {t}
    <2> HIDE DEF l, q
    <2>1. /\ Select(l, ToSet(l) \ {t}) \in Seq(Tracks) /\ Once(Select(l, ToSet(l) \ {t}))
          /\ ToSet(Select(l, ToSet(l) \ {t})) = ToSet(l) \ {t}
      BY <1>1, WithoutOne
    <2>2. /\ Select(q, ToSet(q) \ {t}) \in Seq(Tracks) /\ Once(Select(q, ToSet(q) \ {t}))
          /\ ToSet(Select(q, ToSet(q) \ {t})) = ToSet(q) \ {t}
      BY <1>1, WithoutOne
    <2> QED BY <1>1, <2>1, <2>2
  <1>3. n \in 1 .. Len(l) /\ l[n] = t /\ Len(l) \in Nat
    <2> HIDE DEF l
    <2> QED BY <1>1, PlaceHere DEF l
  <1>4. /\ next # 0 => next \in ToSet(l) \ {t}
        /\ next = 0 => ToSet(l) = {t}
    <2> HIDE DEF l, n
    <2>0. \A x \in 1 .. Len(l) : l[x] \in ToSet(l) /\ l[x] \in Tracks
      BY <1>1, ElementOf
    <2>1. CASE n < Len(l)
      <3>1. n + 1 \in 1 .. Len(l) /\ n + 1 # n
        BY <1>3, <2>1
      <3>2. l[n + 1] # t
        BY <1>1, <1>3, <3>1 DEF Once
      <3> QED BY <2>0, <2>1, <3>1, <3>2, IdsSound
    <2>2. CASE n = Len(l) /\ n > 1
      <3>1. n - 1 \in 1 .. Len(l) /\ n - 1 # n
        BY <1>3, <2>2
      <3>2. l[n - 1] # t
        BY <1>1, <1>3, <3>1 DEF Once
      <3> QED BY <2>0, <2>2, <3>1, <3>2, IdsSound
    <2>3. CASE n = Len(l) /\ n = 1
      <3>1. next = 0 /\ \A x \in 1 .. Len(l) : l[x] = t
        BY <1>3, <2>3
      <3>2. \A x : x \in ToSet(l) <=> \E j \in 1 .. Len(l) : l[j] = x
        BY <1>1, ElementOf
      <3> QED BY <1>3, <3>1, <3>2
    <2> QED BY <1>3, <2>1, <2>2, <2>3
  <1>5. /\ s.sel \in Tracks \cup {0} /\ ToSet(l) \subseteq Tracks /\ sel \in Tracks \cup {0}
    <2>1. ToSet(l) \subseteq Tracks
      <3> HIDE DEF l
      <3> QED BY <1>1, ElementSet
    <2>2. s.sel \in Tracks \cup {0}
      BY WholeTypes
    <2> HIDE DEF next
    <2> QED BY <1>4, <2>1, <2>2
  <1> HIDE DEF next
  <1>6. r = [s EXCEPT !.pl[i] = [s.pl[i] EXCEPT !.list = l2, !.shuf = q2, !.marks = m2], !.sel = sel]
    BY DEF Removed, next
  <1> HIDE DEF l2, q2, sel, r
  <1>7. /\ r \in Playlists /\ r.sel = sel
        /\ r.pl[i].list = l2 /\ r.pl[i].shuf = q2 /\ r.pl[i].marks = m2
        /\ r.pl[i].name = s.pl[i].name /\ \A j \in Ids : j # i => r.pl[j] = s.pl[j]
        /\ r.head = s.head /\ r.visible = s.visible /\ r.marked = s.marked
        /\ r.playing = s.playing /\ r.track = s.track /\ r.cursor = s.cursor /\ r.ub = s.ub
    <2>1. s \in Playlists /\ m2 \in SUBSET Tracks /\ l2 \in Seq(Tracks) /\ q2 \in Seq(Tracks)
      BY <1>1, <1>2 DEF Whole
    <2> HIDE DEF m2, l, q
    <2> DEFINE v == [s.pl[i] EXCEPT !.list = l2, !.shuf = q2, !.marks = m2]
    <2>2. s.pl[i] \in [name : Nat, list : Seq(Tracks), shuf : Seq(Tracks), marks : SUBSET Tracks]
      BY <2>1 DEF Playlists
    <2>3. /\ v \in [name : Nat, list : Seq(Tracks), shuf : Seq(Tracks), marks : SUBSET Tracks]
          /\ v.list = l2 /\ v.shuf = q2 /\ v.marks = m2 /\ v.name = s.pl[i].name
      BY <2>1, <2>2
    <2>4. r = [s EXCEPT !.pl[i] = v, !.sel = sel]
      BY <1>6
    <2> HIDE DEF v
    <2>5. r \in Playlists
      BY <1>5, <2>1, <2>3, <2>4 DEF Playlists
    <2>6. /\ r.pl[i] = v /\ r.sel = sel /\ \A j \in Ids : j # i => r.pl[j] = s.pl[j]
          /\ r.head = s.head /\ r.visible = s.visible /\ r.marked = s.marked
          /\ r.playing = s.playing /\ r.track = s.track /\ r.cursor = s.cursor /\ r.ub = s.ub
      BY <2>1, <2>4 DEF Playlists
    <2> QED BY <2>3, <2>5, <2>6
  <1>8. \A j \in Ids : r.pl[j].name = s.pl[j].name
    BY <1>7
  <1>9. PointersSound(r)
    <2>1. PointersSound(s) /\ s.head \in Seq(Ids)
      BY WholeTypes DEF Whole
    <2> QED BY <1>7, <1>8, <2>1, Heads, Pointing
  <1>10. Loses(s, r, i, {t})
    BY <1>2, <1>7, <1>8 DEF Loses
  <1>11. ListSound(r.pl[i])
    <2>1. ToSet(q2) = ToSet(l2) /\ m2 \subseteq ToSet(l2)
      BY <1>1, <1>2
    <2> QED BY <1>2, <1>7, <2>1 DEF ListSound
  <1>12. Whole(r)
    <2>1. ASSUME NEW j \in Ids, j # i PROVE ToSet(r.pl[i].list) \cap ToSet(s.pl[j].list) = {}
      <3>1. ToSet(l) \cap ToSet(s.pl[j].list) = {}
        BY <2>1 DEF Whole, Apart
      <3> HIDE DEF l
      <3> QED BY <1>2, <1>7, <3>1
    <2> QED BY <1>7, <1>9, <1>11, <2>1, Rewritten
  <1>13. ASSUME Selects(s) PROVE Selects(r)
    <2>1. r.visible = s.visible /\ s.visible \in Ids /\ r.sel = sel
      BY <1>7, WholeTypes
    <2>2. CASE s.visible = i
      <3>1. r.pl[r.visible].list = l2
        BY <1>7, <2>1, <2>2
      <3>2. ToSet(l) # {} /\ l # <<>>
        <4> HIDE DEF l
        <4>1. t \in ToSet(l)
          BY DEF l
        <4> QED BY <1>1, <4>1, ElementOf
      <3>3. s.sel \in ToSet(l)
        BY <1>13, <2>2, <3>2 DEF Selects
      <3>4. IF ToSet(l2) = {} THEN sel = 0 ELSE sel \in ToSet(l2)
        <4>1. 0 \notin ToSet(l)
          BY <1>5, IdsSound
        <4> HIDE DEF l
        <4> QED BY <1>2, <1>4, <3>3, <4>1 DEF sel
      <3>5. l2 = <<>> <=> ToSet(l2) = {}
        BY <1>2, ElementOf
      <3> QED BY <2>1, <3>1, <3>4, <3>5 DEF Selects
    <2>3. CASE s.visible # i
      <3>1. r.pl[r.visible] = s.pl[s.visible]
        BY <1>7, <2>1, <2>3
      <3>2. ToSet(s.pl[s.visible].list) \cap ToSet(l) = {}
        BY <2>1, <2>3 DEF Whole, Apart
      <3>3. t \notin ToSet(s.pl[s.visible].list)
        BY <3>2
      <3>4. t # 0
        BY <1>5, IdsSound
      <3>5. sel = s.sel
        BY <1>13, <3>3, <3>4 DEF Selects, sel
      <3> QED BY <1>13, <2>1, <3>1, <3>5 DEF Selects
    <2> QED BY <2>2, <2>3
  <1> QED BY <1>10, <1>12, <1>13 DEF r

(* Some of a list, one after another. *)
LEMMA RemovesAll ==
  ASSUME ConstantsSound, NEW s, Whole(s), NEW i \in Ids, NEW ts \in Seq(Tracks), Once(ts),
         ToSet(ts) \subseteq ToSet(s.pl[i].list)
  PROVE  /\ Whole(RemoveAll(s, i, ts)) /\ Loses(s, RemoveAll(s, i, ts), i, ToSet(ts))
         /\ Selects(s) => Selects(RemoveAll(s, i, ts))
  <1> DEFINE k == Len(ts)
             Gone(n) == {ts[j] : j \in 1 .. n}
             f == [x \in Playlists \X Tracks |-> Removed(x[1], i, x[2])]
             Ok(x, n) == Whole(x) /\ Loses(s, x, i, Gone(n)) /\ (Selects(s) => Selects(x))
             G == [n \in 0 .. k |-> {x \in Playlists : Ok(x, n)}]
  <1>1. k \in Nat /\ DOMAIN ts = 1 .. k /\ s \in Playlists
    BY DEF Whole
  <1>2. \A n \in 0 .. k : G[n] = {x \in Playlists : Ok(x, n)}
    OBVIOUS
  <1>3. \A x \in Playlists, t \in Tracks : f[<<x, t>>] = Removed(x, i, t)
    OBVIOUS
  <1> HIDE DEF G, k, f
  <1>4. s \in G[0]
    <2>1. Gone(0) = {}
      OBVIOUS
    <2> HIDE DEF Gone
    <2>2. Ok(s, 0)
      BY <2>1 DEF Loses
    <2> QED BY <1>1, <1>2, <2>2
  <1>5. ASSUME NEW n \in 1 .. k, NEW x \in G[n - 1] PROVE f[<<x, ts[n]>>] \in G[n]
    <2>1. n - 1 \in 0 .. k /\ n \in 0 .. k
      BY <1>1
    <2>2. x \in Playlists /\ Ok(x, n - 1)
      BY <1>2, <1>5, <2>1
    <2>3. ts[n] \in ToSet(s.pl[i].list) /\ ts[n] \in Tracks
      <3>1. ts[n] \in ToSet(ts)
        BY <1>1 DEF ToSet
      <3>2. ToSet(ts) \subseteq Tracks
        BY ElementSet
      <3> QED BY <3>1, <3>2
    <2>4. ts[n] \notin Gone(n - 1)
      <3> SUFFICES ASSUME NEW j \in 1 .. n - 1 PROVE ts[n] # ts[j]
        OBVIOUS
      <3>1. j \in 1 .. Len(ts) /\ n \in 1 .. Len(ts) /\ j # n
        BY <1>1 DEF k
      <3> QED BY <3>1 DEF Once
    <2>5. Gone(n) = Gone(n - 1) \cup {ts[n]}
      <3>1. \A j : j \in 1 .. n <=> j \in 1 .. n - 1 \/ j = n
        BY <1>1
      <3> QED BY <3>1
    <2> HIDE DEF Gone
    <2> DEFINE t == ts[n]
               r == Removed(x, i, t)
    <2>6. t \in ToSet(x.pl[i].list)
      BY <2>2, <2>3, <2>4 DEF Loses
    <2>7. f[<<x, ts[n]>>] = r
      BY <1>3, <2>2, <2>3
    <2> HIDE DEF t
    <2>8. Whole(r) /\ Loses(x, r, i, {t}) /\ (Selects(x) => Selects(r))
      BY <2>2, <2>6, RemovesOne
    <2> HIDE DEF r
    <2>9. Loses(s, r, i, Gone(n))
      <3>1. Gone(n) = Gone(n - 1) \cup {t}
        BY <2>5 DEF t
      <3> QED BY <2>2, <2>8, <3>1 DEF Loses
    <2>10. r \in Playlists
      BY <2>8 DEF Whole
    <2> QED BY <1>2, <2>1, <2>2, <2>7, <2>8, <2>9, <2>10
  <1>6. Fold(f, s, ts) \in G[k]
    BY <1>1, <1>4, <1>5, FoldInduction DEF k
  <1>7. Gone(k) = ToSet(ts)
    BY <1>1 DEF ToSet
  <1> HIDE DEF Gone
  <1>8. RemoveAll(s, i, ts) = Fold(f, s, ts)
    BY DEF RemoveAll, f
  <1>9. Ok(Fold(f, s, ts), k)
    BY <1>1, <1>2, <1>6
  <1> QED BY <1>7, <1>8, <1>9

-----------------------------------------------------------------------------
(* Another playlist becomes visible, and a track plays. *)

(* The lists, and what is marked and played, stay. *)
Still(s, r) ==
  /\ r.pl = s.pl /\ r.head = s.head /\ r.marked = s.marked
  /\ r.playing = s.playing /\ r.track = s.track

LEMMA Shown ==
  ASSUME ConstantsSound, NEW s, Whole(s), NEW i \in ToSet(s.head)
  PROVE  /\ Whole(Show(s, i)) /\ Still(s, Show(s, i)) /\ Show(s, i).visible = i
         /\ Show(s, i).ub = s.ub /\ Show(s, i).cursor = s.cursor
         /\ Selects(s) => Selects(Show(s, i))
  <1>1. s \in Playlists /\ i \in Ids /\ s.visible \in Ids
    BY WholeTypes
  <1>2. CASE s.visible = i
    BY <1>2 DEF Show, Still
  <1>3. CASE s.visible # i
    <2> DEFINE l == s.pl[i].list
               e == IF l = <<>> THEN 0 ELSE Head(l)
               r == [s EXCEPT !.visible = i, !.sel = e]
    <2>1. Show(s, i) = r
      BY <1>3 DEF Show, pl_empty
    <2>2. IF l = <<>> THEN e = 0 ELSE e \in ToSet(l)
      <3>1. l \in Seq(Tracks)
        BY <1>1, WholeTypes
      <3> HIDE DEF l
      <3> QED BY <3>1, ElementOf
    <2>3. e \in Tracks \cup {0}
      <3>1. ToSet(l) \subseteq Tracks
        BY <1>1, ListOf
      <3> HIDE DEF l, e
      <3> QED BY <2>2, <3>1
    <2> HIDE DEF e
    <2>4. /\ r \in Playlists /\ Still(s, r) /\ r.visible = i /\ r.sel = e
          /\ r.ub = s.ub /\ r.cursor = s.cursor
      BY <1>1, <2>3 DEF Playlists, Still
    <2> HIDE DEF r
    <2>5. Whole(r)
      BY <2>4, Heads, Pointed DEF Still
    <2>6. Selects(r)
      BY <2>2, <2>4 DEF Selects, Still
    <2> QED BY <2>1, <2>4, <2>5, <2>6
  <1> QED BY <1>2, <1>3

LEMMA Used ==
  ASSUME ConstantsSound, NEW s, Whole(s)
  PROVE  /\ Whole(Uses(s)) /\ Still(s, Uses(s)) /\ Uses(s).visible = s.visible
         /\ Uses(s).sel = s.sel /\ Uses(s).cursor = s.cursor
         /\ ~Uses(s).ub => ~s.ub /\ (s.track # 0 => InPlay(s))
         /\ InPlay(s) => Uses(s).ub = s.ub
         /\ Selects(s) => Selects(Uses(s))
  <1> DEFINE u == s.ub \/ (s.track # 0 /\ ~InPlay(s))
             r == [s EXCEPT !.ub = u]
  <1>1. s \in Playlists /\ u \in BOOLEAN
    BY WholeTypes DEF InPlay
  <1>2. Uses(s) = r
    BY DEF Uses
  <1> HIDE DEF u
  <1>3. /\ r \in Playlists /\ Still(s, r) /\ r.visible = s.visible /\ r.sel = s.sel
        /\ r.cursor = s.cursor /\ r.ub = u
    BY <1>1 DEF Playlists, Still
  <1> HIDE DEF r
  <1>4. Whole(r)
    BY <1>3, Heads, Pointed DEF Still
  <1>5. Selects(s) => Selects(r)
    BY <1>3 DEF Selects, Still
  <1>6. InPlay(s) => u = s.ub
    <2>1. s.ub \in BOOLEAN
      BY WholeTypes
    <2>2. CASE s.ub = TRUE
      BY <2>2 DEF u
    <2>3. CASE s.ub = FALSE /\ InPlay(s)
      <3>1. ~u
        BY <2>3 DEF u
      <3> QED BY <1>1, <2>3, <3>1
    <2> QED BY <2>1, <2>2, <2>3
  <1>7. ~u => ~s.ub /\ (s.track # 0 => InPlay(s))
    BY DEF u
  <1> QED BY <1>2, <1>3, <1>4, <1>5, <1>6, <1>7

(* pl_select_playing_track: unless freed memory was read, the playing track *)
(* is in the playing playlist.                                             *)
LEMMA SelectedPlaying ==
  ASSUME ConstantsSound, NEW s, Whole(s)
  PROVE  LET r == pl_select_playing_track(s)
         IN  /\ Whole(r) /\ Still(s, r)
             /\ ~r.ub => ~s.ub /\ (Selects(s) => Selects(r))
             /\ InPlay(s) => r.ub = s.ub
             /\ s.track # 0 => r.visible = s.playing /\ r.sel = s.track
             /\ s.track = 0 => r.visible = s.visible /\ r.sel = s.sel
  <1> DEFINE r == pl_select_playing_track(s)
  <1>1. CASE s.track = 0
    BY <1>1 DEF pl_select_playing_track, Still
  <1>2. CASE s.track # 0
    <2> DEFINE u == Uses(s)
               x == Show(u, s.playing)
    <2>1. s.playing \in ToSet(s.head) /\ s.playing \in Ids /\ s.track \in Tracks
      BY <1>2, Heads, WholeTypes, IdsSound
    <2>2. Whole(u) /\ Still(s, u) /\ (~u.ub => ~s.ub /\ InPlay(s)) /\ (InPlay(s) => u.ub = s.ub)
      BY <1>2, Used
    <2> HIDE DEF u
    <2>3. s.playing \in ToSet(u.head)
      BY <2>1, <2>2 DEF Still
    <2>4. Whole(x) /\ Still(u, x) /\ x.visible = s.playing /\ x.ub = u.ub
      BY <2>2, <2>3, Shown
    <2>5. r = [x EXCEPT !.sel = s.track, !.cursor = TRUE]
      BY <1>2 DEF pl_select_playing_track, u
    <2> HIDE DEF x, r
    <2>6. x \in Playlists
      BY <2>4 DEF Whole
    <2>7. /\ r \in Playlists /\ Still(x, r) /\ r.visible = x.visible /\ r.sel = s.track /\ r.ub = x.ub
      BY <2>1, <2>5, <2>6 DEF Playlists, Still
    <2>8. Whole(r)
      BY <2>4, <2>7, Heads, Pointed DEF Still
    <2>9. Still(s, r)
      BY <2>2, <2>4, <2>7 DEF Still
    <2>10. ASSUME ~r.ub PROVE ~s.ub /\ Selects(r)
      <3>1. ~s.ub /\ Contains(s.pl[s.playing].list, s.track)
        BY <2>2, <2>4, <2>7, <2>10 DEF InPlay
      <3> DEFINE l == s.pl[s.playing].list
      <3>2. l \in Seq(Tracks)
        BY <2>1, WholeTypes
      <3>3. l = r.pl[r.visible].list
        BY <2>4, <2>7, <2>9 DEF Still
      <3>4. s.track \in ToSet(l) /\ l # <<>>
        <4>1. Contains(l, s.track)
          BY <3>1
        <4> HIDE DEF l
        <4> QED BY <3>2, <4>1, ElementOf
      <3> HIDE DEF l
      <3> QED BY <2>7, <3>1, <3>3, <3>4 DEF Selects
    <2> QED BY <1>2, <2>2, <2>4, <2>7, <2>8, <2>9, <2>10 DEF r
  <1> QED BY <1>1, <1>2

(* pl_play_track: t of playlist i plays. *)
LEMMA Played ==
  ASSUME ConstantsSound, NEW s, Whole(s), NEW i \in ToSet(s.head), NEW t \in ToSet(s.pl[i].list),
         NEW follow
  PROVE  LET r == pl_play_track(s, i, t, follow)
         IN  /\ Whole(r) /\ r.pl = s.pl /\ r.head = s.head /\ r.playing = i /\ r.track = t
             /\ r.marked = s.marked /\ r.ub = s.ub
             /\ ~r.ub /\ Selects(s) => Selects(r)
  <1> DEFINE x == [s EXCEPT !.playing = i, !.track = t]
             r == pl_play_track(s, i, t, follow)
  <1>1. s \in Playlists /\ i \in Ids /\ i # 0
    BY WholeTypes, IdsSound
  <1>2. t \in Tracks
    BY <1>1, ListOf
  <1>3. /\ x \in Playlists /\ x.pl = s.pl /\ x.head = s.head /\ x.playing = i /\ x.track = t
        /\ x.marked = s.marked /\ x.visible = s.visible /\ x.sel = s.sel /\ x.ub = s.ub
    BY <1>1, <1>2 DEF Playlists
  <1>4. r = IF follow THEN pl_select_playing_track(x) ELSE x
    BY DEF pl_play_track
  <1> HIDE DEF x, r
  <1>5. Whole(x)
    BY <1>1, <1>3, Heads, Pointed
  <1>6. Selects(s) => Selects(x)
    BY <1>3 DEF Selects
  <1>7. CASE follow
    <2>1. /\ Whole(r) /\ Still(x, r)
          /\ ~r.ub => ~x.ub /\ (Selects(x) => Selects(r))
          /\ InPlay(x) => r.ub = x.ub
      BY <1>4, <1>5, <1>7, SelectedPlaying
    <2>2. InPlay(x)
      <3> DEFINE l == s.pl[i].list
      <3>1. l \in Seq(Tracks) /\ t \in ToSet(l)
        BY <1>1, WholeTypes
      <3> HIDE DEF l
      <3>2. Contains(l, t)
        BY <3>1, ElementOf
      <3> QED BY <1>1, <1>3, <3>2 DEF InPlay, l
    <2> QED BY <1>3, <1>6, <2>1, <2>2 DEF Still, r
  <1>8. CASE ~follow
    <2>1. r = x
      BY <1>4, <1>8
    <2> QED BY <1>3, <1>5, <1>6, <2>1 DEF r
  <1> QED BY <1>7, <1>8

-----------------------------------------------------------------------------
(* The operations on tracks.  Fine(s): s may follow. *)

Fine(s) == Whole(s) /\ (~s.ub => Selects(s))

LEMMA Added1 ==
  ASSUME ConstantsSound, Whole(p), ~p.ub => Selects(p), NEW i \in Ids, NEW t \in Tracks,
         pl_add_track(i, t)
  PROVE  Fine(p')
  <1> DEFINE l == p.pl[i].list
             q == p.pl[i].shuf
  <1>1. \A j \in Ids : t \notin ToSet(p.pl[j].list)
    <2>1. ASSUME NEW j \in Ids PROVE t \notin ToSet(p.pl[j].list)
      <3>1. p.pl[j].list \in Seq(Tracks) /\ ~Contains(p.pl[j].list, t)
        BY WholeTypes DEF pl_add_track
      <3> QED BY <3>1, ElementOf
    <2> QED BY <2>1
  <1>2. /\ l \in Seq(Tracks) /\ q \in Seq(Tracks) /\ Once(l) /\ Once(q) /\ ToSet(q) = ToSet(l)
        /\ p.pl[i].marks \subseteq ToSet(l) /\ p.pl[i].marks \subseteq Tracks
    BY ListOf
  <1> DEFINE e == IF i = p.visible /\ p.sel = 0 THEN t ELSE p.sel
             l2 == Append(l, t)
  <1>3. PICK n \in 0 .. Len(q) :
          Do([p EXCEPT !.pl[i] = [p.pl[i] EXCEPT !.list = l2, !.shuf = InsertAt(q, n + 1, t)],
                       !.sel = e])
    BY DEF pl_add_track
  <1> DEFINE at == n + 1
             q2 == InsertAt(q, at, t)
             v == [p.pl[i] EXCEPT !.list = l2, !.shuf = q2]
             r == [p EXCEPT !.pl[i] = v, !.sel = e]
  <1>4. ~p.ub /\ p' = r
    BY <1>3 DEF Do
  <1>5. t \notin ToSet(l)
    BY <1>1
  <1>6. l2 \in Seq(Tracks) /\ Once(l2) /\ ToSet(l2) = ToSet(l) \cup {t} /\ l2 # <<>>
    <2> HIDE DEF l
    <2>1. /\ l2 \in Seq(Tracks) /\ Len(l2) = Len(l) + 1 /\ Len(l) \in Nat
          /\ \A j \in 1 .. Len(l) : l2[j] = l[j] /\ l2[Len(l) + 1] = t
      BY <1>2
    <2>2. \A x : x \in ToSet(l) <=> \E j \in 1 .. Len(l) : l[j] = x
      BY <1>2, ElementOf
    <2>3. l2[Len(l) + 1] = t
      BY <1>2
    <2> HIDE DEF l2
    <2>4. \A x : x \in ToSet(l2) <=> \E j \in 1 .. Len(l2) : l2[j] = x
      BY <2>1, ElementOf
    <2>5. \A j : j \in 1 .. Len(l2) <=> j \in 1 .. Len(l) \/ j = Len(l) + 1
      BY <2>1
    <2>6. ToSet(l2) = ToSet(l) \cup {t}
      BY <2>1, <2>2, <2>3, <2>4, <2>5
    <2>7. Once(l2)
      <3> SUFFICES ASSUME NEW a \in 1 .. Len(l2), NEW b \in 1 .. Len(l2), l2[a] = l2[b] PROVE a = b
        BY DEF Once
      <3>1. \A j \in 1 .. Len(l) : l2[j] # t
        BY <1>5, <2>1, <2>2
      <3>2. CASE a \in 1 .. Len(l) /\ b \in 1 .. Len(l)
        BY <1>2, <2>1, <3>2 DEF Once
      <3> QED BY <2>3, <2>5, <3>1, <3>2
    <2>8. l2 # <<>>
      BY <2>1
    <2> QED BY <2>1, <2>6, <2>7, <2>8
  <1>7. q2 \in Seq(Tracks) /\ Once(q2) /\ ToSet(q2) = ToSet(l) \cup {t}
    <2> HIDE DEF q, l
    <2>1. at \in 1 .. Len(q) + 1 /\ t \notin ToSet(q)
      BY <1>2, <1>5
    <2> HIDE DEF at
    <2>2. InsertAt(q, at, t) \in Seq(Tracks)
      BY <1>2, <2>1, Inserted
    <2>3. Once(InsertAt(q, at, t)) /\ ToSet(InsertAt(q, at, t)) = ToSet(q) \cup {t}
      BY <1>2, <2>1, InsertedSet
    <2> QED BY <1>2, <2>2, <2>3
  <1>8. p \in Playlists /\ e \in Tracks \cup {0}
    BY WholeTypes
  <1> HIDE DEF l2, q2, e
  <1>9. /\ v \in [name : Nat, list : Seq(Tracks), shuf : Seq(Tracks), marks : SUBSET Tracks]
        /\ v.list = l2 /\ v.shuf = q2 /\ v.marks = p.pl[i].marks /\ v.name = p.pl[i].name
    <2>1. p.pl[i] \in [name : Nat, list : Seq(Tracks), shuf : Seq(Tracks), marks : SUBSET Tracks]
      BY <1>8 DEF Playlists
    <2> QED BY <1>6, <1>7, <2>1
  <1> HIDE DEF v
  <1>10. /\ r \in Playlists /\ r.pl[i] = v /\ r.sel = e /\ \A j \in Ids : j # i => r.pl[j] = p.pl[j]
         /\ r.head = p.head /\ r.visible = p.visible /\ r.marked = p.marked
         /\ r.playing = p.playing /\ r.track = p.track /\ r.ub = p.ub
    BY <1>8, <1>9 DEF Playlists
  <1> HIDE DEF r
  <1>11. PointersSound(r)
    <2>1. \A j \in Ids : r.pl[j].name = p.pl[j].name
      BY <1>9, <1>10
    <2>2. p.head \in Seq(Ids)
      BY WholeTypes
    <2> QED BY <1>10, <2>1, <2>2, Heads, Pointing
  <1>12. ListSound(r.pl[i])
    BY <1>2, <1>6, <1>7, <1>9, <1>10 DEF ListSound
  <1>13. ASSUME NEW j \in Ids, j # i PROVE ToSet(r.pl[i].list) \cap ToSet(p.pl[j].list) = {}
    <2>1. ToSet(l) \cap ToSet(p.pl[j].list) = {}
      BY <1>13 DEF Whole, Apart
    <2>2. t \notin ToSet(p.pl[j].list)
      BY <1>1
    <2> HIDE DEF l
    <2> QED BY <1>6, <1>9, <1>10, <2>1, <2>2
  <1>14. Whole(r)
    <2>1. \A j \in Ids : j # i => /\ r.pl[j] = p.pl[j]
                                  /\ ToSet(r.pl[i].list) \cap ToSet(p.pl[j].list) = {}
      BY <1>10, <1>13
    <2>2. r \in Playlists
      BY <1>10
    <2> HIDE DEF l
    <2> QED BY <1>11, <1>12, <2>1, <2>2, Rewritten
  <1>15. Selects(r)
    <2>1. Selects(p) /\ p.visible \in Ids
      BY <1>4, WholeTypes
    <2>2. CASE p.visible = i
      <3>1. r.pl[r.visible].list = l2
        BY <1>9, <1>10, <2>2
      <3>2. e \in ToSet(l2)
        <4>1. CASE p.sel = 0
          BY <1>6, <2>2, <4>1 DEF e
        <4>2. CASE p.sel # 0
          <5>1. p.sel \in ToSet(l)
            BY <2>1, <2>2, <4>2 DEF Selects
          <5> HIDE DEF l
          <5> QED BY <1>6, <4>2, <5>1 DEF e
        <4> QED BY <4>1, <4>2
      <3> QED BY <1>6, <1>10, <3>1, <3>2 DEF Selects
    <2>3. CASE p.visible # i
      <3>1. r.pl[r.visible] = p.pl[p.visible] /\ r.sel = p.sel
        BY <1>10, <2>1, <2>3 DEF e
      <3> QED BY <2>1, <3>1 DEF Selects
    <2> QED BY <2>2, <2>3
  <1> QED BY <1>4, <1>14, <1>15 DEF Fine

(* pl_win_next, and what only moves the cursor. *)
LEMMA Windowed ==
  ASSUME NEW s, Fine(s)
  PROVE  /\ Fine(pl_win_next(s)) /\ Still(s, pl_win_next(s))
         /\ pl_win_next(s).visible = s.visible /\ pl_win_next(s).sel = s.sel
         /\ pl_win_next(s).ub = s.ub
  <1> DEFINE c == ~s.cursor /\ ~pl_empty(s, s.visible)
             r == [s EXCEPT !.cursor = c]
  <1>1. s \in Playlists /\ Whole(s)
    BY DEF Fine, Whole
  <1>2. c \in BOOLEAN
    BY DEF pl_empty
  <1>3. pl_win_next(s) = r
    BY DEF pl_win_next
  <1> HIDE DEF c
  <1>4. /\ r \in Playlists /\ Still(s, r) /\ r.visible = s.visible /\ r.sel = s.sel /\ r.ub = s.ub
    BY <1>1, <1>2 DEF Playlists, Still
  <1> HIDE DEF r
  <1>5. Whole(r)
    BY <1>1, <1>4, Heads, Pointed DEF Still
  <1>6. Fine(r)
    BY <1>4, <1>5 DEF Fine, Selects, Still
  <1> QED BY <1>3, <1>4, <1>6

(* The playing track is forgotten. *)
LEMMA Forgotten ==
  ASSUME NEW s, Fine(s), NEW t, t = 0 \/ t = s.track
  PROVE  /\ Fine([s EXCEPT !.track = t]) /\ [s EXCEPT !.track = t].pl = s.pl
         /\ [s EXCEPT !.track = t].visible = s.visible /\ [s EXCEPT !.track = t].sel = s.sel
         /\ [s EXCEPT !.track = t].ub = s.ub
  <1> DEFINE r == [s EXCEPT !.track = t]
  <1>1. s \in Playlists /\ Whole(s)
    BY DEF Fine, Whole
  <1>2. t \in Tracks \cup {0}
    BY <1>1, WholeTypes
  <1>3. /\ r \in Playlists /\ r.pl = s.pl /\ r.head = s.head /\ r.visible = s.visible
        /\ r.marked = s.marked /\ r.playing = s.playing /\ r.track = t /\ r.sel = s.sel /\ r.ub = s.ub
    BY <1>1, <1>2 DEF Playlists
  <1> HIDE DEF r
  <1>4. Whole(r)
    BY <1>1, <1>3, Heads, Pointed
  <1>5. Fine(r)
    BY <1>3, <1>4 DEF Fine, Selects
  <1> QED BY <1>3, <1>5 DEF r

LEMMA RemovesFine ==
  ASSUME ConstantsSound, NEW s, Fine(s), NEW i \in Ids, NEW ts \in Seq(Tracks), Once(ts),
         ToSet(ts) \subseteq ToSet(s.pl[i].list)
  PROVE  Fine(RemoveAll(s, i, ts)) /\ Loses(s, RemoveAll(s, i, ts), i, ToSet(ts))
  <1> DEFINE r == RemoveAll(s, i, ts)
  <1>1. Whole(r) /\ Loses(s, r, i, ToSet(ts)) /\ (Selects(s) => Selects(r))
    BY RemovesAll DEF Fine
  <1> HIDE DEF r
  <1>2. r.ub = s.ub
    BY <1>1 DEF Loses
  <1> QED BY <1>1, <1>2 DEF Fine, r

LEMMA DeletesTracks ==
  ASSUME ConstantsSound, Fine(p), ~p.ub
  PROVE  Fine(pl_delete_selected_track(p))
  <1> DEFINE v == p.pl[p.visible]
             gone == IF v.marks # {} THEN Select(v.list, v.marks)
                     ELSE IF p.sel # 0 THEN <<p.sel>> ELSE <<>>
             t == IF p.track = p.sel THEN 0 ELSE p.track
             x == [p EXCEPT !.track = t]
             y == RemoveAll(x, x.visible, gone)
  <1>1. Whole(p) /\ p.visible \in Ids /\ Selects(p)
    BY WholeTypes DEF Fine
  <1>2. v.list \in Seq(Tracks) /\ Once(v.list) /\ ToSet(v.list) \subseteq Tracks
    BY <1>1, ListOf
  <1>3. gone \in Seq(Tracks) /\ Once(gone) /\ ToSet(gone) \subseteq ToSet(v.list)
    <2>1. CASE v.marks # {}
      <3> DEFINE m == v.marks
                 l == v.list
      <3>1. l \in Seq(Tracks) /\ Once(l)
        BY <1>2
      <3> HIDE DEF m, l
      <3>2. Select(l, m) \in Seq(Tracks) /\ Once(Select(l, m)) /\ ToSet(Select(l, m)) = ToSet(l) \cap m
        BY <3>1, SelectedSet
      <3>3. gone = Select(l, m)
        BY <2>1 DEF m, l
      <3> QED BY <3>2, <3>3 DEF l
    <2>2. CASE v.marks = {} /\ p.sel # 0
      <3>1. gone = <<p.sel>>
        BY <2>2
      <3>2. p.sel \in ToSet(v.list)
        BY <1>1, <2>2 DEF Selects
      <3>3. <<p.sel>> \in Seq(Tracks) /\ Len(<<p.sel>>) = 1 /\ <<p.sel>>[1] = p.sel
        BY <1>2, <3>2
      <3>4. Once(<<p.sel>>)
        BY <3>3 DEF Once
      <3>5. ToSet(<<p.sel>>) = {p.sel}
        BY DEF ToSet
      <3> HIDE DEF gone, v
      <3> QED BY <3>1, <3>2, <3>3, <3>4, <3>5
    <2>3. CASE v.marks = {} /\ p.sel = 0
      <3>1. gone = <<>>
        BY <2>3
      <3>2. Once(<<>>)
        BY DEF Once
      <3>3. ToSet(<<>>) = {}
        BY DEF ToSet
      <3> HIDE DEF gone
      <3> QED BY <3>1, <3>2, <3>3
    <2> QED BY <2>1, <2>2, <2>3
  <1> HIDE DEF gone, t
  <1>4. Fine(x) /\ x.pl = p.pl /\ x.visible = p.visible
    BY Forgotten DEF t
  <1> HIDE DEF x
  <1>5. Fine(y)
    <2>1. ToSet(gone) \subseteq ToSet(x.pl[x.visible].list) /\ x.visible \in Ids
      BY <1>1, <1>3, <1>4
    <2> HIDE DEF v
    <2> QED BY <1>3, <1>4, <2>1, RemovesFine
  <1> HIDE DEF y
  <1>6. Fine(pl_win_next(y))
    BY <1>5, Windowed
  <1>7. pl_delete_selected_track(p) = IF pl_empty(y, y.visible) THEN pl_win_next(y) ELSE y
    BY DEF pl_delete_selected_track, Visible, y, x, t, gone
  <1> QED BY <1>5, <1>6, <1>7

LEMMA Clears ==
  ASSUME ConstantsSound, Fine(p)
  PROVE  Fine(pl_clear_visible_pl(p))
  <1> DEFINE x == IF p.cursor THEN pl_win_next(p) ELSE p
             t == IF x.visible = x.playing THEN 0 ELSE x.track
             y == [x EXCEPT !.track = t]
             l == y.pl[y.visible].list
  <1>1. Fine(x)
    BY Windowed
  <1> HIDE DEF x
  <1>2. t = 0 \/ t = x.track
    OBVIOUS
  <1> HIDE DEF t
  <1>3. Fine(y)
    BY <1>1, <1>2, Forgotten
  <1> HIDE DEF y
  <1>4. y.visible \in Ids /\ l \in Seq(Tracks) /\ Once(l)
    <2>1. y.visible \in Ids
      BY <1>3, WholeTypes DEF Fine
    <2> QED BY <1>3, <2>1, ListOf DEF Fine
  <1>5. Fine(RemoveAll(y, y.visible, l))
    BY <1>3, <1>4, RemovesFine
  <1>6. pl_clear_visible_pl(p) = RemoveAll(y, y.visible, l)
    BY DEF pl_clear_visible_pl, Visible, y, x, t
  <1> QED BY <1>5, <1>6

(* Tracks whose file is gone leave every playlist. *)
LEMMA Updates ==
  ASSUME ConstantsSound, Fine(p), NEW i, pl_update_track(i)
  PROVE  Fine(p')
  <1> DEFINE S == {t \in Tracks : Info[t] = i}
             gone(j) == Select(p.pl[j].list, S)
             k == Cardinality(Names)
             ts == [j \in Ids |-> j]
             f == [x \in Playlists \X Ids |-> RemoveAll(x[1], x[2], gone(x[2]))]
             Ok(x, n) == /\ Fine(x) /\ x.ub = p.ub
                         /\ \A j \in Ids : j > n => x.pl[j] = p.pl[j]
             G == [n \in 0 .. k |-> {x \in Playlists : Ok(x, n)}]
  <1>1. k \in Nat /\ Len(ts) = k /\ p \in Playlists /\ Whole(p)
    BY IdsSound DEF Ids, Fine, Whole
  <1>2. \A n \in 0 .. k : G[n] = {x \in Playlists : Ok(x, n)}
    OBVIOUS
  <1>3. \A x \in Playlists, j \in Ids : f[<<x, j>>] = RemoveAll(x, j, gone(j))
    OBVIOUS
  <1>4. \A j \in Ids : ts[j] = j
    OBVIOUS
  <1>5. Ids = 1 .. k
    BY DEF Ids
  <1>6. \A j \in Ids : /\ gone(j) \in Seq(Tracks) /\ Once(gone(j))
                       /\ ToSet(gone(j)) \subseteq ToSet(p.pl[j].list)
    <2> SUFFICES ASSUME NEW j \in Ids
                 PROVE  /\ gone(j) \in Seq(Tracks) /\ Once(gone(j))
                        /\ ToSet(gone(j)) \subseteq ToSet(p.pl[j].list)
      OBVIOUS
    <2> DEFINE l == p.pl[j].list
    <2>1. l \in Seq(Tracks) /\ Once(l)
      BY <1>1, ListOf
    <2> HIDE DEF S, l
    <2>2. Select(l, S) \in Seq(Tracks) /\ Once(Select(l, S)) /\ ToSet(Select(l, S)) = ToSet(l) \cap S
      BY <2>1, SelectedSet
    <2> QED BY <2>2 DEF l
  <1>7. ~p.ub /\ p' = Fold(f, p, ts)
    BY DEF pl_update_track, Do
  <1> HIDE DEF G, k, f, ts, gone
  <1>8. p \in G[0]
    BY <1>1, <1>2
  <1>9. ASSUME NEW n \in 1 .. k, NEW x \in G[n - 1] PROVE f[<<x, ts[n]>>] \in G[n]
    <2>1. n - 1 \in 0 .. k /\ n \in 0 .. k /\ n \in Ids /\ n > n - 1
      BY <1>1, <1>5
    <2>2. x \in Playlists /\ Ok(x, n - 1)
      BY <1>2, <1>9, <2>1
    <2> DEFINE r == RemoveAll(x, n, gone(n))
    <2>3. f[<<x, ts[n]>>] = r
      BY <1>3, <1>4, <2>1, <2>2
    <2>4. x.pl[n] = p.pl[n]
      BY <2>1, <2>2
    <2> DEFINE g == gone(n)
    <2>5. g \in Seq(Tracks) /\ Once(g) /\ ToSet(g) \subseteq ToSet(x.pl[n].list)
      BY <1>6, <2>1, <2>4
    <2> HIDE DEF g
    <2>6. Fine(RemoveAll(x, n, g)) /\ Loses(x, RemoveAll(x, n, g), n, ToSet(g))
      BY <2>1, <2>2, <2>5, RemovesFine
    <2>7. Fine(r) /\ Loses(x, r, n, ToSet(g))
      BY <2>6 DEF g
    <2> HIDE DEF r
    <2>8. r \in Playlists /\ r.ub = x.ub
      BY <2>7 DEF Fine, Whole, Loses
    <2>9. ASSUME NEW j \in Ids, j > n PROVE r.pl[j] = p.pl[j]
      <3>1. j # n /\ j > n - 1
        BY <1>1, <1>5, <2>9
      <3>2. r.pl[j] = x.pl[j]
        BY <2>7, <3>1 DEF Loses
      <3> QED BY <2>2, <3>1, <3>2
    <2>10. Ok(r, n)
      BY <2>2, <2>7, <2>8, <2>9
    <2> QED BY <1>2, <2>1, <2>3, <2>8, <2>10
  <1>10. Fold(f, p, ts) \in G[k]
    BY <1>1, <1>8, <1>9, FoldInduction
  <1>11. Fine(Fold(f, p, ts))
    BY <1>1, <1>2, <1>10
  <1> QED BY <1>7, <1>11

-----------------------------------------------------------------------------
(* The operations on playlists. *)

(* A playlist under a name that no other has. *)
LEMMA Creates ==
  ASSUME ConstantsSound, Fine(p), ~p.ub, Free # {}, NEW n \in Nat \ {0}, ~pl_name_exists(n)
  PROVE  Fine(Added(n))
  <1> DEFINE i == CHOOSE j \in Free : TRUE
             h == Append(p.head, i)
             v == [name |-> n, list |-> <<>>, shuf |-> <<>>, marks |-> {}]
             r == [p EXCEPT !.pl[i] = v, !.head = h]
  <1>1. i \in Ids /\ p.pl[i] = None
    <2>1. i \in Free
      OBVIOUS
    <2> HIDE DEF i
    <2> QED BY <2>1 DEF Free
  <1>2. Added(n) = r
    BY DEF Added, Pl
  <1> HIDE DEF i
  <1>3. p \in Playlists /\ Whole(p) /\ Selects(p) /\ PointersSound(p) /\ p.head \in Seq(Ids)
    BY WholeTypes, Heads DEF Fine
  <1>4. i \notin ToSet(p.head)
    BY <1>1, <1>3 DEF PointersSound, None
  <1>5. h \in Seq(Ids) /\ Once(h) /\ ToSet(h) = ToSet(p.head) \cup {i}
    <2> DEFINE l == p.head
    <2>1. l \in Seq(Ids) /\ Once(l) /\ i \notin ToSet(l)
      BY <1>3, <1>4 DEF PointersSound
    <2> HIDE DEF l
    <2> DEFINE l2 == Append(l, i)
    <2>2. /\ l2 \in Seq(Ids) /\ Len(l2) = Len(l) + 1 /\ Len(l) \in Nat
          /\ \A j \in 1 .. Len(l) : l2[j] = l[j]
      BY <1>1, <2>1
    <2>3. l2[Len(l) + 1] = i
      BY <2>1
    <2>4. \A x : x \in ToSet(l) <=> \E j \in 1 .. Len(l) : l[j] = x
      BY <2>1, ElementOf
    <2>5. h = l2
      BY DEF l
    <2> HIDE DEF l2, h
    <2>6. \A x : x \in ToSet(l2) <=> \E j \in 1 .. Len(l2) : l2[j] = x
      BY <2>2, ElementOf
    <2>7. \A j : j \in 1 .. Len(l2) <=> j \in 1 .. Len(l) \/ j = Len(l) + 1
      BY <2>2
    <2>8. ToSet(l2) = ToSet(l) \cup {i}
      BY <2>2, <2>3, <2>4, <2>6, <2>7
    <2>9. Once(l2)
      <3> SUFFICES ASSUME NEW a \in 1 .. Len(l2), NEW b \in 1 .. Len(l2), l2[a] = l2[b] PROVE a = b
        BY DEF Once
      <3>1. \A j \in 1 .. Len(l) : l2[j] # i
        BY <2>1, <2>2, <2>4
      <3>2. CASE a \in 1 .. Len(l) /\ b \in 1 .. Len(l)
        BY <2>1, <2>2, <3>2 DEF Once
      <3> QED BY <2>3, <2>7, <3>1, <3>2
    <2> QED BY <2>2, <2>5, <2>8, <2>9 DEF l
  <1> HIDE DEF h
  <1>6. /\ v \in [name : Nat, list : Seq(Tracks), shuf : Seq(Tracks), marks : SUBSET Tracks]
        /\ v.name = n /\ v.list = <<>> /\ v.shuf = <<>> /\ v.marks = {}
    OBVIOUS
  <1> HIDE DEF v
  <1>7. /\ r \in Playlists /\ r.pl[i] = v /\ r.head = h /\ \A j \in Ids : j # i => r.pl[j] = p.pl[j]
        /\ r.visible = p.visible /\ r.marked = p.marked /\ r.playing = p.playing
        /\ r.track = p.track /\ r.sel = p.sel /\ r.ub = p.ub
    BY <1>1, <1>3, <1>5, <1>6 DEF Playlists
  <1> HIDE DEF r
  <1>8. PointersSound(r)
    <2>1. \A j \in ToSet(p.head) : j \in Ids /\ j # i /\ r.pl[j].name = p.pl[j].name
      BY <1>3, <1>4, <1>7, ElementSet
    <2>2. \A j \in ToSet(p.head) : p.pl[j].name # n /\ p.pl[j].name # 0
      BY <1>3 DEF pl_name_exists, PointersSound
    <2>3. r.pl[i].name = n
      BY <1>6, <1>7
    <2>4. /\ Once(r.head) /\ r.visible \in ToSet(r.head) /\ r.marked \in ToSet(r.head)
          /\ r.playing \in ToSet(r.head) \cup {0} /\ (r.track # 0 => r.playing # 0)
      BY <1>3, <1>5, <1>7 DEF PointersSound
    <2>5. \A j \in ToSet(r.head) : r.pl[j].name # 0
      BY <1>5, <1>7, <2>1, <2>2, <2>3
    <2>6. ASSUME NEW j \in ToSet(r.head), NEW k \in ToSet(r.head), r.pl[j].name = r.pl[k].name
          PROVE  j = k
      <3>1. CASE j \in ToSet(p.head) /\ k \in ToSet(p.head)
        BY <1>3, <2>1, <2>6, <3>1 DEF PointersSound
      <3>2. CASE j = i \/ k = i
        BY <1>5, <1>7, <2>1, <2>2, <2>3, <2>6, <3>2
      <3> QED BY <1>5, <1>7, <2>6, <3>1, <3>2
    <2> QED BY <2>4, <2>5, <2>6 DEF PointersSound
  <1>9. Whole(r)
    <2>1. ListSound(r.pl[i]) /\ ToSet(r.pl[i].list) = {}
      BY <1>6, <1>7 DEF ListSound, Once, ToSet
    <2>2. \A j \in Ids : j # i => /\ r.pl[j] = p.pl[j]
                                  /\ ToSet(r.pl[i].list) \cap ToSet(p.pl[j].list) = {}
      BY <1>7, <2>1
    <2>3. r \in Playlists
      BY <1>7
    <2> QED BY <1>1, <1>3, <1>8, <2>1, <2>2, <2>3, Rewritten
  <1>10. Selects(r)
    <2>1. r.pl[r.visible] = p.pl[p.visible]
      BY <1>3, <1>4, <1>7, WholeTypes DEF PointersSound
    <2> QED BY <1>3, <1>7, <2>1 DEF Selects
  <1> QED BY <1>2, <1>9, <1>10 DEF Fine

(* The name that an import settles on. *)
LEMMA NameFound ==
  ASSUME ConstantsSound, NEW n \in Names, NEW name \in pl_create_name(n)
  PROVE  name \in Nat \ {0} /\ ~pl_name_exists(name)
  <1> DEFINE D == 0 .. MaxTries - 1
             tries == [k \in D |-> IF k = 0 THEN n ELSE 100 * n + k]
             free == {k \in DOMAIN tries : ~pl_name_exists(tries[k])}
  <1>1. n \in Nat \ {0} /\ MaxTries \in Nat /\ D \subseteq Nat
    BY DEF ConstantsSound
  <1>2. free # {} /\ name = tries[Min(free)]
    BY DEF pl_create_name
  <1>3. free \subseteq D /\ \A k \in free : ~pl_name_exists(tries[k])
    OBVIOUS
  <1>4. \A k \in D : tries[k] \in Nat \ {0}
    BY <1>1
  <1> HIDE DEF free, tries
  <1>5. Min(free) \in free
    BY <1>1, <1>2, <1>3, LeastOf
  <1> QED BY <1>2, <1>3, <1>4, <1>5

(* The visible playlist gets a name that no other has. *)
LEMMA Renames ==
  ASSUME ConstantsSound, Fine(p), ~p.ub, NEW n \in Names, ~pl_name_exists(n)
  PROVE  Fine([p EXCEPT !.pl[p.visible].name = n])
  <1> DEFINE i == p.visible
             r == [p EXCEPT !.pl[i].name = n]
  <1>1. p \in Playlists /\ Whole(p) /\ Selects(p) /\ PointersSound(p) /\ i \in Ids
    BY WholeTypes, Heads DEF Fine
  <1>2. n \in Nat \ {0}
    BY DEF ConstantsSound
  <1>3. /\ r \in Playlists /\ r.pl[i].name = n
        /\ r.pl[i].list = p.pl[i].list /\ r.pl[i].shuf = p.pl[i].shuf /\ r.pl[i].marks = p.pl[i].marks
        /\ \A j \in Ids : j # i => r.pl[j] = p.pl[j]
        /\ r.head = p.head /\ r.visible = i /\ r.marked = p.marked /\ r.playing = p.playing
        /\ r.track = p.track /\ r.sel = p.sel /\ r.ub = p.ub
    BY <1>1, <1>2 DEF Playlists
  <1> HIDE DEF r
  <1>4. PointersSound(r)
    <2>1. \A j \in ToSet(p.head) : j \in Ids /\ p.pl[j].name # n /\ p.pl[j].name # 0
      BY <1>1, WholeTypes DEF pl_name_exists, PointersSound
    <2>2. \A j \in ToSet(p.head) : r.pl[j].name = IF j = i THEN n ELSE p.pl[j].name
      BY <1>3, <2>1
    <2>3. \A j, k \in ToSet(p.head) : p.pl[j].name = p.pl[k].name => j = k
      BY <1>1 DEF PointersSound
    <2>4. \A j, k \in ToSet(r.head) : r.pl[j].name = r.pl[k].name => j = k
      BY <1>3, <2>1, <2>2, <2>3
    <2>5. \A j \in ToSet(r.head) : r.pl[j].name # 0
      BY <1>2, <1>3, <2>1, <2>2
    <2> QED BY <1>1, <1>3, <2>4, <2>5 DEF PointersSound
  <1>5. ListSound(r.pl[i]) /\ r.pl[i].list = p.pl[i].list
    BY <1>1, <1>3 DEF Whole, ListSound
  <1>6. \A j \in Ids : j # i => /\ r.pl[j] = p.pl[j]
                                /\ ToSet(r.pl[i].list) \cap ToSet(p.pl[j].list) = {}
    BY <1>1, <1>3, <1>5 DEF Whole, Apart
  <1>7. Whole(r)
    <2>1. r \in Playlists
      BY <1>3
    <2> HIDE DEF i
    <2> QED BY <1>1, <1>4, <1>5, <1>6, <2>1, Rewritten
  <1>8. Selects(r)
    BY <1>1, <1>3 DEF Selects
  <1> QED BY <1>7, <1>8 DEF Fine, r

(* pl_delete_selected_pl, of one playlist among others. *)
LEMMA DeletesPlaylist ==
  ASSUME ConstantsSound, Fine(p), ~p.ub, Len(p.head) > 1
  PROVE  Fine(pl_delete_selected_pl(p))
  <1> DEFINE i == p.visible
             hd == p.head
             n == Place(hd, i)
             next == IF n < Len(hd) THEN hd[n + 1] ELSE hd[n - 1]
             x == Show(p, next)
             h == Select(x.head, Ids \ {i})
             m == IF x.marked = i THEN x.visible ELSE x.marked
             g == IF x.playing = i THEN 0 ELSE x.playing
             t == IF p.playing = i THEN 0 ELSE x.track
             v == [name |-> 0, list |-> <<>>, shuf |-> <<>>, marks |-> {}]
             r == [x EXCEPT !.head = h, !.pl[i] = v, !.marked = m, !.playing = g, !.track = t]
  <1>1. /\ p \in Playlists /\ Whole(p) /\ Selects(p) /\ PointersSound(p) /\ i \in Ids
        /\ hd \in Seq(Ids) /\ i \in ToSet(hd) /\ Once(hd)
    BY WholeTypes, Heads DEF Fine, PointersSound
  <1>2. pl_delete_selected_pl(p) = r
    BY DEF pl_delete_selected_pl, None
  <1>3. next \in ToSet(hd) /\ next # i
    <2> HIDE DEF i
    <2>1. Len(hd) > 1
      OBVIOUS
    <2> HIDE DEF hd
    <2>2. n \in 1 .. Len(hd) /\ hd[n] = i /\ Len(hd) \in Nat
      BY <1>1, PlaceHere
    <2> HIDE DEF n
    <2>3. CASE n < Len(hd)
      <3>1. n + 1 \in 1 .. Len(hd) /\ n + 1 # n
        BY <2>2, <2>3
      <3>2. hd[n + 1] # i /\ hd[n + 1] \in ToSet(hd)
        BY <1>1, <2>2, <3>1, ElementOf DEF Once
      <3> QED BY <2>3, <3>2
    <2>4. CASE ~(n < Len(hd))
      <3>1. n - 1 \in 1 .. Len(hd) /\ n - 1 # n
        BY <2>1, <2>2, <2>4
      <3>2. hd[n - 1] # i /\ hd[n - 1] \in ToSet(hd)
        BY <1>1, <2>2, <3>1, ElementOf DEF Once
      <3> QED BY <2>4, <3>2
    <2> QED BY <2>3, <2>4
  <1> HIDE DEF next
  <1>4. Whole(x) /\ Still(p, x) /\ x.visible = next /\ x.ub = p.ub /\ Selects(x)
    BY <1>1, <1>3, Shown
  <1> HIDE DEF x
  <1>5. h \in Seq(Ids) /\ Once(h) /\ ToSet(h) = ToSet(hd) \ {i}
    <2>0. h = Select(hd, Ids \ {i})
      BY <1>4 DEF Still
    <2> DEFINE I == Ids \ {i}
    <2> HIDE DEF hd, h, I
    <2>1. h \in Seq(Ids) /\ Once(h) /\ ToSet(h) = ToSet(hd) \cap (Ids \ {i})
      <3>1. /\ Select(hd, I) \in Seq(Ids) /\ Once(Select(hd, I))
            /\ ToSet(Select(hd, I)) = ToSet(hd) \cap I
        BY <1>1, SelectedSet
      <3> QED BY <2>0, <3>1 DEF I
    <2>2. ToSet(hd) \subseteq Ids
      BY <1>1, ElementSet
    <2> QED BY <2>1, <2>2
  <1>6. next \in Ids /\ x \in Playlists
    BY <1>1, <1>3, <1>4, ElementSet DEF Whole
  <1>7. m \in ToSet(h) /\ g \in ToSet(h) \cup {0} /\ (t # 0 => g # 0) /\ next \in ToSet(h)
    <2>1. /\ x.marked \in ToSet(hd) /\ x.playing \in ToSet(hd) \cup {0}
          /\ x.playing = p.playing /\ (x.track # 0 => x.playing # 0)
      BY <1>4, Heads DEF Still
    <2> HIDE DEF hd, i
    <2> QED BY <1>3, <1>4, <1>5, <2>1
  <1>8. m \in Ids /\ g \in Ids \cup {0} /\ t \in Tracks \cup {0}
    <2>1. ToSet(h) \subseteq Ids
      <3> HIDE DEF h
      <3> QED BY <1>5, ElementSet
    <2>2. x.track \in Tracks \cup {0}
      BY <1>4, WholeTypes
    <2> HIDE DEF m, g, h
    <2> QED BY <1>7, <2>1, <2>2
  <1>9. /\ v \in [name : Nat, list : Seq(Tracks), shuf : Seq(Tracks), marks : SUBSET Tracks]
        /\ v.name = 0 /\ v.list = <<>> /\ v.shuf = <<>> /\ v.marks = {}
    OBVIOUS
  <1> HIDE DEF h, m, g, t, v, hd
  <1>10. /\ r \in Playlists /\ r.pl[i] = v /\ \A j \in Ids : j # i => r.pl[j] = x.pl[j]
         /\ r.head = h /\ r.visible = x.visible /\ r.marked = m /\ r.playing = g
         /\ r.track = t /\ r.sel = x.sel /\ r.ub = x.ub
    <2> DEFINE pl2 == [x.pl EXCEPT ![i] = v]
               r2 == [x EXCEPT !.head = h, !.pl = pl2, !.marked = m, !.playing = g, !.track = t]
    <2>1. /\ pl2 \in [Ids -> [name : Nat, list : Seq(Tracks), shuf : Seq(Tracks), marks : SUBSET Tracks]]
          /\ pl2[i] = v /\ \A j \in Ids : j # i => pl2[j] = x.pl[j]
      BY <1>1, <1>6, <1>9 DEF Playlists
    <2>2. /\ r \in Playlists /\ r.pl = pl2
          /\ r.head = h /\ r.visible = x.visible /\ r.marked = m /\ r.playing = g
          /\ r.track = t /\ r.sel = x.sel /\ r.ub = x.ub
      <3> HIDE DEF i
      <3>1. x \in Playlists /\ i \in Ids /\ h \in Seq(Ids)
        BY <1>1, <1>5, <1>6
      <3>2. r \in Playlists
        BY <1>8, <1>9, <3>1 DEF Playlists
      <3>3. r.pl = pl2
        BY <3>1 DEF Playlists
      <3> QED BY <3>1, <3>2, <3>3 DEF Playlists
    <2> HIDE DEF r, pl2
    <2> QED BY <2>1, <2>2
  <1> HIDE DEF r
  <1>11. PointersSound(r)
    <2>1. \A j \in ToSet(h) : j \in ToSet(hd) /\ j \in Ids /\ j # i /\ r.pl[j].name = p.pl[j].name
      BY <1>1, <1>4, <1>5, <1>10, ElementSet DEF Still
    <2>2. /\ \A j \in ToSet(hd) : p.pl[j].name # 0
          /\ \A j, k \in ToSet(hd) : p.pl[j].name = p.pl[k].name => j = k
      BY <1>1 DEF PointersSound, hd
    <2>3. /\ Once(r.head) /\ r.visible \in ToSet(r.head) /\ r.marked \in ToSet(r.head)
          /\ r.playing \in ToSet(r.head) \cup {0} /\ (r.track # 0 => r.playing # 0)
      BY <1>4, <1>5, <1>7, <1>10
    <2>4. \A j \in ToSet(r.head) : r.pl[j].name # 0
      BY <1>10, <2>1, <2>2
    <2>5. \A j, k \in ToSet(r.head) : r.pl[j].name = r.pl[k].name => j = k
      BY <1>10, <2>1, <2>2
    <2> QED BY <2>3, <2>4, <2>5 DEF PointersSound
  <1>12. Whole(r)
    <2>1. ListSound(r.pl[i]) /\ ToSet(r.pl[i].list) = {}
      BY <1>9, <1>10 DEF ListSound, Once, ToSet
    <2>2. \A j \in Ids : j # i => /\ r.pl[j] = x.pl[j]
                                  /\ ToSet(r.pl[i].list) \cap ToSet(x.pl[j].list) = {}
      BY <1>10, <2>1
    <2>3. r \in Playlists
      BY <1>10
    <2> HIDE DEF i
    <2> QED BY <1>1, <1>4, <1>11, <2>1, <2>2, <2>3, Rewritten
  <1>13. Selects(r)
    <2>1. r.pl[r.visible] = x.pl[x.visible]
      BY <1>3, <1>4, <1>6, <1>10
    <2> QED BY <1>4, <1>10, <2>1 DEF Selects
  <1> QED BY <1>2, <1>12, <1>13 DEF Fine

(* The tracks of the visible playlist are marked or brought into another   *)
(* order: the set of them stays.                                           *)
LEMMA Rearranged ==
  ASSUME NEW s, Whole(s), NEW i \in Ids, NEW r \in Playlists, r.head = s.head,
         r.visible = s.visible, r.marked \in ToSet(s.head), r.playing \in ToSet(s.head) \cup {0},
         r.track # 0 => r.playing # 0, \A j \in Ids : j # i => r.pl[j] = s.pl[j],
         r.pl[i].name = s.pl[i].name, ToSet(r.pl[i].list) = ToSet(s.pl[i].list), ListSound(r.pl[i])
  PROVE  Whole(r) /\ (Selects(s) /\ r.sel = s.sel => Selects(r))
  <1>1. PointersSound(r)
    <2>1. \A j \in Ids : r.pl[j].name = s.pl[j].name
      OBVIOUS
    <2>2. s.head \in Seq(Ids)
      BY WholeTypes
    <2> QED BY <2>1, <2>2, Heads, Pointing
  <1>2. \A j \in Ids : j # i => /\ r.pl[j] = s.pl[j]
                                /\ ToSet(r.pl[i].list) \cap ToSet(s.pl[j].list) = {}
    BY DEF Whole, Apart
  <1>3. Whole(r)
    BY <1>1, <1>2, Rewritten
  <1>4. ASSUME Selects(s), r.sel = s.sel PROVE Selects(r)
    <2>1. s.visible \in Ids /\ r.visible \in Ids
      BY <1>3, WholeTypes
    <2>2. ToSet(r.pl[r.visible].list) = ToSet(s.pl[s.visible].list)
      BY <2>1
    <2>3. /\ r.pl[r.visible].list = <<>> <=> ToSet(r.pl[r.visible].list) = {}
          /\ s.pl[s.visible].list = <<>> <=> ToSet(s.pl[s.visible].list) = {}
      BY <1>3, <2>1, ListOf
    <2> QED BY <1>4, <2>2, <2>3 DEF Selects
  <1> QED BY <1>3, <1>4

LEMMA MarksTracks ==
  ASSUME NEW s, Fine(s), ~s.ub, NEW m, m \subseteq ToSet(s.pl[s.visible].list)
  PROVE  Fine([s EXCEPT !.pl[s.visible].marks = m])
  <1> DEFINE i == s.visible
             r == [s EXCEPT !.pl[i].marks = m]
  <1>1. s \in Playlists /\ Whole(s) /\ Selects(s) /\ i \in Ids
    BY WholeTypes DEF Fine
  <1>2. m \in SUBSET Tracks
    BY <1>1, ListOf
  <1>3. /\ r \in Playlists /\ r.pl[i].marks = m /\ r.pl[i].list = s.pl[i].list
        /\ r.pl[i].shuf = s.pl[i].shuf /\ r.pl[i].name = s.pl[i].name
        /\ \A j \in Ids : j # i => r.pl[j] = s.pl[j]
        /\ r.head = s.head /\ r.visible = s.visible /\ r.marked = s.marked /\ r.playing = s.playing
        /\ r.track = s.track /\ r.sel = s.sel /\ r.ub = s.ub
    BY <1>1, <1>2 DEF Playlists
  <1> HIDE DEF r
  <1>4. ListSound(r.pl[i])
    BY <1>1, <1>3 DEF Whole, ListSound
  <1> HIDE DEF i
  <1>5. Whole(r) /\ Selects(r)
    BY <1>1, <1>3, <1>4, Heads, Rearranged
  <1> QED BY <1>5 DEF Fine, r, i

LEMMA Reorders ==
  ASSUME NEW s, Fine(s), ~s.ub, NEW o \in SetToSeqs(ToSet(s.pl[s.visible].list))
  PROVE  Fine([s EXCEPT !.pl[s.visible].list = o])
  <1> DEFINE i == s.visible
             l == s.pl[i].list
             r == [s EXCEPT !.pl[i].list = o]
  <1>1. s \in Playlists /\ Whole(s) /\ Selects(s) /\ i \in Ids
    BY WholeTypes DEF Fine
  <1>2. o \in Seq(Tracks) /\ Once(o) /\ ToSet(o) = ToSet(l)
    <2>1. l \in Seq(Tracks) /\ o \in SetToSeqs(ToSet(l))
      BY <1>1, ListOf
    <2> HIDE DEF l
    <2>2. ToSet(l) \subseteq Tracks /\ IsFiniteSet(ToSet(l))
      BY <2>1, ElementSet
    <2> QED BY <2>1, <2>2, Orders
  <1>3. /\ r \in Playlists /\ r.pl[i].list = o /\ r.pl[i].marks = s.pl[i].marks
        /\ r.pl[i].shuf = s.pl[i].shuf /\ r.pl[i].name = s.pl[i].name
        /\ \A j \in Ids : j # i => r.pl[j] = s.pl[j]
        /\ r.head = s.head /\ r.visible = s.visible /\ r.marked = s.marked /\ r.playing = s.playing
        /\ r.track = s.track /\ r.sel = s.sel /\ r.ub = s.ub
    BY <1>1, <1>2 DEF Playlists
  <1> HIDE DEF r
  <1>4. ListSound(r.pl[i])
    BY <1>1, <1>2, <1>3 DEF Whole, ListSound
  <1>5. ToSet(r.pl[i].list) = ToSet(s.pl[i].list)
    BY <1>2, <1>3
  <1> HIDE DEF i, l
  <1>6. Whole(r) /\ Selects(r)
    BY <1>1, <1>3, <1>4, <1>5, Heads, Rearranged
  <1> QED BY <1>6 DEF Fine, r, i

(* The pointer to the marked playlist. *)
LEMMA MarksPlaylist ==
  ASSUME NEW s, Fine(s), NEW i \in ToSet(s.head)
  PROVE  Fine([s EXCEPT !.marked = i])
  <1> DEFINE r == [s EXCEPT !.marked = i]
  <1>1. s \in Playlists /\ Whole(s) /\ i \in Ids
    BY WholeTypes DEF Fine
  <1>2. /\ r \in Playlists /\ r.pl = s.pl /\ r.head = s.head /\ r.visible = s.visible /\ r.marked = i
        /\ r.playing = s.playing /\ r.track = s.track /\ r.sel = s.sel /\ r.ub = s.ub
    BY <1>1 DEF Playlists
  <1> HIDE DEF r
  <1>3. Whole(r)
    BY <1>1, <1>2, Heads, Pointed
  <1> QED BY <1>2, <1>3 DEF Fine, Selects, r

(* The selection and the cursor: e is a track of the visible playlist. *)
LEMMA SelectsTrack ==
  ASSUME NEW s, Fine(s), NEW e, e = s.sel \/ e \in ToSet(s.pl[s.visible].list), NEW c \in BOOLEAN
  PROVE  Fine([s EXCEPT !.sel = e, !.cursor = c])
  <1> DEFINE r == [s EXCEPT !.sel = e, !.cursor = c]
  <1>1. s \in Playlists /\ Whole(s) /\ s.visible \in Ids
    BY WholeTypes DEF Fine
  <1>2. e \in Tracks \cup {0}
    BY <1>1, WholeTypes, ListOf
  <1>3. /\ r \in Playlists /\ r.pl = s.pl /\ r.head = s.head /\ r.visible = s.visible
        /\ r.marked = s.marked /\ r.playing = s.playing /\ r.track = s.track /\ r.sel = e /\ r.ub = s.ub
    BY <1>1, <1>2 DEF Playlists
  <1> HIDE DEF r
  <1>4. Whole(r)
    BY <1>1, <1>3, Heads, Pointed
  <1>5. ASSUME ~r.ub PROVE Selects(r)
    <2>1. Selects(s)
      BY <1>3, <1>5 DEF Fine
    <2> DEFINE l == s.pl[s.visible].list
    <2>2. l = <<>> <=> ToSet(l) = {}
      BY <1>1, ListOf
    <2> QED BY <1>3, <2>1, <2>2 DEF Selects
  <1> QED BY <1>4, <1>5 DEF Fine, r

LEMMA ShownFine ==
  ASSUME ConstantsSound, NEW s, Fine(s), NEW i \in ToSet(s.head)
  PROVE  Fine(Show(s, i)) /\ Show(s, i).pl = s.pl /\ Show(s, i).visible = i
  BY Shown DEF Fine, Still

-----------------------------------------------------------------------------
(* Playing. *)

(* Only a shuffled order changes. *)
Ordered(s, r) ==
  /\ \A j \in Ids : r.pl[j].list = s.pl[j].list
  /\ r.head = s.head /\ r.visible = s.visible /\ r.marked = s.marked /\ r.playing = s.playing
  /\ r.track = s.track /\ r.cursor = s.cursor /\ r.sel = s.sel /\ r.ub = s.ub

LEMMA Drawn ==
  ASSUME NEW s, Whole(s), NEW i \in Ids, NEW q \in Seq(Tracks), Once(q),
         ToSet(q) = ToSet(s.pl[i].list)
  PROVE  LET r == [s EXCEPT !.pl[i].shuf = q]
         IN  /\ Whole(r) /\ Ordered(s, r) /\ (Selects(s) => Selects(r))
             /\ r.pl[i].shuf = q /\ r.pl = [s.pl EXCEPT ![i].shuf = q]
  <1> DEFINE r == [s EXCEPT !.pl[i].shuf = q]
  <1>1. s \in Playlists
    BY DEF Whole
  <1>2. /\ r \in Playlists /\ r.pl[i].shuf = q /\ r.pl[i].list = s.pl[i].list
        /\ r.pl[i].marks = s.pl[i].marks /\ r.pl[i].name = s.pl[i].name
        /\ \A j \in Ids : j # i => r.pl[j] = s.pl[j]
        /\ r.head = s.head /\ r.visible = s.visible /\ r.marked = s.marked /\ r.playing = s.playing
        /\ r.track = s.track /\ r.cursor = s.cursor /\ r.sel = s.sel /\ r.ub = s.ub
    BY <1>1 DEF Playlists
  <1>3. r.pl = [s.pl EXCEPT ![i].shuf = q]
    BY <1>1 DEF Playlists
  <1> HIDE DEF r
  <1>4. ListSound(r.pl[i])
    BY <1>2 DEF Whole, ListSound
  <1>5. Whole(r) /\ (Selects(s) => Selects(r))
    <2>1. /\ r \in Playlists /\ r.pl[i].name = s.pl[i].name /\ ToSet(r.pl[i].list) = ToSet(s.pl[i].list)
          /\ \A j \in Ids : j # i => r.pl[j] = s.pl[j]
      BY <1>2
    <2>2. /\ r.head = s.head /\ r.visible = s.visible /\ r.marked \in ToSet(s.head)
          /\ r.playing \in ToSet(s.head) \cup {0} /\ (r.track # 0 => r.playing # 0) /\ r.sel = s.sel
      BY <1>2, Heads
    <2> QED BY <1>4, <2>1, <2>2, Rearranged
  <1>6. Ordered(s, r)
    BY <1>2 DEF Ordered
  <1> QED BY <1>2, <1>3, <1>5, <1>6 DEF r

(* shuffle_list_get_next(root, NULL) *)
LEMMA DrawnFirst ==
  ASSUME NEW s, Whole(s), NEW i \in Ids, s.pl[i].list # <<>>, NEW o, NEW x \in ShuffledFirst(s, i, o)
  PROVE  /\ Whole(x[1]) /\ Ordered(s, x[1]) /\ (Selects(s) => Selects(x[1]))
         /\ x[2] \in ToSet(s.pl[i].list)
  <1> DEFINE l == s.pl[i].list
             u == s.pl[i].shuf
  <1>1. /\ u \in Seq(Tracks) /\ Once(u) /\ ToSet(u) = ToSet(l) /\ ToSet(l) # {}
    BY ListOf
  <1>2. PICK q \in shuffle_list_get_next(u, FALSE, {}, ToSet(l), FALSE, o.auto_reshuffle) :
          x = <<[s EXCEPT !.pl[i].shuf = q[1]], CHOOSE t \in q[2] : TRUE>>
    BY DEF ShuffledFirst, All
  <1>3. u # <<>>
    <2> HIDE DEF l, u
    <2> QED BY <1>1, ElementOf
  <1>4. /\ q[1] \in Seq(Tracks) /\ Once(q[1]) /\ ToSet(q[1]) = ToSet(u)
        /\ q[2] \subseteq ToSet(u) /\ q[2] # {}
    <2>1. q \in shuffle_list_get_next(u, FALSE, {}, ToSet(u), FALSE, o.auto_reshuffle)
      BY <1>1, <1>2
    <2> DEFINE a == o.auto_reshuffle
               no == FALSE
               cur == {}
    <2>2. q \in shuffle_list_get_next(u, no, cur, ToSet(u), no, a) /\ cur = {}
      BY <2>1
    <2> HIDE DEF l, u, a, no, cur
    <2>3. /\ q[1] \in Seq(Tracks) /\ Once(q[1]) /\ ToSet(q[1]) = ToSet(u)
          /\ q[2] \subseteq ToSet(u) /\ (cur = {} /\ u # <<>> => q[2] # {})
      BY <1>1, <2>2, Stepped
    <2> QED BY <1>3, <2>2, <2>3
  <1> DEFINE q1 == q[1]
             r == [s EXCEPT !.pl[i].shuf = q1]
  <1>5. q1 \in Seq(Tracks) /\ Once(q1) /\ ToSet(q1) = ToSet(s.pl[i].list)
    BY <1>1, <1>4
  <1>6. x[1] = r /\ x[2] = CHOOSE t \in q[2] : TRUE
    BY <1>2
  <1> HIDE DEF q1
  <1>7. Whole(r) /\ Ordered(s, r) /\ (Selects(s) => Selects(r))
    BY <1>5, Drawn
  <1>8. (CHOOSE t \in q[2] : TRUE) \in q[2]
    BY <1>4
  <1> HIDE DEF r, l, u
  <1> QED BY <1>1, <1>4, <1>6, <1>7, <1>8 DEF l

LEMMA PlaysFirst ==
  ASSUME ConstantsSound, NEW s, Fine(s), ~s.ub, s.track = 0, NEW o,
         NEW r \in pl_play_first_in_pl_playing(s, o)
  PROVE  Fine(r)
  <1> DEFINE i == IF s.playing = 0 THEN s.visible ELSE s.playing
  <1>1. /\ s \in Playlists /\ Whole(s) /\ Selects(s) /\ i \in ToSet(s.head) /\ i \in Ids
    <2>1. Whole(s) /\ Selects(s)
      BY DEF Fine
    <2> QED BY <2>1, WholeTypes, Heads
  <1>2. /\ pl_empty(s, i) => r = [s EXCEPT !.playing = 0]
        /\ ~pl_empty(s, i) /\ o.shuffle =>
             \E q \in ShuffledFirst(s, i, o) : r = pl_play_track(q[1], i, q[2], o.follow)
        /\ ~pl_empty(s, i) /\ ~o.shuffle => r = pl_play_track(s, i, Head(s.pl[i].list), o.follow)
    BY DEF pl_play_first_in_pl_playing
  <1> HIDE DEF i
  <1>3. CASE pl_empty(s, i)
    <2> DEFINE x == [s EXCEPT !.playing = 0]
    <2>1. /\ x \in Playlists /\ x.pl = s.pl /\ x.head = s.head /\ x.visible = s.visible
          /\ x.marked = s.marked /\ x.playing = 0 /\ x.track = s.track /\ x.sel = s.sel /\ x.ub = s.ub
      BY <1>1 DEF Playlists
    <2>2. r = x
      BY <1>2, <1>3
    <2> HIDE DEF x
    <2>3. Whole(x)
      BY <1>1, <2>1, Heads, Pointed
    <2> QED BY <1>1, <2>1, <2>2, <2>3 DEF Fine, Selects
  <1>4. CASE ~pl_empty(s, i) /\ o.shuffle
    <2>1. PICK q \in ShuffledFirst(s, i, o) : r = pl_play_track(q[1], i, q[2], o.follow)
      BY <1>2, <1>4
    <2> DEFINE x == q[1]
               t == q[2]
               f == o.follow
    <2>2. s.pl[i].list # <<>>
      BY <1>4 DEF pl_empty
    <2>3. Whole(x) /\ Ordered(s, x) /\ Selects(x) /\ t \in ToSet(s.pl[i].list)
      BY <1>1, <2>2, DrawnFirst
    <2>4. r = pl_play_track(x, i, t, f)
      BY <2>1
    <2> HIDE DEF x, t, f
    <2>5. t \in ToSet(x.pl[i].list) /\ i \in ToSet(x.head)
      BY <1>1, <2>3 DEF Ordered
    <2>6. Whole(r) /\ (~r.ub /\ Selects(x) => Selects(r))
      BY <2>3, <2>4, <2>5, Played
    <2> QED BY <2>3, <2>6 DEF Fine
  <1>5. CASE ~pl_empty(s, i) /\ ~o.shuffle
    <2> DEFINE t == Head(s.pl[i].list)
               f == o.follow
    <2>1. t \in ToSet(s.pl[i].list)
      <3> DEFINE l == s.pl[i].list
      <3>1. l # <<>> /\ l \in Seq(Tracks)
        BY <1>1, <1>5, ListOf DEF pl_empty
      <3> HIDE DEF l
      <3>2. Head(l) \in ToSet(l)
        BY <3>1, ElementOf
      <3> QED BY <3>2 DEF l
    <2>2. r = pl_play_track(s, i, t, f)
      BY <1>2, <1>5
    <2> HIDE DEF t, f
    <2>3. Whole(r) /\ (~r.ub /\ Selects(s) => Selects(r))
      BY <1>1, <2>1, <2>2, Played
    <2> QED BY <1>1, <2>3 DEF Fine
  <1> QED BY <1>3, <1>4, <1>5

(* shuffle_list_get_next from the track y *)
LEMMA SteppedFrom ==
  ASSUME NEW u \in Seq(Tracks), Once(u), NEW y \in ToSet(u), NEW back, NEW a, NEW b,
         NEW q \in shuffle_list_get_next(u, back, {y}, ToSet(u), a, b)
  PROVE  q[1] \in Seq(Tracks) /\ Once(q[1]) /\ ToSet(q[1]) = ToSet(u) /\ q[2] \subseteq ToSet(u)
  <1> DEFINE cur == {y}
  <1>1. q \in shuffle_list_get_next(u, back, cur, ToSet(u), a, b) /\ cur = {y}
    OBVIOUS
  <1> HIDE DEF cur
  <1>2. \E z \in ToSet(u) : cur = {z}
    BY <1>1
  <1>3. /\ q[1] \in Seq(Tracks) /\ Once(q[1]) /\ ToSet(q[1]) = ToSet(u)
        /\ q[2] \subseteq ToSet(u) /\ (cur = {} /\ u # <<>> => q[2] # {})
    BY <1>1, <1>2, Stepped
  <1> QED BY <1>3

(* A step leaves x, with n the track that is arrived at. *)
Arrives(s, r, i, x, n, follow) ==
  /\ Whole(x) /\ Ordered(s, x) /\ Selects(x) /\ n \subseteq ToSet(s.pl[i].list)
  /\ r = IF n = {} THEN x ELSE pl_play_track(x, i, CHOOSE t \in n : TRUE, follow)

LEMMA Steps ==
  ASSUME ConstantsSound, NEW s, Fine(s), ~s.ub, NEW back, NEW o,
         NEW r \in pl_goto_generic(s, back, o)
  PROVE  Fine(r)
  <1>1. Whole(s) /\ Selects(s)
    BY DEF Fine
  <1>2. CASE s.track = 0
    <2>1. r \in pl_play_first_in_pl_playing(s, o)
      BY <1>2 DEF pl_goto_generic
    <2> QED BY <1>2, <2>1, PlaysFirst
  <1>3. CASE s.track # 0 /\ ~InPlay(s)
    <2>1. r = Uses(s)
      BY <1>3 DEF pl_goto_generic
    <2> QED BY <1>1, <2>1, Used DEF Fine
  <1>4. CASE s.track # 0 /\ InPlay(s)
    <2> DEFINE i == s.playing
               l == s.pl[i].list
               u == s.pl[i].shuf
               cur == {s.track}
    <2>1. /\ i \in ToSet(s.head) /\ i \in Ids
          /\ l \in Seq(Tracks) /\ u \in Seq(Tracks) /\ Once(u) /\ ToSet(u) = ToSet(l)
      <3>1. i \in ToSet(s.head) /\ i \in Ids
        BY <1>1, <1>4, Heads, WholeTypes
      <3> QED BY <1>1, <3>1, ListOf
    <2>2. s.track \in ToSet(l)
      <3>1. Contains(l, s.track)
        BY <1>4 DEF InPlay
      <3> HIDE DEF l
      <3> QED BY <2>1, <3>1, ElementOf
    <2>3. \E x, n : Arrives(s, r, i, x, n, o.follow)
      <3>1. CASE o.shuffle
        <4> DEFINE shuffled == {<<[s EXCEPT !.pl[i].shuf = w[1]], w[2]>> :
                     w \in shuffle_list_get_next(u, back, cur, ToSet(l), o.repeat, o.auto_reshuffle)}
        <4>1. r \in {IF w[2] = {} THEN w[1] ELSE pl_play_track(w[1], i, CHOOSE t \in w[2] : TRUE, o.follow) :
                       w \in shuffled}
          BY <1>4, <3>1 DEF pl_goto_generic, All
        <4> HIDE DEF shuffled
        <4>2. PICK w \in shuffled :
                r = IF w[2] = {} THEN w[1] ELSE pl_play_track(w[1], i, CHOOSE t \in w[2] : TRUE, o.follow)
          BY <4>1
        <4>3. PICK q \in shuffle_list_get_next(u, back, cur, ToSet(l), o.repeat, o.auto_reshuffle) :
                w = <<[s EXCEPT !.pl[i].shuf = q[1]], q[2]>>
          BY DEF shuffled
        <4> DEFINE a == o.repeat
                   b == o.auto_reshuffle
                   q1 == q[1]
                   q2 == q[2]
                   x == [s EXCEPT !.pl[i].shuf = q1]
        <4>4. q \in shuffle_list_get_next(u, back, cur, ToSet(u), a, b) /\ cur = {s.track}
          BY <2>1, <4>3
        <4>5. q1 \in Seq(Tracks) /\ Once(q1) /\ ToSet(q1) = ToSet(u) /\ q2 \subseteq ToSet(u)
          <5> DEFINE y == s.track
          <5>1. y \in ToSet(u)
            BY <2>1, <2>2
          <5>2. q \in shuffle_list_get_next(u, back, {y}, ToSet(u), a, b)
            BY <4>4
          <5> HIDE DEF u, a, b, y
          <5> QED BY <2>1, <5>1, <5>2, SteppedFrom
        <4>6. ToSet(q1) = ToSet(s.pl[i].list) /\ q2 \subseteq ToSet(l)
          BY <2>1, <4>5
        <4>7. r = IF q2 = {} THEN x ELSE pl_play_track(x, i, CHOOSE t \in q2 : TRUE, o.follow)
          BY <4>2, <4>3
        <4> HIDE DEF q1, q2, i
        <4>8. Whole(x) /\ Ordered(s, x) /\ Selects(x)
          BY <1>1, <2>1, <4>5, <4>6, Drawn
        <4>9. Arrives(s, r, i, x, q2, o.follow)
          <5> HIDE DEF x
          <5> QED BY <4>6, <4>7, <4>8 DEF Arrives
        <4> QED BY <4>9
      <3>2. CASE ~o.shuffle
        <4> DEFINE d == Dir(back, l)
                   a == o.repeat
                   n == simple_list_get_next(d, {s.track}, ToSet(l), TRUE, a)
        <4>1. r = IF n = {} THEN s ELSE pl_play_track(s, i, CHOOSE t \in n : TRUE, o.follow)
          <5> DEFINE normal == {<<s, n>>}
          <5>1. r \in {IF w[2] = {} THEN w[1] ELSE pl_play_track(w[1], i, CHOOSE t \in w[2] : TRUE, o.follow) :
                         w \in normal}
            BY <1>4, <3>2 DEF pl_goto_generic, All
          <5> HIDE DEF normal
          <5>2. PICK w \in normal :
                  r = IF w[2] = {} THEN w[1] ELSE pl_play_track(w[1], i, CHOOSE t \in w[2] : TRUE, o.follow)
            BY <5>1
          <5>3. w = <<s, n>>
            BY DEF normal
          <5> HIDE DEF n, i
          <5> QED BY <5>2, <5>3
        <4>2. n \subseteq ToSet(l)
          <5> DEFINE y == s.track
          <5>1. y \in ToSet(l)
            BY <2>2
          <5> HIDE DEF l, a
          <5>2. d \in Seq(Tracks) /\ ToSet(d) = ToSet(l)
            BY <2>1, Directed
          <5> HIDE DEF d, y
          <5>3. y \in ToSet(d)
            BY <5>1, <5>2
          <5>4. simple_list_get_next(d, {y}, ToSet(d), TRUE, a) \subseteq ToSet(d)
            BY <5>2, <5>3, SteppedPlainly
          <5> QED BY <5>2, <5>4 DEF y
        <4>3. Ordered(s, s)
          BY DEF Ordered
        <4> HIDE DEF n
        <4>4. Arrives(s, r, i, s, n, o.follow)
          BY <1>1, <4>1, <4>2, <4>3 DEF Arrives
        <4> QED BY <4>4
      <3> QED BY <3>1, <3>2
    <2>4. PICK x, n : Arrives(s, r, i, x, n, o.follow)
      BY <2>3
    <2>5. /\ Whole(x) /\ Ordered(s, x) /\ Selects(x) /\ n \subseteq ToSet(l)
          /\ r = IF n = {} THEN x ELSE pl_play_track(x, i, CHOOSE t \in n : TRUE, o.follow)
      BY <2>4 DEF Arrives
    <2>6. CASE n = {}
      BY <2>5, <2>6 DEF Fine
    <2>7. CASE n # {}
      <3> DEFINE t == CHOOSE y \in n : TRUE
                 f == o.follow
      <3>1. t \in n
        BY <2>7
      <3>2. r = pl_play_track(x, i, t, f)
        BY <2>5, <2>7
      <3> HIDE DEF t, f
      <3>3. t \in ToSet(x.pl[i].list) /\ i \in ToSet(x.head)
        BY <2>1, <2>5, <3>1 DEF Ordered
      <3> HIDE DEF i
      <3>4. Whole(r) /\ (~r.ub /\ Selects(x) => Selects(r))
        BY <2>5, <3>2, <3>3, Played
      <3> QED BY <2>5, <3>4 DEF Fine
    <2> QED BY <2>6, <2>7
  <1> QED BY <1>2, <1>3, <1>4

LEMMA InsertedBehind ==
  ASSUME NEW a \in Seq(Tracks), Once(a), NEW t \in ToSet(a), NEW v \in ToSet(a)
  PROVE  /\ shuffle_insert(a, {v}, t) \in Seq(Tracks)
         /\ Once(shuffle_insert(a, {v}, t)) /\ ToSet(shuffle_insert(a, {v}, t)) = ToSet(a)
         /\ t # v => Place(shuffle_insert(a, {v}, t), t) = Place(shuffle_insert(a, {v}, t), v) + 1
  <1> DEFINE previous == {v}
             c == shuffle_insert(a, previous, t)
  <1>1. previous = {v}
    OBVIOUS
  <1> HIDE DEF previous
  <1>2. previous = {} \/ \E y \in ToSet(a) : previous = {y}
    BY <1>1
  <1>3. /\ c \in Seq(Tracks) /\ Once(c) /\ ToSet(c) = ToSet(a)
        /\ \A y \in ToSet(a) : previous = {y} /\ y # t => Place(c, t) = Place(c, y) + 1
    BY <1>2, ShuffleInserted
  <1>4. t # v => Place(c, t) = Place(c, v) + 1
    <2> HIDE DEF c
    <2> QED BY <1>1, <1>3
  <1> QED BY <1>1, <1>3, <1>4

(* pl_play_selected_row.  With shuffle, in the playlist that plays, the    *)
(* track is put right behind the one that played.                          *)
LEMMA PlaysRow ==
  ASSUME ConstantsSound, NEW s, Fine(s), ~s.ub, NEW o, NEW r \in pl_play_selected_row(s, o)
  PROVE  /\ Fine(r)
         /\ (o.shuffle /\ InPlay(s) /\ s.track # 0 /\ r.playing = s.playing /\ r.track # s.track)
              => Place(r.pl[r.playing].shuf, r.track) = Place(r.pl[r.playing].shuf, s.track) + 1
  <1> DEFINE i == s.visible
             first == o.shuffle /\ ~s.cursor
             f == first \/ o.follow
             chosen == IF first THEN ShuffledFirst(s, i, o) ELSE {<<s, s.sel>>}
             behind(x) == IF InPlay(s)
                          THEN [x.pl EXCEPT ![x.playing].shuf = shuffle_insert(@, {s.track}, x.track)]
                          ELSE x.pl
             moved(x) == IF o.shuffle /\ s.playing = x.playing /\ s.track # 0
                         THEN [Uses(s) EXCEPT !.pl = behind(x), !.playing = x.playing, !.track = x.track,
                                              !.sel = x.sel, !.visible = x.visible]
                         ELSE x
  <1>1. Whole(s) /\ Selects(s) /\ s \in Playlists /\ i \in ToSet(s.head) /\ i \in Ids /\ i # 0
    <2>1. Whole(s) /\ Selects(s)
      BY DEF Fine
    <2> QED BY <2>1, Heads, WholeTypes, IdsSound
  <1>2. /\ ~pl_empty(s, i)
        /\ \E q \in chosen : r = [moved(pl_play_track(q[1], i, q[2], f)) EXCEPT !.cursor = s.cursor]
    BY DEF pl_play_selected_row
  <1>3. PICK q \in chosen : r = [moved(pl_play_track(q[1], i, q[2], f)) EXCEPT !.cursor = s.cursor]
    BY <1>2
  <1> DEFINE w == q[1]
             t == q[2]
             l == s.pl[i].list
  <1>4. Whole(w) /\ Ordered(s, w) /\ Selects(w) /\ t \in ToSet(l)
    <2>1. CASE first
      <3>1. q \in ShuffledFirst(s, i, o)
        BY <2>1
      <3>2. s.pl[i].list # <<>>
        BY <1>2 DEF pl_empty
      <3> QED BY <1>1, <3>1, <3>2, DrawnFirst
    <2>2. CASE ~first
      <3>1. w = s /\ t = s.sel
        BY <2>2
      <3>2. s.sel \in ToSet(l)
        BY <1>1, <1>2 DEF Selects, pl_empty
      <3>3. Ordered(s, s)
        BY DEF Ordered
      <3> QED BY <1>1, <3>1, <3>2, <3>3
    <2> QED BY <2>1, <2>2
  <1> DEFINE y == pl_play_track(w, i, t, f)
  <1>5. r = [moved(y) EXCEPT !.cursor = s.cursor]
    BY <1>3
  <1> HIDE DEF w, t, f
  <1>6. /\ Whole(y) /\ y.pl = w.pl /\ y.head = s.head /\ y.playing = i /\ y.track = t
        /\ y.marked = s.marked /\ y.ub = s.ub /\ Selects(y)
    <2>1. t \in ToSet(w.pl[i].list) /\ i \in ToSet(w.head)
      BY <1>1, <1>4 DEF Ordered
    <2> HIDE DEF i
    <2>2. /\ Whole(y) /\ y.pl = w.pl /\ y.head = w.head /\ y.playing = i /\ y.track = t
          /\ y.marked = w.marked /\ y.ub = w.ub
          /\ ~y.ub /\ Selects(w) => Selects(y)
      BY <1>4, <2>1, Played
    <2> QED BY <1>4, <2>2 DEF Ordered
  <1> HIDE DEF y
  <1>7. CASE ~(o.shuffle /\ s.playing = y.playing /\ s.track # 0)
    <2>1. r = [y EXCEPT !.cursor = s.cursor]
      BY <1>5, <1>7
    <2>2. y \in Playlists /\ s.cursor \in BOOLEAN
      BY <1>1, <1>6, WholeTypes DEF Whole
    <2>3. /\ r \in Playlists /\ r.pl = y.pl /\ r.head = y.head /\ r.visible = y.visible
          /\ r.marked = y.marked /\ r.playing = y.playing /\ r.track = y.track /\ r.sel = y.sel
          /\ r.ub = y.ub
      BY <2>1, <2>2 DEF Playlists
    <2>4. Whole(r)
      BY <1>6, <2>3, Heads, Pointed
    <2>5. Fine(r)
      BY <1>6, <2>3, <2>4 DEF Fine, Selects
    <2> QED BY <1>7, <2>3, <2>5
  <1>8. CASE o.shuffle /\ s.playing = y.playing /\ s.track # 0
    <2> DEFINE b == behind(y)
               u == Uses(s)
               m == [u EXCEPT !.pl = b, !.playing = y.playing, !.track = y.track, !.sel = y.sel,
                              !.visible = y.visible]
    <2>1. r = [m EXCEPT !.cursor = s.cursor]
      BY <1>5, <1>8
    <2>2. Whole(u) /\ Still(s, u) /\ u.cursor = s.cursor /\ (InPlay(s) => u.ub = s.ub)
      BY <1>1, Used
    <2> DEFINE a == y.pl[i].shuf
               c == shuffle_insert(a, {s.track}, t)
               z == [y EXCEPT !.pl[i].shuf = c]
    <2>3. y.pl[i].list = l /\ a \in Seq(Tracks) /\ Once(a) /\ ToSet(a) = ToSet(l)
      BY <1>1, <1>4, <1>6, ListOf DEF Ordered
    <2>4. InPlay(s) => s.track \in ToSet(l)
      <3>1. InPlay(s) => Contains(l, s.track)
        BY <1>6, <1>8 DEF InPlay
      <3>2. l \in Seq(Tracks)
        BY <1>1, ListOf
      <3> HIDE DEF l
      <3> QED BY <3>1, <3>2, ElementOf
    <2>5. ASSUME InPlay(s)
          PROVE  /\ c \in Seq(Tracks) /\ Once(c) /\ ToSet(c) = ToSet(l)
                 /\ t # s.track => Place(c, t) = Place(c, s.track) + 1
      <3> DEFINE v == s.track
      <3>1. v \in ToSet(a) /\ t \in ToSet(a)
        BY <1>4, <2>3, <2>4, <2>5
      <3>2. c = shuffle_insert(a, {v}, t)
        OBVIOUS
      <3> HIDE DEF a, l, v, c
      <3>3. a \in Seq(Tracks) /\ Once(a) /\ ToSet(a) = ToSet(l)
        BY <2>3
      <3>4. /\ shuffle_insert(a, {v}, t) \in Seq(Tracks)
            /\ Once(shuffle_insert(a, {v}, t)) /\ ToSet(shuffle_insert(a, {v}, t)) = ToSet(a)
            /\ t # v => Place(shuffle_insert(a, {v}, t), t) = Place(shuffle_insert(a, {v}, t), v) + 1
        BY <3>1, <3>3, InsertedBehind
      <3> QED BY <3>2, <3>3, <3>4 DEF v
    <2>6. /\ InPlay(s) => b = [y.pl EXCEPT ![i].shuf = c]
          /\ ~InPlay(s) => b = y.pl
      BY <1>6
    <2> HIDE DEF b, u
    (* n is the record that the invariant is known of. *)
    <2>7. \E n : /\ Whole(n) /\ Selects(n) /\ n.pl = b /\ n.head = y.head /\ n.visible = y.visible
                 /\ n.marked = y.marked /\ n.sel = y.sel
                 /\ InPlay(s) => n.pl[i].shuf = c
      <3>1. CASE InPlay(s)
        <4>1. c \in Seq(Tracks) /\ Once(c) /\ ToSet(c) = ToSet(y.pl[i].list)
          BY <2>3, <2>5, <3>1
        <4> HIDE DEF c, i
        <4>2. /\ Whole(z) /\ Ordered(y, z) /\ (Selects(y) => Selects(z))
              /\ z.pl[i].shuf = c /\ z.pl = [y.pl EXCEPT ![i].shuf = c]
          BY <1>1, <1>6, <4>1, Drawn
        <4> HIDE DEF z
        <4> QED BY <1>6, <2>6, <3>1, <4>2 DEF Ordered
      <3>2. CASE ~InPlay(s)
        BY <1>6, <2>6, <3>2
      <3> QED BY <3>1, <3>2
    <2>8. PICK n : /\ Whole(n) /\ Selects(n) /\ n.pl = b /\ n.head = y.head /\ n.visible = y.visible
                   /\ n.marked = y.marked /\ n.sel = y.sel
                   /\ InPlay(s) => n.pl[i].shuf = c
      BY <2>7
    <2>9. /\ u \in Playlists /\ y \in Playlists /\ n \in Playlists /\ s.cursor \in BOOLEAN
      BY <1>1, <1>6, <2>2, <2>8, WholeTypes DEF Whole
    <2>10. /\ b \in [Ids -> [name : Nat, list : Seq(Tracks), shuf : Seq(Tracks), marks : SUBSET Tracks]]
           /\ y.playing \in Ids \cup {0} /\ y.track \in Tracks \cup {0} /\ y.sel \in Tracks \cup {0}
           /\ y.visible \in Ids
      BY <1>6, <2>8, <2>9, WholeTypes DEF Playlists
    <2>11. /\ m \in Playlists /\ m.pl = b /\ m.head = u.head /\ m.visible = y.visible
           /\ m.marked = u.marked /\ m.playing = y.playing /\ m.track = y.track /\ m.sel = y.sel
           /\ m.ub = u.ub
      <3> HIDE DEF i, c, l
      <3> QED BY <2>9, <2>10 DEF Playlists
    <2> HIDE DEF m
    <2>12. /\ r \in Playlists /\ r.pl = m.pl /\ r.head = m.head /\ r.visible = m.visible
           /\ r.marked = m.marked /\ r.playing = m.playing /\ r.track = m.track /\ r.sel = m.sel
           /\ r.ub = m.ub
      BY <2>1, <2>9, <2>11 DEF Playlists
    <2>13. /\ r.pl = n.pl /\ r.head = n.head /\ r.visible = n.visible /\ r.marked = n.marked
           /\ r.playing = y.playing /\ r.track = y.track /\ r.sel = n.sel
      BY <1>6, <2>2, <2>8, <2>11, <2>12 DEF Still
    <2>14. Whole(r)
      <3>1. /\ r.visible \in ToSet(n.head) /\ r.marked \in ToSet(n.head)
            /\ r.playing \in ToSet(n.head) \cup {0} /\ (r.track # 0 => r.playing # 0)
        BY <1>6, <2>8, <2>13, Heads
      <3> QED BY <2>8, <2>12, <2>13, <3>1, Pointed
    <2>15. Fine(r)
      BY <2>8, <2>13, <2>14 DEF Fine, Selects
    <2>16. ASSUME InPlay(s), r.track # s.track
           PROVE  Place(r.pl[r.playing].shuf, r.track) = Place(r.pl[r.playing].shuf, s.track) + 1
      <3>1. r.pl[r.playing].shuf = c /\ r.track = t
        BY <1>6, <2>8, <2>13, <2>16
      <3> HIDE DEF c
      <3> QED BY <2>5, <2>16, <3>1
    <2> QED BY <2>15, <2>16
  <1> QED BY <1>7, <1>8

(* pl_reshuffle: the playing track comes first. *)
LEMMA Shuffles ==
  ASSUME ConstantsSound, Fine(p), pl_reshuffle
  PROVE  Fine(p')
  <1> DEFINE i == p.playing
             u == p.pl[i].shuf
             x == Uses(p)
  <1>1. /\ ~p.ub /\ Whole(p) /\ Selects(p) /\ i # 0 /\ i \in Ids
    <2>1. p.playing # 0 /\ ~p.ub
      BY DEF pl_reshuffle, Do
    <2>2. Whole(p) /\ Selects(p)
      BY <2>1 DEF Fine
    <2> QED BY <2>1, <2>2, WholeTypes
  <1>2. PICK s \in shuffle_list_reshuffle(u) :
          p' = [x EXCEPT !.pl[i].shuf = IF p.track = 0 \/ ~InPlay(p) THEN s
                                        ELSE shuffle_insert(s, {}, p.track)]
    BY DEF pl_reshuffle, Do
  <1> DEFINE q == IF p.track = 0 \/ ~InPlay(p) THEN s ELSE shuffle_insert(s, {}, p.track)
  <1>3. Whole(x) /\ Still(p, x) /\ x.visible = p.visible /\ x.sel = p.sel /\ Selects(x)
    BY <1>1, Used
  <1>4. u \in Seq(Tracks) /\ ToSet(u) = ToSet(p.pl[i].list)
    BY <1>1, ListOf
  <1>5. s \in Seq(Tracks) /\ Once(s) /\ ToSet(s) = ToSet(u)
    <2> HIDE DEF u
    <2> QED BY <1>4, Reshuffled
  <1>6. q \in Seq(Tracks) /\ Once(q) /\ ToSet(q) = ToSet(s)
    <2>1. CASE p.track = 0 \/ ~InPlay(p)
      <3>1. q = s
        BY <2>1
      <3> QED BY <1>5, <3>1
    <2>2. CASE ~(p.track = 0 \/ ~InPlay(p))
      <3> DEFINE t == p.track
                 previous == {}
                 l == p.pl[i].list
      <3>1. q = shuffle_insert(s, previous, t) /\ previous = {}
        BY <2>2
      <3>2. t \in ToSet(l)
        <4>1. l \in Seq(Tracks) /\ Contains(l, t)
          BY <1>1, <2>2, ListOf DEF InPlay
        <4> HIDE DEF l, t
        <4> QED BY <4>1, ElementOf
      <3>3. t \in ToSet(s)
        BY <1>4, <1>5, <3>2
      <3> HIDE DEF q, t, previous, l
      <3>4. /\ shuffle_insert(s, previous, t) \in Seq(Tracks)
            /\ Once(shuffle_insert(s, previous, t)) /\ ToSet(shuffle_insert(s, previous, t)) = ToSet(s)
        BY <1>5, <3>1, <3>3, ShuffleInserted
      <3> QED BY <3>1, <3>4
    <2> QED BY <2>1, <2>2
  <1>7. p' = [x EXCEPT !.pl[i].shuf = q]
    BY <1>2
  <1> DEFINE r == [x EXCEPT !.pl[i].shuf = q]
  <1>8. ToSet(q) = ToSet(x.pl[i].list)
    BY <1>3, <1>4, <1>5, <1>6 DEF Still
  <1> HIDE DEF x, q, u
  <1>9. Whole(r) /\ (Selects(x) => Selects(r))
    <2> HIDE DEF i
    <2> QED BY <1>1, <1>3, <1>6, <1>8, Drawn
  <1> QED BY <1>3, <1>7, <1>9 DEF Fine

-----------------------------------------------------------------------------
(* The invariant. *)

LEMMA InitFine ==
  ASSUME ConstantsSound, Init
  PROVE  Fine(p)
  <1> DEFINE R == [name : Nat, list : Seq(Tracks), shuf : Seq(Tracks), marks : SUBSET Tracks]
             a == [name |-> 1, list |-> <<>>, shuf |-> <<>>, marks |-> {}]
             b == [name |-> 0, list |-> <<>>, shuf |-> <<>>, marks |-> {}]
             f == [i \in Ids |-> IF i = 1 THEN a ELSE b]
  <1>1. 1 \in Ids /\ 0 \notin Ids
    BY IdsSound
  <1>2. p = [pl |-> f, head |-> <<1>>, visible |-> 1, marked |-> 1, playing |-> 0, track |-> 0,
             cursor |-> FALSE, sel |-> 0, ub |-> FALSE]
    BY DEF Init, Pl, None
  <1>3. a \in R /\ b \in R
    OBVIOUS
  <1>4. /\ a.name = 1 /\ a.list = <<>> /\ a.shuf = <<>> /\ a.marks = {}
        /\ b.name = 0 /\ b.list = <<>> /\ b.shuf = <<>> /\ b.marks = {}
    OBVIOUS
  <1> HIDE DEF a, b
  <1>5. f \in [Ids -> R] /\ f[1] = a /\ \A i \in Ids : f[i] = IF i = 1 THEN a ELSE b
    BY <1>1, <1>3
  <1> HIDE DEF f
  <1>6. <<1>> \in Seq(Ids) /\ Len(<<1>>) = 1 /\ <<1>>[1] = 1 /\ ToSet(<<1>>) = {1} /\ Once(<<1>>)
    BY <1>1 DEF ToSet, Once
  <1> DEFINE h == <<1>>
  <1>7. h \in Seq(Ids) /\ ToSet(h) = {1} /\ Once(h)
    BY <1>6
  <1>8. /\ p.pl = f /\ p.head = h /\ p.visible = 1 /\ p.marked = 1 /\ p.playing = 0 /\ p.track = 0
        /\ p.sel = 0 /\ p.ub = FALSE
    BY <1>2
  <1>9. p \in Playlists
    <2> HIDE DEF h
    <2>1. p = [pl |-> f, head |-> h, visible |-> 1, marked |-> 1, playing |-> 0, track |-> 0,
               cursor |-> FALSE, sel |-> 0, ub |-> FALSE]
      BY <1>2 DEF h
    <2> QED BY <1>1, <1>5, <1>7, <2>1 DEF Playlists
  <1> HIDE DEF h
  <1>10. \A i \in Ids : p.pl[i].list = <<>> /\ p.pl[i].shuf = <<>> /\ p.pl[i].marks = {}
    BY <1>4, <1>5, <1>8
  <1>11. ToSet(<<>>) = {} /\ Once(<<>>)
    BY DEF ToSet, Once
  <1>12. PointersSound(p)
    BY <1>4, <1>5, <1>7, <1>8 DEF PointersSound
  <1>13. \A i \in Ids : ListSound(p.pl[i])
    BY <1>10, <1>11 DEF ListSound
  <1>14. Apart(p)
    BY <1>10, <1>11 DEF Apart
  <1>15. Selects(p)
    BY <1>1, <1>8, <1>10 DEF Selects
  <1> QED BY <1>9, <1>12, <1>13, <1>14, <1>15 DEF Fine, Whole

(* Every operation keeps what holds of the playlists. *)
LEMMA NextFine ==
  ASSUME ConstantsSound, Fine(p), Next
  PROVE  Fine(p')
  <1>1. CASE \E i \in Ids, t \in Tracks : pl_add_track(i, t)
    BY <1>1, Added1 DEF Fine
  <1>2. CASE pl_clear \/ pl_win_update
    BY <1>2, Clears DEF pl_clear, pl_win_update, Do
  <1>3. CASE \E i \in {Info[t] : t \in Tracks} : pl_update_track(i)
    BY <1>3, Updates
  <1>4. CASE \E n \in Names : pl_create(n) \/ pl_import(n)
    <2>1. PICK n \in Names : pl_create(n) \/ pl_import(n)
      BY <1>4
    <2>2. n \in Nat \ {0}
      BY DEF ConstantsSound
    <2>3. CASE pl_create(n)
      BY <2>2, <2>3, Creates DEF pl_create, Do
    <2>4. CASE pl_import(n)
      <3>1. PICK name \in pl_create_name(n) : Do(Added(name))
        BY <2>4 DEF pl_import
      <3>2. name \in Nat \ {0} /\ ~pl_name_exists(name) /\ Free # {} /\ ~p.ub
        BY <2>4, <3>1, NameFound DEF pl_import, Do
      <3> QED BY <3>1, <3>2, Creates DEF Do
    <2> QED BY <2>1, <2>3, <2>4
  <1>5. CASE \E n \in Names : pl_rename_selected_pl(n) \/ pl_set_marked_pl_by_name(n)
    <2>1. PICK n \in Names : pl_rename_selected_pl(n) \/ pl_set_marked_pl_by_name(n)
      BY <1>5
    <2>2. CASE pl_rename_selected_pl(n)
      BY <2>2, Renames DEF pl_rename_selected_pl, Do
    <2>3. CASE pl_set_marked_pl_by_name(n)
      BY <2>3, MarksPlaylist DEF pl_set_marked_pl_by_name, Do
    <2> QED BY <2>1, <2>2, <2>3
  <1>6. CASE pl_win_remove
    BY <1>6, DeletesTracks, DeletesPlaylist DEF pl_win_remove, Do
  <1>7. CASE pl_win_toggle
    <2>1. ~p.ub /\ Whole(p) /\ Selects(p)
      BY <1>7 DEF pl_win_toggle, Do, Fine
    <2>2. p.visible \in Ids /\ p.visible \in ToSet(p.head)
      BY <2>1, WholeTypes, Heads
    <2>3. CASE p.cursor /\ p.sel # 0
                 /\ Do([p EXCEPT !.pl[p.visible].marks = SymDiff(p.pl[p.visible].marks, {p.sel})])
      <3> DEFINE m == SymDiff(p.pl[p.visible].marks, {p.sel})
      <3>1. p.sel \in ToSet(p.pl[p.visible].list)
        BY <2>1, <2>3 DEF Selects
      <3>2. m \subseteq ToSet(p.pl[p.visible].list)
        BY <2>1, <2>2, <3>1, ListOf DEF SymDiff
      <3>3. p' = [p EXCEPT !.pl[p.visible].marks = m]
        BY <2>3 DEF Do
      <3> HIDE DEF m
      <3> QED BY <2>1, <3>2, <3>3, MarksTracks
    <2>4. CASE ~p.cursor /\ Do([p EXCEPT !.marked = p.visible])
      BY <2>2, <2>4, MarksPlaylist DEF Do
    <2> QED BY <1>7, <2>3, <2>4 DEF pl_win_toggle
  <1>8. CASE pl_mark
    <2>1. ~p.ub /\ Whole(p)
      BY <1>8 DEF pl_mark, Do, Fine
    <2>2. PICK m : /\ m = ToSet(p.pl[p.visible].list) \ p.pl[p.visible].marks \/ m = {}
                   /\ p' = [p EXCEPT !.pl[p.visible].marks = m]
      BY <1>8 DEF pl_mark, Do, Visible
    <2>3. m \subseteq ToSet(p.pl[p.visible].list)
      BY <2>2
    <2> QED BY <2>1, <2>2, <2>3, MarksTracks
  <1>9. CASE Reorder
    <2>1. PICK o \in SetToSeqs(ToSet(p.pl[p.visible].list)) :
            ~p.ub /\ p' = [p EXCEPT !.pl[p.visible].list = o]
      BY <1>9 DEF Reorder, Do, Visible
    <2> QED BY <2>1, Reorders
  <1>10. CASE MoveSel
    <2>1. CASE \E i \in ToSet(p.head) : ~p.cursor /\ Do(Show(p, i))
      BY <2>1, ShownFine DEF Do
    <2>2. CASE \E t \in ToSet(Visible(p).list) : p.cursor /\ Do([p EXCEPT !.sel = t])
      <3>1. PICK t \in ToSet(p.pl[p.visible].list) : p' = [p EXCEPT !.sel = t]
        BY <2>2 DEF Do, Visible
      <3> DEFINE c == p.cursor
      <3>2. c \in BOOLEAN /\ p \in Playlists
        BY WholeTypes DEF Fine, Whole
      <3>3. p' = [p EXCEPT !.sel = t, !.cursor = c]
        BY <3>1, <3>2 DEF Playlists
      <3> HIDE DEF c
      <3> QED BY <3>2, <3>3, SelectsTrack
    <2>3. CASE Do(pl_win_next(p))
      BY <2>3, Windowed DEF Do
    <2> QED BY <1>10, <2>1, <2>2, <2>3 DEF MoveSel
  <1>11. CASE \E i \in Ids, t \in Tracks \cup {0} : pl_search_matches(i, t)
    <2>1. PICK i \in Ids, t \in Tracks \cup {0} : pl_search_matches(i, t)
      BY <1>11
    <2> DEFINE x == Show(p, i)
               e == IF t = 0 THEN x.sel ELSE t
               c == t # 0
               l == p.pl[i].list
               h == p.head
    <2>2. /\ Contains(h, i) /\ (t = 0 \/ Contains(l, t)) /\ p' = [x EXCEPT !.sel = e, !.cursor = c]
      BY <2>1 DEF pl_search_matches, Do
    <2>3. h \in Seq(Ids) /\ l \in Seq(Tracks)
      BY WholeTypes DEF Fine
    <2>4. i \in ToSet(h) /\ (t = 0 \/ t \in ToSet(l))
      <3> HIDE DEF l, h
      <3> QED BY <2>2, <2>3, ElementOf
    <2>5. Fine(x) /\ x.pl = p.pl /\ x.visible = i
      BY <2>4, ShownFine
    <2> HIDE DEF x
    <2>6. e = x.sel \/ e \in ToSet(x.pl[x.visible].list)
      BY <2>4, <2>5
    <2>7. c \in BOOLEAN
      OBVIOUS
    <2> HIDE DEF e, c
    <2> QED BY <2>2, <2>5, <2>6, <2>7, SelectsTrack
  <1>12. CASE Do(pl_select_playing_track(p))
    <2>1. Whole(p)
      BY DEF Fine
    <2>2. /\ Whole(pl_select_playing_track(p))
          /\ ~pl_select_playing_track(p).ub =>
               ~p.ub /\ (Selects(p) => Selects(pl_select_playing_track(p)))
      BY <2>1, SelectedPlaying
    <2> QED BY <1>12, <2>2 DEF Do, Fine
  <1>13. CASE \E o \in Options : PlayRow(o) \/ \E back \in BOOLEAN : pl_goto_next(back, o)
    <2>1. PICK o \in Options : PlayRow(o) \/ \E back \in BOOLEAN : pl_goto_next(back, o)
      BY <1>13
    <2>2. CASE PlayRow(o)
      <3>1. PICK s \in pl_play_selected_row(p, o) : ~p.ub /\ p' = s
        BY <2>2 DEF PlayRow, Do
      <3> QED BY <3>1, PlaysRow
    <2>3. CASE \E back \in BOOLEAN : pl_goto_next(back, o)
      <3>1. PICK back \in BOOLEAN : pl_goto_next(back, o)
        BY <2>3
      <3>2. PICK s \in pl_goto_generic(p, back, o) : ~p.ub /\ p' = s
        BY <3>1 DEF pl_goto_next, Do
      <3> QED BY <3>2, Steps
    <2> QED BY <2>1, <2>2, <2>3
  <1>14. CASE pl_reshuffle
    BY <1>14, Shuffles
  <1> QED BY <1>1, <1>2, <1>3, <1>4, <1>5, <1>6, <1>7, <1>8, <1>9, <1>10, <1>11, <1>12, <1>13, <1>14
           DEF Next

(* The invariant holds: the lists of the playlists hold each track once,   *)
(* no two hold the same track, the pointers lead to playlists in pl_head   *)
(* whose names differ, and until a freed track is read the selected track  *)
(* is a visible one.                                                       *)
THEOREM PlaylistsInvariant ==
  ASSUME ConstantsSound
  PROVE  Spec => []PlaylistsInv
  <1>1. Init => PlaylistsInv
    BY InitFine DEF PlaylistsInv, Fine
  <1>2. PlaylistsInv /\ [Next]_p => PlaylistsInv'
    <2> SUFFICES ASSUME PlaylistsInv, [Next]_p PROVE PlaylistsInv'
      OBVIOUS
    <2>1. Fine(p)
      BY DEF PlaylistsInv, Fine
    <2>2. CASE Next
      <3>1. Fine(p')
        BY <2>1, <2>2, NextFine
      <3> QED BY <3>1 DEF Fine, PlaylistsInv, Whole, Selects, PointersSound, ListSound, Apart
    <2>3. CASE UNCHANGED p
      BY <2>3 DEF PlaylistsInv, Whole, Selects, PointersSound, ListSound, Apart
    <2> QED BY <2>2, <2>3
  <1> QED BY <1>1, <1>2, PTL DEF Spec

(* Playlists.PointersHold: what pl_visible, pl_marked and pl_playing point *)
(* to is in pl_head, the names differ, the shuffled order holds the tracks *)
(* of the list, once each, and the selected track is one of the visible    *)
(* list.                                                                   *)
THEOREM PointersStaySound ==
  ASSUME ConstantsSound
  PROVE  Spec => []PointersHold
  <1>1. PlaylistsInv => PointersHold
    <2> SUFFICES ASSUME PlaylistsInv PROVE PointersHold
      OBVIOUS
    <2>1. Whole(p) /\ (~p.ub => Selects(p)) /\ PointersSound(p) /\ ToSet(p.head) \subseteq Ids
      BY WholeTypes DEF PlaylistsInv, Whole
    <2>2. ASSUME NEW i \in Ids
          PROVE  /\ ToSet(p.pl[i].shuf) = ToSet(p.pl[i].list)
                 /\ Len(p.pl[i].shuf) = Len(p.pl[i].list) /\ IsInjective(p.pl[i].list)
                 /\ p.pl[i].marks \subseteq ToSet(p.pl[i].list)
      <3> DEFINE l == p.pl[i].list
                 q == p.pl[i].shuf
      <3>1. /\ l \in Seq(Tracks) /\ q \in Seq(Tracks) /\ Once(l) /\ Once(q) /\ ToSet(q) = ToSet(l)
            /\ p.pl[i].marks \subseteq ToSet(l)
        BY <2>1, ListOf
      <3> HIDE DEF l, q
      <3>2. Cardinality(ToSet(l)) = Len(l) /\ Cardinality(ToSet(q)) = Len(q)
        BY <3>1, OnceSize
      <3>3. IsInjective(l)
        <4>1. DOMAIN l = 1 .. Len(l)
          BY <3>1
        <4> QED BY <3>1, <4>1 DEF IsInjective, Once
      <3> QED BY <3>1, <3>2, <3>3 DEF l, q
    <2>3. ASSUME ~p.ub
          PROVE  IF Visible(p).list = <<>> THEN p.sel = 0 ELSE Contains(Visible(p).list, p.sel)
      <3> DEFINE l == p.pl[p.visible].list
      <3>1. l \in Seq(Tracks) /\ (IF l = <<>> THEN p.sel = 0 ELSE p.sel \in ToSet(l))
        BY <2>1, <2>3, WholeTypes DEF Selects
      <3> HIDE DEF l
      <3>2. IF l = <<>> THEN p.sel = 0 ELSE Contains(l, p.sel)
        BY <3>1, ElementOf
      <3> QED BY <3>2 DEF Visible, l
    <2>4. /\ {p.visible, p.marked} \subseteq ToSet(p.head)
          /\ p.playing \in ToSet(p.head) \cup {0}
          /\ \A i, j \in ToSet(p.head) : p.pl[i].name = p.pl[j].name => i = j
      BY <2>1 DEF PointersSound
    <2> QED BY <2>2, <2>3, <2>4 DEF PointersHold
  <1> QED BY <1>1, PlaylistsInvariant, PTL

(* Playlists.RowFollowsPlaying: with shuffle, a row of the playing         *)
(* playlist that is played comes right behind the track that played.       *)
THEOREM RowComesNext ==
  ASSUME ConstantsSound
  PROVE  Spec => []RowFollowsPlaying
  <1>1. PlaylistsInv => RowFollowsPlaying
    <2> SUFFICES ASSUME PlaylistsInv, p.track # 0, InPlay(p), ~p.ub, NEW o \in Options, o.shuffle,
                        NEW s \in pl_play_selected_row(p, o), s.playing = p.playing,
                        s.track # p.track
                 PROVE  Place(s.pl[s.playing].shuf, s.track) = Place(s.pl[s.playing].shuf, p.track) + 1
      BY DEF RowFollowsPlaying
    <2>1. Fine(p)
      BY DEF PlaylistsInv, Fine
    <2> QED BY <2>1, PlaysRow
  <1> QED BY <1>1, PlaylistsInvariant, PTL

(* Playlists.PlaylistsSound, which module MCCollections checks, is both:   *)
(* for any set of names, of tracks and any number of names to try.         *)
THEOREM PlaylistsStaySound ==
  ASSUME ConstantsSound
  PROVE  Spec => []PlaylistsSound
  <1>1. PointersHold /\ RowFollowsPlaying => PlaylistsSound
    BY DEF PlaylistsSound
  <1> QED BY <1>1, PointersStaySound, RowComesNext, PTL
=============================================================================
