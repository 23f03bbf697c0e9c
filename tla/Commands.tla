------------------------------ MODULE Commands ------------------------------
(***************************************************************************)
(* Commands of the user (command_mode.c) that do more than call one        *)
(* component: lqueue and tqueue, which put random albums or tracks into    *)
(* the play queue; vol and mute; and run, which splits its line into       *)
(* arguments and puts the selected files among them.                       *)
(***************************************************************************)
EXTENDS Integers, FiniteSets, Sequences, SequencesExt

CONSTANTS
  Albums,     \* the albums of the library in the tree's order, with their tracks
  Volumes,    \* numbers the user gives to vol
  Texts,      \* what the user writes on one of run's lines: sequences of characters
  MaxPieces   \* bound: pieces of a line

VARIABLES
  what,       \* the command under way: "lqueue", "tqueue" or None
  size,       \* how many it queues; rand_array's size
  r,          \* rand_array's array, -1 where it is not written
  i, j, n,    \* rand_array's loops
  step,       \* "draw", "fill", "pick"
  drawn,      \* history: the numbers rand_array drew
  list,       \* cmd_lqueue's list of what was picked
  queue,      \* pq_editable
  soft_vol_l, soft_vol_r,
  mute_vol,   \* mute_vol_l and mute_vol_r
  line,       \* the line of run: pieces that are quoted or not
  argv        \* what was run last

queueVars == <<what, size, r, i, j, n, step, drawn, list, queue>>
volumeVars == <<soft_vol_l, soft_vol_r, mute_vol>>
runVars == <<line, argv>>
commandVars == <<queueVars, volumeVars, runVars>>

None == "none"
Ascending(S) == SetToSortSeq(S, LAMBDA x, y : x < y)

CommandsInit ==
  /\ what = None /\ size = 0 /\ r = <<>> /\ i = 0 /\ j = 0 /\ n = 0 /\ step = None /\ drawn = {}
  /\ list = <<>> /\ queue = <<>>
  /\ soft_vol_l = 0 /\ soft_vol_r = 0 /\ mute_vol = <<0, 0>>
  /\ line = <<>> /\ argv = <<>>

-----------------------------------------------------------------------------
(* Random albums and tracks.  What can be queued, in the order of the tree *)
(* or of the sorted list: a queue entry is the tracks that it adds.        *)

Tracks == FlattenSeq(Albums)
Candidates == IF what = "lqueue" THEN Albums ELSE [k \in 1 .. Len(Tracks) |-> <<Tracks[k]>>]
nmax == Len(Candidates)

(* rand_array draws the numbers it wants, or those it does not want, at    *)
(* the end of the array.                                                   *)
inverted == size > nmax \div 2
count == IF inverted THEN nmax - size ELSE size
offset == size - count

Queue(w, wanted) ==
  LET max == IF w = "lqueue" THEN Len(Albums) ELSE Len(Tracks)
  IN /\ what = None /\ queue = <<>> /\ max > 0
     /\ what' = w /\ size' = IF wanted > max THEN max ELSE wanted
     /\ r' = [k \in 0 .. size' |-> -1]
     /\ i' = 0 /\ step' = "draw"
     /\ UNCHANGED <<j, n, drawn, list, queue, volumeVars, runVars>>
cmd_lqueue(wanted) == Queue("lqueue", wanted)
cmd_tqueue(wanted) == Queue("tqueue", wanted)

(* A number that was drawn before is drawn again. *)
Draw(v) ==
  /\ step = "draw" /\ i < count
  /\ \A k \in 0 .. i - 1 : r[offset + k] # v
  /\ r' = [r EXCEPT ![offset + i] = v] /\ i' = i + 1
  /\ drawn' = drawn \cup {v}
  /\ UNCHANGED <<what, size, j, n, step, list, queue, volumeVars, runVars>>

Fault_NoSentinel ==
  /\ step = "draw" /\ i = count
  /\ LET s == Ascending(drawn)
     IN r' = [k \in 0 .. size |-> IF k \in offset .. size - 1 THEN s[k - offset + 1] ELSE r[k]]
  /\ i' = 0 /\ j' = offset /\ n' = 0
  /\ step' = IF offset > 0 THEN "fill" ELSE "pick"
  /\ UNCHANGED <<what, size, drawn, list, queue, volumeVars, runVars>>

Sort ==
  /\ step = "draw" /\ i = count
  /\ LET s == Ascending(drawn)
     IN r' = [k \in 0 .. size |->
                IF k \in offset .. size - 1 THEN s[k - offset + 1]
                ELSE IF k = size /\ offset > 0 THEN nmax ELSE r[k]]
  /\ i' = 0 /\ j' = offset /\ n' = 0
  /\ step' = IF offset > 0 THEN "fill" ELSE "pick"
  /\ UNCHANGED <<what, size, drawn, list, queue, volumeVars, runVars>>

(* "convert the indexes we don't want to those we want", in place: what is *)
(* written at i may be what is read at j.                                  *)
Fill ==
  /\ step = "fill"
  /\ IF n < r[j] THEN r' = [r EXCEPT ![i] = n] /\ i' = i + 1 /\ n' = n + 1 /\ UNCHANGED <<j, step>>
     ELSE /\ j' = j + 1 /\ n' = n + 1 /\ step' = IF i < size THEN "fill" ELSE "pick"
          /\ i' = IF i < size THEN i ELSE 0
          /\ UNCHANGED r
  /\ UNCHANGED <<what, size, drawn, list, queue, volumeVars, runVars>>

(* list_add_rand: the next of what was picked goes anywhere into the list. *)
list_add_rand(pos) ==
  /\ step = "pick" /\ Len(list) < size /\ pos \in 0 .. Len(list)
  /\ list' = InsertAt(list, pos + 1, r[Len(list)])
  /\ UNCHANGED <<what, size, r, i, j, n, step, drawn, queue, volumeVars, runVars>>

play_queue_append ==
  /\ step = "pick" /\ Len(list) = size
  /\ queue' = queue \o FlattenSeq([k \in 1 .. size |-> Candidates[list[k] + 1]])
  /\ what' = None /\ size' = 0 /\ r' = <<>> /\ i' = 0 /\ j' = 0 /\ n' = 0 /\ step' = None
  /\ drawn' = {} /\ list' = <<>>
  /\ UNCHANGED <<volumeVars, runVars>>

play_queue_remove ==
  /\ what = None /\ queue # <<>> /\ queue' = Tail(queue)
  /\ UNCHANGED <<what, size, r, i, j, n, step, drawn, list, volumeVars, runVars>>

-----------------------------------------------------------------------------
(* The volume, with soft_vol.  The mixer is never open: its volumes stay   *)
(* at -1, and without soft_vol nothing can be set.                         *)

max_vol == 100
scale_from_percentage(val) ==
  IF val < 0 THEN -((-val * max_vol + 50) \div 100) ELSE (val * max_vol + 50) \div 100

Fault_RelativeUnclamped(val, old, flags) ==
  LET v == IF "percentage" \in flags THEN scale_from_percentage(val) ELSE val
  IN IF "relative" \in flags THEN v + old ELSE IF v > max_vol THEN max_vol ELSE v

calc_vol(val, old, flags) ==
  LET v == IF "percentage" \in flags THEN scale_from_percentage(val) ELSE val
      w == IF "relative" \in flags THEN v + old ELSE v
  IN IF w < 0 THEN 0 ELSE IF w > max_vol THEN max_vol ELSE w

player_set_vol(l, lf, right, rf) ==
  /\ soft_vol_l' = calc_vol(l, soft_vol_l, lf) /\ soft_vol_r' = calc_vol(right, soft_vol_r, rf)
  /\ UNCHANGED <<queueVars, runVars>>

(* One value for both sides, or one for each. *)
Flags(rel, percent) == (IF rel THEN {"relative"} ELSE {}) \cup (IF percent THEN {"percentage"} ELSE {})
cmd_vol ==
  /\ \E l, right \in Volumes, rel, percent \in BOOLEAN :
       LET f == Flags(rel \/ l < 0, percent)
       IN player_set_vol(l, f, right, IF right = l THEN f ELSE Flags(rel \/ right < 0, ~percent))
  /\ UNCHANGED mute_vol

(* mute looks at the volumes of the mixer. *)
volume == <<-1, -1>>
cmd_mute ==
  /\ LET to == IF volume = <<0, 0>> THEN mute_vol ELSE <<0, 0>>
     IN player_set_vol(to[1], {}, to[2], {})
  /\ mute_vol' = IF volume = <<0, 0>> THEN mute_vol ELSE volume

-----------------------------------------------------------------------------
(* The line of run, character by character from place k on.  A part is its *)
(* text and the place behind it; Bad is an error.                          *)

Dq == "dq"       \* "
Sq == "sq"       \* '
Bs == "bs"       \* \
Sp == "space"
FilesHere == "{}" \* the word {} on its own
Bad == [text |-> <<FilesHere>>, at |-> 0]
Ahead(s, part) == IF part = Bad THEN Bad ELSE [part EXCEPT !.text = s \o @]

RECURSIVE parse_quoted(_, _)
parse_quoted(s, k) ==
  IF k > Len(s) \/ (s[k] = Bs /\ k = Len(s)) THEN Bad
  ELSE IF s[k] = Dq THEN [text |-> <<>>, at |-> k + 1]
  ELSE IF s[k] = Bs
  THEN Ahead(IF s[k + 1] \in {Dq, Bs} THEN <<s[k + 1]>> ELSE <<Bs, s[k + 1]>>, parse_quoted(s, k + 2))
  ELSE Ahead(<<s[k]>>, parse_quoted(s, k + 1))

Fault_EscapeKept(s, k) ==
  LET end == {e \in k .. Len(s) + 1 : e = Len(s) + 1 \/ s[e] \in {Sp, Sq, Dq}}
      e == CHOOSE x \in end : \A y \in end : x <= y
  IN [text |-> SubSeq(s, k, e - 1), at |-> e]

RECURSIVE EscapedFrom(_, _)
EscapedFrom(s, k) ==
  IF k > Len(s) \/ s[k] \in {Sp, Sq, Dq} THEN [text |-> <<>>, at |-> k]
  ELSE IF s[k] = Bs /\ k < Len(s) THEN Ahead(<<s[k + 1]>>, EscapedFrom(s, k + 2))
  ELSE Ahead(<<s[k]>>, EscapedFrom(s, k + 1))

parse_escaped(s, k) == EscapedFrom(s, k)

parse_single(s, k) ==
  LET ends == {e \in k .. Len(s) : s[e] = Sq}
      e == CHOOSE x \in ends : \A y \in ends : x <= y
  IN IF ends = {} THEN Bad ELSE [text |-> SubSeq(s, k, e - 1), at |-> e + 1]

RECURSIVE parse_one(_, _)
parse_one(s, k) ==
  IF k > Len(s) \/ s[k] = Sp THEN [text |-> <<>>, at |-> k]
  ELSE LET part == CASE s[k] = Dq -> parse_quoted(s, k + 1)
                     [] s[k] = Sq -> parse_single(s, k + 1)
                     [] OTHER -> parse_escaped(s, k)
       IN IF part = Bad THEN Bad ELSE Ahead(part.text, parse_one(s, part.at))

(* The arguments; where the files go is marked by FilesHere, at most once. *)
SkipSpaces(s, k) == CHOOSE e \in k .. Len(s) + 1 :
                      /\ \A x \in k .. e - 1 : s[x] = Sp
                      /\ e = Len(s) + 1 \/ s[e] # Sp
RECURSIVE parse_cmd(_, _, _)
parse_cmd(s, k, av) ==
  IF k > Len(s) THEN av
  ELSE IF s[k] = FilesHere /\ (k = Len(s) \/ s[k + 1] = Sp)
  THEN IF Contains(av, FilesHere) THEN <<>> ELSE parse_cmd(s, SkipSpaces(s, k + 1), Append(av, FilesHere))
  ELSE LET arg == parse_one(s, k)
       IN IF arg = Bad THEN <<>> ELSE parse_cmd(s, SkipSpaces(s, arg.at), Append(av, arg.text))

(* The user writes another piece, right behind the last or as a new word:  *)
(* in quotes, or with backslashes.  Single quotes cannot be in single      *)
(* quotes, and backslashes alone cannot write an empty text.               *)
Styles(text) ==
  {"double"} \cup (IF Contains(text, Sq) THEN {} ELSE {"single"})
             \cup (IF text = <<>> THEN {} ELSE {"escaped"})
Write(text, style, joined) ==
  /\ Len(line) < MaxPieces /\ argv = <<>> /\ style \in Styles(text)
  /\ joined => line # <<>> /\ Last(line).style # "files"
  /\ line' = Append(line, [text |-> text, style |-> style, joined |-> joined])
  /\ UNCHANGED <<queueVars, volumeVars, argv>>
WriteFiles ==
  /\ Len(line) < MaxPieces /\ argv = <<>> /\ \A k \in DOMAIN line : line[k].style # "files"
  /\ line' = Append(line, [text |-> <<>>, style |-> "files", joined |-> FALSE])
  /\ UNCHANGED <<queueVars, volumeVars, argv>>

Escaped(text, chars) == FlattenSeq([k \in DOMAIN text |->
                          IF text[k] \in chars THEN <<Bs, text[k]>> ELSE <<text[k]>>])
Written(piece) ==
  (IF piece.joined THEN <<>> ELSE <<Sp>>) \o
  CASE piece.style = "double" -> <<Dq>> \o Escaped(piece.text, {Dq, Bs}) \o <<Dq>>
    [] piece.style = "single" -> <<Sq>> \o piece.text \o <<Sq>>
    [] piece.style = "escaped" -> Escaped(piece.text, {Sp, Sq, Dq, Bs})
    [] piece.style = "files" -> <<FilesHere>>

(* Two files are selected.  Without {} they come last.  Without any other  *)
(* word the array that parse_cmd ends with a NULL was never allocated.     *)
Selected == <<"file 1", "file 2">>
OnlyFiles == Len(line) = 1 /\ line[1].style = "files"
NullWrite == <<"null write">>
cmd_run ==
  /\ line # <<>> /\ argv = <<>>
  /\ LET av == parse_cmd(Tail(FlattenSeq([k \in DOMAIN line |-> Written(line[k])])), 1, <<>>)
         all == IF Contains(av, FilesHere) THEN av ELSE Append(av, FilesHere)
     IN argv' = CASE av = <<>> -> <<None>>
                  [] av = <<FilesHere>> -> NullWrite
                  [] OTHER -> FlattenSeq([k \in DOMAIN all |->
                                IF all[k] = FilesHere THEN Selected ELSE <<all[k]>>])
  /\ UNCHANGED <<queueVars, volumeVars, line>>

(* The three groups of commands share no state. *)
QueueNext ==
  \/ \E wanted \in 1 .. Len(Tracks) + 1 : cmd_lqueue(wanted) \/ cmd_tqueue(wanted)
  \/ (\E v \in 0 .. nmax - 1 : Draw(v)) \/ Sort \/ Fill
  \/ (\E pos \in 0 .. size : list_add_rand(pos)) \/ play_queue_append \/ play_queue_remove
QueueSpec == CommandsInit /\ [][QueueNext]_commandVars
VolumeNext == cmd_vol \/ cmd_mute
RunNext ==
  \/ \E text \in Texts, style \in {"double", "single", "escaped"}, joined \in BOOLEAN :
       Write(text, style, joined)
  \/ WriteFiles \/ cmd_run

-----------------------------------------------------------------------------
(* lqueue and tqueue put as many different albums or tracks into the queue *)
(* as were asked for, or all: rand_array, which inverts its draw and turns *)
(* it around in place when more than half are wanted, yields different     *)
(* places in ascending order and reads no element it has not written.      *)
RandomApart ==
  /\ step = "fill" => j <= size /\ r[j] >= 0
  /\ step = "pick" => \A k \in 0 .. size - 1 :
       r[k] \in 0 .. nmax - 1 /\ (k > 0 => r[k - 1] < r[k])
  /\ IsInjective(queue)

(* command_mode.c:1896 "fill the array starting at index 0 with            *)
(* incrementing values that are not in the set of random numbers"          *)
UnwantedLeftOut ==
  step = "pick" /\ inverted => {r[k] : k \in 0 .. size - 1} = (0 .. nmax - 1) \ drawn

(* The volume is an index of the table soft_vol_db, or full. *)
VolumeInTable == soft_vol_l \in 0 .. max_vol /\ soft_vol_r \in 0 .. max_vol

(* The program that run starts gets the words as the user meant them,      *)
(* whatever characters they have and however they are quoted and joined,   *)
(* and the selected files in the place of {} or at the end.  A line of {}  *)
(* alone runs no program: parse_cmd writes through a null pointer.         *)
Meant ==
  LET words == FoldLeft(LAMBDA ws, piece :
                 CASE piece.style = "files" -> ws \o Selected
                   [] piece.joined -> Append(Front(ws), Last(ws) \o piece.text)
                   [] OTHER -> Append(ws, piece.text), <<>>, line)
  IN IF \E k \in DOMAIN line : line[k].style = "files" THEN words ELSE words \o Selected
WordsMeant == argv # <<>> /\ ~OnlyFiles => argv = Meant
=============================================================================
