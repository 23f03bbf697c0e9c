-------------------------------- MODULE Cue ---------------------------------
(***************************************************************************)
(* Cue sheets (cue.c): the sheet of a recording that holds several tracks  *)
(* is read a line at a time; at the end numbers, indexes and gaps are      *)
(* checked and the offset and length of each track computed.               *)
(*                                                                         *)
(* A line is a record of its command and its arguments; times are in       *)
(* frames, 75 to a second.  NaN stands for a token that is no number.      *)
(* Titles, performers and the like are left out.                           *)
(***************************************************************************)
EXTENDS Integers, Sequences, SequencesExt

CONSTANTS
  CueFiles,    \* names in FILE lines
  Times,       \* times in INDEX lines
  Gaps,        \* times in PREGAP and POSTGAP lines
  MaxCueTracks \* bound: TRACK lines

VARIABLES
  parser,      \* struct cue_parser
  sheet,       \* struct cue_sheet; NoSheet: cue_parse returned NULL or goes on
  firstFile    \* history: the name in the first FILE line

cueVars == <<parser, sheet, firstFile>>

NaN == -2
NoSheet == <<>>

CueInit ==
  /\ parser = [err |-> FALSE, file |-> "none", tracks |-> <<>>, done |-> FALSE]
  /\ sheet = NoSheet /\ firstFile = "none"

-----------------------------------------------------------------------------
(* The commands of a line, as operators on the parser p.  -1: not given.   *)

cue_set_err(p) == [p EXCEPT !.err = TRUE]

cue_parse_file(p, line) == IF p.file = "none" THEN [p EXCEPT !.file = line.name] ELSE p

cue_parse_track(p, line) ==
  IF line.nr = NaN THEN cue_set_err(p)
  ELSE [p EXCEPT !.tracks = Append(@, [nr |-> line.nr, pregap |-> -1, postgap |-> -1,
                                       index0 |-> -1, index1 |-> -1])]

(* A field of the last track is set, if there is a track; a bad time is an *)
(* error in any case.                                                      *)
SetLast(p, field, time) ==
  IF time = NaN THEN cue_set_err(p)
  ELSE IF p.tracks = <<>> THEN p
  ELSE [p EXCEPT !.tracks[Len(p.tracks)][field] = time]

cue_parse_index(p, line) ==
  IF line.nr = NaN THEN cue_set_err(p)
  ELSE IF line.nr > 1 THEN p
  ELSE SetLast(p, IF line.nr = 0 THEN "index0" ELSE "index1", line.time)

cue_parse_gap(p, line) == SetLast(p, IF line.cmd = "POSTGAP" THEN "postgap" ELSE "pregap", line.time)

(* Lines with other commands, and what follows the arguments, are skipped. *)
cue_parse_cmd(p, line) ==
  CASE line.cmd = "FILE" -> cue_parse_file(p, line)
    [] line.cmd = "TRACK" -> cue_parse_track(p, line)
    [] line.cmd = "INDEX" -> cue_parse_index(p, line)
    [] line.cmd \in {"PREGAP", "POSTGAP"} -> cue_parse_gap(p, line)
    [] OTHER -> p

-----------------------------------------------------------------------------
(* The end of the sheet. *)

Given(x) == IF x # -1 THEN x ELSE 0

(* Of the two indexes of a track the missing one follows from the pregap. *)
Indexed(t) ==
  IF t.index0 # -1 /\ t.index1 # -1 THEN t
  ELSE IF t.index1 # -1 THEN [t EXCEPT !.index0 = t.index1 - Given(t.pregap)]
  ELSE [t EXCEPT !.index1 = t.index0 + Given(t.pregap)]

Fault_EndWithoutPostgap(t) == t.index1
End(t) == t.index1 + Given(t.postgap)

Fault_AnyNumbers(p) == TRUE
InSequence(p) == \A i \in 2 .. Len(p.tracks) : p.tracks[i].nr = p.tracks[i - 1].nr + 1

cue_post_process(p) ==
  LET ts == [i \in 1 .. Len(p.tracks) |-> Indexed(p.tracks[i])]
      ok == /\ p.file # "none" /\ p.tracks # <<>>
            /\ InSequence(p)
            /\ \A i \in 1 .. Len(ts) : p.tracks[i].index0 # -1 \/ p.tracks[i].index1 # -1
            /\ \A i \in 2 .. Len(ts) : ts[i].index0 >= End(ts[i - 1])
  IN IF ok THEN [p EXCEPT !.tracks = ts] ELSE cue_set_err(p)

(* The last track goes on to the end of the file: its length is -1.        *)
cue_parser_to_sheet(p) ==
  LET ts == p.tracks
      n == Len(ts)
      length(i) == IF i = n THEN -1 ELSE ts[i + 1].index1 - ts[i].index1 - Given(ts[i].postgap)
  IN [file |-> p.file, track_base |-> Last(ts).nr + 1 - n,
      tracks |-> [i \in 1 .. n |-> [offset |-> ts[i].index1, length |-> length(i)]]]

-----------------------------------------------------------------------------
(* cue_parse reads lines until one is in error or none is left. *)
Reads(line) ==
  /\ ~parser.err /\ ~parser.done
  /\ parser' = cue_parse_cmd(parser, line)
  /\ firstFile' = IF line.cmd = "FILE" /\ firstFile = "none" THEN line.name ELSE firstFile
  /\ UNCHANGED sheet

Lines ==
  [cmd : {"FILE"}, name : CueFiles]
    \cup [cmd : {"INDEX"}, nr : {0, 1, 2, NaN}, time : Times \cup {NaN}]
    \cup [cmd : {"PREGAP", "POSTGAP"}, time : Gaps \cup {NaN}]
    \cup {[cmd |-> "REM"]}
    \cup IF Len(parser.tracks) < MaxCueTracks THEN [cmd : {"TRACK"}, nr : (1 .. MaxCueTracks) \cup {NaN}] ELSE {}

cue_parse ==
  /\ ~parser.err /\ ~parser.done
  /\ parser' = [cue_post_process(parser) EXCEPT !.done = TRUE]
  /\ sheet' = IF parser'.err THEN NoSheet ELSE cue_parser_to_sheet(parser')
  /\ UNCHANGED firstFile

CueNext == (\E line \in Lines : Reads(line)) \/ cue_parse
CueSpec == CueInit /\ [][CueNext]_cueVars

-----------------------------------------------------------------------------
(* The sheet that cue_parse accepts divides its file: track_base + i is    *)
(* the number of track i, each track lies between its offset and the next  *)
(* one's, the gap after it left out, whichever indexes and gaps the lines  *)
(* gave and in which order.  A track can have a negative length only if    *)
(* the next one has its index 01 before its index 00, which is not         *)
(* checked.                                                                *)
TracksApart ==
  sheet # NoSheet =>
    LET ts == parser.tracks
        out == sheet.tracks
    IN /\ sheet.file = firstFile
       /\ \A i \in 1 .. Len(out) : ts[i].nr = sheet.track_base + i - 1
       /\ \A i \in 1 .. Len(out) - 1 :
            /\ out[i].offset + out[i].length + Given(ts[i].postgap) = out[i + 1].offset
            /\ out[i].length >= 0 \/ ts[i + 1].index1 < ts[i + 1].index0
=============================================================================
