------------------------------- MODULE Options ------------------------------
(***************************************************************************)
(* The options (options.c): read from text by :set, flipped by :toggle or  *)
(* by an MPRIS client (mpris.c), written as text into the autosave file at *)
(* the end and read back, in the order of their names, at the next start.  *)
(*                                                                         *)
(* A text is a word, a number, a pair of numbers or a list of words; every *)
(* option has its own reader and writer.  Booleans are 0 and 1 as in the   *)
(* code.  The 25 colours, 12 attributes and 15 formats differ in their     *)
(* name only: one of each stands for them.  The plugins add no options in  *)
(* this build.                                                             *)
(***************************************************************************)
EXTENDS Integers, Sequences, SequencesExt, FiniteSets

CONSTANTS
  CHUNK_SIZE,   \* bytes of a chunk of the player's buffer
  MaxChanges    \* bound: options changed that no other option looks at

VARIABLES
  opt,      \* the option variables
  told,     \* LoopStatus, as MPRIS last announced it
  silent,   \* a client has changed the loop status since
  changes   \* bound

ovars == <<opt, told, silent, changes>>

Word(w) == [word |-> w]
Num(n) == [num |-> n]
IsNum(t) == "num" \in DOMAIN t
IsWord(t) == "word" \in DOMAIN t

(* The readers of numbers and names: a set with the value, or empty. *)
parse_int(t, minval, maxval) == IF IsNum(t) THEN {t.num} \cap (minval .. maxval) ELSE {}

parse_enum(t, minval, maxval, names) ==
  IF IsNum(t) THEN {t.num} \cap (minval .. maxval)
  ELSE {i - 1 + minval : i \in {i \in DOMAIN names : IsWord(t) /\ names[i] = t.word}}

bool_names == <<"false", "true">>
parse_bool(t) == parse_enum(t, 0, 1, bool_names)

-----------------------------------------------------------------------------
(* Toggles that are only stored; some redraw the status line as well. *)
StatusFlags == {"auto_reshuffle", "follow", "continue", "continue_album"}
ShowFlags == {"show_current_bitrate", "show_playback_position", "show_remaining_time", "set_term_title"}
SearchFlags == {"wrap_search", "skip_track_info"}
ScreenFlags == {"mouse", "mpris", "time_show_leading_zero"}
QueueFlags == {"stop_after_queue", "pause_on_output_change"}
SortFlags == {"smart_artist_sort", "display_artist_sort_name"}
RunFlags == {"resume", "show_hidden"}
Flags == StatusFlags \cup ShowFlags \cup SearchFlags \cup ScreenFlags \cup QueueFlags
           \cup SortFlags \cup RunFlags \cup {"confirm_run", "replaygain_limit", "softvol"}

(* Options of the play order, which toggles couple, and of the tree. *)
Modes == {"play_library", "play_sorted", "repeat", "repeat_current", "aaa_mode", "shuffle"}
Expands == {"auto_expand_albums_follow", "auto_expand_albums_search", "auto_expand_albums_selcur"}
Tree == Expands \cup {"show_all_tracks"}
Booleans == Flags \cup Tree \cup (Modes \ {"aaa_mode", "shuffle"})

(* The options whose values are names: names, smallest and largest. *)
aaa_mode_names == <<"all", "artist", "album">>
shuffle_names == <<"off", "tracks", "albums", "false", "true">>
replaygain_names == <<"disabled", "track", "album", "track-preferred", "album-preferred", "smart">>
view_names == <<"tree", "sorted", "playlist", "queue", "browser", "filters", "settings">>
color_enum_names == <<"default", "black", "red", "green", "yellow", "blue", "magenta", "cyan", "gray",
  "darkgray", "lightred", "lightgreen", "lightyellow", "lightblue", "lightmagenta", "lightcyan", "white">>

SHUFFLE_OFF == 0
SHUFFLE_TRACKS == 1
SHUFFLE_ALBUMS == 2

(* The options whose values are numbers, with their range. *)
Ranges == [scroll_offset |-> <<0, 9999>>, rewind_offset |-> <<-1, 9999>>,
           tree_width_percent |-> <<1, 100>>, tree_width_max |-> <<0, 9999>>]
(* Texts that are stored as they are: names of files and of charsets. *)
Plain == {"device", "status_display_program", "id3_default_charset", "icecast_default_charset"}

(* Lists of sort keys, by their length in bytes, written into sort_str. *)
Sorts == {"lib_sort", "pl_sort"}
KeyBytes == [artist |-> 6, title |-> 5, rg_track_gain |-> 13]
SORT_STR == 128

(* The whole list, sorted by option_add. *)
option_head == <<
  "aaa_mode", "auto_expand_albums_follow", "auto_expand_albums_search", "auto_expand_albums_selcur",
  "auto_reshuffle", "buffer_seconds", "color_win_attr", "color_win_fg", "confirm_run", "continue",
  "continue_album", "device", "display_artist_sort_name", "follow", "format_current",
  "icecast_default_charset", "id3_default_charset", "lib_add_filter", "lib_sort", "mouse", "mpris",
  "output_plugin", "passwd", "pause_on_output_change", "pl_sort", "play_library", "play_sorted", "repeat",
  "repeat_current", "replaygain", "replaygain_limit", "replaygain_preamp", "resume", "rewind_offset", "scroll_offset", "set_term_title", "show_all_tracks",
  "show_current_bitrate", "show_hidden", "show_playback_position", "show_remaining_time", "shuffle",
  "skip_track_info", "smart_artist_sort", "softvol", "softvol_state", "start_view",
  "status_display_program", "stop_after_queue", "time_show_leading_zero", "tree_width_max",
  "tree_width_percent", "wrap_search">>
Names == ToSet(option_head)

(* The values before the autosave file is read. *)
Defaults == [n \in Names |->
  IF n \in Expands \cup {"show_all_tracks", "auto_reshuffle", "confirm_run", "show_playback_position",
       "set_term_title", "wrap_search", "play_library", "smart_artist_sort", "mpris", "continue",
       "time_show_leading_zero", "continue_album", "replaygain_limit"} THEN 1
  ELSE CASE n = "buffer_seconds" -> 29 [] n = "color_win_fg" -> -1 [] n = "color_win_attr" -> {}
         [] n = "softvol_state" -> <<0, 0>> [] n = "scroll_offset" -> 2 [] n = "rewind_offset" -> 5
         [] n = "tree_width_percent" -> 33 [] n = "format_current" -> "%f"
         [] n = "lib_sort" -> [keys |-> <<"artist", "title">>, str |-> <<"artist", "title">>]
         [] n = "pl_sort" -> [keys |-> <<>>, str |-> <<>>]
         [] n = "output_plugin" -> "alsa"
         [] n \in Plain \cup {"lib_add_filter", "passwd"} -> "" [] OTHER -> 0]

(* What mpris_loop_status answers. *)
mpris_loop_status(o) ==
  IF o["repeat_current"] = 1 THEN "Track" ELSE IF o["repeat"] = 1 THEN "Playlist" ELSE "None"

OptionsInit ==
  opt = Defaults /\ told = mpris_loop_status(Defaults) /\ silent = FALSE /\ changes = 0

-----------------------------------------------------------------------------
(* Fault_* definitions are faulty variants of the definition that follows. *)
Fault_ShowAllAlone(o, v) == [o EXCEPT !["show_all_tracks"] = v]

(* The tracks of albums that are not expanded would be hidden: whatever    *)
(* turns an expansion off shows all tracks, and hiding them expands.       *)
set_show_all_tracks_int(o, v) ==
  [n \in Names |-> CASE n = "show_all_tracks" -> v
                     [] n \in Expands /\ v = 0 /\ o["show_all_tracks"] = 1 -> 1
                     [] OTHER -> o[n]]

set_auto_expand_albums_int(o, name, v) ==
  LET set == [o EXCEPT ![name] = v]
  IN IF v = 0 /\ set["show_all_tracks"] = 0 THEN set_show_all_tracks_int(set, 1) ELSE set

(* A value that cannot be read counts as false here. *)
SetTree(o, name, t) ==
  LET v == IF parse_bool(t) = {} THEN 0 ELSE CHOOSE v \in parse_bool(t) : TRUE
  IN IF name = "show_all_tracks" THEN set_show_all_tracks_int(o, v)
     ELSE set_auto_expand_albums_int(o, name, v)

set_shuffle(o, t) ==
  LET v == parse_enum(t, 0, 4, shuffle_names)
      real(n) == CASE n = 3 -> SHUFFLE_OFF [] n = 4 -> SHUFFLE_TRACKS [] OTHER -> n
  IN [o EXCEPT !["shuffle"] = IF v = {} THEN @ ELSE real(CHOOSE n \in v : TRUE)]

(* Seconds of 16 bit stereo at 44100 Hz are rounded to chunks, and back. *)
SECOND_SIZE == 176400
ToChunks(sec) == (sec * SECOND_SIZE + CHUNK_SIZE \div 2) \div CHUNK_SIZE
get_buffer_seconds(chunks) == (chunks * CHUNK_SIZE + SECOND_SIZE \div 2) \div SECOND_SIZE

(* A colour's name, or its number from 16 on. *)
Fault_NameForgetsDefault(val) ==
  IF val < 16 THEN Word(color_enum_names[IF val < 0 THEN 1 ELSE val + 1]) ELSE Num(val)

get_color(val) == IF val < 16 THEN Word(color_enum_names[val + 2]) ELSE Num(val)

(* Attributes are written as a list.  In reading, every name after the     *)
(* first one still has the bar in front of it and is not recognised.       *)
attr_order == <<"standout", "underline", "reverse", "blink", "bold">>
get_attr(attr) ==
  IF attr = {} THEN [list |-> <<"default">>] ELSE [list |-> SelectSeq(attr_order, LAMBDA a : a \in attr)]
set_attr(t) == {t.list[1]} \cap ToSet(attr_order)

set_passwd(old, word) == IF Len(word) \in 1 .. 5 THEN old ELSE word

(* A format or a filter that cannot be parsed leaves the old one. *)
set_format(old, word) == IF word = "%" THEN old ELSE word
set_lib_add_filter(old, word) == IF word = "~" THEN old ELSE word

set_softvol_state(old, pair) == IF \A i \in 1 .. 2 : pair[i] \in 0 .. 100 THEN pair ELSE old

(* parse_sort_keys refuses a list with an unknown key.  The list is kept   *)
(* whole; sort_str gets the keys that fit, with a blank after each.        *)
Bytes(keys) == FoldLeft(LAMBDA n, key : n + KeyBytes[key] + 1, 0, keys)
sort_keys_to_str(keys) ==
  SubSeq(keys, 1, Max({n \in 0 .. Len(keys) :
                         n > 0 => Bytes(SubSeq(keys, 1, n)) + 1 <= SORT_STR}))
set_sort(old, keys) ==
  IF ToSet(keys) \subseteq DOMAIN KeyBytes THEN [keys |-> keys, str |-> sort_keys_to_str(keys)] ELSE old

(* Decibels in units of 10^-7; the text has six digits of the fraction. *)
get_replaygain_preamp(db) == [decibels |-> ((db + 5) \div 10) * 10]

(* v, a value that was read, or nothing. *)
Read(o, name, v) == IF v = {} THEN o ELSE [o EXCEPT ![name] = CHOOSE x \in v : TRUE]

option_set(o, name, t) ==
  CASE name \in Tree -> SetTree(o, name, t)
    [] name = "shuffle" -> set_shuffle(o, t)
    [] name \in Booleans -> Read(o, name, parse_bool(t))
    [] name = "aaa_mode" -> Read(o, name, parse_enum(t, 0, 2, aaa_mode_names))
    [] name = "replaygain" -> Read(o, name, parse_enum(t, 0, 5, replaygain_names))
    [] name = "start_view" -> Read(o, name, parse_enum(t, 0, 6, view_names))
    [] name = "color_win_fg" -> Read(o, name, parse_enum(t, -1, 255, color_enum_names))
    [] name \in DOMAIN Ranges -> Read(o, name, parse_int(t, Ranges[name][1], Ranges[name][2]))
    [] name = "buffer_seconds" -> Read(o, name, {ToChunks(s) : s \in parse_int(t, 1, 300)})
    [] name = "color_win_attr" -> [o EXCEPT ![name] = set_attr(t)]
    [] name = "softvol_state" -> [o EXCEPT ![name] = set_softvol_state(@, t.pair)]
    [] name = "passwd" -> [o EXCEPT ![name] = set_passwd(@, t.word)]
    [] name = "format_current" -> [o EXCEPT ![name] = set_format(@, t.word)]
    [] name = "lib_add_filter" -> [o EXCEPT ![name] = set_lib_add_filter(@, t.word)]
    [] name \in Sorts -> [o EXCEPT ![name] = set_sort(@, t.keys)]
    [] name = "replaygain_preamp" -> IF IsWord(t) THEN o ELSE [o EXCEPT ![name] = t.decibels]
    [] name = "output_plugin" -> o
    [] name \in Plain -> [o EXCEPT ![name] = t.word]

(* opt->get *)
option_get(o, name) ==
  CASE name = "shuffle" -> Word(shuffle_names[o[name] + 1])
    [] name = "aaa_mode" -> Word(aaa_mode_names[o[name] + 1])
    [] name \in Booleans -> Word(bool_names[o[name] + 1])
    [] name = "replaygain" -> Word(replaygain_names[o[name] + 1])
    [] name = "start_view" -> Word(view_names[o[name] + 1])
    [] name = "color_win_fg" -> get_color(o[name])
    [] name \in DOMAIN Ranges -> Num(o[name])
    [] name = "buffer_seconds" -> Num(get_buffer_seconds(o[name]))
    [] name = "color_win_attr" -> get_attr(o[name])
    [] name = "softvol_state" -> [pair |-> o[name]]
    [] name \in Sorts -> [keys |-> o[name].str]
    [] name = "replaygain_preamp" -> get_replaygain_preamp(o[name])
    [] OTHER -> Word(o[name])

-----------------------------------------------------------------------------
(* Options that others look at may change any number of times. *)
Coupled == Tree \cup {"play_library", "repeat", "repeat_current"}
Count(name) == changes' = IF name \in Coupled THEN changes ELSE changes + 1

(* The loop status is announced when the option that decides it changed. *)
Fault_AnnounceHidden(old, new, name) == name = "repeat_current" /\ new[name] = 1
Announced(old, new, name) ==
  \/ name = "repeat_current" /\ old[name] # new[name]
  \/ name = "repeat" /\ old[name] # new[name] /\ old["repeat_current"] = 0

Announce(o, name) ==
  IF Announced(opt, o, name) THEN told' = mpris_loop_status(o) /\ silent' = FALSE
  ELSE UNCHANGED <<told, silent>>

cmd_set(name, t) ==
  /\ opt' = option_set(opt, name, t)
  /\ Announce(opt', name)
  /\ Count(name)

(* Toggles that choose an order within the library play the library. *)
Toggled(o, name) ==
  CASE name \in Expands -> set_auto_expand_albums_int(o, name, 1 - o[name])
    [] name = "show_all_tracks" -> set_show_all_tracks_int(o, 1 - o[name])
    [] name = "play_sorted" ->
         [o EXCEPT ![name] = 1 - @, !["play_library"] = IF o[name] = 0 THEN 1 ELSE @]
    [] name = "aaa_mode" -> [o EXCEPT ![name] = (@ + 1) % 3, !["play_library"] = 1]
    [] name = "shuffle" ->
         LET next == (o[name] + 1) % 3
         IN [o EXCEPT ![name] = IF o["play_library"] = 0 /\ next = SHUFFLE_ALBUMS THEN SHUFFLE_OFF ELSE next]
    [] name = "replaygain" -> [o EXCEPT ![name] = (@ + 1) % 6]
    [] OTHER -> [o EXCEPT ![name] = 1 - @]

cmd_toggle(name) ==
  /\ name \in Flags \cup Tree \cup Modes \cup {"replaygain"}
  /\ opt' = Toggled(opt, name)
  /\ Announce(opt', name)
  /\ Count(name)

(* The client knows what it has set; nothing is announced to the others.   *)
mpris_set_loop_status(t) ==
  /\ opt' = [opt EXCEPT !["repeat_current"] = IF t = "Track" THEN 1 ELSE 0,
                        !["repeat"] = CASE t = "None" -> 0 [] t = "Playlist" -> 1 [] OTHER -> @]
  /\ silent' = (silent \/ mpris_loop_status(opt') # mpris_loop_status(opt))
  /\ UNCHANGED <<told, changes>>

mpris_set_shuffle(s) ==
  opt' = [opt EXCEPT !["shuffle"] = s] /\ Count("shuffle") /\ UNCHANGED <<told, silent>>

(* options_exit writes a line for every option; options_load runs them.    *)
(* MPRIS starts after it.                                                  *)
options_load(texts) ==
  FoldLeft(LAMBDA o, n : option_set(o, n, texts[n]), Defaults, option_head)

Restarted == options_load([n \in Names |-> option_get(opt, n)])

Exit ==
  /\ opt' = Restarted
  /\ told' = mpris_loop_status(opt') /\ silent' = FALSE
  /\ UNCHANGED changes

(* What is typed after the "=": good values, boundaries and bad ones. *)
Inputs(name) ==
  CASE name \in Booleans ->
         {Word("true"), Word("false"), Num(1), Num(2), Word("maybe")}
    [] name = "aaa_mode" -> {Word("artist"), Num(2), Num(3)}
    [] name = "shuffle" -> {Word(w) : w \in ToSet(shuffle_names)} \cup {Num(5)}
    [] name = "replaygain" -> {Num(n) : n \in 0 .. 6}
    [] name = "start_view" -> {Num(6), Num(7), Word("queue")}
    [] name = "color_win_fg" -> {Num(n) : n \in {-2, -1, 0, 14, 15, 16, 255, 256}} \cup {Word("white")}
    [] name \in DOMAIN Ranges -> {Num(n) : n \in {Ranges[name][1] - 1, Ranges[name][1], Ranges[name][2] + 1}}
    [] name = "buffer_seconds" -> {Num(n) : n \in {0, 1, 2, 3, 7, 13, 150, 299, 300, 301}}
    [] name = "color_win_attr" -> {[list |-> l] : l \in {<<"default">>, <<"bold">>, <<"reverse", "bold">>}}
    [] name = "softvol_state" -> {[pair |-> p] : p \in {<<0, 100>>, <<50, 101>>}}
    [] name \in Sorts -> {[keys |-> k] : k \in {<<>>, <<"title">>, <<"title", "unknown">>} \cup
                             {[i \in 1 .. n |-> "rg_track_gain"] : n \in {9, 10}}}
    [] name = "replaygain_preamp" ->
         {[decibels |-> d] : d \in {60000000, -30000004, 12345678}} \cup {Word("loud")}
    [] name = "output_plugin" -> {Word("alsa"), Word("x")}
    [] name = "passwd" -> {Word(""), Word("abc"), Word("abcdef")}
    [] name = "format_current" -> {Word("%a"), Word("%")}
    [] name = "lib_add_filter" -> {Word(""), Word("~"), Word("~a x")}
    [] name \in Plain -> {Word("x")}

(* Bound: what a client changes silently is explored on its own. *)
OptionsNext ==
  \/ \E name \in Names :
       /\ name \in Coupled \/ (changes < MaxChanges /\ ~silent)
       /\ cmd_toggle(name) \/ \E t \in Inputs(name) : cmd_set(name, t)
  \/ changes = 0 /\ \E t \in {"None", "Track", "Playlist"} : mpris_set_loop_status(t)
  \/ changes < MaxChanges /\ ~silent /\ \E s \in {0, 1} : mpris_set_shuffle(s)
  \/ Exit

-----------------------------------------------------------------------------
(* The options that depend on one another agree, whatever was set, toggled *)
(* or read back in whichever order: where not all tracks are shown, every  *)
(* jump into the tree expands albums (window_set_sel would otherwise be    *)
(* given a hidden row), and the loop status that the next track is chosen  *)
(* by is the one that MPRIS announced last, unless a client has changed it *)
(* since, which is announced to nobody.                                    *)
OptionsCoupled ==
  /\ opt["show_all_tracks"] = 0 => \A n \in Expands : opt[n] = 1
  /\ ~silent => told = mpris_loop_status(opt)

(* The program can end at any time: an option has, after the next start,   *)
(* the value it had at the end, though it went through its text and its    *)
(* setter looks at the options read before it.  Of the sort keys those     *)
(* survive that sort_str holds, all of them up to 126 characters, and the  *)
(* decibels of replaygain_preamp to six digits.                            *)
Survives(name, old, new) ==
  CASE name \in Sorts -> /\ new.str = old.str /\ new.keys = old.str
                         /\ Bytes(old.keys) <= SORT_STR - 1 => new.keys = old.keys
    [] name = "replaygain_preamp" -> new \in old - 5 .. old + 5
    [] OTHER -> new = old

OptionsSurvive == LET next == Restarted IN \A n \in Names : Survives(n, opt[n], next[n])
=============================================================================
