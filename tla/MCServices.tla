------------------------------ MODULE MCServices ----------------------------
(***************************************************************************)
(* The components that share no state in the models are checked in one     *)
(* run: `part` names the one that runs, the others stay as they start.     *)
(***************************************************************************)
EXTENDS Integers, Sequences, TLC, Input, Decoder, Output, Cache

CONSTANTS
  Chars, MaxBytes, FirstSize, MaxHistory,                     \* CommandLine
  Contexts, Keys,                                             \* Bindings
  MaxChanges,                                                 \* Options
  MaxTokens, MaxParts, INT_MAX,                               \* Expr
  Letters, MaxPattern, MaxText,                               \* Glob
  MaxEvents,                                                  \* Browser
  MaxClients, MaxSends,                                       \* Server
  CueFiles, Times, Gaps, MaxCueTracks,                        \* Cue
  MaxPieces                                                   \* Commands

VARIABLES
  part,
  cl, mode, hist, hpos, htext, tab, clicked, stray,
  key_bindings, bc, rows, selected,
  filters, row, library, touched,
  opt, told, silent, changes,
  form, input,
  pattern, text,
  access, browser_dir, shown, list, sel, show_hidden, events,
  family, server_password, head, conns, authenticated, wire, half, hung, set, item, next, serving,
  buf, only_safe, ran, proved, owed, sends,
  parser, sheet, firstFile,
  what, size, r, i, j, n, stage, drawn, picked, queue, soft_vol_l, soft_vol_r, mute_vol, line, argv

(* Commands to complete: a letter, and one character of two bytes. *)
Typed == << <<"a">>, <<"e1", "e2">> >>
(* Expressions by their leaves: one of two tests, or a filter. *)
FilterExprs == {<<-1>>, <<-2>>, <<1>>, <<2>>}

Special(c) == [sp |-> c]
Key(k) == [key |-> k]
ExprTokens ==
  {Special(c) : c \in {"!", "(", ")", "&", "|", "="}} \cup {Key("stream"), Key("date"), [int |-> 1]}
ShortParts ==
  {Special(c) : c \in {"!", "(", ")", "|"}}
    \cup {[bool |-> "stream"], [str |-> "x", key |-> "artist"],
          [int |-> "n-m", key |-> "date", a |-> 1, b |-> 2],
          [int |-> "<", key |-> "duration", a |-> 2, b |-> 0]}

(* A directory with a directory, a playlist and a hidden file, and a file. *)
BrowserPaths ==
  (<<>> :> "dir") @@ (<<1>> :> "dir") @@ (<<1, 1>> :> "dir") @@ (<<1, 2>> :> "playlist")
    @@ (<<1, 3>> :> "hidden") @@ (<<2>> :> "file")

(* Albums of two, one and one tracks; words of up to two characters. *)
ThreeAlbums == << <<1, 2>>, <<3>>, <<4>> >>
RunChars == {"a", "dq", "sq", "bs", "space"}
RunTexts == {<<>>} \cup {<<c>> : c \in RunChars} \cup {<<c, d>> : c \in {"bs", "space"}, d \in RunChars}

TheLine == INSTANCE CommandLine WITH Commands <- Typed
TheBindings == INSTANCE Bindings WITH Commands <- {1, 2}, sel <- selected
TheFilters == INSTANCE Filters WITH Names <- {1, 2}, Long <- {2}, Exprs <- FilterExprs
TheOptions == INSTANCE Options
TheExpr == INSTANCE Expr WITH Tokens <- ExprTokens, Shorts <- ShortParts
TheGlob == INSTANCE Glob
TheBrowser == INSTANCE Browser WITH Paths <- BrowserPaths
TheServer == INSTANCE Server
TheCue == INSTANCE Cue
TheCommands == INSTANCE Commands WITH Albums <- ThreeAlbums, Texts <- RunTexts,
                 Volumes <- {-60, 0, 30, 70, 150}, step <- stage, list <- picked

lineVars == <<cl, mode, hist, hpos, htext, tab, clicked, stray>>
bindingVars == <<key_bindings, bc, rows, selected>>
filterVars == <<filters, row, library, touched>>
optionVars == <<opt, told, silent, changes>>
exprVars == <<form, input>>
globVars == <<pattern, text>>
browserVars == <<access, browser_dir, shown, list, sel, show_hidden, events>>
serverVars == <<family, server_password, head, conns, authenticated, wire, half, hung, set, item, next,
                serving, buf, only_safe, ran, proved, owed, sends>>
cueVars == <<parser, sheet, firstFile>>
commandVars == <<what, size, r, i, j, n, stage, drawn, picked, queue, soft_vol_l, soft_vol_r, mute_vol, line,
                 argv>>

Parts == {"cache", "input", "decoder", "output", "line", "bindings", "filters", "options", "expr",
          "glob", "browser", "server", "cue", "queue", "volume", "run"}

(* A part that does not run has one initial state; the record of the       *)
(* options is left out there.                                              *)
Init ==
  /\ part \in Parts
  /\ CacheInit /\ (part # "cache" => ~skip)
  /\ InputInit
  /\ DecoderInit /\ (part # "decoder" => plugin = "ffmpeg" /\ width = 2)
  /\ AudioInit /\ (part # "output" => ~canPause)
  /\ TheLine!LineInit
  /\ TheBindings!BindingsInit
  /\ TheFilters!FiltersInit
  /\ IF part = "options" THEN TheOptions!OptionsInit
     ELSE opt = <<>> /\ told = "None" /\ silent = FALSE /\ changes = 0
  /\ TheExpr!ExprInit /\ (part # "expr" => form = "long")
  /\ TheGlob!GlobInit
  /\ TheBrowser!BrowserInit
  /\ TheServer!ServerInit /\ (part # "server" => family = "unix")
  /\ TheCue!CueInit
  /\ TheCommands!CommandsInit

Only(p) ==
  /\ part = p
  /\ UNCHANGED part
  /\ p # "cache" => UNCHANGED cvars
  /\ p # "input" => UNCHANGED ivars
  /\ p # "decoder" => UNCHANGED dvars
  /\ p # "output" => UNCHANGED avars
  /\ p # "line" => UNCHANGED lineVars
  /\ p # "bindings" => UNCHANGED bindingVars
  /\ p # "filters" => UNCHANGED filterVars
  /\ p # "options" => UNCHANGED optionVars
  /\ p # "expr" => UNCHANGED exprVars
  /\ p # "glob" => UNCHANGED globVars
  /\ p # "browser" => UNCHANGED browserVars
  /\ p # "server" => UNCHANGED serverVars
  /\ p # "cue" => UNCHANGED cueVars
  /\ p \notin {"queue", "volume", "run"} => UNCHANGED commandVars

Next ==
  \/ Only("cache") /\ CacheNext
  \/ Only("input") /\ InputNext
  \/ Only("decoder") /\ DecoderNext
  \/ Only("output") /\ AudioNext
  \/ Only("line") /\ TheLine!LineNext
  \/ Only("bindings") /\ TheBindings!BindingsNext
  \/ Only("filters") /\ TheFilters!FiltersNext
  \/ Only("options") /\ TheOptions!OptionsNext
  \/ Only("expr") /\ TheExpr!ExprNext
  \/ Only("glob") /\ TheGlob!GlobNext
  \/ Only("browser") /\ TheBrowser!BrowserNext
  \/ Only("server") /\ TheServer!ServerNext
  \/ Only("cue") /\ TheCue!CueNext
  \/ Only("queue") /\ TheCommands!QueueNext
  \/ Only("volume") /\ TheCommands!VolumeNext
  \/ Only("run") /\ TheCommands!RunNext

vars == <<part, cvars, ivars, dvars, avars, lineVars, bindingVars, filterVars,
          optionVars, exprVars, globVars, browserVars, serverVars, cueVars, commandVars>>
Spec == Init /\ [][Next]_vars

-----------------------------------------------------------------------------
(* CommandLine.CmdlineConsistent and HistorySound, Server.ServerSound,     *)
(* Commands.RandomApart: the cursor, lengths and buffer of the command     *)
(* line agree after every edit, completion and recall, and the position of *)
(* a search in the history is an entry of it; every line a remote client   *)
(* sends is answered once, and only what that client may run is run;       *)
(* random albums and tracks are queued once each; and                      *)
(* Commands.VolumeInTable: the volume is one of the table.                 *)
CommandsSound ==
  /\ part = "line" => TheLine!CmdlineConsistent /\ TheLine!HistorySound
  /\ part = "server" => TheServer!ServerSound
  /\ part = "queue" => TheCommands!RandomApart
  /\ part = "volume" => TheCommands!VolumeInTable

(* Bindings.BindingsAgree and Filters.MarksTrue: what the help window and  *)
(* the filters window show is what is bound and what is applied.           *)
WindowsTrue ==
  /\ part = "bindings" => TheBindings!BindingsAgree
  /\ part = "filters" => TheFilters!MarksTrue

(* Options.OptionsCoupled: options that depend on one another agree.       *)
OptionsCoupled == part = "options" => TheOptions!OptionsCoupled

(* OptionsSurvive, BindingsSurvive and FiltersSurvive: what the autosave   *)
(* file gets at the end is, read back, what there was.                     *)
SettingsSurvive ==
  /\ part = "options" => TheOptions!OptionsSurvive
  /\ part = "bindings" => TheBindings!BindingsSurvive
  /\ part = "filters" => TheFilters!FiltersSurvive

(* Expr.ExprMeans, Glob.GlobMeans, Cue.TracksApart, Commands.WordsMeant:   *)
(* the parser and the matcher agree with the grammar and with the          *)
(* definition of a pattern, an accepted cue sheet divides its file among   *)
(* its tracks, and a program gets the arguments that were written.         *)
MatchesMean ==
  /\ part = "expr" => TheExpr!ExprMeans
  /\ part = "glob" => TheGlob!GlobMeans
  /\ part = "cue" => TheCue!TracksApart
  /\ part = "run" => TheCommands!WordsMeant

(* Browser.BrowserSound and SearchNearest: what is selected is what is     *)
(* shown, though the file system changes, and a search finds the nearest   *)
(* match in its direction.                                                 *)
BrowserSound == part = "browser" => TheBrowser!BrowserSound /\ TheBrowser!SearchNearest
=============================================================================
