------------------------------- MODULE Browser ------------------------------
(***************************************************************************)
(* The file browser (browser.c, load_dir.c) and the search in a view       *)
(* (search.c), over a tree of files that others remove and lock.           *)
(*                                                                         *)
(* A path is the sequence of the names below "/"; names are numbers in     *)
(* their order, 0 is "..".                                                 *)
(***************************************************************************)
EXTENDS Integers, Sequences, SequencesExt, FiniteSets

CONSTANTS
  Paths,        \* path -> "dir", "playlist", "file" or "hidden"
  MaxEvents     \* bound: changes of the file system

VARIABLES
  access,       \* path -> "ok", "gone", "unreadable" or "closed" (no chdir)
  browser_dir,
  shown,        \* the path the entries were read from
  list,         \* browser_head: name and type of every entry
  sel,          \* the selected entry; Nothing; Freed: one of a list that is gone
  show_hidden, events

wvars == <<access, browser_dir, shown, list, sel, show_hidden, events>>

Nothing == [name |-> -1, type |-> "none"]
Freed == [name |-> -2, type |-> "none"]
Entry(name, type) == [name |-> name, type |-> type]
UpEntry == Entry(0, "dir")

-----------------------------------------------------------------------------
(* dir_read with normal_filter or hidden_filter, sorted by entry_cmp. *)
entry_cmp(a, b) ==
  IF a.type # b.type THEN a.type = "dir" ELSE a.name < b.name

Children(p) == {q \in DOMAIN Paths : Len(q) = Len(p) + 1 /\ SubSeq(q, 1, Len(p)) = p /\ access[q] # "gone"}
Listed(p, hidden) == {q \in Children(p) : Paths[q] # "hidden" \/ hidden}
DirEntries(p, hidden) ==
  SetToSortSeq({Entry(Last(q), IF Paths[q] = "dir" THEN "dir" ELSE "file") : q \in Listed(p, hidden)}
                 \cup (IF p = <<>> THEN {} ELSE {UpEntry}), entry_cmp)

(* The lines of a playlist, behind "..". *)
PlaylistEntries == <<UpEntry, Entry(1, "line")>>

(* do_browser_load: whether it fails, and with what; a directory that can  *)
(* be read but not entered fails when its entries are listed already.      *)
do_browser_load(p, hidden) ==
  CASE access[p] = "gone" -> [err |-> "ENOENT", list |-> list]
    [] Paths[p] = "playlist" /\ access[p] = "ok" -> [err |-> "", list |-> PlaylistEntries]
    [] Paths[p] = "dir" /\ access[p] = "ok" -> [err |-> "", list |-> DirEntries(p, hidden)]
    [] Paths[p] = "dir" /\ access[p] = "closed" -> [err |-> "EACCES", list |-> DirEntries(p, hidden)]
    [] Paths[p] \in {"file", "hidden"} -> [err |-> "ENOTDIR", list |-> list]
    [] OTHER -> [err |-> "EACCES", list |-> list]

FreesList(p) == access[p] = "closed" /\ Paths[p] = "dir"

(* window_set_contents selects the first entry. *)
First(l) == IF l = <<>> THEN Nothing ELSE l[1]

(* browser_load of p, then the first of the wanted entries that is listed  *)
(* is selected; dir is browser_dir where it fails.                         *)
Fault_LoadKeepsSelection(p, dir, wanted, hidden) ==
  LET load == do_browser_load(p, hidden) IN
  /\ list' = load.list
  /\ browser_dir' = IF load.err = "" THEN p ELSE dir
  /\ shown' = IF load.err = "" \/ FreesList(p) THEN p ELSE shown
  /\ sel' = IF FreesList(p) THEN Freed ELSE sel

browser_load(p, dir, wanted, hidden) ==
  LET load == do_browser_load(p, hidden)
      hits == ToSet(load.list) \cap wanted
  IN /\ list' = load.list
     /\ browser_dir' = IF load.err = "" THEN p ELSE dir
     /\ shown' = IF load.err = "" \/ FreesList(p) THEN p ELSE shown
     /\ sel' = CASE load.err # "" /\ FreesList(p) -> Freed
                 [] load.err # "" /\ ~FreesList(p) -> sel
                 [] load.err = "" /\ hits = {} -> First(load.list)
                 [] OTHER -> CHOOSE e \in hits : \A o \in hits : ~entry_cmp(o, e)

(* browser_up: from a parent that is gone on to its parent. *)
Reached == LET up == {n \in 0 .. Len(browser_dir) - 1 : access[SubSeq(browser_dir, 1, n)] # "gone"}
           IN CHOOSE n \in up : \A m \in up : m <= n

browser_up ==
  IF browser_dir = <<>> THEN UNCHANGED <<list, browser_dir, shown, sel>>
  ELSE browser_load(SubSeq(browser_dir, 1, Reached), SubSeq(browser_dir, 1, Reached + 1),
                    {Entry(browser_dir[Reached + 1], type) : type \in {"dir", "file", "line"}}, show_hidden)

(* browser_enter.  Files and lines of playlists are played. *)
browser_enter ==
  /\ sel \notin {Nothing, Freed}
  /\ LET p == Append(browser_dir, sel.name) IN
     CASE sel = UpEntry -> browser_up
       [] sel # UpEntry /\ sel.type # "line" /\ p \in DOMAIN Paths
            /\ Paths[p] \in {"dir", "playlist"} -> browser_load(p, browser_dir, {}, show_hidden)
       [] OTHER -> UNCHANGED <<list, browser_dir, shown, sel>>
  /\ UNCHANGED <<access, show_hidden, events>>

Up == browser_up /\ UNCHANGED <<access, show_hidden, events>>

cmd_cd(p) ==
  /\ access[p] = "ok" /\ Paths[p] = "dir"
  /\ browser_load(p, browser_dir, {}, show_hidden)
  /\ UNCHANGED <<access, show_hidden, events>>

(* browser_reload keeps the selection by its name. *)
browser_reload(hidden) ==
  /\ sel # Freed
  /\ browser_load(browser_dir, browser_dir, {sel}, hidden)
  /\ show_hidden' = hidden
  /\ UNCHANGED <<access, events>>
toggle_show_hidden == browser_reload(~show_hidden)

IndexOf(e) == CHOOSE i \in 1 .. Len(list) : list[i] = e

(* browser_delete of a file, with window_row_vanishes. *)
browser_delete ==
  LET p == Append(browser_dir, sel.name)
      i == IndexOf(sel)
  IN /\ sel.type = "file" /\ p \in DOMAIN Paths /\ access[p] = "ok"
     /\ access' = [access EXCEPT ![p] = "gone"]
     /\ list' = RemoveAt(list, i)
     /\ sel' = IF i < Len(list) THEN list[i + 1] ELSE IF i > 1 THEN list[i - 1] ELSE Nothing
     /\ UNCHANGED <<browser_dir, shown, show_hidden, events>>

-----------------------------------------------------------------------------
(* search.c.  advance to the next entry, over the end if wrap_search is    *)
(* set; 0 is none.                                                         *)
advance(i, forward, wrap) ==
  LET n == IF forward THEN i + 1 ELSE i - 1
  IN IF n \in 1 .. Len(list) THEN n
     ELSE IF ~wrap THEN 0 ELSE IF forward THEN 1 ELSE Len(list)

(* do_u_search visits entries until one matches or it is back where it     *)
(* started.                                                                *)
RECURSIVE Searched(_, _, _, _, _)
Searched(i, start, matches, forward, wrap) ==
  IF i \in matches THEN i
  ELSE LET n == advance(i, forward, wrap)
       IN IF n \in {0, start} THEN 0 ELSE Searched(n, start, matches, forward, wrap)

Fault_SearchFromHead(i, matches, forward, wrap, skip_current) ==
  LET start == IF skip_current THEN advance(i, forward, wrap) ELSE i
  IN IF start = 0 THEN 0 ELSE Searched(start, i, matches, forward, wrap)
do_search(i, matches, forward, wrap, skip_current) ==
  LET start == IF skip_current THEN advance(i, forward, wrap) ELSE i
  IN IF start = 0 THEN 0 ELSE Searched(start, start, matches, forward, wrap)

(* The matching entries have a name that contains the text. *)
SearchNext(text, forward, wrap, skip) ==
  /\ list # <<>> /\ sel # Freed
  /\ LET found == do_search(IndexOf(sel), {i \in 1 .. Len(list) : list[i].name = text},
                            forward, wrap, skip)
     IN found # 0 /\ sel' = list[found]
  /\ UNCHANGED <<access, browser_dir, shown, list, show_hidden, events>>

SelectRow(i) ==
  /\ i \in 1 .. Len(list) /\ sel # Freed /\ sel' = list[i]
  /\ UNCHANGED <<access, browser_dir, shown, list, show_hidden, events>>

(* Others remove a path with all below it, or change who may read it. *)
FileSystem(p, how) ==
  /\ events < MaxEvents /\ p # <<>> /\ access[p] \notin {"gone", how}
  /\ access' = [q \in DOMAIN Paths |->
                  IF q = p \/ (how = "gone" /\ Len(q) > Len(p) /\ SubSeq(q, 1, Len(p)) = p) THEN how
                  ELSE access[q]]
  /\ events' = events + 1
  /\ UNCHANGED <<browser_dir, shown, list, sel, show_hidden>>

BrowserInit ==
  /\ access = [p \in DOMAIN Paths |-> "ok"]
  /\ browser_dir = <<>> /\ shown = <<>> /\ show_hidden = FALSE /\ events = 0
  /\ list = DirEntries(<<>>, FALSE) /\ sel = First(list)

BrowserNext ==
  \/ browser_enter \/ Up \/ browser_reload(show_hidden) \/ browser_delete \/ toggle_show_hidden
  \/ \E p \in DOMAIN Paths : cmd_cd(p) \/ \E how \in {"gone", "unreadable", "closed", "ok"} : FileSystem(p, how)
  \/ \E i \in 1 .. Cardinality(DOMAIN Paths) : SelectRow(i)
  \/ \E text \in {0, 1, 2}, forward, wrap, skip \in BOOLEAN : SearchNext(text, forward, wrap, skip)

-----------------------------------------------------------------------------
(* The selection is an entry of the list that is shown, however often the  *)
(* list was read again while files came and went, and the names in it are  *)
(* looked up in the directory they were read from.  Two failures break     *)
(* this until the next directory is opened: a directory that can be read   *)
(* but not entered replaces the list before chdir fails, and a parent that *)
(* is gone stays browser_dir if its own parent cannot be read.             *)
BrowserSound ==
  sel # Freed =>
    /\ sel \in ToSet(list) \/ (list = <<>> /\ sel = Nothing)
    /\ shown = browser_dir \/ access[browser_dir] = "gone"

(* A search finds an entry exactly when one matches (behind the selected   *)
(* one, unless it may wrap), and then the nearest one, for every list,     *)
(* direction and start: do_u_search neither stops too early at its start   *)
(* nor runs around the list for ever.                                      *)
Distance(i, j, forward, skip) ==
  LET d == (IF forward THEN j - i ELSE i - j) % Len(list)
  IN IF skip /\ d = 0 THEN Len(list) ELSE d
SearchNearest ==
  \A i \in 1 .. Len(list), matches \in SUBSET (1 .. Len(list)), forward, wrap, skip \in BOOLEAN :
    LET found == do_search(i, matches, forward, wrap, skip)
        ahead == {j \in matches : \/ wrap \/ (~skip /\ j = i)
                                 \/ (forward /\ j > i) \/ (~forward /\ j < i)}
    IN IF ahead = {} THEN found = 0
       ELSE found \in ahead /\ \A j \in ahead : Distance(i, found, forward, skip) <= Distance(i, j, forward, skip)
=============================================================================
