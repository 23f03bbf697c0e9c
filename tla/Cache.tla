-------------------------------- MODULE Cache -------------------------------
(***************************************************************************)
(* The track cache (cache.c), the reference counted track objects          *)
(* (track_info.c) and the job that refreshes the cache while the main      *)
(* thread goes on using it (job.c).                                        *)
(*                                                                         *)
(* A track_info is a number; infos[n] has its file, its mtime, whether its *)
(* duration is unknown, its count of references and its link "next".  The  *)
(* hash table is one chain.  cache_mutex is held by the worker for all of  *)
(* a refresh but the moments in which it yields; the main thread's steps   *)
(* on the cache happen there or between the worker's steps.                *)
(***************************************************************************)
EXTENDS Integers, FiniteSets, Sequences, SequencesExt, Selection

CONSTANTS
  Files,       \* local files
  Streams,     \* http urls, which have no mtime
  MaxInfos,    \* bound: track_infos of one life of the program
  MaxTime,     \* bound: the latest mtime
  MaxJobs,     \* bound: jobs listed
  MaxCommands  \* bound: commands, starts and changes of files

ASSUME TimeAssumption == MaxTime \in Nat

VARIABLES
  infos,       \* every track_info of this life of the program
  table,       \* hash_table: newest entry first
  disk,        \* the mtime of each file; 0: there is none
  skip,        \* the option skip_track_info
  jobs,        \* worker_job_head, cur_job first
  snap,        \* cache_refresh: the entries still to visit; {0} when not running
  out,         \* cache_refresh: the entries visited that are kept for the result
  results,     \* job_result_head
  lib,         \* the track_info of each file in the library; 0: not there
  held,        \* track_infos in playlists and queue
  playing,     \* player_info.ti; 0: none
  stored,      \* cur_track_ti, the library's stored current track; 0: none
  debt,        \* history: the track resume_load gave up a reference of; 0: none
  saved,       \* the resume file: file and lib_file
  image,       \* the cache file: what was saved of each entry
  left         \* commands and changes of files the model still allows

work  == <<jobs, snap, out, results>>
users == <<lib, held, playing, stored, debt>>
cvars == <<infos, table, disk, skip, work, users, image, saved, left>>

Names == Files \cup Streams
Idle  == {0}
NoFile == "none"
NoResume == [file |-> NoFile, lib_file |-> NoFile]

CacheInit ==
  /\ infos = <<>> /\ table = <<>> /\ skip \in BOOLEAN
  /\ disk = [f \in Files |-> 1]
  /\ jobs = <<>> /\ snap = Idle /\ out = {} /\ results = <<>>
  /\ lib = [f \in Names |-> 0] /\ held = {} /\ playing = 0
  /\ stored = 0 /\ debt = 0 /\ saved = NoResume
  /\ image = <<>> /\ left = MaxCommands

-----------------------------------------------------------------------------
(* Track objects and the table, as operators on c = [infos, table]. *)

Here == [infos |-> infos, table |-> table]
Put(c) == infos' = c.infos /\ table' = c.table
Is(ti, c) == c.infos[ti]
Room(n) == Len(infos) + n <= MaxInfos

track_info_new(c, file, mtime, zero) ==
  [c EXCEPT !.infos = Append(@, [file |-> file, mtime |-> mtime, zero |-> zero,
                                 refs |-> 1, next |-> 0])]
Counted(c, tis, n) ==
  [c EXCEPT !.infos = [t \in DOMAIN c.infos |->
     IF t \in tis THEN [c.infos[t] EXCEPT !.refs = @ + n] ELSE c.infos[t]]]
track_info_ref(c, ti)   == Counted(c, {ti}, 1)
track_info_unref(c, ti) == Counted(c, {ti}, -1)
track_info_unique_ref(c, ti) == c.infos[ti].refs = 1

add_ti(c, ti) == [c EXCEPT !.table = <<ti>> \o @]

lookup_cache_entry(c, file) ==
  LET found == {i \in DOMAIN c.table : c.infos[c.table[i]].file = file}
  IN IF found = {} THEN 0 ELSE c.table[Min(found)]

(* Fault_* definitions are faulty variants of the definition that follows. *)
Fault_RemoveAlwaysUnrefs(c, ti) ==
  track_info_unref([c EXCEPT !.table = Select(@, ToSet(@) \ {ti})], ti)

do_cache_remove_ti(c, ti) ==
  IF ti \notin ToSet(c.table) THEN c
  ELSE track_info_unref([c EXCEPT !.table = Select(@, ToSet(@) \ {ti})], ti)

(* ip_get_ti: what opening the file and reading its comments yields: the   *)
(* new object (now the last), or nothing and c as it was.                  *)
ip_get_ti(c, file) ==
  IF file \in Streams THEN {c, track_info_new(c, file, -1, TRUE)}
  ELSE IF disk[file] = 0 THEN {c}
  ELSE {track_info_new(c, file, disk[file], zero) : zero \in BOOLEAN} \cup {c}

Got(c, d) == IF Len(d.infos) > Len(c.infos) THEN Len(d.infos) ELSE 0

(* cache_get_ti: pairs of the cache b after the call and the ti returned. *)
cache_get_ti(b, file, force) ==
  LET ti == lookup_cache_entry(b, file)
      stale == ti # 0 /\ (force \/ (~skip /\ b.infos[ti].zero /\ file \notin Streams))
      c == IF stale THEN do_cache_remove_ti(b, ti) ELSE b
      new == IF skip /\ ~stale /\ ~force THEN {track_info_new(c, file, 0, TRUE)}
             ELSE ip_get_ti(c, file)
  IN IF ti # 0 /\ ~stale THEN {<<track_info_ref(c, ti), ti>>}
     ELSE {IF Got(c, d) = 0 THEN <<c, 0>>
           ELSE <<track_info_ref(add_ti(d, Got(c, d)), Got(c, d)), Got(c, d)>> : d \in new}

-----------------------------------------------------------------------------
(* The worker. *)

push(r) == results' = Append(results, r)

W_add ==
  /\ jobs # <<>> /\ jobs[1].kind = "add"
  /\ Room(1)
  /\ \E got \in cache_get_ti(Here, jobs[1].file, jobs[1].force) :
       /\ Put(got[1])
       /\ IF got[2] = 0 THEN UNCHANGED results
          ELSE push([kind |-> "add", tis |-> {got[2]}])
  /\ jobs' = Tail(jobs)
  /\ UNCHANGED <<disk, skip, snap, out, users, image, saved, left>>

(* do_update_job: unchanged tracks are let go of. *)
Dirty(ti) == LET i == infos[ti] IN
  i.file \in Streams \/ disk[i.file] = 0 \/ i.mtime # disk[i.file] \/ i.zero

W_update ==
  /\ jobs # <<>> /\ jobs[1].kind = "update"
  /\ LET tis == jobs[1].tis
         dirty == {ti \in tis : Dirty(ti)}
     IN /\ Put(Counted(Here, tis \ dirty, -1))
        /\ push([kind |-> "update", tis |-> dirty,
                 gone |-> {ti \in dirty : infos[ti].file \in Files /\ disk[infos[ti].file] = 0}])
  /\ jobs' = Tail(jobs)
  /\ UNCHANGED <<disk, skip, snap, out, users, image, saved, left>>

(* cache_refresh takes references to all entries, ... *)
get_track_infos ==
  /\ jobs # <<>> /\ jobs[1].kind = "refresh" /\ snap = Idle
  /\ Put(Counted(Here, ToSet(table), 1))
  /\ snap' = ToSet(table)
  /\ out' = {}
  /\ UNCHANGED <<disk, skip, jobs, results, users, image, saved, left>>

(* The fate of one entry: the cache afterwards, and whether the entry is   *)
(* kept in the array, its next being the new object or none.               *)
LetGo(c, ti)       == <<track_info_unref(c, ti), FALSE>>
Keep(c, ti, next)  == <<[c EXCEPT !.infos[ti].next = next], TRUE>>
Deleted(c, ti)     == IF track_info_unique_ref(c, ti) THEN LetGo(c, ti) ELSE Keep(c, ti, 0)
Changed(c, ti) ==
  {LET new == Got(c, d) IN
     IF new = 0 THEN Deleted(c, ti)
     ELSE IF track_info_unique_ref(d, ti) THEN LetGo(add_ti(d, new), ti)
     ELSE Keep(track_info_ref(add_ti(d, new), new), ti, new) : d \in ip_get_ti(c, c.infos[ti].file)}

Refreshed(ti, force) ==
  LET file == infos[ti].file
      gone == file \in Files /\ disk[file] = 0
      same == file \in Files /\ ~gone /\ ~force /\ infos[ti].mtime = disk[file]
      c == do_cache_remove_ti(Here, ti)
  IN IF same THEN {LetGo(Here, ti)}
     ELSE IF gone THEN {Deleted(c, ti)}
     ELSE IF force /\ track_info_unique_ref(c, ti) THEN {LetGo(c, ti)}
     ELSE Changed(c, ti)

(* ... then yields the lock before it deals with each. *)
W_refresh ==
  /\ jobs # <<>> /\ jobs[1].kind = "refresh"
  /\ snap # Idle /\ Room(1)
  /\ \E ti \in snap : \E fate \in Refreshed(ti, jobs[1].force) :
       /\ Put(fate[1])
       /\ out' = IF fate[2] THEN out \cup {ti} ELSE out
       /\ snap' = snap \ {ti}
  /\ UNCHANGED <<disk, skip, jobs, results, users, image, saved, left>>

W_refreshed ==
  /\ jobs # <<>> /\ jobs[1].kind = "refresh"
  /\ snap = {}
  /\ push([kind |-> "refresh", tis |-> out])
  /\ snap' = Idle /\ out' = {} /\ jobs' = Tail(jobs)
  /\ UNCHANGED <<infos, table, disk, skip, users, image, saved, left>>

-----------------------------------------------------------------------------
(* The main thread. *)

MUnchanged == UNCHANGED <<disk, skip, snap, out, image, saved>>
Command == left > 0 /\ left' = left - 1

Schedule(j) == Len(jobs) < MaxJobs /\ jobs' = Append(jobs, j)

cmus_add(file, force) ==
  /\ Command
  /\ Schedule([kind |-> "add", file |-> file, force |-> force])
  /\ MUnchanged /\ UNCHANGED <<infos, table, results, users>>

(* cmus_update_lib: update_cb takes a reference to every track. *)
cmus_update_lib ==
  LET tis == {lib[f] : f \in Names} \ {0}
  IN /\ Command
     /\ Schedule([kind |-> "update", tis |-> tis])
     /\ Put(Counted(Here, tis, 1))
     /\ MUnchanged /\ UNCHANGED <<results, users>>

cmus_update_cache(force) ==
  /\ Command
  /\ Schedule([kind |-> "refresh", force |-> force])
  /\ MUnchanged /\ UNCHANGED <<infos, table, results, users>>

(* player_set_file: the player owns the reference it is given. *)
Play(c, ti) ==
  /\ Put(IF playing = 0 THEN c ELSE track_info_unref(c, playing))
  /\ playing' = ti

cmus_play_file(file) ==
  /\ Command
  /\ Room(1)
  /\ \E got \in cache_get_ti(Here, file, FALSE) :
       IF got[2] = 0 THEN Put(got[1]) /\ UNCHANGED playing ELSE Play(got[1], got[2])
  /\ MUnchanged /\ UNCHANGED <<jobs, results, lib, held, stored, debt>>

(* A library track is queued or added to a playlist; removed from there. *)
Hold(ti) ==
  /\ Command
  /\ ti # 0 /\ ti \notin held
  /\ held' = held \cup {ti}
  /\ Put(track_info_ref(Here, ti))
  /\ MUnchanged /\ UNCHANGED <<jobs, results, lib, playing, stored, debt>>

Release(ti) ==
  /\ Command
  /\ held' = held \ {ti}
  /\ Put(track_info_unref(Here, ti))
  /\ MUnchanged /\ UNCHANGED <<jobs, results, lib, playing, stored, debt>>

(* lib_store_cur_track, before the library is filtered. *)
lib_store_cur_track(c, old, ti) ==
  track_info_ref(IF old = 0 THEN c ELSE track_info_unref(c, old), ti)

Store(ti) ==
  /\ Command
  /\ ti # 0 /\ ti # stored
  /\ Put(lib_store_cur_track(Here, stored, ti)) /\ stored' = ti
  /\ MUnchanged /\ UNCHANGED <<jobs, results, lib, held, playing, debt>>

(* The results, a track_info at a time. *)
AtHead(kind, ti) == results # <<>> /\ results[1].kind = kind /\ ti \in results[1].tis
Done(ti) == results' = [results EXCEPT ![1].tis = @ \ {ti}]

M_result_done ==
  /\ results # <<>> /\ results[1].tis = {}
  /\ results' = Tail(results)
  /\ MUnchanged /\ UNCHANGED <<left, infos, table, jobs, users>>

(* lib_add_track; nothing when the file is in the library.  *)
Added(c, l, ti) ==
  IF l[Is(ti, c).file] # 0 THEN <<c, l>>
  ELSE <<track_info_ref(c, ti), [l EXCEPT ![Is(ti, c).file] = ti]>>

(* lib_remove, which looks for this very object. *)
Has(ti) == lib[infos[ti].file] = ti
Taken(c, ti) ==
  IF Has(ti) THEN <<track_info_unref(c, ti), [lib EXCEPT ![Is(ti, c).file] = 0]>>
  ELSE <<c, lib>>

job_handle_add_result(ti) ==
  /\ AtHead("add", ti)
  /\ LET a == Added(Here, lib, ti)
     IN Put(track_info_unref(a[1], ti)) /\ lib' = a[2]
  /\ Done(ti)
  /\ MUnchanged /\ UNCHANGED <<left, jobs, held, playing, stored, debt>>

(* Tracks of files that changed are added anew by a job. *)
job_handle_update_result(ti) ==
  /\ AtHead("update", ti)
  /\ LET t == Taken(Here, ti)
     IN Put(track_info_unref(do_cache_remove_ti(t[1], ti), ti)) /\ lib' = t[2]
  /\ IF ti \in results[1].gone THEN UNCHANGED jobs
     ELSE Schedule([kind |-> "add", file |-> infos[ti].file, force |-> infos[ti].zero])
  /\ Done(ti)
  /\ MUnchanged /\ UNCHANGED <<left, held, playing, stored, debt>>

(* Library, playlists, queue and player exchange the old for the new. *)
Exchange(old) ==
  LET new == infos[old].next
      t  == Taken(Here, old)
      a  == IF Has(old) /\ new # 0 THEN Added(t[1], t[2], new) ELSE t
      in == old \in held
      c1 == IF in THEN track_info_unref(a[1], old) ELSE a[1]
      c2 == IF in /\ new # 0 /\ new \notin held THEN track_info_ref(c1, new) ELSE c1
      p  == playing = old /\ new # 0
      c3 == IF p THEN track_info_ref(track_info_unref(c2, old), new) ELSE c2
      c4 == track_info_unref(c3, old)
  IN /\ Put(IF new # 0 THEN track_info_unref(c4, new) ELSE c4)
     /\ lib' = a[2]
     /\ held' = (held \ {old}) \cup (IF in /\ new # 0 THEN {new} ELSE {})
     /\ playing' = IF p THEN new ELSE playing

job_handle_update_cache_result(ti) ==
  /\ AtHead("refresh", ti)
  /\ Exchange(ti)
  /\ Done(ti)
  /\ MUnchanged /\ UNCHANGED <<left, jobs, stored, debt>>

(* cmus_exit and the next start: the cache is saved to a temporary file    *)
(* that replaces the old one.  The results of the writes are not looked    *)
(* at, so it may end early.                                                *)
write_ti(ti) == [file |-> infos[ti].file, mtime |-> infos[ti].mtime, zero |-> infos[ti].zero]

cache_close ==
  \E n \in 0 .. Len(table) :
    image' = SubSeq([i \in 1 .. Len(table) |-> write_ti(table[i])], 1, n)

(* resume_exit: the current track of the library may be any, or there is   *)
(* none and the stored one is looked for.                                  *)
resume_exit ==
  \E cur \in ({lib[f] : f \in Names} \ {0}) \cup
            (IF stored # 0 /\ lib[infos[stored].file] # 0 THEN {stored} ELSE {0}) :
    saved' = [file |-> IF playing = 0 THEN NoFile ELSE infos[playing].file,
              lib_file |-> IF cur = 0 THEN NoFile ELSE infos[cur].file]

(* read_cache stops at the first invalid entry and keeps those before. *)
read_cache(entries) ==
  [infos |-> [i \in 1 .. Len(entries) |->
                [file |-> entries[i].file, mtime |-> entries[i].mtime, zero |-> entries[i].zero,
                 refs |-> 1, next |-> 0]],
   table |-> [i \in 1 .. Len(entries) |-> Len(entries) + 1 - i]]

(* resume_load: the track lib_file names is added to the library unless    *)
(* lib_add_filter excludes it, and becomes its current and stored track;   *)
(* the reference of cache_get_ti is given up twice.  Then the player gets  *)
(* its file.                                                               *)
Empty == [f \in Names |-> 0]
ResumeLib(c) ==
  IF saved'.lib_file = NoFile THEN {[c |-> c, lib |-> Empty, stored |-> 0]}
  ELSE UNION {LET ti == got[2]
                  d == got[1]
                  twice(x) == track_info_unref(lib_store_cur_track(track_info_unref(x, ti), 0, ti), ti)
                  a == Added(d, Empty, ti)
              IN IF ti = 0 THEN {[c |-> d, lib |-> Empty, stored |-> 0]}
                 ELSE {[c |-> twice(a[1]), lib |-> a[2], stored |-> ti],
                       [c |-> twice(d), lib |-> Empty, stored |-> ti]}
              : got \in cache_get_ti(c, saved'.lib_file, FALSE)}

resume_load(c) ==
  \E l \in ResumeLib(c) :
    /\ lib' = l.lib /\ stored' = l.stored /\ debt' = l.stored
    /\ IF saved'.file = NoFile THEN Put(l.c) /\ playing' = 0
       ELSE \E got \in cache_get_ti(l.c, saved'.file, FALSE) : Put(got[1]) /\ playing' = got[2]
    /\ Len(infos') <= MaxInfos

(* Both happen only with the option resume. *)
NoResumeLoad(c) == Put(c) /\ lib' = Empty /\ stored' = 0 /\ debt' = 0 /\ playing' = 0

Start ==
  /\ LET c == read_cache(image') IN resume_load(c) \/ NoResumeLoad(c)
  /\ jobs' = <<>> /\ snap' = Idle /\ out' = {} /\ results' = <<>> /\ held' = {}
  /\ UNCHANGED <<disk, skip>>

Exit  == Command /\ snap = Idle /\ cache_close /\ (resume_exit \/ UNCHANGED saved) /\ Start
Crash == Command /\ UNCHANGED <<image, saved>> /\ Start

Touch(f, t) ==
  /\ Command
  /\ disk[f] # t
  /\ disk' = [disk EXCEPT ![f] = t]
  /\ UNCHANGED <<infos, table, skip, work, users, image, saved>>

CacheNext ==
  \/ W_add \/ W_update \/ get_track_infos \/ W_refresh \/ W_refreshed
  \/ \E f \in Names : cmus_play_file(f) \/ (\E force \in BOOLEAN : cmus_add(f, force))
  \/ cmus_update_lib \/ (\E force \in BOOLEAN : cmus_update_cache(force))
  \/ (\E f \in Names : Hold(lib[f]) \/ Store(lib[f])) \/ (\E ti \in held : Release(ti))
  \/ (\E ti \in 1 .. Len(infos) : \/ job_handle_add_result(ti) \/ job_handle_update_result(ti)
                                  \/ job_handle_update_cache_result(ti))
  \/ M_result_done
  \/ Exit \/ Crash
  \/ \E f \in Files, t \in 0 .. MaxTime : Touch(f, t)

CacheSpec == CacheInit /\ [][CacheNext]_cvars

-----------------------------------------------------------------------------
B(p) == IF p THEN 1 ELSE 0

(* An old object whose link "next" will be read. *)
Waits(old) == old \in out \/ \E i \in DOMAIN results : results[i].kind = "refresh" /\ old \in results[i].tis

(* The references to ti, wherever they are kept: in the table, library,    *)
(* playlists, queue and player, as the stored current track, in jobs,      *)
(* results and the refresh under way, and as the new object of an old one. *)
Owners(ti) ==
  Cardinality({i \in DOMAIN table : table[i] = ti})
    + B(lib[infos[ti].file] = ti) + B(ti \in held) + B(playing = ti) + B(stored = ti)
    + B(ti \in snap) + B(ti \in out)
    + Cardinality({i \in DOMAIN jobs : jobs[i].kind = "update" /\ ti \in jobs[i].tis})
    + Cardinality({i \in DOMAIN results : ti \in results[i].tis})
    + Cardinality({old \in DOMAIN infos : infos[old].next = ti /\ Waits(old)})

(* Every track object has exactly as many references as owners: none is    *)
(* freed while the table, a list, the player, a job or a result still      *)
(* points to it, and none is leaked, although a refresh gives up the lock  *)
(* between its entries and the link "next" changes its meaning.  The track *)
(* that resume_load stores has one less: options.c:1786 gives up a         *)
(* reference that options.c:1784 gave up before.                           *)
TrackRefsBalanced ==
  \A ti \in 1 .. Len(infos) : infos[ti].refs + B(debt = ti) = Owners(ti)

=============================================================================
