-------------------------------- MODULE Jobs --------------------------------
(***************************************************************************)
(* Background jobs: the worker thread and its job list (worker.c), what    *)
(* the jobs do and the results they hand to the main thread through a list *)
(* and a pipe (job.c), and the commands that add, clear and delete.        *)
(*                                                                         *)
(* worker_mutex is held for whole critical sections, each of them a step;  *)
(* worker_cond is one condition variable for both threads.  A file that a  *)
(* job finds is <<job, place, n>>: the n-th that job number `job' finds,   *)
(* coming from the entry at `place' of what the job adds.  A cue sheet or  *)
(* a CD is one entry with several tracks, all of them at its place.        *)
(* Places are the n of the entry's first track, negative for a job that    *)
(* goes through the entries backwards: they are ordered like the entries.  *)
(***************************************************************************)
EXTENDS Integers, FiniteSets, Sequences, SequencesExt, Selection

CONSTANTS
  Playlists,     \* the playlists there are at the start
  Sorted,        \* library and playlists that insert by sort keys
  Used,          \* bound: the playlists that commands work on
  TI_CAP,        \* tracks per result of an add job
  MaxJobs,       \* bound: jobs the user schedules
  MaxFiles,      \* bound: files an add job finds
  Commands       \* what the user does

ASSUME CapAssumption == TI_CAP \in Nat \ {0} /\ MaxJobs \in Nat /\ MaxFiles \in Nat
ASSUME CommandsAssumption ==
  /\ Used \subseteq Playlists
  /\ Commands \subseteq {"add", "prepend", "update", "clear", "delete", "save", "quit"}
ASSUME PlaylistsAssumption == {"lib", "queue", "none"} \cap Playlists = {}
ASSUME SortedAssumption == "lib" \in Sorted /\ Sorted \subseteq {"lib"} \cup Playlists

VARIABLES
  state,      \* enum worker_state
  jobs,       \* worker_job_head
  cur,        \* cur_job
  cancel,     \* cancel_current
  waiting,    \* the threads asleep on worker_cond
  pcW,        \* where the worker is
  sheet,      \* the place of the cue sheet or CD whose tracks it adds, else 0
  buf,        \* ti_buffer
  notify,     \* the worker has listed a result and not yet written to the pipe
  results,    \* job_result_head
  pipe,       \* job_fd is readable
  pcM, op,    \* where the main thread is, and the command it carries out
  coll,       \* the contents of the queue and of playlists not sorted
  bags,       \* the contents of the sorted ones, whose order is not the jobs'
  pls,        \* pl_head
  freed,      \* playlists whose memory was given back
  ids,        \* history: jobs scheduled so far
  found,      \* history: files found so far
  delivered,  \* history: files that reached their collection
  saved       \* history: this last step was a save that overlooked a job

worker == <<state, jobs, cur, cancel, waiting>>
outbox == <<buf, notify, results, pipe>>
main   == <<pcM, op>>
lists  == <<coll, bags, pls, freed>>
ghosts == <<ids, found, delivered>>
vars   == <<worker, pcW, sheet, outbox, main, lists, ghosts, saved>>

NoJob ==
  [id |-> 0, kind |-> "none", target |-> "none", files |-> {}, walk |-> FALSE]
NoOp  == [name |-> "none", target |-> "none"]
Targets == {"lib", "queue"} \cup Playlists

Init ==
  /\ state = "PAUSED" /\ jobs = <<>> /\ cur = NoJob /\ cancel = FALSE /\ waiting = {}
  /\ pcW = "top" /\ sheet = 0 /\ buf = <<>> /\ notify = FALSE /\ results = <<>> /\ pipe = FALSE
  /\ pcM = "loop" /\ op = NoOp
  /\ coll = [t \in Targets \ Sorted |-> <<>>] /\ bags = [t \in Sorted |-> {}]
  /\ pls = Playlists /\ freed = {}
  /\ ids = 0 /\ found = {} /\ delivered = {} /\ saved = FALSE

-----------------------------------------------------------------------------
(* worker_cond: a signal wakes one of the threads that wait. *)
Signalled(w) == IF w = {} THEN {{}} ELSE {w \ {t} : t \in w}

(* Fault_* definitions are faulty variants of the definition that follows. *)
Fault_AddUnsignalled(js) == jobs' = jobs \o js /\ UNCHANGED waiting

(* worker_add_job: js follow the jobs already listed. *)
worker_add_jobs(js) ==
  /\ jobs' = jobs \o js
  /\ waiting' \in Signalled(waiting)

(* walk: the job adds a directory or a playlist and goes through its       *)
(* entries; any other adds a file or a CD, which is one entry.             *)
Job(id, kind, target, files, walk) ==
  [id |-> id, kind |-> kind, target |-> target, files |-> files, walk |-> walk]

(* Type and, for playlists, the opaque pointer: what the patterns of       *)
(* worker_remove_jobs_by_type and pl_match_add_job look at.                *)
Matches(j, o) ==
  CASE o.name = "quit" -> TRUE
    [] o.target = "lib" -> j.target = "lib"
    [] o.target = "queue" -> j.target = "queue"
    [] OTHER -> j.kind \in {"add", "prepend"} /\ j.target = o.target

-----------------------------------------------------------------------------
(* The worker thread. *)

WUnchanged == UNCHANGED <<main, lists, delivered>> /\ saved' = FALSE
NoFile == UNCHANGED <<sheet, found>>

W_take ==
  /\ pcW = "top" /\ ~notify
  /\ state = "RUNNING" /\ jobs # <<>>
  /\ cur' = Head(jobs)
  /\ jobs' = Tail(jobs)
  /\ pcW' = "run"
  /\ WUnchanged /\ UNCHANGED <<state, cancel, waiting, outbox, ids>> /\ NoFile

W_wait ==
  /\ pcW = "top" /\ ~notify
  /\ state = "PAUSED" \/ (state = "RUNNING" /\ jobs = <<>>)
  /\ waiting' = waiting \cup {"worker"}
  /\ pcW' = "wait"
  /\ WUnchanged /\ UNCHANGED <<state, jobs, cur, cancel, outbox, ids>> /\ NoFile

W_wake ==
  /\ pcW = "wait"
  /\ "worker" \notin waiting
  /\ pcW' = "top"
  /\ WUnchanged /\ UNCHANGED <<worker, outbox, ids>> /\ NoFile

W_stop ==
  /\ pcW = "top" /\ ~notify
  /\ state = "STOPPED"
  /\ pcW' = "done"
  /\ WUnchanged /\ UNCHANGED <<worker, outbox, ids>> /\ NoFile

(* job_push_result: the result is listed, then the pipe is written. *)
job_push_result(r) == results' = Append(results, r) /\ notify' = TRUE

W_notify ==
  /\ notify
  /\ pipe' = TRUE
  /\ notify' = FALSE
  /\ WUnchanged /\ UNCHANGED <<worker, pcW, buf, results, ids>> /\ NoFile

Result(kind, target, tis) == [kind |-> kind, target |-> target, tis |-> tis]

flush_ti_buffer == job_push_result(Result(cur.kind, cur.target, buf))

Mine == {f \in found : f[1] = cur.id}
Number == Cardinality(Mine) + 1

Fault_FileForward(place) == <<cur.id, place, Number>>

(* A job that prepends goes through its entries backwards.                 *)
File(place) == <<cur.id, IF cur.kind = "prepend" THEN -place ELSE place, Number>>

Fault_FlushDropsFile(f) ==
  IF Len(buf) = TI_CAP
  THEN flush_ti_buffer /\ buf' = <<>>
  ELSE buf' = Append(buf, f) /\ UNCHANGED <<notify, results>>

Fault_LateFlush(f) ==
  IF Len(buf) > TI_CAP
  THEN flush_ti_buffer /\ buf' = <<f>>
  ELSE buf' = Append(buf, f) /\ UNCHANGED <<notify, results>>

add_ti(f) ==
  IF Len(buf) = TI_CAP
  THEN flush_ti_buffer /\ buf' = <<f>>
  ELSE buf' = Append(buf, f) /\ UNCHANGED <<notify, results>>

(* One file, the first or a later one of its entry.  Files the cache       *)
(* cannot read leave no trace.  Which entries have more is arbitrary.      *)
AddFile(place) ==
  /\ pcW = "run" /\ ~notify
  /\ cur.kind \in {"add", "prepend"}
  /\ Number <= MaxFiles
  /\ add_ti(File(place))
  /\ found' = found \cup {File(place)}
  /\ sheet' \in IF Number < MaxFiles THEN {0, place} ELSE {0}
  /\ WUnchanged /\ UNCHANGED <<worker, pcW, pipe, ids>>

(* add_file, for the next directory entry or line unless the job is being  *)
(* cancelled; for a single file or CD without asking.                      *)
W_add_file ==
  /\ sheet = 0
  /\ IF cur.walk THEN ~cancel ELSE Mine = {}
  /\ AddFile(Number)

(* The next track in the loops of add_file_cue and add_cdda, which go      *)
(* forward in every job and do not look at cancel_current.                 *)
W_add_track ==
  /\ sheet # 0
  /\ AddFile(sheet)

(* do_add_job ends at the last file, an earlier error, or a cancellation. *)
W_add_end ==
  /\ pcW = "run" /\ ~notify /\ sheet = 0
  /\ cur.kind \in {"add", "prepend"}
  /\ pcW' = "free"
  /\ IF buf # <<>>
     THEN flush_ti_buffer /\ buf' = <<>>
     ELSE UNCHANGED <<buf, notify, results>>
  /\ WUnchanged /\ UNCHANGED <<worker, pipe, ids>> /\ NoFile

(* do_update_job: of the library's tracks some are unchanged, some have    *)
(* disappeared, at most one (a bound of the model) has a new mtime.        *)
W_update ==
  /\ pcW = "run" /\ ~notify
  /\ cur.kind = "update"
  /\ \E gone \in SUBSET cur.files, changed \in SUBSET cur.files :
       /\ gone \cap changed = {} /\ Cardinality(changed) <= 1
       /\ job_push_result(Result("update", "lib", <<gone, changed>>))
  /\ pcW' = "free"
  /\ WUnchanged /\ UNCHANGED <<worker, buf, pipe, ids>> /\ NoFile

(* do_pl_delete_job does nothing. *)
W_delete ==
  /\ pcW = "run" /\ ~notify
  /\ cur.kind = "delete"
  /\ pcW' = "free"
  /\ WUnchanged /\ UNCHANGED <<worker, outbox, ids>> /\ NoFile

Fault_CancelNotSignalled == cancel' = FALSE /\ UNCHANGED waiting

(* if (cancel_current): wake worker_remove_jobs_by_cb *)
EndCancel ==
  IF cancel
  THEN cancel' = FALSE /\ waiting' \in Signalled(waiting)
  ELSE UNCHANGED <<cancel, waiting>>

(* The free callback, which for a playlist's deletion pushes the result. *)
W_free ==
  /\ pcW = "free" /\ ~notify
  /\ IF cur.kind = "delete"
     THEN job_push_result(Result("delete", cur.target, <<>>))
     ELSE UNCHANGED <<notify, results>>
  /\ cur' = NoJob
  /\ EndCancel
  /\ pcW' = "top"
  /\ WUnchanged /\ UNCHANGED <<state, jobs, buf, pipe, ids>> /\ NoFile

Worker ==
  \/ W_take \/ W_wait \/ W_wake \/ W_stop \/ W_notify \/ W_add_file \/ W_add_track
  \/ W_add_end \/ W_update \/ W_delete \/ W_free

-----------------------------------------------------------------------------
(* The main thread. *)

MUnchanged == UNCHANGED <<pcW, sheet, buf, notify>> /\ saved' = FALSE

worker_start ==
  /\ pcM = "loop" /\ state = "PAUSED"
  /\ state' = "RUNNING"
  /\ waiting' \in Signalled(waiting)
  /\ MUnchanged /\ UNCHANGED <<jobs, cur, cancel, results, pipe, main, lists, ghosts>>

(* cmus_add, for the library, the queue (either end) or a playlist. *)
cmus_add(kind, target) ==
  /\ pcM = "loop"
  /\ kind \in Commands /\ ids < MaxJobs
  /\ kind = "prepend" => target = "queue"
  /\ target \in {"lib", "queue"} \cup pls
  /\ \E walk \in BOOLEAN : worker_add_jobs(<<Job(ids + 1, kind, target, {}, walk)>>)
  /\ ids' = ids + 1
  /\ MUnchanged
  /\ UNCHANGED <<state, cur, cancel, results, pipe, main, lists, found, delivered>>

cmus_update_lib ==
  /\ pcM = "loop"
  /\ "update" \in Commands /\ ids < MaxJobs
  /\ worker_add_jobs(<<Job(ids + 1, "update", "lib", bags["lib"], FALSE)>>)
  /\ ids' = ids + 1
  /\ MUnchanged
  /\ UNCHANGED <<state, cur, cancel, results, pipe, main, lists, found, delivered>>

Emptied(t) ==
  /\ coll' = IF t \in Sorted THEN coll ELSE [coll EXCEPT ![t] = <<>>]
  /\ bags' = IF t \in Sorted THEN [bags EXCEPT ![t] = {}] ELSE bags

(* view_clear and pl_clear_visible_pl (which empties the list first),      *)
(* pl_delete_selected_pl, job_exit: all begin with a removal of jobs.      *)
Begin(name, target) ==
  /\ pcM = "loop"
  /\ name \in Commands
  /\ op' = [name |-> name, target |-> target]
  /\ pcM' = "remove"
  /\ IF name = "clear" /\ target \in Playlists THEN Emptied(target)
     ELSE UNCHANGED <<coll, bags>>
  /\ pls' = IF name = "delete" THEN pls \ {target} ELSE pls
  /\ MUnchanged /\ UNCHANGED <<worker, results, pipe, freed, ghosts>>

Removed == Select(jobs, {j \in ToSet(jobs) : Matches(j, op)})
Kept    == Select(jobs, {j \in ToSet(jobs) : ~Matches(j, op)})
Deleted == Select(jobs, {j \in ToSet(jobs) : Matches(j, op) /\ j.kind = "delete"})

Fault_CurrentIgnored ==
  /\ pcM = "remove"
  /\ jobs' = Kept
  /\ pcM' = "removed"
  /\ UNCHANGED <<cancel, waiting, results, pipe>>
  /\ MUnchanged /\ UNCHANGED <<state, cur, op, lists, ghosts>>

(* worker_remove_jobs_by_cb.  The free callbacks of deletions push their   *)
(* results from here.                                                      *)
worker_remove_jobs_by_cb ==
  /\ pcM = "remove"
  /\ jobs' = Kept
  /\ results' = results \o [i \in 1 .. Len(Deleted) |->
                                Result("delete", Deleted[i].target, <<>>)]
  /\ pipe' = (pipe \/ Deleted # <<>>)
  /\ IF cur # NoJob /\ Matches(cur, op)
     THEN /\ cancel' = TRUE
          /\ waiting' = waiting \cup {"main"}
          /\ pcM' = "cancelling"
     ELSE pcM' = "removed" /\ UNCHANGED <<cancel, waiting>>
  /\ MUnchanged /\ UNCHANGED <<state, cur, op, lists, ghosts>>

(* while (cancel_current) pthread_cond_wait(...) *)
M_cancelled ==
  /\ pcM = "cancelling"
  /\ "main" \notin waiting
  /\ IF cancel
     THEN waiting' = waiting \cup {"main"} /\ UNCHANGED pcM
     ELSE pcM' = "removed" /\ UNCHANGED waiting
  /\ MUnchanged /\ UNCHANGED <<state, jobs, cur, cancel, results, pipe, op, lists, ghosts>>

Back == pcM' = "loop" /\ op' = NoOp

M_cleared ==
  /\ pcM = "removed" /\ op.name = "clear"
  /\ Back
  /\ IF op.target \in Playlists THEN UNCHANGED <<coll, bags>> ELSE Emptied(op.target)
  /\ MUnchanged /\ UNCHANGED <<worker, results, pipe, pls, freed, ghosts>>

Fault_DeleteAtOnce ==
  /\ pcM = "removed" /\ op.name = "delete"
  /\ Back
  /\ freed' = freed \cup {op.target}
  /\ MUnchanged /\ UNCHANGED <<worker, results, pipe, coll, bags, pls, ghosts>>

(* The playlist is freed by a job, behind all jobs that may refer to it. *)
M_deleted ==
  /\ pcM = "removed" /\ op.name = "delete"
  /\ Back
  /\ worker_add_jobs(<<Job(ids + 1, "delete", op.target, {}, FALSE)>>)
  /\ ids' = ids + 1
  /\ MUnchanged
  /\ UNCHANGED <<state, cur, cancel, results, pipe, lists, found, delivered>>

Fault_ExitUnsignalled ==
  /\ pcM = "removed" /\ op.name = "quit"
  /\ state' = "STOPPED"
  /\ pcM' = "join"
  /\ MUnchanged /\ UNCHANGED <<jobs, cur, cancel, waiting, results, pipe, op, lists, ghosts>>

worker_exit ==
  /\ pcM = "removed" /\ op.name = "quit"
  /\ state' = "STOPPED"
  /\ waiting' \in Signalled(waiting)
  /\ pcM' = "join"
  /\ MUnchanged /\ UNCHANGED <<jobs, cur, cancel, results, pipe, op, lists, ghosts>>

M_joined ==
  /\ pcM = "join" /\ pcW = "done"
  /\ pcM' = "done"
  /\ MUnchanged /\ UNCHANGED <<worker, results, pipe, op, lists, ghosts>>

(* worker_has_job_by_type.  Having found nothing in the list, it asks the  *)
(* list head instead of cur_job: the answer is arbitrary.                  *)
worker_has_job(target) ==
  IF \E i \in 1 .. Len(jobs) : jobs[i].target = target THEN {TRUE}
  ELSE IF cur # NoJob THEN BOOLEAN ELSE {FALSE}

view_save(target) ==
  /\ pcM = "loop"
  /\ "save" \in Commands
  /\ FALSE \in worker_has_job(target)
  /\ saved' = (cur.target = target)
  /\ UNCHANGED <<worker, pcW, sheet, outbox, main, lists, ghosts>>

(* job_handle: the pipe is cleared, then every listed result applied. *)
job_handle ==
  /\ pcM = "loop"
  /\ pipe
  /\ pipe' = FALSE
  /\ pcM' = "handle"
  /\ MUnchanged /\ UNCHANGED <<worker, results, op, lists, ghosts>>

(* Results go to the end of a list, or one by one to its front; into a     *)
(* sorted one each track is inserted where the sort keys put it.           *)
Applied(r) ==
  IF r.target \in Sorted THEN coll
  ELSE CASE r.kind = "add" -> [coll EXCEPT ![r.target] = @ \o r.tis]
         [] r.kind = "prepend" -> [coll EXCEPT ![r.target] = Reverse(r.tis) \o @]
         [] OTHER -> coll

Bagged(r) ==
  CASE r.kind = "add" /\ r.target \in Sorted ->
         [bags EXCEPT ![r.target] = @ \cup ToSet(r.tis)]
    [] r.kind = "update" -> [bags EXCEPT !["lib"] = @ \ (r.tis[1] \cup r.tis[2])]
    [] OTHER -> bags

(* A changed file is added anew, by a job of its own. *)
job_handle_result ==
  /\ pcM = "handle"
  /\ results # <<>>
  /\ LET r == Head(results)
         again == IF r.kind = "update" THEN Cardinality(r.tis[2]) ELSE 0
     IN /\ coll' = Applied(r) /\ bags' = Bagged(r)
        /\ freed' = IF r.kind = "delete" THEN freed \cup {r.target} ELSE freed
        /\ delivered' = IF r.kind \in {"add", "prepend"}
                        THEN delivered \cup ToSet(r.tis) ELSE delivered
        /\ IF again = 0 THEN UNCHANGED <<jobs, waiting>>
           ELSE worker_add_jobs(<<Job(ids + 1, "add", "lib", {}, FALSE)>>)
        /\ ids' = ids + again
  /\ results' = Tail(results)
  /\ MUnchanged /\ UNCHANGED <<state, cur, cancel, pipe, main, pls, found>>

Fault_HandleOnce ==
  /\ pcM = "handle"
  /\ pcM' = "loop"
  /\ MUnchanged /\ UNCHANGED <<worker, results, pipe, op, lists, ghosts>>

M_handled ==
  /\ pcM = "handle"
  /\ results = <<>>
  /\ pcM' = "loop"
  /\ MUnchanged /\ UNCHANGED <<worker, results, pipe, op, lists, ghosts>>

Command ==
  \/ worker_start \/ cmus_update_lib
  \/ \E kind \in {"add", "prepend"}, target \in {"lib", "queue"} \cup Used : cmus_add(kind, target)
  \/ \E target \in {"lib", "queue"} \cup (Used \cap pls) : Begin("clear", target)
  \/ \E pl \in Used \cap pls : pls # {pl} /\ Begin("delete", pl)
  \/ Begin("quit", "none")
  \/ \E target \in {"lib", "queue"} : view_save(target)

Finish ==
  \/ worker_remove_jobs_by_cb \/ M_cancelled \/ M_cleared \/ M_deleted
  \/ worker_exit \/ M_joined \/ job_handle \/ job_handle_result \/ M_handled

Next == Worker \/ Command \/ Finish

Spec == Init /\ [][Next]_vars

(* Both threads keep running; the user need not do anything, but once the  *)
(* pipe is readable the event loop gets to it.                             *)
FairSpec ==
  Spec /\ WF_vars(Worker) /\ WF_vars(Finish) /\ SF_vars(job_handle) /\ WF_vars(worker_start)

-----------------------------------------------------------------------------
Kinds == {"none", "add", "prepend", "update", "delete"}
JobType ==
  [id : Nat, kind : Kinds, target : Targets \cup {"none"}, files : SUBSET found,
   walk : BOOLEAN]

TypeOK ==
  /\ state \in {"PAUSED", "RUNNING", "STOPPED"}
  /\ jobs \in Seq(JobType) /\ cur \in JobType
  /\ cancel \in BOOLEAN /\ waiting \subseteq {"worker", "main"}
  /\ pcW \in {"top", "wait", "run", "free", "done"}
  /\ sheet \in Nat /\ (sheet # 0 => pcW = "run")
  /\ buf \in Seq(found) /\ Len(buf) <= TI_CAP
  /\ notify \in BOOLEAN /\ pipe \in BOOLEAN
  /\ \A i \in 1 .. Len(results) : results[i].target \in Targets
  /\ pcM \in {"loop", "remove", "cancelling", "removed", "handle", "join", "done"}
  /\ coll \in [Targets \ Sorted -> Seq(found)] /\ bags \in [Sorted -> SUBSET found]
  /\ pls \subseteq Playlists /\ freed \subseteq Playlists
  /\ cur # NoJob <=> pcW \in {"run", "free"}

(* worker_cond serves two threads and is signalled, not broadcast: still   *)
(* nobody is left asleep with something to do.  The worker sleeps only     *)
(* without work, the main thread only while its cancellation is pending.   *)
NoLostSignal ==
  /\ "worker" \in waiting => state = "PAUSED" \/ (state = "RUNNING" /\ jobs = <<>>)
  /\ "main" \in waiting => cancel /\ cur # NoJob

(* When worker_remove_jobs_by_cb returns, no job it was to remove is       *)
(* listed or running.                                                      *)
RemovedForGood ==
  pcM = "removed" => /\ ~(cur # NoJob /\ Matches(cur, op))
                     /\ Removed = <<>>

(* pl.c:436 "can't free the pl now because the worker thread might hold a  *)
(* reference to it": when a playlist is freed no job, listed or running,   *)
(* and no result still refers to it.                                       *)
NoUseAfterFree ==
  /\ \A i \in 1 .. Len(jobs) : jobs[i].target \notin freed
  /\ \A i \in 1 .. Len(results) : results[i].target \notin freed
  /\ cur.target \notin freed

(* The types, and that nobody sleeps through its signal or uses a playlist *)
(* that is gone.                                                           *)
JobsSound == TypeOK /\ NoLostSignal /\ NoUseAfterFree

InResults ==
  UNION {ToSet(results[i].tis) :
           i \in {k \in 1 .. Len(results) : results[k].kind \in {"add", "prepend"}}}

(* Every file an add job found, cancelled or not, is in exactly one place: *)
(* the job's buffer, a result under way, or delivered (once).              *)
NothingLost ==
  /\ found = ToSet(buf) \cup InResults \cup delivered
  /\ ToSet(buf) \cap (InResults \cup delivered) = {}
  /\ InResults \cap delivered = {}

(* f comes before g where both are in the same directory or playlist;      *)
(* tracks of one entry come in their own order from a job that appends     *)
(* and, since each is prepended on its own, reversed from one that         *)
(* prepends.                                                               *)
InOrder(f, g) ==
  \/ f[2] < g[2]
  \/ f[2] = g[2] /\ IF f[2] > 0 THEN f[3] < g[3] ELSE g[3] < f[3]

(* The files of one job keep the order of their directory or playlist in   *)
(* the collection they were added to, across batches of TI_CAP, and also   *)
(* at the front of the queue, where the job goes backwards.  Collections   *)
(* that sort have no order of the jobs' to keep.                           *)
FoundOrderKept ==
  \A t \in Targets \ Sorted : \A i, j \in 1 .. Len(coll[t]) :
    i < j /\ coll[t][i][1] = coll[t][j][1] => InOrder(coll[t][i], coll[t][j])

(* Whatever was found arrives once, and in order. *)
ArriveInOrder == NothingLost /\ FoundOrderKept

(* command_mode.c:221 "can't save when tracks are being added": no save    *)
(* happens while a job adds to what is saved.                              *)
SaveSeesRunning == ~saved

(* A command that removes jobs comes back from waiting for the running one. *)
RemovalReturns == pcM = "cancelling" ~> pcM = "removed"

(* What was found reaches the collection, unless the program quits first. *)
ResultsApplied == results # <<>> ~> results = <<>> \/ pcM = "done"

(* Quitting ends the worker thread. *)
QuitTerminates == pcM = "join" ~> pcM = "done"
=============================================================================
