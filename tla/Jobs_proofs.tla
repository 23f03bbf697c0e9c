---------------------------- MODULE Jobs_proofs ----------------------------
(***************************************************************************)
(* Proofs about the worker thread, its jobs and their results, for every   *)
(* number of playlists, jobs and files and every size of a batch.          *)
(*                                                                         *)
(* JobsInv, the inductive invariant, has a part per concern: the types,    *)
(* the two threads asleep on worker_cond, the removal under way, what a    *)
(* playlist's deletion waits for, which files the running job has found,   *)
(* where each file is and in which order files travel.                     *)
(***************************************************************************)
EXTENDS Jobs, Selection_proofs, FiniteSetTheorems

Adds == {"add", "prepend"}
JobKinds == {"add", "prepend", "update", "delete"}

(* Files, jobs and results, whatever was found so far. *)
Files == Nat \X Int \X Nat
JobSet == [id : Nat, kind : Kinds, target : Targets \cup {"none"}, files : SUBSET Files,
           walk : BOOLEAN]
Payloads == Seq(Files) \cup ((SUBSET Files) \X (SUBSET Files))
ResultSet == [kind : Kinds, target : Targets, tis : Payloads]

JobOK(j, fs, n) ==
  /\ j.kind \in JobKinds
  /\ j.target \in Targets
  /\ j.kind = "update" => j.target = "lib"
  /\ j.kind = "delete" => j.target \in Playlists
  /\ j.id \in 1 .. n
  /\ j.files \subseteq fs

ResultOK(r, fs) ==
  /\ r.kind \in JobKinds
  /\ r.kind \in Adds => r.tis \in Seq(Files) /\ \A k \in 1 .. Len(r.tis) : r.tis[k] \in fs
  /\ r.kind = "update" => /\ r.tis \in (SUBSET Files) \X (SUBSET Files)
                          /\ Cardinality(r.tis[2]) \in {0, 1}
  /\ r.kind = "delete" => r.target \in Playlists

Removing == pcM \in {"remove", "cancelling", "removed"}

(* What the main thread carries out. *)
OpOK ==
  /\ op \in [name : {"none", "clear", "delete", "quit"}, target : Targets \cup {"none"}]
  /\ Removing => \/ op.name = "clear" /\ op.target \in Targets
                 \/ op.name = "delete" /\ op.target \in Playlists
                 \/ op.name = "quit"

JobsTyped ==
  /\ jobs \in Seq(JobSet) /\ cur \in JobSet
  /\ \A i \in 1 .. Len(jobs) : JobOK(jobs[i], found, ids)
  /\ cur # NoJob => JobOK(cur, found, ids)
  /\ cur # NoJob <=> pcW \in {"run", "free"}
  /\ ids \in Nat

ResultsTyped ==
  /\ results \in Seq(ResultSet)
  /\ \A i \in 1 .. Len(results) : ResultOK(results[i], found)

FilesTyped ==
  /\ found \subseteq Files /\ IsFiniteSet(found) /\ delivered \subseteq found
  /\ buf \in Seq(Files) /\ Len(buf) <= TI_CAP
  /\ \A k \in 1 .. Len(buf) : buf[k] \in found
  /\ coll \in [Targets \ Sorted -> Seq(Files)]
  /\ \A t \in Targets \ Sorted : \A k \in 1 .. Len(coll[t]) : coll[t][k] \in delivered
  /\ bags \in [Sorted -> SUBSET Files] /\ \A t \in Sorted : bags[t] \subseteq delivered

ControlTyped ==
  /\ state \in {"PAUSED", "RUNNING", "STOPPED"}
  /\ cancel \in BOOLEAN /\ waiting \subseteq {"worker", "main"}
  /\ pcW \in {"top", "wait", "run", "free", "done"}
  /\ sheet \in Nat /\ (sheet # 0 => pcW = "run" /\ cur.kind \in {"add", "prepend"})
  /\ notify \in BOOLEAN /\ pipe \in BOOLEAN
  /\ pcM \in {"loop", "remove", "cancelling", "removed", "handle", "join", "done"}
  /\ pls \subseteq Playlists /\ freed \subseteq Playlists

TypeInv == JobsTyped /\ ResultsTyped /\ FilesTyped /\ ControlTyped /\ OpOK

(* Who sleeps on worker_cond, and that a cancellation has its waiter. *)
SignalInv ==
  /\ NoLostSignal
  /\ "worker" \in waiting => pcW = "wait"
  /\ "main" \in waiting => pcM = "cancelling" /\ cancel
  /\ cancel => pcM = "cancelling" /\ cur # NoJob /\ Matches(cur, op)

(* From the removal until the command goes on, what was removed stays out  *)
(* of the list, and once the cancellation is over out of the worker too.   *)
RemovalInv ==
  pcM \in {"cancelling", "removed"} =>
    /\ \A i \in 1 .. Len(jobs) : ~Matches(jobs[i], op)
    /\ ~cancel => cur = NoJob \/ ~Matches(cur, op)

Gone == Playlists \ pls

(* Once a playlist's deletion is scheduled, no other job refers to it, and *)
(* once the deletion's result is listed no job and no later result does:   *)
(* the list of jobs and that of results are both first in, first out.      *)
JobsDeletion ==
  /\ cur.kind = "delete" => cur.target \in Gone
  /\ \A i \in 1 .. Len(jobs) :
       /\ jobs[i].kind = "delete" => jobs[i].target \in Gone
       /\ jobs[i].kind = "delete" \/ cur.kind = "delete" => jobs[i].target # cur.target
       /\ \A j \in 1 .. Len(jobs) :
            i # j /\ jobs[i].kind = "delete" => jobs[j].target # jobs[i].target

ResultsDeletion ==
  \A i \in 1 .. Len(results) : results[i].kind = "delete" =>
    /\ results[i].target \in Gone
    /\ results[i].target # cur.target
    /\ \A j \in 1 .. Len(jobs) : jobs[j].target # results[i].target
    /\ \A j \in 1 .. Len(results) : i < j => results[j].target # results[i].target

(* While the main thread is deleting, nothing deletes that playlist yet. *)
DeletingInv ==
  Removing /\ op.name = "delete" =>
    /\ op.target \in Gone \ freed
    /\ \A i \in 1 .. Len(jobs) : jobs[i].kind = "delete" => jobs[i].target # op.target
    /\ \A i \in 1 .. Len(results) : results[i].kind = "delete" => results[i].target # op.target
    /\ cur.kind = "delete" => cur.target # op.target

FreeInv ==
  NoUseAfterFree /\ freed \subseteq Gone /\ JobsDeletion /\ ResultsDeletion /\ DeletingInv

(* f comes to light before g when both are of one job of that kind, and    *)
(* comes from the same entry or an earlier one.                            *)
Before(f, g, kind) ==
  f[1] = g[1] =>
    /\ f[3] < g[3]
    /\ IF kind = "prepend" THEN g[2] <= f[2] /\ g[2] < 0 ELSE f[2] <= g[2] /\ f[2] > 0

(* How far into the directory, playlist or CD a job of that kind was.      *)
Depth(f, kind) == IF kind = "prepend" THEN -f[2] ELSE f[2]

(* The n files that the running job has found are numbered up to n and come *)
(* from no entry behind the one it is at.                                  *)
DepthInv ==
  cur.kind \in Adds =>
    /\ sheet # 0 => sheet <= Cardinality(Mine)
    /\ \A f \in Mine : /\ f[3] <= Cardinality(Mine)
                       /\ Depth(f, cur.kind) \in 1 .. Cardinality(Mine)
                       /\ sheet # 0 => Depth(f, cur.kind) <= sheet

(* Job ids are fresh, and the files of the running job lie as its walk goes. *)
IdInv ==
  /\ \A f \in found : f[1] \in 1 .. ids
  /\ \A i \in 1 .. Len(jobs) :
       /\ \A f \in found : f[1] # jobs[i].id
       /\ \A j \in 1 .. Len(jobs) : i # j => jobs[i].id # jobs[j].id
       /\ cur # NoJob => jobs[i].id # cur.id
  /\ DepthInv

(* The files that a result brings, and those that a list of them does. *)
Items(r) == IF r.kind \in Adds THEN ToSet(r.tis) ELSE {}
ItemsOf(rs) == UNION {Items(rs[i]) : i \in 1 .. Len(rs)}

(* Every file found is somewhere, and only the running job has a buffer. *)
PlaceInv ==
  /\ buf # <<>> => pcW = "run" /\ cur.kind \in Adds
  /\ found = ToSet(buf) \cup ItemsOf(results) \cup delivered

Precede(F, G, kind) == \A f \in F, g \in G : Before(f, g, kind)
InTurn(s, kind) == \A k, l \in 1 .. Len(s) : k < l => Before(s[k], s[l], kind)

(* Files travel in the order they were found: those delivered come before  *)
(* those in results, earlier results before later ones, and all of them    *)
(* before the buffer's.                                                    *)
BufferOrder ==
  /\ InTurn(buf, cur.kind)
  /\ Precede(delivered \cup ItemsOf(results), ToSet(buf), cur.kind)

ResultOrder ==
  \A j \in 1 .. Len(results) : results[j].kind \in Adds =>
    /\ InTurn(results[j].tis, results[j].kind)
    /\ Precede(delivered, ToSet(results[j].tis), results[j].kind)
    /\ \A i \in 1 .. j - 1 : Precede(Items(results[i]), ToSet(results[j].tis), results[j].kind)

OrderInv == FoundOrderKept /\ BufferOrder /\ ResultOrder

JobsInv ==
  TypeInv /\ SignalInv /\ RemovalInv /\ FreeInv /\ IdInv /\ PlaceInv /\ OrderInv

-----------------------------------------------------------------------------
(* Sequences. *)

(* What Append does. *)
LEMMA AppendFacts ==
  ASSUME NEW X, NEW s \in Seq(X), NEW e \in X
  PROVE  /\ Append(s, e) \in Seq(X) /\ Len(Append(s, e)) = Len(s) + 1
         /\ Append(s, e)[Len(s) + 1] = e
         /\ \A i \in 1 .. Len(s) : Append(s, e)[i] = s[i]
         /\ Len(s) \in Nat
  OBVIOUS

(* What taking the first element off does. *)
LEMMA TailFacts ==
  ASSUME NEW X, NEW s \in Seq(X), s # <<>>
  PROVE  /\ Head(s) = s[1] /\ s[1] \in X /\ Len(s) \in Nat \ {0}
         /\ Tail(s) \in Seq(X) /\ Len(Tail(s)) = Len(s) - 1
         /\ \A i \in 1 .. Len(s) - 1 : Tail(s)[i] = s[i + 1]
  OBVIOUS

(* Adding one element behind a sequence is Append. *)
LEMMA ConcatOne ==
  ASSUME NEW X, NEW s \in Seq(X), NEW e \in X
  PROVE  s \o <<e>> = Append(s, e)
  OBVIOUS

(* What concatenation does. *)
LEMMA ConcatFacts ==
  ASSUME NEW X, NEW s \in Seq(X), NEW t \in Seq(X)
  PROVE  /\ s \o t \in Seq(X) /\ Len(s \o t) = Len(s) + Len(t)
         /\ \A i \in 1 .. Len(s) : (s \o t)[i] = s[i]
         /\ \A i \in 1 .. Len(t) : (s \o t)[Len(s) + i] = t[i]
         /\ Len(s) \in Nat /\ Len(t) \in Nat
  OBVIOUS

(* A sequence whose elements are all in a set is a sequence over that set. *)
LEMMA SeqOver ==
  ASSUME NEW X, NEW Y, NEW s \in Seq(X), \A i \in 1 .. Len(s) : s[i] \in Y
  PROVE  s \in Seq(Y)
  OBVIOUS

(* The elements of a sequence, by place. *)
LEMMA ToSetOf ==
  ASSUME NEW X, NEW s \in Seq(X)
  PROVE  /\ \A i \in 1 .. Len(s) : s[i] \in ToSet(s)
         /\ \A e \in ToSet(s) : \E i \in 1 .. Len(s) : s[i] = e
         /\ Len(s) \in Nat /\ DOMAIN s = 1 .. Len(s)
  BY DEF ToSet

(* What Reverse does. *)
LEMMA ReverseFacts ==
  ASSUME NEW X, NEW s \in Seq(X)
  PROVE  /\ Reverse(s) \in Seq(X) /\ Len(Reverse(s)) = Len(s)
         /\ \A i \in 1 .. Len(s) : Reverse(s)[i] = s[Len(s) - i + 1]
         /\ Len(s) \in Nat
  <1>1. Len(s) \in Nat
    OBVIOUS
  <1>2. \A i \in 1 .. Len(s) : s[Len(s) - i + 1] \in X
    BY <1>1
  <1>3. Reverse(s) \in [1 .. Len(s) -> X]
    BY <1>2 DEF Reverse
  <1>4. Reverse(s) \in Seq(X) /\ Len(Reverse(s)) = Len(s)
    BY <1>1, <1>3
  <1> QED BY <1>1, <1>4 DEF Reverse

(* Nothing selected leaves nothing. *)
LEMMA SelectNone ==
  ASSUME NEW X, NEW s \in Seq(X), NEW S, \A i \in 1 .. Len(s) : s[i] \notin S
  PROVE  Select(s, S) = <<>>
  <1>1. PICK g : Picks(g, Select(s, S), s, Len(s), S)
    BY SelectPicks
  <1>2. Select(s, S) \in Seq(X)
    BY SelectPicks
  <1>3. \A k \in 1 .. Len(Select(s, S)) : FALSE
    BY <1>1 DEF Picks
  <1> QED BY <1>2, <1>3

(* The jobs that a removal keeps and those whose deletion it completes, by *)
(* their places in the list.                                               *)
LEMMA KeptFacts ==
  ASSUME jobs \in Seq(JobSet)
  PROVE  /\ Kept \in Seq(JobSet)
         /\ \E g \in [1 .. Len(Kept) -> 1 .. Len(jobs)] :
              /\ \A k \in 1 .. Len(Kept) : Kept[k] = jobs[g[k]] /\ ~Matches(jobs[g[k]], op)
              /\ \A k, l \in 1 .. Len(Kept) : k # l => g[k] # g[l]
  <1> DEFINE S == {j \in ToSet(jobs) : ~Matches(j, op)}
  <1>1. PICK g : Picks(g, Select(jobs, S), jobs, Len(jobs), S)
    BY SelectPicks
  <1>2. Select(jobs, S) \in Seq(JobSet) /\ Kept = Select(jobs, S)
    BY SelectPicks DEF Kept
  <1>3. g \in [1 .. Len(Kept) -> 1 .. Len(jobs)]
    BY <1>1, <1>2 DEF Picks
  <1>4. \A k \in 1 .. Len(Kept) : Kept[k] = jobs[g[k]] /\ ~Matches(jobs[g[k]], op)
    BY <1>1, <1>2 DEF Picks
  <1>5. \A k, l \in 1 .. Len(Kept) : k # l => g[k] # g[l]
    <2>1. \A k, l \in 1 .. Len(Kept) : k < l => g[k] < g[l]
      BY <1>1, <1>2 DEF Picks
    <2> QED BY <1>2, <1>3, <2>1
  <1> QED BY <1>2, <1>3, <1>4, <1>5

(* The delete jobs that a cancellation releases, at their places in the   *)
(* list.                                                                   *)
LEMMA DeletedFacts ==
  ASSUME jobs \in Seq(JobSet)
  PROVE  /\ Deleted \in Seq(JobSet)
         /\ \E g \in [1 .. Len(Deleted) -> 1 .. Len(jobs)] :
              /\ \A k \in 1 .. Len(Deleted) :
                   /\ Deleted[k] = jobs[g[k]]
                   /\ Matches(jobs[g[k]], op) /\ jobs[g[k]].kind = "delete"
              /\ \A k, l \in 1 .. Len(Deleted) : k # l => g[k] # g[l]
  <1> DEFINE S == {j \in ToSet(jobs) : Matches(j, op) /\ j.kind = "delete"}
  <1>1. PICK g : Picks(g, Select(jobs, S), jobs, Len(jobs), S)
    BY SelectPicks
  <1>2. Select(jobs, S) \in Seq(JobSet) /\ Deleted = Select(jobs, S)
    BY SelectPicks DEF Deleted
  <1>3. g \in [1 .. Len(Deleted) -> 1 .. Len(jobs)]
    BY <1>1, <1>2 DEF Picks
  <1>4. \A k \in 1 .. Len(Deleted) :
          /\ Deleted[k] = jobs[g[k]]
          /\ Matches(jobs[g[k]], op) /\ jobs[g[k]].kind = "delete"
    BY <1>1, <1>2 DEF Picks
  <1>5. \A k, l \in 1 .. Len(Deleted) : k # l => g[k] # g[l]
    <2>1. \A k, l \in 1 .. Len(Deleted) : k < l => g[k] < g[l]
      BY <1>1, <1>2 DEF Picks
    <2>2. ASSUME NEW k \in 1 .. Len(Deleted), NEW l \in 1 .. Len(Deleted), k # l
          PROVE  g[k] # g[l]
      <3>1. g[k] \in 1 .. Len(jobs) /\ g[l] \in 1 .. Len(jobs) /\ (k < l \/ l < k)
        BY <1>3, <2>2
      <3> QED BY <2>1, <3>1
    <2> QED BY <2>2
  <1> QED BY <1>2, <1>3, <1>4, <1>5

(* Once no listed job matches, there is none to remove. *)
LEMMA RemovedNone ==
  ASSUME jobs \in Seq(JobSet), \A i \in 1 .. Len(jobs) : ~Matches(jobs[i], op)
  PROVE  Removed = <<>>
  BY SelectNone DEF Removed

(* A signal wakes the only thread that sleeps. *)
LEMMA SignalWakes ==
  ASSUME waiting \subseteq {"worker", "main"},
         ~("worker" \in waiting /\ "main" \in waiting),
         waiting' \in Signalled(waiting)
  PROVE  waiting' = {}
  BY DEF Signalled

-----------------------------------------------------------------------------
(* The two lists when something is added. *)
JobAdded(j) ==
  /\ jobs' \in Seq(JobSet) /\ Len(jobs) \in Nat /\ Len(jobs') = Len(jobs) + 1
  /\ jobs'[Len(jobs) + 1] = j
  /\ \A i \in 1 .. Len(jobs) : jobs'[i] = jobs[i]

ResultAdded(r) ==
  /\ results' \in Seq(ResultSet) /\ Len(results) \in Nat /\ Len(results') = Len(results) + 1
  /\ results'[Len(results) + 1] = r
  /\ \A i \in 1 .. Len(results) : results'[i] = results[i]

(* worker_add_job puts a job behind all others. *)
LEMMA JobIsAdded ==
  ASSUME jobs \in Seq(JobSet), NEW j \in JobSet, worker_add_jobs(<<j>>)
  PROVE  JobAdded(j)
  <1>1. jobs' = Append(jobs, j)
    BY ConcatOne DEF worker_add_jobs
  <1> QED BY <1>1, AppendFacts DEF JobAdded

(* job_push_result puts a result behind all others. *)
LEMMA ResultIsAdded ==
  ASSUME results \in Seq(ResultSet), NEW r \in ResultSet, job_push_result(r)
  PROVE  ResultAdded(r)
  <1>1. results' = Append(results, r)
    BY DEF job_push_result
  <1> QED BY <1>1, AppendFacts DEF ResultAdded

(* The jobs that commands schedule. *)
LEMMA JobsMade ==
  ASSUME ids \in Nat
  PROVE  /\ \A kind \in Adds, t \in Targets, walk \in BOOLEAN :
              Job(ids + 1, kind, t, {}, walk) \in JobSet
         /\ \A t \in Playlists : Job(ids + 1, "delete", t, {}, FALSE) \in JobSet
         /\ \A fs \in SUBSET Files : Job(ids + 1, "update", "lib", fs, FALSE) \in JobSet
  BY DEF Job, JobSet, Kinds, Targets, Adds

(* The results that jobs push. *)
LEMMA ResultsMade ==
  /\ \A kind \in Adds, t \in Targets, s \in Seq(Files) : Result(kind, t, s) \in ResultSet
  /\ \A t \in Playlists : Result("delete", t, <<>>) \in ResultSet
  /\ \A p \in (SUBSET Files) \X (SUBSET Files) : Result("update", "lib", p) \in ResultSet
  <1>1. <<>> \in Seq(Files)
    OBVIOUS
  <1> QED BY <1>1 DEF Result, ResultSet, Kinds, Targets, Adds, Payloads

(* The running job is not NoJob, nor is a listed one. *)
LEMMA NotNoJob ==
  ASSUME NEW j, NEW fs, NEW n, JobOK(j, fs, n)
  PROVE  j # NoJob
  BY DEF JobOK, NoJob, JobKinds

(* NoJob does nothing to anything. *)
LEMMA NoJobFacts ==
  /\ NoJob \in JobSet /\ NoJob.kind = "none" /\ NoJob.target = "none"
  BY DEF NoJob, JobSet, Kinds

(* What is so for fewer files and jobs stays so. *)
LEMMA JobStays ==
  ASSUME NEW j, NEW fs, NEW gs, NEW n \in Nat, NEW m \in Nat,
         JobOK(j, fs, n), fs \subseteq gs, n <= m
  PROVE  JobOK(j, gs, m)
  BY DEF JobOK

(* The same for a listed result. *)
LEMMA ResultStays ==
  ASSUME NEW r, NEW fs, NEW gs, ResultOK(r, fs), fs \subseteq gs
  PROVE  ResultOK(r, gs)
  BY DEF ResultOK

(* The commands of the user that have a parameter. *)
Add    == \E kind \in {"add", "prepend"}, target \in {"lib", "queue"} \cup Used :
            cmus_add(kind, target)
Clear  == \E target \in {"lib", "queue"} \cup (Used \cap pls) : Begin("clear", target)
Delete == \E pl \in Used \cap pls : pls # {pl} /\ Begin("delete", pl)
Quit   == Begin("quit", "none")
Save   == \E target \in {"lib", "queue"} : view_save(target)

(* What the two steps that add a file have in common: the file they add    *)
(* belongs to a new entry or to the cue sheet or CD being added.           *)
NextPlace == IF sheet = 0 THEN Number ELSE sheet
NextFile  == File(NextPlace)
OneFile ==
  /\ pcW = "run" /\ ~notify /\ cur.kind \in {"add", "prepend"}
  /\ add_ti(NextFile) /\ found' = found \cup {NextFile}
  /\ sheet' \in {0, NextPlace}
  /\ WUnchanged /\ UNCHANGED <<worker, pcW, pipe, ids>>

(* Every step, by operation. *)
LEMMA NextCases ==
  ASSUME Next
  PROVE  \/ W_take \/ W_wait \/ W_wake \/ W_stop \/ W_notify \/ OneFile \/ W_add_end
         \/ W_update \/ W_delete \/ W_free
         \/ worker_start \/ cmus_update_lib \/ Add \/ Clear \/ Delete \/ Quit \/ Save
         \/ worker_remove_jobs_by_cb \/ M_cancelled \/ M_cleared \/ M_deleted
         \/ worker_exit \/ M_joined \/ job_handle \/ job_handle_result \/ M_handled
  <1>1. Worker \/ Command \/ Finish
    BY DEF Next
  <1>2. CASE Worker
    BY <1>2 DEF Worker, OneFile, NextFile, NextPlace, W_add_file, W_add_track, AddFile
  <1>3. CASE Command
    BY <1>3 DEF Command, Add, Clear, Delete, Quit, Save
  <1>4. CASE Finish
    BY <1>4 DEF Finish
  <1> QED BY <1>1, <1>2, <1>3, <1>4

-----------------------------------------------------------------------------
(* The types. *)

(* A well-formed result leaves the list of results well formed. *)
LEMMA AddedResultTyped ==
  ASSUME ResultsTyped, NEW r, ResultAdded(r), ResultOK(r, found), UNCHANGED found
  PROVE  ResultsTyped'
  <1>1. ASSUME NEW i \in 1 .. Len(results') PROVE ResultOK(results'[i], found)
    <2>1. CASE i \in 1 .. Len(results)
      BY <2>1 DEF ResultAdded, ResultsTyped
    <2>2. CASE i = Len(results) + 1
      BY <2>2 DEF ResultAdded
    <2> QED BY <2>1, <2>2 DEF ResultAdded
  <1> QED BY <1>1 DEF ResultAdded, ResultsTyped

(* Jobs keep their types. *)
LEMMA JobsTypedStep ==
  ASSUME TypeInv, Next
  PROVE  JobsTyped'
  <1>1. CASE W_take
    <2>1. jobs # <<>> /\ jobs' = Tail(jobs) /\ cur' = Head(jobs)
      BY <1>1 DEF W_take
    <2>2. UNCHANGED <<ids, found>> /\ pcW' = "run"
      BY <1>1 DEF W_take, WUnchanged, NoFile
    <2>3. /\ jobs' \in Seq(JobSet) /\ cur' = jobs[1] /\ cur' \in JobSet
          /\ Len(jobs) \in Nat /\ Len(jobs') = Len(jobs) - 1
          /\ \A i \in 1 .. Len(jobs) - 1 : jobs'[i] = jobs[i + 1]
      BY <2>1, TailFacts DEF TypeInv, JobsTyped
    <2>4. JobOK(jobs[1], found, ids) /\ \A i \in 1 .. Len(jobs') : JobOK(jobs'[i], found, ids)
      BY <2>1, <2>3 DEF TypeInv, JobsTyped
    <2>5. cur' # NoJob
      BY <2>3, <2>4, NotNoJob
    <2> QED BY <2>2, <2>3, <2>4, <2>5 DEF TypeInv, JobsTyped
  <1>2. CASE W_wait
    <2>1. UNCHANGED <<jobs, cur, ids, found>> /\ (pcW' \in {"run", "free"} <=> pcW \in {"run", "free"})
      BY <1>2 DEF W_wait, worker, outbox, main, lists, ghosts, WUnchanged, NoFile, MUnchanged, Back
    <2> QED BY <2>1 DEF TypeInv, JobsTyped
  <1>3. CASE W_wake
    <2>1. UNCHANGED <<jobs, cur, ids, found>> /\ (pcW' \in {"run", "free"} <=> pcW \in {"run", "free"})
      BY <1>3 DEF W_wake, worker, outbox, main, lists, ghosts, WUnchanged, NoFile, MUnchanged, Back
    <2> QED BY <2>1 DEF TypeInv, JobsTyped
  <1>4. CASE W_stop
    <2>1. UNCHANGED <<jobs, cur, ids, found>> /\ (pcW' \in {"run", "free"} <=> pcW \in {"run", "free"})
      BY <1>4 DEF W_stop, worker, outbox, main, lists, ghosts, WUnchanged, NoFile, MUnchanged, Back
    <2> QED BY <2>1 DEF TypeInv, JobsTyped
  <1>5. CASE OneFile
    <2>1. UNCHANGED <<jobs, cur, ids, pcW>> /\ found \subseteq found'
      BY <1>5 DEF OneFile, worker, outbox, main, lists, ghosts, WUnchanged, NoFile, MUnchanged,
         Back
    <2> QED BY <2>1, JobStays DEF TypeInv, JobsTyped
  <1>6. CASE W_add_end
    <2>1. UNCHANGED <<jobs, cur, ids, found>> /\ (pcW' \in {"run", "free"} <=> pcW \in {"run", "free"})
      BY <1>6 DEF W_add_end, worker, outbox, main, lists, ghosts, WUnchanged, NoFile, MUnchanged,
         Back
    <2> QED BY <2>1 DEF TypeInv, JobsTyped
  <1>7. CASE W_update
    <2>1. UNCHANGED <<jobs, cur, ids, found>> /\ (pcW' \in {"run", "free"} <=> pcW \in {"run", "free"})
      BY <1>7 DEF W_update, worker, outbox, main, lists, ghosts, WUnchanged, NoFile, MUnchanged,
         Back
    <2> QED BY <2>1 DEF TypeInv, JobsTyped
  <1>8. CASE W_delete
    <2>1. UNCHANGED <<jobs, cur, ids, found>> /\ (pcW' \in {"run", "free"} <=> pcW \in {"run", "free"})
      BY <1>8 DEF W_delete, worker, outbox, main, lists, ghosts, WUnchanged, NoFile, MUnchanged,
         Back
    <2> QED BY <2>1 DEF TypeInv, JobsTyped
  <1>9. CASE W_free
    <2>1. UNCHANGED <<jobs, ids, found>> /\ cur' = NoJob /\ pcW' = "top"
      BY <1>9 DEF W_free, worker, outbox, main, lists, ghosts, WUnchanged, NoFile, MUnchanged, Back
    <2> QED BY <2>1, NoJobFacts DEF TypeInv, JobsTyped
  <1>10. CASE cmus_update_lib
    <2> DEFINE fs == bags["lib"]
    <2>1. UNCHANGED <<cur, found, pcW>> /\ ids' = ids + 1
      BY <1>10 DEF cmus_update_lib, worker, outbox, main, lists, ghosts, WUnchanged, NoFile,
         MUnchanged, Back
    <2>2. worker_add_jobs(<<Job(ids + 1, "update", "lib", fs, FALSE)>>) /\ fs \subseteq found
      <3>1. bags["lib"] \subseteq found
        BY SortedAssumption DEF TypeInv, FilesTyped
      <3> QED BY <1>10, <3>1 DEF cmus_update_lib
    <2> HIDE DEF fs
    <2>3. Job(ids + 1, "update", "lib", fs, FALSE) \in JobSet
      BY <2>2, JobsMade DEF TypeInv, JobsTyped, FilesTyped
    <2>4. JobAdded(Job(ids + 1, "update", "lib", fs, FALSE))
      BY <2>1, <2>2, <2>3, JobIsAdded DEF TypeInv, JobsTyped
    <2>5. ASSUME NEW i \in 1 .. Len(jobs') PROVE JobOK(jobs'[i], found', ids')
      <3>1. CASE i \in 1 .. Len(jobs)
        <4>1. JobOK(jobs[i], found, ids) /\ jobs'[i] = jobs[i]
          BY <2>4, <3>1 DEF JobAdded, TypeInv, JobsTyped
        <4> QED BY <2>1, <4>1, JobStays DEF TypeInv, JobsTyped
      <3>2. CASE i = Len(jobs) + 1
        <4>1. jobs'[i] = Job(ids + 1, "update", "lib", fs, FALSE)
          BY <2>4, <3>2 DEF JobAdded
        <4> QED BY <2>1, <2>2, <4>1 DEF JobOK, Job, JobKinds, Adds, Targets, TypeInv,
           JobsTyped
      <3> QED BY <2>4, <3>1, <3>2 DEF JobAdded
    <2>6. JobOK(cur, found, ids) => JobOK(cur', found', ids')
      BY <2>1, JobStays DEF TypeInv, JobsTyped
    <2> QED BY <2>1, <2>4, <2>5, <2>6 DEF JobAdded, TypeInv, JobsTyped
  <1>11. CASE Add
    <2>a. PICK kind \in {"add", "prepend"}, target \in {"lib", "queue"} \cup Used : cmus_add(kind, target)
      BY <1>11 DEF Add
    <2>0. PICK walk \in BOOLEAN : worker_add_jobs(<<Job(ids + 1, kind, target, {}, walk)>>)
      BY <2>a DEF cmus_add
    <2>1. UNCHANGED <<cur, found, pcW>> /\ ids' = ids + 1
      BY <2>a, <2>0 DEF cmus_add, worker, outbox, main, lists, ghosts, WUnchanged, NoFile, MUnchanged,
         Back
    <2>2. worker_add_jobs(<<Job(ids + 1, kind, target, {}, walk)>>) /\ kind \in Adds /\ target \in Targets
      BY <2>a, <2>0, CommandsAssumption DEF cmus_add, Adds, Targets
    <2>3. Job(ids + 1, kind, target, {}, walk) \in JobSet
      BY <2>2, JobsMade DEF TypeInv, JobsTyped
    <2>4. JobAdded(Job(ids + 1, kind, target, {}, walk))
      BY <2>1, <2>2, <2>3, JobIsAdded DEF TypeInv, JobsTyped
    <2>5. ASSUME NEW i \in 1 .. Len(jobs') PROVE JobOK(jobs'[i], found', ids')
      <3>1. CASE i \in 1 .. Len(jobs)
        <4>1. JobOK(jobs[i], found, ids) /\ jobs'[i] = jobs[i]
          BY <2>4, <3>1 DEF JobAdded, TypeInv, JobsTyped
        <4> QED BY <2>1, <4>1, JobStays DEF TypeInv, JobsTyped
      <3>2. CASE i = Len(jobs) + 1
        <4>1. jobs'[i] = Job(ids + 1, kind, target, {}, walk)
          BY <2>4, <3>2 DEF JobAdded
        <4> QED BY <2>1, <2>2, <4>1 DEF JobOK, Job, JobKinds, Adds, Targets, TypeInv,
           JobsTyped
      <3> QED BY <2>4, <3>1, <3>2 DEF JobAdded
    <2>6. JobOK(cur, found, ids) => JobOK(cur', found', ids')
      BY <2>1, JobStays DEF TypeInv, JobsTyped
    <2> QED BY <2>1, <2>4, <2>5, <2>6 DEF JobAdded, TypeInv, JobsTyped
  <1>12. CASE worker_remove_jobs_by_cb
    <2>1. UNCHANGED <<cur, ids, found, pcW>> /\ jobs' = Kept
      BY <1>12 DEF worker_remove_jobs_by_cb, worker, outbox, main, lists, ghosts, WUnchanged, NoFile,
         MUnchanged, Back
    <2>2. jobs \in Seq(JobSet)
      BY DEF TypeInv, JobsTyped
    <2>3. PICK g \in [1 .. Len(Kept) -> 1 .. Len(jobs)] : \A k \in 1 .. Len(Kept) : Kept[k] = jobs[g[k]]
      BY <2>2, KeptFacts
    <2>4. jobs' \in Seq(JobSet) /\ \A i \in 1 .. Len(jobs') : JobOK(jobs'[i], found, ids)
      BY <2>1, <2>2, <2>3, KeptFacts DEF TypeInv, JobsTyped
    <2> QED BY <2>1, <2>4 DEF TypeInv, JobsTyped
  <1>13. CASE M_deleted
    <2>1. UNCHANGED <<cur, found, pcW>> /\ ids' = ids + 1
      BY <1>13 DEF M_deleted, worker, outbox, main, lists, ghosts, WUnchanged, NoFile, MUnchanged,
         Back
    <2>2. worker_add_jobs(<<Job(ids + 1, "delete", op.target, {}, FALSE)>>) /\ op.target \in Playlists
      BY <1>13 DEF M_deleted, TypeInv, OpOK, Removing
    <2>3. Job(ids + 1, "delete", op.target, {}, FALSE) \in JobSet
      BY <2>2, JobsMade DEF TypeInv, JobsTyped
    <2>4. JobAdded(Job(ids + 1, "delete", op.target, {}, FALSE))
      BY <2>1, <2>2, <2>3, JobIsAdded DEF TypeInv, JobsTyped
    <2>5. ASSUME NEW i \in 1 .. Len(jobs') PROVE JobOK(jobs'[i], found', ids')
      <3>1. CASE i \in 1 .. Len(jobs)
        <4>1. JobOK(jobs[i], found, ids) /\ jobs'[i] = jobs[i]
          BY <2>4, <3>1 DEF JobAdded, TypeInv, JobsTyped
        <4> QED BY <2>1, <4>1, JobStays DEF TypeInv, JobsTyped
      <3>2. CASE i = Len(jobs) + 1
        <4>1. jobs'[i] = Job(ids + 1, "delete", op.target, {}, FALSE)
          BY <2>4, <3>2 DEF JobAdded
        <4> QED BY <2>1, <2>2, <4>1 DEF JobOK, Job, JobKinds, Adds, Targets, TypeInv,
           JobsTyped
      <3> QED BY <2>4, <3>1, <3>2 DEF JobAdded
    <2>6. JobOK(cur, found, ids) => JobOK(cur', found', ids')
      BY <2>1, JobStays DEF TypeInv, JobsTyped
    <2> QED BY <2>1, <2>4, <2>5, <2>6 DEF JobAdded, TypeInv, JobsTyped
  <1>14. CASE job_handle_result
    <2> DEFINE r == Head(results)
               again == IF r.kind = "update" THEN Cardinality(r.tis[2]) ELSE 0
    <2>0. r = results[1] /\ ResultOK(r, found) /\ again \in {0, 1}
      BY <1>14, TailFacts DEF job_handle_result, TypeInv, ResultsTyped, ResultOK
    <2>a. /\ UNCHANGED <<cur, found, pcW>> /\ ids' = ids + again
          /\ IF again = 0 THEN UNCHANGED <<jobs, waiting>>
             ELSE worker_add_jobs(<<Job(ids + 1, "add", "lib", {}, FALSE)>>)
      BY <1>14 DEF job_handle_result, worker, outbox, main, lists, ghosts, WUnchanged, NoFile,
         MUnchanged, Back
    <2> HIDE DEF again
    <2>b. CASE again = 0
      BY <2>a, <2>b DEF TypeInv, JobsTyped, JobOK
    <2>c. CASE again = 1
      <3>1. UNCHANGED <<cur, found, pcW>> /\ ids' = ids + 1
        BY <2>a, <2>c
      <3>2. worker_add_jobs(<<Job(ids + 1, "add", "lib", {}, FALSE)>>) /\ "lib" \in Targets
        BY <2>a, <2>c DEF Targets
      <3>3. Job(ids + 1, "add", "lib", {}, FALSE) \in JobSet
        BY <3>2, JobsMade DEF TypeInv, JobsTyped, Adds
      <3>4. JobAdded(Job(ids + 1, "add", "lib", {}, FALSE))
        BY <3>1, <3>2, <3>3, JobIsAdded DEF TypeInv, JobsTyped
      <3>5. ASSUME NEW i \in 1 .. Len(jobs') PROVE JobOK(jobs'[i], found', ids')
        <4>1. CASE i \in 1 .. Len(jobs)
          <5>1. JobOK(jobs[i], found, ids) /\ jobs'[i] = jobs[i]
            BY <3>4, <4>1 DEF JobAdded, TypeInv, JobsTyped
          <5> QED BY <3>1, <5>1, JobStays DEF TypeInv, JobsTyped
        <4>2. CASE i = Len(jobs) + 1
          <5>1. jobs'[i] = Job(ids + 1, "add", "lib", {}, FALSE)
            BY <3>4, <4>2 DEF JobAdded
          <5> QED BY <3>1, <3>2, <5>1 DEF JobOK, Job, JobKinds, Adds, Targets, TypeInv,
             JobsTyped
        <4> QED BY <3>4, <4>1, <4>2 DEF JobAdded
      <3>6. JobOK(cur, found, ids) => JobOK(cur', found', ids')
        BY <3>1, JobStays DEF TypeInv, JobsTyped
      <3> QED BY <3>1, <3>4, <3>5, <3>6 DEF JobAdded, TypeInv, JobsTyped
    <2> QED BY <2>0, <2>b, <2>c
  <1>15. CASE \/ W_notify \/ worker_start \/ Clear \/ Delete
            \/ Quit \/ Save \/ M_cancelled \/ M_cleared
            \/ worker_exit \/ M_joined \/ job_handle \/ M_handled
    <2>1. UNCHANGED <<jobs, cur, ids, found, pcW>>
      BY <1>15 DEF W_notify, worker_start, Clear, Begin, Delete, Quit, Save, view_save,
         M_cancelled, M_cleared, worker_exit, M_joined, job_handle, M_handled, worker,
         outbox, main, lists, ghosts, WUnchanged, NoFile, MUnchanged, Back
    <2> QED BY <2>1 DEF TypeInv, JobsTyped, JobOK
  <1> QED BY <1>1, <1>2, <1>3, <1>4, <1>5, <1>6, <1>7, <1>8, <1>9, <1>10, <1>11, <1>12,
     <1>13, <1>14, <1>15, NextCases

(* The results that a removal pushes for the deletions among the jobs. *)
Pushed == [i \in 1 .. Len(Deleted) |-> Result("delete", Deleted[i].target, <<>>)]

(* They are results, one for each of those jobs. *)
LEMMA PushedFacts ==
  ASSUME TypeInv
  PROVE  /\ Pushed \in Seq(ResultSet) /\ Len(Pushed) = Len(Deleted)
         /\ \A i \in 1 .. Len(Pushed) : ResultOK(Pushed[i], found)
         /\ \A i \in 1 .. Len(Pushed) : Pushed[i] = Result("delete", Deleted[i].target, <<>>)
  <1>1. jobs \in Seq(JobSet) /\ Deleted \in Seq(JobSet) /\ Len(Deleted) \in Nat
    BY DeletedFacts DEF TypeInv, JobsTyped
  <1>2. PICK g \in [1 .. Len(Deleted) -> 1 .. Len(jobs)] :
          \A k \in 1 .. Len(Deleted) : Deleted[k] = jobs[g[k]] /\ jobs[g[k]].kind = "delete"
    BY <1>1, DeletedFacts
  <1>3. \A k \in 1 .. Len(Deleted) : Deleted[k].target \in Playlists
    BY <1>2 DEF TypeInv, JobsTyped, JobOK
  <1>4. \A k \in 1 .. Len(Deleted) : Result("delete", Deleted[k].target, <<>>) \in ResultSet
    BY <1>3, ResultsMade
  <1>5. Pushed \in [1 .. Len(Deleted) -> ResultSet]
    BY <1>4 DEF Pushed
  <1>6. Pushed \in Seq(ResultSet) /\ Len(Pushed) = Len(Deleted)
    BY <1>1, <1>5
  <1>7. \A i \in 1 .. Len(Pushed) : Pushed[i] = Result("delete", Deleted[i].target, <<>>)
    BY <1>6 DEF Pushed
  <1>8. \A t \in Playlists : ResultOK(Result("delete", t, <<>>), found)
    BY DEF Result, ResultOK, Adds, JobKinds
  <1>9. \A i \in 1 .. Len(Pushed) : ResultOK(Pushed[i], found)
    BY <1>3, <1>6, <1>7, <1>8
  <1> QED BY <1>6, <1>7, <1>9

(* Results keep their types. *)
LEMMA ResultsTypedStep ==
  ASSUME TypeInv, Next
  PROVE  ResultsTyped'
  <1>1. CASE OneFile
    <2> DEFINE f == NextFile
    <2>1. found' = found \cup {f} /\ add_ti(f) /\ cur # NoJob /\ cur.kind \in Adds
      BY <1>1 DEF OneFile, Adds, NoJob, TypeInv, JobsTyped
    <2> HIDE DEF f
    <2>3. CASE Len(buf) = TI_CAP
      <3>1. job_push_result(Result(cur.kind, cur.target, buf))
        BY <2>1, <2>3 DEF add_ti, flush_ti_buffer
      <3>2. Result(cur.kind, cur.target, buf) \in ResultSet
        BY <2>1, ResultsMade DEF TypeInv, JobsTyped, JobOK, FilesTyped
      <3>3. ResultAdded(Result(cur.kind, cur.target, buf))
        BY <3>1, <3>2, ResultIsAdded DEF TypeInv, ResultsTyped
      <3>4. ResultOK(Result(cur.kind, cur.target, buf), found)
        BY <2>1 DEF ResultOK, Result, Adds, JobKinds, TypeInv, FilesTyped
      <3> QED BY <2>1, <3>3, <3>4, ResultStays DEF ResultAdded, TypeInv, ResultsTyped
    <2>4. CASE Len(buf) # TI_CAP
      BY <2>1, <2>4, ResultStays DEF add_ti, TypeInv, ResultsTyped
    <2> QED BY <2>3, <2>4
  <1>2. CASE W_add_end
    <2>1. UNCHANGED found /\ cur # NoJob /\ cur.kind \in Adds
      BY <1>2 DEF W_add_end, Adds, NoJob, TypeInv, JobsTyped, WUnchanged, NoFile
    <2>2. CASE buf # <<>>
      <3>1. job_push_result(Result(cur.kind, cur.target, buf))
        BY <1>2, <2>2 DEF W_add_end, flush_ti_buffer
      <3>2. Result(cur.kind, cur.target, buf) \in ResultSet
        BY <2>1, ResultsMade DEF TypeInv, JobsTyped, JobOK, FilesTyped
      <3>3. ResultAdded(Result(cur.kind, cur.target, buf))
        BY <3>1, <3>2, ResultIsAdded DEF TypeInv, ResultsTyped
      <3>4. ResultOK(Result(cur.kind, cur.target, buf), found)
        BY <2>1 DEF ResultOK, Result, Adds, JobKinds, TypeInv, FilesTyped
      <3> QED BY <2>1, <3>3, <3>4, AddedResultTyped DEF TypeInv
    <2>3. CASE buf = <<>>
      <3>1. UNCHANGED <<results, found>>
        BY <1>2, <2>3 DEF W_add_end, NoFile
      <3> QED BY <3>1 DEF TypeInv, ResultsTyped, ResultOK
    <2> QED BY <2>2, <2>3
  <1>3. CASE W_update
    <2>1. UNCHANGED found /\ cur # NoJob /\ cur.files \subseteq found
      BY <1>3 DEF W_update, NoFile, NoJob, TypeInv, JobsTyped, JobOK
    <2>2. PICK gone \in SUBSET cur.files, changed \in SUBSET cur.files :
            /\ Cardinality(changed) <= 1
            /\ job_push_result(Result("update", "lib", <<gone, changed>>))
      BY <1>3 DEF W_update
    <2>3. gone \subseteq Files /\ changed \subseteq Files /\ Cardinality(changed) \in {0, 1}
      <3>1. changed \subseteq found /\ IsFiniteSet(found)
        BY <2>1 DEF TypeInv, FilesTyped
      <3>2. Cardinality(changed) \in Nat
        BY <3>1, FS_Subset, FS_CardinalityType
      <3> QED BY <2>1, <2>2, <3>2 DEF TypeInv, FilesTyped
    <2> DEFINE r == Result("update", "lib", <<gone, changed>>)
    <2>4. r \in ResultSet
      BY <2>3, ResultsMade
    <2>5. ResultAdded(r)
      BY <2>2, <2>4, ResultIsAdded DEF TypeInv, ResultsTyped
    <2>6. ResultOK(r, found)
      BY <2>3 DEF ResultOK, Result, Adds, JobKinds
    <2> HIDE DEF r
    <2> QED BY <2>1, <2>5, <2>6, AddedResultTyped DEF TypeInv
  <1>4. CASE W_free
    <2>1. UNCHANGED found
      BY <1>4 DEF W_free, NoFile
    <2>2. CASE cur.kind = "delete"
      <3>1. job_push_result(Result("delete", cur.target, <<>>)) /\ cur.target \in Playlists
        BY <1>4, <2>2 DEF W_free, TypeInv, JobsTyped, JobOK
      <3> DEFINE r == Result("delete", cur.target, <<>>)
      <3>2. r \in ResultSet
        BY <3>1, ResultsMade
      <3>3. ResultAdded(r)
        BY <3>1, <3>2, ResultIsAdded DEF TypeInv, ResultsTyped
      <3>4. ResultOK(r, found)
        BY <3>1 DEF ResultOK, Result, Adds, JobKinds
      <3> HIDE DEF r
      <3> QED BY <2>1, <3>3, <3>4, AddedResultTyped DEF TypeInv
    <2>3. CASE cur.kind # "delete"
      <3>1. UNCHANGED <<results, found>>
        BY <1>4, <2>3 DEF W_free, NoFile
      <3> QED BY <3>1 DEF TypeInv, ResultsTyped, ResultOK
    <2> QED BY <2>2, <2>3
  <1>5. CASE worker_remove_jobs_by_cb
    <2>1. UNCHANGED found /\ results' = results \o Pushed
      BY <1>5 DEF worker_remove_jobs_by_cb, ghosts, Pushed
    <2>2. Pushed \in Seq(ResultSet) /\ \A i \in 1 .. Len(Pushed) : ResultOK(Pushed[i], found)
      BY PushedFacts
    <2>3. /\ results' \in Seq(ResultSet) /\ Len(results') = Len(results) + Len(Pushed)
          /\ \A i \in 1 .. Len(results) : results'[i] = results[i]
          /\ \A i \in 1 .. Len(Pushed) : results'[Len(results) + i] = Pushed[i]
          /\ Len(results) \in Nat /\ Len(Pushed) \in Nat
      BY <2>1, <2>2, ConcatFacts DEF TypeInv, ResultsTyped
    <2>4. ASSUME NEW i \in 1 .. Len(results') PROVE ResultOK(results'[i], found)
      <3>1. CASE i \in 1 .. Len(results)
        BY <2>3, <3>1 DEF TypeInv, ResultsTyped
      <3>2. CASE i - Len(results) \in 1 .. Len(Pushed)
        <4>1. results'[i] = Pushed[i - Len(results)]
          BY <2>3, <3>2
        <4> QED BY <2>2, <3>2, <4>1
      <3> QED BY <2>3, <3>1, <3>2
    <2> QED BY <2>1, <2>3, <2>4 DEF ResultsTyped, ResultOK
  <1>6. CASE job_handle_result
    <2>1. UNCHANGED found /\ results # <<>> /\ results' = Tail(results)
      BY <1>6 DEF job_handle_result
    <2>2. /\ results' \in Seq(ResultSet) /\ Len(results) \in Nat /\ Len(results') = Len(results) - 1
          /\ \A i \in 1 .. Len(results) - 1 : results'[i] = results[i + 1]
      BY <2>1, TailFacts DEF TypeInv, ResultsTyped
    <2> QED BY <2>1, <2>2 DEF ResultOK, TypeInv, ResultsTyped
  <1>7. CASE \/ W_take \/ W_wait \/ W_wake \/ W_stop \/ W_notify
            \/ W_delete \/ worker_start \/ cmus_update_lib \/ Add
            \/ Clear \/ Delete \/ Quit \/ Save \/ M_cancelled
            \/ M_cleared \/ M_deleted \/ worker_exit \/ M_joined
            \/ job_handle \/ M_handled
    <2>1. UNCHANGED <<results, found>>
      BY <1>7 DEF W_take, W_wait, W_wake, W_stop, W_notify, W_delete, worker_start,
         cmus_update_lib, Add, cmus_add, Clear, Begin, Delete, Quit, Save, view_save,
         M_cancelled, M_cleared, M_deleted, worker_exit, M_joined, job_handle, M_handled,
         worker, outbox, main, lists, ghosts, WUnchanged, NoFile, MUnchanged, Back
    <2> QED BY <2>1 DEF TypeInv, ResultsTyped, ResultOK
  <1> QED BY <1>1, <1>2, <1>3, <1>4, <1>5, <1>6, <1>7, NextCases

(* What a result does to the collections: they hold what they held and     *)
(* what the result brings.                                                 *)
AppliedOK(r) ==
  /\ Applied(r) \in [Targets \ Sorted -> Seq(Files)]
  /\ \A t \in Targets \ Sorted : \A k \in 1 .. Len(Applied(r)[t]) :
       Applied(r)[t][k] \in (delivered \cup IF r.kind \in Adds THEN ToSet(r.tis) ELSE {})
  /\ Bagged(r) \in [Sorted -> SUBSET Files]
  /\ \A t \in Sorted :
       Bagged(r)[t] \subseteq (delivered \cup IF r.kind \in Adds THEN ToSet(r.tis) ELSE {})

(* Every result that the worker can have listed is applied in this way. *)
LEMMA AppliedFacts ==
  ASSUME TypeInv, NEW r \in ResultSet, ResultOK(r, found)
  PROVE  AppliedOK(r)
  <1>1. /\ coll \in [Targets \ Sorted -> Seq(Files)] /\ r.target \in Targets
        /\ \A t \in Targets \ Sorted : \A k \in 1 .. Len(coll[t]) : coll[t][k] \in delivered
        /\ bags \in [Sorted -> SUBSET Files] /\ "lib" \in Sorted
        /\ \A t \in Sorted : bags[t] \subseteq delivered
    BY SortedAssumption DEF TypeInv, FilesTyped, ResultSet
  <1>c. ASSUME r.kind \in Adds PROVE ToSet(r.tis) \subseteq Files
    <2>1. r.tis \in Seq(Files)
      BY <1>c DEF ResultOK
    <2> QED BY <2>1, ToSetOf
  <1>a. Bagged(r) \in [Sorted -> SUBSET Files]
    <2>1. CASE r.kind = "add" /\ r.target \in Sorted
      BY <1>1, <1>c, <2>1 DEF Bagged, Adds
    <2>2. CASE r.kind = "update"
      BY <1>1, <2>2 DEF Bagged
    <2>3. CASE ~(r.kind = "add" /\ r.target \in Sorted) /\ r.kind # "update"
      BY <1>1, <2>3 DEF Bagged
    <2> QED BY <2>1, <2>2, <2>3
  <1>b. \A t \in Sorted :
          Bagged(r)[t] \subseteq (delivered \cup IF r.kind \in Adds THEN ToSet(r.tis) ELSE {})
    <2>1. CASE r.kind = "add" /\ r.target \in Sorted
      <3>1. Bagged(r) = [bags EXCEPT ![r.target] = @ \cup ToSet(r.tis)] /\ r.kind \in Adds
        BY <2>1 DEF Bagged, Adds
      <3> QED BY <1>1, <3>1
    <2>2. CASE r.kind = "update"
      <3>1. Bagged(r) = [bags EXCEPT !["lib"] = @ \ (r.tis[1] \cup r.tis[2])]
        BY <2>2 DEF Bagged
      <3> QED BY <1>1, <3>1
    <2>3. CASE ~(r.kind = "add" /\ r.target \in Sorted) /\ r.kind # "update"
      <3>1. Bagged(r) = bags
        BY <2>3 DEF Bagged
      <3> QED BY <1>1, <3>1
    <2> QED BY <2>1, <2>2, <2>3
  <1>2. CASE r.kind = "add" /\ r.target \notin Sorted
    <2>1. r.tis \in Seq(Files) /\ Applied(r) = [coll EXCEPT ![r.target] = @ \o r.tis]
      BY <1>2 DEF Applied, ResultOK, Adds
    <2>2. ASSUME NEW t \in Targets \ Sorted
          PROVE  /\ Applied(r)[t] \in Seq(Files)
                 /\ \A k \in 1 .. Len(Applied(r)[t]) : Applied(r)[t][k] \in (delivered \cup ToSet(r.tis))
      <3>1. CASE t = r.target
        <4>1. Applied(r)[t] = coll[t] \o r.tis /\ coll[t] \in Seq(Files)
          BY <1>1, <2>1, <3>1
        <4>2. ASSUME NEW k \in 1 .. Len(coll[t] \o r.tis)
              PROVE  (coll[t] \o r.tis)[k] \in (delivered \cup ToSet(r.tis))
          BY <1>1, <2>1, <4>1, ConcatFacts, ToSetOf
        <4>3. coll[t] \o r.tis \in Seq(Files)
          BY <2>1, <4>1, ConcatFacts
        <4> QED BY <4>1, <4>2, <4>3
      <3>2. CASE t # r.target
        BY <1>1, <2>1, <3>2
      <3> QED BY <3>1, <3>2
    <2>3. Applied(r) \in [Targets \ Sorted -> Seq(Files)]
      BY <1>1, <2>1, <2>2
    <2> QED BY <1>1, <1>2, <1>a, <1>b, <2>2, <2>3 DEF AppliedOK, Adds
  <1>3. CASE r.kind = "prepend" /\ r.target \notin Sorted
    <2>1. r.tis \in Seq(Files) /\ Applied(r) = [coll EXCEPT ![r.target] = Reverse(r.tis) \o @]
      BY <1>3 DEF Applied, ResultOK, Adds
    <2>2. ASSUME NEW t \in Targets \ Sorted
          PROVE  /\ Applied(r)[t] \in Seq(Files)
                 /\ \A k \in 1 .. Len(Applied(r)[t]) : Applied(r)[t][k] \in (delivered \cup ToSet(r.tis))
      <3>1. CASE t = r.target
        <4> DEFINE v == Reverse(r.tis)
        <4>1. Applied(r)[t] = v \o coll[t] /\ coll[t] \in Seq(Files)
          BY <1>1, <2>1, <3>1
        <4>2. v \in Seq(Files) /\ \A i \in 1 .. Len(v) : v[i] \in ToSet(r.tis)
          BY <2>1, ReverseFacts, ToSetOf
        <4> HIDE DEF v
        <4>3. ASSUME NEW k \in 1 .. Len(v \o coll[t])
              PROVE  (v \o coll[t])[k] \in (delivered \cup ToSet(r.tis))
          BY <1>1, <4>1, <4>2, ConcatFacts
        <4> QED BY <4>1, <4>2, <4>3, ConcatFacts
      <3>2. CASE t # r.target
        BY <1>1, <2>1, <3>2
      <3> QED BY <3>1, <3>2
    <2>3. Applied(r) \in [Targets \ Sorted -> Seq(Files)]
      BY <1>1, <2>1, <2>2
    <2> QED BY <1>1, <1>3, <1>a, <1>b, <2>2, <2>3 DEF AppliedOK, Adds
  <1>4. CASE r.kind \notin Adds \/ r.target \in Sorted
    <2>1. Applied(r) = coll
      BY <1>4 DEF Applied, Adds
    <2> QED BY <1>1, <1>a, <1>b, <2>1 DEF AppliedOK
  <1> QED BY <1>2, <1>3, <1>4 DEF Adds

(* Files, buffer and collections keep their types. *)
LEMMA FilesTypedStep ==
  ASSUME TypeInv, Next
  PROVE  FilesTyped'
  <1>1. CASE OneFile
    <2> DEFINE f == NextFile
    <2>1. found' = found \cup {f} /\ add_ti(f) /\ UNCHANGED <<coll, bags, delivered>>
      BY <1>1 DEF OneFile, worker, outbox, main, lists, ghosts, WUnchanged, NoFile, MUnchanged,
         Back
    <2>2. f \in Files
      <3>1. IsFiniteSet(Mine)
        BY FS_Subset DEF Mine, TypeInv, FilesTyped
      <3>2. Cardinality(Mine) \in Nat /\ cur.id \in Nat
        BY <3>1, FS_CardinalityType DEF TypeInv, JobsTyped, JobSet
      <3>3. Number \in Nat /\ NextPlace \in Nat
        BY <3>2 DEF Number, NextPlace, TypeInv, ControlTyped
      <3> QED BY <3>2, <3>3 DEF NextFile, File, Files
    <2>3. IsFiniteSet(found')
      BY <2>1, FS_AddElement DEF TypeInv, FilesTyped
    <2> HIDE DEF f
    <2>4. buf' \in Seq(Files) /\ Len(buf') <= TI_CAP /\ \A k \in 1 .. Len(buf') : buf'[k] \in found'
      <3>1. CASE Len(buf) = TI_CAP
        <4>1. buf' = <<f>>
          BY <2>1, <3>1 DEF add_ti
        <4> QED BY <2>1, <2>2, <4>1, CapAssumption
      <3>2. CASE Len(buf) # TI_CAP
        <4>1. buf' = Append(buf, f) /\ buf \in Seq(Files) /\ Len(buf) <= TI_CAP
          BY <2>1, <3>2 DEF add_ti, TypeInv, FilesTyped
        <4>2. /\ buf' \in Seq(Files) /\ Len(buf') = Len(buf) + 1 /\ buf'[Len(buf) + 1] = f
              /\ \A k \in 1 .. Len(buf) : buf'[k] = buf[k]
          BY <2>2, <4>1, AppendFacts
        <4>3. \A k \in 1 .. Len(buf') : buf'[k] \in found'
          BY <2>1, <4>1, <4>2 DEF TypeInv, FilesTyped
        <4> QED BY <3>2, <4>1, <4>2, <4>3, CapAssumption
      <3> QED BY <3>1, <3>2
    <2> QED BY <2>1, <2>2, <2>3, <2>4 DEF TypeInv, FilesTyped
  <1>2. CASE W_add_end
    <2>1. UNCHANGED <<found, coll, bags, delivered>> /\ buf' = <<>>
      BY <1>2 DEF W_add_end, worker, outbox, main, lists, ghosts, WUnchanged, NoFile, MUnchanged,
         Back
    <2> QED BY <2>1, CapAssumption DEF TypeInv, FilesTyped
  <1>3. CASE Clear
    <2>1. /\ UNCHANGED <<found, buf, delivered>>
          /\ coll' = coll \/ \E t \in Targets \ Sorted : coll' = [coll EXCEPT ![t] = <<>>]
          /\ bags' = bags \/ \E t \in Sorted : bags' = [bags EXCEPT ![t] = {}]
      BY <1>3, CommandsAssumption DEF Clear, Begin, Emptied, Targets, worker, outbox, main, lists, ghosts, WUnchanged, NoFile,
         MUnchanged, Back
    <2>2. /\ coll' \in [Targets \ Sorted -> Seq(Files)]
          /\ \A t \in Targets \ Sorted : coll'[t] \in {coll[t], <<>>}
      <3>1. coll \in [Targets \ Sorted -> Seq(Files)] /\ <<>> \in Seq(Files)
        BY DEF TypeInv, FilesTyped
      <3> QED BY <2>1, <3>1
    <2>3. \A t \in Targets \ Sorted : \A k \in 1 .. Len(coll'[t]) : coll'[t][k] \in delivered
      BY <2>2 DEF TypeInv, FilesTyped
    <2>4. bags' \in [Sorted -> SUBSET Files] /\ \A t \in Sorted : bags'[t] \subseteq delivered
      BY <2>1 DEF TypeInv, FilesTyped
    <2> QED BY <2>1, <2>2, <2>3, <2>4 DEF TypeInv, FilesTyped
  <1>4. CASE Delete
    <2>1. UNCHANGED <<found, buf, delivered, coll, bags>>
      BY <1>4 DEF Delete, Begin, worker, outbox, main, lists, ghosts, WUnchanged, NoFile, MUnchanged,
         Back
    <2> QED BY <2>1 DEF TypeInv, FilesTyped
  <1>5. CASE Quit
    <2>1. UNCHANGED <<found, buf, delivered, coll, bags>>
      BY <1>5 DEF Quit, Begin, worker, outbox, main, lists, ghosts, WUnchanged, NoFile, MUnchanged,
         Back
    <2> QED BY <2>1 DEF TypeInv, FilesTyped
  <1>6. CASE M_cleared
    <2>1. /\ UNCHANGED <<found, buf, delivered>>
          /\ coll' = coll \/ \E t \in Targets \ Sorted : coll' = [coll EXCEPT ![t] = <<>>]
          /\ bags' = bags \/ \E t \in Sorted : bags' = [bags EXCEPT ![t] = {}]
      BY <1>6 DEF M_cleared, Emptied, Targets, TypeInv, OpOK, Removing, worker, outbox, main, lists,
         ghosts, WUnchanged, NoFile, MUnchanged, Back
    <2>2. /\ coll' \in [Targets \ Sorted -> Seq(Files)]
          /\ \A t \in Targets \ Sorted : coll'[t] \in {coll[t], <<>>}
      <3>1. coll \in [Targets \ Sorted -> Seq(Files)] /\ <<>> \in Seq(Files)
        BY DEF TypeInv, FilesTyped
      <3> QED BY <2>1, <3>1
    <2>3. \A t \in Targets \ Sorted : \A k \in 1 .. Len(coll'[t]) : coll'[t][k] \in delivered
      BY <2>2 DEF TypeInv, FilesTyped
    <2>4. bags' \in [Sorted -> SUBSET Files] /\ \A t \in Sorted : bags'[t] \subseteq delivered
      BY <2>1 DEF TypeInv, FilesTyped
    <2> QED BY <2>1, <2>2, <2>3, <2>4 DEF TypeInv, FilesTyped
  <1>7. CASE job_handle_result
    <2> DEFINE r == Head(results)
    <2>1. ResultOK(r, found) /\ r \in ResultSet
      BY <1>7, TailFacts DEF job_handle_result, TypeInv, ResultsTyped
    <2>2. /\ UNCHANGED <<found, buf>> /\ coll' = Applied(r) /\ bags' = Bagged(r)
          /\ delivered' = IF r.kind \in {"add", "prepend"} THEN delivered \cup ToSet(r.tis) ELSE delivered
      BY <1>7 DEF job_handle_result, worker, outbox, main, lists, ghosts, WUnchanged, NoFile,
         MUnchanged, Back
    <2> HIDE DEF r
    <2>3. AppliedOK(r)
      BY <2>1, AppliedFacts
    <2>4. CASE r.kind \in Adds
      <3>1. r.tis \in Seq(Files) /\ \A k \in 1 .. Len(r.tis) : r.tis[k] \in found
        BY <2>1, <2>4 DEF ResultOK
      <3>2. delivered' = delivered \cup ToSet(r.tis) /\ ToSet(r.tis) \subseteq found
        BY <2>2, <2>4, <3>1, ToSetOf DEF Adds
      <3>3. /\ \A t \in Targets \ Sorted : \A k \in 1 .. Len(coll'[t]) : coll'[t][k] \in delivered'
            /\ \A t \in Sorted : bags'[t] \subseteq delivered'
        BY <2>2, <2>3, <2>4, <3>2 DEF AppliedOK
      <3> QED BY <2>2, <2>3, <3>2, <3>3 DEF AppliedOK, TypeInv, FilesTyped
    <2>5. CASE r.kind \notin Adds
      <3>1. delivered' = delivered
        BY <2>2, <2>5 DEF Adds
      <3> QED BY <2>2, <2>3, <2>5, <3>1 DEF AppliedOK, TypeInv, FilesTyped
    <2> QED BY <2>4, <2>5
  <1>8. CASE \/ W_take \/ W_wait \/ W_wake \/ W_stop \/ W_notify
            \/ W_update \/ W_delete \/ W_free \/ worker_start
            \/ cmus_update_lib \/ Add \/ Save
            \/ worker_remove_jobs_by_cb \/ M_cancelled \/ M_deleted
            \/ worker_exit \/ M_joined \/ job_handle \/ M_handled
    <2>1. UNCHANGED <<found, delivered, buf, coll, bags>>
      BY <1>8 DEF W_take, W_wait, W_wake, W_stop, W_notify, W_update, W_delete, W_free,
         worker_start, cmus_update_lib, Add, cmus_add, Save, view_save,
         worker_remove_jobs_by_cb, M_cancelled, M_deleted, worker_exit, M_joined, job_handle,
         M_handled, worker, outbox, main, lists, ghosts, WUnchanged, NoFile, MUnchanged, Back
    <2> QED BY <2>1 DEF TypeInv, FilesTyped
  <1> QED BY <1>1, <1>2, <1>3, <1>4, <1>5, <1>6, <1>7, <1>8, NextCases

(* The control state keeps its types. *)
LEMMA ControlTypedStep ==
  ASSUME TypeInv, Next
  PROVE  ControlTyped'
  <1>1. CASE W_take
    BY <1>1 DEF W_take, TypeInv, ControlTyped, worker, outbox, main, lists, ghosts,
       WUnchanged, NoFile, MUnchanged, Back
  <1>2. CASE W_wait
    BY <1>2 DEF W_wait, TypeInv, ControlTyped, worker, outbox, main, lists, ghosts,
       WUnchanged, NoFile, MUnchanged, Back
  <1>3. CASE W_wake
    BY <1>3 DEF W_wake, TypeInv, ControlTyped, worker, outbox, main, lists, ghosts,
       WUnchanged, NoFile, MUnchanged, Back
  <1>4. CASE W_stop
    BY <1>4 DEF W_stop, TypeInv, ControlTyped, worker, outbox, main, lists, ghosts,
       WUnchanged, NoFile, MUnchanged, Back
  <1>5. CASE W_notify
    BY <1>5 DEF W_notify, TypeInv, ControlTyped, worker, outbox, main, lists, ghosts,
       WUnchanged, NoFile, MUnchanged, Back
  <1>6. CASE OneFile
    <2>1. Cardinality(Mine) \in Nat
      BY FS_Subset, FS_CardinalityType DEF Mine, TypeInv, FilesTyped
    <2>2. NextPlace \in Nat /\ sheet' \in {0, NextPlace}
      BY <1>6, <2>1 DEF OneFile, NextPlace, Number, TypeInv, ControlTyped
    <2>3. /\ UNCHANGED <<state, cur, cancel, waiting, pcW, pipe, pcM, pls, freed>>
          /\ pcW = "run" /\ cur.kind \in {"add", "prepend"}
      BY <1>6 DEF OneFile, worker, main, lists, WUnchanged
    <2>4. notify' \in BOOLEAN
      BY <1>6 DEF OneFile, add_ti, flush_ti_buffer, job_push_result, TypeInv, ControlTyped
    <2> QED BY <2>2, <2>3, <2>4 DEF TypeInv, ControlTyped
  <1>7. CASE W_add_end
    BY <1>7 DEF W_add_end, flush_ti_buffer, job_push_result, TypeInv, ControlTyped, worker,
       outbox, main, lists, ghosts, WUnchanged, NoFile, MUnchanged, Back
  <1>8. CASE W_update
    BY <1>8 DEF W_update, job_push_result, TypeInv, ControlTyped, worker, outbox, main,
       lists, ghosts, WUnchanged, NoFile, MUnchanged, Back
  <1>9. CASE W_delete
    BY <1>9 DEF W_delete, TypeInv, ControlTyped, worker, outbox, main, lists, ghosts,
       WUnchanged, NoFile, MUnchanged, Back
  <1>10. CASE W_free
    <2>1. waiting' = waiting \/ waiting' \in Signalled(waiting)
      BY <1>10 DEF W_free, EndCancel, worker_add_jobs, worker, outbox, main, lists, ghosts,
         WUnchanged, NoFile, MUnchanged, Back
    <2>2. waiting' \subseteq {"worker", "main"}
      BY <2>1 DEF Signalled, TypeInv, ControlTyped
    <2> QED BY <1>10, <2>2 DEF W_free, EndCancel, job_push_result, TypeInv, ControlTyped,
       worker, outbox, main, lists, ghosts, WUnchanged, NoFile, MUnchanged, Back
  <1>11. CASE worker_start
    <2>1. waiting' = waiting \/ waiting' \in Signalled(waiting)
      BY <1>11 DEF worker_start, worker_add_jobs, worker, outbox, main, lists, ghosts,
         WUnchanged, NoFile, MUnchanged, Back
    <2>2. waiting' \subseteq {"worker", "main"}
      BY <2>1 DEF Signalled, TypeInv, ControlTyped
    <2> QED BY <1>11, <2>2 DEF worker_start, TypeInv, ControlTyped, worker, outbox, main,
       lists, ghosts, WUnchanged, NoFile, MUnchanged, Back
  <1>12. CASE cmus_update_lib
    <2>1. waiting' = waiting \/ waiting' \in Signalled(waiting)
      BY <1>12 DEF cmus_update_lib, worker_add_jobs, worker, outbox, main, lists, ghosts,
         WUnchanged, NoFile, MUnchanged, Back
    <2>2. waiting' \subseteq {"worker", "main"}
      BY <2>1 DEF Signalled, TypeInv, ControlTyped
    <2> QED BY <1>12, <2>2 DEF cmus_update_lib, TypeInv, ControlTyped, worker, outbox, main,
       lists, ghosts, WUnchanged, NoFile, MUnchanged, Back
  <1>13. CASE Add
    <2>1. waiting' = waiting \/ waiting' \in Signalled(waiting)
      BY <1>13 DEF Add, cmus_add, worker_add_jobs, worker, outbox, main, lists, ghosts,
         WUnchanged, NoFile, MUnchanged, Back
    <2>2. waiting' \subseteq {"worker", "main"}
      BY <2>1 DEF Signalled, TypeInv, ControlTyped
    <2> QED BY <1>13, <2>2 DEF Add, cmus_add, TypeInv, ControlTyped, worker, outbox, main,
       lists, ghosts, WUnchanged, NoFile, MUnchanged, Back
  <1>14. CASE Clear
    BY <1>14 DEF Clear, Begin, TypeInv, ControlTyped, worker, outbox, main, lists, ghosts,
       WUnchanged, NoFile, MUnchanged, Back
  <1>15. CASE Delete
    BY <1>15 DEF Delete, Begin, TypeInv, ControlTyped, worker, outbox, main, lists, ghosts,
       WUnchanged, NoFile, MUnchanged, Back
  <1>16. CASE Quit
    BY <1>16 DEF Quit, Begin, TypeInv, ControlTyped, worker, outbox, main, lists, ghosts,
       WUnchanged, NoFile, MUnchanged, Back
  <1>17. CASE Save
    BY <1>17 DEF Save, view_save, TypeInv, ControlTyped, worker, outbox, main, lists, ghosts,
       WUnchanged, NoFile, MUnchanged, Back
  <1>18. CASE worker_remove_jobs_by_cb
    BY <1>18 DEF worker_remove_jobs_by_cb, TypeInv, ControlTyped, worker, outbox, main,
       lists, ghosts, WUnchanged, NoFile, MUnchanged, Back
  <1>19. CASE M_cancelled
    BY <1>19 DEF M_cancelled, TypeInv, ControlTyped, worker, outbox, main, lists, ghosts,
       WUnchanged, NoFile, MUnchanged, Back
  <1>20. CASE M_cleared
    BY <1>20 DEF M_cleared, TypeInv, ControlTyped, worker, outbox, main, lists, ghosts,
       WUnchanged, NoFile, MUnchanged, Back
  <1>21. CASE M_deleted
    <2>1. waiting' = waiting \/ waiting' \in Signalled(waiting)
      BY <1>21 DEF M_deleted, worker_add_jobs, worker, outbox, main, lists, ghosts,
         WUnchanged, NoFile, MUnchanged, Back
    <2>2. waiting' \subseteq {"worker", "main"}
      BY <2>1 DEF Signalled, TypeInv, ControlTyped
    <2> QED BY <1>21, <2>2 DEF M_deleted, TypeInv, ControlTyped, worker, outbox, main, lists,
       ghosts, WUnchanged, NoFile, MUnchanged, Back
  <1>22. CASE worker_exit
    <2>1. waiting' = waiting \/ waiting' \in Signalled(waiting)
      BY <1>22 DEF worker_exit, worker_add_jobs, worker, outbox, main, lists, ghosts,
         WUnchanged, NoFile, MUnchanged, Back
    <2>2. waiting' \subseteq {"worker", "main"}
      BY <2>1 DEF Signalled, TypeInv, ControlTyped
    <2> QED BY <1>22, <2>2 DEF worker_exit, TypeInv, ControlTyped, worker, outbox, main,
       lists, ghosts, WUnchanged, NoFile, MUnchanged, Back
  <1>23. CASE M_joined
    BY <1>23 DEF M_joined, TypeInv, ControlTyped, worker, outbox, main, lists, ghosts,
       WUnchanged, NoFile, MUnchanged, Back
  <1>24. CASE job_handle
    BY <1>24 DEF job_handle, TypeInv, ControlTyped, worker, outbox, main, lists, ghosts,
       WUnchanged, NoFile, MUnchanged, Back
  <1>25. CASE job_handle_result
    <2>1. waiting' = waiting \/ waiting' \in Signalled(waiting)
      BY <1>25 DEF job_handle_result, worker_add_jobs, worker, outbox, main, lists, ghosts,
         WUnchanged, NoFile, MUnchanged, Back
    <2>2. waiting' \subseteq {"worker", "main"}
      BY <2>1 DEF Signalled, TypeInv, ControlTyped
    <2>3. freed' \subseteq Playlists
      BY <1>25, TailFacts DEF job_handle_result, TypeInv, ControlTyped, ResultsTyped,
         ResultOK
    <2> QED BY <1>25, <2>2, <2>3 DEF job_handle_result, TypeInv, ControlTyped, worker,
       outbox, main, lists, ghosts, WUnchanged, NoFile, MUnchanged, Back
  <1>26. CASE M_handled
    BY <1>26 DEF M_handled, TypeInv, ControlTyped, worker, outbox, main, lists, ghosts,
       WUnchanged, NoFile, MUnchanged, Back
  <1> QED BY <1>1, <1>2, <1>3, <1>4, <1>5, <1>6, <1>7, <1>8, <1>9, <1>10, <1>11, <1>12,
     <1>13, <1>14, <1>15, <1>16, <1>17, <1>18, <1>19, <1>20, <1>21, <1>22, <1>23, <1>24,
     <1>25, <1>26, NextCases

(* The command under way is one of those that remove jobs. *)
LEMMA OpStep ==
  ASSUME TypeInv, Next
  PROVE  OpOK'
  <1>1. CASE Clear
    BY <1>1, CommandsAssumption DEF Clear, Begin, TypeInv, OpOK, Removing, Targets, worker,
       outbox, main, lists, ghosts, WUnchanged, NoFile, MUnchanged, Back
  <1>2. CASE Delete
    BY <1>2, CommandsAssumption DEF Delete, Begin, TypeInv, OpOK, Removing, Targets, worker,
       outbox, main, lists, ghosts, WUnchanged, NoFile, MUnchanged, Back
  <1>3. CASE Quit
    BY <1>3 DEF Quit, Begin, NoOp, TypeInv, OpOK, Removing, Targets, worker, outbox, main,
       lists, ghosts, WUnchanged, NoFile, MUnchanged, Back
  <1>4. CASE worker_remove_jobs_by_cb
    BY <1>4 DEF worker_remove_jobs_by_cb, NoOp, TypeInv, OpOK, Removing, Targets, worker,
       outbox, main, lists, ghosts, WUnchanged, NoFile, MUnchanged, Back
  <1>5. CASE M_cancelled
    BY <1>5 DEF M_cancelled, NoOp, TypeInv, OpOK, Removing, Targets, worker, outbox, main,
       lists, ghosts, WUnchanged, NoFile, MUnchanged, Back
  <1>6. CASE M_cleared
    BY <1>6 DEF M_cleared, NoOp, TypeInv, OpOK, Removing, Targets, worker, outbox, main,
       lists, ghosts, WUnchanged, NoFile, MUnchanged, Back
  <1>7. CASE M_deleted
    BY <1>7 DEF M_deleted, NoOp, TypeInv, OpOK, Removing, Targets, worker, outbox, main,
       lists, ghosts, WUnchanged, NoFile, MUnchanged, Back
  <1>8. CASE worker_exit
    BY <1>8 DEF worker_exit, NoOp, TypeInv, OpOK, Removing, Targets, worker, outbox, main,
       lists, ghosts, WUnchanged, NoFile, MUnchanged, Back
  <1>9. CASE M_joined
    BY <1>9 DEF M_joined, NoOp, TypeInv, OpOK, Removing, Targets, worker, outbox, main,
       lists, ghosts, WUnchanged, NoFile, MUnchanged, Back
  <1>10. CASE job_handle
    BY <1>10 DEF job_handle, NoOp, TypeInv, OpOK, Removing, Targets, worker, outbox, main,
       lists, ghosts, WUnchanged, NoFile, MUnchanged, Back
  <1>11. CASE M_handled
    BY <1>11 DEF M_handled, NoOp, TypeInv, OpOK, Removing, Targets, worker, outbox, main,
       lists, ghosts, WUnchanged, NoFile, MUnchanged, Back
  <1>12. CASE \/ W_take \/ W_wait \/ W_wake \/ W_stop \/ W_notify
            \/ OneFile \/ W_add_end \/ W_update \/ W_delete
            \/ W_free \/ worker_start \/ cmus_update_lib \/ Add
            \/ Save \/ job_handle_result
    <2>1. UNCHANGED <<op, pcM>>
      BY <1>12 DEF W_take, W_wait, W_wake, W_stop, W_notify, OneFile, W_add_end,
         W_update,
         W_delete, W_free, worker_start, cmus_update_lib, Add, cmus_add, Save, view_save,
         job_handle_result, worker, outbox, main, lists, ghosts, WUnchanged, NoFile, MUnchanged,
         Back
    <2> QED BY <2>1 DEF TypeInv, OpOK, Removing
  <1> QED BY <1>1, <1>2, <1>3, <1>4, <1>5, <1>6, <1>7, <1>8, <1>9, <1>10, <1>11, <1>12,
     NextCases

(* So all types are kept. *)
LEMMA TypeStep ==
  ASSUME TypeInv, Next
  PROVE  TypeInv'
  BY JobsTypedStep, ResultsTypedStep, FilesTypedStep, ControlTypedStep, OpStep DEF TypeInv

-----------------------------------------------------------------------------
(* Sleeping, waking and removal. *)

(* The two threads never sleep on worker_cond at the same time: the main   *)
(* thread sleeps while a job runs.                                         *)
LEMMA OneSleeper ==
  ASSUME TypeInv, SignalInv
  PROVE  /\ waiting \subseteq {"worker", "main"}
         /\ ~("worker" \in waiting /\ "main" \in waiting)
  BY DEF TypeInv, JobsTyped, ControlTyped, SignalInv

(* An empty list stays empty. *)
LEMMA KeptEmpty ==
  ASSUME jobs = <<>>
  PROVE  Kept = <<>>
  <1> DEFINE S == {j \in ToSet(jobs) : ~Matches(j, op)}
  <1>1. jobs \in Seq(JobSet) /\ Len(jobs) = 0
    OBVIOUS
  <1>2. \A i \in 1 .. Len(jobs) : jobs[i] \notin S
    BY <1>1
  <1>3. Kept = Select(jobs, S)
    BY DEF Kept
  <1> HIDE DEF S
  <1> QED BY <1>1, <1>2, <1>3, SelectNone

(* Every signal reaches the thread it is for: the other one does not sleep *)
(* on worker_cond when it is given.                                        *)
LEMMA SignalStep ==
  ASSUME TypeInv, SignalInv, Next
  PROVE  SignalInv'
  <1>1. CASE W_take
    <2>1. ~("worker" \in waiting) /\ ~("main" \in waiting) /\ ~cancel
      BY <1>1 DEF W_take, TypeInv, JobsTyped, ControlTyped, SignalInv, NoLostSignal
    <2> QED BY <1>1, <2>1 DEF W_take, TypeInv, JobsTyped, ControlTyped, SignalInv,
       NoLostSignal, worker, outbox, main, lists, ghosts, WUnchanged, NoFile, MUnchanged, Back
  <1>2. CASE W_wait
    BY <1>2 DEF W_wait, TypeInv, JobsTyped, ControlTyped, SignalInv, NoLostSignal, worker,
       outbox, main, lists, ghosts, WUnchanged, NoFile, MUnchanged, Back
  <1>3. CASE W_wake
    BY <1>3 DEF W_wake, TypeInv, JobsTyped, ControlTyped, SignalInv, NoLostSignal, worker,
       outbox, main, lists, ghosts, WUnchanged, NoFile, MUnchanged, Back
  <1>4. CASE W_stop
    BY <1>4 DEF W_stop, TypeInv, JobsTyped, ControlTyped, SignalInv, NoLostSignal, worker,
       outbox, main, lists, ghosts, WUnchanged, NoFile, MUnchanged, Back
  <1>5. CASE W_add_end
    BY <1>5 DEF W_add_end, TypeInv, JobsTyped, ControlTyped, SignalInv, NoLostSignal, worker,
       outbox, main, lists, ghosts, WUnchanged, NoFile, MUnchanged, Back
  <1>6. CASE W_update
    BY <1>6 DEF W_update, TypeInv, JobsTyped, ControlTyped, SignalInv, NoLostSignal, worker,
       outbox, main, lists, ghosts, WUnchanged, NoFile, MUnchanged, Back
  <1>7. CASE W_delete
    BY <1>7 DEF W_delete, TypeInv, JobsTyped, ControlTyped, SignalInv, NoLostSignal, worker,
       outbox, main, lists, ghosts, WUnchanged, NoFile, MUnchanged, Back
  <1>8. CASE W_free
    <2>1. ~("worker" \in waiting) /\ ("main" \in waiting => cancel)
      BY <1>8 DEF W_free, TypeInv, JobsTyped, ControlTyped, SignalInv, NoLostSignal
    <2>2. waiting' = {} /\ ~cancel'
      <3>1. CASE cancel
        BY <1>8, <3>1, OneSleeper, SignalWakes DEF W_free, EndCancel
      <3>2. CASE ~cancel
        BY <1>8, <2>1, <3>2 DEF W_free, EndCancel, TypeInv, ControlTyped
      <3> QED BY <3>1, <3>2
    <2> QED BY <2>2 DEF SignalInv, NoLostSignal
  <1>9. CASE worker_start
    <2>1. waiting' \in Signalled(waiting) /\ ~cancel /\ ~cancel'
      BY <1>9 DEF worker_start, worker_add_jobs, TypeInv, JobsTyped, ControlTyped, SignalInv,
         NoLostSignal, worker, outbox, main, lists, ghosts, WUnchanged, NoFile, MUnchanged, Back
    <2>2. waiting' = {}
      BY <2>1, OneSleeper, SignalWakes
    <2> QED BY <2>1, <2>2 DEF SignalInv, NoLostSignal
  <1>10. CASE cmus_update_lib
    <2>1. waiting' \in Signalled(waiting) /\ ~cancel /\ ~cancel'
      BY <1>10 DEF cmus_update_lib, worker_add_jobs, TypeInv, JobsTyped, ControlTyped,
         SignalInv, NoLostSignal, worker, outbox, main, lists, ghosts, WUnchanged, NoFile,
         MUnchanged, Back
    <2>2. waiting' = {}
      BY <2>1, OneSleeper, SignalWakes
    <2> QED BY <2>1, <2>2 DEF SignalInv, NoLostSignal
  <1>11. CASE Add
    <2>1. waiting' \in Signalled(waiting) /\ ~cancel /\ ~cancel'
      BY <1>11 DEF Add, cmus_add, worker_add_jobs, TypeInv, JobsTyped, ControlTyped,
         SignalInv, NoLostSignal, worker, outbox, main, lists, ghosts, WUnchanged, NoFile,
         MUnchanged, Back
    <2>2. waiting' = {}
      BY <2>1, OneSleeper, SignalWakes
    <2> QED BY <2>1, <2>2 DEF SignalInv, NoLostSignal
  <1>12. CASE Clear
    BY <1>12 DEF Clear, Begin, TypeInv, JobsTyped, ControlTyped, SignalInv, NoLostSignal,
       worker, outbox, main, lists, ghosts, WUnchanged, NoFile, MUnchanged, Back
  <1>13. CASE Delete
    BY <1>13 DEF Delete, Begin, TypeInv, JobsTyped, ControlTyped, SignalInv, NoLostSignal,
       worker, outbox, main, lists, ghosts, WUnchanged, NoFile, MUnchanged, Back
  <1>14. CASE Quit
    BY <1>14 DEF Quit, Begin, TypeInv, JobsTyped, ControlTyped, SignalInv, NoLostSignal,
       worker, outbox, main, lists, ghosts, WUnchanged, NoFile, MUnchanged, Back
  <1>15. CASE worker_remove_jobs_by_cb
    <2>1. ~("main" \in waiting) /\ UNCHANGED <<pcW, state, cur, op>> /\ pcM = "remove" /\ ~cancel /\ jobs' = Kept
      BY <1>15 DEF worker_remove_jobs_by_cb, TypeInv, JobsTyped, ControlTyped, SignalInv,
         NoLostSignal, worker, outbox, main, lists, ghosts, WUnchanged, NoFile, MUnchanged, Back
    <2>2. jobs = <<>> => jobs' = <<>>
      BY <2>1, KeptEmpty
    <2>3. CASE cur # NoJob /\ Matches(cur, op)
      <3>1. cancel' = TRUE /\ waiting' = waiting \cup {"main"} /\ pcM' = "cancelling"
        BY <1>15, <2>3 DEF worker_remove_jobs_by_cb
      <3>2. Matches(cur', op')
        BY <2>1, <2>3
      <3> QED BY <2>1, <2>2, <2>3, <3>1, <3>2 DEF SignalInv, NoLostSignal
    <2>4. CASE ~(cur # NoJob /\ Matches(cur, op))
      <3>1. UNCHANGED <<cancel, waiting>>
        BY <1>15, <2>4 DEF worker_remove_jobs_by_cb
      <3> QED BY <2>1, <2>2, <3>1 DEF SignalInv, NoLostSignal
    <2> QED BY <2>3, <2>4
  <1>16. CASE M_cancelled
    BY <1>16 DEF M_cancelled, TypeInv, JobsTyped, ControlTyped, SignalInv, NoLostSignal,
       worker, outbox, main, lists, ghosts, WUnchanged, NoFile, MUnchanged, Back
  <1>17. CASE M_cleared
    BY <1>17 DEF M_cleared, TypeInv, JobsTyped, ControlTyped, SignalInv, NoLostSignal,
       worker, outbox, main, lists, ghosts, WUnchanged, NoFile, MUnchanged, Back
  <1>18. CASE M_deleted
    <2>1. waiting' \in Signalled(waiting) /\ ~cancel /\ ~cancel'
      BY <1>18 DEF M_deleted, worker_add_jobs, TypeInv, JobsTyped, ControlTyped, SignalInv,
         NoLostSignal, worker, outbox, main, lists, ghosts, WUnchanged, NoFile, MUnchanged, Back
    <2>2. waiting' = {}
      BY <2>1, OneSleeper, SignalWakes
    <2> QED BY <2>1, <2>2 DEF SignalInv, NoLostSignal
  <1>19. CASE worker_exit
    <2>1. waiting' \in Signalled(waiting) /\ ~cancel /\ ~cancel'
      BY <1>19 DEF worker_exit, worker_add_jobs, TypeInv, JobsTyped, ControlTyped, SignalInv,
         NoLostSignal, worker, outbox, main, lists, ghosts, WUnchanged, NoFile, MUnchanged, Back
    <2>2. waiting' = {}
      BY <2>1, OneSleeper, SignalWakes
    <2> QED BY <2>1, <2>2 DEF SignalInv, NoLostSignal
  <1>20. CASE M_joined
    BY <1>20 DEF M_joined, TypeInv, JobsTyped, ControlTyped, SignalInv, NoLostSignal, worker,
       outbox, main, lists, ghosts, WUnchanged, NoFile, MUnchanged, Back
  <1>21. CASE job_handle
    BY <1>21 DEF job_handle, TypeInv, JobsTyped, ControlTyped, SignalInv, NoLostSignal,
       worker, outbox, main, lists, ghosts, WUnchanged, NoFile, MUnchanged, Back
  <1>22. CASE job_handle_result
    <2>1. ~cancel /\ ~cancel' /\ UNCHANGED <<pcM, pcW, state, cur, op>>
      BY <1>22 DEF job_handle_result, TypeInv, JobsTyped, ControlTyped, SignalInv,
         NoLostSignal, worker, outbox, main, lists, ghosts, WUnchanged, NoFile, MUnchanged, Back
    <2>2. CASE UNCHANGED <<jobs, waiting>>
      BY <2>1, <2>2 DEF SignalInv, NoLostSignal
    <2>3. CASE waiting' \in Signalled(waiting)
      <3>1. waiting' = {}
        BY <2>3, OneSleeper, SignalWakes
      <3> QED BY <2>1, <3>1 DEF SignalInv, NoLostSignal
    <2> QED BY <1>22, <2>2, <2>3 DEF job_handle_result, worker_add_jobs
  <1>23. CASE M_handled
    BY <1>23 DEF M_handled, TypeInv, JobsTyped, ControlTyped, SignalInv, NoLostSignal,
       worker, outbox, main, lists, ghosts, WUnchanged, NoFile, MUnchanged, Back
  <1>24. CASE \/ W_notify \/ OneFile \/ Save
    <2>1. UNCHANGED <<state, jobs, cur, cancel, waiting, pcW, pcM, op>>
      BY <1>24 DEF W_notify, OneFile, Save, view_save, worker, outbox, main, lists,
         ghosts, WUnchanged, NoFile, MUnchanged, Back
    <2> QED BY <2>1 DEF SignalInv, NoLostSignal
  <1> QED BY <1>1, <1>2, <1>3, <1>4, <1>5, <1>6, <1>7, <1>8, <1>9, <1>10, <1>11, <1>12,
     <1>13, <1>14, <1>15, <1>16, <1>17, <1>18, <1>19, <1>20, <1>21, <1>22, <1>23, <1>24,
     NextCases

(* While the main thread waits for the worker and until it acts on the     *)
(* removal, no job that was to be removed comes back.                      *)
LEMMA RemovalStep ==
  ASSUME TypeInv, SignalInv, RemovalInv, Next
  PROVE  RemovalInv'
  <1>1. CASE W_take
    <2>1. UNCHANGED <<pcM, op, cancel>> /\ jobs # <<>> /\ jobs' = Tail(jobs) /\ cur' = Head(jobs)
      BY <1>1 DEF W_take, worker, outbox, main, lists, ghosts, WUnchanged, NoFile, MUnchanged, Back
    <2>2. /\ cur' = jobs[1] /\ Len(jobs) \in Nat \ {0} /\ Len(jobs') = Len(jobs) - 1
          /\ \A i \in 1 .. Len(jobs) - 1 : jobs'[i] = jobs[i + 1]
      BY <2>1, TailFacts DEF TypeInv, JobsTyped
    <2>3. ASSUME pcM \in {"cancelling", "removed"} PROVE \A i \in 1 .. Len(jobs') : ~Matches(jobs'[i], op)
      BY <2>2, <2>3 DEF RemovalInv
    <2>4. ASSUME pcM \in {"cancelling", "removed"} PROVE ~Matches(cur', op)
      BY <2>2, <2>4 DEF RemovalInv
    <2> QED BY <2>1, <2>3, <2>4 DEF RemovalInv
  <1>2. CASE W_free
    <2>1. UNCHANGED <<pcM, op, jobs>> /\ cur' = NoJob
      BY <1>2 DEF W_free, worker, outbox, main, lists, ghosts, WUnchanged, NoFile, MUnchanged, Back
    <2> QED BY <2>1 DEF RemovalInv
  <1>3. CASE cmus_update_lib
    <2>1. pcM' \notin {"cancelling", "removed"}
      BY <1>3 DEF cmus_update_lib, worker, outbox, main, lists, ghosts, WUnchanged, NoFile,
         MUnchanged, Back
    <2> QED BY <2>1 DEF RemovalInv
  <1>4. CASE Add
    <2>1. pcM' \notin {"cancelling", "removed"}
      BY <1>4 DEF Add, cmus_add, worker, outbox, main, lists, ghosts, WUnchanged, NoFile, MUnchanged,
         Back
    <2> QED BY <2>1 DEF RemovalInv
  <1>5. CASE Clear
    <2>1. pcM' \notin {"cancelling", "removed"}
      BY <1>5 DEF Clear, Begin, worker, outbox, main, lists, ghosts, WUnchanged, NoFile, MUnchanged,
         Back
    <2> QED BY <2>1 DEF RemovalInv
  <1>6. CASE Delete
    <2>1. pcM' \notin {"cancelling", "removed"}
      BY <1>6 DEF Delete, Begin, worker, outbox, main, lists, ghosts, WUnchanged, NoFile, MUnchanged,
         Back
    <2> QED BY <2>1 DEF RemovalInv
  <1>7. CASE Quit
    <2>1. pcM' \notin {"cancelling", "removed"}
      BY <1>7 DEF Quit, Begin, worker, outbox, main, lists, ghosts, WUnchanged, NoFile, MUnchanged,
         Back
    <2> QED BY <2>1 DEF RemovalInv
  <1>8. CASE worker_remove_jobs_by_cb
    <2>1. UNCHANGED <<cur, op>> /\ jobs' = Kept
      BY <1>8 DEF worker_remove_jobs_by_cb, worker, outbox, main, lists, ghosts, WUnchanged, NoFile,
         MUnchanged, Back
    <2>2. jobs \in Seq(JobSet)
      BY DEF TypeInv, JobsTyped
    <2>3. \A k \in 1 .. Len(Kept) : ~Matches(Kept[k], op)
      BY <2>2, KeptFacts
    <2>4. ~cancel' => cur = NoJob \/ ~Matches(cur, op)
      BY <1>8 DEF worker_remove_jobs_by_cb
    <2> QED BY <2>1, <2>3, <2>4 DEF RemovalInv
  <1>9. CASE M_cancelled
    <2>1. pcM = "cancelling" /\ UNCHANGED <<jobs, cur, cancel, op>>
      BY <1>9 DEF M_cancelled, worker, outbox, main, lists, ghosts, WUnchanged, NoFile, MUnchanged,
         Back
    <2> QED BY <2>1 DEF RemovalInv
  <1>10. CASE M_cleared
    <2>1. pcM' \notin {"cancelling", "removed"}
      BY <1>10 DEF M_cleared, worker, outbox, main, lists, ghosts, WUnchanged, NoFile, MUnchanged,
         Back
    <2> QED BY <2>1 DEF RemovalInv
  <1>11. CASE M_deleted
    <2>1. pcM' \notin {"cancelling", "removed"}
      BY <1>11 DEF M_deleted, worker, outbox, main, lists, ghosts, WUnchanged, NoFile, MUnchanged,
         Back
    <2> QED BY <2>1 DEF RemovalInv
  <1>12. CASE worker_exit
    <2>1. pcM' \notin {"cancelling", "removed"}
      BY <1>12 DEF worker_exit, worker, outbox, main, lists, ghosts, WUnchanged, NoFile, MUnchanged,
         Back
    <2> QED BY <2>1 DEF RemovalInv
  <1>13. CASE M_joined
    <2>1. pcM' \notin {"cancelling", "removed"}
      BY <1>13 DEF M_joined, worker, outbox, main, lists, ghosts, WUnchanged, NoFile, MUnchanged,
         Back
    <2> QED BY <2>1 DEF RemovalInv
  <1>14. CASE job_handle
    <2>1. pcM' \notin {"cancelling", "removed"}
      BY <1>14 DEF job_handle, worker, outbox, main, lists, ghosts, WUnchanged, NoFile, MUnchanged,
         Back
    <2> QED BY <2>1 DEF RemovalInv
  <1>15. CASE job_handle_result
    <2>1. pcM' \notin {"cancelling", "removed"}
      BY <1>15 DEF job_handle_result, worker, outbox, main, lists, ghosts, WUnchanged, NoFile,
         MUnchanged, Back
    <2> QED BY <2>1 DEF RemovalInv
  <1>16. CASE M_handled
    <2>1. pcM' \notin {"cancelling", "removed"}
      BY <1>16 DEF M_handled, worker, outbox, main, lists, ghosts, WUnchanged, NoFile, MUnchanged,
         Back
    <2> QED BY <2>1 DEF RemovalInv
  <1>17. CASE \/ W_wait \/ W_wake \/ W_stop \/ W_notify
            \/ OneFile \/ W_add_end \/ W_update \/ W_delete
            \/ worker_start \/ Save
    <2>1. UNCHANGED <<pcM, op, cancel, jobs, cur>>
      BY <1>17 DEF W_wait, W_wake, W_stop, W_notify, OneFile, W_add_end, W_update,
         W_delete, worker_start, Save, view_save, worker, outbox, main, lists, ghosts,
         WUnchanged, NoFile, MUnchanged, Back
    <2> QED BY <2>1 DEF RemovalInv
  <1> QED BY <1>1, <1>2, <1>3, <1>4, <1>5, <1>6, <1>7, <1>8, <1>9, <1>10, <1>11, <1>12,
     <1>13, <1>14, <1>15, <1>16, <1>17, NextCases

-----------------------------------------------------------------------------
(* Playlists that are deleted. *)

(* What may be put behind the jobs. *)
LEMMA FreeJobAdded ==
  ASSUME TypeInv, FreeInv, NEW j, JobAdded(j), UNCHANGED <<cur, results, freed, pls>>,
         j.target \notin freed,
         j.kind = "delete" => j.target \in Gone,
         cur.kind = "delete" \/ j.kind = "delete" => cur.target # j.target,
         \A i \in 1 .. Len(jobs) :
           jobs[i].kind = "delete" \/ j.kind = "delete" => jobs[i].target # j.target,
         \A i \in 1 .. Len(results) : results[i].kind = "delete" => results[i].target # j.target
  PROVE  (NoUseAfterFree /\ freed \subseteq Gone /\ JobsDeletion /\ ResultsDeletion)'
  <1> DEFINE n == Len(jobs)
  <1>1. /\ n \in Nat /\ Len(jobs') = n + 1 /\ jobs'[n + 1] = j
        /\ \A i \in 1 .. n : jobs'[i] = jobs[i]
    BY DEF JobAdded
  <1>2. Gone' = Gone
    BY DEF Gone
  <1>3. NoUseAfterFree'
    BY <1>1 DEF FreeInv, NoUseAfterFree
  <1>4. JobsDeletion'
    <2>1. ASSUME NEW i \in 1 .. Len(jobs')
          PROVE  /\ jobs'[i].kind = "delete" => jobs'[i].target \in Gone'
                 /\ jobs'[i].kind = "delete" \/ cur'.kind = "delete" => jobs'[i].target # cur'.target
      BY <1>1, <1>2 DEF FreeInv, JobsDeletion
    <2>2. ASSUME NEW i \in 1 .. Len(jobs'), NEW k \in 1 .. Len(jobs'),
                 i # k, jobs'[i].kind = "delete"
          PROVE  jobs'[k].target # jobs'[i].target
      <3>1. CASE i \in 1 .. n /\ k \in 1 .. n
        BY <1>1, <2>2, <3>1 DEF FreeInv, JobsDeletion
      <3>2. CASE i = n + 1 /\ k \in 1 .. n
        BY <1>1, <2>2, <3>2
      <3>3. CASE i \in 1 .. n /\ k = n + 1
        BY <1>1, <2>2, <3>3
      <3> QED BY <1>1, <2>2, <3>1, <3>2, <3>3
    <2>3. cur'.kind = "delete" => cur'.target \in Gone'
      BY <1>2 DEF FreeInv, JobsDeletion
    <2> QED BY <2>1, <2>2, <2>3 DEF JobsDeletion
  <1>5. ResultsDeletion'
    BY <1>1, <1>2 DEF FreeInv, ResultsDeletion
  <1> QED BY <1>2, <1>3, <1>4, <1>5 DEF FreeInv

(* What may be put behind the results: nothing that a deletion before it   *)
(* is about.                                                               *)
LEMMA FreeResultAdded ==
  ASSUME TypeInv, FreeInv, NEW r, ResultAdded(r), UNCHANGED <<jobs, cur, freed, pls, op, pcM>>,
         r.kind # "delete", r.target = cur.target
  PROVE  FreeInv'
  <1> DEFINE n == Len(results)
  <1>1. /\ n \in Nat /\ Len(results') = n + 1 /\ results'[n + 1] = r
        /\ \A i \in 1 .. n : results'[i] = results[i]
    BY DEF ResultAdded
  <1>2. Gone' = Gone /\ (freed \subseteq Gone)'
    BY DEF Gone, FreeInv
  <1>3. NoUseAfterFree'
    BY <1>1 DEF FreeInv, NoUseAfterFree
  <1>4. JobsDeletion'
    BY <1>2 DEF FreeInv, JobsDeletion
  <1>5. ResultsDeletion'
    <2> SUFFICES ASSUME NEW i \in 1 .. Len(results'), results'[i].kind = "delete"
                 PROVE  /\ results'[i].target \in Gone'
                        /\ results'[i].target # cur'.target
                        /\ \A j \in 1 .. Len(jobs') : jobs'[j].target # results'[i].target
                        /\ \A j \in 1 .. Len(results') : i < j => results'[j].target # results'[i].target
      BY DEF ResultsDeletion
    <2>1. i \in 1 .. n /\ results'[i] = results[i]
      BY <1>1
    <2>2. \A j \in 1 .. Len(results') : i < j => results'[j].target # results'[i].target
      <3> SUFFICES ASSUME NEW j \in 1 .. Len(results'), i < j
                   PROVE  results'[j].target # results'[i].target
        OBVIOUS
      <3>1. CASE j \in 1 .. n
        BY <1>1, <2>1, <3>1 DEF FreeInv, ResultsDeletion
      <3>2. CASE j = n + 1
        BY <1>1, <2>1, <3>2 DEF FreeInv, ResultsDeletion
      <3> QED BY <1>1, <3>1, <3>2
    <2> QED BY <1>2, <2>1, <2>2 DEF FreeInv, ResultsDeletion
  <1>6. DeletingInv'
    BY <1>1, <1>2 DEF FreeInv, DeletingInv, Removing
  <1> QED BY <1>2, <1>3, <1>4, <1>5, <1>6 DEF FreeInv

(* The collections that are no playlists are never deleted. *)
LEMMA NotGone ==
  ASSUME TypeInv, FreeInv
  PROVE  /\ \A t \in {"lib", "queue", "none"} \cup pls : t \notin Gone /\ t \notin freed
         /\ \A i \in 1 .. Len(jobs) : jobs[i].kind = "delete" => jobs[i].target \in Gone
         /\ \A i \in 1 .. Len(results) : results[i].kind = "delete" => results[i].target \in Gone
         /\ cur.kind = "delete" => cur.target \in Gone
  BY PlaylistsAssumption DEF Gone, FreeInv, JobsDeletion, ResultsDeletion

(* A removal turns the deletions among the jobs into results: what they    *)
(* are about is in no other job.                                           *)
LEMMA FreeRemove ==
  ASSUME TypeInv, SignalInv, FreeInv, worker_remove_jobs_by_cb
  PROVE  FreeInv'
  <1> DEFINE n == Len(results)
             p == Len(Pushed)
  <1>1. /\ UNCHANGED <<cur, op, freed, pls>> /\ jobs' = Kept /\ results' = results \o Pushed
        /\ Removing /\ Gone' = Gone
    BY DEF worker_remove_jobs_by_cb, Pushed, Removing, Gone, worker, outbox, main, lists,
       ghosts, WUnchanged, NoFile, MUnchanged, Back
  <1>2. jobs \in Seq(JobSet)
    BY DEF TypeInv, JobsTyped
  <1>3. PICK g \in [1 .. Len(Kept) -> 1 .. Len(jobs)] :
          /\ \A k \in 1 .. Len(Kept) : Kept[k] = jobs[g[k]] /\ ~Matches(jobs[g[k]], op)
          /\ \A k, l \in 1 .. Len(Kept) : k # l => g[k] # g[l]
    BY <1>2, KeptFacts
  <1>4. PICK h \in [1 .. Len(Deleted) -> 1 .. Len(jobs)] :
          /\ \A k \in 1 .. Len(Deleted) :
               /\ Deleted[k] = jobs[h[k]]
               /\ Matches(jobs[h[k]], op) /\ jobs[h[k]].kind = "delete"
          /\ \A k, l \in 1 .. Len(Deleted) : k # l => h[k] # h[l]
    BY <1>2, DeletedFacts
  <1>5. /\ Pushed \in Seq(ResultSet) /\ p = Len(Deleted)
        /\ \A i \in 1 .. p : Pushed[i].kind = "delete" /\ Pushed[i].target = jobs[h[i]].target
    <2>1. /\ Pushed \in Seq(ResultSet) /\ p = Len(Deleted)
          /\ \A i \in 1 .. p : Pushed[i] = Result("delete", Deleted[i].target, <<>>)
      BY PushedFacts
    <2>2. ASSUME NEW i \in 1 .. p PROVE Pushed[i].kind = "delete" /\ Pushed[i].target = jobs[h[i]].target
      <3>1. Pushed[i] = Result("delete", jobs[h[i]].target, <<>>)
        BY <1>4, <2>1
      <3> QED BY <3>1 DEF Result
    <2> QED BY <2>1, <2>2
  <1>6. /\ n \in Nat /\ p \in Nat /\ Len(results') = n + p
        /\ \A i \in 1 .. n : results'[i] = results[i]
        /\ \A i \in 1 .. p : results'[n + i] = Pushed[i]
    <2>1. results \in Seq(ResultSet)
      BY DEF TypeInv, ResultsTyped
    <2>2. Pushed \in Seq(ResultSet)
      BY PushedFacts
    <2> QED BY <1>1, <2>1, <2>2, ConcatFacts
  <1>7. \A i \in 1 .. p : /\ h[i] \in 1 .. Len(jobs) /\ jobs[h[i]].kind = "delete"
                          /\ results'[n + i].target = jobs[h[i]].target
    BY <1>4, <1>5, <1>6
  <1>8. \A k \in 1 .. Len(jobs') : g[k] \in 1 .. Len(jobs) /\ jobs'[k] = jobs[g[k]]
    BY <1>1, <1>3
  <1>9. \A i \in 1 .. p, k \in 1 .. Len(jobs') : h[i] # g[k]
    BY <1>1, <1>3, <1>4, <1>5
  <1>10. \A i \in 1 .. Len(results') : i \in 1 .. n \/ (i - n \in 1 .. p /\ i = n + (i - n))
    BY <1>6
  <1> HIDE DEF n, p
  <1>11. NoUseAfterFree'
    <2>1. \A k \in 1 .. Len(jobs') : jobs'[k].target \notin freed'
      BY <1>1, <1>8 DEF FreeInv, NoUseAfterFree
    <2>2. ASSUME NEW i \in 1 .. Len(results') PROVE results'[i].target \notin freed'
      <3>1. CASE i \in 1 .. n
        BY <1>1, <1>6, <3>1 DEF n, FreeInv, NoUseAfterFree
      <3>2. CASE i - n \in 1 .. p /\ i = n + (i - n)
        <4>1. results'[i].target = jobs[h[i - n]].target /\ h[i - n] \in 1 .. Len(jobs)
          BY <1>7, <3>2
        <4> QED BY <1>1, <4>1 DEF FreeInv, NoUseAfterFree
      <3> QED BY <1>10, <3>1, <3>2
    <2> QED BY <1>1, <2>1, <2>2 DEF FreeInv, NoUseAfterFree
  <1>12. JobsDeletion'
    <2>1. ASSUME NEW i \in 1 .. Len(jobs')
          PROVE  /\ jobs'[i].kind = "delete" => jobs'[i].target \in Gone'
                 /\ jobs'[i].kind = "delete" \/ cur'.kind = "delete" => jobs'[i].target # cur'.target
      BY <1>1, <1>8 DEF FreeInv, JobsDeletion
    <2>2. ASSUME NEW i \in 1 .. Len(jobs'), NEW k \in 1 .. Len(jobs'),
                 i # k, jobs'[i].kind = "delete"
          PROVE  jobs'[k].target # jobs'[i].target
      <3>1. g[i] # g[k]
        BY <1>1, <1>3, <2>2
      <3>2. /\ g[i] \in 1 .. Len(jobs) /\ g[k] \in 1 .. Len(jobs)
            /\ jobs'[i] = jobs[g[i]] /\ jobs'[k] = jobs[g[k]]
        BY <1>8
      <3>3. jobs[g[i]].kind = "delete"
        BY <2>2, <3>2
      <3>4. jobs[g[k]].target # jobs[g[i]].target
        BY <3>1, <3>2, <3>3 DEF FreeInv, JobsDeletion
      <3> QED BY <3>2, <3>4
    <2> QED BY <1>1, <2>1, <2>2 DEF FreeInv, JobsDeletion
  <1>13. ResultsDeletion'
    <2> SUFFICES ASSUME NEW i \in 1 .. Len(results'), results'[i].kind = "delete"
                 PROVE  /\ results'[i].target \in Gone'
                        /\ results'[i].target # cur'.target
                        /\ \A j \in 1 .. Len(jobs') : jobs'[j].target # results'[i].target
                        /\ \A j \in 1 .. Len(results') : i < j => results'[j].target # results'[i].target
      BY DEF ResultsDeletion
    <2>1. CASE i \in 1 .. n
      <3>1. /\ results'[i] = results[i] /\ results[i].target \in Gone /\ results[i].target # cur.target
            /\ \A j \in 1 .. Len(jobs) : jobs[j].target # results[i].target
            /\ \A j \in 1 .. n : i < j => results[j].target # results[i].target
        BY <1>6, <2>1 DEF n, FreeInv, ResultsDeletion
      <3>2. \A j \in 1 .. Len(jobs') : jobs'[j].target # results'[i].target
        BY <1>8, <3>1
      <3>3. ASSUME NEW j \in 1 .. Len(results'), i < j PROVE results'[j].target # results'[i].target
        <4>1. CASE j \in 1 .. n
          BY <1>6, <3>1, <3>3, <4>1
        <4>2. CASE j - n \in 1 .. p /\ j = n + (j - n)
          <5>1. results'[j].target = jobs[h[j - n]].target /\ h[j - n] \in 1 .. Len(jobs)
            BY <1>7, <4>2
          <5> QED BY <3>1, <5>1
        <4> QED BY <1>10, <4>1, <4>2
      <3> QED BY <1>1, <3>1, <3>2, <3>3
    <2>2. CASE i - n \in 1 .. p /\ i = n + (i - n)
      <3> DEFINE q == h[i - n]
      <3>1. results'[i].target = jobs[q].target /\ q \in 1 .. Len(jobs) /\ jobs[q].kind = "delete"
        BY <1>7, <2>2
      <3>2. /\ jobs[q].target \in Gone /\ jobs[q].target # cur.target
            /\ \A j \in 1 .. Len(jobs) : q # j => jobs[j].target # jobs[q].target
        BY <3>1 DEF FreeInv, JobsDeletion
      <3>3. \A j \in 1 .. Len(jobs') : jobs'[j].target # results'[i].target
        BY <1>8, <1>9, <2>2, <3>1, <3>2
      <3>4. ASSUME NEW j \in 1 .. Len(results'), i < j PROVE results'[j].target # results'[i].target
        <4>1. j - n \in 1 .. p /\ j = n + (j - n) /\ j - n # i - n
          BY <1>6, <1>10, <2>2, <3>4
        <4>2. results'[j].target = jobs[h[j - n]].target /\ h[j - n] \in 1 .. Len(jobs)
          BY <1>7, <4>1
        <4>3. h[j - n] # q
          BY <1>4, <1>5, <2>2, <4>1
        <4> QED BY <3>1, <3>2, <4>2, <4>3
      <3> QED BY <1>1, <3>1, <3>2, <3>3, <3>4
    <2> QED BY <1>10, <2>1, <2>2
  <1>14. DeletingInv'
    <2> SUFFICES ASSUME op.name = "delete"
                 PROVE  /\ op.target \in Gone \ freed
                        /\ \A i \in 1 .. Len(jobs') : jobs'[i].kind = "delete" => jobs'[i].target # op.target
                        /\ \A i \in 1 .. Len(results') : results'[i].kind = "delete" => results'[i].target # op.target
                        /\ cur.kind = "delete" => cur.target # op.target
      BY <1>1 DEF DeletingInv
    <2>1. /\ op.target \in Gone \ freed
          /\ \A i \in 1 .. Len(jobs) : jobs[i].kind = "delete" => jobs[i].target # op.target
          /\ \A i \in 1 .. n : results[i].kind = "delete" => results[i].target # op.target
          /\ cur.kind = "delete" => cur.target # op.target
      BY <1>1 DEF n, FreeInv, DeletingInv
    <2>2. \A i \in 1 .. Len(jobs') : jobs'[i].kind = "delete" => jobs'[i].target # op.target
      BY <1>8, <2>1
    <2>3. ASSUME NEW i \in 1 .. Len(results'), results'[i].kind = "delete"
          PROVE  results'[i].target # op.target
      <3>1. CASE i \in 1 .. n
        BY <1>6, <2>1, <2>3, <3>1
      <3>2. CASE i - n \in 1 .. p /\ i = n + (i - n)
        <4>1. /\ results'[i].target = jobs[h[i - n]].target
              /\ h[i - n] \in 1 .. Len(jobs) /\ jobs[h[i - n]].kind = "delete"
          BY <1>7, <3>2
        <4> QED BY <2>1, <4>1
      <3> QED BY <1>10, <3>1, <3>2
    <2> QED BY <2>1, <2>2, <2>3
  <1> QED BY <1>1, <1>11, <1>12, <1>13, <1>14 DEF FreeInv

(* pl.c:436: a playlist's deletion takes its turn behind all jobs and      *)
(* results that may refer to the playlist.                                 *)
LEMMA FreeStep ==
  ASSUME TypeInv, SignalInv, RemovalInv, FreeInv, Next
  PROVE  FreeInv'
  <1>1. CASE W_take
    <2>1. UNCHANGED <<pcM, op, results, freed, pls>> /\ jobs # <<>> /\ jobs' = Tail(jobs) /\ cur' = Head(jobs)
      BY <1>1 DEF W_take, worker, outbox, main, lists, ghosts, WUnchanged, NoFile, MUnchanged, Back
    <2> DEFINE n == Len(jobs)
    <2>2. /\ cur' = jobs[1] /\ n \in Nat \ {0} /\ Len(jobs') = n - 1
          /\ \A i \in 1 .. n - 1 : jobs'[i] = jobs[i + 1] /\ i + 1 \in 1 .. n
          /\ 1 \in 1 .. n
      BY <2>1, TailFacts DEF TypeInv, JobsTyped
    <2>3. Gone' = Gone
      BY <2>1 DEF Gone
    <2> HIDE DEF n
    <2>4. NoUseAfterFree'
      BY <2>1, <2>2 DEF n, FreeInv, NoUseAfterFree
    <2>5. JobsDeletion'
      <3>1. cur'.kind = "delete" => cur'.target \in Gone'
        BY <2>2, <2>3 DEF n, FreeInv, JobsDeletion
      <3>2. ASSUME NEW i \in 1 .. Len(jobs')
            PROVE  /\ jobs'[i].kind = "delete" => jobs'[i].target \in Gone'
                   /\ jobs'[i].kind = "delete" \/ cur'.kind = "delete" => jobs'[i].target # cur'.target
        <4>1. jobs'[i] = jobs[i + 1] /\ i + 1 \in 1 .. n /\ i + 1 # 1
          BY <2>2
        <4> QED BY <2>2, <2>3, <4>1 DEF n, FreeInv, JobsDeletion
      <3>3. ASSUME NEW i \in 1 .. Len(jobs'), NEW j \in 1 .. Len(jobs'), i # j, jobs'[i].kind = "delete"
            PROVE  jobs'[j].target # jobs'[i].target
        <4>1. /\ jobs'[i] = jobs[i + 1] /\ i + 1 \in 1 .. n
              /\ jobs'[j] = jobs[j + 1] /\ j + 1 \in 1 .. n /\ i + 1 # j + 1
          BY <2>2, <3>3
        <4> QED BY <3>3, <4>1 DEF n, FreeInv, JobsDeletion
      <3> QED BY <3>1, <3>2, <3>3 DEF JobsDeletion
    <2>6. ResultsDeletion'
      BY <2>1, <2>2, <2>3 DEF n, FreeInv, ResultsDeletion
    <2>7. DeletingInv'
      BY <2>1, <2>2, <2>3 DEF n, FreeInv, DeletingInv, Removing
    <2> QED BY <2>1, <2>3, <2>4, <2>5, <2>6, <2>7 DEF FreeInv
  <1>2. CASE OneFile
    <2>1. UNCHANGED <<jobs, cur, freed, pls, op, pcM>> /\ cur # NoJob /\ cur.kind \in Adds
      BY <1>2 DEF OneFile, Adds, TypeInv, JobsTyped, worker, outbox, main, lists, ghosts,
         WUnchanged, NoFile, MUnchanged, Back
    <2>2. CASE Len(buf) = TI_CAP
      <3>1. job_push_result(Result(cur.kind, cur.target, buf))
        BY <1>2, <2>2 DEF OneFile, add_ti, flush_ti_buffer
      <3>2. Result(cur.kind, cur.target, buf) \in ResultSet
        BY <2>1, ResultsMade DEF TypeInv, JobsTyped, JobOK, FilesTyped
      <3>3. ResultAdded(Result(cur.kind, cur.target, buf))
        BY <3>1, <3>2, ResultIsAdded DEF TypeInv, ResultsTyped
      <3> QED BY <2>1, <3>3, FreeResultAdded DEF Result, Adds
    <2>3. CASE Len(buf) # TI_CAP
      <3>1. UNCHANGED results
        BY <1>2, <2>3 DEF OneFile, add_ti
      <3> QED BY <2>1, <3>1 DEF FreeInv, NoUseAfterFree, JobsDeletion, ResultsDeletion,
         DeletingInv, Removing, Gone
    <2> QED BY <2>2, <2>3
  <1>3. CASE W_add_end
    <2>1. UNCHANGED <<jobs, cur, freed, pls, op, pcM>> /\ cur # NoJob /\ cur.kind \in Adds
      BY <1>3 DEF W_add_end, Adds, TypeInv, JobsTyped, worker, outbox, main, lists, ghosts,
         WUnchanged, NoFile, MUnchanged, Back
    <2>2. CASE buf # <<>>
      <3>1. job_push_result(Result(cur.kind, cur.target, buf))
        BY <1>3, <2>2 DEF W_add_end, flush_ti_buffer
      <3>2. Result(cur.kind, cur.target, buf) \in ResultSet
        BY <2>1, ResultsMade DEF TypeInv, JobsTyped, JobOK, FilesTyped
      <3>3. ResultAdded(Result(cur.kind, cur.target, buf))
        BY <3>1, <3>2, ResultIsAdded DEF TypeInv, ResultsTyped
      <3> QED BY <2>1, <3>3, FreeResultAdded DEF Result, Adds
    <2>3. CASE buf = <<>>
      <3>1. UNCHANGED results
        BY <1>3, <2>3 DEF W_add_end
      <3> QED BY <2>1, <3>1 DEF FreeInv, NoUseAfterFree, JobsDeletion, ResultsDeletion,
         DeletingInv, Removing, Gone
    <2> QED BY <2>2, <2>3
  <1>4. CASE W_update
    <2>1. UNCHANGED <<jobs, cur, freed, pls, op, pcM>> /\ cur # NoJob /\ cur.target = "lib"
      BY <1>4 DEF W_update, TypeInv, JobsTyped, JobOK, worker, outbox, main, lists, ghosts,
         WUnchanged, NoFile, MUnchanged, Back
    <2>2. PICK gone \in SUBSET cur.files, changed \in SUBSET cur.files :
            job_push_result(Result("update", "lib", <<gone, changed>>))
      BY <1>4 DEF W_update
    <2> DEFINE r == Result("update", "lib", <<gone, changed>>)
    <2>3. r \in ResultSet
      <3>1. gone \subseteq Files /\ changed \subseteq Files
        BY DEF TypeInv, JobsTyped, JobSet
      <3> QED BY <3>1, ResultsMade
    <2>4. ResultAdded(r)
      BY <2>2, <2>3, ResultIsAdded DEF TypeInv, ResultsTyped
    <2>5. r.kind # "delete" /\ r.target = cur.target
      BY <2>1 DEF Result
    <2> HIDE DEF r
    <2> QED BY <2>1, <2>4, <2>5, FreeResultAdded
  <1>5. CASE W_free
    <2>1. UNCHANGED <<jobs, freed, pls, op, pcM>> /\ cur' = NoJob
      BY <1>5 DEF W_free, worker, outbox, main, lists, ghosts, WUnchanged, NoFile, MUnchanged, Back
    <2>2. Gone' = Gone /\ (freed \subseteq Gone)' /\ cur'.kind = "none" /\ cur'.target = "none"
      BY <2>1, NoJobFacts DEF Gone, FreeInv
    <2>3. "none" \notin Gone /\ "none" \notin freed
      BY NotGone
    <2>4. JobsDeletion'
      <3>1. \A i \in 1 .. Len(jobs') : jobs'[i].kind = "delete" => jobs'[i].target # "none"
        BY <2>1, <2>3, NotGone
      <3> QED BY <2>1, <2>2, <3>1 DEF FreeInv, JobsDeletion
    <2>5. CASE cur.kind = "delete"
      <3> DEFINE r == Result("delete", cur.target, <<>>)
                 n == Len(results)
      <3>1. job_push_result(r) /\ cur.target \in Playlists
        BY <1>5, <2>5 DEF W_free, TypeInv, JobsTyped, JobOK
      <3>2. r \in ResultSet
        BY <3>1, ResultsMade
      <3>3. ResultAdded(r)
        BY <3>1, <3>2, ResultIsAdded DEF TypeInv, ResultsTyped
      <3>4. r.kind = "delete" /\ r.target = cur.target
        BY DEF Result
      <3> HIDE DEF r
      <3>5. /\ n \in Nat /\ Len(results') = n + 1 /\ results'[n + 1] = r
            /\ \A i \in 1 .. n : results'[i] = results[i]
        BY <3>3 DEF ResultAdded
      <3>6. NoUseAfterFree'
        BY <2>1, <2>2, <2>3, <3>4, <3>5 DEF FreeInv, NoUseAfterFree
      <3>7. ASSUME NEW i \in 1 .. n, results[i].kind = "delete"
            PROVE  /\ results[i].target \in Gone /\ results[i].target # "none"
                   /\ \A j \in 1 .. Len(jobs) : jobs[j].target # results[i].target
                   /\ \A j \in 1 .. n + 1 : i < j => results'[j].target # results[i].target
        BY <2>3, <3>4, <3>5, <3>7 DEF FreeInv, ResultsDeletion
      <3>8. /\ r.target \in Gone /\ r.target # "none"
            /\ \A j \in 1 .. Len(jobs) : jobs[j].target # r.target
        BY <2>3, <2>5, <3>4 DEF FreeInv, JobsDeletion
      <3>9. ResultsDeletion'
        <4> SUFFICES ASSUME NEW i \in 1 .. Len(results'), results'[i].kind = "delete"
                     PROVE  /\ results'[i].target \in Gone'
                            /\ results'[i].target # cur'.target
                            /\ \A j \in 1 .. Len(jobs') : jobs'[j].target # results'[i].target
                            /\ \A j \in 1 .. Len(results') : i < j => results'[j].target # results'[i].target
          BY DEF ResultsDeletion
        <4>1. CASE i \in 1 .. n
          BY <2>1, <2>2, <3>5, <3>7, <4>1
        <4>2. CASE i = n + 1
          BY <2>1, <2>2, <3>5, <3>8, <4>2
        <4> QED BY <3>5, <4>1, <4>2
      <3>10. DeletingInv'
        BY <2>1, <2>2, <2>5, <3>4, <3>5 DEF FreeInv, DeletingInv, Removing
      <3> QED BY <2>2, <2>4, <3>6, <3>9, <3>10 DEF FreeInv
    <2>6. CASE cur.kind # "delete"
      <3>1. UNCHANGED results
        BY <1>5, <2>6 DEF W_free
      <3>2. NoUseAfterFree' /\ DeletingInv'
        BY <2>1, <2>2, <2>3, <3>1 DEF FreeInv, NoUseAfterFree, DeletingInv, Removing
      <3>3. ResultsDeletion'
        BY <2>1, <2>2, <2>3, <3>1 DEF FreeInv, ResultsDeletion
      <3> QED BY <2>2, <2>4, <3>2, <3>3 DEF FreeInv
    <2> QED BY <2>5, <2>6
  <1>6. CASE cmus_update_lib
    <2> DEFINE j == Job(ids + 1, "update", "lib", bags["lib"], FALSE)
    <2>1. worker_add_jobs(<<j>>) /\ UNCHANGED <<cur, results, freed, pls>> /\ pcM' = "loop"
      BY <1>6 DEF cmus_update_lib, worker, outbox, main, lists, ghosts, WUnchanged, NoFile,
         MUnchanged, Back
    <2>2. j.target \in {"lib", "queue"} \cup pls /\ j.kind # "delete" /\ j \in JobSet
      <3>1. bags["lib"] \subseteq Files
        BY SortedAssumption DEF TypeInv, FilesTyped
      <3>2. j \in JobSet
        BY <3>1, JobsMade DEF TypeInv, JobsTyped
      <3>3. j.target = "lib" /\ j.kind = "update"
        BY DEF Job
      <3> QED BY <3>2, <3>3
    <2> HIDE DEF j
    <2>3. JobAdded(j)
      BY <2>1, <2>2, JobIsAdded DEF TypeInv, JobsTyped
    <2>4. j.target \notin Gone /\ j.target \notin freed
      BY <2>2, NotGone
    <2>5. (NoUseAfterFree /\ freed \subseteq Gone /\ JobsDeletion /\ ResultsDeletion)'
      BY <2>1, <2>2, <2>3, <2>4, NotGone, FreeJobAdded
    <2>6. DeletingInv'
      BY <2>1 DEF DeletingInv, Removing
    <2> QED BY <2>5, <2>6 DEF FreeInv
  <1>7. CASE Add
    <2>a. PICK kind \in {"add", "prepend"}, target \in {"lib", "queue"} \cup Used : cmus_add(kind, target)
      BY <1>7 DEF Add
    <2>0. PICK walk \in BOOLEAN : worker_add_jobs(<<Job(ids + 1, kind, target, {}, walk)>>)
      BY <2>a DEF cmus_add
    <2> DEFINE j == Job(ids + 1, kind, target, {}, walk)
    <2>1. worker_add_jobs(<<j>>) /\ UNCHANGED <<cur, results, freed, pls>> /\ pcM' = "loop"
      BY <2>a, <2>0 DEF cmus_add, worker, outbox, main, lists, ghosts, WUnchanged, NoFile, MUnchanged,
         Back
    <2>2. j.target \in {"lib", "queue"} \cup pls /\ j.kind # "delete" /\ j \in JobSet
      BY <2>a, <2>0, JobsMade, CommandsAssumption DEF cmus_add, Job, TypeInv, JobsTyped,
         ControlTyped, Targets, Adds
    <2> HIDE DEF j
    <2>3. JobAdded(j)
      BY <2>1, <2>2, JobIsAdded DEF TypeInv, JobsTyped
    <2>4. j.target \notin Gone /\ j.target \notin freed
      BY <2>2, NotGone
    <2>5. (NoUseAfterFree /\ freed \subseteq Gone /\ JobsDeletion /\ ResultsDeletion)'
      BY <2>1, <2>2, <2>3, <2>4, NotGone, FreeJobAdded
    <2>6. DeletingInv'
      BY <2>1 DEF DeletingInv, Removing
    <2> QED BY <2>5, <2>6 DEF FreeInv
  <1>8. CASE Clear
    <2>1. UNCHANGED <<jobs, cur, results, freed, pls>> /\ (Removing' => op'.name # "delete")
      BY <1>8 DEF Clear, Begin, Removing, worker, outbox, main, lists, ghosts, WUnchanged, NoFile,
         MUnchanged, Back
    <2>2. NoUseAfterFree' /\ (freed \subseteq Gone)' /\ JobsDeletion' /\ ResultsDeletion'
      BY <2>1 DEF FreeInv, NoUseAfterFree, JobsDeletion, ResultsDeletion, Gone
    <2>3. DeletingInv'
      BY <2>1 DEF DeletingInv
    <2> QED BY <2>2, <2>3 DEF FreeInv
  <1>9. CASE Delete
    <2>1. PICK pl \in Used \cap pls : Begin("delete", pl)
      BY <1>9 DEF Delete
    <2>2. /\ UNCHANGED <<jobs, cur, results, freed>> /\ pls' = pls \ {pl}
          /\ op'.name = "delete" /\ op'.target = pl /\ pl \in pls
      BY <2>1 DEF Begin, worker, outbox, main, lists, ghosts, WUnchanged, NoFile, MUnchanged, Back
    <2>3. Gone' = Gone \cup {pl} /\ pl \notin Gone /\ pl \notin freed
      BY <2>2, NotGone DEF Gone, TypeInv, ControlTyped
    <2>4. NoUseAfterFree' /\ (freed \subseteq Gone)'
      BY <2>2, <2>3 DEF FreeInv, NoUseAfterFree
    <2>5. JobsDeletion' /\ ResultsDeletion'
      BY <2>2, <2>3 DEF FreeInv, JobsDeletion, ResultsDeletion
    <2>6. DeletingInv'
      BY <2>2, <2>3, NotGone DEF DeletingInv
    <2> QED BY <2>4, <2>5, <2>6 DEF FreeInv
  <1>10. CASE Quit
    <2>1. UNCHANGED <<jobs, cur, results, freed, pls>> /\ (Removing' => op'.name # "delete")
      BY <1>10 DEF Quit, Begin, Removing, worker, outbox, main, lists, ghosts, WUnchanged, NoFile,
         MUnchanged, Back
    <2>2. NoUseAfterFree' /\ (freed \subseteq Gone)' /\ JobsDeletion' /\ ResultsDeletion'
      BY <2>1 DEF FreeInv, NoUseAfterFree, JobsDeletion, ResultsDeletion, Gone
    <2>3. DeletingInv'
      BY <2>1 DEF DeletingInv
    <2> QED BY <2>2, <2>3 DEF FreeInv
  <1>11. CASE worker_remove_jobs_by_cb
    BY <1>11, FreeRemove
  <1>12. CASE M_cancelled
    <2>1. UNCHANGED <<jobs, cur, results, freed, pls, op>> /\ (Removing' => Removing)
      BY <1>12 DEF M_cancelled, Removing, worker, outbox, main, lists, ghosts, WUnchanged, NoFile,
         MUnchanged, Back
    <2>2. NoUseAfterFree' /\ (freed \subseteq Gone)' /\ JobsDeletion' /\ ResultsDeletion'
      BY <2>1 DEF FreeInv, NoUseAfterFree, JobsDeletion, ResultsDeletion, Gone
    <2>3. DeletingInv'
      BY <2>1 DEF FreeInv, DeletingInv, Gone
    <2> QED BY <2>2, <2>3 DEF FreeInv
  <1>13. CASE M_cleared
    <2>1. UNCHANGED <<jobs, cur, results, freed, pls>> /\ (Removing' => op'.name # "delete")
      BY <1>13 DEF M_cleared, Removing, worker, outbox, main, lists, ghosts, WUnchanged, NoFile,
         MUnchanged, Back
    <2>2. NoUseAfterFree' /\ (freed \subseteq Gone)' /\ JobsDeletion' /\ ResultsDeletion'
      BY <2>1 DEF FreeInv, NoUseAfterFree, JobsDeletion, ResultsDeletion, Gone
    <2>3. DeletingInv'
      BY <2>1 DEF DeletingInv
    <2> QED BY <2>2, <2>3 DEF FreeInv
  <1>14. CASE M_deleted
    <2> DEFINE j == Job(ids + 1, "delete", op.target, {}, FALSE)
    <2>1. worker_add_jobs(<<j>>) /\ UNCHANGED <<cur, results, freed, pls>> /\ pcM' = "loop"
      BY <1>14 DEF M_deleted, worker, outbox, main, lists, ghosts, WUnchanged, NoFile, MUnchanged,
         Back
    <2>2. pcM = "removed" /\ op.name = "delete" /\ op.target \in Playlists
      BY <1>14 DEF M_deleted, TypeInv, OpOK, Removing
    <2>3. j.kind = "delete" /\ j.target = op.target /\ j \in JobSet
      BY <2>2, JobsMade DEF TypeInv, JobsTyped, Job
    <2> HIDE DEF j
    <2>4. JobAdded(j)
      BY <2>1, <2>3, JobIsAdded DEF TypeInv, JobsTyped
    <2>5. /\ op.target \in Gone \ freed
          /\ \A i \in 1 .. Len(jobs) : jobs[i].kind = "delete" => jobs[i].target # op.target
          /\ \A i \in 1 .. Len(results) : results[i].kind = "delete" => results[i].target # op.target
          /\ cur.kind = "delete" => cur.target # op.target
      BY <2>2 DEF FreeInv, DeletingInv, Removing
    <2>6. op.target # "lib" /\ op.target # "queue" /\ op.target # "none"
      BY <2>2, PlaylistsAssumption
    <2>7. \A x : Matches(x, op) <=> x.kind \in {"add", "prepend"} /\ x.target = op.target
      BY <2>2, <2>6 DEF Matches
    <2>8. \A i \in 1 .. Len(jobs) : jobs[i].target # op.target
      <3> SUFFICES ASSUME NEW i \in 1 .. Len(jobs), jobs[i].target = op.target PROVE FALSE
        OBVIOUS
      <3>1. JobOK(jobs[i], found, ids) /\ ~Matches(jobs[i], op)
        BY <2>2 DEF TypeInv, JobsTyped, RemovalInv
      <3> QED BY <2>5, <2>6, <2>7, <3>1 DEF JobOK, JobKinds
    <2>9. cur.target # op.target
      <3>1. CASE cur = NoJob
        BY <2>6, <3>1, NoJobFacts
      <3>2. CASE cur # NoJob
        <4>1. ~cancel
          BY <2>2 DEF SignalInv
        <4>2. JobOK(cur, found, ids) /\ ~Matches(cur, op)
          BY <2>2, <3>2, <4>1 DEF TypeInv, JobsTyped, RemovalInv
        <4> QED BY <2>5, <2>6, <2>7, <4>2 DEF JobOK, JobKinds
      <3> QED BY <3>1, <3>2
    <2>10. (NoUseAfterFree /\ freed \subseteq Gone /\ JobsDeletion /\ ResultsDeletion)'
      BY <2>1, <2>3, <2>4, <2>5, <2>8, <2>9, FreeJobAdded
    <2>11. DeletingInv'
      BY <2>1 DEF DeletingInv, Removing
    <2> QED BY <2>10, <2>11 DEF FreeInv
  <1>15. CASE worker_exit
    <2>1. UNCHANGED <<jobs, cur, results, freed, pls>> /\ (Removing' => op'.name # "delete")
      BY <1>15 DEF worker_exit, Removing, worker, outbox, main, lists, ghosts, WUnchanged, NoFile,
         MUnchanged, Back
    <2>2. NoUseAfterFree' /\ (freed \subseteq Gone)' /\ JobsDeletion' /\ ResultsDeletion'
      BY <2>1 DEF FreeInv, NoUseAfterFree, JobsDeletion, ResultsDeletion, Gone
    <2>3. DeletingInv'
      BY <2>1 DEF DeletingInv
    <2> QED BY <2>2, <2>3 DEF FreeInv
  <1>16. CASE M_joined
    <2>1. UNCHANGED <<jobs, cur, results, freed, pls, op>> /\ (Removing' => Removing)
      BY <1>16 DEF M_joined, Removing, worker, outbox, main, lists, ghosts, WUnchanged, NoFile,
         MUnchanged, Back
    <2>2. NoUseAfterFree' /\ (freed \subseteq Gone)' /\ JobsDeletion' /\ ResultsDeletion'
      BY <2>1 DEF FreeInv, NoUseAfterFree, JobsDeletion, ResultsDeletion, Gone
    <2>3. DeletingInv'
      BY <2>1 DEF FreeInv, DeletingInv, Gone
    <2> QED BY <2>2, <2>3 DEF FreeInv
  <1>17. CASE job_handle
    <2>1. UNCHANGED <<jobs, cur, results, freed, pls, op>> /\ (Removing' => Removing)
      BY <1>17 DEF job_handle, Removing, worker, outbox, main, lists, ghosts, WUnchanged, NoFile,
         MUnchanged, Back
    <2>2. NoUseAfterFree' /\ (freed \subseteq Gone)' /\ JobsDeletion' /\ ResultsDeletion'
      BY <2>1 DEF FreeInv, NoUseAfterFree, JobsDeletion, ResultsDeletion, Gone
    <2>3. DeletingInv'
      BY <2>1 DEF FreeInv, DeletingInv, Gone
    <2> QED BY <2>2, <2>3 DEF FreeInv
  <1>18. CASE job_handle_result
    <2> DEFINE r == Head(results)
               n == Len(results)
    <2>1. /\ UNCHANGED <<cur, pls>> /\ results # <<>> /\ results' = Tail(results) /\ pcM' = "handle"
          /\ freed' = IF r.kind = "delete" THEN freed \cup {r.target} ELSE freed
          /\ UNCHANGED <<jobs, waiting>> \/ worker_add_jobs(<<Job(ids + 1, "add", "lib", {}, FALSE)>>)
      BY <1>18 DEF job_handle_result, worker, outbox, main, lists, ghosts, WUnchanged, NoFile,
         MUnchanged, Back
    <2>2. /\ r = results[1] /\ n \in Nat \ {0} /\ Len(results') = n - 1 /\ 1 \in 1 .. n
          /\ \A i \in 1 .. n - 1 : results'[i] = results[i + 1] /\ i + 1 \in 1 .. n
      BY <2>1, TailFacts DEF TypeInv, ResultsTyped
    <2> HIDE DEF r, n
    <2>3. Gone' = Gone
      BY <2>1 DEF Gone
    <2>4. /\ (freed \subseteq Gone)'
          /\ cur.target \notin freed' /\ "lib" \notin freed'
          /\ \A i \in 1 .. Len(jobs) : jobs[i].target \notin freed'
          /\ \A i \in 1 .. Len(results') : results'[i].target \notin freed'
      <3>1. CASE r.kind = "delete"
        <4>1. /\ r.target \in Gone /\ r.target # cur.target
              /\ \A j \in 1 .. Len(jobs) : jobs[j].target # r.target
              /\ \A j \in 1 .. n : 1 < j => results[j].target # r.target
          BY <2>2, <3>1 DEF n, FreeInv, ResultsDeletion
        <4>2. \A i \in 1 .. n - 1 : results'[i].target # r.target
          BY <2>2, <4>1
        <4>3. "lib" \notin Gone
          BY NotGone
        <4>4. freed' = freed \cup {r.target}
          BY <2>1, <3>1
        <4> QED BY <2>2, <2>3, <4>1, <4>2, <4>3, <4>4 DEF n, FreeInv, NoUseAfterFree
      <3>2. CASE r.kind # "delete"
        <4>1. freed' = freed /\ "lib" \notin freed
          BY <2>1, <3>2, NotGone
        <4> QED BY <2>2, <2>3, <4>1 DEF n, FreeInv, NoUseAfterFree
      <3> QED BY <3>1, <3>2
    <2>5. DeletingInv'
      BY <2>1 DEF DeletingInv, Removing
    <2>6. ASSUME NEW i \in 1 .. Len(results'), results'[i].kind = "delete"
          PROVE  /\ results'[i].target \in Gone
                 /\ results'[i].target # cur.target /\ results'[i].target # "lib"
                 /\ \A j \in 1 .. Len(jobs) : jobs[j].target # results'[i].target
                 /\ \A j \in 1 .. Len(results') : i < j => results'[j].target # results'[i].target
      <3>1. results'[i] = results[i + 1] /\ i + 1 \in 1 .. n
        BY <2>2
      <3>2. /\ results'[i].target \in Gone /\ results'[i].target # cur.target
            /\ \A j \in 1 .. Len(jobs) : jobs[j].target # results'[i].target
            /\ \A j \in 1 .. n : i + 1 < j => results[j].target # results[i + 1].target
        BY <2>6, <3>1 DEF n, FreeInv, ResultsDeletion
      <3>3. "lib" \notin Gone
        BY NotGone
      <3>4. \A j \in 1 .. Len(results') : i < j => results'[j].target # results'[i].target
        BY <2>2, <3>1, <3>2
      <3> QED BY <3>2, <3>3, <3>4
    <2>7. CASE UNCHANGED jobs
      <3>1. NoUseAfterFree'
        BY <2>1, <2>4, <2>7 DEF NoUseAfterFree
      <3>2. JobsDeletion'
        BY <2>1, <2>3, <2>7 DEF FreeInv, JobsDeletion
      <3>3. ResultsDeletion'
        BY <2>1, <2>3, <2>6, <2>7 DEF ResultsDeletion
      <3> QED BY <2>4, <2>5, <3>1, <3>2, <3>3 DEF FreeInv
    <2>8. CASE worker_add_jobs(<<Job(ids + 1, "add", "lib", {}, FALSE)>>)
      <3> DEFINE a == Job(ids + 1, "add", "lib", {}, FALSE)
                 m == Len(jobs)
      <3>1. a \in JobSet /\ a.kind = "add" /\ a.target = "lib"
        BY JobsMade DEF TypeInv, JobsTyped, Targets, Adds, Job
      <3>2. JobAdded(a)
        BY <2>8, <3>1, JobIsAdded DEF TypeInv, JobsTyped
      <3> HIDE DEF a
      <3>3. /\ m \in Nat /\ Len(jobs') = m + 1 /\ jobs'[m + 1] = a
            /\ \A i \in 1 .. m : jobs'[i] = jobs[i]
        BY <3>2 DEF JobAdded
      <3>4. NoUseAfterFree'
        BY <2>1, <2>4, <3>1, <3>3 DEF NoUseAfterFree
      <3>5. JobsDeletion'
        <4>1. "lib" \notin Gone
          BY NotGone
        <4>2. \A i \in 1 .. m : jobs[i].kind = "delete" => jobs[i].target # "lib"
          BY <4>1, NotGone
        <4>3. cur.kind = "delete" => cur.target \in Gone /\ cur.target # "lib"
          BY <4>1, NotGone
        <4>4. ASSUME NEW i \in 1 .. Len(jobs')
              PROVE  /\ jobs'[i].kind = "delete" => jobs'[i].target \in Gone'
                     /\ jobs'[i].kind = "delete" \/ cur'.kind = "delete" => jobs'[i].target # cur'.target
          BY <2>1, <2>3, <3>1, <3>3, <4>3 DEF FreeInv, JobsDeletion
        <4>5. ASSUME NEW i \in 1 .. Len(jobs'), NEW k \in 1 .. Len(jobs'), i # k, jobs'[i].kind = "delete"
              PROVE  jobs'[k].target # jobs'[i].target
          BY <3>1, <3>3, <4>2, <4>5 DEF FreeInv, JobsDeletion
        <4> QED BY <2>1, <2>3, <4>3, <4>4, <4>5 DEF JobsDeletion
      <3>6. ResultsDeletion'
        <4>1. ASSUME NEW i \in 1 .. Len(results'), results'[i].kind = "delete",
                     NEW j \in 1 .. Len(jobs')
              PROVE  jobs'[j].target # results'[i].target
          <5>1. CASE j \in 1 .. m
            BY <2>6, <3>3, <4>1, <5>1
          <5>2. CASE j = m + 1
            BY <2>6, <3>1, <3>3, <4>1, <5>2
          <5> QED BY <3>3, <5>1, <5>2
        <4> QED BY <2>1, <2>3, <2>6, <4>1 DEF ResultsDeletion
      <3> QED BY <2>4, <2>5, <3>4, <3>5, <3>6 DEF FreeInv
    <2> QED BY <2>1, <2>7, <2>8
  <1>19. CASE M_handled
    <2>1. UNCHANGED <<jobs, cur, results, freed, pls, op>> /\ (Removing' => Removing)
      BY <1>19 DEF M_handled, Removing, worker, outbox, main, lists, ghosts, WUnchanged, NoFile,
         MUnchanged, Back
    <2>2. NoUseAfterFree' /\ (freed \subseteq Gone)' /\ JobsDeletion' /\ ResultsDeletion'
      BY <2>1 DEF FreeInv, NoUseAfterFree, JobsDeletion, ResultsDeletion, Gone
    <2>3. DeletingInv'
      BY <2>1 DEF FreeInv, DeletingInv, Gone
    <2> QED BY <2>2, <2>3 DEF FreeInv
  <1>20. CASE \/ W_wait \/ W_wake \/ W_stop \/ W_notify
            \/ W_delete \/ worker_start \/ Save
    <2>1. UNCHANGED <<jobs, cur, results, freed, pls, op, pcM>>
      BY <1>20 DEF W_wait, W_wake, W_stop, W_notify, W_delete, worker_start, Save,
         view_save,
         worker, outbox, main, lists, ghosts, WUnchanged, NoFile, MUnchanged, Back
    <2> QED BY <2>1 DEF FreeInv, NoUseAfterFree, JobsDeletion, ResultsDeletion,
                         DeletingInv, Removing, Gone
  <1> QED BY <1>1, <1>2, <1>3, <1>4, <1>5, <1>6, <1>7, <1>8, <1>9, <1>10, <1>11, <1>12,
     <1>13, <1>14, <1>15, <1>16, <1>17, <1>18, <1>19, <1>20, NextCases

-----------------------------------------------------------------------------
(* The files that jobs find. *)

(* The next file is none of those found, and after all of its job's. *)
LEMMA NextFileFacts ==
  ASSUME TypeInv, IdInv, cur # NoJob, cur.kind \in Adds
  PROVE  /\ IsFiniteSet(Mine) /\ Cardinality(Mine) \in Nat
         /\ NextFile \in Files /\ NextFile[1] = cur.id
         /\ NextFile[3] = Cardinality(Mine) + 1
         /\ NextPlace \in 1 .. Cardinality(Mine) + 1
         /\ Depth(NextFile, cur.kind) = NextPlace
         /\ \A f \in Mine : Depth(f, cur.kind) <= NextPlace
         /\ NextFile \notin found
         /\ \A f \in found : Before(f, NextFile, cur.kind)
  <1> DEFINE n == Cardinality(Mine)
             p == NextPlace
  <1>1. IsFiniteSet(Mine)
    BY FS_Subset DEF Mine, TypeInv, FilesTyped
  <1>2. n \in Nat /\ cur.id \in Nat /\ sheet \in Nat
    BY <1>1, FS_CardinalityType DEF TypeInv, JobsTyped, JobSet, ControlTyped
  <1>3. NextFile = <<cur.id, IF cur.kind = "prepend" THEN -p ELSE p, n + 1>>
    BY DEF NextFile, File, Number
  <1>4. /\ sheet # 0 => sheet <= n
        /\ \A f \in Mine : /\ f[3] <= n /\ Depth(f, cur.kind) \in 1 .. n
                           /\ sheet # 0 => Depth(f, cur.kind) <= sheet
    BY DEF IdInv, DepthInv
  <1>5. \A f \in found : f \in Files /\ f[2] \in Int /\ f[3] \in Nat
    BY DEF TypeInv, FilesTyped, Files
  <1>a. p = IF sheet = 0 THEN n + 1 ELSE sheet
    BY DEF NextPlace, Number
  <1> HIDE DEF n, p
  <1>b. p \in 1 .. n + 1
    BY <1>2, <1>4, <1>a
  <1>c. \A f \in Mine : Depth(f, cur.kind) \in 1 .. n /\ Depth(f, cur.kind) <= p
    BY <1>2, <1>4, <1>a
  <1>6. /\ NextFile \in Files /\ NextFile[1] = cur.id /\ NextFile[2] \in Int
        /\ NextFile[3] = n + 1
        /\ NextFile[2] = IF cur.kind = "prepend" THEN -p ELSE p
    BY <1>2, <1>3, <1>b DEF Files
  <1>d. Depth(NextFile, cur.kind) = p
    BY <1>6, <1>b DEF Depth
  <1>7. ASSUME NEW f \in found PROVE Before(f, NextFile, cur.kind)
    <2> SUFFICES ASSUME f[1] = NextFile[1]
                 PROVE  /\ f[3] < NextFile[3]
                        /\ IF cur.kind = "prepend" THEN NextFile[2] <= f[2] /\ NextFile[2] < 0
                           ELSE f[2] <= NextFile[2] /\ f[2] > 0
      BY DEF Before
    <2>1. f \in Mine
      BY <1>6 DEF Mine
    <2>2. f[3] <= n /\ f[3] \in Nat /\ f[2] \in Int
      BY <1>4, <1>5, <2>1
    <2>3. CASE cur.kind = "prepend"
      <3>1. -f[2] \in 1 .. n /\ -f[2] <= p /\ NextFile[2] = -p
        BY <1>c, <1>6, <2>1, <2>3 DEF Depth
      <3> QED BY <1>2, <1>6, <1>b, <2>2, <2>3, <3>1
    <2>4. CASE cur.kind # "prepend"
      <3>1. f[2] \in 1 .. n /\ f[2] <= p /\ NextFile[2] = p
        BY <1>c, <1>6, <2>1, <2>4 DEF Depth
      <3> QED BY <1>2, <1>6, <1>b, <2>2, <2>4, <3>1
    <2> QED BY <2>3, <2>4
  <1>8. NextFile \notin found
    <2> SUFFICES ASSUME NextFile \in found PROVE FALSE
      OBVIOUS
    <2>1. Before(NextFile, NextFile, cur.kind)
      BY <1>7
    <2> QED BY <1>2, <1>6, <2>1 DEF Before
  <1> QED BY <1>1, <1>2, <1>6, <1>7, <1>8, <1>b, <1>c, <1>d DEF n, p

(* A job with a fresh id. *)
LEMMA IdJobAdded ==
  ASSUME TypeInv, IdInv, NEW j, JobAdded(j), j.id = ids + 1, UNCHANGED <<cur, found, sheet>>,
         ids' = ids + 1
  PROVE  IdInv'
  <1> DEFINE n == Len(jobs)
  <1>1. /\ n \in Nat /\ Len(jobs') = n + 1 /\ jobs'[n + 1] = j
        /\ \A i \in 1 .. n : jobs'[i] = jobs[i]
    BY DEF JobAdded
  <1>2. /\ ids \in Nat /\ \A i \in 1 .. n : jobs[i].id \in 1 .. ids
        /\ cur # NoJob => cur.id \in 1 .. ids
    BY DEF TypeInv, JobsTyped, JobOK
  <1>3. Mine' = Mine
    BY DEF Mine
  <1> HIDE DEF n
  <1>4. ASSUME NEW i \in 1 .. n + 1
        PROVE  /\ \A f \in found : f[1] # jobs'[i].id
               /\ cur # NoJob => jobs'[i].id # cur.id
    <2>1. CASE i \in 1 .. n
      BY <1>1, <2>1 DEF n, IdInv
    <2>2. CASE i = n + 1
      BY <1>1, <1>2, <2>2 DEF IdInv
    <2> QED BY <1>1, <2>1, <2>2
  <1>5. ASSUME NEW i \in 1 .. n + 1, NEW k \in 1 .. n + 1, i # k PROVE jobs'[i].id # jobs'[k].id
    <2>1. CASE i \in 1 .. n /\ k \in 1 .. n
      BY <1>1, <1>5, <2>1 DEF n, IdInv
    <2>2. CASE i = n + 1
      <3>1. k \in 1 .. n
        BY <1>1, <1>5, <2>2
      <3>2. jobs'[k].id \in 1 .. ids
        BY <1>1, <1>2, <3>1
      <3>3. jobs'[i].id = ids + 1
        BY <1>1, <2>2
      <3> QED BY <1>2, <3>2, <3>3
    <2>3. CASE k = n + 1
      <3>1. i \in 1 .. n
        BY <1>1, <1>5, <2>3
      <3>2. jobs'[i].id \in 1 .. ids
        BY <1>1, <1>2, <3>1
      <3>3. jobs'[k].id = ids + 1
        BY <1>1, <2>3
      <3> QED BY <1>2, <3>2, <3>3
    <2> QED BY <1>1, <2>1, <2>2, <2>3
  <1>6. \A f \in found : f[1] \in 1 .. ids + 1
    BY <1>2 DEF IdInv
  <1> QED BY <1>1, <1>3, <1>4, <1>5, <1>6 DEF IdInv, DepthInv

(* Ids stay distinct, and a job comes to each of its files once. *)
LEMMA IdStep ==
  ASSUME TypeInv, IdInv, Next
  PROVE  IdInv'
  <1>1. CASE W_take
    <2>1. /\ UNCHANGED <<found, ids>> /\ jobs # <<>> /\ jobs' = Tail(jobs) /\ cur' = Head(jobs)
          /\ sheet' = 0
      BY <1>1 DEF W_take, TypeInv, ControlTyped, worker, outbox, main, lists, ghosts, WUnchanged, NoFile, MUnchanged, Back
    <2> DEFINE n == Len(jobs)
    <2>2. /\ cur' = jobs[1] /\ n \in Nat \ {0} /\ Len(jobs') = n - 1 /\ 1 \in 1 .. n
          /\ \A i \in 1 .. n - 1 : jobs'[i] = jobs[i + 1] /\ i + 1 \in 1 .. n
      BY <2>1, TailFacts DEF TypeInv, JobsTyped
    <2> HIDE DEF n
    <2>3. Mine' = {}
      BY <2>1, <2>2 DEF n, Mine, IdInv
    <2>4. ASSUME NEW i \in 1 .. n - 1
          PROVE  /\ \A f \in found : f[1] # jobs'[i].id
                 /\ jobs'[i].id # cur'.id
                 /\ \A j \in 1 .. n - 1 : i # j => jobs'[i].id # jobs'[j].id
      <3>1. /\ \A f \in found : f[1] # jobs[i + 1].id
            /\ \A k \in 1 .. n : i + 1 # k => jobs[i + 1].id # jobs[k].id
        BY <2>2 DEF n, IdInv
      <3>2. \A j \in 1 .. n - 1 : i # j => jobs'[i].id # jobs'[j].id
        <4> SUFFICES ASSUME NEW j \in 1 .. n - 1, i # j PROVE jobs'[i].id # jobs'[j].id
          OBVIOUS
        <4>1. jobs'[i] = jobs[i + 1] /\ jobs'[j] = jobs[j + 1] /\ j + 1 \in 1 .. n
          BY <2>2
        <4>2. i + 1 # j + 1
          BY <2>2
        <4> QED BY <3>1, <4>1, <4>2
      <3> QED BY <2>2, <3>1, <3>2
    <2> QED BY <2>1, <2>2, <2>3, <2>4 DEF IdInv, DepthInv
  <1>2. CASE OneFile
    <2> DEFINE f == NextFile
               n == Cardinality(Mine)
               p == NextPlace
    <2>1. /\ UNCHANGED <<jobs, cur, ids>> /\ found' = found \cup {f} /\ sheet' \in {0, p}
          /\ cur # NoJob /\ cur.kind \in Adds
      BY <1>2 DEF OneFile, Adds, TypeInv, JobsTyped, worker, outbox, main, lists, ghosts,
         WUnchanged, NoFile, MUnchanged, Back
    <2>2. /\ IsFiniteSet(Mine) /\ n \in Nat /\ f[1] = cur.id /\ f \notin found
          /\ f[3] = n + 1 /\ p \in 1 .. n + 1 /\ Depth(f, cur.kind) = p
          /\ \A g \in Mine : Depth(g, cur.kind) <= p
      BY <2>1, NextFileFacts
    <2> HIDE DEF f
    <2>3. Mine' = Mine \cup {f} /\ f \notin Mine
      BY <2>1, <2>2 DEF Mine
    <2>4. Cardinality(Mine') = n + 1
      BY <2>2, <2>3, FS_AddElement
    <2>5. \A g \in Mine : g[3] \in Nat /\ g[3] <= n /\ Depth(g, cur.kind) \in 1 .. n
      BY <2>1 DEF IdInv, DepthInv, Mine, TypeInv, FilesTyped, Files
    <2> DEFINE m == Cardinality(Mine')
    <2> HIDE DEF n, m, p
    <2>6. /\ sheet' # 0 => sheet' <= m
          /\ \A g \in Mine' : /\ g[3] <= m
                              /\ Depth(g, cur.kind) \in 1 .. m
                              /\ sheet' # 0 => Depth(g, cur.kind) <= sheet'
      <3>1. m = n + 1
        BY <2>4 DEF m
      <3>2. \A g \in Mine : g[3] <= m /\ Depth(g, cur.kind) \in 1 .. m
        BY <2>2, <2>5, <3>1
      <3>3. f[3] <= m /\ Depth(f, cur.kind) \in 1 .. m /\ Depth(f, cur.kind) <= p
        BY <2>2, <3>1
      <3>4. \A g \in Mine' : Depth(g, cur.kind) <= p
        BY <2>2, <2>3, <3>3
      <3>5. sheet' # 0 => sheet' = p /\ sheet' <= m
        BY <2>1, <2>2, <3>1
      <3> QED BY <2>3, <3>2, <3>3, <3>4, <3>5
    <2>7. cur.id \in 1 .. ids
      BY <2>1 DEF TypeInv, JobsTyped, JobOK
    <2>8. \A i \in 1 .. Len(jobs) : \A g \in found' : g[1] # jobs[i].id
      BY <2>1, <2>2 DEF IdInv
    <2>9. \A g \in found' : g[1] \in 1 .. ids
      BY <2>1, <2>2, <2>7 DEF IdInv
    <2>a. cur' = cur /\ jobs' = jobs /\ ids' = ids
      BY <2>1
    <2>b. cur'.kind \in Adds =>
            /\ sheet' # 0 => sheet' <= Cardinality(Mine')
            /\ \A g \in Mine' : /\ g[3] <= Cardinality(Mine')
                                /\ Depth(g, cur'.kind) \in 1 .. Cardinality(Mine')
                                /\ sheet' # 0 => Depth(g, cur'.kind) <= sheet'
      BY <2>a, <2>6 DEF m
    <2>c. \A g \in found' : g[1] \in 1 .. ids'
      BY <2>a, <2>9
    <2>d. \A i \in 1 .. Len(jobs') :
            /\ \A g \in found' : g[1] # jobs'[i].id
            /\ \A j \in 1 .. Len(jobs') : i # j => jobs'[i].id # jobs'[j].id
            /\ cur' # NoJob => jobs'[i].id # cur'.id
      <3>1. \A i \in 1 .. Len(jobs) :
              /\ \A j \in 1 .. Len(jobs) : i # j => jobs[i].id # jobs[j].id
              /\ cur # NoJob => jobs[i].id # cur.id
        BY DEF IdInv
      <3> HIDE DEF f
      <3> QED BY <2>a, <2>8, <3>1
    <2>e. DepthInv'
      BY <2>b DEF DepthInv, Depth
    <2> QED BY <2>c, <2>d, <2>e DEF IdInv
  <1>3. CASE W_free
    <2>1. UNCHANGED <<found, ids, jobs>> /\ cur' = NoJob /\ cur'.kind \notin Adds
      BY <1>3, NoJobFacts DEF W_free, Adds, worker, outbox, main, lists, ghosts, WUnchanged, NoFile,
         MUnchanged, Back
    <2> QED BY <2>1 DEF IdInv, DepthInv
  <1>4. CASE cmus_update_lib
    <2> DEFINE j == Job(ids + 1, "update", "lib", bags["lib"], FALSE)
    <2>1. worker_add_jobs(<<j>>) /\ UNCHANGED <<cur, found, sheet>> /\ ids' = ids + 1
      BY <1>4 DEF cmus_update_lib, worker, outbox, main, lists, ghosts, WUnchanged, NoFile,
         MUnchanged, Back
    <2>2. j \in JobSet /\ j.id = ids + 1
      BY <1>4, JobsMade, SortedAssumption, CommandsAssumption DEF cmus_update_lib, Job, Targets, Adds,
         Removing, TypeInv, JobsTyped, OpOK, FilesTyped
    <2> HIDE DEF j
    <2>3. JobAdded(j)
      BY <2>1, <2>2, JobIsAdded DEF TypeInv, JobsTyped
    <2> QED BY <2>1, <2>2, <2>3, IdJobAdded
  <1>5. CASE Add
    <2>a. PICK kind \in {"add", "prepend"}, target \in {"lib", "queue"} \cup Used : cmus_add(kind, target)
      BY <1>5 DEF Add
    <2>0. PICK walk \in BOOLEAN : worker_add_jobs(<<Job(ids + 1, kind, target, {}, walk)>>)
      BY <2>a DEF cmus_add
    <2> DEFINE j == Job(ids + 1, kind, target, {}, walk)
    <2>1. worker_add_jobs(<<j>>) /\ UNCHANGED <<cur, found, sheet>> /\ ids' = ids + 1
      BY <2>a, <2>0 DEF cmus_add, worker, outbox, main, lists, ghosts, WUnchanged, NoFile, MUnchanged,
         Back
    <2>2. j \in JobSet /\ j.id = ids + 1
      BY <2>a, <2>0, JobsMade, CommandsAssumption DEF cmus_add, Job, Targets, Adds, Removing,
         TypeInv, JobsTyped, OpOK, FilesTyped
    <2> HIDE DEF j
    <2>3. JobAdded(j)
      BY <2>1, <2>2, JobIsAdded DEF TypeInv, JobsTyped
    <2> QED BY <2>1, <2>2, <2>3, IdJobAdded
  <1>6. CASE worker_remove_jobs_by_cb
    <2>1. UNCHANGED <<cur, found, ids, sheet>> /\ jobs' = Kept
      BY <1>6 DEF worker_remove_jobs_by_cb, worker, outbox, main, lists, ghosts, WUnchanged, NoFile,
         MUnchanged, Back
    <2>2. jobs \in Seq(JobSet)
      BY DEF TypeInv, JobsTyped
    <2>3. PICK g \in [1 .. Len(Kept) -> 1 .. Len(jobs)] :
            /\ \A k \in 1 .. Len(Kept) : Kept[k] = jobs[g[k]]
            /\ \A k, l \in 1 .. Len(Kept) : k # l => g[k] # g[l]
      BY <2>2, KeptFacts
    <2>4. \A k \in 1 .. Len(jobs') : g[k] \in 1 .. Len(jobs) /\ jobs'[k] = jobs[g[k]]
      BY <2>1, <2>3
    <2>5. \A k, l \in 1 .. Len(jobs') : k # l => jobs'[k].id # jobs'[l].id
      BY <2>1, <2>3, <2>4 DEF IdInv
    <2>6. \A k \in 1 .. Len(jobs') : /\ \A f \in found : f[1] # jobs'[k].id
                                     /\ cur # NoJob => jobs'[k].id # cur.id
      BY <2>4 DEF IdInv
    <2> QED BY <2>1, <2>5, <2>6 DEF IdInv, DepthInv, Mine
  <1>7. CASE M_deleted
    <2> DEFINE j == Job(ids + 1, "delete", op.target, {}, FALSE)
    <2>1. worker_add_jobs(<<j>>) /\ UNCHANGED <<cur, found, sheet>> /\ ids' = ids + 1
      BY <1>7 DEF M_deleted, worker, outbox, main, lists, ghosts, WUnchanged, NoFile, MUnchanged,
         Back
    <2>2. j \in JobSet /\ j.id = ids + 1
      BY <1>7, JobsMade, CommandsAssumption DEF M_deleted, Job, Targets, Adds, Removing,
         TypeInv, JobsTyped, OpOK, FilesTyped
    <2> HIDE DEF j
    <2>3. JobAdded(j)
      BY <2>1, <2>2, JobIsAdded DEF TypeInv, JobsTyped
    <2> QED BY <2>1, <2>2, <2>3, IdJobAdded
  <1>8. CASE job_handle_result
    <2> DEFINE r == Head(results)
               again == IF r.kind = "update" THEN Cardinality(r.tis[2]) ELSE 0
               j == Job(ids + 1, "add", "lib", {}, FALSE)
    <2>1. again \in {0, 1}
      BY <1>8, TailFacts DEF job_handle_result, TypeInv, ResultsTyped, ResultOK
    <2>2. /\ UNCHANGED <<cur, found, sheet>> /\ ids' = ids + again
          /\ IF again = 0 THEN UNCHANGED jobs ELSE worker_add_jobs(<<j>>)
      BY <1>8 DEF job_handle_result, worker, outbox, main, lists, ghosts, WUnchanged, NoFile,
         MUnchanged, Back
    <2> HIDE DEF again
    <2>3. CASE again = 0
      <3>1. UNCHANGED <<cur, found, ids, jobs, sheet>>
        BY <2>2, <2>3 DEF TypeInv, JobsTyped
      <3> QED BY <3>1 DEF IdInv, DepthInv, Mine
    <2>4. CASE again = 1
      <3>1. worker_add_jobs(<<j>>) /\ UNCHANGED <<cur, found, sheet>> /\ ids' = ids + 1
        BY <2>2, <2>4
      <3>2. j \in JobSet /\ j.id = ids + 1
        BY JobsMade DEF Job, Targets, Adds, TypeInv, JobsTyped
      <3> HIDE DEF j
      <3>3. JobAdded(j)
        BY <3>1, <3>2, JobIsAdded DEF TypeInv, JobsTyped
      <3> QED BY <3>1, <3>2, <3>3, IdJobAdded
    <2> QED BY <2>1, <2>3, <2>4
  <1>9. CASE \/ W_wait \/ W_wake \/ W_stop \/ W_notify
            \/ W_add_end \/ W_update \/ W_delete \/ worker_start
            \/ Clear \/ Delete \/ Quit \/ Save \/ M_cancelled
            \/ M_cleared \/ worker_exit \/ M_joined \/ job_handle
            \/ M_handled
    <2>1. UNCHANGED <<found, ids, jobs, cur, sheet>>
      BY <1>9 DEF W_wait, W_wake, W_stop, W_notify, W_add_end, W_update, W_delete,
         worker_start, Clear, Begin, Delete, Quit, Save, view_save, M_cancelled, M_cleared,
         worker_exit, M_joined, job_handle, M_handled, worker, outbox, main, lists, ghosts,
         WUnchanged, NoFile, MUnchanged, Back
    <2> QED BY <2>1 DEF IdInv, DepthInv, Mine
  <1> QED BY <1>1, <1>2, <1>3, <1>4, <1>5, <1>6, <1>7, <1>8, <1>9, NextCases

(* What a list of results brings when one is added, taken, or followed by  *)
(* results that bring nothing.                                             *)
LEMMA ItemsAdded ==
  ASSUME NEW r, ResultAdded(r)
  PROVE  ItemsOf(results') = ItemsOf(results) \cup Items(r)
  BY DEF ResultAdded, ItemsOf

(* Taking the first result takes what it brings and nothing else. *)
LEMMA ItemsTaken ==
  ASSUME TypeInv, results # <<>>
  PROVE  ItemsOf(results) = Items(results[1]) \cup ItemsOf(Tail(results))
  <1> DEFINE rs == Tail(results)
             n == Len(results)
  <1>1. /\ n \in Nat \ {0} /\ Len(rs) = n - 1
        /\ \A i \in 1 .. n - 1 : rs[i] = results[i + 1]
    BY TailFacts DEF TypeInv, ResultsTyped
  <1> HIDE DEF rs, n
  <1>2. ASSUME NEW f PROVE f \in ItemsOf(results) => f \in Items(results[1]) \cup ItemsOf(rs)
    <2> SUFFICES ASSUME NEW i \in 1 .. n, f \in Items(results[i]), i # 1
                 PROVE  f \in ItemsOf(rs)
      BY DEF ItemsOf, n
    <2>1. i - 1 \in 1 .. n - 1 /\ rs[i - 1] = results[i]
      BY <1>1
    <2> QED BY <1>1, <2>1 DEF ItemsOf
  <1>3. ASSUME NEW f PROVE f \in Items(results[1]) \cup ItemsOf(rs) => f \in ItemsOf(results)
    <2>1. CASE f \in Items(results[1])
      BY <1>1, <2>1 DEF ItemsOf, n
    <2>2. CASE f \in ItemsOf(rs)
      <3>1. PICK i \in 1 .. n - 1 : f \in Items(rs[i])
        BY <1>1, <2>2 DEF ItemsOf
      <3>2. i + 1 \in 1 .. n /\ rs[i] = results[i + 1]
        BY <1>1
      <3> QED BY <3>1, <3>2 DEF ItemsOf, n
    <2> QED BY <2>1, <2>2
  <1> QED BY <1>2, <1>3 DEF rs

(* The results that a removal pushes come behind and bring nothing. *)
LEMMA RemovalPushes ==
  ASSUME TypeInv, worker_remove_jobs_by_cb
  PROVE  /\ Len(results) \in Nat /\ Len(Pushed) \in Nat
         /\ Len(results') = Len(results) + Len(Pushed)
         /\ \A i \in 1 .. Len(results) : results'[i] = results[i]
         /\ \A i \in 1 .. Len(results') : i \notin 1 .. Len(results) => results'[i].kind = "delete"
         /\ ItemsOf(results') = ItemsOf(results)
  <1> DEFINE n == Len(results)
             p == Len(Pushed)
  <1>1. results' = results \o Pushed /\ results \in Seq(ResultSet)
    BY DEF worker_remove_jobs_by_cb, Pushed, TypeInv, ResultsTyped
  <1>2. Pushed \in Seq(ResultSet) /\ \A i \in 1 .. p : Pushed[i] = Result("delete", Deleted[i].target, <<>>)
    BY PushedFacts
  <1>3. /\ n \in Nat /\ p \in Nat /\ Len(results') = n + p
        /\ \A i \in 1 .. n : results'[i] = results[i]
        /\ \A i \in 1 .. p : results'[n + i] = Pushed[i]
    BY <1>1, <1>2, ConcatFacts
  <1>4. \A i \in 1 .. p : Pushed[i].kind = "delete"
    <2>1. \A t : Result("delete", t, <<>>).kind = "delete"
      BY DEF Result
    <2> QED BY <1>2, <2>1
  <1> HIDE DEF n, p
  <1>5. ASSUME NEW i \in 1 .. n + p, i \notin 1 .. n PROVE results'[i].kind = "delete"
    <2>1. i - n \in 1 .. p /\ i = n + (i - n)
      BY <1>3, <1>5
    <2> QED BY <1>3, <1>4, <2>1
  <1>6. \A i \in 1 .. n + p : i \notin 1 .. n => Items(results'[i]) = {}
    BY <1>5 DEF Items, Adds
  <1>7. 1 .. n \subseteq 1 .. n + p
    BY <1>3
  <1>8. ItemsOf(results') = ItemsOf(results)
    BY <1>3, <1>6, <1>7 DEF ItemsOf, n
  <1> QED BY <1>3, <1>5, <1>8 DEF n, p

(* What the worker's steps push. *)
Pushes(r) == r \in ResultSet /\ ResultAdded(r)

(* Which of the worker's steps list a result, and which result it is. *)
LEMMA WorkerPushes ==
  ASSUME TypeInv
  PROVE  /\ OneFile /\ Len(buf) = TI_CAP => Pushes(Result(cur.kind, cur.target, buf))
         /\ W_add_end /\ buf # <<>> => Pushes(Result(cur.kind, cur.target, buf))
         /\ W_update => \E p : Pushes(Result("update", "lib", p))
         /\ W_free /\ cur.kind = "delete" => Pushes(Result("delete", cur.target, <<>>))
  <1> DEFINE r == Result(cur.kind, cur.target, buf)
  <1>1. ASSUME cur # NoJob, cur.kind \in Adds, job_push_result(r) PROVE Pushes(r)
    <2>1. r \in ResultSet
      BY <1>1, ResultsMade DEF TypeInv, JobsTyped, JobOK, FilesTyped
    <2> HIDE DEF r
    <2> QED BY <1>1, <2>1, ResultIsAdded DEF Pushes, TypeInv, ResultsTyped
  <1>2. ASSUME OneFile, Len(buf) = TI_CAP PROVE Pushes(r)
    <2>1. cur # NoJob /\ cur.kind \in Adds /\ job_push_result(r)
      BY <1>2 DEF OneFile, add_ti, flush_ti_buffer, Adds, TypeInv, JobsTyped
    <2> QED BY <1>1, <2>1
  <1>3. ASSUME W_add_end, buf # <<>> PROVE Pushes(r)
    <2>1. cur # NoJob /\ cur.kind \in Adds /\ job_push_result(r)
      BY <1>3 DEF W_add_end, flush_ti_buffer, Adds, TypeInv, JobsTyped
    <2> QED BY <1>1, <2>1
  <1>4. ASSUME W_update PROVE \E p : Pushes(Result("update", "lib", p))
    <2>1. PICK gone \in SUBSET cur.files, changed \in SUBSET cur.files :
            job_push_result(Result("update", "lib", <<gone, changed>>))
      BY <1>4 DEF W_update
    <2> DEFINE p == <<gone, changed>>
               u == Result("update", "lib", p)
    <2>2. p \in (SUBSET Files) \X (SUBSET Files)
      BY DEF TypeInv, JobsTyped, JobSet
    <2>3. job_push_result(u)
      BY <2>1
    <2> HIDE DEF p
    <2>4. u \in ResultSet
      BY <2>2, ResultsMade
    <2> HIDE DEF u
    <2>5. Pushes(u)
      BY <2>3, <2>4, ResultIsAdded DEF Pushes, TypeInv, ResultsTyped
    <2> QED BY <2>5 DEF u
  <1>5. ASSUME W_free, cur.kind = "delete" PROVE Pushes(Result("delete", cur.target, <<>>))
    <2> DEFINE u == Result("delete", cur.target, <<>>)
    <2>1. job_push_result(u) /\ cur.target \in Playlists
      BY <1>5 DEF W_free, TypeInv, JobsTyped, JobOK
    <2>2. u \in ResultSet
      BY <2>1, ResultsMade
    <2> HIDE DEF u
    <2> QED BY <2>1, <2>2, ResultIsAdded DEF Pushes, u, TypeInv, ResultsTyped
  <1> QED BY <1>2, <1>3, <1>4, <1>5

(* How the buffer grows. *)
LEMMA BufferGrows ==
  ASSUME TypeInv, OneFile
  PROVE  /\ cur # NoJob /\ cur.kind \in Adds /\ found' = found \cup {NextFile}
         /\ Len(buf) = TI_CAP => buf' = <<NextFile>> /\ ToSet(buf') = {NextFile}
         /\ Len(buf) # TI_CAP => /\ UNCHANGED results /\ buf' = Append(buf, NextFile)
                                 /\ ToSet(buf') = ToSet(buf) \cup {NextFile}
  <1> DEFINE f == NextFile
  <1>1. add_ti(f) /\ found' = found \cup {f} /\ cur # NoJob /\ cur.kind \in Adds
    BY DEF OneFile, Adds, TypeInv, JobsTyped
  <1> HIDE DEF f
  <1>2. ASSUME Len(buf) = TI_CAP PROVE buf' = <<f>> /\ ToSet(buf') = {f}
    <2>1. buf' = <<f>>
      BY <1>1, <1>2 DEF add_ti
    <2> QED BY <2>1 DEF ToSet
  <1>3. ASSUME Len(buf) # TI_CAP
        PROVE  UNCHANGED results /\ buf' = Append(buf, f) /\ ToSet(buf') = ToSet(buf) \cup {f}
    <2>1. buf' = Append(buf, f) /\ buf \in Seq(Files) /\ UNCHANGED results
      BY <1>1, <1>3 DEF add_ti, TypeInv, FilesTyped
    <2> QED BY <2>1 DEF ToSet
  <1> QED BY <1>1, <1>2, <1>3 DEF f

(* A full buffer, or a job's end, moves the buffer into a result. *)
LEMMA FlushItems ==
  ASSUME TypeInv, \/ OneFile /\ Len(buf) = TI_CAP
                  \/ W_add_end /\ buf # <<>>
  PROVE  ItemsOf(results') = ItemsOf(results) \cup ToSet(buf)
  <1> DEFINE r == Result(cur.kind, cur.target, buf)
  <1>1. Pushes(r) /\ cur.kind \in Adds
    BY WorkerPushes DEF OneFile, W_add_end, Adds
  <1>2. Items(r) = ToSet(buf)
    BY <1>1 DEF Items, Result
  <1> HIDE DEF r
  <1> QED BY <1>1, <1>2, ItemsAdded DEF Pushes

(* The end of a job pushes at most a playlist's deletion. *)
LEMMA FreePushes ==
  ASSUME TypeInv, W_free
  PROVE  /\ ItemsOf(results') = ItemsOf(results)
         /\ UNCHANGED results \/ \E r : Pushes(r) /\ r.kind = "delete"
  <1>1. CASE cur.kind = "delete"
    <2> DEFINE r == Result("delete", cur.target, <<>>)
    <2>1. Pushes(r)
      BY <1>1, WorkerPushes
    <2>2. r.kind = "delete" /\ Items(r) = {}
      BY DEF Items, Result, Adds
    <2> HIDE DEF r
    <2> QED BY <2>1, <2>2, ItemsAdded DEF Pushes
  <1>2. CASE cur.kind # "delete"
    BY <1>2 DEF W_free
  <1> QED BY <1>1, <1>2

(* job_handle_result moves what the first result brings to where it        *)
(* belongs.                                                                *)
LEMMA DeliveryMoves ==
  ASSUME TypeInv, job_handle_result
  PROVE  /\ results # <<>> /\ results' = Tail(results) /\ coll' = Applied(results[1])
         /\ delivered' = delivered \cup Items(results[1])
         /\ delivered' \cup ItemsOf(results') = delivered \cup ItemsOf(results)
  <1>1. /\ results # <<>> /\ results' = Tail(results) /\ Head(results) = results[1]
        /\ coll' = Applied(Head(results))
    BY TailFacts DEF job_handle_result, TypeInv, ResultsTyped
  <1>2. delivered' = delivered \cup Items(results[1])
    BY <1>1 DEF job_handle_result, Items, Adds
  <1> QED BY <1>1, <1>2, ItemsTaken

(* No file is lost between the buffer, the results and the collections. *)
LEMMA PlaceStep ==
  ASSUME TypeInv, PlaceInv, Next
  PROVE  PlaceInv'
  <1>1. CASE W_take
    <2>1. UNCHANGED <<buf, found, results, delivered>> /\ buf = <<>>
      BY <1>1 DEF W_take, PlaceInv, worker, outbox, main, lists, ghosts, WUnchanged, NoFile,
         MUnchanged, Back
    <2> QED BY <2>1 DEF PlaceInv
  <1>2. CASE W_wait
    <2>1. UNCHANGED <<buf, found, results, delivered>> /\ buf = <<>>
      BY <1>2 DEF W_wait, PlaceInv, Adds, worker, outbox, main, lists, ghosts, WUnchanged, NoFile,
         MUnchanged, Back
    <2> QED BY <2>1 DEF PlaceInv
  <1>3. CASE W_wake
    <2>1. UNCHANGED <<buf, found, results, delivered>> /\ buf = <<>>
      BY <1>3 DEF W_wake, PlaceInv, Adds, worker, outbox, main, lists, ghosts, WUnchanged, NoFile,
         MUnchanged, Back
    <2> QED BY <2>1 DEF PlaceInv
  <1>4. CASE W_stop
    <2>1. UNCHANGED <<buf, found, results, delivered>> /\ buf = <<>>
      BY <1>4 DEF W_stop, PlaceInv, Adds, worker, outbox, main, lists, ghosts, WUnchanged, NoFile,
         MUnchanged, Back
    <2> QED BY <2>1 DEF PlaceInv
  <1>5. CASE OneFile
    <2>1. /\ found' = found \cup {NextFile} /\ UNCHANGED <<pcW, cur, delivered>>
          /\ pcW = "run" /\ cur.kind \in Adds
      BY <1>5, BufferGrows DEF OneFile, worker, outbox, main, lists, ghosts, WUnchanged, NoFile,
         MUnchanged, Back
    <2>2. CASE Len(buf) = TI_CAP
      <3>1. ItemsOf(results') = ItemsOf(results) \cup ToSet(buf)
        BY <1>5, <2>1, <2>2, FlushItems
      <3>2. ToSet(buf') = {NextFile}
        BY <1>5, <2>2, BufferGrows
      <3> QED BY <2>1, <3>1, <3>2 DEF PlaceInv
    <2>3. CASE Len(buf) # TI_CAP
      <3>1. UNCHANGED results /\ ToSet(buf') = ToSet(buf) \cup {NextFile}
        BY <1>5, <2>3, BufferGrows
      <3> QED BY <2>1, <3>1 DEF PlaceInv
    <2> QED BY <2>2, <2>3
  <1>6. CASE W_add_end
    <2>1. UNCHANGED <<found, delivered>> /\ buf' = <<>> /\ ToSet(buf') = {}
      BY <1>6 DEF W_add_end, ToSet, worker, outbox, main, lists, ghosts, WUnchanged, NoFile,
         MUnchanged, Back
    <2>2. ItemsOf(results') = ItemsOf(results) \cup ToSet(buf)
      <3>1. CASE buf # <<>>
        BY <1>6, <3>1, FlushItems
      <3>2. CASE buf = <<>>
        <4>1. UNCHANGED results /\ ToSet(buf) = {}
          BY <1>6, <3>2 DEF W_add_end, ToSet
        <4> QED BY <4>1
      <3> QED BY <3>1, <3>2
    <2> QED BY <2>1, <2>2 DEF PlaceInv
  <1>7. CASE W_update
    <2>1. UNCHANGED <<buf, found, delivered>> /\ buf = <<>>
      BY <1>7 DEF W_update, PlaceInv, Adds, worker, outbox, main, lists, ghosts, WUnchanged, NoFile,
         MUnchanged, Back
    <2>2. PICK p : Pushes(Result("update", "lib", p))
      BY <1>7, WorkerPushes
    <2>3. ItemsOf(results') = ItemsOf(results)
      <3>1. Items(Result("update", "lib", p)) = {}
        BY DEF Items, Result, Adds
      <3> QED BY <2>2, <3>1, ItemsAdded DEF Pushes
    <2> QED BY <2>1, <2>3 DEF PlaceInv
  <1>8. CASE W_delete
    <2>1. UNCHANGED <<buf, found, results, delivered>> /\ buf = <<>>
      BY <1>8 DEF W_delete, PlaceInv, Adds, worker, outbox, main, lists, ghosts, WUnchanged, NoFile,
         MUnchanged, Back
    <2> QED BY <2>1 DEF PlaceInv
  <1>9. CASE W_free
    <2>1. UNCHANGED <<buf, found, delivered>> /\ buf = <<>>
      BY <1>9 DEF W_free, PlaceInv, worker, outbox, main, lists, ghosts, WUnchanged, NoFile,
         MUnchanged, Back
    <2>2. ItemsOf(results') = ItemsOf(results)
      BY <1>9, FreePushes
    <2> QED BY <2>1, <2>2 DEF PlaceInv
  <1>10. CASE worker_remove_jobs_by_cb
    <2>1. UNCHANGED <<found, delivered, buf, pcW, cur>> /\ ItemsOf(results') = ItemsOf(results)
      BY <1>10, RemovalPushes DEF worker_remove_jobs_by_cb, worker, outbox, main, lists,
         ghosts, WUnchanged, NoFile, MUnchanged, Back
    <2> QED BY <2>1 DEF PlaceInv
  <1>11. CASE job_handle_result
    <2>1. /\ UNCHANGED <<found, buf, pcW, cur>>
          /\ delivered' \cup ItemsOf(results') = delivered \cup ItemsOf(results)
      BY <1>11, DeliveryMoves DEF job_handle_result, worker, outbox, main, lists, ghosts,
         WUnchanged, NoFile, MUnchanged, Back
    <2> QED BY <2>1 DEF PlaceInv
  <1>12. CASE \/ W_notify \/ worker_start \/ cmus_update_lib \/ Add
            \/ Clear \/ Delete \/ Quit \/ Save \/ M_cancelled
            \/ M_cleared \/ M_deleted \/ worker_exit \/ M_joined
            \/ job_handle \/ M_handled
    <2>1. UNCHANGED <<buf, pcW, cur, found, results, delivered>>
      BY <1>12 DEF W_notify, worker_start, cmus_update_lib, Add, cmus_add, Clear, Begin,
         Delete, Quit, Save, view_save, M_cancelled, M_cleared, M_deleted, worker_exit,
         M_joined, job_handle, M_handled, worker, outbox, main, lists, ghosts, WUnchanged, NoFile,
         MUnchanged, Back
    <2> QED BY <2>1 DEF PlaceInv
  <1> QED BY <1>1, <1>2, <1>3, <1>4, <1>5, <1>6, <1>7, <1>8, <1>9, <1>10, <1>11, <1>12,
     NextCases

(* A result that brings no files disturbs no order. *)
LEMMA OrderPushOther ==
  ASSUME OrderInv, NEW r, Pushes(r), r.kind \notin Adds, UNCHANGED delivered
  PROVE  ResultOrder'
  <1> DEFINE n == Len(results)
  <1>1. /\ n \in Nat /\ Len(results') = n + 1 /\ results'[n + 1] = r
        /\ \A i \in 1 .. n : results'[i] = results[i]
    BY DEF Pushes, ResultAdded
  <1> HIDE DEF n
  <1> SUFFICES ASSUME NEW j \in 1 .. Len(results'), results'[j].kind \in Adds
               PROVE  /\ InTurn(results'[j].tis, results'[j].kind)
                      /\ Precede(delivered, ToSet(results'[j].tis), results'[j].kind)
                      /\ \A i \in 1 .. j - 1 : Precede(Items(results'[i]), ToSet(results'[j].tis), results'[j].kind)
    BY DEF ResultOrder
  <1>2. j \in 1 .. n /\ results'[j] = results[j]
    BY <1>1
  <1>3. \A i \in 1 .. j - 1 : results'[i] = results[i]
    BY <1>1, <1>2
  <1> QED BY <1>2, <1>3 DEF n, OrderInv, ResultOrder

(* The buffer comes after all that left it before. *)
LEMMA OrderPushBuffer ==
  ASSUME OrderInv, NEW r, Pushes(r), r.kind = cur.kind, r.tis = buf, cur.kind \in Adds,
         UNCHANGED delivered
  PROVE  ResultOrder'
  <1> DEFINE n == Len(results)
  <1>1. /\ n \in Nat /\ Len(results') = n + 1 /\ results'[n + 1] = r
        /\ \A i \in 1 .. n : results'[i] = results[i]
    BY DEF Pushes, ResultAdded
  <1>2. \A i \in 1 .. n : Items(results[i]) \subseteq ItemsOf(results)
    BY DEF ItemsOf
  <1> HIDE DEF n
  <1> SUFFICES ASSUME NEW j \in 1 .. Len(results'), results'[j].kind \in Adds
               PROVE  /\ InTurn(results'[j].tis, results'[j].kind)
                      /\ Precede(delivered, ToSet(results'[j].tis), results'[j].kind)
                      /\ \A i \in 1 .. j - 1 : Precede(Items(results'[i]), ToSet(results'[j].tis), results'[j].kind)
    BY DEF ResultOrder
  <1>3. \A i \in 1 .. j - 1 : i \in 1 .. n /\ results'[i] = results[i]
    BY <1>1
  <1>4. CASE j \in 1 .. n
    <2>1. results'[j] = results[j]
      BY <1>1, <1>4
    <2> QED BY <1>3, <1>4, <2>1 DEF n, OrderInv, ResultOrder
  <1>5. CASE j = n + 1
    <2>1. InTurn(buf, cur.kind) /\ Precede(delivered \cup ItemsOf(results), ToSet(buf), cur.kind)
      BY DEF OrderInv, BufferOrder
    <2>2. Precede(delivered, ToSet(buf), cur.kind)
      BY <2>1 DEF Precede
    <2>3. \A i \in 1 .. n : Precede(Items(results[i]), ToSet(buf), cur.kind)
      BY <1>2, <2>1 DEF Precede
    <2> QED BY <1>1, <1>3, <1>5, <2>1, <2>2, <2>3
  <1> QED BY <1>1, <1>4, <1>5

(* Results keep the order in which their files were found. *)
LEMMA ResultOrderStep ==
  ASSUME TypeInv, OrderInv, Next
  PROVE  ResultOrder'
  <1>1. CASE OneFile
    <2>1. UNCHANGED delivered
      BY <1>1 DEF OneFile, worker, outbox, main, lists, ghosts, WUnchanged, NoFile, MUnchanged,
         Back
    <2>2. CASE Len(buf) = TI_CAP
      <3> DEFINE r == Result(cur.kind, cur.target, buf)
      <3>1. Pushes(r) /\ r.kind = cur.kind /\ r.tis = buf /\ cur.kind \in Adds
        BY <1>1, <2>2, WorkerPushes DEF Result, OneFile, Adds
      <3> HIDE DEF r
      <3> QED BY <2>1, <3>1, OrderPushBuffer
    <2>3. CASE Len(buf) # TI_CAP
      <3>1. UNCHANGED results
        BY <1>1, <2>3, BufferGrows
      <3> QED BY <2>1, <3>1 DEF OrderInv, ResultOrder
    <2> QED BY <2>2, <2>3
  <1>2. CASE W_add_end
    <2>1. UNCHANGED delivered
      BY <1>2 DEF W_add_end, worker, outbox, main, lists, ghosts, WUnchanged, NoFile, MUnchanged,
         Back
    <2>2. CASE buf # <<>>
      <3> DEFINE r == Result(cur.kind, cur.target, buf)
      <3>1. Pushes(r) /\ r.kind = cur.kind /\ r.tis = buf /\ cur.kind \in Adds
        BY <1>2, <2>2, WorkerPushes DEF Result, W_add_end, Adds
      <3> HIDE DEF r
      <3> QED BY <2>1, <3>1, OrderPushBuffer
    <2>3. CASE buf = <<>>
      <3>1. UNCHANGED results
        BY <1>2, <2>3 DEF W_add_end
      <3> QED BY <2>1, <3>1 DEF OrderInv, ResultOrder
    <2> QED BY <2>2, <2>3
  <1>3. CASE W_update
    <2>1. UNCHANGED delivered
      BY <1>3 DEF W_update, worker, outbox, main, lists, ghosts, WUnchanged, NoFile, MUnchanged,
         Back
    <2>2. PICK p : Pushes(Result("update", "lib", p))
      BY <1>3, WorkerPushes
    <2>3. Result("update", "lib", p).kind \notin Adds
      BY DEF Result, Adds
    <2> QED BY <2>1, <2>2, <2>3, OrderPushOther
  <1>4. CASE W_free
    <2>1. UNCHANGED delivered
      BY <1>4 DEF W_free, worker, outbox, main, lists, ghosts, WUnchanged, NoFile, MUnchanged, Back
    <2>2. CASE UNCHANGED results
      BY <2>1, <2>2 DEF OrderInv, ResultOrder
    <2>3. CASE \E r : Pushes(r) /\ r.kind = "delete"
      BY <2>1, <2>3, OrderPushOther DEF Adds
    <2> QED BY <1>4, <2>2, <2>3, FreePushes
  <1>5. CASE worker_remove_jobs_by_cb
    <2>1. UNCHANGED delivered
      BY <1>5 DEF worker_remove_jobs_by_cb, worker, outbox, main, lists, ghosts, WUnchanged, NoFile,
         MUnchanged, Back
    <2> DEFINE n == Len(results)
    <2>2. /\ n \in Nat /\ \A i \in 1 .. n : results'[i] = results[i]
          /\ \A i \in 1 .. Len(results') : i \notin 1 .. n => results'[i].kind \notin Adds
      BY <1>5, RemovalPushes DEF Adds
    <2> HIDE DEF n
    <2>3. ASSUME NEW j \in 1 .. Len(results'), results'[j].kind \in Adds
          PROVE  /\ InTurn(results'[j].tis, results'[j].kind)
                 /\ Precede(delivered, ToSet(results'[j].tis), results'[j].kind)
                 /\ \A i \in 1 .. j - 1 : Precede(Items(results'[i]), ToSet(results'[j].tis), results'[j].kind)
      <3>1. j \in 1 .. n /\ results'[j] = results[j]
        BY <2>2, <2>3
      <3>2. \A i \in 1 .. j - 1 : results'[i] = results[i]
        BY <2>2, <3>1
      <3> QED BY <2>3, <3>1, <3>2 DEF n, OrderInv, ResultOrder
    <2> QED BY <2>1, <2>3 DEF ResultOrder
  <1>6. CASE job_handle_result
    <2> DEFINE n == Len(results)
    <2>1. /\ results # <<>> /\ results' = Tail(results)
          /\ delivered' = delivered \cup Items(results[1])
      BY <1>6, DeliveryMoves
    <2>2. /\ n \in Nat \ {0} /\ Len(results') = n - 1
          /\ \A i \in 1 .. n - 1 : results'[i] = results[i + 1]
      BY <2>1, TailFacts DEF TypeInv, ResultsTyped
    <2> HIDE DEF n
    <2>3. ASSUME NEW j \in 1 .. n - 1, results'[j].kind \in Adds
          PROVE  /\ InTurn(results'[j].tis, results'[j].kind)
                 /\ Precede(delivered', ToSet(results'[j].tis), results'[j].kind)
                 /\ \A i \in 1 .. j - 1 : Precede(Items(results'[i]), ToSet(results'[j].tis), results'[j].kind)
      <3>1. results'[j] = results[j + 1] /\ j + 1 \in 1 .. n
        BY <2>2
      <3>2. /\ InTurn(results[j + 1].tis, results[j + 1].kind)
            /\ Precede(delivered, ToSet(results[j + 1].tis), results[j + 1].kind)
            /\ \A i \in 1 .. j : Precede(Items(results[i]), ToSet(results[j + 1].tis), results[j + 1].kind)
        BY <2>3, <3>1 DEF n, OrderInv, ResultOrder
      <3>3. Precede(delivered', ToSet(results'[j].tis), results'[j].kind)
        <4>1. Precede(Items(results[1]), ToSet(results[j + 1].tis), results[j + 1].kind)
          BY <3>2
        <4> QED BY <2>1, <3>1, <3>2, <4>1 DEF Precede
      <3>4. \A i \in 1 .. j - 1 : Precede(Items(results'[i]), ToSet(results'[j].tis), results'[j].kind)
        <4>1. \A i \in 1 .. j - 1 : i + 1 \in 1 .. j /\ results'[i] = results[i + 1]
          BY <2>2
        <4> QED BY <3>1, <3>2, <4>1
      <3> QED BY <3>1, <3>2, <3>3, <3>4
    <2> QED BY <2>2, <2>3 DEF ResultOrder
  <1>7. CASE \/ W_take \/ W_wait \/ W_wake \/ W_stop \/ W_notify
            \/ W_delete \/ worker_start \/ cmus_update_lib \/ Add
            \/ Clear \/ Delete \/ Quit \/ Save \/ M_cancelled
            \/ M_cleared \/ M_deleted \/ worker_exit \/ M_joined
            \/ job_handle \/ M_handled
    <2>1. UNCHANGED <<results, delivered>>
      BY <1>7 DEF W_take, W_wait, W_wake, W_stop, W_notify, W_delete, worker_start,
         cmus_update_lib, Add, cmus_add, Clear, Begin, Delete, Quit, Save, view_save,
         M_cancelled, M_cleared, M_deleted, worker_exit, M_joined, job_handle, M_handled,
         worker, outbox, main, lists, ghosts, WUnchanged, NoFile, MUnchanged, Back
    <2> QED BY <2>1 DEF OrderInv, ResultOrder
  <1> QED BY <1>1, <1>2, <1>3, <1>4, <1>5, <1>6, <1>7, NextCases

(* An empty buffer is in order. *)
LEMMA EmptyBuffer ==
  ASSUME buf' = <<>>
  PROVE  BufferOrder'
  <1>1. ToSet(buf') = {} /\ Len(buf') = 0
    BY DEF ToSet
  <1> QED BY <1>1 DEF BufferOrder, InTurn, Precede

(* The buffer is filled in order. *)
LEMMA BufferOrderStep ==
  ASSUME TypeInv, IdInv, PlaceInv, OrderInv, Next
  PROVE  BufferOrder'
  <1>1. CASE W_take
    <2>1. buf' = <<>>
      BY <1>1 DEF W_take, PlaceInv, Adds, worker, outbox, main, lists, ghosts, WUnchanged, NoFile,
         MUnchanged, Back
    <2> QED BY <2>1, EmptyBuffer
  <1>2. CASE OneFile
    <2> DEFINE f == NextFile
               kind == cur.kind
    <2>1. UNCHANGED <<delivered, cur>> /\ cur # NoJob /\ cur.kind \in Adds
      BY <1>2, BufferGrows DEF OneFile, worker, outbox, main, lists, ghosts, WUnchanged, NoFile,
         MUnchanged, Back
    <2>2. \A g \in found : Before(g, f, kind)
      BY <2>1, NextFileFacts
    <2>3. CASE Len(buf) = TI_CAP
      <3>1. buf' = <<f>> /\ ToSet(buf') = {f}
        BY <1>2, <2>3, BufferGrows
      <3>2. ItemsOf(results') = ItemsOf(results) \cup ToSet(buf)
        BY <1>2, <2>3, FlushItems
      <3>3. delivered' \cup ItemsOf(results') \subseteq found
        BY <2>1, <3>2 DEF PlaceInv
      <3> HIDE DEF f
      <3>4. Precede(delivered' \cup ItemsOf(results'), ToSet(buf'), kind)
        BY <2>2, <3>1, <3>3 DEF Precede
      <3>5. InTurn(buf', kind)
        BY <3>1 DEF InTurn
      <3> QED BY <2>1, <3>4, <3>5 DEF BufferOrder
    <2>4. CASE Len(buf) # TI_CAP
      <3> DEFINE n == Len(buf)
      <3>1. UNCHANGED results /\ buf' = Append(buf, f) /\ ToSet(buf') = ToSet(buf) \cup {f}
        BY <1>2, <2>4, BufferGrows
      <3>2. f \in Files /\ buf \in Seq(Files) /\ \A k \in 1 .. n : buf[k] \in found
        BY <2>1, NextFileFacts DEF TypeInv, FilesTyped
      <3>3. /\ n \in Nat /\ Len(buf') = n + 1 /\ buf'[n + 1] = f
            /\ \A k \in 1 .. n : buf'[k] = buf[k]
        BY <3>1, <3>2, AppendFacts
      <3> HIDE DEF f, n
      <3>4. delivered \cup ItemsOf(results) \subseteq found
        BY DEF PlaceInv
      <3>5. Precede(delivered \cup ItemsOf(results), ToSet(buf'), kind)
        BY <2>2, <3>1, <3>4 DEF Precede, OrderInv, BufferOrder
      <3>6. ASSUME NEW k \in 1 .. n + 1, NEW l \in 1 .. n + 1, k < l PROVE Before(buf'[k], buf'[l], kind)
        <4>1. CASE l \in 1 .. n
          <5>1. k \in 1 .. n
            BY <3>3, <3>6, <4>1
          <5> QED BY <3>3, <3>6, <4>1, <5>1 DEF n, OrderInv, BufferOrder, InTurn
        <4>2. CASE l = n + 1
          <5>1. k \in 1 .. n
            BY <3>3, <3>6, <4>2
          <5> QED BY <2>2, <3>2, <3>3, <4>2, <5>1
        <4> QED BY <3>3, <4>1, <4>2
      <3>7. InTurn(buf', kind)
        BY <3>3, <3>6 DEF InTurn
      <3> QED BY <2>1, <3>1, <3>5, <3>7 DEF BufferOrder
    <2> QED BY <2>3, <2>4
  <1>3. CASE W_add_end
    <2>1. buf' = <<>>
      BY <1>3 DEF W_add_end
    <2> QED BY <2>1, EmptyBuffer
  <1>4. CASE W_update
    <2>1. buf' = <<>>
      BY <1>4 DEF W_update, PlaceInv, Adds, worker, outbox, main, lists, ghosts, WUnchanged, NoFile,
         MUnchanged, Back
    <2> QED BY <2>1, EmptyBuffer
  <1>5. CASE W_free
    <2>1. buf' = <<>>
      BY <1>5 DEF W_free, PlaceInv, Adds, worker, outbox, main, lists, ghosts, WUnchanged, NoFile,
         MUnchanged, Back
    <2> QED BY <2>1, EmptyBuffer
  <1>6. CASE worker_remove_jobs_by_cb
    <2>1. UNCHANGED <<delivered, buf, cur>> /\ ItemsOf(results') = ItemsOf(results)
      BY <1>6, RemovalPushes DEF worker_remove_jobs_by_cb, worker, outbox, main, lists,
         ghosts, WUnchanged, NoFile, MUnchanged, Back
    <2> QED BY <2>1 DEF OrderInv, BufferOrder
  <1>7. CASE job_handle_result
    <2>1. /\ UNCHANGED <<buf, cur>>
          /\ delivered' \cup ItemsOf(results') = delivered \cup ItemsOf(results)
      BY <1>7, DeliveryMoves DEF job_handle_result, worker, outbox, main, lists, ghosts,
         WUnchanged, NoFile, MUnchanged, Back
    <2> QED BY <2>1 DEF OrderInv, BufferOrder
  <1>8. CASE \/ W_wait \/ W_wake \/ W_stop \/ W_notify
            \/ W_delete \/ worker_start \/ cmus_update_lib \/ Add
            \/ Clear \/ Delete \/ Quit \/ Save \/ M_cancelled
            \/ M_cleared \/ M_deleted \/ worker_exit \/ M_joined
            \/ job_handle \/ M_handled
    <2>1. UNCHANGED <<buf, cur, results, delivered>>
      BY <1>8 DEF W_wait, W_wake, W_stop, W_notify, W_delete, worker_start, cmus_update_lib,
         Add, cmus_add, Clear, Begin, Delete, Quit, Save, view_save, M_cancelled, M_cleared,
         M_deleted, worker_exit, M_joined, job_handle, M_handled, worker, outbox, main,
         lists, ghosts, WUnchanged, NoFile, MUnchanged, Back
    <2> QED BY <2>1 DEF OrderInv, BufferOrder
  <1> QED BY <1>1, <1>2, <1>3, <1>4, <1>5, <1>6, <1>7, <1>8, NextCases

(* One collection in order. *)
Ordered(s) ==
  \A i, j \in 1 .. Len(s) : i < j /\ s[i][1] = s[j][1] => InOrder(s[i], s[j])

(* Files that come to light in order are added in order.                   *)
LEMMA BeforeInOrder ==
  ASSUME NEW f \in Files, NEW g \in Files, f[1] = g[1]
  PROVE  /\ Before(f, g, "add") => InOrder(f, g)
         /\ Before(f, g, "prepend") => InOrder(g, f)
  <1>1. f[2] \in Int /\ g[2] \in Int /\ f[3] \in Nat /\ g[3] \in Nat
    BY DEF Files
  <1> QED BY <1>1 DEF Before, InOrder

(* A result that adds does so at the right end and in the right direction. *)
LEMMA AppliedInOrder ==
  ASSUME TypeInv, OrderInv, NEW r \in ResultSet, ResultOK(r, found),
         r.kind \in Adds => InTurn(r.tis, r.kind) /\ Precede(delivered, ToSet(r.tis), r.kind)
  PROVE  \A t \in Targets \ Sorted : Ordered(Applied(r)[t])
  <1> SUFFICES ASSUME NEW t \in Targets \ Sorted PROVE Ordered(Applied(r)[t])
    OBVIOUS
  <1> DEFINE s == coll[t]
             n == Len(s)
  <1>1. /\ coll \in [Targets \ Sorted -> Seq(Files)]
        /\ s \in Seq(Files) /\ n \in Nat
        /\ \A k \in 1 .. n : s[k] \in delivered
    BY DEF TypeInv, FilesTyped
  <1>2. Ordered(s)
    BY DEF OrderInv, FoundOrderKept, Ordered
  <1>3. CASE r.kind = "add" /\ t = r.target
    <2> DEFINE v == r.tis
               m == Len(v)
               w == s \o v
    <2>1. v \in Seq(Files) /\ Applied(r)[t] = w /\ InTurn(v, "add") /\ Precede(delivered, ToSet(v), "add")
      BY <1>1, <1>3 DEF Applied, ResultOK, Adds
    <2>2. /\ m \in Nat /\ Len(w) = n + m
          /\ \A i \in 1 .. n : w[i] = s[i]
          /\ \A i \in 1 .. m : w[n + i] = v[i]
      BY <1>1, <2>1, ConcatFacts
    <2>3. \A i \in 1 .. m : v[i] \in ToSet(v)
      BY <2>1, ToSetOf
    <2>a. \A i \in 1 .. n + m : w[i] \in Files
      BY <1>1, <2>1, ConcatFacts
    <2> HIDE DEF v, w, s, m, n
    <2>4. ASSUME NEW i \in 1 .. n + m, NEW j \in 1 .. n + m, i < j, w[i][1] = w[j][1]
          PROVE  InOrder(w[i], w[j])
      <3>1. CASE i \in 1 .. n /\ j \in 1 .. n
        BY <1>2, <2>2, <2>4, <3>1 DEF Ordered, n
      <3>2. CASE i \in 1 .. n /\ j - n \in 1 .. m
        <4>1. w[j] = v[j - n] /\ w[i] \in delivered /\ w[j] \in ToSet(v)
          <5>1. w[n + (j - n)] = v[j - n] /\ n + (j - n) = j
            BY <1>1, <2>2, <3>2
          <5> QED BY <1>1, <2>2, <2>3, <3>2, <5>1
        <4>2. Before(w[i], w[j], "add")
          BY <2>1, <4>1 DEF Precede
        <4> QED BY <2>4, <2>a, <4>2, BeforeInOrder
      <3>3. CASE i - n \in 1 .. m /\ j - n \in 1 .. m
        <4>1. w[j] = v[j - n] /\ w[i] = v[i - n]
          <5>1. w[n + (j - n)] = v[j - n] /\ n + (j - n) = j /\ w[n + (i - n)] = v[i - n] /\ n + (i - n) = i
            BY <1>1, <2>2, <3>3
          <5> QED BY <5>1
        <4>2. Before(v[i - n], v[j - n], "add")
          <5>1. i - n < j - n
            BY <1>1, <2>4
          <5>2. \A k, l \in 1 .. m : k < l => Before(v[k], v[l], "add")
            BY <2>1 DEF InTurn, m
          <5> QED BY <3>3, <5>1, <5>2
        <4> QED BY <2>4, <2>a, <4>1, <4>2, BeforeInOrder
      <3> QED BY <1>1, <2>2, <2>4, <3>1, <3>2, <3>3
    <2> QED BY <2>1, <2>2, <2>4 DEF Ordered
  <1>4. CASE r.kind = "prepend" /\ t = r.target
    <2> DEFINE v == r.tis
               m == Len(v)
               u == Reverse(v)
               w == u \o s
    <2>1. v \in Seq(Files) /\ Applied(r)[t] = w /\ InTurn(v, "prepend") /\ Precede(delivered, ToSet(v), "prepend")
      BY <1>1, <1>4 DEF Applied, ResultOK, Adds
    <2>2. /\ u \in Seq(Files) /\ Len(u) = m /\ m \in Nat
          /\ \A i \in 1 .. m : u[i] = v[m - i + 1] /\ m - i + 1 \in 1 .. m
      BY <2>1, ReverseFacts
    <2> HIDE DEF u
    <2>3. /\ Len(w) = m + n
          /\ \A i \in 1 .. m : w[i] = u[i]
          /\ \A i \in 1 .. n : w[m + i] = s[i]
      <3>1. /\ Len(u \o s) = Len(u) + Len(s)
            /\ \A i \in 1 .. Len(u) : (u \o s)[i] = u[i]
            /\ \A i \in 1 .. Len(s) : (u \o s)[Len(u) + i] = s[i]
        <4>1. u \in Seq(Files) /\ s \in Seq(Files)
          BY <1>1, <2>2
        <4> HIDE DEF s
        <4> QED BY <4>1, ConcatFacts
      <3> QED BY <2>2, <3>1
    <2>4. \A i \in 1 .. m : v[i] \in ToSet(v)
      BY <2>1, ToSetOf
    <2>a. \A i \in 1 .. m + n : w[i] \in Files
      BY <1>1, <2>2, <2>3, ConcatFacts
    <2> HIDE DEF v, w, s, m, n
    <2>5. ASSUME NEW i \in 1 .. m + n, NEW j \in 1 .. m + n, i < j, w[i][1] = w[j][1]
          PROVE  InOrder(w[i], w[j])
      <3>1. CASE i \in 1 .. m /\ j \in 1 .. m
        <4>1. /\ w[i] = v[m - i + 1] /\ m - i + 1 \in 1 .. m
              /\ w[j] = v[m - j + 1] /\ m - j + 1 \in 1 .. m /\ m - j + 1 < m - i + 1
          BY <2>2, <2>3, <2>5, <3>1
        <4>2. Before(w[j], w[i], "prepend")
          BY <2>1, <4>1 DEF InTurn, m
        <4> QED BY <2>5, <2>a, <4>2, BeforeInOrder
      <3>2. CASE i \in 1 .. m /\ j - m \in 1 .. n
        <4>1. w[m + (j - m)] = s[j - m] /\ m + (j - m) = j /\ s[j - m] \in delivered
          <5>1. m + (j - m) = j
            BY <2>2
          <5>2. w[m + (j - m)] = s[j - m]
            BY <2>3, <3>2
          <5>3. s[j - m] \in delivered
            BY <1>1, <3>2
          <5> QED BY <5>1, <5>2, <5>3
        <4>2. w[j] \in delivered /\ w[i] \in ToSet(v)
          <5>1. w[i] = v[m - i + 1] /\ m - i + 1 \in 1 .. m
            BY <2>2, <2>3, <3>2
          <5> QED BY <2>4, <4>1, <5>1
        <4>3. Before(w[j], w[i], "prepend")
          BY <2>1, <4>2 DEF Precede
        <4> QED BY <2>5, <2>a, <4>3, BeforeInOrder
      <3>3. CASE i - m \in 1 .. n /\ j - m \in 1 .. n
        <4>1. w[m + (j - m)] = s[j - m] /\ m + (j - m) = j /\ w[m + (i - m)] = s[i - m] /\ m + (i - m) = i
          <5>1. m + (j - m) = j /\ m + (i - m) = i
            BY <2>2
          <5>2. w[m + (j - m)] = s[j - m] /\ w[m + (i - m)] = s[i - m]
            BY <2>3, <3>3
          <5> QED BY <5>1, <5>2
        <4>2. i - m < j - m
          BY <2>2, <2>5
        <4> QED BY <1>2, <2>5, <3>3, <4>1, <4>2 DEF Ordered, n
      <3> QED BY <1>1, <2>2, <2>5, <3>1, <3>2, <3>3
    <2> QED BY <2>1, <2>3, <2>5 DEF Ordered
  <1>5. CASE r.kind \notin Adds \/ t # r.target
    <2>1. Applied(r)[t] = s
      BY <1>1, <1>5 DEF Applied, Adds
    <2> QED BY <1>2, <2>1
  <1> QED BY <1>3, <1>4, <1>5 DEF Adds

(* Collections keep the order of directories and playlists. *)
LEMMA FoundOrderStep ==
  ASSUME TypeInv, OrderInv, Next
  PROVE  FoundOrderKept'
  <1>1. CASE Clear
    <2>1. coll' = coll \/ \E t \in Targets \ Sorted : coll' = [coll EXCEPT ![t] = <<>>]
      BY <1>1, CommandsAssumption DEF Clear, Begin, Emptied, Targets, worker, outbox, main, lists, ghosts, WUnchanged, NoFile,
         MUnchanged, Back
    <2>2. \A t \in Targets \ Sorted : coll'[t] = coll[t] \/ coll'[t] = <<>>
      BY <2>1 DEF TypeInv, FilesTyped
    <2> QED BY <2>2 DEF OrderInv, FoundOrderKept
  <1>2. CASE Delete
    <2>1. UNCHANGED coll
      BY <1>2 DEF Delete, Begin, worker, outbox, main, lists, ghosts, WUnchanged, NoFile, MUnchanged,
         Back
    <2> QED BY <2>1 DEF OrderInv, FoundOrderKept
  <1>3. CASE Quit
    <2>1. UNCHANGED coll
      BY <1>3 DEF Quit, Begin, worker, outbox, main, lists, ghosts, WUnchanged, NoFile, MUnchanged,
         Back
    <2> QED BY <2>1 DEF OrderInv, FoundOrderKept
  <1>4. CASE M_cleared
    <2>1. coll' = coll \/ \E t \in Targets \ Sorted : coll' = [coll EXCEPT ![t] = <<>>]
      BY <1>4 DEF M_cleared, Emptied, Targets, TypeInv, OpOK, Removing, worker, outbox, main, lists,
         ghosts, WUnchanged, NoFile, MUnchanged, Back
    <2>2. \A t \in Targets \ Sorted : coll'[t] = coll[t] \/ coll'[t] = <<>>
      BY <2>1 DEF TypeInv, FilesTyped
    <2> QED BY <2>2 DEF OrderInv, FoundOrderKept
  <1>5. CASE job_handle_result
    <2> DEFINE r == results[1]
    <2>1. results # <<>> /\ coll' = Applied(r)
      BY <1>5, DeliveryMoves
    <2>2. r \in ResultSet /\ ResultOK(r, found) /\ 1 \in 1 .. Len(results)
      BY <2>1, TailFacts DEF TypeInv, ResultsTyped
    <2>3. r.kind \in Adds => InTurn(r.tis, r.kind) /\ Precede(delivered, ToSet(r.tis), r.kind)
      BY <2>2 DEF OrderInv, ResultOrder
    <2> HIDE DEF r
    <2>4. \A t \in Targets \ Sorted : Ordered(Applied(r)[t])
      BY <2>2, <2>3, AppliedInOrder
    <2> QED BY <2>1, <2>4 DEF FoundOrderKept, Ordered
  <1>6. CASE \/ W_take \/ W_wait \/ W_wake \/ W_stop \/ W_notify
            \/ OneFile \/ W_add_end \/ W_update \/ W_delete
            \/ W_free \/ worker_start \/ cmus_update_lib \/ Add
            \/ Save \/ worker_remove_jobs_by_cb \/ M_cancelled
            \/ M_deleted \/ worker_exit \/ M_joined \/ job_handle
            \/ M_handled
    <2>1. UNCHANGED <<coll>>
      BY <1>6 DEF W_take, W_wait, W_wake, W_stop, W_notify, OneFile, W_add_end, W_update,
         W_delete, W_free, worker_start, cmus_update_lib, Add, cmus_add, Save, view_save,
         worker_remove_jobs_by_cb, M_cancelled, M_deleted, worker_exit, M_joined, job_handle,
         M_handled, worker, outbox, main, lists, ghosts, WUnchanged, NoFile, MUnchanged, Back
    <2> QED BY <2>1 DEF OrderInv, FoundOrderKept
  <1> QED BY <1>1, <1>2, <1>3, <1>4, <1>5, <1>6, NextCases

-----------------------------------------------------------------------------
(* The initial state, and the theorems. *)

(* The invariant holds when job_init has returned. *)
LEMMA JobsInit ==
  ASSUME Init
  PROVE  JobsInv
  <1>1. /\ state = "PAUSED" /\ jobs = <<>> /\ cur = NoJob /\ cancel = FALSE /\ waiting = {}
        /\ pcW = "top" /\ buf = <<>> /\ notify = FALSE /\ results = <<>> /\ pipe = FALSE
        /\ pcM = "loop" /\ op = NoOp /\ coll = [t \in Targets \ Sorted |-> <<>>]
        /\ bags = [t \in Sorted |-> {}] /\ sheet = 0
        /\ pls = Playlists /\ freed = {} /\ ids = 0 /\ found = {} /\ delivered = {}
    BY DEF Init
  <1>2. Len(jobs) = 0 /\ Len(results) = 0 /\ Len(buf) = 0 /\ ToSet(buf) = {} /\ ItemsOf(results) = {}
    BY <1>1 DEF ToSet, ItemsOf
  <1>3. JobsTyped
    BY <1>1, <1>2, NoJobFacts DEF JobsTyped
  <1>4. ResultsTyped
    BY <1>1, <1>2 DEF ResultsTyped
  <1>5. FilesTyped
    <2>1. /\ coll \in [Targets \ Sorted -> Seq(Files)]
          /\ \A t \in Targets \ Sorted : coll[t] = <<>>
          /\ bags \in [Sorted -> SUBSET Files] /\ \A t \in Sorted : bags[t] = {}
      BY <1>1
    <2> QED BY <1>1, <1>2, <2>1, FS_EmptySet, CapAssumption DEF FilesTyped
  <1>6. ControlTyped /\ OpOK
    BY <1>1 DEF ControlTyped, OpOK, NoOp, Removing
  <1>7. SignalInv /\ RemovalInv
    BY <1>1 DEF SignalInv, NoLostSignal, RemovalInv
  <1>8. FreeInv
    BY <1>1, <1>2, NoJobFacts DEF FreeInv, NoUseAfterFree, JobsDeletion, ResultsDeletion,
       DeletingInv, Removing, Gone
  <1>9. IdInv
    BY <1>1, <1>2, NoJobFacts DEF IdInv, DepthInv, Adds
  <1>10. PlaceInv
    BY <1>1, <1>2 DEF PlaceInv
  <1>11. OrderInv
    <2>1. \A t \in Targets \ Sorted : coll[t] = <<>>
      BY <1>1
    <2> QED BY <1>1, <1>2, <2>1 DEF OrderInv, FoundOrderKept, BufferOrder, ResultOrder,
       InTurn, Precede
  <1> QED BY <1>3, <1>4, <1>5, <1>6, <1>7, <1>8, <1>9, <1>10, <1>11 DEF JobsInv, TypeInv

(* A step that changes nothing keeps everything. *)
LEMMA JobsStutter ==
  ASSUME JobsInv, UNCHANGED vars
  PROVE  JobsInv'
  <1>1. UNCHANGED <<state, jobs, cur, cancel, waiting, pcW, buf, notify, results, pipe,
                    pcM, op, coll, bags, sheet, pls, freed, ids, found, delivered>>
    BY DEF vars, worker, outbox, main, lists, ghosts
  <1>2. TypeInv'
    BY <1>1 DEF JobsInv, TypeInv, JobsTyped, ResultsTyped, FilesTyped, ControlTyped, OpOK,
       Removing
  <1>3. SignalInv' /\ RemovalInv'
    BY <1>1 DEF JobsInv, SignalInv, NoLostSignal, RemovalInv
  <1>4. FreeInv'
    BY <1>1 DEF JobsInv, FreeInv, NoUseAfterFree, JobsDeletion, ResultsDeletion, DeletingInv,
       Removing, Gone
  <1>5. IdInv'
    BY <1>1 DEF JobsInv, IdInv, DepthInv, Mine
  <1>6. PlaceInv' /\ OrderInv'
    BY <1>1 DEF JobsInv, PlaceInv, OrderInv, FoundOrderKept, BufferOrder, ResultOrder
  <1> QED BY <1>2, <1>3, <1>4, <1>5, <1>6 DEF JobsInv

(* The invariant is inductive. *)
THEOREM JobsInvariant == Spec => []JobsInv
  <1>1. Init => JobsInv
    BY JobsInit
  <1>2. JobsInv /\ [Next]_vars => JobsInv'
    <2> SUFFICES ASSUME JobsInv, [Next]_vars PROVE JobsInv'
      OBVIOUS
    <2>1. CASE Next
      <3>1. TypeInv /\ SignalInv /\ RemovalInv /\ FreeInv /\ IdInv /\ PlaceInv /\ OrderInv
        BY DEF JobsInv
      <3>2. TypeInv' /\ SignalInv' /\ RemovalInv' /\ FreeInv'
        BY <2>1, <3>1, TypeStep, SignalStep, RemovalStep, FreeStep
      <3>3. IdInv' /\ PlaceInv'
        BY <2>1, <3>1, IdStep, PlaceStep
      <3>4. OrderInv'
        BY <2>1, <3>1, FoundOrderStep, BufferOrderStep, ResultOrderStep DEF OrderInv
      <3> QED BY <3>2, <3>3, <3>4 DEF JobsInv
    <2>2. CASE UNCHANGED vars
      BY <2>2, JobsStutter
    <2> QED BY <2>1, <2>2
  <1> QED BY <1>1, <1>2, PTL DEF Spec

(* The types, nobody sleeps through its signal, and no playlist is used    *)
(* once its memory was given back: worker.c and pl.c:436.                  *)
THEOREM JobsAreSound == Spec => []JobsSound
  <1>1. JobsInv => JobsSound
    <2> SUFFICES ASSUME JobsInv PROVE JobsSound
      OBVIOUS
    <2>1. jobs \in Seq(JobType) /\ cur \in JobType
      <3>1. ASSUME NEW j \in JobSet, JobOK(j, found, ids) PROVE j \in JobType
        BY <3>1 DEF JobSet, JobType, JobOK
      <3>2. NoJob \in JobType
        BY DEF NoJob, JobType, Kinds
      <3>3. \A i \in 1 .. Len(jobs) : jobs[i] \in JobType
        BY <3>1 DEF JobsInv, TypeInv, JobsTyped
      <3> QED BY <3>1, <3>2, <3>3, SeqOver DEF JobsInv, TypeInv, JobsTyped
    <2>2. buf \in Seq(found)
      BY SeqOver DEF JobsInv, TypeInv, FilesTyped
    <2>3. coll \in [Targets \ Sorted -> Seq(found)] /\ bags \in [Sorted -> SUBSET found]
      <3>1. ASSUME NEW t \in Targets \ Sorted PROVE coll[t] \in Seq(found)
        <4>1. coll[t] \in Seq(Files) /\ \A k \in 1 .. Len(coll[t]) : coll[t][k] \in found
          BY DEF JobsInv, TypeInv, FilesTyped
        <4> QED BY <4>1, SeqOver
      <3> QED BY <3>1 DEF JobsInv, TypeInv, FilesTyped
    <2>4. \A i \in 1 .. Len(results) : results[i].target \in Targets
      <3>1. \A i \in 1 .. Len(results) : results[i] \in ResultSet
        BY DEF JobsInv, TypeInv, ResultsTyped
      <3> QED BY <3>1 DEF ResultSet
    <2>5. TypeOK
      BY <2>1, <2>2, <2>3, <2>4 DEF TypeOK, JobsInv, TypeInv, JobsTyped, FilesTyped,
         ControlTyped
    <2> QED BY <2>5 DEF JobsSound, JobsInv, SignalInv, FreeInv
  <1> QED BY <1>1, JobsInvariant, PTL

(* worker_remove_jobs_by_cb returns only when nothing it was to remove is  *)
(* listed or running, whatever the worker did meanwhile.                   *)
THEOREM JobsRemovedForGood == Spec => []RemovedForGood
  <1>1. JobsInv => RemovedForGood
    <2> SUFFICES ASSUME JobsInv, pcM = "removed"
                 PROVE  ~(cur # NoJob /\ Matches(cur, op)) /\ Removed = <<>>
      BY DEF RemovedForGood
    <2>1. ~cancel
      BY DEF JobsInv, SignalInv
    <2>2. \A i \in 1 .. Len(jobs) : ~Matches(jobs[i], op)
      BY DEF JobsInv, RemovalInv
    <2>3. Removed = <<>>
      BY <2>2, RemovedNone DEF JobsInv, TypeInv, JobsTyped
    <2> QED BY <2>1, <2>3 DEF JobsInv, RemovalInv
  <1> QED BY <1>1, JobsInvariant, PTL

(* Every file that a job found is in one place and arrives once, across    *)
(* batches and cancelled or not, and where the collection does not sort in *)
(* the order of its directory, playlist or cue sheet, which a prepended    *)
(* sheet has backwards: job.c:121 to 223 and 399 to 407.                   *)
THEOREM JobsArriveInOrder == Spec => []ArriveInOrder
  <1>1. JobsInv => ArriveInOrder
    <2> SUFFICES ASSUME JobsInv PROVE ArriveInOrder
      OBVIOUS
    <2>1. InResults = ItemsOf(results)
      BY DEF InResults, ItemsOf, Items, Adds
    <2>2. found = ToSet(buf) \cup ItemsOf(results) \cup delivered
      BY DEF JobsInv, PlaceInv
    <2>3. \A kind : \A f \in found : ~Before(f, f, kind)
      BY DEF Before, JobsInv, TypeInv, FilesTyped, Files
    <2>4. ToSet(buf) \cap (ItemsOf(results) \cup delivered) = {}
      BY <2>2, <2>3 DEF JobsInv, OrderInv, BufferOrder, Precede
    <2>5. ItemsOf(results) \cap delivered = {}
      <3> SUFFICES ASSUME NEW f \in delivered, NEW j \in 1 .. Len(results), f \in Items(results[j])
                   PROVE  FALSE
        BY DEF ItemsOf
      <3>1. results[j].kind \in Adds /\ f \in ToSet(results[j].tis)
        BY DEF Items
      <3>2. Before(f, f, results[j].kind)
        BY <3>1 DEF JobsInv, OrderInv, ResultOrder, Precede
      <3> QED BY <2>2, <2>3, <3>2
    <2> QED BY <2>1, <2>2, <2>4, <2>5 DEF ArriveInOrder, NothingLost, JobsInv, OrderInv
  <1> QED BY <1>1, JobsInvariant, PTL
=============================================================================
