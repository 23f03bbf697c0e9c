------------------------------- MODULE Player -------------------------------
(***************************************************************************)
(* The player (player.c): the main thread's commands, the producer thread  *)
(* that decodes into the buffer, the consumer thread that empties it into  *)
(* the output device, and the next-track handshake between the consumer    *)
(* and the main loop (cmus.c).                                             *)
(*                                                                         *)
(* The state that consumer_mutex and producer_mutex protect is the record  *)
(* p, and each static function of player.c that changes it is an operator  *)
(* from such a record to another.  A thread's step is what it does between *)
(* two points where it gives way: taking a mutex, waiting on a condition   *)
(* variable or for the next track, one turn of a read or write loop.       *)
(* The buffer is the chunk queue that module Buffer is shown to implement. *)
(***************************************************************************)
EXTENDS Integers, FiniteSets

CONSTANTS
  Tracks,   \* track_info objects the playlist may hand out
  NoTrack,  \* NULL
  Remote,   \* the tracks with an http url
  SfOf,     \* the sample format and channel map of each track
  LimitOf,  \* the limit_chunks of _prebuffer for each local track
  Sizes,    \* values of buffer_nr_chunks
  Repeats,  \* values player_repeat_current may have
  Cmds,     \* the commands the main loop receives
  Reads     \* what ip_read may return

ASSUME TracksAssumption ==
  /\ NoTrack \notin Tracks
  /\ Remote \subseteq Tracks
  /\ LimitOf \in [Tracks -> Nat]
ASSUME SizesAssumption == Sizes \subseteq (Nat \ {0}) /\ Sizes # {}
ASSUME CmdsAssumption ==
  Repeats \subseteq BOOLEAN /\
  Cmds \subseteq {"play", "pause", "pause_playback", "stop", "next", "play_file",
                  "seek", "set_op", "set_buffer_chunks", "update_cache", "exit"}
ASSUME ReadsAssumption ==
  Reads \subseteq {"some", "chunk", "eof", "again", "error", "select_error"}

MaybeTrack == Tracks \cup {NoTrack}

VARIABLES
  p,        \* what the two mutexes protect, see TypeOK
  lockC,    \* the holder of consumer_mutex
  lockP,    \* the holder of producer_mutex
  running,  \* consumer_running, producer_running
  pcM,      \* where the main thread is
  call,     \* the player function it is in, with its track
  ready,    \* select() saw the next-track pipe readable
  snap,     \* player_info.ti, the main thread's copy of player_info_priv.ti
  req,      \* a byte is in the next-track pipe
  next,     \* cmus_next_file and cmus_next_file_provided
  pcC, cti, \* where the consumer thread is, and its local ti
  pcP, pi,  \* where the producer thread is, and its loop index
  bug,      \* the BUG_ON(count <= 0) of ip_read has fired in _prebuffer
  overtaken \* a history variable: the status published last was read in the
            \* middle of a reopen of the device that has succeeded since

svars == <<p, lockC, lockP, running, pcM, call, ready, snap, req, next,
           pcC, cti, pcP, pi, bug>>
vars == <<svars, overtaken>>
mvars == <<pcM, call, ready, snap>>
cvars == <<pcC, cti>>
pvars == <<pcP, pi>>

Active == {"PLAYING", "PAUSED"}
NoCall == [fn |-> "none", ti |-> NoTrack]
EmptyBuf == [committed |-> 0, pending |-> FALSE]

(* The answers of the environment during one call: does opening the input, *)
(* opening the device, seeking succeed; the track the playlist hands out.  *)
Env == [ip : BOOLEAN, op : BOOLEAN, seek : BOOLEAN, next : MaybeTrack]

Init ==
  /\ \E n \in Sizes :
       p = [ps |-> "UNLOADED", cs |-> "STOPPED",
            ip |-> [mem |-> "null", track |-> NoTrack, open |-> FALSE, eof |-> FALSE],
            buf |-> EmptyBuf, nr |-> n, sf |-> "none",
            op |-> [open |-> FALSE, paused |-> FALSE, sf |-> "none"],
            ti |-> NoTrack, status |-> "STOPPED", refs |-> 0,
            cwait |-> FALSE, pwait |-> FALSE]
  /\ lockC = "free" /\ lockP = "free" /\ running = TRUE
  /\ pcM = "select" /\ call = NoCall /\ ready = FALSE /\ snap = NoTrack
  /\ req = FALSE /\ next = [provided |-> FALSE, ti |-> NoTrack]
  /\ pcC = "idle" /\ cti = NoTrack
  /\ pcP = "idle" /\ pi = 0
  /\ bug = FALSE /\ overtaken = FALSE

-----------------------------------------------------------------------------
(* input.c, output.c and track_info.c, as far as the player sees them. *)

ip_new(s, t) ==
  [s EXCEPT !.ip = [mem |-> "live", track |-> t, open |-> FALSE, eof |-> FALSE]]
ip_opened(s) == [s EXCEPT !.ip.open = TRUE, !.ip.eof = FALSE]
ip_close(s)  == [s EXCEPT !.ip.open = FALSE, !.ip.eof = FALSE]
(* ip itself is not cleared: it dangles until the next ip_new. *)
ip_delete(s) == [s EXCEPT !.ip.mem = "freed", !.ip.open = FALSE, !.ip.eof = FALSE]
ip_is_remote(s) == s.ip.track \in Remote
CanSeek(s, e) == e.seek /\ ~ip_is_remote(s)
ip_sought(s) == [s EXCEPT !.ip.eof = FALSE]

op_opened(s) == [s EXCEPT !.op = [open |-> TRUE, paused |-> FALSE, sf |-> s.sf]]
op_close(s)  == [s EXCEPT !.op.open = FALSE, !.op.paused = FALSE]
op_pause(s)  == [s EXCEPT !.op.paused = TRUE]
op_unpause(s) == [s EXCEPT !.op.paused = FALSE]

track_info_ref(s, t)   == [s EXCEPT !.refs = @ + (IF t = NoTrack THEN 0 ELSE 1)]
track_info_unref(s, t) == [s EXCEPT !.refs = @ - (IF t = NoTrack THEN 0 ELSE 1)]

-----------------------------------------------------------------------------
(* Publishing to player_info_priv.  Positions and buffer fill levels are   *)
(* left out.                                                               *)

(* Fault_* definitions are faulty variants of the definition that follows  *)
(* them: what a plausible slip in that code would make of it.              *)
Fault_KeepsOldRef(s, t) == [s EXCEPT !.ti = t]

(* The reference to t moves into player_info_priv. *)
file_changed(s, t) == [track_info_unref(s, s.ti) EXCEPT !.ti = t]

(* _player_status_changed, and the part of player_error that matters. *)
player_status_changed(s) == [s EXCEPT !.status = s.cs]
player_error(s) == player_status_changed(s)

-----------------------------------------------------------------------------
(* Producer status. *)

Fault_ResetWithoutBroadcast(s) == [s EXCEPT !.buf = EmptyBuf]

reset_buffer(s) == [s EXCEPT !.buf = EmptyBuf, !.pwait = FALSE]

producer_status_update(s, status) == [s EXCEPT !.ps = status, !.pwait = FALSE]

producer_play(s, e) ==
  CASE s.ps = "UNLOADED" /\ e.next = NoTrack -> s
    [] s.ps = "UNLOADED" /\ e.next # NoTrack ->
         LET n == ip_new(track_info_ref(s, e.next), e.next)
         IN IF e.ip
            THEN file_changed(producer_status_update(ip_opened(n), "PLAYING"), e.next)
            ELSE file_changed(track_info_unref(ip_delete(player_error(n)), e.next),
                              NoTrack)
    [] s.ps = "PLAYING" ->
         IF CanSeek(s, e) THEN reset_buffer(ip_sought(s)) ELSE s
    [] s.ps = "STOPPED" ->
         IF e.ip THEN producer_status_update(ip_opened(s), "PLAYING")
         ELSE producer_status_update(ip_delete(player_error(s)), "UNLOADED")
    [] s.ps = "PAUSED" -> producer_status_update(s, "PLAYING")

Fault_StopKeepsBuffer(s) ==
  IF s.ps \in Active THEN producer_status_update(ip_close(s), "STOPPED") ELSE s

producer_stop(s) ==
  IF s.ps \in Active
  THEN reset_buffer(producer_status_update(ip_close(s), "STOPPED"))
  ELSE s

Fault_UnloadKeepsInput(s) ==
  LET a == producer_stop(s)
  IN IF a.ps = "STOPPED" THEN producer_status_update(a, "UNLOADED") ELSE a

producer_unload(s) ==
  LET a == producer_stop(s)
  IN IF a.ps = "STOPPED" THEN producer_status_update(ip_delete(a), "UNLOADED") ELSE a

producer_pause(s) ==
  CASE s.ps = "PLAYING" -> producer_status_update(s, "PAUSED")
    [] s.ps = "PAUSED" -> producer_status_update(s, "PLAYING")
    [] OTHER -> s

producer_set_file(s, t) ==
  file_changed(producer_status_update(ip_new(producer_unload(s), t), "STOPPED"), t)

-----------------------------------------------------------------------------
(* Consumer status. *)

consumer_status_update(s, status) == [s EXCEPT !.cs = status, !.cwait = FALSE]

set_buffer_sf(s) == [s EXCEPT !.sf = SfOf[s.ip.track]]

consumer_play(s, e) ==
  CASE s.cs = "PLAYING" -> s
    [] s.cs = "STOPPED" ->
         LET a == set_buffer_sf(s)
         IN IF e.op THEN consumer_status_update(op_opened(a), "PLAYING")
            ELSE player_error(a)
    [] s.cs = "PAUSED" -> consumer_status_update(op_unpause(s), "PLAYING")

(* _consumer_drain_and_stop differs only in not dropping device samples. *)
consumer_stop(s) ==
  IF s.cs \in Active THEN consumer_status_update(op_close(s), "STOPPED") ELSE s

consumer_pause(s) ==
  CASE s.cs = "PLAYING" -> consumer_status_update(op_pause(s), "PAUSED")
    [] s.cs = "PAUSED" -> consumer_status_update(op_unpause(s), "PLAYING")
    [] OTHER -> s

Fault_ChangeSfKeepsDevice(s, e) ==
  consumer_status_update(op_unpause(set_buffer_sf(s)), "PLAYING")

(* It failed (rc # 0) exactly if the consumer ends up stopped. *)
change_sf(s, e) ==
  LET a == set_buffer_sf(s)
  IN IF a.sf # s.sf
     THEN IF e.op
          THEN consumer_status_update(op_opened(a), "PLAYING")
          ELSE producer_stop(consumer_status_update(player_error(op_close(a)), "STOPPED"))
     ELSE consumer_status_update(op_unpause(a), "PLAYING")

(* op_buffer_space or op_write failed, "try to reopen": up to the call of  *)
(* _consumer_play.  The consumer holds only its own mutex there, so the    *)
(* producer thread can publish this status before C_reopen goes on.        *)
Reopening(s) == consumer_status_update(op_close(s), "STOPPED")

-----------------------------------------------------------------------------
(* Reading the input and filling the buffer.                               *)
(*   some, chunk   bytes that leave the producer's chunk open, or close it *)
(*   eof, error    the plugin returned 0 or an error, both set eof         *)
(*   select_error  select() in ip_read failed: an error that leaves eof    *)

Fault_FullLate(s) == s.buf.committed > s.nr

(* buffer_get_wpos has no room: every chunk is filled. *)
Full(s) == s.buf.committed = s.nr

EndsRead(r) == r \in {"eof", "error", "select_error"}

CloseChunk(b) ==
  IF b.pending THEN [committed |-> b.committed + 1, pending |-> FALSE] ELSE b

ip_read_fill(s, r) ==
  LET b == CASE r = "some"  -> [s.buf EXCEPT !.pending = TRUE]
             [] r = "chunk" -> [committed |-> s.buf.committed + 1, pending |-> FALSE]
             [] OTHER -> CloseChunk(s.buf)
      a == IF r \in {"error", "select_error"} THEN player_error(s) ELSE s
  IN [a EXCEPT !.buf = b, !.ip.eof = @ \/ r \in {"eof", "error"}]

Fault_LimitOneMore(s) == IF ip_is_remote(s) THEN s.nr + 1 ELSE LimitOf[s.ip.track]

limit_chunks(s) == IF ip_is_remote(s) THEN s.nr ELSE LimitOf[s.ip.track]

(* The outcomes of one turn of the loop of _prebuffer: it is done, or spins *)
(* on EAGAIN, or calls ip_read without room for a byte (a BUG_ON), or fills. *)
prebuffer(s) ==
  IF s.buf.committed >= limit_chunks(s)
  THEN {[s |-> s, done |-> TRUE, bug |-> FALSE]}
  ELSE IF Full(s)
  THEN {[s |-> s, done |-> FALSE, bug |-> TRUE]}
  ELSE {[s |-> IF r = "again" THEN s ELSE ip_read_fill(s, r),
         done |-> EndsRead(r), bug |-> FALSE] : r \in Reads}

-----------------------------------------------------------------------------
(* The bodies of the player's functions, run with both mutexes held.  Each *)
(* yields the new state; _prebuffer follows where Prebuffers says so.      *)

player_stop(s) == player_status_changed(producer_stop(consumer_stop(s)))

(* The common part of player_play, player_pause and player_seek. *)
StartConsumer(s, e) ==
  LET a == consumer_play(s, e) IN IF a.cs # "PLAYING" THEN producer_stop(a) ELSE a

player_play(s, e) ==
  IF s.ps = "PLAYING" /\ ip_is_remote(s) THEN s
  ELSE LET a == producer_play(s, e)
       IN player_status_changed(IF a.ps = "PLAYING" THEN StartConsumer(a, e)
                                ELSE consumer_stop(a))

player_pause(s, e) ==
  IF s.cs = "STOPPED"
  THEN LET a == producer_play(s, e)
       IN player_status_changed(IF a.ps = "PLAYING" THEN StartConsumer(a, e) ELSE a)
  ELSE player_status_changed(consumer_pause(producer_pause(s)))

player_set_file(s, t, e) ==
  LET a == producer_set_file(s, t)
      b == producer_play(a, e)
  IN player_status_changed(
       IF a.cs \in Active
       THEN IF b.ps = "UNLOADED" THEN consumer_stop(b) ELSE change_sf(b, e)
       ELSE a)

player_play_file(s, t, e) ==
  LET b == producer_play(producer_set_file(s, t), e)
  IN player_status_changed(
       IF b.ps = "UNLOADED" THEN consumer_stop(b)
       ELSE IF b.cs = "STOPPED" THEN StartConsumer(b, e)
       ELSE change_sf(b, e))

(* A stopped player is started first. *)
SeekStarts(s, e) ==
  IF s.cs = "STOPPED"
  THEN LET a == producer_play(s, e)
       IN IF a.ps # "PLAYING" THEN a
          ELSE LET b == StartConsumer(a, e)
               IN IF b.cs = "PLAYING" THEN player_status_changed(b) ELSE b
  ELSE s

(* to: "refuse" (no duration, or the offset is not accepted) or "seek". *)
player_seek(s, e, to, start_playing) ==
  LET a == SeekStarts(s, e)
  IN IF a.cs \notin Active \/ ip_is_remote(a) \/ to # "seek" THEN a
     ELSE IF ~e.seek THEN player_error(a)
     ELSE LET b == reset_buffer(ip_sought(a))
          IN IF s.cs = "STOPPED" /\ ~start_playing
             THEN player_status_changed(consumer_pause(producer_pause(b)))
             ELSE b

Fault_ErrorBeforeStatus(s, e) ==
  IF s.cs \notin Active THEN s
  ELSE LET a == set_buffer_sf(op_close(s))
       IN IF ~e.op
          THEN producer_stop(consumer_status_update(player_error(a), "STOPPED"))
          ELSE IF s.cs = "PAUSED" THEN op_pause(op_opened(a)) ELSE op_opened(a)

player_set_op(s, e) ==
  IF s.cs \notin Active THEN s
  ELSE LET a == set_buffer_sf(op_close(s))
       IN IF ~e.op
          THEN player_error(producer_stop(consumer_status_update(a, "STOPPED")))
          ELSE IF s.cs = "PAUSED" THEN op_pause(op_opened(a)) ELSE op_opened(a)

player_set_buffer_chunks(s, n) ==
  player_status_changed(
    [consumer_stop(producer_stop(s)) EXCEPT !.nr = n, !.buf = EmptyBuf])

(* Whether _prebuffer follows: s before the call, t after it. *)
Prebuffers(fn, s, t) ==
  \/ fn = "player_play" /\ t.cs = "PLAYING" /\ s.cs = "STOPPED"
  \/ fn = "player_pause" /\ t.cs = "PLAYING" /\ s.cs = "STOPPED"
  \/ fn \in {"player_set_file", "player_play_file"} /\ t.ps = "PLAYING"

-----------------------------------------------------------------------------
(* The main thread: the event loop, and player_lock in two steps. *)

Free(lock) == lock = "free"

player_info_snapshot == snap' = p.ti

Fault_PipeNotWatched ==
  /\ pcM = "select"
  /\ player_info_snapshot
  /\ ready' = FALSE
  /\ pcM' = "serve"
  /\ UNCHANGED <<p, lockC, lockP, running, call, req, next, cvars, pvars, bug>>

(* player_info_snapshot, then select(). *)
M_select ==
  /\ pcM = "select"
  /\ player_info_snapshot
  /\ ready' = req
  /\ pcM' = "serve"
  /\ UNCHANGED <<p, lockC, lockP, running, call, req, next, cvars, pvars, bug>>

(* A key, a client or a D-Bus message enters a player function. *)
Enter(fn, t) ==
  /\ pcM = "serve"
  /\ pcM' = "lockC"
  /\ call' = [fn |-> fn, ti |-> t]
  /\ p' = track_info_ref(p, t)
  /\ UNCHANGED <<lockC, lockP, running, ready, snap, req, next, cvars, pvars, bug>>

M_command ==
  \/ "play" \in Cmds /\ Enter("player_play", NoTrack)
  \/ "stop" \in Cmds /\ Enter("player_stop", NoTrack)
  \/ "seek" \in Cmds /\ Enter("player_seek", NoTrack)
  \/ "set_op" \in Cmds /\ Enter("player_set_op", NoTrack)
  \/ "set_buffer_chunks" \in Cmds /\ Enter("player_set_buffer_chunks", NoTrack)
  \/ "next" \in Cmds /\ \E t \in Tracks : Enter("player_set_file", t)
  \/ "play_file" \in Cmds /\ \E t \in Tracks : Enter("player_play_file", t)

(* player_pause_playback and player_pause look at consumer_status and at   *)
(* *ip before they take a mutex; a dangling ip yields anything.            *)
M_pause ==
  /\ pcM = "serve"
  /\ \/ "pause" \in Cmds
     \/ "pause_playback" \in Cmds /\ p.cs = "PLAYING"
  /\ \E remote \in (CASE p.ip.mem = "null" -> {FALSE}
                      [] p.ip.mem = "live" -> {ip_is_remote(p)}
                      [] OTHER -> BOOLEAN) :
       call' = [fn |-> IF remote /\ p.cs = "PLAYING" THEN "player_stop"
                       ELSE "player_pause",
                ti |-> NoTrack]
  /\ pcM' = "lockC"
  /\ UNCHANGED <<p, lockC, lockP, running, ready, snap, req, next, cvars, pvars, bug>>

(* job_handle_update_cache_result: the track shown was read again from its *)
(* file, player_file_changed publishes the new track_info of that file.    *)
M_update_cache ==
  /\ pcM = "serve"
  /\ "update_cache" \in Cmds
  /\ snap # NoTrack
  /\ p' = file_changed(track_info_ref(p, snap), snap)
  /\ UNCHANGED <<lockC, lockP, running, mvars, req, next, cvars, pvars, bug>>

(* The quit command clears cmus_running: this turn of the loop is the last, *)
(* and exit_all calls player_exit after it.                                *)
M_quit ==
  /\ pcM = "serve"
  /\ "exit" \in Cmds
  /\ call' = [fn |-> "player_exit", ti |-> NoTrack]
  /\ pcM' = "tail"
  /\ UNCHANGED <<p, lockC, lockP, running, ready, snap, req, next, cvars, pvars, bug>>

AfterLoop == IF call.fn = "player_exit" THEN "lockC" ELSE "select"

(* Every descriptor select reported has been handled. *)
M_idle ==
  /\ pcM = "serve"
  /\ pcM' = "tail"
  /\ UNCHANGED <<p, lockC, lockP, running, call, ready, snap, req, next,
                 cvars, pvars, bug>>

(* The play queue, the library or the playlist yields a track or none. *)
cmus_get_next_from_main_thread == MaybeTrack

Fault_NoTrackNotProvided ==
  /\ pcM = "tail"
  /\ ready
  /\ req' = FALSE
  /\ \E t \in cmus_get_next_from_main_thread :
       /\ next' = [provided |-> t # NoTrack, ti |-> t]
       /\ p' = track_info_ref(p, t)
  /\ ready' = FALSE
  /\ pcM' = AfterLoop
  /\ UNCHANGED <<lockC, lockP, running, call, snap, cvars, pvars, bug>>

(* The end of the loop body: cmus_provide_next_track if select said so. *)
cmus_provide_next_track ==
  /\ pcM = "tail"
  /\ ready
  /\ req' = FALSE
  /\ \E t \in cmus_get_next_from_main_thread :
       /\ next' = [provided |-> TRUE, ti |-> t]
       /\ p' = track_info_ref(p, t)
  /\ ready' = FALSE
  /\ pcM' = AfterLoop
  /\ UNCHANGED <<lockC, lockP, running, call, snap, cvars, pvars, bug>>

M_loop ==
  /\ pcM = "tail"
  /\ ~ready
  /\ pcM' = AfterLoop
  /\ UNCHANGED <<p, lockC, lockP, running, call, ready, snap, req, next,
                 cvars, pvars, bug>>

M_lockC ==
  /\ pcM = "lockC"
  /\ Free(lockC)
  /\ lockC' = "main"
  /\ pcM' = "lockP"
  /\ UNCHANGED <<p, lockP, running, call, ready, snap, req, next, cvars, pvars, bug>>

(* player_unlock and back to the event loop, whose turn may go on to other *)
(* clients, keys and messages.                                             *)
Leave ==
  /\ lockC' = "free" /\ lockP' = "free"
  /\ pcM' = "serve"
  /\ call' = NoCall

(* The second mutex, then the whole body of fn, with outcome s. *)
Body(fn, s) ==
  /\ pcM = "lockP"
  /\ Free(lockP)
  /\ call.fn = fn
  /\ p' = s
  /\ IF Prebuffers(fn, p, s)
     THEN /\ pcM' = "prebuffer"
          /\ lockP' = "main"
          /\ UNCHANGED <<lockC, call>>
     ELSE Leave
  /\ UNCHANGED <<running, ready, snap, req, next, cvars, pvars, bug>>

M_body ==
  \/ Body("player_stop", player_stop(p))
  \/ \E e \in Env :
       \/ Body("player_play", player_play(p, e))
       \/ Body("player_pause", player_pause(p, e))
       \/ Body("player_set_file", player_set_file(p, call.ti, e))
       \/ Body("player_play_file", player_play_file(p, call.ti, e))
       \/ Body("player_set_op", player_set_op(p, e))
       \/ \E to \in {"refuse", "seek"}, start_playing \in BOOLEAN :
            Body("player_seek", player_seek(p, e, to, start_playing))
  \/ \E n \in Sizes : Body("player_set_buffer_chunks", player_set_buffer_chunks(p, n))

(* player_seek past the end: the mutexes are released, then cmus_next. *)
M_seek_next ==
  /\ pcM = "lockP"
  /\ Free(lockP)
  /\ call.fn = "player_seek"
  /\ \E e \in Env, t \in Tracks :
       LET s == SeekStarts(p, e)
       IN /\ s.cs \in Active /\ ~ip_is_remote(s)
          /\ p' = track_info_ref(s, t)
          /\ call' = [fn |-> "player_set_file", ti |-> t]
  /\ lockC' = "free"
  /\ pcM' = "lockC"
  /\ UNCHANGED <<lockP, running, ready, snap, req, next, cvars, pvars, bug>>

M_prebuffer ==
  /\ pcM = "prebuffer" /\ ~bug
  /\ \E o \in prebuffer(p) :
       /\ p' = o.s
       /\ bug' = o.bug
       /\ IF o.done THEN Leave ELSE UNCHANGED <<lockC, lockP, pcM, call>>
  /\ UNCHANGED <<running, ready, snap, req, next, cvars, pvars>>

Fault_WakesConsumerOnly(s) == [s EXCEPT !.cwait = FALSE]

(* player_exit wakes both threads. *)
broadcast_playing(s) == [s EXCEPT !.cwait = FALSE, !.pwait = FALSE]

(* The event loop has ended. *)
player_exit ==
  /\ pcM = "lockP"
  /\ Free(lockP)
  /\ call.fn = "player_exit"
  /\ running' = FALSE
  /\ p' = broadcast_playing(p)
  /\ lockC' = "free"
  /\ pcM' = "join"
  /\ UNCHANGED <<lockP, call, ready, snap, req, next, cvars, pvars, bug>>

M_join ==
  /\ pcM = "join"
  /\ pcC = "done" /\ pcP = "done"
  /\ pcM' = "done"
  /\ UNCHANGED <<p, lockC, lockP, running, call, ready, snap, req, next,
                 cvars, pvars, bug>>

-----------------------------------------------------------------------------
(* The consumer thread. *)

CUnchanged == UNCHANGED <<running, mvars, pvars>>

(* The top of consumer_loop, up to the inner loop. *)
C_top ==
  /\ pcC = "idle"
  /\ Free(lockC)
  /\ \/ /\ ~running
        /\ p' = consumer_stop(p)
        /\ pcC' = "done"
        /\ UNCHANGED lockC
     \/ /\ running /\ p.cs # "PLAYING"
        /\ p' = [p EXCEPT !.cwait = TRUE]
        /\ pcC' = "wait"
        /\ UNCHANGED lockC
     \/ /\ running /\ p.cs = "PLAYING"     \* op_buffer_space failed
        /\ p' = Reopening(p)
        /\ lockC' = "consumer"
        /\ pcC' = "reopen"
     \/ /\ running /\ p.cs = "PLAYING"
        /\ lockC' = "consumer"
        /\ pcC' = "inner"
        /\ UNCHANGED p
  /\ CUnchanged /\ UNCHANGED <<lockP, req, next, cti, bug>>

(* pthread_cond_wait returns with the mutex, which is then released. *)
C_wake ==
  /\ pcC = "wait" /\ ~p.cwait
  /\ Free(lockC)
  /\ pcC' = "idle"
  /\ CUnchanged /\ UNCHANGED <<p, lockC, lockP, req, next, cti, bug>>

(* No space in the device: unlock and sleep. *)
C_full ==
  /\ pcC = "inner"
  /\ lockC' = "free"
  /\ pcC' = "idle"
  /\ CUnchanged /\ UNCHANGED <<p, lockP, req, next, cti, bug>>

(* op_write takes a part of the chunk at ridx, or the rest of it. *)
C_write ==
  /\ pcC \in {"inner", "write"}
  /\ p.buf.committed > 0
  /\ \/ UNCHANGED p
     \/ p' = [p EXCEPT !.buf.committed = @ - 1]
  /\ pcC' = "inner"
  /\ CUnchanged /\ UNCHANGED <<lockC, lockP, req, next, cti, bug>>

C_write_failed ==
  /\ pcC \in {"inner", "write"}
  /\ p.buf.committed > 0
  /\ p' = Reopening(p)
  /\ pcC' = "reopen"
  /\ CUnchanged /\ UNCHANGED <<lockC, lockP, req, next, cti, bug>>

(* The _consumer_play of a reopen, which publishes only its failure. *)
C_reopen ==
  /\ pcC = "reopen"
  /\ \E e \in Env : p' = consumer_play(p, e)
  /\ lockC' = "free"
  /\ pcC' = "idle"
  /\ CUnchanged /\ UNCHANGED <<lockP, req, next, cti, bug>>

C_underrun ==
  /\ pcC = "inner"
  /\ p.buf.committed = 0
  /\ pcC' = "lockP"
  /\ CUnchanged /\ UNCHANGED <<p, lockC, lockP, req, next, cti, bug>>

(* With both mutexes: the producer is not playing, or has filled a chunk   *)
(* meanwhile ("must recheck rpos"), or is merely late.                     *)
C_recheck ==
  /\ pcC = "lockP"
  /\ Free(lockP)
  /\ \/ /\ p.ps = "PLAYING" /\ p.buf.committed > 0
        /\ pcC' = "write"
        /\ UNCHANGED lockC
     \/ /\ p.ps = "PLAYING" => p.buf.committed = 0 /\ ~p.ip.eof
        /\ pcC' = "idle"
        /\ lockC' = "free"
  /\ CUnchanged /\ UNCHANGED <<p, lockP, req, next, cti, bug>>

AtEof == p.ps = "PLAYING" /\ p.buf.committed = 0 /\ p.ip.eof

(* _consumer_handle_eof up to the request for the next track.  player_cont *)
(* and player_repeat_current are options that may be toggled at any time.  *)
(* A byte into the pipe, then the wait for the answer, which C_next ends. *)
cmus_get_next_from_other_thread == req' = TRUE /\ pcC' = "next"

C_eof ==
  /\ pcC = "lockP"
  /\ Free(lockP)
  /\ AtEof
  /\ \/ /\ ip_is_remote(p)
        /\ p' = player_error(consumer_stop(producer_stop(p)))
        /\ pcC' = "idle" /\ lockC' = "free"
        /\ UNCHANGED <<lockP, req>>
     \/ /\ ~ip_is_remote(p) /\ TRUE \in Repeats
        /\ \E e \in Env, player_cont \in BOOLEAN :
             p' = player_status_changed(
                    IF player_cont
                    THEN reset_buffer(IF CanSeek(p, e) THEN ip_sought(p) ELSE p)
                    ELSE consumer_stop(producer_stop(p)))
        /\ pcC' = "idle" /\ lockC' = "free"
        /\ UNCHANGED <<lockP, req>>
     \/ /\ ~ip_is_remote(p) /\ FALSE \in Repeats
        /\ cmus_get_next_from_other_thread
        /\ lockP' = "consumer"
        /\ UNCHANGED <<p, lockC>>
  /\ CUnchanged /\ UNCHANGED <<next, cti, bug>>

CLeave ==
  /\ lockC' = "free" /\ lockP' = "free"
  /\ pcC' = "idle"
  /\ cti' = NoTrack

(* The main thread has answered. *)
C_next ==
  /\ pcC = "next"
  /\ next.provided
  /\ next' = [provided |-> FALSE, ti |-> NoTrack]
  /\ IF next.ti = NoTrack
     THEN /\ p' = player_status_changed(
                    file_changed(consumer_stop(producer_unload(p)), NoTrack))
          /\ CLeave
     ELSE /\ p' = producer_unload(p)
          /\ cti' = next.ti
          /\ pcC' = "load"
          /\ UNCHANGED <<lockC, lockP>>
  /\ CUnchanged /\ UNCHANGED <<req, bug>>

(* The next track is loaded, and started if playing is to continue (the    *)
(* options player_cont and player_cont_album, and the albums' names).      *)
C_load ==
  /\ pcC = "load"
  /\ \E e \in Env, continues \in BOOLEAN :
       LET a == producer_status_update(ip_new(p, cti), "STOPPED")
           b == producer_play(a, e)
           c == change_sf(file_changed(b, cti), e)
       IN IF ~continues
          THEN /\ p' = player_status_changed(file_changed(consumer_stop(a), cti))
               /\ CLeave
          ELSE IF b.ps = "UNLOADED"
          THEN /\ p' = player_status_changed(
                         file_changed(track_info_unref(consumer_stop(b), cti), NoTrack))
               /\ CLeave
          ELSE IF c.cs = "PLAYING"
          THEN /\ p' = c
               /\ cti' = NoTrack
               /\ pcC' = "prebuffer"
               /\ UNCHANGED <<lockC, lockP>>
          ELSE p' = player_status_changed(c) /\ CLeave
  /\ CUnchanged /\ UNCHANGED <<req, next, bug>>

C_prebuffer ==
  /\ pcC = "prebuffer" /\ ~bug
  /\ \E o \in prebuffer(p) :
       /\ bug' = o.bug
       /\ IF o.done
          THEN p' = player_status_changed(o.s) /\ CLeave
          ELSE p' = o.s /\ UNCHANGED <<lockC, lockP, cvars>>
  /\ CUnchanged /\ UNCHANGED <<req, next>>

-----------------------------------------------------------------------------
(* The producer thread. *)

PUnchanged == UNCHANGED <<lockC, running, mvars, req, next, cvars, bug>>

(* With nothing to read the producer waits for producer_playing. *)
NothingToRead(s) == s.ps # "PLAYING" \/ s.ip.eof

P_top ==
  /\ pcP = "idle"
  /\ Free(lockP)
  /\ \/ /\ ~running
        /\ p' = producer_unload(p)
        /\ pcP' = "done"
        /\ UNCHANGED <<lockP, pi>>
     \/ /\ running /\ NothingToRead(p)
        /\ p' = [p EXCEPT !.pwait = TRUE]
        /\ pcP' = "wait"
        /\ UNCHANGED <<lockP, pi>>
     \/ /\ running /\ ~NothingToRead(p)
        /\ lockP' = "producer"
        /\ pcP' = "read"
        /\ pi' = 0
        /\ UNCHANGED p
  /\ PUnchanged

P_wake ==
  /\ pcP = "wait" /\ ~p.pwait
  /\ Free(lockP)
  /\ pcP' = "idle"
  /\ PUnchanged /\ UNCHANGED <<p, lockP, pi>>

PLeave == lockP' = "free" /\ pcP' = "idle" /\ pi' = 0

(* One turn of the for loop: at most two reads per lock. *)
P_read ==
  /\ pcP = "read"
  /\ \/ /\ Full(p)
        /\ PLeave
        /\ UNCHANGED p
     \/ /\ ~Full(p)
        /\ \E r \in Reads :
             /\ p' = IF r = "again" THEN p ELSE ip_read_fill(p, r)
             /\ IF r = "again" \/ EndsRead(r) \/ pi = 1
                THEN PLeave
                ELSE pi' = 1 /\ UNCHANGED <<lockP, pcP>>
  /\ PUnchanged

-----------------------------------------------------------------------------
Main ==
  \/ M_select \/ M_command \/ M_pause \/ M_update_cache \/ M_quit \/ M_idle
  \/ cmus_provide_next_track \/ M_loop
  \/ M_lockC \/ M_body \/ M_seek_next \/ M_prebuffer \/ player_exit \/ M_join

Consumer ==
  \/ C_top \/ C_wake \/ C_full \/ C_write \/ C_write_failed \/ C_reopen \/ C_underrun
  \/ C_recheck \/ C_eof \/ C_next \/ C_load \/ C_prebuffer

Producer == P_top \/ P_wake \/ P_read

(* Between the two halves of a reopen only an error of the producer can    *)
(* publish; then no later step of the reopen says that it plays again.     *)
Overtakes ==
  overtaken' = IF pcC' = "reopen"
               THEN overtaken \/ (pcC = "reopen" /\ p'.status # p.status)
               ELSE overtaken /\ p'.status # p'.cs

Next == (Main \/ Consumer \/ Producer) /\ Overtakes

Spec == Init /\ [][Next]_vars

(* A thread moves on if it can again and again: one that waits for a mutex  *)
(* gets it in the end (the consumer sleeps with both mutexes free when the *)
(* device is full, the producer when the buffer is).  And the device keeps *)
(* taking samples: an inner loop that finds it full every time is not a    *)
(* behaviour of a running device.  One turn of the event loop handles the  *)
(* finitely many descriptors that were ready.                              *)
Fairness ==
  /\ SF_svars(Main) /\ SF_svars(Consumer) /\ SF_svars(Producer)
  /\ SF_svars(C_write /\ p' # p) /\ SF_svars(C_underrun)
  /\ SF_svars(M_idle)

FairSpec == Spec /\ Fairness

-----------------------------------------------------------------------------
(* Properties. *)

Threads == {"free", "main", "consumer", "producer"}

TypeOK ==
  /\ p \in [ps : {"UNLOADED", "STOPPED", "PLAYING", "PAUSED"},
            cs : {"STOPPED", "PLAYING", "PAUSED"},
            ip : [mem : {"null", "live", "freed"}, track : MaybeTrack,
                  open : BOOLEAN, eof : BOOLEAN],
            buf : [committed : Nat, pending : BOOLEAN], nr : Sizes,
            sf : {"none"} \cup {SfOf[t] : t \in Tracks},
            op : [open : BOOLEAN, paused : BOOLEAN,
                  sf : {"none"} \cup {SfOf[t] : t \in Tracks}],
            ti : MaybeTrack, status : {"STOPPED", "PLAYING", "PAUSED"}, refs : Nat,
            cwait : BOOLEAN, pwait : BOOLEAN]
  /\ p.buf.committed <= p.nr
  /\ lockC \in Threads \ {"producer"} /\ lockP \in Threads
  /\ running \in BOOLEAN
  /\ pcM \in {"select", "serve", "tail", "lockC", "lockP", "prebuffer", "join", "done"}
  /\ call.ti \in MaybeTrack
  /\ ready \in BOOLEAN /\ req \in BOOLEAN /\ snap \in MaybeTrack
  /\ next \in [provided : BOOLEAN, ti : MaybeTrack]
  /\ pcC \in {"idle", "wait", "inner", "write", "reopen", "lockP", "next", "load",
              "prebuffer", "done"}
  /\ cti \in MaybeTrack
  /\ pcP \in {"idle", "wait", "read", "done"} /\ pi \in 0 .. 1
  /\ bug \in BOOLEAN /\ overtaken \in BOOLEAN

(* Nobody is inside the player, and it is not being shut down. *)
Settled == lockC = "free" /\ running

(* The three status variables, changed one after the other by some twenty  *)
(* paths of player.c, agree whenever consumer_mutex is free: a playing     *)
(* consumer has a playing producer, a paused one a paused producer, and    *)
(* the status the user interface is told is the consumer's.  The last has  *)
(* one exception: while the consumer reopens the device the producer may   *)
(* publish a read error, and with it STOPPED, and nothing publishes that   *)
(* the consumer plays on.                                                  *)
StatusesAgree ==
  Settled => /\ p.cs = "PLAYING" => p.ps = "PLAYING"
             /\ p.cs = "PAUSED" => p.ps = "PAUSED"
             /\ \/ p.status = p.cs
                \/ overtaken /\ p.status = "STOPPED" /\ p.cs = "PLAYING"

(* The device is open exactly while the consumer is not stopped, paused    *)
(* exactly while it is paused, and open in the format of the loaded track. *)
DeviceMatches ==
  Settled => /\ p.op.open <=> p.cs \in Active
             /\ p.op.open => /\ p.op.paused <=> p.cs = "PAUSED"
                             /\ p.op.sf = SfOf[p.ip.track]

(* Every input is deleted once, none is leaked: one is allocated exactly   *)
(* while a track is loaded, and open exactly while it plays or pauses.     *)
InputOwned ==
  Settled => /\ p.ps # "UNLOADED" <=> p.ip.mem = "live"
             /\ p.ip.open <=> p.ps \in Active

(* The player is consistent whenever nobody is inside it. *)
Consistent == TypeOK /\ StatusesAgree /\ DeviceMatches /\ InputOwned

(* Bytes of a track that was stopped, replaced or unloaded never stay in   *)
(* the buffer for the next one.                                            *)
NoStaleBytes == p.ps \notin Active => p.buf = EmptyBuf

(* Each track_info reference the player was given is held by exactly one   *)
(* of player_info_priv, a pending call, the handshake and the consumer.    *)
RefsBalanced ==
  p.refs = (IF p.ti # NoTrack THEN 1 ELSE 0)
           + (IF pcM \in {"lockC", "lockP"} /\ call.ti # NoTrack THEN 1 ELSE 0)
           + (IF next.provided /\ next.ti # NoTrack THEN 1 ELSE 0)
           + (IF cti # NoTrack THEN 1 ELSE 0)

(* No lost wakeup: a thread sleeps on its condition variable only while    *)
(* it has nothing to do.                                                   *)
NoLostWakeup ==
  /\ p.cwait => running /\ p.cs # "PLAYING"
  /\ p.pwait => running /\ NothingToRead(p)

(* The assertions hold: _prebuffer runs only on a playing producer         *)
(* (player.c:568), and ip_read is never called without room (input.c:656,  *)
(* BUG_ON(count <= 0)), but for one case: 250 ms of a local track may need *)
(* more chunks than the buffer has, and _prebuffer waits for them all.     *)
BugOnsHold ==
  /\ pcM = "prebuffer" \/ pcC = "prebuffer" => p.ps = "PLAYING"
  /\ bug => p.ip.track \notin Remote /\ LimitOf[p.ip.track] > p.nr

(* The main thread is stuck in player_lock, behind the consumer that waits *)
(* for it to provide the next track.                                       *)
HandshakeBlocked == pcC = "next" /\ pcM = "lockC"

(* Unless the main thread has blocked itself on the consumer's mutex, the  *)
(* consumer gets its answer and lets go of both mutexes.                   *)
RequestServed == pcC = "next" ~> (pcC # "next" \/ HandshakeBlocked)

(* player.c:996 "consumer handles EOF": a track that was read to its end   *)
(* is played out and then left, rewound or stopped.                        *)
PlayingAtEof == running /\ p.cs = "PLAYING" /\ p.ps = "PLAYING" /\ p.ip.eof
EofHandled == PlayingAtEof ~> (~PlayingAtEof \/ HandshakeBlocked)

(* player_exit ends both threads. *)
ExitTerminates == pcM = "join" ~> pcM = "done"

(* ui_curses.c:2099 "Timeout must be so small that screen updates seem     *)
(* instant": the event loop always comes back to the top.                  *)
EventLoopAlive == pcM # "select" ~> pcM = "select"
=============================================================================
