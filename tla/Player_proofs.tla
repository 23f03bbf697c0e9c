---------------------------- MODULE Player_proofs ----------------------------
(***************************************************************************)
(* Proofs about the player, for any tracks, formats, buffer sizes and      *)
(* commands.                                                               *)
(*                                                                         *)
(* The functions of player.c are operators on the record p.  Each has a    *)
(* lemma that says which parts of the record it leaves alone and that it   *)
(* keeps ProducerOK, ConsumerOK and Linked, from the small operators of    *)
(* input.c and output.c up to the bodies of the functions that the main    *)
(* thread calls.  Then each action of the three threads is shown to keep   *)
(* PlayerInv, with one step per part of it, and the invariants that the    *)
(* runs check follow from it.                                              *)
(***************************************************************************)
EXTENDS Player, TLAPS

Formats == {"none"} \cup {SfOf[t] : t \in Tracks}
IpType == [mem : {"null", "live", "freed"}, track : MaybeTrack, open : BOOLEAN, eof : BOOLEAN]
BufType == [committed : Nat, pending : BOOLEAN]
OpType == [open : BOOLEAN, paused : BOOLEAN, sf : Formats]

(* The type of p, except that the count of references is any integer. *)
PState ==
  [ps : {"UNLOADED", "STOPPED", "PLAYING", "PAUSED"}, cs : {"STOPPED", "PLAYING", "PAUSED"},
   ip : IpType, buf : BufType, nr : Sizes, sf : Formats, op : OpType,
   ti : MaybeTrack, status : {"STOPPED", "PLAYING", "PAUSED"}, refs : Int,
   cwait : BOOLEAN, pwait : BOOLEAN]

(* The parts of the state that an operator leaves alone. *)
SameInput(r, s)  == r.ip = s.ip
SameBuffer(r, s) == r.buf = s.buf /\ r.nr = s.nr
SamePlay(r, s)   == r.ps = s.ps /\ r.pwait = s.pwait
SameDevice(r, s) == r.op = s.op /\ r.sf = s.sf
SameConsumer(r, s) == r.cs = s.cs /\ r.cwait = s.cwait
SameTrack(r, s)  == r.ti = s.ti /\ r.refs = s.refs
SameStatus(r, s) == r.status = s.status

-----------------------------------------------------------------------------
(* What the small operators on the state of the player do to it.           *)

(* input.c, ip_new: a fresh input for the track, not yet open. *)
LEMMA IpNew ==
  ASSUME NEW s \in PState, NEW t \in Tracks
  PROVE  /\ ip_new(s, t) \in PState
         /\ SameBuffer(ip_new(s, t), s) /\ SamePlay(ip_new(s, t), s)
         /\ SameDevice(ip_new(s, t), s) /\ SameConsumer(ip_new(s, t), s)
         /\ SameTrack(ip_new(s, t), s) /\ SameStatus(ip_new(s, t), s)
         /\ ip_new(s, t).ip = [mem |-> "live", track |-> t, open |-> FALSE, eof |-> FALSE]
  BY DEF PState, IpType, MaybeTrack, ip_new, SameBuffer, SamePlay, SameDevice, SameConsumer, SameTrack, SameStatus

(* input.c, ip_open: the input is open and not at its end. *)
LEMMA IpOpened ==
  ASSUME NEW s \in PState
  PROVE  /\ ip_opened(s) \in PState
         /\ SameBuffer(ip_opened(s), s) /\ SamePlay(ip_opened(s), s)
         /\ SameDevice(ip_opened(s), s) /\ SameConsumer(ip_opened(s), s)
         /\ SameTrack(ip_opened(s), s) /\ SameStatus(ip_opened(s), s)
         /\ ip_opened(s).ip.mem = s.ip.mem /\ ip_opened(s).ip.track = s.ip.track
         /\ ip_opened(s).ip.open = TRUE /\ ip_opened(s).ip.eof = FALSE
  BY DEF PState, IpType, ip_opened, SameBuffer, SamePlay, SameDevice, SameConsumer, SameTrack, SameStatus

(* input.c, ip_close: the input is closed, but still allocated. *)
LEMMA IpClose ==
  ASSUME NEW s \in PState
  PROVE  /\ ip_close(s) \in PState
         /\ SameBuffer(ip_close(s), s) /\ SamePlay(ip_close(s), s)
         /\ SameDevice(ip_close(s), s) /\ SameConsumer(ip_close(s), s)
         /\ SameTrack(ip_close(s), s) /\ SameStatus(ip_close(s), s)
         /\ ip_close(s).ip.mem = s.ip.mem /\ ip_close(s).ip.track = s.ip.track
         /\ ip_close(s).ip.open = FALSE /\ ip_close(s).ip.eof = FALSE
  BY DEF PState, IpType, ip_close, SameBuffer, SamePlay, SameDevice, SameConsumer, SameTrack, SameStatus

(* input.c, ip_delete: the input is closed and freed. *)
LEMMA IpDelete ==
  ASSUME NEW s \in PState
  PROVE  /\ ip_delete(s) \in PState
         /\ SameBuffer(ip_delete(s), s) /\ SamePlay(ip_delete(s), s)
         /\ SameDevice(ip_delete(s), s) /\ SameConsumer(ip_delete(s), s)
         /\ SameTrack(ip_delete(s), s) /\ SameStatus(ip_delete(s), s)
         /\ ip_delete(s).ip.mem = "freed" /\ ip_delete(s).ip.track = s.ip.track
         /\ ip_delete(s).ip.open = FALSE /\ ip_delete(s).ip.eof = FALSE
  BY DEF PState, IpType, ip_delete, SameBuffer, SamePlay, SameDevice, SameConsumer, SameTrack, SameStatus

(* input.c, ip_seek: the input is not at its end any more. *)
LEMMA IpSought ==
  ASSUME NEW s \in PState
  PROVE  /\ ip_sought(s) \in PState
         /\ SameBuffer(ip_sought(s), s) /\ SamePlay(ip_sought(s), s)
         /\ SameDevice(ip_sought(s), s) /\ SameConsumer(ip_sought(s), s)
         /\ SameTrack(ip_sought(s), s) /\ SameStatus(ip_sought(s), s)
         /\ ip_sought(s).ip.mem = s.ip.mem /\ ip_sought(s).ip.track = s.ip.track
         /\ ip_sought(s).ip.open = s.ip.open /\ ip_sought(s).ip.eof = FALSE
  BY DEF PState, IpType, ip_sought, SameBuffer, SamePlay, SameDevice, SameConsumer, SameTrack, SameStatus

(* output.c, op_open: the device is open in the format of the buffer. *)
LEMMA OpOpened ==
  ASSUME NEW s \in PState
  PROVE  /\ op_opened(s) \in PState
         /\ SameInput(op_opened(s), s) /\ SameBuffer(op_opened(s), s)
         /\ SamePlay(op_opened(s), s) /\ SameConsumer(op_opened(s), s)
         /\ SameTrack(op_opened(s), s) /\ SameStatus(op_opened(s), s)
         /\ op_opened(s).op = [open |-> TRUE, paused |-> FALSE, sf |-> s.sf]
         /\ op_opened(s).sf = s.sf
  BY DEF PState, OpType, op_opened, SameInput, SameBuffer, SamePlay, SameConsumer, SameTrack, SameStatus

(* output.c, op_close: the device is closed. *)
LEMMA OpClose ==
  ASSUME NEW s \in PState
  PROVE  /\ op_close(s) \in PState
         /\ SameInput(op_close(s), s) /\ SameBuffer(op_close(s), s)
         /\ SamePlay(op_close(s), s) /\ SameConsumer(op_close(s), s)
         /\ SameTrack(op_close(s), s) /\ SameStatus(op_close(s), s)
         /\ op_close(s).op.open = FALSE
         /\ op_close(s).sf = s.sf
  BY DEF PState, OpType, op_close, SameInput, SameBuffer, SamePlay, SameConsumer, SameTrack, SameStatus

(* output.c, op_pause: only the device's pause changes. *)
LEMMA OpPause ==
  ASSUME NEW s \in PState
  PROVE  /\ op_pause(s) \in PState
         /\ SameInput(op_pause(s), s) /\ SameBuffer(op_pause(s), s)
         /\ SamePlay(op_pause(s), s) /\ SameConsumer(op_pause(s), s)
         /\ SameTrack(op_pause(s), s) /\ SameStatus(op_pause(s), s)
         /\ op_pause(s).op.open = s.op.open /\ op_pause(s).op.paused = TRUE /\ op_pause(s).op.sf = s.op.sf
         /\ op_pause(s).sf = s.sf
  BY DEF PState, OpType, op_pause, SameInput, SameBuffer, SamePlay, SameConsumer, SameTrack, SameStatus

(* output.c, op_unpause: only the device's pause changes. *)
LEMMA OpUnpause ==
  ASSUME NEW s \in PState
  PROVE  /\ op_unpause(s) \in PState
         /\ SameInput(op_unpause(s), s) /\ SameBuffer(op_unpause(s), s)
         /\ SamePlay(op_unpause(s), s) /\ SameConsumer(op_unpause(s), s)
         /\ SameTrack(op_unpause(s), s) /\ SameStatus(op_unpause(s), s)
         /\ op_unpause(s).op.open = s.op.open /\ op_unpause(s).op.paused = FALSE /\ op_unpause(s).op.sf = s.op.sf
         /\ op_unpause(s).sf = s.sf
  BY DEF PState, OpType, op_unpause, SameInput, SameBuffer, SamePlay, SameConsumer, SameTrack, SameStatus

(* player.c, set_buffer_sf: the buffer takes the format of the track. *)
LEMMA SetBufferSf ==
  ASSUME NEW s \in PState, s.ip.track \in Tracks
  PROVE  /\ set_buffer_sf(s) \in PState
         /\ SameInput(set_buffer_sf(s), s) /\ SameBuffer(set_buffer_sf(s), s)
         /\ SamePlay(set_buffer_sf(s), s) /\ SameConsumer(set_buffer_sf(s), s)
         /\ SameTrack(set_buffer_sf(s), s) /\ SameStatus(set_buffer_sf(s), s)
         /\ set_buffer_sf(s).op = s.op
         /\ set_buffer_sf(s).sf = SfOf[s.ip.track]
  BY DEF PState, Formats, set_buffer_sf, SameInput, SameBuffer, SamePlay, SameConsumer, SameTrack, SameStatus

(* track_info.c, track_info_ref: one reference more, if there is a track. *)
LEMMA TrackInfoRef ==
  ASSUME NEW s \in PState, NEW t \in MaybeTrack
  PROVE  /\ track_info_ref(s, t) \in PState
         /\ SameInput(track_info_ref(s, t), s) /\ SameBuffer(track_info_ref(s, t), s)
         /\ SamePlay(track_info_ref(s, t), s) /\ SameDevice(track_info_ref(s, t), s)
         /\ SameConsumer(track_info_ref(s, t), s) /\ SameStatus(track_info_ref(s, t), s)
         /\ track_info_ref(s, t).ti = s.ti
         /\ track_info_ref(s, t).refs = s.refs + (IF t = NoTrack THEN 0 ELSE 1)
  BY DEF PState, track_info_ref, SameInput, SameBuffer, SamePlay, SameDevice, SameConsumer, SameStatus

(* track_info.c, track_info_unref: one reference less, if there is one. *)
LEMMA TrackInfoUnref ==
  ASSUME NEW s \in PState, NEW t \in MaybeTrack
  PROVE  /\ track_info_unref(s, t) \in PState
         /\ SameInput(track_info_unref(s, t), s) /\ SameBuffer(track_info_unref(s, t), s)
         /\ SamePlay(track_info_unref(s, t), s) /\ SameDevice(track_info_unref(s, t), s)
         /\ SameConsumer(track_info_unref(s, t), s) /\ SameStatus(track_info_unref(s, t), s)
         /\ track_info_unref(s, t).ti = s.ti
         /\ track_info_unref(s, t).refs = s.refs - (IF t = NoTrack THEN 0 ELSE 1)
  BY DEF PState, track_info_unref, SameInput, SameBuffer, SamePlay, SameDevice, SameConsumer, SameStatus

(* player.c, _player_status_changed: the consumer's status is published. *)
LEMMA StatusChanged ==
  ASSUME NEW s \in PState
  PROVE  /\ player_status_changed(s) \in PState
         /\ SameInput(player_status_changed(s), s) /\ SameBuffer(player_status_changed(s), s)
         /\ SamePlay(player_status_changed(s), s) /\ SameDevice(player_status_changed(s), s)
         /\ SameConsumer(player_status_changed(s), s) /\ SameTrack(player_status_changed(s), s)
         /\ player_status_changed(s).status = s.cs
  BY DEF PState, player_status_changed, SameInput, SameBuffer, SamePlay, SameDevice, SameConsumer, SameTrack

(* player.c, player_error: as _player_status_changed. *)
LEMMA PlayerError ==
  ASSUME NEW s \in PState
  PROVE  /\ player_error(s) \in PState
         /\ SameInput(player_error(s), s) /\ SameBuffer(player_error(s), s)
         /\ SamePlay(player_error(s), s) /\ SameDevice(player_error(s), s)
         /\ SameConsumer(player_error(s), s) /\ SameTrack(player_error(s), s)
         /\ player_error(s).status = s.cs
  BY DEF PState, player_error, player_status_changed, SameInput, SameBuffer, SamePlay, SameDevice, SameConsumer, SameTrack

(* player.c, reset_buffer: the buffer is empty, the producer awake. *)
LEMMA ResetBuffer ==
  ASSUME NEW s \in PState
  PROVE  /\ reset_buffer(s) \in PState
         /\ SameInput(reset_buffer(s), s) /\ SameDevice(reset_buffer(s), s)
         /\ SameConsumer(reset_buffer(s), s) /\ SameTrack(reset_buffer(s), s)
         /\ SameStatus(reset_buffer(s), s)
         /\ reset_buffer(s).ps = s.ps /\ reset_buffer(s).pwait = FALSE
         /\ reset_buffer(s).buf = EmptyBuf /\ reset_buffer(s).nr = s.nr
  BY DEF PState, BufType, EmptyBuf, reset_buffer, SameInput, SameDevice, SameConsumer, SameTrack, SameStatus

(* player.c, _producer_status_update: the status, and a wakeup. *)
LEMMA ProducerStatus ==
  ASSUME NEW s \in PState, NEW status \in {"UNLOADED", "STOPPED", "PLAYING", "PAUSED"}
  PROVE  /\ producer_status_update(s, status) \in PState
         /\ SameInput(producer_status_update(s, status), s) /\ SameBuffer(producer_status_update(s, status), s)
         /\ SameDevice(producer_status_update(s, status), s) /\ SameConsumer(producer_status_update(s, status), s)
         /\ SameTrack(producer_status_update(s, status), s) /\ SameStatus(producer_status_update(s, status), s)
         /\ producer_status_update(s, status).ps = status /\ producer_status_update(s, status).pwait = FALSE
  BY DEF PState, producer_status_update, SameInput, SameBuffer, SameDevice, SameConsumer, SameTrack, SameStatus

(* player.c, _consumer_status_update: the status, and a wakeup. *)
LEMMA ConsumerStatus ==
  ASSUME NEW s \in PState, NEW status \in {"STOPPED", "PLAYING", "PAUSED"}
  PROVE  /\ consumer_status_update(s, status) \in PState
         /\ SameInput(consumer_status_update(s, status), s) /\ SameBuffer(consumer_status_update(s, status), s)
         /\ SamePlay(consumer_status_update(s, status), s) /\ SameDevice(consumer_status_update(s, status), s)
         /\ SameTrack(consumer_status_update(s, status), s) /\ SameStatus(consumer_status_update(s, status), s)
         /\ consumer_status_update(s, status).cs = status /\ consumer_status_update(s, status).cwait = FALSE
  BY DEF PState, consumer_status_update, SameInput, SameBuffer, SamePlay, SameDevice, SameTrack, SameStatus

(* The reference to the old track is dropped, the new one is already held. *)
LEMMA FileChanged ==
  ASSUME NEW s \in PState, NEW t \in MaybeTrack
  PROVE  /\ file_changed(s, t) \in PState
         /\ SameInput(file_changed(s, t), s) /\ SameBuffer(file_changed(s, t), s)
         /\ SamePlay(file_changed(s, t), s) /\ SameDevice(file_changed(s, t), s)
         /\ SameConsumer(file_changed(s, t), s) /\ SameStatus(file_changed(s, t), s)
         /\ file_changed(s, t).ti = t
         /\ file_changed(s, t).refs = s.refs - (IF s.ti = NoTrack THEN 0 ELSE 1)
  <1> DEFINE u == track_info_unref(s, s.ti)
             r == [u EXCEPT !.ti = t]
  <1>1. u \in PState
    BY TrackInfoUnref DEF PState
  <1>2. /\ r \in PState /\ r.ti = t /\ r.refs = u.refs
        /\ SameInput(r, u) /\ SameBuffer(r, u) /\ SamePlay(r, u) /\ SameDevice(r, u)
        /\ SameConsumer(r, u) /\ SameStatus(r, u)
    <2> HIDE DEF u
    <2> QED BY <1>1 DEF PState, SameInput, SameBuffer, SamePlay, SameDevice, SameConsumer, SameStatus
  <1>3. s.ti \in MaybeTrack
    BY DEF PState
  <1>4. /\ u.refs = s.refs - (IF s.ti = NoTrack THEN 0 ELSE 1)
        /\ SameInput(u, s) /\ SameBuffer(u, s) /\ SamePlay(u, s) /\ SameDevice(u, s)
        /\ SameConsumer(u, s) /\ SameStatus(u, s)
    BY <1>3, TrackInfoUnref
  <1>5. file_changed(s, t) = r
    BY DEF file_changed
  <1> HIDE DEF u, r
  <1> QED
    BY <1>2, <1>4, <1>5
       DEF SameInput, SameBuffer, SamePlay, SameDevice, SameConsumer, SameStatus

-----------------------------------------------------------------------------
(* The invariant of the producer's side and that of the consumer's side.   *)

(* The input is allocated while a track is loaded, and open while it plays *)
(* or pauses; only then are there bytes in the buffer, no more than fit;   *)
(* the producer sleeps only with nothing to read.                          *)
ProducerOK(s) ==
  /\ s.ps # "UNLOADED" <=> s.ip.mem = "live"
  /\ s.ip.mem = "live" => s.ip.track \in Tracks
  /\ s.ip.open <=> s.ps \in Active
  /\ s.ps \notin Active => s.buf = EmptyBuf
  /\ s.buf.committed <= s.nr
  /\ s.pwait => NothingToRead(s)

(* The device is open while the consumer plays or pauses, in the format of *)
(* the buffer, and paused with it; it sleeps only if it does not play.     *)
ConsumerOK(s) ==
  /\ s.op.open <=> s.cs \in Active
  /\ s.op.open => (s.op.paused <=> s.cs = "PAUSED") /\ s.op.sf = s.sf
  /\ s.cwait => s.cs # "PLAYING"

(* Both sides together. *)
Linked(s) ==
  /\ s.cs = "PLAYING" => s.ps = "PLAYING"
  /\ s.cs = "PAUSED" => s.ps = "PAUSED"
  /\ s.op.open => s.sf = SfOf[s.ip.track]

(* The references that are not player_info_priv's own. *)
Others(s) == s.refs - (IF s.ti = NoTrack THEN 0 ELSE 1)

(* player.c, _producer_stop: an open input is closed, the buffer emptied. *)
LEMMA ProducerStop ==
  ASSUME NEW s \in PState, ProducerOK(s)
  PROVE  /\ producer_stop(s) \in PState /\ ProducerOK(producer_stop(s))
         /\ SameDevice(producer_stop(s), s) /\ SameConsumer(producer_stop(s), s)
         /\ SameTrack(producer_stop(s), s) /\ SameStatus(producer_stop(s), s)
         /\ producer_stop(s).nr = s.nr
         /\ producer_stop(s).ip.mem = s.ip.mem /\ producer_stop(s).ip.track = s.ip.track
         /\ producer_stop(s).ps = IF s.ps \in Active THEN "STOPPED" ELSE s.ps
         /\ producer_stop(s).buf = EmptyBuf
         /\ producer_stop(s).pwait => s.pwait
  <1>1. CASE s.ps \in Active
    <2> DEFINE a == ip_close(s)
               b == producer_status_update(a, "STOPPED")
               c == reset_buffer(b)
    <2>1. producer_stop(s) = c
      BY <1>1 DEF producer_stop
    <2>2. a \in PState /\ b \in PState /\ c \in PState
      BY IpClose, ProducerStatus, ResetBuffer
    <2>3. /\ a.ip.mem = s.ip.mem /\ a.ip.track = s.ip.track /\ a.ip.open = FALSE
          /\ SameBuffer(a, s) /\ SameDevice(a, s) /\ SameConsumer(a, s) /\ SameTrack(a, s)
          /\ SameStatus(a, s)
      BY IpClose
    <2>4. /\ b.ps = "STOPPED" /\ SameInput(b, a) /\ SameBuffer(b, a) /\ SameDevice(b, a)
          /\ SameConsumer(b, a) /\ SameTrack(b, a) /\ SameStatus(b, a)
      BY <2>2, ProducerStatus
    <2>5. /\ c.ps = b.ps /\ c.pwait = FALSE /\ c.buf = EmptyBuf /\ c.nr = b.nr
          /\ SameInput(c, b) /\ SameDevice(c, b)
          /\ SameConsumer(c, b) /\ SameTrack(c, b) /\ SameStatus(c, b)
      BY <2>2, ResetBuffer
    <2>6. s.nr \in Nat
      BY SizesAssumption DEF PState
    <2> HIDE DEF a, b, c
    <2> QED
      BY <1>1, <2>1, <2>2, <2>3, <2>4, <2>5, <2>6
         DEF ProducerOK, Active, EmptyBuf, SameInput, SameBuffer, SameDevice,
             SameConsumer, SameTrack, SameStatus
  <1>2. CASE s.ps \notin Active
    BY <1>2 DEF producer_stop, ProducerOK, SameDevice, SameConsumer, SameTrack, SameStatus
  <1> QED BY <1>1, <1>2

USE DEF SameInput, SameBuffer, SamePlay, SameDevice, SameConsumer, SameTrack, SameStatus

(* Every track is unloaded, and its input deleted. *)
LEMMA ProducerUnload ==
  ASSUME NEW s \in PState, ProducerOK(s)
  PROVE  /\ producer_unload(s) \in PState /\ ProducerOK(producer_unload(s))
         /\ SameDevice(producer_unload(s), s) /\ SameConsumer(producer_unload(s), s)
         /\ SameTrack(producer_unload(s), s) /\ SameStatus(producer_unload(s), s)
         /\ producer_unload(s).nr = s.nr
         /\ producer_unload(s).ps = "UNLOADED"
         /\ producer_unload(s).pwait => s.pwait
  <1> DEFINE a == producer_stop(s)
             b == ip_delete(a)
             c == producer_status_update(b, "UNLOADED")
  <1>1. producer_unload(s) = IF a.ps = "STOPPED" THEN c ELSE a
    BY DEF producer_unload
  <1>2. /\ a \in PState /\ ProducerOK(a) /\ a.nr = s.nr /\ a.buf = EmptyBuf
        /\ a.ps \in {"STOPPED", "UNLOADED"} /\ (a.pwait => s.pwait)
        /\ SameDevice(a, s) /\ SameConsumer(a, s) /\ SameTrack(a, s) /\ SameStatus(a, s)
    BY ProducerStop DEF PState, Active
  <1> HIDE DEF a
  <1>3. /\ b \in PState /\ b.ip.mem = "freed" /\ b.ip.open = FALSE /\ SameBuffer(b, a)
        /\ SameDevice(b, a) /\ SameConsumer(b, a) /\ SameTrack(b, a) /\ SameStatus(b, a)
    BY <1>2, IpDelete
  <1> HIDE DEF b
  <1>4. /\ c \in PState /\ c.ps = "UNLOADED" /\ c.pwait = FALSE /\ SameInput(c, b) /\ SameBuffer(c, b)
        /\ SameDevice(c, b) /\ SameConsumer(c, b) /\ SameTrack(c, b) /\ SameStatus(c, b)
    BY <1>3, ProducerStatus
  <1> HIDE DEF c
  <1> QED
    BY <1>1, <1>2, <1>3, <1>4 DEF ProducerOK, Active, EmptyBuf

(* A track is loaded but not yet opened, and its reference kept. *)
LEMMA ProducerSetFile ==
  ASSUME NEW s \in PState, ProducerOK(s), NEW t \in Tracks
  PROVE  /\ producer_set_file(s, t) \in PState /\ ProducerOK(producer_set_file(s, t))
         /\ SameDevice(producer_set_file(s, t), s) /\ SameConsumer(producer_set_file(s, t), s)
         /\ SameStatus(producer_set_file(s, t), s)
         /\ producer_set_file(s, t).nr = s.nr
         /\ producer_set_file(s, t).ps = "STOPPED" /\ producer_set_file(s, t).ip.track = t
         /\ producer_set_file(s, t).ti = t
         /\ Others(producer_set_file(s, t)) = Others(s) - 1
  <1> DEFINE a == producer_unload(s)
             b == ip_new(a, t)
             c == producer_status_update(b, "STOPPED")
             d == file_changed(c, t)
  <1>1. producer_set_file(s, t) = d
    BY DEF producer_set_file
  <1>2. /\ a \in PState /\ ProducerOK(a) /\ a.nr = s.nr /\ a.buf = EmptyBuf
        /\ SameDevice(a, s) /\ SameConsumer(a, s) /\ SameTrack(a, s) /\ SameStatus(a, s)
    BY ProducerUnload DEF ProducerOK, Active
  <1> HIDE DEF a
  <1>3. /\ b \in PState /\ SameBuffer(b, a)
        /\ b.ip = [mem |-> "live", track |-> t, open |-> FALSE, eof |-> FALSE]
        /\ SameDevice(b, a) /\ SameConsumer(b, a) /\ SameTrack(b, a) /\ SameStatus(b, a)
    BY <1>2, IpNew
  <1> HIDE DEF b
  <1>4. /\ c \in PState /\ c.ps = "STOPPED" /\ c.pwait = FALSE /\ SameInput(c, b) /\ SameBuffer(c, b)
        /\ SameDevice(c, b) /\ SameConsumer(c, b) /\ SameTrack(c, b) /\ SameStatus(c, b)
    BY <1>3, ProducerStatus
  <1> HIDE DEF c
  <1>5. /\ d \in PState /\ SameInput(d, c) /\ SameBuffer(d, c) /\ SamePlay(d, c)
        /\ SameDevice(d, c) /\ SameConsumer(d, c) /\ SameStatus(d, c)
        /\ d.ti = t /\ d.refs = c.refs - (IF c.ti = NoTrack THEN 0 ELSE 1)
    BY <1>4, FileChanged DEF MaybeTrack
  <1>6. s.refs \in Int /\ NoTrack \notin Tracks
    BY TracksAssumption DEF PState
  <1> HIDE DEF d
  <1> QED
    BY <1>1, <1>2, <1>3, <1>4, <1>5, <1>6 DEF ProducerOK, Active, EmptyBuf, Others

(* What producer_play does to a loaded track. *)
LEMMA ProducerPlayLoaded ==
  ASSUME NEW s \in PState, ProducerOK(s), NEW e \in Env, s.ps # "UNLOADED"
  PROVE  /\ producer_play(s, e) \in PState /\ ProducerOK(producer_play(s, e))
         /\ SameDevice(producer_play(s, e), s) /\ SameConsumer(producer_play(s, e), s)
         /\ SameTrack(producer_play(s, e), s)
         /\ producer_play(s, e).status \in {s.status, s.cs}
         /\ producer_play(s, e).nr = s.nr
         /\ producer_play(s, e).ip.track = s.ip.track
         /\ producer_play(s, e).ps \in {"PLAYING", "UNLOADED"}
         /\ s.ps \in Active => producer_play(s, e).ps = "PLAYING"
  <1>0. /\ s.nr \in Nat /\ s.ps \in {"STOPPED", "PLAYING", "PAUSED"}
        /\ s.buf \in BufType /\ s.ip \in IpType
    BY SizesAssumption DEF PState
  <1>1. CASE s.ps = "PLAYING"
    <2> DEFINE a == ip_sought(s)
               b == reset_buffer(a)
    <2>1. producer_play(s, e) \in {s, b}
      BY <1>1 DEF producer_play
    <2>2. /\ a \in PState /\ SameBuffer(a, s) /\ SamePlay(a, s)
          /\ a.ip.mem = s.ip.mem /\ a.ip.track = s.ip.track /\ a.ip.open = s.ip.open
          /\ SameDevice(a, s) /\ SameConsumer(a, s) /\ SameTrack(a, s) /\ SameStatus(a, s)
      BY IpSought
    <2> HIDE DEF a
    <2>3. /\ b \in PState /\ SameInput(b, a) /\ b.buf = EmptyBuf /\ b.nr = a.nr
          /\ b.ps = a.ps /\ b.pwait = FALSE
          /\ SameDevice(b, a) /\ SameConsumer(b, a) /\ SameTrack(b, a) /\ SameStatus(b, a)
      BY <2>2, ResetBuffer
    <2> HIDE DEF b
    <2> QED
      BY <1>0, <1>1, <2>1, <2>2, <2>3 DEF ProducerOK, Active, EmptyBuf
  <1>2. CASE s.ps = "PAUSED"
    <2>1. producer_play(s, e) = producer_status_update(s, "PLAYING")
      BY <1>2 DEF producer_play
    <2> DEFINE a == producer_status_update(s, "PLAYING")
    <2>2. /\ a \in PState /\ SameInput(a, s) /\ SameBuffer(a, s)
          /\ a.ps = "PLAYING" /\ a.pwait = FALSE
          /\ SameDevice(a, s) /\ SameConsumer(a, s) /\ SameTrack(a, s) /\ SameStatus(a, s)
      BY ProducerStatus
    <2> HIDE DEF a
    <2> QED
      BY <1>2, <2>1, <2>2 DEF ProducerOK, Active, a
  <1>3. CASE s.ps = "STOPPED" /\ e.ip
    <2> DEFINE a == ip_opened(s)
               b == producer_status_update(a, "PLAYING")
    <2>1. producer_play(s, e) = b
      BY <1>3 DEF producer_play
    <2>2. /\ a \in PState /\ SameBuffer(a, s)
          /\ a.ip.mem = s.ip.mem /\ a.ip.track = s.ip.track /\ a.ip.open = TRUE
          /\ SameDevice(a, s) /\ SameConsumer(a, s) /\ SameTrack(a, s) /\ SameStatus(a, s)
      BY IpOpened
    <2> HIDE DEF a
    <2>3. /\ b \in PState /\ SameInput(b, a) /\ SameBuffer(b, a)
          /\ b.ps = "PLAYING" /\ b.pwait = FALSE
          /\ SameDevice(b, a) /\ SameConsumer(b, a) /\ SameTrack(b, a) /\ SameStatus(b, a)
      BY <2>2, ProducerStatus
    <2> HIDE DEF b
    <2> QED
      BY <1>3, <2>1, <2>2, <2>3 DEF ProducerOK, Active
  <1>4. CASE s.ps = "STOPPED" /\ ~e.ip
    <2> DEFINE a == player_error(s)
               b == ip_delete(a)
               c == producer_status_update(b, "UNLOADED")
    <2>1. producer_play(s, e) = c
      BY <1>4 DEF producer_play
    <2>2. /\ a \in PState /\ SameBuffer(a, s) /\ SameInput(a, s)
          /\ SameDevice(a, s) /\ SameConsumer(a, s) /\ SameTrack(a, s) /\ a.status = s.cs
      BY PlayerError
    <2> HIDE DEF a
    <2>3. /\ b \in PState /\ SameBuffer(b, a)
          /\ b.ip.mem = "freed" /\ b.ip.track = a.ip.track /\ b.ip.open = FALSE
          /\ SameDevice(b, a) /\ SameConsumer(b, a) /\ SameTrack(b, a) /\ SameStatus(b, a)
      BY <2>2, IpDelete
    <2> HIDE DEF b
    <2>4. /\ c \in PState /\ SameInput(c, b) /\ SameBuffer(c, b)
          /\ c.ps = "UNLOADED" /\ c.pwait = FALSE
          /\ SameDevice(c, b) /\ SameConsumer(c, b) /\ SameTrack(c, b) /\ SameStatus(c, b)
      BY <2>3, ProducerStatus
    <2> HIDE DEF c
    <2> QED
      BY <1>4, <2>1, <2>2, <2>3, <2>4 DEF ProducerOK, Active
  <1> QED
    BY <1>0, <1>1, <1>2, <1>3, <1>4

(* With nothing loaded, producer_play asks for a track and loads it. *)
LEMMA ProducerPlayUnloaded ==
  ASSUME NEW s \in PState, ProducerOK(s), NEW e \in Env, s.ps = "UNLOADED"
  PROVE  /\ producer_play(s, e) \in PState /\ ProducerOK(producer_play(s, e))
         /\ SameDevice(producer_play(s, e), s) /\ SameConsumer(producer_play(s, e), s)
         /\ Others(producer_play(s, e)) = Others(s)
         /\ producer_play(s, e).status \in {s.status, s.cs}
         /\ producer_play(s, e).nr = s.nr
         /\ producer_play(s, e).ps \in {"PLAYING", "UNLOADED"}
  <1>0. s.refs \in Int /\ s.ti \in MaybeTrack /\ NoTrack \notin Tracks /\ e.next \in MaybeTrack
    BY TracksAssumption DEF PState, Env
  <1>1. CASE e.next = NoTrack
    BY <1>0, <1>1 DEF producer_play
  <1>2. CASE e.next # NoTrack
    <2> DEFINE t == e.next
               r == track_info_ref(s, t)
               n == ip_new(r, t)
    <2>1. t \in Tracks /\ t \in MaybeTrack
      BY <1>0, <1>2 DEF MaybeTrack
    <2>2. /\ r \in PState /\ SameInput(r, s) /\ SameBuffer(r, s) /\ SamePlay(r, s)
          /\ SameDevice(r, s) /\ SameConsumer(r, s) /\ SameStatus(r, s)
          /\ r.ti = s.ti /\ r.refs = s.refs + 1
      BY <2>1, <1>2, TrackInfoRef
    <2>3. /\ n \in PState /\ SameBuffer(n, r) /\ SamePlay(n, r)
          /\ n.ip = [mem |-> "live", track |-> t, open |-> FALSE, eof |-> FALSE]
          /\ SameDevice(n, r) /\ SameConsumer(n, r) /\ SameStatus(n, r) /\ SameTrack(n, r)
      <3> HIDE DEF r
      <3> QED BY <2>1, <2>2, IpNew
    <2>4. producer_play(s, e) =
            IF e.ip
            THEN file_changed(producer_status_update(ip_opened(n), "PLAYING"), t)
            ELSE file_changed(track_info_unref(ip_delete(player_error(n)), t), NoTrack)
      BY <1>2 DEF producer_play
    <2> HIDE DEF t, r, n
    <2>5. CASE e.ip
      <3> DEFINE a == ip_opened(n)
                 b == producer_status_update(a, "PLAYING")
                 c == file_changed(b, t)
      <3>1. /\ a \in PState /\ SameBuffer(a, n)
            /\ a.ip.mem = n.ip.mem /\ a.ip.track = n.ip.track /\ a.ip.open = TRUE
            /\ SameDevice(a, n) /\ SameConsumer(a, n) /\ SameStatus(a, n) /\ SameTrack(a, n)
        BY <2>3, IpOpened
      <3> HIDE DEF a
      <3>2. /\ b \in PState /\ SameInput(b, a) /\ SameBuffer(b, a)
            /\ b.ps = "PLAYING" /\ b.pwait = FALSE
            /\ SameDevice(b, a) /\ SameConsumer(b, a) /\ SameStatus(b, a) /\ SameTrack(b, a)
        BY <3>1, ProducerStatus
      <3> HIDE DEF b
      <3>3. /\ c \in PState /\ SameInput(c, b) /\ SameBuffer(c, b) /\ SamePlay(c, b)
            /\ SameDevice(c, b) /\ SameConsumer(c, b) /\ SameStatus(c, b)
            /\ c.ti = t /\ c.refs = b.refs - (IF b.ti = NoTrack THEN 0 ELSE 1)
        BY <2>1, <3>2, FileChanged
      <3> HIDE DEF c
      <3>4. producer_play(s, e) = c
        BY <2>4, <2>5 DEF a, b, c
      <3> QED
        BY <1>0, <2>1, <2>2, <2>3, <3>1, <3>2, <3>3, <3>4 DEF ProducerOK, Active, Others
    <2>6. CASE ~e.ip
      <3> DEFINE a == player_error(n)
                 b == ip_delete(a)
                 c == track_info_unref(b, t)
                 d == file_changed(c, NoTrack)
      <3>1. /\ a \in PState /\ SameInput(a, n) /\ SameBuffer(a, n) /\ SamePlay(a, n)
            /\ SameDevice(a, n) /\ SameConsumer(a, n) /\ a.status = n.cs /\ SameTrack(a, n)
        BY <2>3, PlayerError
      <3> HIDE DEF a
      <3>2. /\ b \in PState /\ SameBuffer(b, a) /\ SamePlay(b, a)
            /\ b.ip.mem = "freed" /\ b.ip.open = FALSE /\ b.ip.eof = FALSE
            /\ SameDevice(b, a) /\ SameConsumer(b, a) /\ SameStatus(b, a) /\ SameTrack(b, a)
        BY <3>1, IpDelete
      <3> HIDE DEF b
      <3>3. /\ c \in PState /\ SameInput(c, b) /\ SameBuffer(c, b) /\ SamePlay(c, b)
            /\ SameDevice(c, b) /\ SameConsumer(c, b) /\ SameStatus(c, b)
            /\ c.ti = b.ti /\ c.refs = b.refs - 1
        BY <2>1, <1>2, <3>2, TrackInfoUnref DEF t
      <3> HIDE DEF c
      <3>4. /\ d \in PState /\ SameInput(d, c) /\ SameBuffer(d, c) /\ SamePlay(d, c)
            /\ SameDevice(d, c) /\ SameConsumer(d, c) /\ SameStatus(d, c)
            /\ d.ti = NoTrack /\ d.refs = c.refs - (IF c.ti = NoTrack THEN 0 ELSE 1)
        BY <3>3, FileChanged DEF MaybeTrack
      <3> HIDE DEF d
      <3>5. producer_play(s, e) = d
        BY <2>4, <2>6 DEF a, b, c, d
      <3> QED
        BY <1>0, <2>1, <2>2, <2>3, <3>1, <3>2, <3>3, <3>4, <3>5
           DEF ProducerOK, Active, Others, NothingToRead
    <2> QED BY <2>5, <2>6
  <1> QED BY <1>1, <1>2

(* player.c, _producer_play: it plays, or nothing is loaded any more. *)
LEMMA ProducerPlay ==
  ASSUME NEW s \in PState, ProducerOK(s), NEW e \in Env
  PROVE  /\ producer_play(s, e) \in PState /\ ProducerOK(producer_play(s, e))
         /\ SameDevice(producer_play(s, e), s) /\ SameConsumer(producer_play(s, e), s)
         /\ Others(producer_play(s, e)) = Others(s)
         /\ producer_play(s, e).status \in {s.status, s.cs}
         /\ producer_play(s, e).nr = s.nr
         /\ s.ps # "UNLOADED" => producer_play(s, e).ip.track = s.ip.track
         /\ producer_play(s, e).ps \in {"PLAYING", "UNLOADED"}
         /\ s.ps \in Active => producer_play(s, e).ps = "PLAYING"
  <1>1. CASE s.ps = "UNLOADED"
    BY <1>1, ProducerPlayUnloaded DEF Active
  <1>2. CASE s.ps # "UNLOADED"
    BY <1>2, ProducerPlayLoaded DEF Others
  <1> QED BY <1>1, <1>2

(* player.c, _producer_pause: playing and paused change places. *)
LEMMA ProducerPause ==
  ASSUME NEW s \in PState, ProducerOK(s)
  PROVE  /\ producer_pause(s) \in PState /\ ProducerOK(producer_pause(s))
         /\ SameInput(producer_pause(s), s) /\ SameBuffer(producer_pause(s), s)
         /\ SameDevice(producer_pause(s), s) /\ SameConsumer(producer_pause(s), s)
         /\ SameTrack(producer_pause(s), s) /\ SameStatus(producer_pause(s), s)
         /\ s.ps = "PLAYING" => producer_pause(s).ps = "PAUSED"
         /\ s.ps = "PAUSED" => producer_pause(s).ps = "PLAYING"
  <1>1. CASE s.ps \notin Active
    BY <1>1 DEF producer_pause, Active
  <1>2. CASE s.ps \in Active
    <2> DEFINE q == IF s.ps = "PLAYING" THEN "PAUSED" ELSE "PLAYING"
               a == producer_status_update(s, q)
    <2>1. producer_pause(s) = a
      BY <1>2 DEF producer_pause, Active
    <2>2. /\ a \in PState /\ SameInput(a, s) /\ SameBuffer(a, s) /\ a.ps = q /\ a.pwait = FALSE
          /\ SameDevice(a, s) /\ SameConsumer(a, s) /\ SameTrack(a, s) /\ SameStatus(a, s)
      BY ProducerStatus
    <2> HIDE DEF a
    <2> QED BY <1>2, <2>1, <2>2 DEF ProducerOK, Active
  <1> QED BY <1>1, <1>2

-----------------------------------------------------------------------------
(* The consumer's side. *)

(* player.c, _consumer_stop: the device is closed. *)
LEMMA ConsumerStop ==
  ASSUME NEW s \in PState, ConsumerOK(s)
  PROVE  /\ consumer_stop(s) \in PState /\ ConsumerOK(consumer_stop(s))
         /\ SameInput(consumer_stop(s), s) /\ SameBuffer(consumer_stop(s), s)
         /\ SamePlay(consumer_stop(s), s)
         /\ SameTrack(consumer_stop(s), s) /\ SameStatus(consumer_stop(s), s)
         /\ consumer_stop(s).cs = "STOPPED" /\ ~consumer_stop(s).op.open
         /\ consumer_stop(s).cwait => s.cwait
  <1>1. CASE s.cs \in Active
    <2> DEFINE a == op_close(s)
               b == consumer_status_update(a, "STOPPED")
    <2>1. consumer_stop(s) = b
      BY <1>1 DEF consumer_stop
    <2>2. /\ a \in PState /\ a.op.open = FALSE
          /\ SameInput(a, s) /\ SameBuffer(a, s) /\ SamePlay(a, s) /\ SameTrack(a, s) /\ SameStatus(a, s)
      BY OpClose
    <2> HIDE DEF a
    <2>3. /\ b \in PState /\ SameDevice(b, a) /\ b.cs = "STOPPED" /\ b.cwait = FALSE
          /\ SameInput(b, a) /\ SameBuffer(b, a) /\ SamePlay(b, a) /\ SameTrack(b, a) /\ SameStatus(b, a)
      BY <2>2, ConsumerStatus
    <2> HIDE DEF b
    <2> QED BY <2>1, <2>2, <2>3 DEF ConsumerOK, Active
  <1>2. CASE s.cs \notin Active
    BY <1>2 DEF consumer_stop, ConsumerOK, Active, PState
  <1> QED BY <1>1, <1>2

(* player.c, _consumer_pause: playing and paused change places. *)
LEMMA ConsumerPause ==
  ASSUME NEW s \in PState, ConsumerOK(s), s.cs \in Active
  PROVE  /\ consumer_pause(s) \in PState /\ ConsumerOK(consumer_pause(s))
         /\ SameInput(consumer_pause(s), s) /\ SameBuffer(consumer_pause(s), s)
         /\ SamePlay(consumer_pause(s), s) /\ consumer_pause(s).sf = s.sf
         /\ SameTrack(consumer_pause(s), s) /\ SameStatus(consumer_pause(s), s)
         /\ s.cs = "PLAYING" => consumer_pause(s).cs = "PAUSED"
         /\ s.cs = "PAUSED" => consumer_pause(s).cs = "PLAYING"
  <1>1. CASE s.cs = "PLAYING"
    <2> DEFINE a == op_pause(s)
               b == consumer_status_update(a, "PAUSED")
    <2>1. consumer_pause(s) = b
      BY <1>1 DEF consumer_pause
    <2>2. /\ a \in PState /\ a.op.open = s.op.open /\ a.op.paused = TRUE /\ a.op.sf = s.op.sf /\ a.sf = s.sf
          /\ SameInput(a, s) /\ SameBuffer(a, s) /\ SamePlay(a, s) /\ SameTrack(a, s) /\ SameStatus(a, s)
      BY OpPause
    <2> HIDE DEF a
    <2>3. /\ b \in PState /\ SameDevice(b, a) /\ b.cs = "PAUSED" /\ b.cwait = FALSE
          /\ SameInput(b, a) /\ SameBuffer(b, a) /\ SamePlay(b, a) /\ SameTrack(b, a) /\ SameStatus(b, a)
      BY <2>2, ConsumerStatus
    <2> HIDE DEF b
    <2> QED BY <1>1, <2>1, <2>2, <2>3 DEF ConsumerOK, Active
  <1>2. CASE s.cs = "PAUSED"
    <2> DEFINE a == op_unpause(s)
               b == consumer_status_update(a, "PLAYING")
    <2>1. consumer_pause(s) = b
      BY <1>2 DEF consumer_pause
    <2>2. /\ a \in PState /\ a.op.open = s.op.open /\ a.op.paused = FALSE /\ a.op.sf = s.op.sf /\ a.sf = s.sf
          /\ SameInput(a, s) /\ SameBuffer(a, s) /\ SamePlay(a, s) /\ SameTrack(a, s) /\ SameStatus(a, s)
      BY OpUnpause
    <2> HIDE DEF a
    <2>3. /\ b \in PState /\ SameDevice(b, a) /\ b.cs = "PLAYING" /\ b.cwait = FALSE
          /\ SameInput(b, a) /\ SameBuffer(b, a) /\ SamePlay(b, a) /\ SameTrack(b, a) /\ SameStatus(b, a)
      BY <2>2, ConsumerStatus
    <2> HIDE DEF b
    <2> QED BY <1>2, <2>1, <2>2, <2>3 DEF ConsumerOK, Active
  <1> QED BY <1>1, <1>2 DEF Active

(* The device is opened in the format of the loaded track. *)
LEMMA ConsumerPlay ==
  ASSUME NEW s \in PState, ConsumerOK(s), s.ip.track \in Tracks, NEW e \in Env
  PROVE  /\ consumer_play(s, e) \in PState /\ ConsumerOK(consumer_play(s, e))
         /\ SameInput(consumer_play(s, e), s) /\ SameBuffer(consumer_play(s, e), s)
         /\ SamePlay(consumer_play(s, e), s) /\ SameTrack(consumer_play(s, e), s)
         /\ consumer_play(s, e).cs \in {"PLAYING", "STOPPED"}
         /\ s.cs \in Active => consumer_play(s, e).cs = "PLAYING"
         /\ consumer_play(s, e).sf = IF s.cs = "STOPPED" THEN SfOf[s.ip.track] ELSE s.sf
         /\ consumer_play(s, e).status =
              IF consumer_play(s, e).cs = "PLAYING" THEN s.status ELSE "STOPPED"
  <1>0. s.cs \in {"STOPPED", "PLAYING", "PAUSED"}
    BY DEF PState
  <1>1. CASE s.cs = "PLAYING"
    BY <1>1 DEF consumer_play, Active
  <1>2. CASE s.cs = "PAUSED"
    <2>1. consumer_play(s, e) = consumer_pause(s)
      BY <1>2 DEF consumer_play, consumer_pause
    <2> QED BY <1>2, <2>1, ConsumerPause DEF Active
  <1>3. CASE s.cs = "STOPPED"
    <2> DEFINE a == set_buffer_sf(s)
               b == op_opened(a)
               c == consumer_status_update(b, "PLAYING")
               d == player_error(a)
    <2>1. consumer_play(s, e) = IF e.op THEN c ELSE d
      BY <1>3 DEF consumer_play
    <2>2. /\ a \in PState /\ a.op = s.op /\ a.sf = SfOf[s.ip.track] /\ SameConsumer(a, s)
          /\ SameInput(a, s) /\ SameBuffer(a, s) /\ SamePlay(a, s) /\ SameTrack(a, s) /\ SameStatus(a, s)
      BY SetBufferSf
    <2> HIDE DEF a
    <2>3. /\ b \in PState /\ b.op = [open |-> TRUE, paused |-> FALSE, sf |-> a.sf] /\ b.sf = a.sf
          /\ SameInput(b, a) /\ SameBuffer(b, a) /\ SamePlay(b, a) /\ SameTrack(b, a) /\ SameStatus(b, a)
      BY <2>2, OpOpened
    <2> HIDE DEF b
    <2>4. /\ c \in PState /\ SameDevice(c, b) /\ c.cs = "PLAYING" /\ c.cwait = FALSE
          /\ SameInput(c, b) /\ SameBuffer(c, b) /\ SamePlay(c, b) /\ SameTrack(c, b) /\ SameStatus(c, b)
      BY <2>3, ConsumerStatus
    <2> HIDE DEF c
    <2>5. /\ d \in PState /\ SameDevice(d, a) /\ SameConsumer(d, a) /\ d.status = a.cs
          /\ SameInput(d, a) /\ SameBuffer(d, a) /\ SamePlay(d, a) /\ SameTrack(d, a)
      BY <2>2, PlayerError
    <2> HIDE DEF d
    <2> QED BY <1>3, <2>1, <2>2, <2>3, <2>4, <2>5 DEF ConsumerOK, Active
  <1> QED BY <1>0, <1>1, <1>2, <1>3

(* The device follows the format of the track, or consumer and producer    *)
(* stop.                                                                   *)
LEMMA ChangeSf ==
  ASSUME NEW s \in PState, ProducerOK(s), ConsumerOK(s), s.ps = "PLAYING", s.cs \in Active,
         NEW e \in Env
  PROVE  /\ change_sf(s, e) \in PState
         /\ ProducerOK(change_sf(s, e)) /\ ConsumerOK(change_sf(s, e)) /\ Linked(change_sf(s, e))
         /\ SameTrack(change_sf(s, e), s) /\ change_sf(s, e).nr = s.nr
         /\ \/ change_sf(s, e).cs = "PLAYING" /\ SameStatus(change_sf(s, e), s)
                                           /\ change_sf(s, e).ps = "PLAYING"
            \/ change_sf(s, e).cs = "STOPPED"
  <1> DEFINE a == set_buffer_sf(s)
  <1>1. s.ip.track \in Tracks
    BY DEF ProducerOK
  <1>2. /\ a \in PState /\ a.op = s.op /\ a.sf = SfOf[s.ip.track] /\ SameConsumer(a, s)
        /\ SameInput(a, s) /\ SameBuffer(a, s) /\ SamePlay(a, s) /\ SameTrack(a, s) /\ SameStatus(a, s)
    BY <1>1, SetBufferSf
  <1>3. CASE a.sf = s.sf
    <2> DEFINE b == op_unpause(a)
               c == consumer_status_update(b, "PLAYING")
    <2>1. change_sf(s, e) = c
      BY <1>3 DEF change_sf
    <2> HIDE DEF a
    <2>2. /\ b \in PState /\ b.op.open = a.op.open /\ b.op.paused = FALSE /\ b.op.sf = a.op.sf /\ b.sf = a.sf
          /\ SameInput(b, a) /\ SameBuffer(b, a) /\ SamePlay(b, a) /\ SameTrack(b, a) /\ SameStatus(b, a)
      BY <1>2, OpUnpause
    <2> HIDE DEF b
    <2>3. /\ c \in PState /\ SameDevice(c, b) /\ c.cs = "PLAYING" /\ c.cwait = FALSE
          /\ SameInput(c, b) /\ SameBuffer(c, b) /\ SamePlay(c, b) /\ SameTrack(c, b) /\ SameStatus(c, b)
      BY <2>2, ConsumerStatus
    <2> HIDE DEF c
    <2>4. ProducerOK(c)
      BY <1>2, <2>2, <2>3 DEF ProducerOK, NothingToRead
    <2>5. s.op.open /\ s.op.sf = s.sf
      BY DEF ConsumerOK
    <2>6. c.op.open /\ ~c.op.paused /\ c.op.sf = c.sf
      <3>1. c.op = b.op /\ c.sf = b.sf
        BY <2>3 DEF SameDevice
      <3>2. b.op.open /\ ~b.op.paused /\ b.op.sf = b.sf
        <4>1. a.op.open /\ a.op.sf = a.sf
          BY <1>2, <1>3, <2>5
        <4> QED BY <2>2, <4>1
      <3> QED BY <3>1, <3>2
    <2>7. ConsumerOK(c)
      BY <2>3, <2>6 DEF ConsumerOK, Active
    <2>8. Linked(c)
      BY <1>2, <2>2, <2>3 DEF Linked
    <2> QED
      BY <1>2, <2>1, <2>2, <2>3, <2>4, <2>7, <2>8
  <1>4. CASE a.sf # s.sf /\ e.op
    <2> DEFINE b == op_opened(a)
               c == consumer_status_update(b, "PLAYING")
    <2>1. change_sf(s, e) = c
      BY <1>4 DEF change_sf
    <2> HIDE DEF a
    <2>2. /\ b \in PState /\ b.op = [open |-> TRUE, paused |-> FALSE, sf |-> a.sf] /\ b.sf = a.sf
          /\ SameInput(b, a) /\ SameBuffer(b, a) /\ SamePlay(b, a) /\ SameTrack(b, a) /\ SameStatus(b, a)
      BY <1>2, OpOpened
    <2> HIDE DEF b
    <2>3. /\ c \in PState /\ SameDevice(c, b) /\ c.cs = "PLAYING" /\ c.cwait = FALSE
          /\ SameInput(c, b) /\ SameBuffer(c, b) /\ SamePlay(c, b) /\ SameTrack(c, b) /\ SameStatus(c, b)
      BY <2>2, ConsumerStatus
    <2> HIDE DEF c
    <2> QED
      BY <1>2, <1>4, <2>1, <2>2, <2>3 DEF ProducerOK, ConsumerOK, Linked, Active, NothingToRead
  <1>5. CASE a.sf # s.sf /\ ~e.op
    <2> DEFINE b == op_close(a)
               c == player_error(b)
               d == consumer_status_update(c, "STOPPED")
               f == producer_stop(d)
    <2>1. change_sf(s, e) = f
      BY <1>5 DEF change_sf
    <2> HIDE DEF a
    <2>2. /\ b \in PState /\ b.op.open = FALSE
          /\ SameInput(b, a) /\ SameBuffer(b, a) /\ SamePlay(b, a) /\ SameTrack(b, a)
      BY <1>2, OpClose
    <2> HIDE DEF b
    <2>3. /\ c \in PState /\ SameDevice(c, b)
          /\ SameInput(c, b) /\ SameBuffer(c, b) /\ SamePlay(c, b) /\ SameTrack(c, b)
      BY <2>2, PlayerError
    <2> HIDE DEF c
    <2>4. /\ d \in PState /\ SameDevice(d, c) /\ d.cs = "STOPPED" /\ d.cwait = FALSE
          /\ SameInput(d, c) /\ SameBuffer(d, c) /\ SamePlay(d, c) /\ SameTrack(d, c)
      BY <2>3, ConsumerStatus
    <2> HIDE DEF d
    <2>5. ProducerOK(d)
      BY <1>2, <2>2, <2>3, <2>4 DEF ProducerOK, NothingToRead
    <2>6. /\ f \in PState /\ ProducerOK(f) /\ f.nr = d.nr
          /\ SameDevice(f, d) /\ SameConsumer(f, d) /\ SameTrack(f, d)
      BY <2>4, <2>5, ProducerStop
    <2> HIDE DEF f
    <2> QED
      BY <1>2, <2>1, <2>2, <2>3, <2>4, <2>6 DEF ConsumerOK, Linked, Active
  <1> QED BY <1>3, <1>4, <1>5

-----------------------------------------------------------------------------
(* The bodies of the player's functions. *)

(* The user interface is told the consumer's status, or was told STOPPED   *)
(* in the middle of a reopen of the device that has succeeded since.       *)
StatusOK(s) == \/ s.status = s.cs
               \/ overtaken /\ s.status = "STOPPED" /\ s.cs = "PLAYING"

(* The player when nobody is inside it. *)
Coherent(s) == ProducerOK(s) /\ ConsumerOK(s) /\ Linked(s) /\ StatusOK(s)

(* player_status_changed completes what a function has brought about. *)
LEMMA Published ==
  ASSUME NEW s \in PState, ProducerOK(s), ConsumerOK(s), Linked(s)
  PROVE  /\ player_status_changed(s) \in PState /\ Coherent(player_status_changed(s))
         /\ SameTrack(player_status_changed(s), s) /\ player_status_changed(s).ps = s.ps
         /\ player_status_changed(s).cs = s.cs /\ player_status_changed(s).nr = s.nr
         /\ player_status_changed(s).ip = s.ip
  <1> DEFINE a == player_status_changed(s)
  <1>1. /\ a \in PState /\ a.status = s.cs
        /\ SameInput(a, s) /\ SameBuffer(a, s) /\ SamePlay(a, s) /\ SameTrack(a, s)
        /\ SameDevice(a, s) /\ SameConsumer(a, s)
    BY StatusChanged
  <1> HIDE DEF a
  <1>2. ProducerOK(a) /\ ConsumerOK(a) /\ Linked(a) /\ StatusOK(a)
    BY <1>1 DEF ProducerOK, ConsumerOK, Linked, StatusOK, NothingToRead
  <1> QED BY <1>1, <1>2 DEF Coherent, a

(* The consumer starts on a playing producer, or the producer stops. *)
LEMMA StartConsumerOK ==
  ASSUME NEW s \in PState, ProducerOK(s), ConsumerOK(s), s.ps = "PLAYING",
         s.op.open => s.sf = SfOf[s.ip.track], NEW e \in Env
  PROVE  /\ StartConsumer(s, e) \in PState
         /\ ProducerOK(StartConsumer(s, e)) /\ ConsumerOK(StartConsumer(s, e))
         /\ Linked(StartConsumer(s, e))
         /\ SameTrack(StartConsumer(s, e), s) /\ StartConsumer(s, e).nr = s.nr
         /\ StartConsumer(s, e).cs \in {"PLAYING", "STOPPED"}
         /\ StartConsumer(s, e).status =
              IF StartConsumer(s, e).cs = "PLAYING" THEN s.status ELSE "STOPPED"
         /\ s.cs \in Active => StartConsumer(s, e).cs = "PLAYING"
         /\ StartConsumer(s, e).ip.track = s.ip.track
  <1> DEFINE a == consumer_play(s, e)
             b == producer_stop(a)
  <1>1. s.ip.track \in Tracks /\ s.cs \in {"STOPPED", "PLAYING", "PAUSED"}
    BY DEF ProducerOK, PState
  <1>2. StartConsumer(s, e) = IF a.cs # "PLAYING" THEN b ELSE a
    BY DEF StartConsumer
  <1>3. /\ a \in PState /\ ConsumerOK(a) /\ a.cs \in {"PLAYING", "STOPPED"}
        /\ SameInput(a, s) /\ SameBuffer(a, s) /\ SamePlay(a, s) /\ SameTrack(a, s)
        /\ s.cs \in Active => a.cs = "PLAYING"
        /\ a.sf = IF s.cs = "STOPPED" THEN SfOf[s.ip.track] ELSE s.sf
        /\ a.status = IF a.cs = "PLAYING" THEN s.status ELSE "STOPPED"
    BY <1>1, ConsumerPlay
  <1> HIDE DEF a
  <1>4. ProducerOK(a)
    BY <1>3 DEF ProducerOK, NothingToRead
  <1>5. /\ b \in PState /\ ProducerOK(b) /\ b.nr = a.nr /\ b.ip.track = a.ip.track
        /\ SameDevice(b, a) /\ SameConsumer(b, a) /\ SameTrack(b, a) /\ SameStatus(b, a)
    BY <1>3, <1>4, ProducerStop
  <1> HIDE DEF b
  <1>6. CASE a.cs = "PLAYING"
    BY <1>1, <1>2, <1>3, <1>4, <1>6 DEF ConsumerOK, Linked, Active
  <1>7. CASE a.cs # "PLAYING"
    BY <1>1, <1>2, <1>3, <1>5, <1>7 DEF ConsumerOK, Linked, Active
  <1> QED BY <1>6, <1>7

(* player.c, player_stop keeps the player coherent. *)
LEMMA PlayerStop ==
  ASSUME NEW s \in PState, Coherent(s)
  PROVE  /\ player_stop(s) \in PState /\ Coherent(player_stop(s))
         /\ Others(player_stop(s)) = Others(s)
  <1> DEFINE a == consumer_stop(s)
             b == producer_stop(a)
  <1>1. /\ a \in PState /\ ConsumerOK(a) /\ a.cs = "STOPPED" /\ ~a.op.open
        /\ SameInput(a, s) /\ SameBuffer(a, s) /\ SamePlay(a, s) /\ SameTrack(a, s)
    BY ConsumerStop DEF Coherent
  <1> HIDE DEF a
  <1>2. ProducerOK(a)
    BY <1>1 DEF Coherent, ProducerOK, NothingToRead
  <1>3. /\ b \in PState /\ ProducerOK(b)
        /\ SameDevice(b, a) /\ SameConsumer(b, a) /\ SameTrack(b, a)
    BY <1>1, <1>2, ProducerStop
  <1> HIDE DEF b
  <1>4. ConsumerOK(b) /\ Linked(b)
    BY <1>1, <1>3 DEF ConsumerOK, Linked
  <1>5. player_stop(s) = player_status_changed(b)
    BY DEF player_stop, a, b
  <1> QED BY <1>1, <1>3, <1>4, <1>5, Published DEF Others

(* "Try to reopen" begins with the device closed and the consumer stopped, *)
(* while the producer plays on and nothing is published.                   *)
LEMMA ReopeningOK ==
  ASSUME NEW s \in PState, Coherent(s), s.cs = "PLAYING"
  PROVE  LET r == Reopening(s)
         IN /\ r \in PState /\ ProducerOK(r) /\ ConsumerOK(r) /\ Linked(r)
            /\ r.cs = "STOPPED" /\ r.ps = "PLAYING" /\ r.cwait = FALSE
            /\ SameTrack(r, s) /\ SamePlay(r, s) /\ SameStatus(r, s)
  <1> DEFINE a == op_close(s)
             b == consumer_status_update(a, "STOPPED")
  <1>0. s.ps = "PLAYING"
    BY DEF Coherent, Linked
  <1>1. Reopening(s) = b
    BY DEF Reopening
  <1>2. /\ a \in PState /\ ~a.op.open
        /\ SameInput(a, s) /\ SameBuffer(a, s) /\ SamePlay(a, s) /\ SameTrack(a, s) /\ SameStatus(a, s)
    BY OpClose
  <1> HIDE DEF a
  <1>3. /\ b \in PState /\ SameDevice(b, a) /\ b.cs = "STOPPED" /\ b.cwait = FALSE
        /\ SameInput(b, a) /\ SameBuffer(b, a) /\ SamePlay(b, a) /\ SameTrack(b, a) /\ SameStatus(b, a)
    BY <1>2, ConsumerStatus
  <1> HIDE DEF b
  <1>4. ConsumerOK(b) /\ Linked(b)
    BY <1>2, <1>3 DEF ConsumerOK, Linked, Active
  <1>5. ProducerOK(b)
    BY <1>2, <1>3 DEF Coherent, ProducerOK, NothingToRead
  <1> QED BY <1>0, <1>1, <1>2, <1>3, <1>4, <1>5

(* It ends with the device open again and the status not published, or     *)
(* with a consumer that has stopped, which is.                             *)
LEMMA ReopenedOK ==
  ASSUME NEW s \in PState, ProducerOK(s), ConsumerOK(s), s.cs = "STOPPED", s.ps = "PLAYING",
         s.status = "PLAYING" \/ (overtaken /\ s.status = "STOPPED"), NEW e \in Env
  PROVE  LET r == consumer_play(s, e)
         IN r \in PState /\ Coherent(r) /\ SameTrack(r, s) /\ SamePlay(r, s)
  <1> DEFINE r == consumer_play(s, e)
  <1>0. s.ip.track \in Tracks
    BY DEF ProducerOK
  <1>1. /\ r \in PState /\ ConsumerOK(r) /\ r.cs \in {"PLAYING", "STOPPED"}
        /\ SameInput(r, s) /\ SameBuffer(r, s) /\ SamePlay(r, s) /\ SameTrack(r, s)
        /\ r.sf = SfOf[s.ip.track]
        /\ r.status = IF r.cs = "PLAYING" THEN s.status ELSE "STOPPED"
    BY <1>0, ConsumerPlay
  <1> HIDE DEF r
  <1>2. ProducerOK(r)
    BY <1>1 DEF ProducerOK, NothingToRead
  <1>3. Linked(r)
    BY <1>1 DEF Linked
  <1>4. StatusOK(r)
    BY <1>1 DEF StatusOK
  <1> QED BY <1>1, <1>2, <1>3, <1>4 DEF Coherent, r

(* producer_play, called on a coherent player, leaves the consumer as it   *)
(* is, with the device in the format of the loaded track.                  *)
LEMMA PlayFromCoherent ==
  ASSUME NEW s \in PState, Coherent(s), NEW e \in Env
  PROVE  LET a == producer_play(s, e)
         IN /\ a \in PState /\ ProducerOK(a) /\ ConsumerOK(a)
            /\ a.op.open => a.sf = SfOf[a.ip.track]
            /\ a.cs = s.cs /\ Others(a) = Others(s)
            /\ s.cs = "STOPPED" => a.status = "STOPPED"
            /\ a.ps \in {"PLAYING", "UNLOADED"}
            /\ s.ps \in Active => a.ps = "PLAYING"
  <1> DEFINE a == producer_play(s, e)
  <1>1. /\ a \in PState /\ ProducerOK(a) /\ SameDevice(a, s) /\ SameConsumer(a, s)
        /\ Others(a) = Others(s) /\ a.status \in {s.status, s.cs}
        /\ s.ps # "UNLOADED" => a.ip.track = s.ip.track
        /\ a.ps \in {"PLAYING", "UNLOADED"}
        /\ s.ps \in Active => a.ps = "PLAYING"
    BY ProducerPlay DEF Coherent
  <1> HIDE DEF a
  <1>2. ConsumerOK(a)
    BY <1>1 DEF Coherent, ConsumerOK
  <1>3. s.op.open => s.ps # "UNLOADED"
    BY DEF Coherent, ConsumerOK, Linked, Active
  <1>4. a.op.open => a.sf = SfOf[a.ip.track]
    BY <1>1, <1>3 DEF Coherent, Linked
  <1>5. s.cs = "STOPPED" => a.status = "STOPPED"
    BY <1>1 DEF Coherent, StatusOK
  <1> QED BY <1>1, <1>2, <1>4, <1>5 DEF a

(* Stopping the consumer is always enough to make the two sides agree. *)
LEMMA StopLinks ==
  ASSUME NEW s \in PState, ProducerOK(s), ConsumerOK(s)
  PROVE  /\ consumer_stop(s) \in PState /\ ProducerOK(consumer_stop(s))
         /\ ConsumerOK(consumer_stop(s)) /\ Linked(consumer_stop(s))
         /\ SameTrack(consumer_stop(s), s) /\ SameInput(consumer_stop(s), s)
         /\ SamePlay(consumer_stop(s), s) /\ consumer_stop(s).nr = s.nr
         /\ consumer_stop(s).cs = "STOPPED" /\ ~consumer_stop(s).op.open
         /\ consumer_stop(s).cwait => s.cwait
  <1> DEFINE a == consumer_stop(s)
  <1>1. /\ a \in PState /\ ConsumerOK(a) /\ a.cs = "STOPPED" /\ ~a.op.open
        /\ SameInput(a, s) /\ SameBuffer(a, s) /\ SamePlay(a, s) /\ SameTrack(a, s)
        /\ a.cwait => s.cwait
    BY ConsumerStop
  <1> HIDE DEF a
  <1>2. ProducerOK(a)
    BY <1>1 DEF ProducerOK, NothingToRead
  <1>3. Linked(a)
    BY <1>1 DEF Linked
  <1> QED BY <1>1, <1>2, <1>3 DEF a

(* The two stops, in the order in which the consumer thread calls them. *)
LEMMA StopBoth ==
  ASSUME NEW s \in PState, ProducerOK(s), ConsumerOK(s)
  PROVE  LET r == consumer_stop(producer_stop(s))
         IN /\ r \in PState /\ ProducerOK(r) /\ ConsumerOK(r) /\ Linked(r)
            /\ SameTrack(r, s) /\ r.nr = s.nr /\ r.cs = "STOPPED" /\ ~r.op.open
            /\ r.ps \notin Active
  <1> DEFINE a == producer_stop(s)
             b == consumer_stop(a)
  <1>1. /\ a \in PState /\ ProducerOK(a) /\ a.nr = s.nr
        /\ SameDevice(a, s) /\ SameConsumer(a, s) /\ SameTrack(a, s)
        /\ a.ps = IF s.ps \in Active THEN "STOPPED" ELSE s.ps
    BY ProducerStop
  <1> HIDE DEF a
  <1>2. ConsumerOK(a) /\ a.ps \notin Active
    BY <1>1 DEF ConsumerOK, Active
  <1>3. /\ b \in PState /\ ProducerOK(b) /\ ConsumerOK(b) /\ Linked(b)
        /\ SameTrack(b, a) /\ b.nr = a.nr /\ b.cs = "STOPPED" /\ ~b.op.open /\ SamePlay(b, a)
    BY <1>1, <1>2, StopLinks
  <1> HIDE DEF b
  <1> QED BY <1>1, <1>2, <1>3 DEF a, b

(* player.c, player_play keeps the player coherent. *)
LEMMA PlayerPlay ==
  ASSUME NEW s \in PState, Coherent(s), NEW e \in Env
  PROVE  /\ player_play(s, e) \in PState /\ Coherent(player_play(s, e))
         /\ Others(player_play(s, e)) = Others(s)
  <1>1. CASE s.ps = "PLAYING" /\ ip_is_remote(s)
    BY <1>1 DEF player_play
  <1>2. CASE ~(s.ps = "PLAYING" /\ ip_is_remote(s))
    <2> DEFINE a == producer_play(s, e)
               b == IF a.ps = "PLAYING" THEN StartConsumer(a, e) ELSE consumer_stop(a)
    <2>1. player_play(s, e) = player_status_changed(b)
      BY <1>2 DEF player_play
    <2>2. /\ a \in PState /\ ProducerOK(a) /\ ConsumerOK(a)
          /\ a.op.open => a.sf = SfOf[a.ip.track]
          /\ Others(a) = Others(s)
      BY PlayFromCoherent
    <2> HIDE DEF a
    <2>3. b \in PState /\ ProducerOK(b) /\ ConsumerOK(b) /\ Linked(b) /\ SameTrack(b, a)
      <3>1. CASE a.ps = "PLAYING"
        BY <2>2, <3>1, StartConsumerOK
      <3>2. CASE a.ps # "PLAYING"
        BY <2>2, <3>2, StopLinks
      <3> QED BY <3>1, <3>2
    <2> HIDE DEF b
    <2> QED BY <2>1, <2>2, <2>3, Published DEF Others
  <1> QED BY <1>1, <1>2

(* player.c, player_pause keeps the player coherent. *)
LEMMA PlayerPause ==
  ASSUME NEW s \in PState, Coherent(s), NEW e \in Env
  PROVE  /\ player_pause(s, e) \in PState /\ Coherent(player_pause(s, e))
         /\ Others(player_pause(s, e)) = Others(s)
  <1>1. CASE s.cs = "STOPPED"
    <2> DEFINE a == producer_play(s, e)
               b == IF a.ps = "PLAYING" THEN StartConsumer(a, e) ELSE a
    <2>1. player_pause(s, e) = player_status_changed(b)
      BY <1>1 DEF player_pause
    <2>2. /\ a \in PState /\ ProducerOK(a) /\ ConsumerOK(a) /\ a.cs = s.cs
          /\ a.op.open => a.sf = SfOf[a.ip.track]
          /\ Others(a) = Others(s)
      BY PlayFromCoherent
    <2> HIDE DEF a
    <2>3. b \in PState /\ ProducerOK(b) /\ ConsumerOK(b) /\ Linked(b) /\ SameTrack(b, a)
      <3>1. CASE a.ps = "PLAYING"
        BY <2>2, <3>1, StartConsumerOK
      <3>2. CASE a.ps # "PLAYING"
        BY <1>1, <2>2, <3>2 DEF Linked
      <3> QED BY <3>1, <3>2
    <2> HIDE DEF b
    <2> QED BY <2>1, <2>2, <2>3, Published DEF Others
  <1>2. CASE s.cs # "STOPPED"
    <2> DEFINE a == producer_pause(s)
               b == consumer_pause(a)
    <2>0. s.cs \in Active
      BY <1>2 DEF PState, Active
    <2>1. player_pause(s, e) = player_status_changed(b)
      BY <1>2 DEF player_pause
    <2>2. /\ a \in PState /\ ProducerOK(a) /\ SameInput(a, s) /\ SameDevice(a, s)
          /\ SameConsumer(a, s) /\ SameTrack(a, s) /\ SameBuffer(a, s)
          /\ s.ps = "PLAYING" => a.ps = "PAUSED"
          /\ s.ps = "PAUSED" => a.ps = "PLAYING"
      BY ProducerPause DEF Coherent
    <2> HIDE DEF a
    <2>3. ConsumerOK(a) /\ a.cs \in Active
      BY <2>0, <2>2 DEF Coherent, ConsumerOK
    <2>4. /\ b \in PState /\ ConsumerOK(b) /\ SameInput(b, a) /\ SameBuffer(b, a)
          /\ SamePlay(b, a) /\ b.sf = a.sf /\ SameTrack(b, a)
          /\ a.cs = "PLAYING" => b.cs = "PAUSED"
          /\ a.cs = "PAUSED" => b.cs = "PLAYING"
      BY <2>2, <2>3, ConsumerPause
    <2> HIDE DEF b
    <2>5. ProducerOK(b)
      BY <2>2, <2>4 DEF ProducerOK, NothingToRead
    <2>6. s.op.open /\ s.sf = SfOf[s.ip.track]
      BY <2>0 DEF Coherent, ConsumerOK, Linked
    <2>7. Linked(b)
      BY <2>0, <2>2, <2>4, <2>6 DEF Coherent, Linked, Active
    <2> QED BY <2>1, <2>2, <2>4, <2>5, <2>7, Published DEF Others
  <1> QED BY <1>1, <1>2

(* Loading a track and opening it, as player_set_file and player_play_file *)
(* do: the reference that came with the call goes to player_info_priv.     *)
LEMMA LoadAndPlay ==
  ASSUME NEW s \in PState, Coherent(s), NEW t \in Tracks, NEW e \in Env
  PROVE  LET a == producer_set_file(s, t)
             b == producer_play(a, e)
         IN /\ a \in PState /\ ProducerOK(a) /\ ConsumerOK(a) /\ a.cs = s.cs
            /\ Others(a) = Others(s) - 1
            /\ b \in PState /\ ProducerOK(b) /\ ConsumerOK(b) /\ b.cs = s.cs
            /\ Others(b) = Others(s) - 1
            /\ b.ps \in {"PLAYING", "UNLOADED"}
  <1> DEFINE a == producer_set_file(s, t)
             b == producer_play(a, e)
  <1>1. /\ a \in PState /\ ProducerOK(a) /\ SameDevice(a, s) /\ SameConsumer(a, s)
        /\ Others(a) = Others(s) - 1
    BY ProducerSetFile DEF Coherent
  <1> HIDE DEF a
  <1>2. /\ b \in PState /\ ProducerOK(b) /\ SameDevice(b, a) /\ SameConsumer(b, a)
        /\ Others(b) = Others(a) /\ b.ps \in {"PLAYING", "UNLOADED"}
    BY <1>1, ProducerPlay
  <1> HIDE DEF b
  <1>3. ConsumerOK(a) /\ ConsumerOK(b)
    BY <1>1, <1>2 DEF Coherent, ConsumerOK
  <1> QED BY <1>1, <1>2, <1>3 DEF a, b

(* player.c, player_set_file keeps the player coherent. *)
LEMMA PlayerSetFile ==
  ASSUME NEW s \in PState, Coherent(s), NEW t \in Tracks, NEW e \in Env
  PROVE  /\ player_set_file(s, t, e) \in PState /\ Coherent(player_set_file(s, t, e))
         /\ Others(player_set_file(s, t, e)) = Others(s) - 1
  <1> DEFINE a == producer_set_file(s, t)
             b == producer_play(a, e)
             c == IF a.cs \in Active
                  THEN IF b.ps = "UNLOADED" THEN consumer_stop(b) ELSE change_sf(b, e)
                  ELSE a
  <1>1. player_set_file(s, t, e) = player_status_changed(c)
    BY DEF player_set_file
  <1>2. /\ a \in PState /\ ProducerOK(a) /\ ConsumerOK(a) /\ a.cs = s.cs
        /\ Others(a) = Others(s) - 1
        /\ b \in PState /\ ProducerOK(b) /\ ConsumerOK(b) /\ b.cs = s.cs
        /\ Others(b) = Others(s) - 1 /\ b.ps \in {"PLAYING", "UNLOADED"}
    BY LoadAndPlay
  <1> HIDE DEF a, b
  <1>3. /\ c \in PState /\ ProducerOK(c) /\ ConsumerOK(c) /\ Linked(c)
        /\ SameTrack(c, a) \/ SameTrack(c, b)
    <2>1. CASE a.cs \in Active /\ b.ps = "UNLOADED"
      BY <1>2, <2>1, StopLinks
    <2>2. CASE a.cs \in Active /\ b.ps # "UNLOADED"
      BY <1>2, <2>2, ChangeSf
    <2>3. CASE a.cs \notin Active
      BY <1>2, <2>3 DEF Linked, ConsumerOK, Active
    <2> QED BY <2>1, <2>2, <2>3
  <1> HIDE DEF c
  <1> QED BY <1>1, <1>2, <1>3, Published DEF Others

(* player.c, player_play_file keeps the player coherent. *)
LEMMA PlayerPlayFile ==
  ASSUME NEW s \in PState, Coherent(s), NEW t \in Tracks, NEW e \in Env
  PROVE  /\ player_play_file(s, t, e) \in PState /\ Coherent(player_play_file(s, t, e))
         /\ Others(player_play_file(s, t, e)) = Others(s) - 1
  <1> DEFINE b == producer_play(producer_set_file(s, t), e)
             c == IF b.ps = "UNLOADED" THEN consumer_stop(b)
                  ELSE IF b.cs = "STOPPED" THEN StartConsumer(b, e)
                  ELSE change_sf(b, e)
  <1>1. player_play_file(s, t, e) = player_status_changed(c)
    BY DEF player_play_file
  <1>2. /\ b \in PState /\ ProducerOK(b) /\ ConsumerOK(b)
        /\ Others(b) = Others(s) - 1 /\ b.ps \in {"PLAYING", "UNLOADED"}
    BY LoadAndPlay
  <1> HIDE DEF b
  <1>3. c \in PState /\ ProducerOK(c) /\ ConsumerOK(c) /\ Linked(c) /\ SameTrack(c, b)
    <2>1. CASE b.ps = "UNLOADED"
      BY <1>2, <2>1, StopLinks
    <2>2. CASE b.ps = "PLAYING" /\ b.cs = "STOPPED"
      <3>1. ~b.op.open
        BY <1>2, <2>2 DEF ConsumerOK, Active
      <3> QED BY <1>2, <2>2, <3>1, StartConsumerOK
    <2>3. CASE b.ps = "PLAYING" /\ b.cs # "STOPPED"
      <3>1. b.cs \in Active
        BY <1>2, <2>3 DEF PState, Active
      <3> QED BY <1>2, <2>3, <3>1, ChangeSf
    <2> QED BY <1>2, <2>1, <2>2, <2>3
  <1> HIDE DEF c
  <1> QED BY <1>1, <1>2, <1>3, Published DEF Others

(* player_error publishes like player_status_changed. *)
LEMMA ErrorPublished ==
  ASSUME NEW s \in PState, ProducerOK(s), ConsumerOK(s), Linked(s)
  PROVE  /\ player_error(s) \in PState /\ Coherent(player_error(s))
         /\ SameTrack(player_error(s), s) /\ player_error(s).ps = s.ps
  BY Published DEF player_error

(* player.c, player_seek: starting a stopped player keeps it coherent. *)
LEMMA SeekStartsOK ==
  ASSUME NEW s \in PState, Coherent(s), NEW e \in Env
  PROVE  /\ SeekStarts(s, e) \in PState /\ Coherent(SeekStarts(s, e))
         /\ Others(SeekStarts(s, e)) = Others(s)
  <1>1. CASE s.cs # "STOPPED"
    BY <1>1 DEF SeekStarts
  <1>2. CASE s.cs = "STOPPED"
    <2> DEFINE a == producer_play(s, e)
               b == StartConsumer(a, e)
    <2>1. SeekStarts(s, e) = IF a.ps # "PLAYING" THEN a
                             ELSE IF b.cs = "PLAYING" THEN player_status_changed(b) ELSE b
      BY <1>2 DEF SeekStarts
    <2>2. /\ a \in PState /\ ProducerOK(a) /\ ConsumerOK(a) /\ a.cs = s.cs /\ a.status = "STOPPED"
          /\ a.op.open => a.sf = SfOf[a.ip.track]
          /\ Others(a) = Others(s)
      BY <1>2, PlayFromCoherent
    <2> HIDE DEF a
    <2>3. CASE a.ps # "PLAYING"
      BY <1>2, <2>1, <2>2, <2>3 DEF Coherent, Linked, StatusOK
    <2>4. CASE a.ps = "PLAYING"
      <3>1. /\ b \in PState /\ ProducerOK(b) /\ ConsumerOK(b) /\ Linked(b) /\ SameTrack(b, a)
            /\ b.cs \in {"PLAYING", "STOPPED"}
            /\ b.status = IF b.cs = "PLAYING" THEN a.status ELSE "STOPPED"
        BY <2>2, <2>4, StartConsumerOK
      <3> HIDE DEF b
      <3>2. CASE b.cs = "PLAYING"
        BY <2>1, <2>2, <2>4, <3>1, <3>2, Published DEF Others
      <3>3. CASE b.cs = "STOPPED"
        BY <2>1, <2>2, <2>4, <3>1, <3>3 DEF Others, Coherent, StatusOK
      <3> QED BY <3>1, <3>2, <3>3
    <2> QED BY <2>3, <2>4
  <1> QED BY <1>1, <1>2

(* A seek in an open track drops what was read before it. *)
LEMMA Rewound ==
  ASSUME NEW s \in PState, Coherent(s), s.ps \in Active
  PROVE  LET r == reset_buffer(ip_sought(s))
         IN r \in PState /\ Coherent(r) /\ SameTrack(r, s) /\ r.ps = s.ps /\ r.cs = s.cs
  <1> DEFINE a == ip_sought(s)
             b == reset_buffer(a)
  <1>0. s.nr \in Nat
    BY SizesAssumption DEF PState
  <1>1. /\ a \in PState /\ SameBuffer(a, s) /\ SamePlay(a, s)
        /\ a.ip.mem = s.ip.mem /\ a.ip.track = s.ip.track /\ a.ip.open = s.ip.open
        /\ SameDevice(a, s) /\ SameConsumer(a, s) /\ SameTrack(a, s) /\ SameStatus(a, s)
    BY IpSought
  <1> HIDE DEF a
  <1>2. /\ b \in PState /\ SameInput(b, a) /\ b.buf = EmptyBuf /\ b.nr = a.nr
        /\ b.ps = a.ps /\ b.pwait = FALSE
        /\ SameDevice(b, a) /\ SameConsumer(b, a) /\ SameTrack(b, a) /\ SameStatus(b, a)
    BY <1>1, ResetBuffer
  <1> HIDE DEF b
  <1>3. ProducerOK(b)
    BY <1>0, <1>1, <1>2 DEF Coherent, ProducerOK, EmptyBuf
  <1>4. ConsumerOK(b) /\ Linked(b) /\ StatusOK(b)
    BY <1>1, <1>2 DEF Coherent, ConsumerOK, Linked, StatusOK
  <1> QED BY <1>1, <1>2, <1>3, <1>4 DEF Coherent, a, b

(* player.c, player_seek keeps the player coherent. *)
LEMMA PlayerSeek ==
  ASSUME NEW s \in PState, Coherent(s), NEW e \in Env, NEW to, NEW start_playing \in BOOLEAN
  PROVE  LET r == player_seek(s, e, to, start_playing)
         IN r \in PState /\ Coherent(r) /\ Others(r) = Others(s)
  <1> DEFINE a == SeekStarts(s, e)
             b == reset_buffer(ip_sought(a))
             c == player_pause(b, e)
  <1>1. a \in PState /\ Coherent(a) /\ Others(a) = Others(s)
    BY SeekStartsOK
  <1>2. CASE a.cs \notin Active \/ ip_is_remote(a) \/ to # "seek"
    BY <1>1, <1>2 DEF player_seek
  <1>3. CASE ~(a.cs \notin Active \/ ip_is_remote(a) \/ to # "seek") /\ ~e.seek
    <2>1. player_seek(s, e, to, start_playing) = player_error(a)
      BY <1>3 DEF player_seek
    <2> HIDE DEF a
    <2> QED BY <1>1, <2>1, ErrorPublished DEF Coherent, Others
  <1>4. CASE ~(a.cs \notin Active \/ ip_is_remote(a) \/ to # "seek") /\ e.seek
    <2>1. player_seek(s, e, to, start_playing) =
            IF s.cs = "STOPPED" /\ ~start_playing
            THEN player_status_changed(consumer_pause(producer_pause(b))) ELSE b
      BY <1>4 DEF player_seek
    <2> HIDE DEF a
    <2>2. a.ps \in Active
      BY <1>1, <1>4 DEF Coherent, Linked, Active
    <2>3. b \in PState /\ Coherent(b) /\ Others(b) = Others(a) /\ b.cs = a.cs
      BY <1>1, <2>2, Rewound DEF Others
    <2> HIDE DEF b
    <2>4. b.cs # "STOPPED"
      BY <1>4, <2>3 DEF Active
    <2>5. c = player_status_changed(consumer_pause(producer_pause(b)))
      BY <2>4 DEF player_pause
    <2>6. c \in PState /\ Coherent(c) /\ Others(c) = Others(b)
      BY <2>3, PlayerPause
    <2> HIDE DEF c
    <2> QED BY <1>1, <2>1, <2>3, <2>5, <2>6
  <1> QED BY <1>2, <1>3, <1>4

(* player.c, player_set_op keeps the player coherent. *)
LEMMA PlayerSetOp ==
  ASSUME NEW s \in PState, Coherent(s), NEW e \in Env
  PROVE  /\ player_set_op(s, e) \in PState /\ Coherent(player_set_op(s, e))
         /\ Others(player_set_op(s, e)) = Others(s)
  <1>1. CASE s.cs \notin Active
    BY <1>1 DEF player_set_op
  <1>2. CASE s.cs \in Active
    <2> DEFINE a == op_close(s)
               b == set_buffer_sf(a)
               c == consumer_status_update(b, "STOPPED")
               d == producer_stop(c)
               f == op_opened(b)
               g == op_pause(f)
    <2>0. s.ip.track \in Tracks /\ s.ps = s.cs
      BY <1>2 DEF Coherent, Linked, ProducerOK, Active
    <2>1. player_set_op(s, e) = IF ~e.op THEN player_error(d)
                                ELSE IF s.cs = "PAUSED" THEN g ELSE f
      BY <1>2 DEF player_set_op
    <2>2. /\ a \in PState /\ ~a.op.open
          /\ SameInput(a, s) /\ SameBuffer(a, s) /\ SamePlay(a, s) /\ SameTrack(a, s)
          /\ SameStatus(a, s) /\ SameConsumer(a, s)
      BY OpClose
    <2> HIDE DEF a
    <2>3. /\ b \in PState /\ b.op = a.op /\ b.sf = SfOf[a.ip.track]
          /\ SameInput(b, a) /\ SameBuffer(b, a) /\ SamePlay(b, a) /\ SameTrack(b, a)
          /\ SameStatus(b, a) /\ SameConsumer(b, a)
      BY <2>0, <2>2, SetBufferSf
    <2> HIDE DEF b
    <2>4. CASE ~e.op
      <3>1. /\ c \in PState /\ SameDevice(c, b) /\ c.cs = "STOPPED" /\ c.cwait = FALSE
            /\ SameInput(c, b) /\ SameBuffer(c, b) /\ SamePlay(c, b) /\ SameTrack(c, b)
        BY <2>3, ConsumerStatus
      <3> HIDE DEF c
      <3>2. ProducerOK(c)
        BY <2>2, <2>3, <3>1 DEF Coherent, ProducerOK, NothingToRead
      <3>3. /\ d \in PState /\ ProducerOK(d)
            /\ SameDevice(d, c) /\ SameConsumer(d, c) /\ SameTrack(d, c)
        BY <3>1, <3>2, ProducerStop
      <3> HIDE DEF d
      <3>4. ConsumerOK(d) /\ Linked(d)
        BY <2>2, <2>3, <3>1, <3>3 DEF ConsumerOK, Linked, Active
      <3> QED BY <2>1, <2>2, <2>3, <2>4, <3>1, <3>3, <3>4, ErrorPublished DEF Others
    <2>5. CASE e.op
      <3>1. /\ f \in PState /\ f.op = [open |-> TRUE, paused |-> FALSE, sf |-> b.sf] /\ f.sf = b.sf
            /\ SameInput(f, b) /\ SameBuffer(f, b) /\ SamePlay(f, b) /\ SameTrack(f, b)
            /\ SameStatus(f, b) /\ SameConsumer(f, b)
        BY <2>3, OpOpened
      <3> HIDE DEF f
      <3>2. /\ g \in PState /\ g.op.open = f.op.open /\ g.op.paused = TRUE /\ g.op.sf = f.op.sf
            /\ g.sf = f.sf
            /\ SameInput(g, f) /\ SameBuffer(g, f) /\ SamePlay(g, f) /\ SameTrack(g, f)
            /\ SameStatus(g, f) /\ SameConsumer(g, f)
        BY <3>1, OpPause
      <3> HIDE DEF g
      <3>3. ProducerOK(f) /\ ProducerOK(g)
        BY <2>2, <2>3, <3>1, <3>2 DEF Coherent, ProducerOK, NothingToRead
      <3>4. CASE s.cs = "PAUSED"
        <4>1. ConsumerOK(g)
          BY <2>2, <2>3, <3>1, <3>2, <3>4 DEF ConsumerOK, Active
        <4>2. Linked(g) /\ StatusOK(g)
          BY <2>0, <2>2, <2>3, <3>1, <3>2, <3>4 DEF Coherent, Linked, StatusOK
        <4> QED BY <2>1, <2>2, <2>3, <2>5, <3>1, <3>2, <3>3, <3>4, <4>1, <4>2 DEF Coherent, Others
      <3>5. CASE s.cs = "PLAYING"
        <4>1. ConsumerOK(f)
          BY <2>2, <2>3, <3>1, <3>5 DEF Coherent, ConsumerOK, Active
        <4>2. Linked(f) /\ StatusOK(f)
          BY <2>0, <2>2, <2>3, <3>1, <3>5 DEF Coherent, Linked, StatusOK
        <4> QED BY <2>1, <2>2, <2>3, <2>5, <3>1, <3>3, <3>5, <4>1, <4>2 DEF Coherent, Others
      <3> QED BY <1>2, <3>4, <3>5 DEF Active
    <2> QED BY <2>4, <2>5 DEF Env
  <1> QED BY <1>1, <1>2

(* player.c, player_set_buffer_chunks keeps the player coherent. *)
LEMMA PlayerSetBufferChunks ==
  ASSUME NEW s \in PState, Coherent(s), NEW n \in Sizes
  PROVE  /\ player_set_buffer_chunks(s, n) \in PState
         /\ Coherent(player_set_buffer_chunks(s, n))
         /\ Others(player_set_buffer_chunks(s, n)) = Others(s)
  <1> DEFINE a == consumer_stop(producer_stop(s))
             b == [a EXCEPT !.nr = n, !.buf = EmptyBuf]
  <1>0. n \in Nat
    BY SizesAssumption
  <1>1. /\ a \in PState /\ ProducerOK(a) /\ ConsumerOK(a) /\ Linked(a)
        /\ SameTrack(a, s) /\ a.cs = "STOPPED" /\ a.ps \notin Active
    BY StopBoth DEF Coherent
  <1>2. player_set_buffer_chunks(s, n) = player_status_changed(b)
    BY DEF player_set_buffer_chunks
  <1> HIDE DEF a
  <1>3. /\ b \in PState /\ b.nr = n /\ b.buf = EmptyBuf
        /\ SameInput(b, a) /\ SamePlay(b, a) /\ SameDevice(b, a) /\ SameConsumer(b, a)
        /\ SameTrack(b, a)
    BY <1>1 DEF PState, BufType, EmptyBuf
  <1> HIDE DEF b
  <1>4. ProducerOK(b)
    BY <1>0, <1>1, <1>3 DEF ProducerOK, NothingToRead, EmptyBuf
  <1>5. ConsumerOK(b) /\ Linked(b)
    BY <1>1, <1>3 DEF ConsumerOK, Linked
  <1> QED BY <1>1, <1>2, <1>3, <1>4, <1>5, Published DEF Others

-----------------------------------------------------------------------------
(* Reading, writing and waiting. *)

(* A read into a buffer that is not full adds at most one chunk. *)
LEMMA ReadFill ==
  ASSUME NEW s \in PState, ProducerOK(s), ~Full(s), s.ps = "PLAYING", NEW r \in Reads
  PROVE  LET a == ip_read_fill(s, r)
         IN /\ a \in PState /\ ProducerOK(a) /\ a.ps = s.ps /\ a.nr = s.nr
            /\ SameDevice(a, s) /\ SameConsumer(a, s) /\ SameTrack(a, s)
            /\ a.ip.track = s.ip.track
            /\ a.status \in {s.status, s.cs}
            /\ a.pwait = s.pwait
  <1> DEFINE b == CASE r = "some"  -> [s.buf EXCEPT !.pending = TRUE]
                    [] r = "chunk" -> [committed |-> s.buf.committed + 1, pending |-> FALSE]
                    [] OTHER -> CloseChunk(s.buf)
             a == IF r \in {"error", "select_error"} THEN player_error(s) ELSE s
             c == [a EXCEPT !.buf = b, !.ip.eof = @ \/ r \in {"eof", "error"}]
  <1>0. /\ s.nr \in Nat /\ s.buf \in BufType
    BY SizesAssumption DEF PState
  <1>1. ip_read_fill(s, r) = c
    BY DEF ip_read_fill
  <1>2. b \in BufType /\ b.committed <= s.nr
    <2>1. s.buf.committed < s.nr
      BY <1>0 DEF ProducerOK, Full, BufType
    <2>2. CASE r = "some"
      <3> DEFINE x == [s.buf EXCEPT !.pending = TRUE]
      <3>1. b = x
        BY <2>2
      <3> HIDE DEF b
      <3>2. x \in BufType /\ x.committed = s.buf.committed
        BY <1>0 DEF BufType
      <3>3. s.buf.committed <= s.nr
        BY DEF ProducerOK
      <3> QED BY <3>1, <3>2, <3>3
    <2>3. CASE r = "chunk"
      BY <1>0, <2>1, <2>3 DEF BufType
    <2>4. CASE r \notin {"some", "chunk"}
      BY <1>0, <2>1, <2>4 DEF BufType, CloseChunk
    <2> QED BY <2>2, <2>3, <2>4
  <1>3. /\ a \in PState /\ a.status \in {s.status, s.cs}
        /\ SameInput(a, s) /\ SameBuffer(a, s) /\ SamePlay(a, s) /\ SameDevice(a, s)
        /\ SameConsumer(a, s) /\ SameTrack(a, s)
    BY PlayerError
  <1> HIDE DEF a, b
  <1>4. /\ c \in PState /\ c.buf = b /\ c.nr = a.nr
        /\ c.ip.mem = a.ip.mem /\ c.ip.track = a.ip.track /\ c.ip.open = a.ip.open
        /\ c.ip.eof = (a.ip.eof \/ r \in {"eof", "error"})
        /\ SamePlay(c, a) /\ SameDevice(c, a) /\ SameConsumer(c, a) /\ SameTrack(c, a)
        /\ SameStatus(c, a)
    BY <1>2, <1>3 DEF PState, IpType
  <1> HIDE DEF c
  <1>5. ProducerOK(c)
    <2>1. /\ c.ps = s.ps /\ c.pwait = s.pwait /\ c.nr = s.nr /\ c.buf = b
          /\ c.ip.mem = s.ip.mem /\ c.ip.track = s.ip.track /\ c.ip.open = s.ip.open
          /\ s.ip.eof => c.ip.eof
      BY <1>3, <1>4 DEF SameInput, SameBuffer, SamePlay
    <2>2. s.ps \in Active
      BY DEF ProducerOK, Active
    <2>3. c.pwait => NothingToRead(c)
      BY <2>1 DEF ProducerOK, NothingToRead
    <2> QED BY <1>2, <2>1, <2>2, <2>3 DEF ProducerOK
  <1> QED BY <1>1, <1>3, <1>4, <1>5

(* A thread goes to sleep, or is woken. *)
LEMMA Waits ==
  ASSUME NEW s \in PState, NEW w \in BOOLEAN
  PROVE  /\ LET a == [s EXCEPT !.cwait = w]
            IN /\ a \in PState /\ a.cwait = w /\ a.cs = s.cs
               /\ SameInput(a, s) /\ SameBuffer(a, s) /\ SamePlay(a, s) /\ SameDevice(a, s)
               /\ SameTrack(a, s) /\ SameStatus(a, s)
         /\ LET a == [s EXCEPT !.pwait = w]
            IN /\ a \in PState /\ a.pwait = w /\ a.ps = s.ps
               /\ SameInput(a, s) /\ SameBuffer(a, s) /\ SameConsumer(a, s) /\ SameDevice(a, s)
               /\ SameTrack(a, s) /\ SameStatus(a, s)
         /\ LET a == broadcast_playing(s)
            IN /\ a \in PState /\ ~a.pwait /\ ~a.cwait /\ a.ps = s.ps /\ a.cs = s.cs
               /\ SameInput(a, s) /\ SameBuffer(a, s) /\ SameDevice(a, s)
               /\ SameTrack(a, s) /\ SameStatus(a, s)
  BY DEF PState, broadcast_playing

(* The consumer has written a chunk to the device. *)
LEMMA ChunkWritten ==
  ASSUME NEW s \in PState, s.buf.committed > 0, ProducerOK(s), s.ps \in Active
  PROVE  LET a == [s EXCEPT !.buf.committed = @ - 1]
         IN /\ a \in PState /\ ProducerOK(a) /\ SamePlay(a, s)
            /\ SameInput(a, s) /\ SameConsumer(a, s) /\ SameDevice(a, s)
            /\ SameTrack(a, s) /\ SameStatus(a, s)
  <1> DEFINE a == [s EXCEPT !.buf.committed = @ - 1]
  <1>0. s.buf.committed \in Nat /\ s.nr \in Nat
    BY SizesAssumption DEF PState, BufType
  <1>1. /\ a \in PState /\ a.buf.committed = s.buf.committed - 1 /\ a.nr = s.nr
        /\ SamePlay(a, s) /\ SameInput(a, s) /\ SameConsumer(a, s) /\ SameDevice(a, s)
        /\ SameTrack(a, s) /\ SameStatus(a, s)
    BY <1>0 DEF PState, BufType
  <1> HIDE DEF a
  <1>2. ProducerOK(a)
    BY <1>0, <1>1 DEF ProducerOK, NothingToRead
  <1> QED BY <1>1, <1>2 DEF a

(* One turn of the loop of _prebuffer keeps a playing player playing. *)
LEMMA PrebufferTurn ==
  ASSUME NEW s \in PState, ProducerOK(s), ConsumerOK(s), s.ps = "PLAYING", NEW o \in prebuffer(s)
  PROVE  /\ o.s \in PState /\ ProducerOK(o.s) /\ ConsumerOK(o.s) /\ (Linked(s) => Linked(o.s))
         /\ o.s.ps = "PLAYING" /\ o.s.cs = s.cs /\ o.s.status \in {s.status, s.cs}
         /\ o.s.cwait = s.cwait /\ o.s.pwait = s.pwait
         /\ SameTrack(o.s, s) /\ o.s.nr = s.nr
         /\ o.done \in BOOLEAN /\ o.bug \in BOOLEAN
  <1>1. CASE s.buf.committed >= limit_chunks(s)
    <2>1. o = [s |-> s, done |-> TRUE, bug |-> FALSE]
      BY <1>1 DEF prebuffer
    <2> QED BY <2>1
  <1>2. CASE ~(s.buf.committed >= limit_chunks(s)) /\ Full(s)
    <2>1. o = [s |-> s, done |-> FALSE, bug |-> TRUE]
      BY <1>2 DEF prebuffer
    <2> QED BY <2>1
  <1>3. CASE ~(s.buf.committed >= limit_chunks(s)) /\ ~Full(s)
    <2>1. PICK r \in Reads : o = [s |-> IF r = "again" THEN s ELSE ip_read_fill(s, r),
                                  done |-> EndsRead(r), bug |-> FALSE]
      BY <1>3 DEF prebuffer
    <2>2. EndsRead(r) \in BOOLEAN
      BY DEF EndsRead
    <2>3. CASE r = "again"
      BY <2>1, <2>2, <2>3
    <2>4. CASE r # "again"
      <3> DEFINE a == ip_read_fill(s, r)
      <3>1. /\ a \in PState /\ ProducerOK(a) /\ a.ps = s.ps /\ a.nr = s.nr
            /\ SameDevice(a, s) /\ SameConsumer(a, s) /\ SameTrack(a, s)
            /\ a.ip.track = s.ip.track /\ a.status \in {s.status, s.cs} /\ a.pwait = s.pwait
        BY <1>3, ReadFill
      <3>2. o.s = a /\ o.done \in BOOLEAN /\ o.bug \in BOOLEAN
        BY <2>1, <2>2, <2>4
      <3> HIDE DEF a
      <3>3. ConsumerOK(a) /\ (Linked(s) => Linked(a))
        BY <3>1 DEF ConsumerOK, Linked
      <3> QED BY <3>1, <3>2, <3>3
    <2> QED BY <2>3, <2>4
  <1> QED BY <1>1, <1>2, <1>3

(* _prebuffer asks for more than the buffer holds only for a local track   *)
(* whose limit is larger than the buffer; then nothing was read, and it is *)
(* not done.                                                               *)
LEMMA PrebufferRoom ==
  ASSUME NEW s \in PState, ProducerOK(s), s.ps = "PLAYING", NEW o \in prebuffer(s), o.bug
  PROVE  /\ o.s = s /\ ~o.done
         /\ s.ip.track \notin Remote /\ LimitOf[s.ip.track] > s.nr
  <1>1. /\ s.buf.committed \in Nat /\ s.nr \in Nat /\ s.ip.track \in Tracks
        /\ LimitOf[s.ip.track] \in Nat
    BY SizesAssumption, TracksAssumption DEF PState, BufType, ProducerOK
  <1>2. CASE s.buf.committed >= limit_chunks(s)
    <2>1. o = [s |-> s, done |-> TRUE, bug |-> FALSE]
      BY <1>2 DEF prebuffer
    <2> QED BY <2>1
  <1>3. CASE ~(s.buf.committed >= limit_chunks(s)) /\ Full(s)
    <2>1. o = [s |-> s, done |-> FALSE, bug |-> TRUE]
      BY <1>3 DEF prebuffer
    <2>2. s.ip.track \notin Remote /\ LimitOf[s.ip.track] > s.nr
      BY <1>1, <1>3 DEF Full, limit_chunks, ip_is_remote
    <2> QED BY <2>1, <2>2
  <1>4. CASE ~(s.buf.committed >= limit_chunks(s)) /\ ~Full(s)
    <2>1. PICK r \in Reads : o = [s |-> IF r = "again" THEN s ELSE ip_read_fill(s, r),
                                  done |-> EndsRead(r), bug |-> FALSE]
      BY <1>4 DEF prebuffer
    <2> QED BY <2>1
  <1> QED BY <1>2, <1>3, <1>4

(* At the end of the track: the next one is loaded, but not yet opened. *)
LEMMA NextLoaded ==
  ASSUME NEW s \in PState, ProducerOK(s), ConsumerOK(s), s.ps = "UNLOADED", NEW t \in Tracks
  PROVE  LET a == producer_status_update(ip_new(s, t), "STOPPED")
         IN /\ a \in PState /\ ProducerOK(a) /\ ConsumerOK(a) /\ a.ps = "STOPPED"
            /\ SameDevice(a, s) /\ SameConsumer(a, s) /\ SameTrack(a, s) /\ SameStatus(a, s)
  <1> DEFINE n == ip_new(s, t)
             a == producer_status_update(n, "STOPPED")
  <1>1. /\ n \in PState /\ SameBuffer(n, s)
        /\ n.ip = [mem |-> "live", track |-> t, open |-> FALSE, eof |-> FALSE]
        /\ SameDevice(n, s) /\ SameConsumer(n, s) /\ SameTrack(n, s) /\ SameStatus(n, s)
    BY IpNew
  <1> HIDE DEF n
  <1>2. /\ a \in PState /\ SameInput(a, n) /\ SameBuffer(a, n)
        /\ a.ps = "STOPPED" /\ a.pwait = FALSE
        /\ SameDevice(a, n) /\ SameConsumer(a, n) /\ SameTrack(a, n) /\ SameStatus(a, n)
    BY <1>1, ProducerStatus
  <1> HIDE DEF a
  <1>3. ProducerOK(a)
    BY <1>1, <1>2 DEF ProducerOK, Active
  <1>4. ConsumerOK(a)
    BY <1>1, <1>2 DEF ConsumerOK
  <1> QED BY <1>1, <1>2, <1>3, <1>4 DEF a, n

(* file_changed changes nothing but player_info_priv.ti. *)
LEMMA FileChangedKeeps ==
  ASSUME NEW s \in PState, ProducerOK(s), ConsumerOK(s), NEW t \in MaybeTrack
  PROVE  LET r == file_changed(s, t)
         IN /\ r \in PState /\ ProducerOK(r) /\ ConsumerOK(r) /\ (Linked(s) => Linked(r))
            /\ r.ps = s.ps /\ r.cs = s.cs /\ r.status = s.status
            /\ r.cwait = s.cwait /\ r.pwait = s.pwait
            /\ Others(r) = Others(s) - (IF t = NoTrack THEN 0 ELSE 1)
  <1> DEFINE r == file_changed(s, t)
  <1>1. /\ r \in PState /\ SameInput(r, s) /\ SameBuffer(r, s) /\ SamePlay(r, s)
        /\ SameDevice(r, s) /\ SameConsumer(r, s) /\ SameStatus(r, s)
        /\ r.ti = t /\ r.refs = s.refs - (IF s.ti = NoTrack THEN 0 ELSE 1)
    BY FileChanged
  <1>2. s.refs \in Int
    BY DEF PState
  <1> HIDE DEF r
  <1>3. ProducerOK(r)
    BY <1>1 DEF ProducerOK, NothingToRead
  <1>4. ConsumerOK(r) /\ (Linked(s) => Linked(r))
    BY <1>1 DEF ConsumerOK, Linked
  <1>5. Others(r) = Others(s) - (IF t = NoTrack THEN 0 ELSE 1)
    BY <1>1, <1>2 DEF Others
  <1> QED BY <1>1, <1>3, <1>4, <1>5 DEF r

(* The input could not be sought: the buffer alone is dropped. *)
LEMMA Dropped ==
  ASSUME NEW s \in PState, Coherent(s)
  PROVE  reset_buffer(s) \in PState /\ Coherent(reset_buffer(s)) /\ SameTrack(reset_buffer(s), s)
  <1> DEFINE b == reset_buffer(s)
  <1>0. s.nr \in Nat
    BY SizesAssumption DEF PState
  <1>1. /\ b \in PState /\ SameInput(b, s) /\ b.buf = EmptyBuf /\ b.nr = s.nr
        /\ b.ps = s.ps /\ b.pwait = FALSE
        /\ SameDevice(b, s) /\ SameConsumer(b, s) /\ SameTrack(b, s) /\ SameStatus(b, s)
    BY ResetBuffer
  <1> HIDE DEF b
  <1>2. ProducerOK(b)
    BY <1>0, <1>1 DEF Coherent, ProducerOK, EmptyBuf
  <1>3. ConsumerOK(b) /\ Linked(b) /\ StatusOK(b)
    BY <1>1 DEF Coherent, ConsumerOK, Linked, StatusOK
  <1> QED BY <1>1, <1>2, <1>3 DEF Coherent, b

-----------------------------------------------------------------------------
(* The inductive invariant. *)

(* Where the consumer thread is inside consumer_mutex, and inside both. *)
Writing == {"inner", "write", "reopen", "lockP", "next", "load", "prebuffer"}
AtEnd == {"next", "load", "prebuffer"}

(* The references that a pending call, the handshake and the consumer hold. *)
CallRef == IF pcM \in {"lockC", "lockP"} /\ call.ti # NoTrack THEN 1 ELSE 0
NextRef == IF next.provided /\ next.ti # NoTrack THEN 1 ELSE 0
CtiRef  == IF cti # NoTrack THEN 1 ELSE 0

(* The functions of the player that the main thread calls. *)
Calls == {"none", "player_play", "player_pause", "player_stop", "player_seek", "player_set_op",
          "player_set_buffer_chunks", "player_set_file", "player_play_file", "player_exit"}

(* The types of all but p. *)
TypeInv ==
  /\ lockC \in {"free", "main", "consumer"} /\ lockP \in Threads
  /\ running \in BOOLEAN
  /\ pcM \in {"select", "serve", "tail", "lockC", "lockP", "prebuffer", "join", "done"}
  /\ call \in [fn : Calls, ti : MaybeTrack]
  /\ ready \in BOOLEAN /\ req \in BOOLEAN /\ snap \in MaybeTrack
  /\ next \in [provided : BOOLEAN, ti : MaybeTrack]
  /\ pcC \in {"idle", "wait", "done"} \cup Writing
  /\ cti \in MaybeTrack
  /\ pcP \in {"idle", "wait", "read", "done"} /\ pi \in 0 .. 1
  /\ bug \in BOOLEAN /\ overtaken \in BOOLEAN

(* Who holds which mutex. *)
LockInv ==
  /\ lockC = "main" <=> pcM \in {"lockP", "prebuffer"}
  /\ lockP = "main" <=> pcM = "prebuffer"
  /\ lockC = "consumer" <=> pcC \in Writing
  /\ lockP = "consumer" <=> pcC \in AtEnd
  /\ lockP = "producer" <=> pcP = "read"

(* The state of the player, and what each thread relies on where it is.    *)
(* Only between the end of a track and the start of the next does a        *)
(* playing consumer have no track.                                         *)
StateInv ==
  /\ p \in PState /\ ProducerOK(p) /\ ConsumerOK(p)
  /\ p.cwait \/ p.pwait => running
  /\ running /\ pcC # "load" => Linked(p)
  /\ pcC \in Writing => running /\ p.cs = IF pcC = "reopen" THEN "STOPPED" ELSE "PLAYING"
  /\ pcC = "reopen" => p.ps = "PLAYING"
  /\ pcC = "load" => p.ps = "UNLOADED"
  /\ pcM = "prebuffer" \/ pcC = "prebuffer" => p.ps = "PLAYING"
  /\ pcP = "read" => running /\ p.ps = "PLAYING"
  /\ ~running => pcM \in {"join", "done"}

(* What the user interface has been told. *)
ToldInv ==
  running => IF pcC = "reopen"
             THEN p.status = "PLAYING" \/ (overtaken /\ p.status = "STOPPED")
             ELSE StatusOK(p)

(* Once ip_read has been called without room, whoever called it keeps both *)
(* mutexes, and the track and the buffer stay as they are.                 *)
BugInv ==
  bug => /\ pcM = "prebuffer" \/ pcC = "prebuffer"
         /\ p.ip.track \notin Remote /\ LimitOf[p.ip.track] > p.nr

(* One request at a time is under way, and its answer is awaited. *)
HandshakeInv ==
  /\ ready => req
  /\ req => pcC = "next" /\ ~next.provided
  /\ next.provided => pcC = "next"
  /\ cti # NoTrack <=> pcC = "load"

(* The references add up; only a call that loads a track brings one. *)
RefInv ==
  /\ Others(p) = CallRef + NextRef + CtiRef
  /\ call.ti # NoTrack <=> call.fn \in {"player_set_file", "player_play_file"}

PlayerInv == TypeInv /\ LockInv /\ StateInv /\ ToldInv /\ HandshakeInv /\ RefInv

(* player_init establishes the invariant. *)
LEMMA InitInv == Init => PlayerInv
  <1> SUFFICES ASSUME Init PROVE PlayerInv
    OBVIOUS
  <1>0. PICK n \in Sizes :
          p = [ps |-> "UNLOADED", cs |-> "STOPPED",
               ip |-> [mem |-> "null", track |-> NoTrack, open |-> FALSE, eof |-> FALSE],
               buf |-> EmptyBuf, nr |-> n, sf |-> "none",
               op |-> [open |-> FALSE, paused |-> FALSE, sf |-> "none"],
               ti |-> NoTrack, status |-> "STOPPED", refs |-> 0,
               cwait |-> FALSE, pwait |-> FALSE]
    BY DEF Init
  <1>1. n \in Nat
    BY SizesAssumption
  <1>2. p \in PState
    BY <1>0 DEF PState, IpType, BufType, OpType, Formats, MaybeTrack, EmptyBuf
  <1>3. ProducerOK(p) /\ ConsumerOK(p) /\ Linked(p)
    BY <1>0, <1>1 DEF ProducerOK, ConsumerOK, Linked, Active, EmptyBuf, NothingToRead
  <1>4. Others(p) = 0
    BY <1>0 DEF Others
  <1>5. StateInv /\ ToldInv
    BY <1>0, <1>2, <1>3 DEF StateInv, ToldInv, StatusOK, Init, Writing
  <1>6. LockInv /\ HandshakeInv
    BY DEF Init, LockInv, HandshakeInv, Writing, AtEnd
  <1>7. RefInv
    BY <1>4 DEF Init, RefInv, CallRef, NextRef, CtiRef, NoCall
  <1>8. TypeInv
    <2>0. NoTrack \in MaybeTrack
      BY DEF MaybeTrack
    <2>1. call \in [fn : Calls, ti : MaybeTrack]
      BY <2>0 DEF Init, NoCall, Calls
    <2>2. next \in [provided : BOOLEAN, ti : MaybeTrack]
      BY <2>0 DEF Init
    <2>3. pi \in 0 .. 1
      BY DEF Init
    <2>4. cti \in MaybeTrack /\ snap \in MaybeTrack
      BY <2>0 DEF Init
    <2>5. running \in BOOLEAN /\ bug \in BOOLEAN /\ overtaken \in BOOLEAN /\ ready \in BOOLEAN /\ req \in BOOLEAN
      BY DEF Init
    <2>6. pcC \in {"idle", "wait", "done"} \cup Writing
      BY DEF Init
    <2> QED BY <2>1, <2>2, <2>3, <2>4, <2>5, <2>6 DEF Init, TypeInv, Threads
  <1> QED BY <1>5, <1>6, <1>7, <1>8 DEF PlayerInv


(* A step that leaves the device open or closed as it was, and publishes   *)
(* nothing.                                                                *)
LEMMA ToldSame ==
  ASSUME PlayerInv, Overtakes, running' = running, pcC = "reopen" <=> pcC' = "reopen",
         p'.status = p.status, p'.cs = p.cs
  PROVE  ToldInv' /\ overtaken' \in BOOLEAN
  BY DEF PlayerInv, TypeInv, ToldInv, StatusOK, Overtakes

(* A step that leaves the player in agreement with what was published. *)
LEMMA ToldKept ==
  ASSUME PlayerInv, Overtakes, pcC' # "reopen", running' => StatusOK(p')
  PROVE  ToldInv' /\ overtaken' \in BOOLEAN
  BY DEF PlayerInv, TypeInv, ToldInv, StatusOK, Overtakes

(* The top of the event loop. *)
LEMMA SelectInv ==
  ASSUME PlayerInv, M_select, Overtakes PROVE PlayerInv'
  <1> USE DEF M_select, player_info_snapshot, cvars, pvars
  <1>0. ToldInv' /\ overtaken' \in BOOLEAN
    BY ToldSame
  <1>1. TypeInv'
    BY <1>0 DEF PlayerInv, TypeInv, StateInv, PState
  <1>2. LockInv'
    BY DEF PlayerInv, LockInv
  <1>3. StateInv'
    BY DEF PlayerInv, StateInv
  <1>4. HandshakeInv'
    BY DEF PlayerInv, HandshakeInv
  <1>5. RefInv'
    BY DEF PlayerInv, RefInv, CallRef, NextRef, CtiRef
  <1> QED BY <1>0, <1>1, <1>2, <1>3, <1>4, <1>5 DEF PlayerInv

(* A pause, looked at before the mutexes are taken. *)
LEMMA PauseInv ==
  ASSUME PlayerInv, M_pause, Overtakes PROVE PlayerInv'
  <1> USE DEF M_pause, cvars, pvars
  <1>0. ToldInv' /\ overtaken' \in BOOLEAN
    BY ToldSame
  <1>1. TypeInv'
    BY <1>0 DEF PlayerInv, TypeInv, Calls, MaybeTrack
  <1>2. LockInv'
    BY DEF PlayerInv, LockInv
  <1>3. StateInv'
    BY DEF PlayerInv, StateInv
  <1>4. HandshakeInv'
    BY DEF PlayerInv, HandshakeInv
  <1>5. RefInv'
    BY DEF PlayerInv, RefInv, CallRef, NextRef, CtiRef, HandshakeInv
  <1> QED BY <1>0, <1>1, <1>2, <1>3, <1>4, <1>5 DEF PlayerInv

(* The quit command. *)
LEMMA QuitInv ==
  ASSUME PlayerInv, M_quit, Overtakes PROVE PlayerInv'
  <1> USE DEF M_quit, cvars, pvars
  <1>0. ToldInv' /\ overtaken' \in BOOLEAN
    BY ToldSame
  <1>1. TypeInv'
    BY <1>0 DEF PlayerInv, TypeInv, Calls, MaybeTrack
  <1>2. LockInv'
    BY DEF PlayerInv, LockInv
  <1>3. StateInv'
    BY DEF PlayerInv, StateInv
  <1>4. HandshakeInv'
    BY DEF PlayerInv, HandshakeInv
  <1>5. RefInv'
    BY DEF PlayerInv, RefInv, CallRef, NextRef, CtiRef
  <1> QED BY <1>0, <1>1, <1>2, <1>3, <1>4, <1>5 DEF PlayerInv

(* No more descriptors to serve. *)
LEMMA IdleInv ==
  ASSUME PlayerInv, M_idle, Overtakes PROVE PlayerInv'
  <1> USE DEF M_idle, cvars, pvars
  <1>0. ToldInv' /\ overtaken' \in BOOLEAN
    BY ToldSame
  <1>1. TypeInv'
    BY <1>0 DEF PlayerInv, TypeInv
  <1>2. LockInv'
    BY DEF PlayerInv, LockInv
  <1>3. StateInv'
    BY DEF PlayerInv, StateInv
  <1>4. HandshakeInv'
    BY DEF PlayerInv, HandshakeInv
  <1>5. RefInv'
    BY DEF PlayerInv, RefInv, CallRef, NextRef, CtiRef
  <1> QED BY <1>0, <1>1, <1>2, <1>3, <1>4, <1>5 DEF PlayerInv

(* The end of a turn of the event loop. *)
LEMMA LoopInv ==
  ASSUME PlayerInv, M_loop, Overtakes PROVE PlayerInv'
  <1> USE DEF M_loop, AfterLoop, cvars, pvars
  <1>0. ToldInv' /\ overtaken' \in BOOLEAN
    BY ToldSame
  <1>1. TypeInv'
    BY <1>0 DEF PlayerInv, TypeInv
  <1>2. LockInv'
    BY DEF PlayerInv, LockInv
  <1>3. StateInv'
    BY DEF PlayerInv, StateInv
  <1>4. HandshakeInv'
    BY DEF PlayerInv, HandshakeInv
  <1>5. RefInv'
    BY DEF PlayerInv, RefInv, CallRef, NextRef, CtiRef
  <1> QED BY <1>0, <1>1, <1>2, <1>3, <1>4, <1>5 DEF PlayerInv

(* The main thread takes consumer_mutex. *)
LEMMA LockCInv ==
  ASSUME PlayerInv, M_lockC, Overtakes PROVE PlayerInv'
  <1> USE DEF M_lockC, Free, cvars, pvars
  <1>0. ToldInv' /\ overtaken' \in BOOLEAN
    BY ToldSame
  <1>1. TypeInv'
    BY <1>0 DEF PlayerInv, TypeInv
  <1>2. LockInv'
    BY DEF PlayerInv, LockInv
  <1>3. StateInv'
    BY DEF PlayerInv, StateInv
  <1>4. HandshakeInv'
    BY DEF PlayerInv, HandshakeInv
  <1>5. RefInv'
    BY DEF PlayerInv, RefInv, CallRef, NextRef, CtiRef
  <1> QED BY <1>0, <1>1, <1>2, <1>3, <1>4, <1>5 DEF PlayerInv

(* Both threads have ended. *)
LEMMA JoinInv ==
  ASSUME PlayerInv, M_join, Overtakes PROVE PlayerInv'
  <1> USE DEF M_join, cvars, pvars
  <1>0. ToldInv' /\ overtaken' \in BOOLEAN
    BY ToldSame
  <1>1. TypeInv'
    BY <1>0 DEF PlayerInv, TypeInv
  <1>2. LockInv'
    BY DEF PlayerInv, LockInv
  <1>3. StateInv'
    BY DEF PlayerInv, StateInv
  <1>4. HandshakeInv'
    BY DEF PlayerInv, HandshakeInv
  <1>5. RefInv'
    BY DEF PlayerInv, RefInv, CallRef, NextRef, CtiRef
  <1> QED BY <1>0, <1>1, <1>2, <1>3, <1>4, <1>5 DEF PlayerInv

(* The consumer is woken. *)
LEMMA WakeInv ==
  ASSUME PlayerInv, C_wake, Overtakes PROVE PlayerInv'
  <1> USE DEF C_wake, CUnchanged, mvars, pvars
  <1>0. ToldInv' /\ overtaken' \in BOOLEAN
    BY ToldSame
  <1>1. TypeInv'
    BY <1>0 DEF PlayerInv, TypeInv, Writing
  <1>2. LockInv'
    BY DEF PlayerInv, LockInv, Writing, AtEnd
  <1>3. StateInv'
    BY DEF PlayerInv, StateInv, Writing
  <1>4. HandshakeInv'
    BY DEF PlayerInv, HandshakeInv
  <1>5. RefInv'
    BY DEF PlayerInv, RefInv, CallRef, NextRef, CtiRef
  <1> QED BY <1>0, <1>1, <1>2, <1>3, <1>4, <1>5 DEF PlayerInv

(* The device is full. *)
LEMMA FullInv ==
  ASSUME PlayerInv, C_full, Overtakes PROVE PlayerInv'
  <1> USE DEF C_full, CUnchanged, mvars, pvars
  <1>0. ToldInv' /\ overtaken' \in BOOLEAN
    BY ToldSame
  <1>1. TypeInv'
    BY <1>0 DEF PlayerInv, TypeInv, Writing
  <1>2. LockInv'
    BY DEF PlayerInv, LockInv, Writing, AtEnd
  <1>3. StateInv'
    BY DEF PlayerInv, StateInv, Writing
  <1>4. HandshakeInv'
    BY DEF PlayerInv, HandshakeInv
  <1>5. RefInv'
    BY DEF PlayerInv, RefInv, CallRef, NextRef, CtiRef
  <1> QED BY <1>0, <1>1, <1>2, <1>3, <1>4, <1>5 DEF PlayerInv

(* The buffer is empty. *)
LEMMA UnderrunInv ==
  ASSUME PlayerInv, C_underrun, Overtakes PROVE PlayerInv'
  <1> USE DEF C_underrun, CUnchanged, mvars, pvars
  <1>0. ToldInv' /\ overtaken' \in BOOLEAN
    BY ToldSame
  <1>1. TypeInv'
    BY <1>0 DEF PlayerInv, TypeInv, Writing
  <1>2. LockInv'
    BY DEF PlayerInv, LockInv, Writing, AtEnd
  <1>3. StateInv'
    BY DEF PlayerInv, StateInv, Writing
  <1>4. HandshakeInv'
    BY DEF PlayerInv, HandshakeInv
  <1>5. RefInv'
    BY DEF PlayerInv, RefInv, CallRef, NextRef, CtiRef
  <1> QED BY <1>0, <1>1, <1>2, <1>3, <1>4, <1>5 DEF PlayerInv

(* The buffer is looked at again with both mutexes. *)
LEMMA RecheckInv ==
  ASSUME PlayerInv, C_recheck, Overtakes PROVE PlayerInv'
  <1> USE DEF C_recheck, Free, CUnchanged, mvars, pvars
  <1>0. ToldInv' /\ overtaken' \in BOOLEAN
    BY ToldSame
  <1>1. TypeInv'
    BY <1>0 DEF PlayerInv, TypeInv, Writing
  <1>2. LockInv'
    BY DEF PlayerInv, LockInv, Writing, AtEnd
  <1>3. StateInv'
    BY DEF PlayerInv, StateInv, Writing
  <1>4. HandshakeInv'
    BY DEF PlayerInv, HandshakeInv
  <1>5. RefInv'
    BY DEF PlayerInv, RefInv, CallRef, NextRef, CtiRef
  <1> QED BY <1>0, <1>1, <1>2, <1>3, <1>4, <1>5 DEF PlayerInv

(* The producer is woken. *)
LEMMA ProducerWakeInv ==
  ASSUME PlayerInv, P_wake, Overtakes PROVE PlayerInv'
  <1> USE DEF P_wake, PUnchanged, mvars, cvars
  <1>0. ToldInv' /\ overtaken' \in BOOLEAN
    BY ToldSame
  <1>1. TypeInv'
    BY <1>0 DEF PlayerInv, TypeInv
  <1>2. LockInv'
    BY DEF PlayerInv, LockInv
  <1>3. StateInv'
    BY DEF PlayerInv, StateInv
  <1>4. HandshakeInv'
    BY DEF PlayerInv, HandshakeInv
  <1>5. RefInv'
    BY DEF PlayerInv, RefInv, CallRef, NextRef, CtiRef
  <1> QED BY <1>0, <1>1, <1>2, <1>3, <1>4, <1>5 DEF PlayerInv

(* A reference is taken, and nothing else happens. *)
LEMMA RefTaken ==
  ASSUME NEW s \in PState, NEW t \in MaybeTrack, ProducerOK(s), ConsumerOK(s)
  PROVE  LET r == track_info_ref(s, t)
         IN /\ r \in PState /\ ProducerOK(r) /\ ConsumerOK(r) /\ (Linked(s) => Linked(r))
            /\ r.ps = s.ps /\ r.cs = s.cs /\ r.status = s.status
            /\ r.cwait = s.cwait /\ r.pwait = s.pwait
            /\ Others(r) = Others(s) + (IF t = NoTrack THEN 0 ELSE 1)
            /\ r.ti = s.ti /\ r.refs = s.refs + (IF t = NoTrack THEN 0 ELSE 1)
  <1> DEFINE r == track_info_ref(s, t)
  <1>1. /\ r \in PState /\ SameInput(r, s) /\ SameBuffer(r, s) /\ SamePlay(r, s)
        /\ SameDevice(r, s) /\ SameConsumer(r, s) /\ SameStatus(r, s)
        /\ r.ti = s.ti /\ r.refs = s.refs + (IF t = NoTrack THEN 0 ELSE 1)
    BY TrackInfoRef
  <1>2. s.refs \in Int
    BY DEF PState
  <1> HIDE DEF r
  <1>3. ProducerOK(r)
    BY <1>1 DEF ProducerOK, NothingToRead
  <1>4. ConsumerOK(r) /\ (Linked(s) => Linked(r))
    BY <1>1 DEF ConsumerOK, Linked
  <1>5. Others(r) = Others(s) + (IF t = NoTrack THEN 0 ELSE 1)
    BY <1>1, <1>2 DEF Others
  <1> QED BY <1>1, <1>3, <1>4, <1>5 DEF r

(* The main thread enters a function of the player, maybe with a track. *)
LEMMA EnterInv ==
  ASSUME PlayerInv, NEW fn \in Calls, NEW t \in MaybeTrack,
         t # NoTrack <=> fn \in {"player_set_file", "player_play_file"},
         Enter(fn, t), Overtakes
  PROVE  PlayerInv'
  <1> USE DEF Enter, cvars, pvars
  <1>1. p \in PState /\ ProducerOK(p) /\ ConsumerOK(p)
    BY DEF PlayerInv, StateInv
  <1>2. /\ p' \in PState /\ ProducerOK(p') /\ ConsumerOK(p') /\ (Linked(p) => Linked(p'))
        /\ p'.ps = p.ps /\ p'.cs = p.cs /\ p'.status = p.status
        /\ p'.cwait = p.cwait /\ p'.pwait = p.pwait
        /\ Others(p') = Others(p) + (IF t = NoTrack THEN 0 ELSE 1)
    BY <1>1, RefTaken
  <1>20. ToldInv' /\ overtaken' \in BOOLEAN
    BY <1>2, ToldSame
  <1>3. TypeInv'
    BY <1>20 DEF PlayerInv, TypeInv
  <1>4. LockInv'
    BY DEF PlayerInv, LockInv
  <1>5. StateInv'
    BY <1>1, <1>2 DEF PlayerInv, StateInv
  <1>6. HandshakeInv'
    BY DEF PlayerInv, HandshakeInv
  <1>7. RefInv'
    BY <1>2 DEF PlayerInv, RefInv, CallRef, NextRef, CtiRef, StateInv, PState
  <1> QED BY <1>20, <1>3, <1>4, <1>5, <1>6, <1>7 DEF PlayerInv

(* The commands of the main loop. *)
LEMMA CommandInv ==
  ASSUME PlayerInv, M_command, Overtakes PROVE PlayerInv'
  <1>1. NoTrack \in MaybeTrack /\ (\A t \in Tracks : t \in MaybeTrack /\ t # NoTrack)
    BY TracksAssumption DEF MaybeTrack
  <1>2. CASE Enter("player_play", NoTrack)
    BY <1>1, <1>2, EnterInv DEF Calls
  <1>3. CASE Enter("player_stop", NoTrack)
    BY <1>1, <1>3, EnterInv DEF Calls
  <1>4. CASE Enter("player_seek", NoTrack)
    BY <1>1, <1>4, EnterInv DEF Calls
  <1>5. CASE Enter("player_set_op", NoTrack)
    BY <1>1, <1>5, EnterInv DEF Calls
  <1>6. CASE Enter("player_set_buffer_chunks", NoTrack)
    BY <1>1, <1>6, EnterInv DEF Calls
  <1>7. CASE \E t \in Tracks : Enter("player_set_file", t)
    BY <1>1, <1>7, EnterInv DEF Calls
  <1>8. CASE \E t \in Tracks : Enter("player_play_file", t)
    BY <1>1, <1>8, EnterInv DEF Calls
  <1> QED BY <1>2, <1>3, <1>4, <1>5, <1>6, <1>7, <1>8 DEF M_command

(* The track shown was read again from its file. *)
LEMMA UpdateCacheInv ==
  ASSUME PlayerInv, M_update_cache, Overtakes PROVE PlayerInv'
  <1> USE DEF M_update_cache, mvars, cvars, pvars
  <1> DEFINE r == track_info_ref(p, snap)
  <1>1. p \in PState /\ ProducerOK(p) /\ ConsumerOK(p) /\ snap \in MaybeTrack /\ snap # NoTrack
    BY DEF PlayerInv, StateInv, TypeInv
  <1>2. /\ r \in PState /\ ProducerOK(r) /\ ConsumerOK(r) /\ (Linked(p) => Linked(r))
        /\ r.ps = p.ps /\ r.cs = p.cs /\ r.status = p.status
        /\ r.cwait = p.cwait /\ r.pwait = p.pwait
        /\ r.ti = p.ti /\ r.refs = p.refs + 1
    BY <1>1, RefTaken
  <1>3. p' = file_changed(r, snap)
    OBVIOUS
  <1> HIDE DEF r
  <1>4. /\ p' \in PState /\ SameInput(p', r) /\ SameBuffer(p', r) /\ SamePlay(p', r)
        /\ SameDevice(p', r) /\ SameConsumer(p', r) /\ SameStatus(p', r)
        /\ p'.ti = snap /\ p'.refs = r.refs - (IF r.ti = NoTrack THEN 0 ELSE 1)
    BY <1>1, <1>2, <1>3, FileChanged
  <1>5. ProducerOK(p')
    BY <1>2, <1>4 DEF ProducerOK, NothingToRead
  <1>6. ConsumerOK(p') /\ (Linked(p) => Linked(p'))
    BY <1>2, <1>4 DEF ConsumerOK, Linked
  <1>7. Others(p') = Others(p)
    <2>1. p.refs \in Int
      BY <1>1 DEF PState
    <2> QED BY <1>1, <1>2, <1>4, <2>1 DEF Others
  <1>20. ToldInv' /\ overtaken' \in BOOLEAN
    BY <1>2, <1>4, ToldSame
  <1>8. TypeInv'
    BY <1>20 DEF PlayerInv, TypeInv
  <1>9. LockInv'
    BY DEF PlayerInv, LockInv
  <1>10. StateInv'
    BY <1>2, <1>4, <1>5, <1>6 DEF PlayerInv, StateInv
  <1>11. HandshakeInv'
    BY DEF PlayerInv, HandshakeInv
  <1>12. RefInv'
    BY <1>7 DEF PlayerInv, RefInv, CallRef, NextRef, CtiRef
  <1> QED BY <1>20, <1>8, <1>9, <1>10, <1>11, <1>12 DEF PlayerInv

(* The main thread answers the consumer. *)
LEMMA ProvideInv ==
  ASSUME PlayerInv, cmus_provide_next_track, Overtakes PROVE PlayerInv'
  <1> USE DEF cmus_provide_next_track, cmus_get_next_from_main_thread, AfterLoop, cvars, pvars
  <1>1. PICK t \in MaybeTrack : /\ next' = [provided |-> TRUE, ti |-> t]
                               /\ p' = track_info_ref(p, t)
    OBVIOUS
  <1>2. p \in PState /\ ProducerOK(p) /\ ConsumerOK(p)
    BY DEF PlayerInv, StateInv
  <1>3. /\ p' \in PState /\ ProducerOK(p') /\ ConsumerOK(p') /\ (Linked(p) => Linked(p'))
        /\ p'.ps = p.ps /\ p'.cs = p.cs /\ p'.status = p.status
        /\ p'.cwait = p.cwait /\ p'.pwait = p.pwait
        /\ Others(p') = Others(p) + (IF t = NoTrack THEN 0 ELSE 1)
    BY <1>1, <1>2, RefTaken
  <1>20. ToldInv' /\ overtaken' \in BOOLEAN
    BY <1>3, ToldSame
  <1>4. TypeInv'
    BY <1>1, <1>20 DEF PlayerInv, TypeInv
  <1>5. LockInv'
    BY DEF PlayerInv, LockInv
  <1>6. StateInv'
    BY <1>2, <1>3 DEF PlayerInv, StateInv
  <1>7. HandshakeInv'
    BY <1>1 DEF PlayerInv, HandshakeInv
  <1>8. RefInv'
    BY <1>1, <1>3 DEF PlayerInv, RefInv, CallRef, NextRef, CtiRef, HandshakeInv, StateInv, PState
  <1> QED BY <1>20, <1>4, <1>5, <1>6, <1>7, <1>8 DEF PlayerInv

(* The body of a function of the player: it finds the player coherent and  *)
(* leaves it so, having taken over the reference that came with the call.  *)
LEMMA BodyInv ==
  ASSUME PlayerInv, NEW fn \in Calls, NEW s \in PState, Body(fn, s), Coherent(s),
         Others(s) = Others(p) - CallRef, fn # "player_exit", Overtakes
  PROVE  PlayerInv'
  <1> USE DEF Body, Leave, Free, cvars, pvars
  <1>1. p' = s /\ running /\ pcC \notin Writing /\ pcP # "read"
    BY DEF PlayerInv, LockInv, StateInv
  <1>20. ToldInv' /\ overtaken' \in BOOLEAN
    BY <1>1, ToldKept DEF Coherent, Writing
  <1>2. Prebuffers(fn, p, s) => s.ps = "PLAYING"
    BY DEF Prebuffers, Coherent, Linked
  <1>3. CASE Prebuffers(fn, p, s)
    <2>1. TypeInv'
      BY <1>3, <1>20 DEF PlayerInv, TypeInv, Threads
    <2>2. LockInv'
      BY <1>1, <1>3 DEF PlayerInv, LockInv, AtEnd, Writing
    <2>3. StateInv'
      BY <1>1, <1>2, <1>3 DEF PlayerInv, StateInv, Coherent, Writing
    <2>4. HandshakeInv'
      BY <1>3 DEF PlayerInv, HandshakeInv
    <2>5. RefInv'
      BY <1>1, <1>3 DEF PlayerInv, RefInv, CallRef, NextRef, CtiRef, StateInv, PState, Others
    <2> QED BY <1>20, <2>1, <2>2, <2>3, <2>4, <2>5 DEF PlayerInv
  <1>4. CASE ~Prebuffers(fn, p, s)
    <2>1. TypeInv'
      BY <1>4, <1>20 DEF PlayerInv, TypeInv, Threads, NoCall, Calls, MaybeTrack
    <2>2. LockInv'
      BY <1>1, <1>4 DEF PlayerInv, LockInv, AtEnd, Writing
    <2>3. StateInv'
      BY <1>1, <1>4 DEF PlayerInv, StateInv, Coherent, Writing
    <2>4. HandshakeInv'
      BY <1>4 DEF PlayerInv, HandshakeInv
    <2>5. RefInv'
      BY <1>1, <1>4 DEF PlayerInv, RefInv, CallRef, NextRef, CtiRef, StateInv, PState, Others, NoCall
    <2> QED BY <1>20, <2>1, <2>2, <2>3, <2>4, <2>5 DEF PlayerInv
  <1> QED BY <1>3, <1>4

(* A function that brings no track finds a coherent player and has no      *)
(* reference to take over; one that does has the one of its track.         *)
LEMMA BodyStart ==
  ASSUME PlayerInv, NEW fn \in Calls, NEW s, Body(fn, s)
  PROVE  /\ p \in PState /\ Coherent(p) /\ Others(p) \in Int
         /\ IF fn \in {"player_set_file", "player_play_file"}
            THEN call.ti \in Tracks /\ CallRef = 1 ELSE CallRef = 0
  <1>1. p \in PState /\ Coherent(p) /\ call.ti \in MaybeTrack
    BY DEF PlayerInv, TypeInv, LockInv, StateInv, ToldInv, Coherent, Body, Writing
  <1>2. Others(p) \in Int
    BY <1>1 DEF Others, PState
  <1>3. IF fn \in {"player_set_file", "player_play_file"}
        THEN call.ti \in Tracks /\ CallRef = 1 ELSE CallRef = 0
    BY <1>1 DEF PlayerInv, RefInv, CallRef, Body, MaybeTrack
  <1> QED BY <1>1, <1>2, <1>3

(* Every function of the player. *)
LEMMA BodiesInv ==
  ASSUME PlayerInv, M_body, Overtakes PROVE PlayerInv'
  <1> USE DEF Calls
  <1>1. ASSUME Body("player_stop", player_stop(p))
       PROVE  PlayerInv'
    <2> DEFINE s == player_stop(p)
    <2>1. p \in PState /\ Coherent(p) /\ Others(p) \in Int /\ CallRef = 0
      BY <1>1, BodyStart
    <2>2. s \in PState /\ Coherent(s) /\ Others(s) = Others(p) - CallRef
      BY <2>1, PlayerStop
    <2>3. Body("player_stop", s)
      BY <1>1
    <2> HIDE DEF s
    <2> QED BY <2>2, <2>3, BodyInv
  <1>2. ASSUME NEW e \in Env, Body("player_play", player_play(p, e))
       PROVE  PlayerInv'
    <2> DEFINE s == player_play(p, e)
    <2>1. p \in PState /\ Coherent(p) /\ Others(p) \in Int /\ CallRef = 0
      BY <1>2, BodyStart
    <2>2. s \in PState /\ Coherent(s) /\ Others(s) = Others(p) - CallRef
      BY <2>1, PlayerPlay
    <2>3. Body("player_play", s)
      BY <1>2
    <2> HIDE DEF s
    <2> QED BY <2>2, <2>3, BodyInv
  <1>3. ASSUME NEW e \in Env, Body("player_pause", player_pause(p, e))
       PROVE  PlayerInv'
    <2> DEFINE s == player_pause(p, e)
    <2>1. p \in PState /\ Coherent(p) /\ Others(p) \in Int /\ CallRef = 0
      BY <1>3, BodyStart
    <2>2. s \in PState /\ Coherent(s) /\ Others(s) = Others(p) - CallRef
      BY <2>1, PlayerPause
    <2>3. Body("player_pause", s)
      BY <1>3
    <2> HIDE DEF s
    <2> QED BY <2>2, <2>3, BodyInv
  <1>4. ASSUME NEW e \in Env, Body("player_set_file", player_set_file(p, call.ti, e))
       PROVE  PlayerInv'
    <2> DEFINE s == player_set_file(p, call.ti, e)
    <2>1. p \in PState /\ Coherent(p) /\ Others(p) \in Int /\ CallRef = 1 /\ call.ti \in Tracks
      BY <1>4, BodyStart
    <2>2. s \in PState /\ Coherent(s) /\ Others(s) = Others(p) - CallRef
      BY <2>1, PlayerSetFile
    <2>3. Body("player_set_file", s)
      BY <1>4
    <2> HIDE DEF s
    <2> QED BY <2>2, <2>3, BodyInv
  <1>5. ASSUME NEW e \in Env, Body("player_play_file", player_play_file(p, call.ti, e))
       PROVE  PlayerInv'
    <2> DEFINE s == player_play_file(p, call.ti, e)
    <2>1. p \in PState /\ Coherent(p) /\ Others(p) \in Int /\ CallRef = 1 /\ call.ti \in Tracks
      BY <1>5, BodyStart
    <2>2. s \in PState /\ Coherent(s) /\ Others(s) = Others(p) - CallRef
      BY <2>1, PlayerPlayFile
    <2>3. Body("player_play_file", s)
      BY <1>5
    <2> HIDE DEF s
    <2> QED BY <2>2, <2>3, BodyInv
  <1>6. ASSUME NEW e \in Env, Body("player_set_op", player_set_op(p, e))
       PROVE  PlayerInv'
    <2> DEFINE s == player_set_op(p, e)
    <2>1. p \in PState /\ Coherent(p) /\ Others(p) \in Int /\ CallRef = 0
      BY <1>6, BodyStart
    <2>2. s \in PState /\ Coherent(s) /\ Others(s) = Others(p) - CallRef
      BY <2>1, PlayerSetOp
    <2>3. Body("player_set_op", s)
      BY <1>6
    <2> HIDE DEF s
    <2> QED BY <2>2, <2>3, BodyInv
  <1>7. ASSUME NEW e \in Env, NEW to \in {"refuse", "seek"}, NEW start_playing \in BOOLEAN,
             Body("player_seek", player_seek(p, e, to, start_playing))
       PROVE  PlayerInv'
    <2> DEFINE s == player_seek(p, e, to, start_playing)
    <2>1. p \in PState /\ Coherent(p) /\ Others(p) \in Int /\ CallRef = 0
      BY <1>7, BodyStart
    <2>2. s \in PState /\ Coherent(s) /\ Others(s) = Others(p) - CallRef
      BY <2>1, PlayerSeek
    <2>3. Body("player_seek", s)
      BY <1>7
    <2> HIDE DEF s
    <2> QED BY <2>2, <2>3, BodyInv
  <1>8. ASSUME NEW n \in Sizes, Body("player_set_buffer_chunks", player_set_buffer_chunks(p, n))
       PROVE  PlayerInv'
    <2> DEFINE s == player_set_buffer_chunks(p, n)
    <2>1. p \in PState /\ Coherent(p) /\ Others(p) \in Int /\ CallRef = 0
      BY <1>8, BodyStart
    <2>2. s \in PState /\ Coherent(s) /\ Others(s) = Others(p) - CallRef
      BY <2>1, PlayerSetBufferChunks
    <2>3. Body("player_set_buffer_chunks", s)
      BY <1>8
    <2> HIDE DEF s
    <2> QED BY <2>2, <2>3, BodyInv
  <1> QED BY <1>1, <1>2, <1>3, <1>4, <1>5, <1>6, <1>7, <1>8 DEF M_body

(* A seek past the end goes on to the next track. *)
LEMMA SeekNextInv ==
  ASSUME PlayerInv, M_seek_next, Overtakes PROVE PlayerInv'
  <1> USE DEF M_seek_next, Free, cvars, pvars
  <1>1. p \in PState /\ Coherent(p) /\ running /\ pcC \notin Writing /\ pcP # "read"
    BY DEF PlayerInv, LockInv, StateInv, ToldInv, Coherent, Writing
  <1>2. PICK e \in Env, t \in Tracks :
          /\ p' = track_info_ref(SeekStarts(p, e), t)
          /\ call' = [fn |-> "player_set_file", ti |-> t]
    OBVIOUS
  <1> DEFINE s == SeekStarts(p, e)
  <1>3. s \in PState /\ Coherent(s) /\ Others(s) = Others(p)
    BY <1>1, SeekStartsOK
  <1>4. t \in MaybeTrack /\ t # NoTrack
    BY TracksAssumption DEF MaybeTrack
  <1> HIDE DEF s
  <1>5. /\ p' \in PState /\ ProducerOK(p') /\ ConsumerOK(p') /\ Linked(p')
        /\ p'.ps = s.ps /\ p'.cs = s.cs /\ p'.status = s.status
        /\ p'.cwait = s.cwait /\ p'.pwait = s.pwait
        /\ Others(p') = Others(s) + 1
    BY <1>2, <1>3, <1>4, RefTaken DEF Coherent, s
  <1>20. ToldInv' /\ overtaken' \in BOOLEAN
    <2>1. StatusOK(p')
      BY <1>3, <1>5 DEF Coherent, StatusOK
    <2> QED BY <1>1, <2>1, ToldKept DEF Writing
  <1>6. TypeInv'
    BY <1>20, <1>2, <1>4 DEF PlayerInv, TypeInv, Calls
  <1>7. LockInv'
    BY <1>1 DEF PlayerInv, LockInv, Writing, AtEnd
  <1>8. StateInv'
    BY <1>1, <1>3, <1>5 DEF PlayerInv, StateInv, Coherent, Writing
  <1>9. HandshakeInv'
    BY <1>1 DEF PlayerInv, HandshakeInv
  <1>10. RefInv'
    BY <1>2, <1>3, <1>4, <1>5 DEF PlayerInv, RefInv, CallRef, NextRef, CtiRef, StateInv, PState, Others
  <1> QED BY <1>20, <1>6, <1>7, <1>8, <1>9, <1>10 DEF PlayerInv

(* The main thread fills the buffer. *)
LEMMA PrebufferInv ==
  ASSUME PlayerInv, M_prebuffer, Overtakes PROVE PlayerInv'
  <1> USE DEF M_prebuffer, Leave, cvars, pvars
  <1>1. /\ p \in PState /\ Coherent(p) /\ p.ps = "PLAYING" /\ running
        /\ pcC \notin Writing /\ pcP # "read"
    BY DEF PlayerInv, LockInv, StateInv, ToldInv, Coherent, Writing, AtEnd
  <1>2. PICK o \in prebuffer(p) :
          /\ p' = o.s /\ bug' = o.bug
          /\ IF o.done THEN Leave ELSE UNCHANGED <<lockC, lockP, pcM, call>>
    OBVIOUS
  <1>3. /\ o.s \in PState /\ ProducerOK(o.s) /\ ConsumerOK(o.s) /\ Linked(o.s)
        /\ o.s.ps = "PLAYING" /\ o.s.cs = p.cs /\ o.s.status \in {p.status, p.cs}
        /\ o.s.cwait = p.cwait /\ o.s.pwait = p.pwait
        /\ SameTrack(o.s, p) /\ o.done \in BOOLEAN /\ o.bug \in BOOLEAN
    BY <1>1, PrebufferTurn DEF Coherent
  <1>4. Others(p') = Others(p)
    BY <1>2, <1>3 DEF Others
  <1>20. ToldInv' /\ overtaken' \in BOOLEAN
    <2>1. StatusOK(p')
      BY <1>1, <1>2, <1>3 DEF Coherent, StatusOK
    <2> QED BY <1>1, <2>1, ToldKept DEF Writing
  <1>5. TypeInv'
    BY <1>20, <1>2, <1>3 DEF PlayerInv, TypeInv, Calls, NoCall, Threads, MaybeTrack
  <1>6. LockInv'
    BY <1>1, <1>2 DEF PlayerInv, LockInv, Writing, AtEnd
  <1>7. StateInv'
    BY <1>1, <1>2, <1>3 DEF PlayerInv, StateInv, Writing
  <1>8. HandshakeInv'
    BY <1>1 DEF PlayerInv, HandshakeInv
  <1>9. RefInv'
    BY <1>2, <1>4 DEF PlayerInv, RefInv, CallRef, NextRef, CtiRef, NoCall
  <1> QED BY <1>20, <1>5, <1>6, <1>7, <1>8, <1>9 DEF PlayerInv

(* player_exit wakes both threads and lets them end. *)
LEMMA ExitInv ==
  ASSUME PlayerInv, player_exit, Overtakes PROVE PlayerInv'
  <1> USE DEF player_exit, Free, cvars, pvars
  <1>1. p \in PState /\ Coherent(p) /\ running /\ pcC \notin Writing /\ pcP # "read"
    BY DEF PlayerInv, LockInv, StateInv, ToldInv, Coherent, Writing
  <1>2. /\ p' \in PState /\ ~p'.pwait /\ ~p'.cwait /\ p'.ps = p.ps /\ p'.cs = p.cs
        /\ SameInput(p', p) /\ SameBuffer(p', p) /\ SameDevice(p', p) /\ SameTrack(p', p)
    BY <1>1, Waits
  <1>3. ProducerOK(p')
    BY <1>1, <1>2 DEF Coherent, ProducerOK
  <1>4. ConsumerOK(p')
    BY <1>1, <1>2 DEF Coherent, ConsumerOK
  <1>5. Others(p') = Others(p)
    BY <1>2 DEF Others
  <1>20. ToldInv' /\ overtaken' \in BOOLEAN
    BY <1>1, ToldKept DEF Writing
  <1>6. TypeInv'
    BY <1>20 DEF PlayerInv, TypeInv
  <1>7. LockInv'
    BY <1>1 DEF PlayerInv, LockInv, Writing, AtEnd
  <1>8. StateInv'
    BY <1>1, <1>2, <1>3, <1>4 DEF PlayerInv, StateInv, Writing
  <1>9. HandshakeInv'
    BY DEF PlayerInv, HandshakeInv
  <1>10. RefInv'
    BY <1>5 DEF PlayerInv, RefInv, CallRef, NextRef, CtiRef
  <1> QED BY <1>20, <1>6, <1>7, <1>8, <1>9, <1>10 DEF PlayerInv

(* A part of a chunk, or the rest of it, goes to the device. *)
LEMMA WriteInv ==
  ASSUME PlayerInv, C_write, Overtakes PROVE PlayerInv'
  <1> USE DEF C_write, CUnchanged, mvars, pvars
  <1>1. /\ p \in PState /\ Coherent(p) /\ p.cs = "PLAYING" /\ p.ps = "PLAYING" /\ running
        /\ lockC = "consumer" /\ lockP # "main" /\ pcM # "prebuffer"
    BY DEF PlayerInv, LockInv, StateInv, ToldInv, Coherent, Writing, Linked
  <1>2. /\ p' \in PState /\ ProducerOK(p') /\ SamePlay(p', p) /\ SameInput(p', p)
        /\ SameConsumer(p', p) /\ SameDevice(p', p) /\ SameTrack(p', p) /\ SameStatus(p', p)
    BY <1>1, ChunkWritten DEF Coherent, Active
  <1>3. ConsumerOK(p') /\ Linked(p')
    BY <1>1, <1>2 DEF Coherent, ConsumerOK, Linked
  <1>4. Others(p') = Others(p)
    BY <1>2 DEF Others
  <1>20. ToldInv' /\ overtaken' \in BOOLEAN
    BY <1>2, ToldSame
  <1>5. TypeInv'
    BY <1>20 DEF PlayerInv, TypeInv, Writing
  <1>6. LockInv'
    BY DEF PlayerInv, LockInv, Writing, AtEnd
  <1>7. StateInv'
    BY <1>1, <1>2, <1>3 DEF PlayerInv, StateInv, Writing
  <1>8. HandshakeInv'
    BY DEF PlayerInv, HandshakeInv
  <1>9. RefInv'
    BY <1>4 DEF PlayerInv, RefInv, CallRef, NextRef, CtiRef
  <1> QED BY <1>20, <1>5, <1>6, <1>7, <1>8, <1>9 DEF PlayerInv

(* The first half of a reopen, at the top of the loop or after op_write.   *)
LEMMA ReopeningInv ==
  ASSUME PlayerInv, p.cs = "PLAYING", pcC \in {"idle", "inner", "write"}, running,
         lockC \in {"free", "consumer"},
         p' = Reopening(p), lockC' = "consumer", pcC' = "reopen", CUnchanged,
         UNCHANGED <<lockP, req, next, cti, bug>>, Overtakes
  PROVE  PlayerInv'
  <1> USE DEF CUnchanged, mvars, pvars
  <1>1. p \in PState /\ Coherent(p) /\ pcM \notin {"lockP", "prebuffer"} /\ lockP # "main"
    BY DEF PlayerInv, LockInv, StateInv, ToldInv, Coherent
  <1>2. /\ p' \in PState /\ ProducerOK(p') /\ ConsumerOK(p') /\ Linked(p')
        /\ p'.cs = "STOPPED" /\ p'.ps = "PLAYING" /\ p'.cwait = FALSE
        /\ SameTrack(p', p) /\ SamePlay(p', p) /\ SameStatus(p', p)
    BY <1>1, ReopeningOK
  <1>3. Others(p') = Others(p)
    BY <1>2 DEF Others
  <1>4. ToldInv' /\ overtaken' \in BOOLEAN
    <2>1. p.status = "PLAYING" \/ (overtaken /\ p.status = "STOPPED")
      BY <1>1 DEF Coherent, StatusOK
    <2>2. overtaken \in BOOLEAN /\ overtaken' = overtaken
      BY DEF PlayerInv, TypeInv, Overtakes
    <2> QED BY <1>2, <2>1, <2>2 DEF ToldInv
  <1>5. TypeInv'
    BY <1>4 DEF PlayerInv, TypeInv, Writing
  <1>6. LockInv'
    BY <1>1 DEF PlayerInv, LockInv, Writing, AtEnd
  <1>7. StateInv'
    BY <1>1, <1>2 DEF PlayerInv, StateInv, Writing
  <1>8. HandshakeInv'
    BY DEF PlayerInv, HandshakeInv
  <1>9. RefInv'
    BY <1>3 DEF PlayerInv, RefInv, CallRef, NextRef, CtiRef
  <1> QED BY <1>4, <1>5, <1>6, <1>7, <1>8, <1>9 DEF PlayerInv

(* op_write failed. *)
LEMMA WriteFailedInv ==
  ASSUME PlayerInv, C_write_failed, Overtakes PROVE PlayerInv'
  <1>1. p.cs = "PLAYING" /\ running /\ lockC = "consumer"
    BY DEF C_write_failed, PlayerInv, LockInv, StateInv, Writing
  <1> QED BY <1>1, ReopeningInv DEF C_write_failed

(* The second half of a reopen: the device is open again, or not. *)
LEMMA ReopenInv ==
  ASSUME PlayerInv, C_reopen, Overtakes PROVE PlayerInv'
  <1> USE DEF C_reopen, CUnchanged, mvars, pvars
  <1>1. /\ p \in PState /\ ProducerOK(p) /\ ConsumerOK(p) /\ p.cs = "STOPPED" /\ p.ps = "PLAYING"
        /\ p.status = "PLAYING" \/ (overtaken /\ p.status = "STOPPED")
        /\ running /\ pcM \notin {"lockP", "prebuffer"}
    BY DEF PlayerInv, LockInv, StateInv, ToldInv, Writing
  <1>2. p' \in PState /\ Coherent(p') /\ SameTrack(p', p) /\ SamePlay(p', p)
    BY <1>1, ReopenedOK
  <1>3. Others(p') = Others(p)
    BY <1>2 DEF Others
  <1>4. ToldInv' /\ overtaken' \in BOOLEAN
    BY <1>2, ToldKept DEF Coherent
  <1>5. TypeInv'
    BY <1>4 DEF PlayerInv, TypeInv, Writing
  <1>6. LockInv'
    BY <1>1 DEF PlayerInv, LockInv, Writing, AtEnd
  <1>7. StateInv'
    BY <1>1, <1>2 DEF PlayerInv, StateInv, Writing, Coherent
  <1>8. HandshakeInv'
    BY DEF PlayerInv, HandshakeInv
  <1>9. RefInv'
    BY <1>3 DEF PlayerInv, RefInv, CallRef, NextRef, CtiRef
  <1> QED BY <1>4, <1>5, <1>6, <1>7, <1>8, <1>9 DEF PlayerInv


(* The top of consumer_loop: it ends, waits, reopens the device or goes on. *)
LEMMA ConsumerTopInv ==
  ASSUME PlayerInv, C_top, Overtakes PROVE PlayerInv'
  <1> USE DEF C_top, Free, CUnchanged, mvars, pvars
  <1>0. /\ p \in PState /\ ProducerOK(p) /\ ConsumerOK(p) /\ (running => Coherent(p))
        /\ pcC = "idle" /\ lockC = "free" /\ pcM \notin {"lockP", "prebuffer"}
    BY DEF PlayerInv, StateInv, ToldInv, Coherent, LockInv
  <1>1. CASE ~running /\ p' = consumer_stop(p) /\ pcC' = "done" /\ UNCHANGED lockC
    <2>1. /\ p' \in PState /\ ProducerOK(p') /\ ConsumerOK(p') /\ SameTrack(p', p)
          /\ SamePlay(p', p) /\ (p'.cwait => p.cwait)
      BY <1>0, <1>1, StopLinks
    <2>2. Others(p') = Others(p)
      BY <2>1 DEF Others
    <2>20. ToldInv' /\ overtaken' \in BOOLEAN
      BY <1>0, <1>1, ToldKept
    <2>3. TypeInv'
      BY <1>1, <2>20 DEF PlayerInv, TypeInv, Writing
    <2>4. LockInv'
      BY <1>0, <1>1 DEF PlayerInv, LockInv, Writing, AtEnd
    <2>5. StateInv'
      BY <1>0, <1>1, <2>1 DEF PlayerInv, StateInv, Writing
    <2>6. HandshakeInv'
      BY <1>0, <1>1 DEF PlayerInv, HandshakeInv
    <2>7. RefInv'
      BY <1>1, <2>2 DEF PlayerInv, RefInv, CallRef, NextRef, CtiRef
    <2> QED BY <2>20, <2>3, <2>4, <2>5, <2>6, <2>7 DEF PlayerInv
  <1>2. CASE running /\ p.cs # "PLAYING" /\ p' = [p EXCEPT !.cwait = TRUE] /\ pcC' = "wait" /\ UNCHANGED lockC
    <2>1. /\ p' \in PState /\ p'.cwait = TRUE /\ p'.cs = p.cs
          /\ SameInput(p', p) /\ SameBuffer(p', p) /\ SamePlay(p', p) /\ SameDevice(p', p)
          /\ SameTrack(p', p) /\ SameStatus(p', p)
      BY <1>0, <1>2, Waits
    <2>2. ProducerOK(p')
      BY <1>0, <2>1 DEF ProducerOK, NothingToRead
    <2>3. ConsumerOK(p') /\ Linked(p')
      BY <1>0, <1>2, <2>1 DEF Coherent, ConsumerOK, Linked
    <2>4. Others(p') = Others(p)
      BY <2>1 DEF Others
    <2>20. ToldInv' /\ overtaken' \in BOOLEAN
      BY <1>0, <1>2, <2>1, ToldSame
    <2>5. TypeInv'
      BY <1>2, <2>20 DEF PlayerInv, TypeInv, Writing
    <2>6. LockInv'
      BY <1>0, <1>2 DEF PlayerInv, LockInv, Writing, AtEnd
    <2>7. StateInv'
      BY <1>0, <1>2, <2>1, <2>2, <2>3 DEF PlayerInv, StateInv, Writing
    <2>8. HandshakeInv'
      BY <1>0, <1>2 DEF PlayerInv, HandshakeInv
    <2>9. RefInv'
      BY <1>2, <2>4 DEF PlayerInv, RefInv, CallRef, NextRef, CtiRef
    <2> QED BY <2>20, <2>5, <2>6, <2>7, <2>8, <2>9 DEF PlayerInv
  <1>3. CASE running /\ p.cs = "PLAYING" /\ p' = Reopening(p) /\ lockC' = "consumer" /\ pcC' = "reopen"
    BY <1>0, <1>3, ReopeningInv
  <1>4. CASE running /\ p.cs = "PLAYING" /\ lockC' = "consumer" /\ pcC' = "inner" /\ UNCHANGED p
    <2>20. ToldInv' /\ overtaken' \in BOOLEAN
      BY <1>0, <1>4, ToldSame
    <2>1. TypeInv'
      BY <1>4, <2>20 DEF PlayerInv, TypeInv, Writing
    <2>2. LockInv'
      BY <1>0, <1>4 DEF PlayerInv, LockInv, Writing, AtEnd
    <2>3. StateInv'
      BY <1>0, <1>4 DEF PlayerInv, StateInv, Writing
    <2>4. HandshakeInv'
      BY <1>0, <1>4 DEF PlayerInv, HandshakeInv
    <2>5. RefInv'
      BY <1>4 DEF PlayerInv, RefInv, CallRef, NextRef, CtiRef
    <2> QED BY <2>20, <2>1, <2>2, <2>3, <2>4, <2>5 DEF PlayerInv
  <1> QED BY <1>1, <1>2, <1>3, <1>4

(* The end of the track: stop, begin again, or ask for the next one. *)
LEMMA EofInv ==
  ASSUME PlayerInv, C_eof, Overtakes PROVE PlayerInv'
  <1> USE DEF C_eof, Free, CUnchanged, mvars, pvars, AtEof
  <1>0. /\ p \in PState /\ Coherent(p) /\ running /\ p.ps = "PLAYING"
        /\ pcC = "lockP" /\ lockC = "consumer" /\ lockP = "free"
        /\ pcM \notin {"lockP", "prebuffer"} /\ pcP # "read" /\ ~next.provided /\ ~req
    BY DEF PlayerInv, StateInv, ToldInv, Coherent, LockInv, HandshakeInv, Writing
  <1>1. ASSUME p' \in PState, Coherent(p'), SameTrack(p', p), pcC' = "idle", lockC' = "free",
               UNCHANGED <<lockP, req>>
        PROVE  PlayerInv'
    <2>1. Others(p') = Others(p)
      BY <1>1 DEF Others
    <2>20. ToldInv' /\ overtaken' \in BOOLEAN
      BY <1>1, ToldKept DEF Coherent
    <2>2. TypeInv'
      BY <1>1, <2>20 DEF PlayerInv, TypeInv, Writing
    <2>3. LockInv'
      BY <1>0, <1>1 DEF PlayerInv, LockInv, Writing, AtEnd
    <2>4. StateInv'
      BY <1>0, <1>1 DEF PlayerInv, StateInv, Writing, Coherent
    <2>5. HandshakeInv'
      BY <1>0, <1>1 DEF PlayerInv, HandshakeInv
    <2>6. RefInv'
      BY <1>1, <2>1 DEF PlayerInv, RefInv, CallRef, NextRef, CtiRef
    <2> QED BY <2>20, <2>2, <2>3, <2>4, <2>5, <2>6 DEF PlayerInv
  <1>2. CASE /\ ip_is_remote(p) /\ p' = player_error(consumer_stop(producer_stop(p)))
             /\ pcC' = "idle" /\ lockC' = "free" /\ UNCHANGED <<lockP, req>>
    <2> DEFINE r == consumer_stop(producer_stop(p))
    <2>1. r \in PState /\ ProducerOK(r) /\ ConsumerOK(r) /\ Linked(r) /\ SameTrack(r, p)
      BY <1>0, StopBoth DEF Coherent
    <2> HIDE DEF r
    <2>2. player_error(r) \in PState /\ Coherent(player_error(r)) /\ SameTrack(player_error(r), r)
      BY <2>1, ErrorPublished
    <2>3. p' = player_error(r)
      BY <1>2 DEF r
    <2> QED BY <1>1, <1>2, <2>1, <2>2, <2>3
  <1>3. ASSUME NEW e \in Env, NEW player_cont \in BOOLEAN,
               p' = player_status_changed(
                      IF player_cont
                      THEN reset_buffer(IF CanSeek(p, e) THEN ip_sought(p) ELSE p)
                      ELSE consumer_stop(producer_stop(p))),
               pcC' = "idle", lockC' = "free", UNCHANGED <<lockP, req>>
        PROVE  PlayerInv'
    <2> DEFINE r == IF player_cont
                    THEN reset_buffer(IF CanSeek(p, e) THEN ip_sought(p) ELSE p)
                    ELSE consumer_stop(producer_stop(p))
    <2>1. r \in PState /\ ProducerOK(r) /\ ConsumerOK(r) /\ Linked(r) /\ SameTrack(r, p)
      <3>1. CASE player_cont /\ CanSeek(p, e)
        BY <1>0, <3>1, Rewound DEF Coherent, Active
      <3>2. CASE player_cont /\ ~CanSeek(p, e)
        BY <1>0, <3>2, Dropped DEF Coherent
      <3>3. CASE ~player_cont
        BY <1>0, <3>3, StopBoth DEF Coherent
      <3> QED BY <3>1, <3>2, <3>3
    <2>2. p' = player_status_changed(r)
      BY <1>3
    <2> HIDE DEF r
    <2>3. p' \in PState /\ Coherent(p') /\ SameTrack(p', r)
      BY <2>1, <2>2, Published
    <2> QED BY <1>1, <1>3, <2>1, <2>3
  <1>4. CASE /\ cmus_get_next_from_other_thread /\ lockP' = "consumer" /\ UNCHANGED <<p, lockC>>
    <2> USE DEF cmus_get_next_from_other_thread
    <2>20. ToldInv' /\ overtaken' \in BOOLEAN
      BY <1>0, <1>4, ToldSame
    <2>1. TypeInv'
      BY <1>4, <2>20 DEF PlayerInv, TypeInv, Writing, Threads
    <2>2. LockInv'
      BY <1>0, <1>4 DEF PlayerInv, LockInv, Writing, AtEnd
    <2>3. StateInv'
      BY <1>0, <1>4 DEF PlayerInv, StateInv, Writing, Coherent
    <2>4. HandshakeInv'
      BY <1>0, <1>4 DEF PlayerInv, HandshakeInv
    <2>5. RefInv'
      BY <1>4 DEF PlayerInv, RefInv, CallRef, NextRef, CtiRef
    <2> QED BY <2>20, <2>1, <2>2, <2>3, <2>4, <2>5 DEF PlayerInv
  <1> QED BY <1>2, <1>3, <1>4

(* The answer has come: no next track, or one that is to be loaded. *)
LEMMA NextTrackInv ==
  ASSUME PlayerInv, C_next, Overtakes PROVE PlayerInv'
  <1> USE DEF C_next, CLeave, CUnchanged, mvars, pvars
  <1> DEFINE u == producer_unload(p)
  <1>0. /\ p \in PState /\ ProducerOK(p) /\ ConsumerOK(p) /\ Coherent(p) /\ running
        /\ p.cs = "PLAYING" /\ ~req /\ ~ready /\ cti = NoTrack
        /\ lockC = "consumer" /\ lockP = "consumer"
        /\ pcM \notin {"lockP", "prebuffer"} /\ pcP # "read" /\ next.ti \in MaybeTrack
    BY DEF PlayerInv, StateInv, ToldInv, Coherent, LockInv, HandshakeInv, TypeInv, Writing, AtEnd
  <1>1. /\ u \in PState /\ ProducerOK(u) /\ u.ps = "UNLOADED"
        /\ SameDevice(u, p) /\ SameConsumer(u, p) /\ SameTrack(u, p) /\ SameStatus(u, p)
        /\ u.pwait => p.pwait
    BY <1>0, ProducerUnload
  <1>2. ConsumerOK(u) /\ Others(u) = Others(p)
    <2> HIDE DEF u
    <2> QED BY <1>0, <1>1 DEF ConsumerOK, Others
  <1>3. CASE next.ti = NoTrack
    <2> DEFINE a == consumer_stop(u)
               b == file_changed(a, NoTrack)
    <2>1. p' = player_status_changed(b)
      BY <1>3
    <2> HIDE DEF u
    <2>2. /\ a \in PState /\ ProducerOK(a) /\ ConsumerOK(a) /\ Linked(a) /\ SameTrack(a, u)
      BY <1>1, <1>2, StopLinks
    <2> HIDE DEF a
    <2>3. /\ b \in PState /\ ProducerOK(b) /\ ConsumerOK(b) /\ Linked(b)
          /\ Others(b) = Others(a)
      <3>1. Others(a) \in Int
        BY <2>2 DEF Others, PState
      <3> QED BY <2>2, <3>1, FileChangedKeeps DEF MaybeTrack
    <2> HIDE DEF b
    <2>4. p' \in PState /\ Coherent(p') /\ SameTrack(p', b)
      BY <2>1, <2>3, Published
    <2>5. Others(p') = Others(p)
      BY <1>2, <2>2, <2>3, <2>4 DEF Others
    <2>20. ToldInv' /\ overtaken' \in BOOLEAN
      BY <1>3, <2>4, ToldKept DEF Coherent
    <2>6. TypeInv'
      BY <1>3, <2>20 DEF PlayerInv, TypeInv, Writing, Threads, MaybeTrack
    <2>7. LockInv'
      BY <1>0, <1>3 DEF PlayerInv, LockInv, Writing, AtEnd
    <2>8. StateInv'
      BY <1>0, <1>3, <2>4 DEF PlayerInv, StateInv, Writing, Coherent
    <2>9. HandshakeInv'
      BY <1>0, <1>3 DEF PlayerInv, HandshakeInv
    <2>10. RefInv'
      BY <1>0, <1>3, <2>5 DEF PlayerInv, RefInv, CallRef, NextRef, CtiRef
    <2> QED BY <2>20, <2>6, <2>7, <2>8, <2>9, <2>10 DEF PlayerInv
  <1>4. CASE next.ti # NoTrack
    <2>1. p' = u
      BY <1>4
    <2> HIDE DEF u
    <2>20. ToldInv' /\ overtaken' \in BOOLEAN
      BY <1>0, <1>1, <1>4, <2>1, ToldSame
    <2>2. TypeInv'
      BY <1>0, <1>4, <2>20 DEF PlayerInv, TypeInv, Writing, Threads, MaybeTrack
    <2>3. LockInv'
      BY <1>0, <1>4 DEF PlayerInv, LockInv, Writing, AtEnd
    <2>4. StateInv'
      BY <1>0, <1>1, <1>2, <1>4, <2>1 DEF PlayerInv, StateInv, Writing, Coherent
    <2>5. HandshakeInv'
      BY <1>0, <1>4 DEF PlayerInv, HandshakeInv
    <2>6. RefInv'
      BY <1>0, <1>2, <1>4, <2>1 DEF PlayerInv, RefInv, CallRef, NextRef, CtiRef
    <2> QED BY <2>20, <2>2, <2>3, <2>4, <2>5, <2>6 DEF PlayerInv
  <1> QED BY <1>3, <1>4

(* The next track is loaded, and started or not. *)
LEMMA LoadInv ==
  ASSUME PlayerInv, C_load, Overtakes PROVE PlayerInv'
  <1> USE DEF C_load, CLeave, CUnchanged, mvars, pvars
  <1>0. /\ p \in PState /\ ProducerOK(p) /\ ConsumerOK(p) /\ running /\ StatusOK(p)
        /\ p.cs = "PLAYING" /\ p.ps = "UNLOADED" /\ cti \in Tracks /\ cti \in MaybeTrack /\ cti # NoTrack
        /\ ~req /\ ~ready /\ ~next.provided
        /\ lockC = "consumer" /\ lockP = "consumer" /\ Others(p) \in Int
        /\ pcM \notin {"lockP", "prebuffer"} /\ pcP # "read"
    BY DEF PlayerInv, StateInv, ToldInv, LockInv, HandshakeInv, TypeInv, Writing, AtEnd, MaybeTrack, PState, Others
  <1>1. PICK e \in Env, continues \in BOOLEAN :
          LET a == producer_status_update(ip_new(p, cti), "STOPPED")
              b == producer_play(a, e)
              c == change_sf(file_changed(b, cti), e)
          IN IF ~continues
             THEN /\ p' = player_status_changed(file_changed(consumer_stop(a), cti))
                  /\ CLeave
             ELSE IF b.ps = "UNLOADED"
             THEN /\ p' = player_status_changed(
                            file_changed(track_info_unref(consumer_stop(b), cti), NoTrack))
                  /\ CLeave
             ELSE IF c.cs = "PLAYING"
             THEN /\ p' = c
                  /\ cti' = NoTrack
                  /\ pcC' = "prebuffer"
                  /\ UNCHANGED <<lockC, lockP>>
             ELSE p' = player_status_changed(c) /\ CLeave
    BY DEF C_load
  <1> DEFINE a == producer_status_update(ip_new(p, cti), "STOPPED")
             b == producer_play(a, e)
             f == file_changed(b, cti)
             c == change_sf(f, e)
  <1>2. /\ a \in PState /\ ProducerOK(a) /\ ConsumerOK(a) /\ a.ps = "STOPPED"
        /\ a.cs = "PLAYING" /\ StatusOK(a) /\ Others(a) = Others(p)
    BY <1>0, NextLoaded DEF Others, StatusOK
  <1>3. ASSUME p' \in PState, Coherent(p'), Others(p') = Others(p) - 1, CLeave
        PROVE  PlayerInv'
    <2>20. ToldInv' /\ overtaken' \in BOOLEAN
      BY <1>3, ToldKept DEF Coherent
    <2>1. TypeInv'
      BY <1>3, <2>20 DEF PlayerInv, TypeInv, Writing, Threads, MaybeTrack
    <2>2. LockInv'
      BY <1>0, <1>3 DEF PlayerInv, LockInv, Writing, AtEnd
    <2>3. StateInv'
      BY <1>0, <1>3 DEF PlayerInv, StateInv, Writing, Coherent
    <2>4. HandshakeInv'
      BY <1>0, <1>3 DEF PlayerInv, HandshakeInv
    <2>5. RefInv'
      BY <1>0, <1>3 DEF PlayerInv, RefInv, CallRef, NextRef, CtiRef
    <2> QED BY <2>20, <2>1, <2>2, <2>3, <2>4, <2>5 DEF PlayerInv
  <1>4. CASE ~continues
    <2> DEFINE d == consumer_stop(a)
               g == file_changed(d, cti)
    <2>1. p' = player_status_changed(g) /\ CLeave
      BY <1>1, <1>4
    <2> HIDE DEF a
    <2>2. d \in PState /\ ProducerOK(d) /\ ConsumerOK(d) /\ Linked(d) /\ SameTrack(d, a)
      BY <1>2, StopLinks
    <2> HIDE DEF d
    <2>3. /\ g \in PState /\ ProducerOK(g) /\ ConsumerOK(g) /\ Linked(g)
          /\ Others(g) = Others(d) - 1
      BY <1>0, <2>2, FileChangedKeeps
    <2> HIDE DEF g
    <2>4. p' \in PState /\ Coherent(p') /\ SameTrack(p', g)
      BY <2>1, <2>3, Published
    <2> QED BY <1>2, <1>3, <2>1, <2>2, <2>3, <2>4 DEF Others
  <1>5. /\ b \in PState /\ ProducerOK(b) /\ ConsumerOK(b) /\ b.ps \in {"PLAYING", "UNLOADED"}
        /\ b.cs = "PLAYING" /\ StatusOK(b) /\ Others(b) = Others(p)
    <2> HIDE DEF a
    <2>1. /\ b \in PState /\ ProducerOK(b) /\ SameDevice(b, a) /\ SameConsumer(b, a)
          /\ Others(b) = Others(a) /\ b.status \in {a.status, a.cs} /\ b.ps \in {"PLAYING", "UNLOADED"}
      BY <1>2, ProducerPlay
    <2> HIDE DEF b
    <2>2. ConsumerOK(b)
      BY <1>2, <2>1 DEF ConsumerOK
    <2>3. StatusOK(b)
      BY <1>2, <2>1 DEF StatusOK
    <2> QED BY <1>2, <2>1, <2>2, <2>3
  <1>6. CASE continues /\ b.ps = "UNLOADED"
    <2> DEFINE d == consumer_stop(b)
               g == track_info_unref(d, cti)
               h == file_changed(g, NoTrack)
    <2>1. p' = player_status_changed(h) /\ CLeave
      BY <1>1, <1>6
    <2> HIDE DEF a, b
    <2>2. /\ d \in PState /\ ProducerOK(d) /\ ConsumerOK(d) /\ Linked(d) /\ SameTrack(d, b)
      BY <1>5, StopLinks
    <2> HIDE DEF d
    <2>3. /\ g \in PState /\ SameInput(g, d) /\ SameBuffer(g, d) /\ SamePlay(g, d)
          /\ SameDevice(g, d) /\ SameConsumer(g, d) /\ SameStatus(g, d)
          /\ g.ti = d.ti /\ g.refs = d.refs - 1
      BY <1>0, <2>2, TrackInfoUnref
    <2> HIDE DEF g
    <2>4. ProducerOK(g)
      BY <2>2, <2>3 DEF ProducerOK, NothingToRead
    <2>5. ConsumerOK(g) /\ Linked(g)
      BY <2>2, <2>3 DEF ConsumerOK, Linked
    <2>6. /\ h \in PState /\ ProducerOK(h) /\ ConsumerOK(h) /\ Linked(h)
          /\ Others(h) = Others(g) - 0
      BY <2>3, <2>4, <2>5, FileChangedKeeps DEF MaybeTrack
    <2> HIDE DEF h
    <2>7. p' \in PState /\ Coherent(p') /\ SameTrack(p', h)
      BY <2>1, <2>6, Published
    <2>8. Others(p') = Others(p) - 1
      <3>1. d.refs \in Int /\ b.refs \in Int
        BY <1>5, <2>2 DEF PState
      <3> QED BY <1>5, <2>2, <2>3, <2>6, <2>7, <3>1 DEF Others
    <2> QED BY <1>3, <2>1, <2>7, <2>8
  <1>7. CASE continues /\ b.ps # "UNLOADED"
    <2>1. IF c.cs = "PLAYING"
          THEN /\ p' = c /\ cti' = NoTrack /\ pcC' = "prebuffer" /\ UNCHANGED <<lockC, lockP>>
          ELSE p' = player_status_changed(c) /\ CLeave
      BY <1>1, <1>7
    <2> HIDE DEF a, b
    <2>2. /\ f \in PState /\ ProducerOK(f) /\ ConsumerOK(f) /\ f.ps = b.ps /\ f.cs = b.cs
          /\ f.status = b.status /\ Others(f) = Others(b) - 1
      BY <1>0, <1>5, FileChangedKeeps
    <2> HIDE DEF f
    <2>3. f.ps = "PLAYING" /\ f.cs \in Active
      BY <1>5, <1>7, <2>2 DEF Active
    <2>4. /\ c \in PState /\ ProducerOK(c) /\ ConsumerOK(c) /\ Linked(c) /\ SameTrack(c, f)
          /\ \/ c.cs = "PLAYING" /\ c.status = f.status /\ c.ps = "PLAYING"
             \/ c.cs = "STOPPED"
      BY <2>2, <2>3, ChangeSf
    <2> HIDE DEF c
    <2>5. Others(c) = Others(p) - 1
      BY <1>5, <2>2, <2>4 DEF Others
    <2>6. CASE c.cs # "PLAYING"
      <3>1. p' \in PState /\ Coherent(p') /\ SameTrack(p', c)
        BY <2>1, <2>4, <2>6, Published
      <3> QED BY <1>3, <2>1, <2>5, <2>6, <3>1 DEF Others
    <2>7. CASE c.cs = "PLAYING"
      <3>0. StatusOK(c)
        BY <1>5, <2>2, <2>4, <2>7 DEF StatusOK
      <3>20. ToldInv' /\ overtaken' \in BOOLEAN
        BY <2>1, <2>7, <3>0, ToldKept
      <3>1. TypeInv'
        BY <1>0, <2>1, <2>7, <3>20 DEF PlayerInv, TypeInv, Writing, Threads, MaybeTrack
      <3>2. LockInv'
        BY <1>0, <2>1, <2>7 DEF PlayerInv, LockInv, Writing, AtEnd
      <3>3. StateInv'
        BY <1>0, <2>1, <2>4, <2>7, <3>0 DEF PlayerInv, StateInv, Writing
      <3>4. HandshakeInv'
        BY <1>0, <2>1, <2>7 DEF PlayerInv, HandshakeInv
      <3>5. RefInv'
        BY <1>0, <2>1, <2>5, <2>7 DEF PlayerInv, RefInv, CallRef, NextRef, CtiRef
      <3> QED BY <3>20, <3>1, <3>2, <3>3, <3>4, <3>5 DEF PlayerInv
    <2> QED BY <2>6, <2>7
  <1> QED BY <1>4, <1>6, <1>7

(* The consumer fills the buffer with the start of the next track. *)
LEMMA ConsumerPrebufferInv ==
  ASSUME PlayerInv, C_prebuffer, Overtakes PROVE PlayerInv'
  <1> USE DEF C_prebuffer, CLeave, CUnchanged, mvars, cvars, pvars
  <1>0. /\ p \in PState /\ Coherent(p) /\ p.ps = "PLAYING" /\ running /\ p.cs = "PLAYING"
        /\ ~req /\ ~ready /\ ~next.provided /\ cti = NoTrack
        /\ lockC = "consumer" /\ lockP = "consumer"
        /\ pcM \notin {"lockP", "prebuffer"} /\ pcP # "read"
    BY DEF PlayerInv, LockInv, StateInv, ToldInv, HandshakeInv, Coherent, Writing, AtEnd
  <1>1. PICK o \in prebuffer(p) :
          /\ bug' = o.bug
          /\ IF o.done THEN p' = player_status_changed(o.s) /\ CLeave
                       ELSE p' = o.s /\ UNCHANGED <<lockC, lockP, cvars>>
    BY DEF C_prebuffer
  <1>2. /\ o.s \in PState /\ ProducerOK(o.s) /\ ConsumerOK(o.s) /\ Linked(o.s)
        /\ o.s.ps = "PLAYING" /\ o.s.cs = p.cs /\ o.s.status \in {p.status, p.cs}
        /\ SameTrack(o.s, p) /\ o.done \in BOOLEAN /\ o.bug \in BOOLEAN
    BY <1>0, PrebufferTurn DEF Coherent
  <1>3. /\ p' \in PState /\ Coherent(p') /\ SameTrack(p', p) /\ p'.ps = "PLAYING" /\ p'.cs = "PLAYING"
    <2>1. CASE o.done
      BY <1>0, <1>1, <1>2, <2>1, Published
    <2>2. CASE ~o.done
      BY <1>0, <1>1, <1>2, <2>2 DEF Coherent, StatusOK
    <2> QED BY <2>1, <2>2
  <1>4. Others(p') = Others(p)
    BY <1>3 DEF Others
  <1>20. ToldInv' /\ overtaken' \in BOOLEAN
    BY <1>1, <1>3, ToldKept DEF Coherent
  <1>5. TypeInv'
    BY <1>20, <1>0, <1>1, <1>2 DEF PlayerInv, TypeInv, Writing, Threads, MaybeTrack
  <1>6. LockInv'
    BY <1>0, <1>1 DEF PlayerInv, LockInv, Writing, AtEnd
  <1>7. StateInv'
    BY <1>0, <1>1, <1>3 DEF PlayerInv, StateInv, Writing, Coherent
  <1>8. HandshakeInv'
    BY <1>0, <1>1 DEF PlayerInv, HandshakeInv
  <1>9. RefInv'
    BY <1>0, <1>1, <1>4 DEF PlayerInv, RefInv, CallRef, NextRef, CtiRef
  <1> QED BY <1>20, <1>5, <1>6, <1>7, <1>8, <1>9 DEF PlayerInv

(* The top of producer_loop: it ends, waits or reads. *)
LEMMA ProducerTopInv ==
  ASSUME PlayerInv, P_top, Overtakes PROVE PlayerInv'
  <1> USE DEF P_top, Free, PUnchanged, mvars, cvars
  <1>0. /\ p \in PState /\ ProducerOK(p) /\ ConsumerOK(p) /\ pcP = "idle" /\ lockP = "free"
        /\ pcC \notin AtEnd /\ pcM # "prebuffer"
    BY DEF PlayerInv, StateInv, LockInv
  <1>1. CASE ~running /\ p' = producer_unload(p) /\ pcP' = "done" /\ UNCHANGED <<lockP, pi>>
    <2>1. /\ p' \in PState /\ ProducerOK(p') /\ (p'.pwait => p.pwait)
          /\ SameDevice(p', p) /\ SameConsumer(p', p) /\ SameTrack(p', p) /\ SameStatus(p', p)
      BY <1>0, <1>1, ProducerUnload
    <2>2. ConsumerOK(p') /\ Others(p') = Others(p)
      BY <1>0, <2>1 DEF ConsumerOK, Others
    <2>20. ToldInv' /\ overtaken' \in BOOLEAN
      BY <1>1, <2>1, ToldSame
    <2>3. TypeInv'
      BY <1>1, <2>20 DEF PlayerInv, TypeInv
    <2>4. LockInv'
      BY <1>0, <1>1 DEF PlayerInv, LockInv
    <2>5. StateInv'
      BY <1>0, <1>1, <2>1, <2>2 DEF PlayerInv, StateInv, Writing, AtEnd
    <2>6. HandshakeInv'
      BY <1>1 DEF PlayerInv, HandshakeInv
    <2>7. RefInv'
      BY <1>1, <2>2 DEF PlayerInv, RefInv, CallRef, NextRef, CtiRef
    <2> QED BY <2>20, <2>3, <2>4, <2>5, <2>6, <2>7 DEF PlayerInv
  <1>2. CASE running /\ NothingToRead(p) /\ p' = [p EXCEPT !.pwait = TRUE] /\ pcP' = "wait" /\ UNCHANGED <<lockP, pi>>
    <2>1. /\ p' \in PState /\ p'.pwait = TRUE /\ p'.ps = p.ps
          /\ SameInput(p', p) /\ SameBuffer(p', p) /\ SameConsumer(p', p) /\ SameDevice(p', p)
          /\ SameTrack(p', p) /\ SameStatus(p', p)
      BY <1>0, <1>2, Waits
    <2>2. ProducerOK(p')
      BY <1>0, <1>2, <2>1 DEF ProducerOK, NothingToRead
    <2>3. ConsumerOK(p') /\ (Linked(p) => Linked(p')) /\ Others(p') = Others(p)
      BY <1>0, <2>1 DEF ConsumerOK, Linked, Others
    <2>20. ToldInv' /\ overtaken' \in BOOLEAN
      BY <1>2, <2>1, ToldSame
    <2>4. TypeInv'
      BY <1>2, <2>20 DEF PlayerInv, TypeInv
    <2>5. LockInv'
      BY <1>0, <1>2 DEF PlayerInv, LockInv
    <2>6. StateInv'
      BY <1>0, <1>2, <2>1, <2>2, <2>3 DEF PlayerInv, StateInv
    <2>7. HandshakeInv'
      BY <1>2 DEF PlayerInv, HandshakeInv
    <2>8. RefInv'
      BY <1>2, <2>3 DEF PlayerInv, RefInv, CallRef, NextRef, CtiRef
    <2> QED BY <2>20, <2>4, <2>5, <2>6, <2>7, <2>8 DEF PlayerInv
  <1>3. CASE running /\ ~NothingToRead(p) /\ lockP' = "producer" /\ pcP' = "read" /\ pi' = 0 /\ UNCHANGED p
    <2>20. ToldInv' /\ overtaken' \in BOOLEAN
      BY <1>3, ToldSame
    <2>1. TypeInv'
      BY <1>3, <2>20 DEF PlayerInv, TypeInv, Threads
    <2>2. LockInv'
      BY <1>0, <1>3 DEF PlayerInv, LockInv
    <2>3. StateInv'
      BY <1>0, <1>3 DEF PlayerInv, StateInv, NothingToRead
    <2>4. HandshakeInv'
      BY <1>3 DEF PlayerInv, HandshakeInv
    <2>5. RefInv'
      BY <1>3 DEF PlayerInv, RefInv, CallRef, NextRef, CtiRef
    <2> QED BY <2>20, <2>1, <2>2, <2>3, <2>4, <2>5 DEF PlayerInv
  <1> QED BY <1>1, <1>2, <1>3

(* The producer reads from the input, if there is room. *)
LEMMA ReadInv ==
  ASSUME PlayerInv, P_read, Overtakes PROVE PlayerInv'
  <1> USE DEF P_read, PLeave, PUnchanged, mvars, cvars
  <1>0. /\ p \in PState /\ ProducerOK(p) /\ ConsumerOK(p) /\ p.ps = "PLAYING" /\ running
        /\ lockP = "producer" /\ pcC \notin AtEnd /\ pcM # "prebuffer"
    BY DEF PlayerInv, StateInv, LockInv
  <1>1. p' = p \/ (~Full(p) /\ \E r \in Reads : p' = ip_read_fill(p, r))
    OBVIOUS
  <1>2. /\ p' \in PState /\ ProducerOK(p') /\ p'.ps = "PLAYING" /\ SameDevice(p', p)
        /\ SameConsumer(p', p) /\ SameTrack(p', p) /\ p'.ip.track = p.ip.track
        /\ p'.status \in {p.status, p.cs} /\ p'.pwait = p.pwait
    BY <1>0, <1>1, ReadFill
  <1>3. ConsumerOK(p') /\ (Linked(p) => Linked(p')) /\ Others(p') = Others(p)
    BY <1>0, <1>2 DEF ConsumerOK, Linked, Others
  <1>4. \/ lockP' = "free" /\ pcP' = "idle" /\ pi' = 0
        \/ lockP' = "producer" /\ pcP' = "read" /\ pi' = 1
    BY <1>0
  <1>20. ToldInv' /\ overtaken' \in BOOLEAN
    <2>1. p'.cs = p.cs /\ pcC' = pcC /\ running' /\ overtaken \in BOOLEAN
      BY <1>0, <1>2 DEF PlayerInv, TypeInv
    <2>2. CASE pcC = "reopen"
      <3>1. p.cs = "STOPPED" /\ (p.status = "PLAYING" \/ (overtaken /\ p.status = "STOPPED"))
        BY <1>0, <2>2 DEF PlayerInv, StateInv, ToldInv, Writing
      <3>2. overtaken' = (overtaken \/ p'.status # p.status)
        BY <2>1, <2>2 DEF Overtakes
      <3> QED BY <1>2, <2>1, <2>2, <3>1, <3>2 DEF ToldInv
    <2>3. CASE pcC # "reopen"
      <3>1. StatusOK(p')
        BY <1>0, <1>2, <2>1, <2>3 DEF PlayerInv, ToldInv, StatusOK
      <3> QED BY <2>1, <2>3, <3>1, ToldKept
    <2> QED BY <2>2, <2>3
  <1>5. TypeInv'
    BY <1>4, <1>20 DEF PlayerInv, TypeInv, Threads
  <1>6. LockInv'
    BY <1>0, <1>4 DEF PlayerInv, LockInv, AtEnd
  <1>7. StateInv'
    BY <1>0, <1>2, <1>3, <1>4 DEF PlayerInv, StateInv, AtEnd
  <1>8. HandshakeInv'
    BY DEF PlayerInv, HandshakeInv
  <1>9. RefInv'
    BY <1>3 DEF PlayerInv, RefInv, CallRef, NextRef, CtiRef
  <1> QED BY <1>20, <1>5, <1>6, <1>7, <1>8, <1>9 DEF PlayerInv

-----------------------------------------------------------------------------
(* The theorems. *)

(* Every step of every thread keeps the invariant. *)
LEMMA StepInv == PlayerInv /\ [Next]_vars => PlayerInv'
  <1> SUFFICES ASSUME PlayerInv, [Next]_vars PROVE PlayerInv'
    OBVIOUS
  <1>0. [(Main \/ Consumer \/ Producer) /\ Overtakes]_vars
    BY DEF Next
  <1>1. CASE Main /\ Overtakes
    BY <1>1, SelectInv, CommandInv, PauseInv, UpdateCacheInv, QuitInv, IdleInv, ProvideInv, LoopInv,
       LockCInv, BodiesInv, SeekNextInv, PrebufferInv, ExitInv, JoinInv DEF Main
  <1>2. CASE Consumer /\ Overtakes
    BY <1>2, ConsumerTopInv, WakeInv, FullInv, WriteInv, WriteFailedInv, ReopenInv, UnderrunInv, RecheckInv,
       EofInv, NextTrackInv, LoadInv, ConsumerPrebufferInv DEF Consumer
  <1>3. CASE Producer /\ Overtakes
    BY <1>3, ProducerTopInv, ProducerWakeInv, ReadInv DEF Producer
  <1>4. CASE UNCHANGED vars
    <2> USE <1>4 DEF vars, svars
    <2>1. TypeInv' /\ LockInv' /\ HandshakeInv'
      BY DEF PlayerInv, TypeInv, LockInv, HandshakeInv
    <2>2. StateInv' /\ ToldInv'
      BY DEF PlayerInv, StateInv, ToldInv, StatusOK
    <2>3. RefInv'
      BY DEF PlayerInv, RefInv, CallRef, NextRef, CtiRef
    <2> QED BY <2>1, <2>2, <2>3 DEF PlayerInv
  <1> QED BY <1>0, <1>1, <1>2, <1>3, <1>4

(* player.c, cmus.c: the inductive invariant holds in every reachable      *)
(* state, whatever the commands, the tracks and the answers of the input,  *)
(* the device and the playlist.                                            *)
THEOREM PlayerInvariant == Spec => []PlayerInv
  BY InitInv, StepInv, PTL DEF Spec

(* What the invariant says of references: as many are held as are counted. *)
LEMMA Balanced == PlayerInv => RefsBalanced /\ p.refs \in Nat
  <1> SUFFICES ASSUME PlayerInv PROVE RefsBalanced /\ p.refs \in Nat
    OBVIOUS
  <1>1. p.refs \in Int /\ Others(p) = CallRef + NextRef + CtiRef
    BY DEF PlayerInv, StateInv, RefInv, PState
  <1>2. CallRef \in Nat /\ NextRef \in Nat /\ CtiRef \in Nat
    BY DEF CallRef, NextRef, CtiRef
  <1>3. p.refs = (IF p.ti # NoTrack THEN 1 ELSE 0) + CallRef + NextRef + CtiRef
    BY <1>1, <1>2 DEF Others
  <1>4. p.refs \in Nat
    BY <1>2, <1>3
  <1> QED BY <1>3, <1>4 DEF RefsBalanced, CallRef, NextRef, CtiRef

(* The invariant gives every variable its type. *)
LEMMA InvTypes == PlayerInv => TypeOK
  <1> SUFFICES ASSUME PlayerInv PROVE TypeOK
    OBVIOUS
  <1>1. p \in [ps : {"UNLOADED", "STOPPED", "PLAYING", "PAUSED"},
               cs : {"STOPPED", "PLAYING", "PAUSED"},
               ip : [mem : {"null", "live", "freed"}, track : MaybeTrack,
                     open : BOOLEAN, eof : BOOLEAN],
               buf : [committed : Nat, pending : BOOLEAN], nr : Sizes,
               sf : {"none"} \cup {SfOf[t] : t \in Tracks},
               op : [open : BOOLEAN, paused : BOOLEAN,
                     sf : {"none"} \cup {SfOf[t] : t \in Tracks}],
               ti : MaybeTrack, status : {"STOPPED", "PLAYING", "PAUSED"}, refs : Nat,
               cwait : BOOLEAN, pwait : BOOLEAN]
    <2>1. p \in PState /\ p.refs \in Nat
      BY Balanced DEF PlayerInv, StateInv
    <2> QED BY <2>1 DEF PState, IpType, BufType, OpType, Formats
  <1>2. p.buf.committed <= p.nr
    BY DEF PlayerInv, StateInv, ProducerOK
  <1>3. /\ lockC \in Threads \ {"producer"} /\ lockP \in Threads /\ running \in BOOLEAN
        /\ pcM \in {"select", "serve", "tail", "lockC", "lockP", "prebuffer", "join", "done"}
        /\ call.ti \in MaybeTrack
        /\ ready \in BOOLEAN /\ req \in BOOLEAN /\ snap \in MaybeTrack
        /\ next \in [provided : BOOLEAN, ti : MaybeTrack] /\ cti \in MaybeTrack
        /\ pcP \in {"idle", "wait", "read", "done"} /\ pi \in 0 .. 1 /\ bug \in BOOLEAN
        /\ overtaken \in BOOLEAN
    BY DEF PlayerInv, TypeInv, Threads
  <1>4. pcC \in {"idle", "wait", "inner", "write", "reopen", "lockP", "next", "load",
                    "prebuffer", "done"}
    BY DEF PlayerInv, TypeInv, Writing
  <1> QED BY <1>1, <1>2, <1>3, <1>4 DEF TypeOK

(* The invariant makes a player that nobody is inside of consistent. *)
LEMMA InvConsistent == PlayerInv => Consistent
  <1> SUFFICES ASSUME PlayerInv PROVE Consistent
    OBVIOUS
  <1>1. Settled => Coherent(p)
    BY DEF Settled, PlayerInv, LockInv, StateInv, ToldInv, Coherent, Writing
  <1>2. StatusesAgree
    BY <1>1 DEF StatusesAgree, Coherent, Linked, StatusOK
  <1>3. DeviceMatches
    BY <1>1 DEF DeviceMatches, Coherent, ConsumerOK, Linked, Active
  <1>4. InputOwned
    BY <1>1 DEF InputOwned, Coherent, ProducerOK
  <1> QED BY <1>2, <1>3, <1>4, InvTypes DEF Consistent

(* player.c: whenever consumer_mutex is free, the statuses of consumer and *)
(* producer agree, the device is open in the format of the loaded track    *)
(* exactly while the consumer is not stopped, and exactly one input is     *)
(* allocated while a track is loaded.  The user interface knows the        *)
(* consumer's status, unless a read error published STOPPED in the middle  *)
(* of a reopen (player.c:866-877, 923-934) that succeeded.                 *)
THEOREM PlayerConsistent == Spec => []Consistent
  BY PlayerInvariant, InvConsistent, PTL

(* player.c: no bytes of a track stay in the buffer once it is stopped,    *)
(* replaced or unloaded.                                                   *)
THEOREM PlayerNoStaleBytes == Spec => []NoStaleBytes
  <1>1. PlayerInv => NoStaleBytes
    BY DEF PlayerInv, StateInv, ProducerOK, NoStaleBytes
  <1> QED BY <1>1, PlayerInvariant, PTL

(* player.c, cmus.c: every reference to a track_info the player was given  *)
(* has exactly one owner, so none is leaked and none is dropped twice.     *)
THEOREM PlayerRefsBalanced == Spec => []RefsBalanced
  BY PlayerInvariant, Balanced, PTL

(* player.c: whoever gives a sleeping thread something to do wakes it.     *)
THEOREM PlayerNoLostWakeup == Spec => []NoLostWakeup
  <1>1. PlayerInv => NoLostWakeup
    BY DEF PlayerInv, StateInv, ProducerOK, ConsumerOK, NoLostWakeup
  <1> QED BY <1>1, PlayerInvariant, PTL

(* Once ip_read was called without room, nothing moves the track, the size *)
(* of the buffer or the thread that called it.                             *)
LEMMA BugStep == PlayerInv /\ BugInv /\ [Next]_vars => BugInv'
  <1> SUFFICES ASSUME PlayerInv, BugInv, [Next]_vars PROVE BugInv'
    OBVIOUS
  <1>1. p \in PState /\ ProducerOK(p) /\ ConsumerOK(p)
        /\ (pcM = "prebuffer" \/ pcC = "prebuffer" => p.ps = "PLAYING")
    BY DEF PlayerInv, StateInv
  <1>2. CASE M_prebuffer
    <2>1. PICK o \in prebuffer(p) :
            /\ p' = o.s /\ bug' = o.bug
            /\ IF o.done THEN Leave ELSE UNCHANGED <<lockC, lockP, pcM, call>>
      BY <1>2 DEF M_prebuffer
    <2>2. bug' => /\ p' = p /\ pcM' = pcM
                  /\ p.ip.track \notin Remote /\ LimitOf[p.ip.track] > p.nr
      BY <1>1, <1>2, <2>1, PrebufferRoom DEF M_prebuffer
    <2> QED BY <1>2, <2>2 DEF BugInv, M_prebuffer
  <1>3. CASE C_prebuffer
    <2>1. PICK o \in prebuffer(p) :
            /\ bug' = o.bug
            /\ IF o.done THEN p' = player_status_changed(o.s) /\ CLeave
                         ELSE p' = o.s /\ UNCHANGED <<lockC, lockP, cvars>>
      BY <1>3 DEF C_prebuffer
    <2>2. bug' => /\ p' = p /\ pcC' = pcC
                  /\ p.ip.track \notin Remote /\ LimitOf[p.ip.track] > p.nr
      BY <1>1, <1>3, <2>1, PrebufferRoom DEF C_prebuffer, cvars
    <2> QED BY <1>3, <2>2 DEF BugInv, C_prebuffer
  <1>4. ASSUME Main, ~M_prebuffer PROVE UNCHANGED <<bug, pcC>>
    <2>1. M_command \/ M_body => UNCHANGED <<bug, pcC>>
      BY DEF M_command, M_body, Enter, Body, cvars
    <2> QED BY <1>4, <2>1
       DEF Main, M_select, M_pause, M_update_cache, M_quit, M_idle, cmus_provide_next_track, M_loop,
           M_lockC, M_seek_next, player_exit, M_join, cvars
  <1>5. ASSUME Consumer, ~C_prebuffer PROVE UNCHANGED <<bug, pcM>>
    BY <1>5
       DEF Consumer, C_top, C_wake, C_full, C_write, C_write_failed, C_reopen, C_underrun, C_recheck,
           C_eof, C_next, C_load, CUnchanged, mvars
  <1>6. ASSUME Producer PROVE UNCHANGED <<bug, pcM, pcC>>
    BY <1>6 DEF Producer, P_top, P_wake, P_read, PUnchanged, mvars, cvars
  <1>7. ASSUME bug, Main PROVE p'.ip = p.ip /\ p'.nr = p.nr /\ pcM # "prebuffer"
    <2>1. pcM # "prebuffer"
      BY <1>7 DEF Main, M_select, M_command, Enter, M_pause, M_update_cache, M_quit, M_idle,
                  cmus_provide_next_track, M_loop, M_lockC, M_body, Body, M_seek_next, M_prebuffer,
                  player_exit, M_join
    <2>2. pcC = "prebuffer" /\ lockC = "consumer" /\ pcM # "lockP"
      BY <1>7, <2>1 DEF BugInv, PlayerInv, LockInv, Writing
    <2>3. snap \in MaybeTrack
      BY DEF PlayerInv, TypeInv
    <2>4. \A t \in MaybeTrack : LET r == track_info_ref(p, t)
                               IN r \in PState /\ r.ip = p.ip /\ r.nr = p.nr
      BY <1>1, TrackInfoRef
    <2>5. \A s \in PState, t \in MaybeTrack : file_changed(s, t).ip = s.ip /\ file_changed(s, t).nr = s.nr
      BY FileChanged
    <2>6. NoTrack \in MaybeTrack /\ Tracks \subseteq MaybeTrack
      BY DEF MaybeTrack
    <2>7. CASE M_command
      <3>1. PICK fn \in Calls, t \in MaybeTrack : Enter(fn, t)
        BY <2>6, <2>7 DEF M_command, Calls
      <3> QED BY <2>1, <2>4, <3>1 DEF Enter
    <2>8. CASE M_update_cache
      BY <2>1, <2>3, <2>4, <2>5, <2>8 DEF M_update_cache
    <2>9. CASE cmus_provide_next_track
      BY <2>1, <2>4, <2>9 DEF cmus_provide_next_track, cmus_get_next_from_main_thread
    <2>10. CASE M_select \/ M_pause \/ M_quit \/ M_idle \/ M_loop \/ M_join
      BY <2>1, <2>10 DEF M_select, M_pause, M_quit, M_idle, M_loop, M_join
    <2>11. ~(M_lockC \/ M_body \/ M_seek_next \/ M_prebuffer \/ player_exit)
      BY <2>1, <2>2 DEF M_lockC, M_body, Body, M_seek_next, M_prebuffer, player_exit, Free
    <2> QED BY <1>7, <2>7, <2>8, <2>9, <2>10, <2>11 DEF Main
  <1>8. bug => ~Consumer
    <2> SUFFICES ASSUME bug, Consumer PROVE FALSE
      OBVIOUS
    <2>1. pcC # "prebuffer"
      BY DEF Consumer, C_top, C_wake, C_full, C_write, C_write_failed, C_reopen, C_underrun, C_recheck,
             C_eof, C_next, C_load, C_prebuffer
    <2>2. lockC = "main" /\ pcC \notin Writing
      BY <2>1 DEF BugInv, PlayerInv, LockInv
    <2> QED BY <2>2 DEF Writing, Free, Consumer, C_top, C_wake, C_full, C_write, C_write_failed, C_reopen,
                       C_underrun, C_recheck, C_eof, C_next, C_load, C_prebuffer
  <1>9. bug => ~Producer
    <2>1. bug => lockP \in {"main", "consumer"} /\ pcP # "read"
      BY DEF BugInv, PlayerInv, LockInv, AtEnd
    <2> QED BY <2>1 DEF Producer, P_top, P_wake, P_read, Free
  <1>10. ASSUME Main, ~M_prebuffer PROVE BugInv'
    BY <1>4, <1>7, <1>10 DEF BugInv
  <1>11. ASSUME Consumer, ~C_prebuffer PROVE BugInv'
    BY <1>5, <1>8, <1>11 DEF BugInv
  <1>12. ASSUME Producer PROVE BugInv'
    BY <1>6, <1>9, <1>12 DEF BugInv
  <1>13. CASE UNCHANGED vars
    BY <1>13 DEF BugInv, vars, svars
  <1> QED BY <1>2, <1>3, <1>10, <1>11, <1>12, <1>13 DEF Next

(* player.c:568, input.c:656: _prebuffer runs only on a playing producer,  *)
(* and ip_read has room for a byte but when 250 ms of a local track need   *)
(* more chunks than the buffer has (player.c:590): for any limits and any  *)
(* sizes of the buffer.                                                    *)
THEOREM PlayerBugOnsHold == Spec => []BugOnsHold
  <1>1. Init => BugInv
    BY DEF Init, BugInv
  <1>2. PlayerInv /\ BugInv => BugOnsHold
    BY DEF PlayerInv, StateInv, BugInv, BugOnsHold
  <1> QED BY <1>1, <1>2, BugStep, PlayerInvariant, PTL DEF Spec
=============================================================================
