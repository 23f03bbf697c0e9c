------------------------------- MODULE Output -------------------------------
(***************************************************************************)
(* The audio device behind the player (output.c, plugins/output/alsa.c)    *)
(* and the software volume (player.c).  Module Player knows the device as  *)
(* open or closed; here it is an ALSA device with its states and a ring of *)
(* HwSize units, and every call that the player makes to it is followed.   *)
(*                                                                         *)
(* Bytes of a track are units, numbered from its start.                    *)
(***************************************************************************)
EXTENDS Integers

CONSTANTS
  HwSize,     \* units that fit into the device
  TrackSize   \* bound: units of a track

ASSUME OutputAssumption == HwSize \in Nat \ {0} /\ TrackSize \in Nat

VARIABLES
  consumer,   \* consumer_status
  dev,        \* the device: its state and the units in it
  canPause,   \* alsaCanPause
  cpos,       \* consumer_pos
  spos,       \* scale_pos
  times,      \* how often each unit in the player's buffer was scaled; at most 2
  vol,        \* the options soft_vol and replaygain
  calm,       \* the options did not change while scaled units were waiting
  wrong       \* a unit went to the device scaled not at all, or twice

avars == <<consumer, dev, canPause, cpos, spos, times, vol, calm, wrong>>
scaling == <<cpos, spos, times, vol, calm, wrong>>

Units == 0 .. TrackSize - 1
Enabled == vol.soft \/ vol.gain

-----------------------------------------------------------------------------
(* The ALSA library: what its calls do to the device.                      *)

Closed   == [state |-> "CLOSED", hw |-> 0]
Prepared == [state |-> "PREPARED", hw |-> 0]
Setup    == [state |-> "SETUP", hw |-> 0]

(* snd_pcm_recover, after an underrun or when the system slept *)
snd_pcm_recover(d) == IF d.state \in {"XRUN", "SUSPENDED"} THEN Prepared ELSE d

(* snd_pcm_wait(-1) returns when a unit fits or the device has stopped:    *)
(* how the device may be by then; a device that does not play never makes  *)
(* room.                                                                   *)
snd_pcm_wait(d) ==
  IF d.state = "RUNNING"
  THEN {[d EXCEPT !.hw = n] : n \in 1 .. (IF d.hw < HwSize THEN d.hw ELSE HwSize - 1)}
         \cup {[state |-> "XRUN", hw |-> 0]}
  ELSE IF d.hw < HwSize THEN {d} ELSE {[d EXCEPT !.state = "STUCK"]}

snd_pcm_pause(d, on) ==
  IF on /\ d.state = "RUNNING" THEN [d EXCEPT !.state = "PAUSED"]
  ELSE IF ~on /\ d.state = "PAUSED" THEN [d EXCEPT !.state = "RUNNING"]
  ELSE d

(* Fault_* definitions are faulty variants of the definition that follows. *)
op_alsa_open  == {Prepared, Closed}
op_alsa_close == Closed
Fault_DropOnly == Setup
op_alsa_drop == Prepared

Fault_PauseAtOnce(d) ==
  IF ~canPause THEN {Setup} ELSE {snd_pcm_pause(d, TRUE)}

op_alsa_pause(d) ==
  IF ~canPause THEN {Setup}
  ELSE IF d.state = "RUNNING" THEN {snd_pcm_pause(w, TRUE) : w \in snd_pcm_wait(d)}
  ELSE {d}

op_alsa_unpause(d) ==
  IF ~canPause THEN {Prepared}
  ELSE IF d.state = "PAUSED" THEN {snd_pcm_pause(w, FALSE) : w \in snd_pcm_wait(d)}
  ELSE {d}

-----------------------------------------------------------------------------
AudioInit ==
  /\ consumer = "STOPPED" /\ dev = Closed /\ canPause \in BOOLEAN
  /\ cpos = 0 /\ spos = 0 /\ times = [u \in Units |-> 0]
  /\ vol = [soft |-> FALSE, gain |-> FALSE] /\ calm = TRUE /\ wrong = FALSE

Active == consumer # "STOPPED"

(* reset_buffer, and the position a seek sets *)
reset_buffer(pos) ==
  /\ cpos' = pos /\ spos' = pos /\ times' = [u \in Units |-> 0] /\ calm' = TRUE
  /\ UNCHANGED <<vol, wrong>>

(* The device was opened or not. *)
Opened(status) == consumer' = IF dev' = Closed THEN "STOPPED" ELSE status

(* _consumer_play when stopped, where _producer_play may have started the  *)
(* track anew, or paused; _consumer_pause, _consumer_stop                  *)
consumer_play ==
  /\ \/ /\ consumer = "STOPPED" /\ dev' \in op_alsa_open /\ Opened("PLAYING")
        /\ reset_buffer(0) \/ UNCHANGED scaling
     \/ consumer = "PAUSED" /\ dev' \in op_alsa_unpause(dev) /\ consumer' = "PLAYING" /\ UNCHANGED scaling
  /\ UNCHANGED canPause

consumer_pause ==
  /\ consumer = "PLAYING" /\ consumer' = "PAUSED"
  /\ dev' \in op_alsa_pause(dev)
  /\ UNCHANGED <<canPause, scaling>>

consumer_stop ==
  /\ Active /\ consumer' = "STOPPED"
  /\ dev' = op_alsa_close
  /\ reset_buffer(0)
  /\ UNCHANGED canPause

(* change_sf after player_set_file and player_play_file dropped what is in *)
(* the device, and at the end of a track: the device is opened again for   *)
(* another format; a paused player plays.                                  *)
change_sf(drop) ==
  /\ IF drop THEN Active ELSE consumer = "PLAYING"
  /\ \/ dev' \in op_alsa_open /\ Opened("PLAYING")
     \/ /\ consumer' = "PLAYING"
        /\ IF consumer = "PAUSED" THEN dev' \in op_alsa_unpause(op_alsa_drop)
           ELSE dev' = IF drop THEN op_alsa_drop ELSE dev
  /\ reset_buffer(0)
  /\ UNCHANGED canPause

(* player_seek; from stopped it opens the device first, and pauses again   *)
(* unless it is to play.                                                   *)
player_seek(pos) ==
  /\ \/ Active /\ dev' = op_alsa_drop /\ UNCHANGED consumer
     \/ ~Active /\ dev' \in op_alsa_open /\ Opened("PLAYING")
     \/ ~Active /\ dev' \in op_alsa_pause(op_alsa_drop) /\ consumer' = "PAUSED"
  /\ reset_buffer(pos)
  /\ UNCHANGED canPause

(* player_set_op: the device is closed and opened, and paused again *)
player_set_op ==
  /\ Active
  /\ \/ dev' = Closed /\ consumer' = "STOPPED" /\ reset_buffer(0)
     \/ dev' \in (IF consumer = "PAUSED" THEN op_alsa_pause(Prepared) ELSE {Prepared})
        /\ UNCHANGED <<consumer, scaling>>
  /\ UNCHANGED canPause

(* op_buffer_space or op_write failed: "try to reopen" *)
Reopen ==
  /\ consumer = "PLAYING"
  /\ dev' \in op_alsa_open /\ Opened("PLAYING")
  /\ UNCHANGED <<canPause, scaling>>

-----------------------------------------------------------------------------
(* SCALE_SAMPLES and scale_samples_s24le: every sample of the unit, once.  *)
SCALE_SAMPLES(n) == IF n < 2 THEN n + 1 ELSE n

(* scale_samples of the size units from consumer_pos on; those before      *)
(* scale_pos were scaled already.                                          *)
scale_samples(size) ==
  IF spos >= cpos + size THEN UNCHANGED <<spos, times>>
  ELSE /\ spos' = cpos + size
       /\ times' = [u \in Units |->
                      IF u \in spos .. cpos + size - 1 THEN SCALE_SAMPLES(times[u]) ELSE times[u]]

(* consumer_loop: op_buffer_space, scale_samples, op_write, which takes a  *)
(* part of the units or all; the device starts with the first.             *)
Write(size, rc) ==
  LET d == snd_pcm_recover(dev)
  IN /\ consumer = "PLAYING" /\ rc <= size
     /\ size <= HwSize - d.hw /\ cpos + size <= TrackSize
     /\ IF Enabled THEN scale_samples(size) ELSE UNCHANGED <<spos, times>>
     /\ cpos' = cpos + rc
     /\ dev' = IF rc = 0 THEN d ELSE [state |-> "RUNNING", hw |-> d.hw + rc]
     /\ wrong' = (wrong \/ (calm /\ \E u \in cpos .. cpos + rc - 1 :
                              times'[u] # IF Enabled THEN 1 ELSE 0))
     /\ UNCHANGED <<consumer, canPause, vol, calm>>

Fault_EnableKeepsScalePos(o) ==
  /\ vol' = [vol EXCEPT ![o] = ~@]
  /\ calm' = (calm /\ spos <= cpos)
  /\ UNCHANGED <<consumer, dev, canPause, cpos, spos, times, wrong>>

(* scale_pos is left alone if one of the two options was enabled. *)
player_set_soft_vol(o) ==
  /\ vol' = [vol EXCEPT ![o] = ~@]
  /\ spos' = IF Enabled THEN spos ELSE cpos
  /\ calm' = (calm /\ spos <= cpos)
  /\ UNCHANGED <<consumer, dev, canPause, cpos, times, wrong>>

player_set_rg == player_set_soft_vol("gain")

(* The hardware plays a unit, runs dry, or is put to sleep. *)
Hardware ==
  /\ dev.state = "RUNNING"
  /\ dev' = IF dev.hw > 1 THEN [dev EXCEPT !.hw = @ - 1] ELSE [state |-> "XRUN", hw |-> 0]
  /\ UNCHANGED <<consumer, canPause, scaling>>

Suspend ==
  /\ dev.state = "RUNNING"
  /\ dev' = [dev EXCEPT !.state = "SUSPENDED"]
  /\ UNCHANGED <<consumer, canPause, scaling>>

AudioNext ==
  \/ consumer_play \/ consumer_pause \/ consumer_stop \/ player_set_op \/ Reopen
  \/ (\E drop \in BOOLEAN : change_sf(drop)) \/ (\E pos \in Units : player_seek(pos))
  \/ \E size \in 1 .. HwSize, rc \in 0 .. HwSize : Write(size, rc)
  \/ player_set_soft_vol("soft") \/ player_set_rg
  \/ Hardware \/ Suspend

AudioSpec == AudioInit /\ [][AudioNext]_avars

-----------------------------------------------------------------------------
(* The device follows the player whatever the order of commands, underruns *)
(* and sleeps: it sounds only while playing, it can take samples whenever  *)
(* the player plays, and the endless waits of pause and unpause, made with *)
(* both of the player's mutexes held, come to an end.                      *)
DeviceFollows ==
  /\ dev.state # "STUCK"
  /\ consumer = "PLAYING" => dev.state \notin {"CLOSED", "SETUP", "PAUSED"}
  /\ consumer = "PAUSED"  => dev.state \notin {"CLOSED", "RUNNING"}
  /\ consumer = "STOPPED" => dev = Closed

(* With soft_vol or replaygain every unit is scaled exactly once before    *)
(* the device gets it, although the device may take a part of what was     *)
(* scaled and the player seeks, stops and changes tracks meanwhile; the    *)
(* assertion of scale_samples (player.c:290) holds.  The options may       *)
(* change at any time, but the units that were scaled and not yet taken    *)
(* when they do are left out.                                              *)
ScaledOnce == ~wrong /\ (Enabled => spos >= cpos)

(* From the player's status and volume to the device: it follows the       *)
(* consumer, and what is written to it was scaled exactly once.            *)
OutputSound == DeviceFollows /\ ScaledOnce
=============================================================================
