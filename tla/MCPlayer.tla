------------------------------ MODULE MCPlayer ------------------------------
(***************************************************************************)
(* Instances of Player: two local tracks in different sample formats and a *)
(* remote stream in the format of the first.                               *)
(***************************************************************************)
EXTENDS Player

CONSTANTS trackA, trackB, stream

MCTracks == {trackA, trackB}
MCRemote == {}
MCAllTracks == {trackA, trackB, stream}
MCAllRemote == {stream}
MCSfOf == [t \in Tracks |-> IF t = trackB THEN "96k" ELSE "44k"]

(* 250 ms of 192 kHz, 24 bit stereo are 288000 bytes: 4 chunks of 60 KiB,  *)
(* where a buffer of one second has 3.  Track B is such a file: it needs   *)
(* more chunks than the smaller of the two buffer sizes has.               *)
MCLimitOf == [t \in Tracks |-> IF t = trackB THEN 3 ELSE 1]

(* The files of the liveness runs fit into the buffer: a BUG_ON that fires *)
(* ends the program.                                                       *)
MCFittingLimitOf == [t \in Tracks |-> IF t = trackB THEN 2 ELSE 1]
=============================================================================
