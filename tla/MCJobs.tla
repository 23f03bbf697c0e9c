------------------------------- MODULE MCJobs -------------------------------
(***************************************************************************)
(* Two playlists beside the library and the queue, one of which stays as   *)
(* it is (the last playlist cannot be deleted); jobs of up to two files in *)
(* batches of one, so that a job needs more than one result.               *)
(***************************************************************************)
EXTENDS Jobs

CONSTANTS pl1, pl2

MCPlaylists == {pl1, pl2}
MCUsed == {pl1}
MCSorted == {"lib"}
=============================================================================
