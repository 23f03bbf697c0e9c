----------------------------- MODULE MCEditable -----------------------------
(***************************************************************************)
(* A list of up to three tracks with two sort keys, in windows of one to   *)
(* three rows: lists shorter, as long as and longer than the window.       *)
(***************************************************************************)
EXTENDS Editable

CONSTANTS t1, t2, t3

MCTracks == {t1, t2, t3}
MCSymmetry == Permutations(Tracks)
=============================================================================
