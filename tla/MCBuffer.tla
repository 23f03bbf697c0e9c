------------------------------ MODULE MCBuffer ------------------------------
(***************************************************************************)
(* The instance of Buffer that TLC explores: rings of one, two and three   *)
(* chunks of four bytes, of which the last two may stay unused (a chunk    *)
(* with fewer than MinFree = 2 free bytes is closed), and enough bytes to  *)
(* fill the largest ring and wrap around.                                  *)
(***************************************************************************)
EXTENDS Buffer

MCSizes == 1 .. 3
=============================================================================
