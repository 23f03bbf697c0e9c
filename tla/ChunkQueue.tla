----------------------------- MODULE ChunkQueue -----------------------------
(***************************************************************************)
(* What buffer.c promises to the player: a bounded queue of chunks.  The   *)
(* producer adds bytes to a pending chunk, which the consumer cannot see   *)
(* until it is committed; the consumer takes committed chunks one by one;  *)
(* a reset empties everything and may change the capacity.  The player     *)
(* (module Player) is written against this abstraction; module Buffer is   *)
(* shown to implement it.                                                  *)
(***************************************************************************)
EXTENDS Naturals

CONSTANT Capacities   \* the capacities a reset may choose from

VARIABLES
  capacity,   \* number of chunks
  committed,  \* number of chunks the consumer can read
  pending     \* the producer's chunk holds bytes that are not committed

cvars == <<capacity, committed, pending>>

CInit ==
  /\ capacity \in Capacities
  /\ committed = 0
  /\ pending = FALSE

(* Bytes join the producer's chunk and stay invisible to the consumer. *)
AddPending ==
  /\ committed < capacity
  /\ pending' = TRUE
  /\ UNCHANGED <<capacity, committed>>

(* The producer's chunk becomes readable: it is full, or the track ended. *)
Commit ==
  /\ committed < capacity
  /\ committed' = committed + 1
  /\ pending' = FALSE
  /\ UNCHANGED capacity

(* The consumer has emptied a chunk. *)
Take ==
  /\ committed > 0
  /\ committed' = committed - 1
  /\ UNCHANGED <<capacity, pending>>

Clear(n) ==
  /\ capacity' = n
  /\ committed' = 0
  /\ pending' = FALSE

CNext ==
  \/ AddPending \/ Commit \/ Take
  \/ \E n \in Capacities : Clear(n)

CSpec == CInit /\ [][CNext]_cvars
=============================================================================
