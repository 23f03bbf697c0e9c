----------------------------- MODULE MCFifoMutex -----------------------------
(***************************************************************************)
(* The fifo mutex with three threads: the program has two that lock the    *)
(* cache, a third makes a queue behind a waiting thread.                   *)
(***************************************************************************)
EXTENDS FifoMutex

CONSTANTS t1, t2, t3
=============================================================================
