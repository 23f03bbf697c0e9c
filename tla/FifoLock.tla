------------------------------ MODULE FifoLock ------------------------------
(***************************************************************************)
(* What the fifo mutex of locking.c promises: a lock that is granted in    *)
(* the order in which the threads asked for it.                            *)
(***************************************************************************)
EXTENDS Naturals, Sequences

CONSTANTS Threads, None

VARIABLES
  owner,  \* the thread that has the lock, or None
  queue   \* the threads that have asked for it, in order

fvars == <<owner, queue>>

FInit == owner = None /\ queue = <<>>

(* The thread has no other request open; the owner asks again only after   *)
(* it has released the lock.                                               *)
Ask(t) ==
  /\ owner # t
  /\ \A i \in 1 .. Len(queue) : queue[i] # t
  /\ queue' = Append(queue, t)
  /\ UNCHANGED owner

Grant ==
  /\ owner = None
  /\ queue # <<>>
  /\ owner' = Head(queue)
  /\ queue' = Tail(queue)

Release ==
  /\ owner # None
  /\ owner' = None
  /\ UNCHANGED queue

FNext == (\E t \in Threads : Ask(t)) \/ Grant \/ Release

FSpec == FInit /\ [][FNext]_fvars
=============================================================================
