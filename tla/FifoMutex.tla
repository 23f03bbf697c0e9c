------------------------------ MODULE FifoMutex ------------------------------
(***************************************************************************)
(* The fifo mutex of locking.c, which protects the track cache: a pthread  *)
(* mutex with a queue in front of it.  The queue is a linked list of       *)
(* records on the stacks of the waiting threads; a thread joins it with    *)
(* one atomic exchange of the tail, before it holds anything.  Each atomic *)
(* operation, mutex operation or wait is a step.                           *)
(*                                                                         *)
(* A thread's record is live from the exchange until the thread has the    *)
(* lock; it is named after the thread.                                     *)
(***************************************************************************)
EXTENDS Naturals, Sequences

CONSTANTS
  Threads,
  None,             \* NULL
  SpuriousWakeups   \* whether pthread_cond_wait may return without a signal

ASSUME NoneAssumption == None \notin Threads /\ SpuriousWakeups \in BOOLEAN

VARIABLES
  tail,     \* fifo->tail
  head,     \* fifo->head
  mutex,    \* the holder of fifo->mutex
  next,     \* next[t]: self.next of t's record
  old,      \* old[t]: old_tail of t
  signal,   \* signal[t]: t's condition variable was signalled
  pc,
  asked     \* history: the threads in the queue, in the order they joined it

vars == <<tail, head, mutex, next, old, signal, pc, asked>>

MaybeThread == Threads \cup {None}

Init ==
  /\ tail = None /\ head = None /\ mutex = None
  /\ next = [t \in Threads |-> None]
  /\ old = [t \in Threads |-> None]
  /\ signal = [t \in Threads |-> FALSE]
  /\ pc = [t \in Threads |-> "out"]
  /\ asked = <<>>

Goto(t, l) == pc' = [pc EXCEPT ![t] = l]

(* Fault_* definitions are faulty variants of the definition that follows. *)
Fault_BargeIn(t) ==
  /\ pc[t] \in {"out", "again"}
  /\ IF mutex = None
     THEN /\ mutex' = t
          /\ Goto(t, "in")
          /\ UNCHANGED <<old, tail, next, signal, asked>>
     ELSE /\ old' = [old EXCEPT ![t] = tail]
          /\ tail' = t
          /\ next' = [next EXCEPT ![t] = None]
          /\ signal' = [signal EXCEPT ![t] = FALSE]
          /\ asked' = Append(asked, t)
          /\ Goto(t, IF tail = None THEN "mutex" ELSE "link")
          /\ UNCHANGED mutex
  /\ UNCHANGED head

(* fifo_mutex_lock: a fresh record, and the exchange of the tail.  A       *)
(* thread that yields is at "again".                                       *)
Exchange(t) ==
  /\ pc[t] \in {"out", "again"}
  /\ old' = [old EXCEPT ![t] = tail]
  /\ tail' = t
  /\ next' = [next EXCEPT ![t] = None]
  /\ signal' = [signal EXCEPT ![t] = FALSE]
  /\ asked' = Append(asked, t)
  /\ Goto(t, IF tail = None THEN "mutex" ELSE "link")
  /\ UNCHANGED <<head, mutex>>

(* The predecessor's record learns of its successor. *)
Link(t) ==
  /\ pc[t] = "link"
  /\ next' = [next EXCEPT ![old[t]] = t]
  /\ Goto(t, "mutex")
  /\ UNCHANGED <<tail, head, mutex, old, signal, asked>>

Acquire(t) ==
  /\ pc[t] = "mutex"
  /\ mutex = None
  /\ mutex' = t
  /\ Goto(t, IF old[t] = None THEN "cas" ELSE "check")
  /\ UNCHANGED <<tail, head, next, old, signal, asked>>

(* while (fifo->head != &self) pthread_cond_wait(...) *)
Check(t) ==
  /\ pc[t] = "check"
  /\ \/ /\ head = t
        /\ Goto(t, "cas")
        /\ UNCHANGED <<mutex, signal>>
     \/ /\ head # t
        /\ Goto(t, "wait")
        /\ mutex' = None
        /\ signal' = [signal EXCEPT ![t] = FALSE]
  /\ UNCHANGED <<tail, head, next, old, asked>>

(* The wait returns with the mutex. *)
Wake(t) ==
  /\ pc[t] = "wait" /\ signal[t]
  /\ mutex = None
  /\ mutex' = t
  /\ Goto(t, "check")
  /\ UNCHANGED <<tail, head, next, old, signal, asked>>

Fault_WaitNotRepeated(t) ==
  /\ SpuriousWakeups
  /\ pc[t] = "wait" /\ ~signal[t]
  /\ mutex = None
  /\ mutex' = t
  /\ Goto(t, "cas")
  /\ UNCHANGED <<tail, head, next, old, signal, asked>>

WakeSpuriously(t) ==
  /\ SpuriousWakeups
  /\ pc[t] = "wait" /\ ~signal[t]
  /\ mutex = None
  /\ mutex' = t
  /\ Goto(t, "check")
  /\ UNCHANGED <<tail, head, next, old, signal, asked>>

Enter(t) ==
  /\ Goto(t, "in")
  /\ asked' = Tail(asked)

(* The last in the queue leaves it empty; otherwise its successor follows. *)
CompareExchange(t) ==
  /\ pc[t] = "cas"
  /\ \/ /\ tail = t
        /\ tail' = None
        /\ head' = None
        /\ Enter(t)
     \/ /\ tail # t
        /\ Goto(t, "spin")
        /\ UNCHANGED <<tail, head, asked>>
  /\ UNCHANGED <<mutex, next, old, signal>>

Fault_NoSpin(t) ==
  /\ pc[t] = "spin"
  /\ head' = next[t]
  /\ Enter(t)
  /\ UNCHANGED <<tail, mutex, next, old, signal>>

(* The successor may have exchanged the tail but not linked itself yet. *)
Spin(t) ==
  /\ pc[t] = "spin"
  /\ next[t] # None
  /\ head' = next[t]
  /\ Enter(t)
  /\ UNCHANGED <<tail, mutex, next, old, signal>>

Fault_SignalTail ==
  signal' = IF tail = None THEN signal ELSE [signal EXCEPT ![tail] = TRUE]

(* if (fifo->head) pthread_cond_signal(&fifo->head->cond) *)
SignalHead ==
  signal' = IF head = None THEN signal ELSE [signal EXCEPT ![head] = TRUE]

Fault_UnlockKeepsMutex(t) ==
  /\ pc[t] = "in"
  /\ SignalHead
  /\ Goto(t, "out")
  /\ UNCHANGED <<tail, head, mutex, next, old, asked>>

fifo_mutex_unlock(t) ==
  /\ pc[t] = "in"
  /\ SignalHead
  /\ mutex' = None
  /\ Goto(t, "out")
  /\ UNCHANGED <<tail, head, next, old, asked>>

(* Only with somebody waiting: unlock, then lock again. *)
fifo_mutex_yield(t) ==
  /\ pc[t] = "in"
  /\ head # None \/ tail # None
  /\ SignalHead
  /\ mutex' = None
  /\ Goto(t, "again")
  /\ UNCHANGED <<tail, head, next, old, asked>>

Step(t) ==
  \/ Link(t) \/ Acquire(t) \/ Check(t) \/ Wake(t) \/ CompareExchange(t) \/ Spin(t)
  \/ fifo_mutex_unlock(t) \/ fifo_mutex_yield(t)

Next ==
  \E t \in Threads : Exchange(t) \/ Step(t) \/ WakeSpuriously(t)

Spec == Init /\ [][Next]_vars

(* A thread inside fifo_mutex_lock keeps running, the cache is locked for  *)
(* a finite time, and waits do not end spuriously for ever.  The pthread   *)
(* mutex itself need not be fair.                                          *)
FairSpec ==
  /\ Spec
  /\ \A t \in Threads : WF_vars(Step(t)) /\ WF_vars(pc[t] = "again" /\ Exchange(t))
  /\ <>[][\A t \in Threads : ~WakeSpuriously(t)]_vars

-----------------------------------------------------------------------------
Labels == {"out", "again", "link", "mutex", "check", "wait", "cas", "spin", "in"}

TypeOK ==
  /\ tail \in MaybeThread /\ head \in MaybeThread /\ mutex \in MaybeThread
  /\ next \in [Threads -> MaybeThread] /\ old \in [Threads -> MaybeThread]
  /\ signal \in [Threads -> BOOLEAN]
  /\ pc \in [Threads -> Labels]
  /\ asked \in Seq(Threads)
  /\ \A t \in Threads : mutex = t <=> pc[t] \in {"check", "cas", "spin", "in"}

(* t's record is still on its stack. *)
Live(t) == pc[t] \in {"link", "mutex", "check", "wait", "cas", "spin"}

(* No thread follows a pointer to the stack of a thread that has already   *)
(* returned from fifo_mutex_lock: not through the tail, nor through the    *)
(* head that unlock signals, nor when it links itself to its predecessor.  *)
NoDanglingRecord ==
  /\ tail # None => Live(tail)
  /\ head # None => Live(head)
  /\ \A t \in Threads : pc[t] = "link" => Live(old[t])

(* Whoever sleeps although it is its turn has a signal on the way. *)
NoLostSignal ==
  \A t \in Threads :
    pc[t] = "wait" /\ head = t /\ ~signal[t] => \E u \in Threads : pc[u] = "in"

(* The queue's records are alive while they are used and their owners are  *)
(* woken.                                                                  *)
RecordsSound == TypeOK /\ NoDanglingRecord /\ NoLostSignal

Owner == IF mutex # None /\ pc[mutex] = "in" THEN mutex ELSE None

FL == INSTANCE FifoLock WITH owner <- Owner, queue <- asked

(* The lock is granted in the order of the exchanges, though the threads   *)
(* then compete for the pthread mutex in any order.                        *)
ImplementsFifoLock == FL!FSpec

(* Nobody starves: a thread in the queue gets the lock. *)
EveryoneEnters == \A t \in Threads : pc[t] = "mutex" ~> pc[t] = "in"
=============================================================================
