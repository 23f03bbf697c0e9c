-------------------------- MODULE FifoMutex_proofs --------------------------
(***************************************************************************)
(* Proofs about the fifo mutex, for any set of threads: the records on the *)
(* stacks form one queue in the order of the exchanges, no pointer to one  *)
(* dangles, no signal is lost, and the lock is granted in that order.      *)
(***************************************************************************)
EXTENDS FifoMutex, TLAPS

(* The inductive invariant: the queue of history, asked, is the linked     *)
(* list in the records.                                                    *)

(* It holds the threads with live records, once each, and ends at tail. *)
QueueInv ==
  /\ \A i, j \in 1 .. Len(asked) : asked[i] = asked[j] => i = j
  /\ \A t \in Threads : Live(t) <=> \E i \in 1 .. Len(asked) : asked[i] = t
  /\ asked = <<>> => tail = None
  /\ asked # <<>> => tail = asked[Len(asked)]

(* Each record knows its predecessor, and its successor once that has      *)
(* linked itself.                                                          *)
LinkInv ==
  /\ \A i \in 1 .. Len(asked) - 1 :
       /\ old[asked[i + 1]] = asked[i]
       /\ pc[asked[i + 1]] # "link" => next[asked[i]] = asked[i + 1]
       /\ pc[asked[i + 1]] = "link" => next[asked[i]] = None
  /\ asked # <<>> => next[asked[Len(asked)]] = None

(* The first in the queue is head, unless it found the queue empty. *)
HeadInv ==
  /\ asked = <<>> => head = None
  /\ asked # <<>> =>
       /\ pc[asked[1]] # "link"
       /\ old[asked[1]] = None => head = None
       /\ old[asked[1]] # None => head = asked[1]

(* Only the first in the queue gets past the wait. *)
TurnInv ==
  \A t \in Threads : pc[t] \in {"cas", "spin"} => asked # <<>> /\ asked[1] = t

IInv == TypeOK /\ QueueInv /\ LinkInv /\ HeadInv /\ TurnInv

-----------------------------------------------------------------------------
(* Sequences: what is needed of Append, Tail and the empty sequence. *)
LEMMA AppendFacts ==
  ASSUME NEW S, NEW s \in Seq(S), NEW e \in S
  PROVE  /\ Append(s, e) \in Seq(S)
         /\ Append(s, e) # <<>>
         /\ Len(Append(s, e)) = Len(s) + 1
         /\ \A i \in 1 .. Len(s) : Append(s, e)[i] = s[i]
         /\ Append(s, e)[Len(s) + 1] = e
  OBVIOUS

(* The tail shifts every element by one. *)
LEMMA TailFacts ==
  ASSUME NEW S, NEW s \in Seq(S), s # <<>>
  PROVE  /\ Tail(s) \in Seq(S)
         /\ Len(Tail(s)) = Len(s) - 1
         /\ \A i \in 1 .. Len(s) - 1 : Tail(s)[i] = s[i + 1]
  <1>1. Len(s) \in Nat /\ Len(s) # 0
    OBVIOUS
  <1>2. Tail(s) \in Seq(S)
    BY <1>1
  <1>3. Len(Tail(s)) = Len(s) - 1
    BY <1>1
  <1>4. \A i \in 1 .. Len(s) - 1 : Tail(s)[i] = s[i + 1]
    BY <1>1
  <1> QED BY <1>2, <1>3, <1>4

(* Elements of a sequence, and its head. *)
LEMMA SeqFacts ==
  ASSUME NEW S, NEW s \in Seq(S)
  PROVE  /\ Len(s) \in Nat
         /\ s = <<>> <=> Len(s) = 0
         /\ \A i \in 1 .. Len(s) : s[i] \in S
         /\ s # <<>> => Head(s) = s[1] /\ s[1] \in S /\ Len(s) >= 1
  OBVIOUS

(* Initially the queue is empty. *)
LEMMA InitIInv == Init => IInv
  <1> SUFFICES ASSUME Init PROVE IInv
    OBVIOUS
  <1> USE NoneAssumption DEF Init
  <1>1. TypeOK
    BY DEF TypeOK, MaybeThread, Labels
  <1>2. QueueInv
    BY DEF QueueInv, Live
  <1>3. LinkInv /\ HeadInv /\ TurnInv
    BY DEF LinkInv, HeadInv, TurnInv
  <1> QED BY <1>1, <1>2, <1>3 DEF IInv

-----------------------------------------------------------------------------
(* A thread joins at the end of the queue. *)
LEMMA ExchangeIInv ==
  ASSUME IInv, NEW t \in Threads, Exchange(t)
  PROVE  IInv'
  <1> USE NoneAssumption DEF IInv
  <1>0. /\ ~Live(t) /\ asked \in Seq(Threads) /\ Len(asked) \in Nat
        /\ asked' = Append(asked, t)
        /\ \A i \in 1 .. Len(asked) : asked[i] # t /\ asked[i] \in Threads
    BY SeqFacts DEF Exchange, Live, TypeOK, QueueInv
  <1>1. /\ asked' \in Seq(Threads) /\ asked' # <<>> /\ Len(asked') = Len(asked) + 1
        /\ \A i \in 1 .. Len(asked) : asked'[i] = asked[i]
        /\ asked'[Len(asked) + 1] = t
    BY <1>0, AppendFacts
  <1>2. /\ pc' = [pc EXCEPT ![t] = IF tail = None THEN "mutex" ELSE "link"]
        /\ old' = [old EXCEPT ![t] = tail]
        /\ next' = [next EXCEPT ![t] = None]
        /\ tail' = t /\ head' = head /\ mutex' = mutex
        /\ pc \in [Threads -> Labels] /\ old \in [Threads -> MaybeThread]
        /\ next \in [Threads -> MaybeThread]
    BY DEF Exchange, Goto, TypeOK
  <1>3. asked = <<>> <=> Len(asked) = 0
    BY <1>0, SeqFacts
  <1>4. TypeOK'
    BY <1>1, <1>2 DEF TypeOK, Exchange, Labels, MaybeThread
  <1>5. QueueInv'
    <2>1. \A i, j \in 1 .. Len(asked') : asked'[i] = asked'[j] => i = j
      BY <1>0, <1>1 DEF QueueInv
    <2>2. \A u \in Threads : Live(u)' <=> \E i \in 1 .. Len(asked') : asked'[i] = u
      BY <1>0, <1>1, <1>2 DEF QueueInv, Live
    <2> QED BY <2>1, <2>2, <1>1, <1>2 DEF QueueInv
  <1>6. LinkInv'
    <2> SUFFICES ASSUME NEW i \in 1 .. Len(asked') - 1
                 PROVE  /\ old'[asked'[i + 1]] = asked'[i]
                        /\ pc'[asked'[i + 1]] # "link" => next'[asked'[i]] = asked'[i + 1]
                        /\ pc'[asked'[i + 1]] = "link" => next'[asked'[i]] = None
      BY <1>1, <1>2 DEF LinkInv
    <2>1. CASE i = Len(asked)
      <3>1. asked # <<>> /\ asked'[i] = asked[i] /\ asked'[i + 1] = t /\ tail = asked[i]
        BY <2>1, <1>0, <1>1, <1>3 DEF QueueInv
      <3>2. next[asked[i]] = None /\ asked[i] # t /\ asked[i] \in Threads
        BY <2>1, <3>1, <1>0, <1>1 DEF LinkInv
      <3> QED BY <3>1, <3>2, <1>2
    <2>2. CASE i < Len(asked)
      <3>1. /\ i \in 1 .. Len(asked) - 1
            /\ asked'[i] = asked[i] /\ asked'[i + 1] = asked[i + 1]
            /\ asked[i] # t /\ asked[i + 1] # t
            /\ asked[i] \in Threads /\ asked[i + 1] \in Threads
        BY <2>2, <1>0, <1>1
      <3> QED BY <3>1, <1>2 DEF LinkInv
    <2> QED BY <2>1, <2>2, <1>0, <1>1
  <1>7. HeadInv'
    <2>1. CASE asked = <<>>
      BY <2>1, <1>0, <1>1, <1>2, <1>3 DEF HeadInv, QueueInv
    <2>2. CASE asked # <<>>
      <3>1. asked'[1] = asked[1] /\ asked[1] # t /\ asked[1] \in Threads
        BY <2>2, <1>0, <1>1, <1>3
      <3> QED BY <2>2, <3>1, <1>1, <1>2 DEF HeadInv
    <2> QED BY <2>1, <2>2
  <1>8. TurnInv'
    <2> SUFFICES ASSUME NEW u \in Threads, pc'[u] \in {"cas", "spin"}
                 PROVE  asked' # <<>> /\ asked'[1] = u
      BY DEF TurnInv
    <2>1. asked # <<>> /\ asked[1] = u
      BY <1>2 DEF TurnInv
    <2> QED BY <2>1, <1>0, <1>1, <1>3
  <1> QED BY <1>4, <1>5, <1>6, <1>7, <1>8

(* A thread tells its predecessor's record of itself. *)
LEMMA LinkIInv ==
  ASSUME IInv, NEW t \in Threads, Link(t)
  PROVE  IInv'
  <1> USE NoneAssumption DEF IInv
  <1>0. /\ asked \in Seq(Threads) /\ Len(asked) \in Nat /\ asked' = asked
        /\ \A i \in 1 .. Len(asked) : asked[i] \in Threads
        /\ asked # <<>> => 1 \in 1 .. Len(asked) /\ Len(asked) \in 1 .. Len(asked)
    BY SeqFacts DEF Link, TypeOK
  <1>1. PICK k \in 1 .. Len(asked) : asked[k] = t
    BY DEF QueueInv, Live, Link
  <1>2. k # 1 /\ k - 1 \in 1 .. Len(asked) - 1 /\ old[t] = asked[k - 1]
        /\ old[t] \in Threads
    <2>1. asked # <<>>
      BY <1>0, <1>1, SeqFacts
    <2>2. pc[asked[1]] # "link"
      BY <2>1 DEF HeadInv
    <2>3. k # 1 /\ k - 1 \in 1 .. Len(asked) - 1 /\ (k - 1) + 1 = k
          /\ k - 1 \in 1 .. Len(asked)
      BY <2>2, <1>0, <1>1 DEF Link
    <2>4. old[asked[(k - 1) + 1]] = asked[k - 1]
      BY <2>3 DEF LinkInv
    <2> QED BY <2>3, <2>4, <1>0, <1>1
  <1>3. /\ pc' = [pc EXCEPT ![t] = "mutex"] /\ next' = [next EXCEPT ![asked[k - 1]] = t]
        /\ old' = old /\ tail' = tail /\ head' = head /\ mutex' = mutex
        /\ pc \in [Threads -> Labels] /\ next \in [Threads -> MaybeThread]
        /\ pc[t] = "link" /\ asked[k - 1] \in Threads
    BY <1>2 DEF Link, Goto, TypeOK
  <1>4. TypeOK'
    <2>1. pc' \in [Threads -> Labels] /\ next' \in [Threads -> MaybeThread]
      BY <1>3 DEF Labels, MaybeThread
    <2>2. \A u \in Threads : mutex' = u <=> pc'[u] \in {"check", "cas", "spin", "in"}
      BY <1>3 DEF TypeOK
    <2> QED BY <2>1, <2>2, <1>0, <1>3 DEF TypeOK, Link
  <1>5. QueueInv'
    BY <1>0, <1>3 DEF QueueInv, Live
  <1>6. LinkInv'
    <2>1. ASSUME NEW i \in 1 .. Len(asked) - 1
          PROVE  /\ old'[asked[i + 1]] = asked[i]
                 /\ pc'[asked[i + 1]] # "link" => next'[asked[i]] = asked[i + 1]
                 /\ pc'[asked[i + 1]] = "link" => next'[asked[i]] = None
      <3>1. CASE i = k - 1
        BY <3>1, <1>0, <1>1, <1>2, <1>3 DEF LinkInv
      <3>2. CASE i # k - 1
        <4>1. asked[i] # asked[k - 1] /\ asked[i + 1] # t
              /\ asked[i] \in Threads /\ asked[i + 1] \in Threads
          BY <3>2, <1>0, <1>1, <1>2 DEF QueueInv
        <4> QED BY <4>1, <1>3 DEF LinkInv
      <3> QED BY <3>1, <3>2
    <2>2. asked # <<>> => next'[asked[Len(asked)]] = None
      <3> SUFFICES ASSUME asked # <<>> PROVE next'[asked[Len(asked)]] = None
        OBVIOUS
      <3>1. Len(asked) # k - 1 /\ Len(asked) \in 1 .. Len(asked) /\ k - 1 \in 1 .. Len(asked)
        BY <1>0, <1>1, <1>2
      <3>2. asked[Len(asked)] # asked[k - 1]
        BY <3>1 DEF QueueInv
      <3> QED BY <3>1, <3>2, <1>0, <1>3 DEF LinkInv
    <2> QED BY <2>1, <2>2, <1>0 DEF LinkInv
  <1>7. HeadInv'
    BY <1>0, <1>3 DEF HeadInv
  <1>8. TurnInv'
    BY <1>0, <1>3 DEF TurnInv
  <1> QED BY <1>4, <1>5, <1>6, <1>7, <1>8

(* Steps that leave the queue alone: they change the place of a thread     *)
(* whose record is live and linked, and who may hold the mutex.            *)
LEMMA QuietIInv ==
  ASSUME IInv, NEW t \in Threads, NEW l \in Labels,
         Live(t), pc[t] # "link", l \in {"mutex", "check", "wait", "cas", "spin"},
         pc' = [pc EXCEPT ![t] = l],
         l \in {"cas", "spin"} => asked # <<>> /\ asked[1] = t,
         UNCHANGED <<tail, head, next, old, asked>>,
         TypeOK'
  PROVE  IInv'
  <1> USE DEF IInv
  <1>1. pc \in [Threads -> Labels] /\ asked \in Seq(Threads)
    BY DEF TypeOK
  <1>2. QueueInv'
    BY <1>1 DEF QueueInv, Live
  <1>3. LinkInv' /\ HeadInv'
    <2>1. \A u \in Threads : pc'[u] = "link" <=> pc[u] = "link"
      BY <1>1
    <2>2. \A i \in 1 .. Len(asked) : asked[i] \in Threads
      BY <1>1, SeqFacts
    <2>3. Len(asked) \in Nat /\ (asked # <<>> => asked[1] \in Threads)
      BY <1>1, SeqFacts
    <2>4. \A i \in 1 .. Len(asked) - 1 : pc'[asked[i + 1]] = "link" <=> pc[asked[i + 1]] = "link"
      BY <2>1, <2>2, <2>3
    <2> QED BY <2>1, <2>3, <2>4 DEF LinkInv, HeadInv
  <1>4. TurnInv'
    BY <1>1 DEF TurnInv
  <1> QED BY <1>2, <1>3, <1>4

(* Taking the pthread mutex, testing the head and coming back from the     *)
(* wait: a thread finds it is its turn when its record has no predecessor  *)
(* or is the head.                                                         *)
LEMMA WaitIInv ==
  ASSUME IInv, NEW t \in Threads,
         Acquire(t) \/ Check(t) \/ Wake(t) \/ WakeSpuriously(t)
  PROVE  IInv'
  <1> USE NoneAssumption DEF IInv
  <1>0. /\ pc \in [Threads -> Labels] /\ asked \in Seq(Threads) /\ Len(asked) \in Nat
        /\ signal \in [Threads -> BOOLEAN]
    BY SeqFacts DEF TypeOK
  <1>1. Live(t) /\ pc[t] # "link" /\ UNCHANGED <<tail, head, next, old, asked>>
    BY DEF Acquire, Check, Wake, WakeSpuriously, Live
  <1>2. PICK k \in 1 .. Len(asked) : asked[k] = t
    BY <1>1 DEF QueueInv
  <1>3. old[t] = None \/ head = t => asked # <<>> /\ asked[1] = t
    <2>1. asked # <<>> /\ 1 \in 1 .. Len(asked) /\ asked[1] \in Threads
      BY <1>0, <1>2, SeqFacts
    <2>2. CASE head = t
      BY <2>1, <2>2 DEF HeadInv
    <2>3. CASE old[t] = None /\ k # 1
      <3>1. k - 1 \in 1 .. Len(asked) - 1 /\ (k - 1) + 1 = k /\ k - 1 \in 1 .. Len(asked)
        BY <2>3, <1>0
      <3>2. old[asked[(k - 1) + 1]] = asked[k - 1]
        BY <3>1 DEF LinkInv
      <3>3. asked[k - 1] \in Threads
        BY <3>1, <1>0, SeqFacts
      <3> QED BY <2>3, <3>1, <3>2, <3>3, <1>2
    <2> QED BY <2>1, <2>2, <2>3, <1>2
  <1>4. ASSUME NEW l \in {"mutex", "check", "wait", "cas", "spin"},
               pc' = [pc EXCEPT ![t] = l],
               l \in {"cas", "spin"} => old[t] = None \/ head = t,
               signal' \in [Threads -> BOOLEAN],
               \/ /\ mutex' = None /\ mutex = t
                  /\ l \in {"mutex", "wait"}
               \/ /\ mutex' = t /\ (mutex = None \/ mutex = t)
                  /\ l \in {"check", "cas", "spin"}
        PROVE  IInv'
    <2>1. l \in Labels /\ pc' \in [Threads -> Labels]
      BY <1>0, <1>4 DEF Labels
    <2>2. \A u \in Threads : mutex' = u <=> pc'[u] \in {"check", "cas", "spin", "in"}
      BY <1>0, <1>4 DEF TypeOK
    <2>3. mutex' \in MaybeThread
      BY <1>4 DEF MaybeThread
    <2>4. TypeOK'
      BY <1>1, <1>4, <2>1, <2>2, <2>3 DEF TypeOK
    <2> QED BY <1>1, <1>3, <1>4, <2>1, <2>4, QuietIInv
  <1>5. CASE Acquire(t)
    <2>1. CASE old[t] = None
      BY <1>0, <1>4, <1>5, <2>1 DEF Acquire, Goto
    <2>2. CASE old[t] # None
      BY <1>0, <1>4, <1>5, <2>2 DEF Acquire, Goto
    <2> QED BY <2>1, <2>2
  <1>6. CASE Check(t)
    <2>1. mutex = t
      BY <1>6 DEF Check, TypeOK
    <2>2. CASE head = t
      BY <1>0, <1>4, <1>6, <2>1, <2>2 DEF Check, Goto
    <2>3. CASE head # t
      BY <1>0, <1>4, <1>6, <2>1, <2>3 DEF Check, Goto
    <2> QED BY <2>2, <2>3
  <1>7. CASE Wake(t)
    BY <1>0, <1>4, <1>7 DEF Wake, Goto
  <1>8. CASE WakeSpuriously(t)
    BY <1>0, <1>4, <1>8 DEF WakeSpuriously, Goto
  <1> QED BY <1>5, <1>6, <1>7, <1>8

-----------------------------------------------------------------------------
(* The first in the queue leaves it.  If it was the last, the queue is     *)
(* empty; if not, its successor has linked itself and becomes the head.    *)
LEMMA EnterIInv ==
  ASSUME IInv, NEW t \in Threads, pc[t] \in {"cas", "spin"}, Enter(t),
         UNCHANGED <<mutex, next, old, signal>>,
         \/ tail = t /\ tail' = None /\ head' = None
         \/ next[t] # None /\ tail' = tail /\ head' = next[t]
  PROVE  IInv'
  <1> USE NoneAssumption DEF IInv
  <1>0. /\ pc \in [Threads -> Labels] /\ asked \in Seq(Threads) /\ Len(asked) \in Nat
        /\ asked # <<>> /\ asked[1] = t /\ Len(asked) >= 1
        /\ \A i \in 1 .. Len(asked) : asked[i] \in Threads
    BY SeqFacts DEF TypeOK, TurnInv
  <1>1. /\ asked' \in Seq(Threads) /\ Len(asked') = Len(asked) - 1
        /\ \A i \in 1 .. Len(asked) - 1 : asked'[i] = asked[i + 1]
        /\ asked' = <<>> <=> Len(asked') = 0
    <2>1. asked' = Tail(asked)
      BY DEF Enter
    <2>2. Tail(asked) \in Seq(Threads)
      BY <1>0, TailFacts
    <2> QED BY <2>1, <2>2, <1>0, TailFacts, SeqFacts
  <1>2. /\ pc' = [pc EXCEPT ![t] = "in"]
        /\ \A i \in 1 .. Len(asked) : i # 1 => asked[i] # t /\ pc'[asked[i]] = pc[asked[i]]
    <2>1. pc' = [pc EXCEPT ![t] = "in"]
      BY DEF Enter, Goto
    <2>2. \A i \in 1 .. Len(asked) : i # 1 => asked[i] # t
      BY <1>0 DEF QueueInv
    <2> QED BY <2>1, <2>2, <1>0
  <1>3. tail = asked[Len(asked)] /\ next[asked[Len(asked)]] = None
    BY <1>0 DEF QueueInv, LinkInv
  <1>4. \/ tail = t /\ tail' = None /\ head' = None /\ Len(asked) = 1
        \/ tail # t /\ tail' = tail /\ head' = next[t] /\ next[t] # None /\ Len(asked) > 1
    <2>1. tail = t => Len(asked) = 1
      <3>1. 1 \in 1 .. Len(asked) /\ Len(asked) \in 1 .. Len(asked)
        BY <1>0
      <3> QED BY <3>1, <1>0, <1>3 DEF QueueInv
    <2>2. tail # t => Len(asked) > 1
      BY <1>0, <1>3
    <2> QED BY <2>1, <2>2, <1>3
  <1>5. TypeOK'
    <2>1. pc' \in [Threads -> Labels]
      BY <1>0, <1>2 DEF Labels
    <2>2. \A u \in Threads : mutex' = u <=> pc'[u] \in {"check", "cas", "spin", "in"}
      BY <1>0, <1>2 DEF TypeOK
    <2>3. tail' \in MaybeThread /\ head' \in MaybeThread
      BY <1>4 DEF TypeOK, MaybeThread
    <2> QED BY <1>1, <2>1, <2>2, <2>3 DEF TypeOK
  <1>6. QueueInv'
    <2>1. \A i, j \in 1 .. Len(asked') : asked'[i] = asked'[j] => i = j
      BY <1>0, <1>1 DEF QueueInv
    <2>2. ASSUME NEW u \in Threads
          PROVE  Live(u)' <=> \E i \in 1 .. Len(asked') : asked'[i] = u
      <3>1. CASE u = t
        <4>1. ~Live(u)'
          BY <3>1, <1>0, <1>2 DEF Live
        <4>2. \A i \in 1 .. Len(asked') : asked'[i] # u
          BY <3>1, <1>0, <1>1, <1>2
        <4> QED BY <4>1, <4>2
      <3>2. CASE u # t
        <4>1. Live(u)' <=> Live(u)
          BY <3>2, <1>0, <1>2 DEF Live
        <4>2. ASSUME NEW i \in 1 .. Len(asked), asked[i] = u
              PROVE  i - 1 \in 1 .. Len(asked') /\ asked'[i - 1] = u
          <5>1. i # 1 /\ i - 1 \in 1 .. Len(asked) - 1 /\ (i - 1) + 1 = i
            BY <3>2, <4>2, <1>0
          <5> QED BY <4>2, <5>1, <1>0, <1>1
        <4>3. ASSUME NEW i \in 1 .. Len(asked'), asked'[i] = u
              PROVE  i + 1 \in 1 .. Len(asked) /\ asked[i + 1] = u
          BY <4>3, <1>0, <1>1
        <4> QED BY <4>1, <4>2, <4>3 DEF QueueInv
      <3> QED BY <3>1, <3>2
    <2>3. asked' # <<>> => tail' = asked'[Len(asked')]
      <3>1. asked' # <<>> => Len(asked') \in 1 .. Len(asked) - 1 /\ Len(asked') + 1 = Len(asked)
        BY <1>0, <1>1
      <3> QED BY <3>1, <1>0, <1>1, <1>3, <1>4
    <2>4. asked' = <<>> => tail' = None
      <3>1. asked' = <<>> => Len(asked) = 1
        BY <1>0, <1>1
      <3>2. Len(asked) = 1 => tail' = None
        BY <1>4
      <3> QED BY <3>1, <3>2
    <2> QED BY <2>1, <2>2, <2>3, <2>4 DEF QueueInv
  <1>7. LinkInv'
    <2>1. ASSUME NEW i \in 1 .. Len(asked') - 1
          PROVE  /\ old'[asked'[i + 1]] = asked'[i]
                 /\ pc'[asked'[i + 1]] # "link" => next'[asked'[i]] = asked'[i + 1]
                 /\ pc'[asked'[i + 1]] = "link" => next'[asked'[i]] = None
      <3>1. /\ i + 1 \in 1 .. Len(asked) - 1 /\ (i + 1) + 1 \in 1 .. Len(asked)
            /\ (i + 1) + 1 # 1 /\ asked'[i] = asked[i + 1]
            /\ asked'[i + 1] = asked[(i + 1) + 1]
        BY <1>0, <1>1
      <3>2. pc'[asked[(i + 1) + 1]] = pc[asked[(i + 1) + 1]]
        BY <3>1, <1>2
      <3> QED BY <3>1, <3>2 DEF LinkInv
    <2>2. asked' # <<>> => next'[asked'[Len(asked')]] = None
      <3>1. asked' # <<>> => asked'[Len(asked')] = asked[Len(asked)]
        <4>1. asked' # <<>> => Len(asked') \in 1 .. Len(asked) - 1 /\ Len(asked') + 1 = Len(asked)
          BY <1>0, <1>1
        <4> QED BY <4>1, <1>1
      <3> QED BY <3>1, <1>3
    <2> QED BY <2>1, <2>2 DEF LinkInv
  <1>8. HeadInv'
    <2>1. CASE Len(asked) = 1
      <3>1. asked' = <<>> /\ head' = None
        BY <2>1, <1>0, <1>1, <1>4
      <3> QED BY <3>1 DEF HeadInv
    <2>2. CASE Len(asked) > 1
      <3>1. 1 \in 1 .. Len(asked) - 1 /\ 1 + 1 = 2 /\ 2 \in 1 .. Len(asked) /\ asked'[1] = asked[2]
            /\ asked' # <<>>
        BY <2>2, <1>0, <1>1
      <3>2. /\ old[asked[2]] = asked[1]
            /\ pc[asked[2]] # "link" => next[asked[1]] = asked[2]
            /\ pc[asked[2]] = "link" => next[asked[1]] = None
        BY <3>1 DEF LinkInv
      <3>3. next[t] # None /\ head' = next[t]
        BY <2>2, <1>0, <1>4
      <3>4. pc'[asked[2]] = pc[asked[2]]
        BY <3>1, <1>2
      <3> QED BY <3>1, <3>2, <3>3, <3>4, <1>0 DEF HeadInv
    <2> QED BY <2>1, <2>2, <1>4
  <1>9. TurnInv'
    <2> SUFFICES ASSUME NEW u \in Threads, pc'[u] \in {"cas", "spin"} PROVE FALSE
      BY DEF TurnInv
    <2>1. u # t /\ pc[u] \in {"cas", "spin"}
      BY <1>0, <1>2
    <2> QED BY <2>1, <1>0 DEF TurnInv
  <1> QED BY <1>5, <1>6, <1>7, <1>8, <1>9

(* Both ways out of fifo_mutex_lock, and the step to the spin. *)
LEMMA LeaveQueueIInv ==
  ASSUME IInv, NEW t \in Threads, CompareExchange(t) \/ Spin(t)
  PROVE  IInv'
  <1>1. CASE Spin(t)
    BY <1>1, EnterIInv DEF Spin
  <1>2. CASE CompareExchange(t) /\ tail = t
    BY <1>2, EnterIInv DEF CompareExchange
  <1>3. CASE CompareExchange(t) /\ tail # t
    <2>1. /\ pc[t] = "cas" /\ pc' = [pc EXCEPT ![t] = "spin"]
          /\ UNCHANGED <<tail, head, asked, mutex, next, old, signal>>
      BY <1>3 DEF CompareExchange, Goto
    <2>2. pc \in [Threads -> Labels] /\ pc' \in [Threads -> Labels]
      BY <2>1 DEF IInv, TypeOK, Labels
    <2>3. \A u \in Threads : mutex' = u <=> pc'[u] \in {"check", "cas", "spin", "in"}
      BY <2>1, <2>2 DEF IInv, TypeOK
    <2>4. TypeOK'
      BY <2>1, <2>2, <2>3 DEF IInv, TypeOK
    <2>5. Live(t) /\ asked # <<>> /\ asked[1] = t
      BY <2>1 DEF Live, IInv, TurnInv
    <2>6. "spin" \in Labels
      BY DEF Labels
    <2> QED BY <2>1, <2>4, <2>5, <2>6, QuietIInv
  <1> QED BY <1>1, <1>2, <1>3

(* The holder of the lock has no record in the queue. *)
LEMMA UnlockIInv ==
  ASSUME IInv, NEW t \in Threads, fifo_mutex_unlock(t) \/ fifo_mutex_yield(t)
  PROVE  IInv'
  <1> USE NoneAssumption DEF IInv
  <1>0. /\ pc[t] = "in" /\ mutex' = None /\ SignalHead
        /\ UNCHANGED <<tail, head, next, old, asked>>
        /\ \E l \in {"out", "again"} : pc' = [pc EXCEPT ![t] = l]
    BY DEF fifo_mutex_unlock, fifo_mutex_yield, Goto
  <1>1. /\ pc \in [Threads -> Labels] /\ signal \in [Threads -> BOOLEAN]
        /\ asked \in Seq(Threads) /\ Len(asked) \in Nat
        /\ \A i \in 1 .. Len(asked) : asked[i] \in Threads
    BY SeqFacts DEF TypeOK
  <1>2. /\ pc'[t] \in {"out", "again"} /\ pc' \in [Threads -> Labels]
        /\ \A u \in Threads : u # t => pc'[u] = pc[u]
    BY <1>0, <1>1 DEF Labels
  <1>3. \A i \in 1 .. Len(asked) : asked[i] # t /\ pc'[asked[i]] = pc[asked[i]]
    <2>1. \A i \in 1 .. Len(asked) : asked[i] # t
      BY <1>0 DEF QueueInv, Live
    <2> QED BY <2>1, <1>1, <1>2
  <1>4. TypeOK'
    <2>1. \A u \in Threads : mutex' = u <=> pc'[u] \in {"check", "cas", "spin", "in"}
      BY <1>0, <1>1, <1>2 DEF TypeOK
    <2>2. signal' \in [Threads -> BOOLEAN]
      BY <1>0, <1>1 DEF SignalHead
    <2>3. mutex' \in MaybeThread
      BY <1>0 DEF MaybeThread
    <2> QED BY <1>0, <1>2, <2>1, <2>2, <2>3 DEF TypeOK
  <1>5. QueueInv'
    <2>1. \A u \in Threads : Live(u)' <=> Live(u)
      BY <1>0, <1>2 DEF Live
    <2> QED BY <1>0, <2>1 DEF QueueInv
  <1>6. LinkInv'
    <2>1. \A i \in 1 .. Len(asked) - 1 : pc'[asked[i + 1]] = pc[asked[i + 1]]
      BY <1>1, <1>3
    <2> QED BY <1>0, <2>1 DEF LinkInv
  <1>7. HeadInv'
    <2>1. asked # <<>> => pc'[asked[1]] = pc[asked[1]]
      BY <1>1, <1>3, SeqFacts
    <2> QED BY <1>0, <2>1 DEF HeadInv
  <1>8. TurnInv'
    BY <1>0, <1>2 DEF TurnInv
  <1> QED BY <1>4, <1>5, <1>6, <1>7, <1>8

(* Every step preserves the inductive invariant. *)
LEMMA NextIInv == IInv /\ [Next]_vars => IInv'
  <1> SUFFICES ASSUME IInv, [Next]_vars PROVE IInv'
    OBVIOUS
  <1>1. CASE UNCHANGED vars
    BY <1>1 DEF vars, IInv, TypeOK, QueueInv, LinkInv, HeadInv, TurnInv, Live
  <1>2. ASSUME NEW t \in Threads, Exchange(t) PROVE IInv'
    BY <1>2, ExchangeIInv
  <1>3. ASSUME NEW t \in Threads, Step(t) \/ WakeSpuriously(t) PROVE IInv'
    BY <1>3, LinkIInv, WaitIInv, LeaveQueueIInv, UnlockIInv DEF Step
  <1> QED BY <1>1, <1>2, <1>3 DEF Next

(* The records on the stacks are the queue of the threads that have asked. *)
THEOREM InductiveInvariant == Spec => []IInv
  <1> QED BY InitIInv, NextIInv, PTL DEF Spec

(* The types, and that the pthread mutex is held exactly by the thread     *)
(* between its acquisition and the unlock or the wait.                     *)
THEOREM TypeCorrect == Spec => []TypeOK
  <1>1. IInv => TypeOK
    BY DEF IInv
  <1> QED BY <1>1, InductiveInvariant, PTL

-----------------------------------------------------------------------------
(* Neither the tail, nor the head that unlock signals, nor the predecessor *)
(* a thread links itself to is a record of a thread that has returned from *)
(* fifo_mutex_lock: they are all in the queue.                             *)
THEOREM RecordsLive == Spec => []NoDanglingRecord
  <1>1. IInv => NoDanglingRecord
    <2> SUFFICES ASSUME IInv PROVE NoDanglingRecord
      OBVIOUS
    <2> USE NoneAssumption DEF IInv
    <2>0. /\ asked \in Seq(Threads) /\ Len(asked) \in Nat
          /\ asked = <<>> <=> Len(asked) = 0
          /\ \A i \in 1 .. Len(asked) : asked[i] \in Threads /\ Live(asked[i])
      BY SeqFacts DEF TypeOK, QueueInv
    <2>1. asked # <<>> => 1 \in 1 .. Len(asked) /\ Len(asked) \in 1 .. Len(asked)
      BY <2>0
    <2>2. tail # None => Live(tail)
      BY <2>0, <2>1 DEF QueueInv
    <2>3. head # None => Live(head)
      BY <2>0, <2>1 DEF HeadInv
    <2>4. ASSUME NEW t \in Threads, pc[t] = "link" PROVE Live(old[t])
      <3>1. PICK k \in 1 .. Len(asked) : asked[k] = t
        BY <2>4 DEF QueueInv, Live
      <3>2. k # 1
        BY <2>0, <2>1, <2>4, <3>1 DEF HeadInv
      <3>3. k - 1 \in 1 .. Len(asked) - 1 /\ (k - 1) + 1 = k /\ k - 1 \in 1 .. Len(asked)
        BY <2>0, <3>1, <3>2
      <3>4. old[asked[(k - 1) + 1]] = asked[k - 1]
        BY <3>3 DEF LinkInv
      <3> QED BY <2>0, <3>1, <3>3, <3>4
    <2> QED BY <2>2, <2>3, <2>4 DEF NoDanglingRecord
  <1> QED BY <1>1, InductiveInvariant, PTL

(* The thread whose turn it is does not sleep through the signal: the head *)
(* is only set by a thread that then holds the lock, a thread only goes to *)
(* sleep when it is not the head, and the holder signals the head.         *)
THEOREM SignalNotLost == Spec => []NoLostSignal
  <1>1. Init => NoLostSignal
    BY DEF Init, NoLostSignal
  <1>2. TypeOK /\ NoLostSignal /\ [Next]_vars => NoLostSignal'
    <2> SUFFICES ASSUME TypeOK, NoLostSignal, [Next]_vars PROVE NoLostSignal'
      OBVIOUS
    <2>0. /\ pc \in [Threads -> Labels] /\ signal \in [Threads -> BOOLEAN]
          /\ head \in MaybeThread
      BY DEF TypeOK
    <2>1. CASE UNCHANGED vars
      BY <2>1 DEF vars, NoLostSignal
    <2>2. ASSUME NEW t \in Threads, Exchange(t) \/ Link(t) PROVE NoLostSignal'
      BY <2>0, <2>2 DEF Exchange, Link, Goto, NoLostSignal
    <2>3. ASSUME NEW t \in Threads, Acquire(t) \/ Check(t) \/ Wake(t) \/ WakeSpuriously(t)
          PROVE  NoLostSignal'
      BY <2>0, <2>3 DEF Acquire, Check, Wake, WakeSpuriously, Goto, NoLostSignal
    <2>4. ASSUME NEW t \in Threads, CompareExchange(t) \/ Spin(t) PROVE NoLostSignal'
      BY <2>0, <2>4 DEF CompareExchange, Spin, Enter, Goto, NoLostSignal
    <2>5. ASSUME NEW t \in Threads, fifo_mutex_unlock(t) \/ fifo_mutex_yield(t)
          PROVE  NoLostSignal'
      <3>1. head' = head /\ SignalHead
        BY <2>5 DEF fifo_mutex_unlock, fifo_mutex_yield
      <3>2. ASSUME NEW u \in Threads, head = u PROVE signal'[u] = TRUE
        BY <2>0, <3>1, <3>2, NoneAssumption DEF SignalHead
      <3> QED BY <3>1, <3>2 DEF NoLostSignal
    <2> QED BY <2>1, <2>2, <2>3, <2>4, <2>5 DEF Next, Step
  <1> QED BY <1>1, <1>2, TypeCorrect, PTL DEF Spec

(* No thread uses a record that is gone, and none sleeps through its       *)
(* signal.                                                                 *)
THEOREM RecordsAreSound == Spec => []RecordsSound
BY TypeCorrect, RecordsLive, SignalNotLost, PTL DEF RecordsSound

-----------------------------------------------------------------------------
(* The lock is granted in the order of the exchanges, whatever the order   *)
(* in which the threads then get the pthread mutex: an exchange asks, the  *)
(* step out of fifo_mutex_lock grants, unlock and yield release, and the   *)
(* rest are invisible.                                                     *)
THEOREM FifoOrder == Spec => ImplementsFifoLock
  <1>1. Init => FL!FInit
    BY DEF Init, FL!FInit, Owner
  <1>2. IInv /\ [Next]_vars => [FL!FNext]_(FL!fvars)
    <2> SUFFICES ASSUME IInv, [Next]_vars PROVE FL!FNext \/ UNCHANGED <<Owner, asked>>
      BY DEF FL!fvars
    <2> USE NoneAssumption
    <2>0. /\ pc \in [Threads -> Labels] /\ mutex \in Threads \cup {None}
          /\ asked \in Seq(Threads)
          /\ \A t \in Threads : mutex = t <=> pc[t] \in {"check", "cas", "spin", "in"}
      BY DEF IInv, TypeOK, MaybeThread
    <2>1. CASE UNCHANGED vars
      BY <2>1 DEF vars, Owner
    <2>2. ASSUME NEW t \in Threads, Exchange(t) PROVE FL!Ask(t)
      <3>1. /\ pc[t] \in {"out", "again"} /\ mutex' = mutex /\ asked' = Append(asked, t)
            /\ \A u \in Threads : u # t => pc'[u] = pc[u]
        BY <2>0, <2>2 DEF Exchange, Goto
      <3>2. mutex # t
        BY <2>0, <3>1
      <3>3. Owner # t /\ Owner' = Owner
        BY <2>0, <3>1, <3>2 DEF Owner
      <3>4. \A i \in 1 .. Len(asked) : asked[i] # t
        BY <3>1 DEF IInv, QueueInv, Live
      <3> QED BY <3>1, <3>3, <3>4 DEF FL!Ask
    <2>3. ASSUME NEW t \in Threads,
                 Link(t) \/ Acquire(t) \/ Check(t) \/ Wake(t) \/ WakeSpuriously(t)
                   \/ (CompareExchange(t) /\ tail # t)
          PROVE  UNCHANGED <<Owner, asked>>
      <3>1. /\ asked' = asked /\ pc[t] # "in" /\ pc'[t] # "in"
            /\ \A u \in Threads : u # t => pc'[u] = pc[u]
            /\ mutex' = mutex \/ (mutex' = None /\ mutex = t) \/ (mutex' = t /\ mutex = None)
        BY <2>0, <2>3 DEF Link, Acquire, Check, Wake, WakeSpuriously, CompareExchange, Goto
      <3>2. Owner' = Owner
        BY <2>0, <3>1 DEF Owner
      <3> QED BY <3>1, <3>2
    <2>4. ASSUME NEW t \in Threads, Spin(t) \/ (CompareExchange(t) /\ tail = t)
          PROVE  FL!Grant
      <3>1. /\ pc[t] \in {"cas", "spin"} /\ asked' = Tail(asked) /\ mutex' = mutex
            /\ pc'[t] = "in"
        BY <2>0, <2>4 DEF Spin, CompareExchange, Enter, Goto
      <3>2. mutex = t
        BY <2>0, <3>1
      <3>3. Owner = None /\ Owner' = t
        BY <3>1, <3>2 DEF Owner
      <3>4. asked # <<>> /\ asked[1] = t
        BY <3>1 DEF IInv, TurnInv
      <3>5. Head(asked) = t
        BY <2>0, <3>4, SeqFacts
      <3> QED BY <3>1, <3>3, <3>4, <3>5 DEF FL!Grant
    <2>5. ASSUME NEW t \in Threads, fifo_mutex_unlock(t) \/ fifo_mutex_yield(t)
          PROVE  FL!Release
      <3>1. pc[t] = "in" /\ mutex' = None /\ asked' = asked
        BY <2>5 DEF fifo_mutex_unlock, fifo_mutex_yield
      <3>2. Owner # None /\ Owner' = None
        BY <2>0, <3>1 DEF Owner
      <3> QED BY <3>1, <3>2 DEF FL!Release
    <2> QED BY <2>1, <2>2, <2>3, <2>4, <2>5 DEF Next, Step, FL!FNext
  <1> QED BY <1>1, <1>2, InductiveInvariant, PTL DEF Spec, ImplementsFifoLock, FL!FSpec
=============================================================================
