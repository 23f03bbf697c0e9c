---------------------------- MODULE Buffer_proofs ----------------------------
(***************************************************************************)
(* The invariants of the ring buffer, for every set of ring sizes, chunk   *)
(* size and minimal free space.                                            *)
(*                                                                         *)
(* The argument: the filled chunks are exactly those from ridx up to widx  *)
(* (RingInv), so the chunk at widx is the producer's unless the ring is    *)
(* full; only that chunk can be partly written, and then with at least     *)
(* MinFree bytes of room (ShapeInv); and a pointer that was handed out     *)
(* still agrees with the ring when its holder reports back, because the    *)
(* other thread cannot touch a chunk on this side of `filled' (GrantInv).  *)
(* All this is true of live chunks (Held).  A resize goes through memory   *)
(* without contents, but no thread holds a pointer then, the ring was      *)
(* empty and the device is owed the byte the decoder delivers next         *)
(* (Resizing), so the reset that ends it re-establishes Held.              *)
(***************************************************************************)
EXTENDS Buffer, TLAPS

(* The chunks the consumer owns, computed from the indices. *)
InRing(k) ==
  IF ridx < widx THEN ridx <= k /\ k < widx
  ELSE IF widx < ridx THEN ridx <= k \/ k < widx
  ELSE filled[ridx]

RingInv == \A k \in Chunks : filled[k] <=> InRing(k)

ShapeInv ==
  \A k \in Chunks :
    /\ filled[k] => lo[k] < hi[k]
    /\ ~filled[k] => lo[k] = 0 /\ hi[k] + MinFree <= ChunkSize
    /\ ~filled[k] /\ k # widx => hi[k] = 0

GrantInv ==
  /\ wst # "idle" =>
       /\ ~filled[widx]
       /\ wpos = [chunk |-> widx, off |-> hi[widx]]
       /\ wsize = ChunkSize - hi[widx]
  /\ wst = "read" => wcount <= wsize
  /\ rst = "granted" =>
       /\ filled[ridx]
       /\ rpos = [chunk |-> ridx, off |-> lo[ridx]]
       /\ rsize = hi[ridx] - lo[ridx]

SInv == TypeOK /\ RingInv /\ ShapeInv /\ GrantInv

(* The number of the byte that follows the last one stored in chunk k. *)
EndOf(k) == data[k][lo[k]] + (hi[k] - lo[k])

(* The bytes reported to buffer_fill so far (ip_read may be one ahead). *)
Reported == written - (IF wst = "read" THEN wcount ELSE 0)

(* Within a chunk the unread bytes are consecutive. *)
RunInv ==
  \A k \in Chunks : \A j \in Offsets :
    lo[k] <= j /\ j < hi[k] => data[k][j] = data[k][lo[k]] + (j - lo[k])

(* A chunk continues where the one before it in the ring ends. *)
ChainInv ==
  \A k \in Chunks :
    filled[k] /\ Succ(k) # ridx /\ hi[Succ(k)] > 0 =>
      data[Succ(k)][lo[Succ(k)]] = EndOf(k)

(* The oldest byte held is the one the device is owed. *)
HeadInv ==
  /\ filled[ridx] => data[ridx][lo[ridx]] = consumed
  /\ ~filled[ridx] /\ hi[ridx] > 0 => data[ridx][0] = consumed
  /\ ~filled[ridx] /\ hi[ridx] = 0 => Reported = consumed

(* The newest byte held is the last one reported. *)
TailInv ==
  /\ ~filled[widx] /\ hi[widx] > 0 => EndOf(widx) = Reported
  /\ \A k \in Chunks :
       filled[k] /\ Succ(k) = widx /\ (filled[widx] \/ hi[widx] = 0) =>
         EndOf(k) = Reported

(* What ip_read stored and buffer_fill has not yet reported. *)
FreshInv ==
  wst = "read" =>
    \A j \in Offsets :
      hi[widx] <= j /\ j < hi[widx] + wcount =>
        data[widx][j] = Reported + (j - hi[widx])

DInv == RunInv /\ ChainInv /\ HeadInv /\ TailInv /\ FreshInv

Held == SInv /\ DInv /\ mem = "live"

Resizing ==
  /\ TypeOK /\ NoPointers /\ mem # "live"
  /\ ridx = 0 /\ widx = 0 /\ consumed = written

RingIInv == Held \/ Resizing

-----------------------------------------------------------------------------
(* On ring indices the code's "idx++; idx %= n" is a wrap at n. *)
LEMMA SuccWraps ==
  ASSUME NEW n \in Nat \ {0}, NEW i \in 0 .. n - 1
  PROVE  (i + 1) % n = IF i + 1 = n THEN 0 ELSE i + 1
<1>1. CASE i + 1 = n
  BY <1>1
<1>2. CASE i + 1 # n
  BY <1>2
<1>3. QED BY <1>1, <1>2

LEMMA SuccInRing ==
  ASSUME TypeOK, NEW i \in Chunks
  PROVE  /\ nr_chunks \in Nat /\ nr_chunks > 0
         /\ Succ(i) \in Chunks
         /\ Succ(i) = IF i + 1 = nr_chunks THEN 0 ELSE i + 1
<1>1. nr_chunks \in Nat \ {0}
  BY SizesAssumption DEF TypeOK
<1>2. Succ(i) = IF i + 1 = nr_chunks THEN 0 ELSE i + 1
  BY <1>1, SuccWraps DEF Succ, Chunks
<1>3. QED
  BY <1>1, <1>2 DEF Chunks

(* The state right after a reset satisfies the structural invariant. *)
LEMMA InitSInv == Init => SInv
<1> SUFFICES ASSUME Init PROVE SInv
  OBVIOUS
<1>1. nr_chunks \in Nat \ {0} /\ 0 \in Chunks
  BY SizesAssumption DEF Init, Chunks
<1>2. TypeOK
  BY <1>1, ChunkAssumption DEF Init, TypeOK, Offsets
<1>3. RingInv
  BY <1>1 DEF Init, RingInv, InRing
<1>4. ShapeInv
  BY <1>1, ChunkAssumption DEF Init, ShapeInv
<1>5. GrantInv
  BY DEF Init, GrantInv
<1>6. QED BY <1>2, <1>3, <1>4, <1>5 DEF SInv

LEMMA WposSInv == SInv /\ buffer_get_wpos => SInv'
<1> SUFFICES ASSUME SInv, buffer_get_wpos PROVE SInv'
  OBVIOUS
<1>1. TypeOK'
  <2>1. widx \in Nat /\ hi[widx] \in Nat /\ ChunkSize - hi[widx] \in 0 .. ChunkSize
    BY ChunkAssumption DEF SInv, TypeOK, Chunks
  <2>2. QED
    BY <2>1 DEF SInv, TypeOK, buffer_get_wpos, ring, rvars, Chunks, Offsets
<1>2. RingInv' /\ ShapeInv'
  BY DEF SInv, RingInv, ShapeInv, InRing, buffer_get_wpos, ring, Chunks
<1>3. GrantInv'
  BY DEF SInv, GrantInv, buffer_get_wpos, ring, rvars
<1>4. QED BY <1>1, <1>2, <1>3 DEF SInv

LEMMA IpReadSInv ==
  ASSUME SInv, NEW n \in 0 .. ChunkSize, ip_read(n) PROVE SInv'
<1>0. nr_chunks' = nr_chunks /\ lo' = lo /\ hi' = hi /\ filled' = filled
      /\ ridx' = ridx /\ widx' = widx
  BY DEF ip_read, ring
<1>1. TypeOK'
  <2>0. wpos = [chunk |-> widx, off |-> hi[widx]] /\ widx \in Chunks
    BY DEF SInv, TypeOK, GrantInv, ip_read
  <2> DEFINE row == [j \in Offsets |->
                       IF hi[widx] <= j /\ j < hi[widx] + n
                       THEN written + (j - hi[widx]) ELSE data[widx][j]]
  <2>a. row \in [Offsets -> Nat]
    <3>1. data[widx] \in [Offsets -> Nat] /\ hi[widx] \in Nat /\ written \in Nat
      BY <2>0 DEF SInv, TypeOK
    <3>2. \A j \in Offsets : j \in Nat
      BY ChunkAssumption DEF Offsets
    <3>3. QED BY <3>1, <3>2
  <2>b. data' = [data EXCEPT ![widx] = row]
    BY <2>0 DEF ip_read
  <2>1. data' \in [Chunks -> [Offsets -> Nat]]
    BY <2>a, <2>b DEF SInv, TypeOK
  <2>2. QED
    BY <1>0, <2>1, ChunkAssumption DEF SInv, TypeOK, ip_read, rvars, Chunks, Offsets
<1>2. RingInv' /\ ShapeInv'
  BY <1>0 DEF SInv, RingInv, ShapeInv, InRing, Chunks
<1>3. GrantInv'
  BY <1>0 DEF SInv, GrantInv, ip_read, rvars
<1>4. QED BY <1>1, <1>2, <1>3 DEF SInv

LEMMA IpReadAgainSInv == SInv /\ ip_read_again => SInv'
BY DEF SInv, TypeOK, RingInv, InRing, ShapeInv, GrantInv, ip_read_again,
       ring, rvars, Chunks, Offsets

LEMMA FillSInv == SInv /\ buffer_fill => SInv'
<1> SUFFICES ASSUME SInv, buffer_fill PROVE SInv'
  OBVIOUS
<1> DEFINE h == hi[widx] + wcount
           closes == ChunkSize - h < MinFree \/ (wcount = 0 /\ h > 0)
<1>0. /\ Chunks' = Chunks /\ Offsets' = Offsets /\ nr_chunks' = nr_chunks
      /\ lo' = lo /\ ridx' = ridx /\ wst' = "idle"
      /\ rst' = rst /\ rpos' = rpos /\ rsize' = rsize
  BY DEF buffer_fill, Chunks, Offsets, rvars
<1>1. /\ widx \in Chunks /\ ridx \in Chunks /\ ~filled[widx] /\ lo[widx] = 0
      /\ h \in 0 .. ChunkSize /\ h >= hi[widx] /\ hi[widx] \in 0 .. ChunkSize
      /\ wcount \in 0 .. ChunkSize
  BY ChunkAssumption DEF SInv, TypeOK, GrantInv, ShapeInv, buffer_fill, Chunks
<1>2. /\ hi' = [hi EXCEPT ![widx] = h]
      /\ filled' = [filled EXCEPT ![widx] = closes]
      /\ widx' = IF closes THEN Succ(widx) ELSE widx
  BY <1>1 DEF buffer_fill, Closes
<1>s. /\ nr_chunks \in Nat /\ nr_chunks > 0
      /\ Succ(widx) \in Chunks
      /\ Succ(widx) = IF widx + 1 = nr_chunks THEN 0 ELSE widx + 1
  BY <1>1, SuccInRing DEF SInv
<1>3. TypeOK'
  <2>1. hi' \in [Chunks -> 0 .. ChunkSize] /\ filled' \in [Chunks -> BOOLEAN]
        /\ widx' \in Chunks
    BY <1>1, <1>2, <1>s DEF SInv, TypeOK
  <2>2. QED
    BY <1>0, <2>1 DEF SInv, TypeOK, buffer_fill
<1>4. RingInv'
  <2> HIDE DEF closes
  <2>0. closes \in BOOLEAN
    BY DEF closes
  <2>1. ASSUME NEW k \in Chunks PROVE filled'[k] <=> InRing(k)'
    <3>1. (filled[k] <=> InRing(k)) /\ (filled[ridx] <=> InRing(ridx))
      BY <1>1 DEF SInv, RingInv
    <3>2. filled[k] \in BOOLEAN /\ filled[ridx] \in BOOLEAN
      BY <1>1 DEF SInv, TypeOK
    <3>3. /\ filled'[k] <=> (IF k = widx THEN closes ELSE filled[k])
          /\ filled'[ridx] <=> (IF ridx = widx THEN closes ELSE filled[ridx])
      BY <1>1, <1>2 DEF SInv, TypeOK
    <3>4. ridx \in Int /\ widx \in Int /\ k \in Int
      BY <1>1, <1>s DEF Chunks
    <3>5. CASE ~closes
      BY <1>0, <1>1, <1>2, <3>1, <3>2, <3>3, <3>4, <3>5 DEF InRing
    <3>6. CASE closes
      <4>1. /\ widx' = IF widx + 1 = nr_chunks THEN 0 ELSE widx + 1
            /\ ridx' = ridx /\ ~filled[widx]
            /\ 0 <= k /\ k < nr_chunks /\ 0 <= ridx /\ ridx < nr_chunks
            /\ 0 <= widx /\ widx < nr_chunks
        BY <1>0, <1>1, <1>2, <1>s, <3>6 DEF Chunks
      <4>2. CASE widx < ridx
        BY <4>1, <4>2, <1>s, <3>1, <3>3, <3>4, <3>6 DEF InRing
      <4>3. CASE ridx < widx
        BY <4>1, <4>3, <1>s, <3>1, <3>3, <3>4, <3>6 DEF InRing
      <4>4. CASE ridx = widx
        BY <4>1, <4>4, <1>s, <3>1, <3>3, <3>4, <3>6 DEF InRing
      <4>5. QED BY <4>2, <4>3, <4>4, <3>4
    <3>7. QED BY <2>0, <3>5, <3>6
  <2>2. QED BY <1>0, <2>1 DEF RingInv
<1>5. ShapeInv'
  <2>1. ASSUME NEW k \in Chunks
        PROVE  /\ filled'[k] => lo'[k] < hi'[k]
               /\ ~filled'[k] => lo'[k] = 0 /\ hi'[k] + MinFree <= ChunkSize
               /\ ~filled'[k] /\ k # widx' => hi'[k] = 0
    <3>1. /\ filled[k] => lo[k] < hi[k]
          /\ ~filled[k] => lo[k] = 0 /\ hi[k] + MinFree <= ChunkSize
          /\ ~filled[k] /\ k # widx => hi[k] = 0
          /\ lo[k] \in Nat /\ hi[k] \in Nat
      BY DEF SInv, TypeOK, ShapeInv
    <3>2. /\ filled'[k] <=> (IF k = widx THEN closes ELSE filled[k])
          /\ hi'[k] = (IF k = widx THEN h ELSE hi[k])
      BY <1>2 DEF SInv, TypeOK
    <3> HIDE DEF h
    <3>3. CASE k = widx
      <4>1. /\ lo'[k] = 0 /\ hi'[k] = h /\ (filled'[k] <=> closes)
            /\ widx' # k => closes
        BY <1>0, <1>1, <1>2, <3>2, <3>3
      <4>2. QED
        BY <4>1, <1>1, ChunkAssumption
    <3>4. CASE k # widx
      BY <1>0, <1>2, <3>1, <3>2, <3>4
    <3>5. QED BY <3>3, <3>4
  <2>2. QED BY <1>0, <2>1 DEF ShapeInv
<1>6. GrantInv'
  BY <1>0, <1>1, <1>2 DEF SInv, TypeOK, GrantInv
<1>7. QED BY <1>3, <1>4, <1>5, <1>6 DEF SInv

LEMMA RposSInv == SInv /\ buffer_get_rpos => SInv'
<1> SUFFICES ASSUME SInv, buffer_get_rpos PROVE SInv'
  OBVIOUS
<1>1. TypeOK'
  <2>1. ridx \in Chunks /\ lo[ridx] \in Nat /\ hi[ridx] - lo[ridx] \in 0 .. ChunkSize
    BY ChunkAssumption DEF SInv, TypeOK, ShapeInv, buffer_get_rpos
  <2>2. ridx \in Nat
    BY <2>1, SuccInRing DEF SInv, Chunks
  <2>3. QED
    BY <2>1, <2>2 DEF SInv, TypeOK, buffer_get_rpos, ring, pvars, Chunks, Offsets
<1>2. RingInv' /\ ShapeInv'
  BY DEF SInv, RingInv, ShapeInv, InRing, buffer_get_rpos, ring, Chunks
<1>3. GrantInv'
  BY DEF SInv, GrantInv, buffer_get_rpos, ring, pvars
<1>4. QED BY <1>1, <1>2, <1>3 DEF SInv

LEMMA WriteFailedSInv == SInv /\ op_write_failed => SInv'
BY DEF SInv, TypeOK, RingInv, InRing, ShapeInv, GrantInv, op_write_failed,
       ring, pvars, Chunks, Offsets

LEMMA ConsumeSInv ==
  ASSUME SInv, NEW count \in 0 .. ChunkSize, buffer_consume(count) PROVE SInv'
<1> DEFINE empty == lo[ridx] + count = hi[ridx]
<1>0. /\ Chunks' = Chunks /\ Offsets' = Offsets /\ nr_chunks' = nr_chunks
      /\ widx' = widx /\ rst' = "idle"
      /\ wst' = wst /\ wpos' = wpos /\ wsize' = wsize /\ wcount' = wcount
  BY DEF buffer_consume, Chunks, Offsets, pvars
<1>1. /\ widx \in Chunks /\ ridx \in Chunks /\ filled[ridx]
      /\ lo[ridx] \in Nat /\ hi[ridx] \in 0 .. ChunkSize /\ lo[ridx] < hi[ridx]
      /\ lo[ridx] + count <= hi[ridx]
  BY ChunkAssumption DEF SInv, TypeOK, GrantInv, ShapeInv, buffer_consume
<1>2. /\ lo' = [lo EXCEPT ![ridx] = IF empty THEN 0 ELSE @ + count]
      /\ hi' = [hi EXCEPT ![ridx] = IF empty THEN 0 ELSE @]
      /\ filled' = [filled EXCEPT ![ridx] = @ /\ ~empty]
      /\ ridx' = IF empty THEN Succ(ridx) ELSE ridx
  BY DEF buffer_consume
<1>s. /\ nr_chunks \in Nat /\ nr_chunks > 0
      /\ Succ(ridx) \in Chunks
      /\ Succ(ridx) = IF ridx + 1 = nr_chunks THEN 0 ELSE ridx + 1
  BY <1>1, SuccInRing DEF SInv
<1>3. TypeOK'
  <2>1. lo' \in [Chunks -> 0 .. ChunkSize] /\ hi' \in [Chunks -> 0 .. ChunkSize]
    BY <1>1, <1>2, ChunkAssumption DEF SInv, TypeOK
  <2>2. filled' \in [Chunks -> BOOLEAN] /\ ridx' \in Chunks
    BY <1>1, <1>2, <1>s DEF SInv, TypeOK
  <2>3. consumed' \in Nat /\ data' = data /\ written' = written /\ mem' = mem
        /\ rpos' = rpos /\ rsize' = rsize
    BY DEF SInv, TypeOK, buffer_consume
  <2>4. QED
    BY <1>0, <2>1, <2>2, <2>3 DEF SInv, TypeOK
<1>v. ASSUME NEW k \in Chunks
      PROVE  /\ filled'[k] <=> (filled[k] /\ (k # ridx \/ ~empty))
             /\ hi'[k] = (IF k = ridx /\ empty THEN 0 ELSE hi[k])
             /\ lo'[k] = (IF k = ridx THEN IF empty THEN 0 ELSE lo[k] + count ELSE lo[k])
  BY <1>1, <1>2 DEF SInv, TypeOK
<1>4. RingInv'
  <2> HIDE DEF empty
  <2>1. ASSUME NEW k \in Chunks PROVE filled'[k] <=> InRing(k)'
    <3>1. (filled[k] <=> InRing(k)) /\ (filled[widx] <=> InRing(widx))
          /\ (filled[Succ(ridx)] <=> InRing(Succ(ridx)))
      BY <1>1, <1>s DEF SInv, RingInv
    <3>2. /\ filled'[k] <=> (filled[k] /\ (k # ridx \/ ~empty))
          /\ filled'[widx] <=> (filled[widx] /\ (widx # ridx \/ ~empty))
          /\ filled'[ridx] <=> (filled[ridx] /\ ~empty)
          /\ filled'[Succ(ridx)]
               <=> (filled[Succ(ridx)] /\ (Succ(ridx) # ridx \/ ~empty))
      BY <1>1, <1>s, <1>v
    <3>3. /\ ridx \in Int /\ widx \in Int /\ k \in Int
          /\ 0 <= k /\ k < nr_chunks /\ 0 <= ridx /\ ridx < nr_chunks
          /\ 0 <= widx /\ widx < nr_chunks
      BY <1>1, <1>s DEF Chunks
    <3>4. CASE ~empty
      <4>1. widx' = widx /\ ridx' = ridx
        BY <1>0, <1>2, <3>4
      <4>2. QED BY <4>1, <1>1, <3>1, <3>2, <3>3, <3>4 DEF InRing
    <3>5. CASE empty
      <4>1. widx' = widx /\ ridx' = Succ(ridx)
        BY <1>0, <1>2, <3>5
      <4>2. CASE widx < ridx
        BY <4>1, <4>2, <1>1, <1>s, <3>1, <3>2, <3>3, <3>5 DEF InRing
      <4>3. CASE ridx < widx
        BY <4>1, <4>3, <1>1, <1>s, <3>1, <3>2, <3>3, <3>5 DEF InRing
      <4>4. CASE ridx = widx
        BY <4>1, <4>4, <1>1, <1>s, <3>1, <3>2, <3>3, <3>5 DEF InRing
      <4>5. QED BY <4>2, <4>3, <4>4, <3>3
    <3>6. QED BY <3>4, <3>5
  <2>2. QED BY <1>0, <2>1 DEF RingInv
<1>5. ShapeInv'
  <2>1. ASSUME NEW k \in Chunks
        PROVE  /\ filled'[k] => lo'[k] < hi'[k]
               /\ ~filled'[k] => lo'[k] = 0 /\ hi'[k] + MinFree <= ChunkSize
               /\ ~filled'[k] /\ k # widx' => hi'[k] = 0
    <3>1. /\ filled[k] => lo[k] < hi[k]
          /\ ~filled[k] => lo[k] = 0 /\ hi[k] + MinFree <= ChunkSize
          /\ ~filled[k] /\ k # widx => hi[k] = 0
      BY DEF SInv, ShapeInv
    <3>2. QED
      BY <1>0, <1>1, <1>v, <3>1, ChunkAssumption
  <2>2. QED BY <1>0, <2>1 DEF ShapeInv
<1>6. GrantInv'
  <2>1. wst # "idle" => ~filled[widx] /\ widx # ridx
    BY <1>1 DEF SInv, GrantInv
  <2>2. wst # "idle" => ~filled'[widx] /\ hi'[widx] = hi[widx]
    BY <1>1, <1>v, <2>1
  <2>3. QED
    BY <1>0, <2>1, <2>2 DEF SInv, GrantInv
<1>7. QED BY <1>3, <1>4, <1>5, <1>6 DEF SInv

(* Both ways of emptying the ring: a reset, and the end of a resize. *)
LEMMA EmptiedSInv ==
  ASSUME TypeOK, NEW n \in Sizes, Emptied(n), nr_chunks' = n, mem' = "live",
         NoPointers, UNCHANGED <<pvars, rvars, written>>, consumed' = written,
         data' \in [0 .. n - 1 -> [Offsets -> Nat]]
  PROVE  SInv'
<1>1. n \in Nat \ {0} /\ 0 \in 0 .. n - 1 /\ Chunks' = 0 .. n - 1 /\ Offsets' = Offsets
  BY SizesAssumption DEF Chunks, Offsets
<1>2. TypeOK'
  BY <1>1, ChunkAssumption DEF TypeOK, Emptied, pvars, rvars
<1>3. RingInv' /\ ShapeInv'
  BY <1>1, ChunkAssumption DEF RingInv, InRing, ShapeInv, Emptied
<1>4. GrantInv'
  BY DEF GrantInv, NoPointers, pvars, rvars
<1>5. QED BY <1>2, <1>3, <1>4 DEF SInv

LEMMA ResetSInv == SInv /\ buffer_reset => SInv'
BY EmptiedSInv DEF buffer_reset, SInv, TypeOK, Chunks

-----------------------------------------------------------------------------
(* What the ring's shape says about neighbours. *)
LEMMA RingFacts ==
  ASSUME SInv
  PROVE  /\ ridx # widx => filled[ridx] /\ ~filled[widx]
         /\ ~filled[widx] /\ Succ(widx) # ridx => ~filled[Succ(widx)]
         /\ filled[ridx] /\ ~filled[Succ(ridx)] => widx = Succ(ridx)
         /\ \A k, m \in Chunks : Succ(k) = Succ(m) => k = m
<1>1. /\ ridx \in Chunks /\ widx \in Chunks
      /\ nr_chunks \in Nat /\ nr_chunks > 0
  BY SuccInRing DEF SInv, TypeOK
<1>2. \A k \in Chunks : /\ Succ(k) \in Chunks
                        /\ Succ(k) = IF k + 1 = nr_chunks THEN 0 ELSE k + 1
  BY SuccInRing DEF SInv
<1>3. \A k \in Chunks : filled[k] <=> InRing(k)
  BY DEF SInv, RingInv
<1>4. \A k \in Chunks : k \in Int /\ 0 <= k /\ k < nr_chunks
  BY <1>1 DEF Chunks
<1>5. ridx # widx => filled[ridx] /\ ~filled[widx]
  BY <1>1, <1>3, <1>4 DEF InRing
<1>6. ~filled[widx] /\ Succ(widx) # ridx => ~filled[Succ(widx)]
  BY <1>1, <1>2, <1>3, <1>4 DEF InRing
<1>7. filled[ridx] /\ ~filled[Succ(ridx)] => widx = Succ(ridx)
  BY <1>1, <1>2, <1>3, <1>4 DEF InRing
<1>8. \A k, m \in Chunks : Succ(k) = Succ(m) => k = m
  BY <1>2, <1>4
<1>9. QED BY <1>5, <1>6, <1>7, <1>8

LEMMA InitDInv == Init => DInv
<1> SUFFICES ASSUME Init PROVE DInv
  OBVIOUS
<1>1. nr_chunks \in Nat \ {0} /\ 0 \in Chunks /\ \A k \in Chunks : hi[k] = 0 /\ lo[k] = 0
  BY SizesAssumption DEF Init, Chunks
<1>2. ~filled[0] /\ \A k \in Chunks : ~filled[k]
  BY <1>1 DEF Init
<1>3. QED
  <2>1. RunInv
    BY <1>1, ChunkAssumption DEF RunInv, Offsets
  <2>2. ChainInv /\ TailInv
    BY <1>1, <1>2 DEF ChainInv, TailInv, Init
  <2>3. HeadInv /\ FreshInv
    BY <1>1, <1>2 DEF HeadInv, FreshInv, Reported, Init
  <2>4. QED BY <2>1, <2>2, <2>3 DEF DInv

(* Steps that leave the memory, the ring and the counters alone. *)
LEMMA QuietDInv ==
  ASSUME DInv, UNCHANGED <<ring, data, written, consumed>>, Reported' = Reported,
         wst' # "read"
  PROVE  DInv'
<1>1. Chunks' = Chunks /\ Offsets' = Offsets
  BY DEF ring, Chunks, Offsets
<1>2. \A k : Succ(k)' = Succ(k) /\ EndOf(k)' = EndOf(k)
  BY DEF ring, Succ, EndOf
<1>3. RunInv' /\ ChainInv' /\ TailInv'
  BY <1>1, <1>2 DEF DInv, RunInv, ChainInv, TailInv, ring
<1>4. HeadInv' /\ FreshInv'
  BY DEF DInv, HeadInv, FreshInv, ring
<1>5. QED BY <1>3, <1>4 DEF DInv

LEMMA IpReadDInv ==
  ASSUME SInv, DInv, NEW n \in 0 .. ChunkSize, ip_read(n) PROVE DInv'
<1>0. /\ Chunks' = Chunks /\ Offsets' = Offsets /\ nr_chunks' = nr_chunks
      /\ lo' = lo /\ hi' = hi /\ filled' = filled /\ ridx' = ridx /\ widx' = widx
      /\ consumed' = consumed /\ wst = "granted" /\ wst' = "read" /\ wcount' = n
      /\ written' = written + n
      /\ \A k : Succ(k)' = Succ(k)
  BY DEF ip_read, ring, Chunks, Offsets, Succ
<1>1. /\ widx \in Chunks /\ ridx \in Chunks /\ hi[widx] \in 0 .. ChunkSize
      /\ lo[widx] = 0 /\ ~filled[widx] /\ written \in Nat
      /\ wpos = [chunk |-> widx, off |-> hi[widx]]
      /\ wsize = ChunkSize - hi[widx] /\ n <= wsize
  BY <1>0 DEF SInv, TypeOK, GrantInv, ShapeInv, ip_read
<1>2. Reported' = Reported /\ Reported = written
  BY <1>0, <1>1 DEF Reported
<1>3. \A k \in Chunks : k # widx => data'[k] = data[k]
  BY <1>1 DEF ip_read, SInv, TypeOK
<1>4. \A j \in Offsets :
        data'[widx][j] = IF hi[widx] <= j /\ j < hi[widx] + n
                         THEN written + (j - hi[widx]) ELSE data[widx][j]
  BY <1>1 DEF ip_read, SInv, TypeOK
<1>5. \A k \in Chunks : \A j \in Offsets : j < hi[k] => data'[k][j] = data[k][j]
  <2>1. SUFFICES ASSUME NEW k \in Chunks, NEW j \in Offsets, j < hi[k]
                 PROVE  data'[k][j] = data[k][j]
    OBVIOUS
  <2>2. j \in Int
    BY ChunkAssumption DEF Offsets
  <2>3. QED BY <1>1, <1>3, <1>4, <2>1, <2>2
<1>6. \A k \in Chunks : lo[k] < hi[k] =>
        lo[k] \in Offsets /\ data'[k][lo[k]] = data[k][lo[k]] /\ EndOf(k)' = EndOf(k)
  <2>1. SUFFICES ASSUME NEW k \in Chunks, lo[k] < hi[k]
                 PROVE  lo[k] \in Offsets /\ data'[k][lo[k]] = data[k][lo[k]]
                        /\ EndOf(k)' = EndOf(k)
    OBVIOUS
  <2>2. lo[k] \in Offsets
    BY <2>1, ChunkAssumption DEF SInv, TypeOK, Offsets
  <2>3. QED BY <1>0, <1>5, <2>1, <2>2 DEF EndOf
<1>s. \A k \in Chunks : /\ filled[k] => lo[k] < hi[k]
                        /\ ~filled[k] => lo[k] = 0
                        /\ hi[k] \in Nat
                        /\ Succ(k) \in Chunks
  BY SuccInRing DEF SInv, TypeOK, ShapeInv
<1>l. \A k \in Chunks : hi[k] > 0 => lo[k] < hi[k]
  BY <1>s
<1>7. RunInv'
  <2>1. SUFFICES ASSUME NEW k \in Chunks, NEW j \in Offsets, lo[k] <= j, j < hi[k]
                 PROVE  data'[k][j] = data'[k][lo[k]] + (j - lo[k])
    BY <1>0 DEF RunInv
  <2>2. lo[k] < hi[k]
    BY <2>1, ChunkAssumption DEF SInv, TypeOK, Offsets
  <2>3. QED BY <1>5, <1>6, <2>1, <2>2 DEF DInv, RunInv
<1>8. ChainInv'
  <2>1. SUFFICES ASSUME NEW k \in Chunks, filled[k], Succ(k) # ridx, hi[Succ(k)] > 0
                 PROVE  data'[Succ(k)][lo[Succ(k)]] = EndOf(k)'
    BY <1>0 DEF ChainInv
  <2>2. QED BY <1>6, <1>s, <1>l, <2>1 DEF DInv, ChainInv
<1>9. HeadInv'
  <2>1. hi[ridx] > 0 => data'[ridx][lo[ridx]] = data[ridx][lo[ridx]]
    BY <1>1, <1>l, <1>6
  <2>2. filled[ridx] => hi[ridx] > 0
    BY <1>1, <1>s, ChunkAssumption DEF SInv, TypeOK
  <2>3. ~filled[ridx] => lo[ridx] = 0
    BY <1>1, <1>s
  <2>4. QED BY <1>0, <1>2, <2>1, <2>2, <2>3 DEF DInv, HeadInv
<1>10. TailInv'
  BY <1>0, <1>1, <1>2, <1>6, <1>s, <1>l DEF DInv, TailInv
<1>11. FreshInv'
  BY <1>0, <1>2, <1>4 DEF FreshInv
<1>12. QED BY <1>7, <1>8, <1>9, <1>10, <1>11 DEF DInv

LEMMA FillDInv == SInv /\ DInv /\ buffer_fill => DInv'
<1> SUFFICES ASSUME SInv, DInv, buffer_fill PROVE DInv'
  OBVIOUS
<1> DEFINE h == hi[widx] + wcount
           closes == ChunkSize - h < MinFree \/ (wcount = 0 /\ h > 0)
<1>0. /\ Chunks' = Chunks /\ Offsets' = Offsets /\ nr_chunks' = nr_chunks
      /\ lo' = lo /\ ridx' = ridx /\ wst = "read" /\ wst' = "idle" /\ data' = data
      /\ written' = written /\ consumed' = consumed
      /\ \A k : Succ(k)' = Succ(k)
  BY DEF buffer_fill, Chunks, Offsets, Succ
<1>1. /\ widx \in Chunks /\ ridx \in Chunks /\ ~filled[widx] /\ lo[widx] = 0
      /\ h \in 0 .. ChunkSize /\ hi[widx] \in 0 .. ChunkSize
      /\ wcount \in 0 .. ChunkSize /\ written \in Nat
      /\ Succ(widx) \in Chunks
      /\ 0 \in Offsets /\ data[widx][0] \in Nat
  <2>1. widx \in Chunks /\ 0 \in Offsets
    BY ChunkAssumption DEF SInv, TypeOK, Offsets
  <2>2. Succ(widx) \in Chunks
    BY <2>1, SuccInRing DEF SInv
  <2>3. data[widx][0] \in Nat
    BY <2>1 DEF SInv, TypeOK
  <2>4. QED
    BY <2>1, <2>2, <2>3, ChunkAssumption DEF SInv, TypeOK, GrantInv, ShapeInv, buffer_fill
<1>2. /\ \A k \in Chunks : hi'[k] = IF k = widx THEN h ELSE hi[k]
      /\ \A k \in Chunks : filled'[k] <=> (IF k = widx THEN closes ELSE filled[k])
      /\ closes => widx' = Succ(widx)
      /\ ~closes => widx' = widx
  BY <1>1 DEF buffer_fill, Closes, SInv, TypeOK
<1>3. /\ Reported = written - wcount /\ Reported \in Int
      /\ Reported' = Reported + wcount
  BY <1>0, <1>1 DEF Reported
<1>4. \A j \in Offsets : hi[widx] <= j /\ j < h =>
        data[widx][j] = Reported + (j - hi[widx])
  BY <1>0, <1>3 DEF DInv, FreshInv
<1>o. \A j \in Offsets : j \in Int /\ j >= 0
  BY ChunkAssumption DEF Offsets
<1>5. /\ hi[widx] > 0 => data[widx][0] + hi[widx] = Reported
      /\ hi[widx] = 0 /\ wcount > 0 => data[widx][0] = Reported
  <2>1. hi[widx] > 0 => data[widx][0] + hi[widx] = Reported
    BY <1>1 DEF DInv, TailInv, EndOf
  <2>2. QED BY <1>1, <1>3, <1>4, <2>1
<1>6. h > 0 => data[widx][0] + h = Reported'
  BY <1>1, <1>3, <1>5
<1>t. \A k \in Chunks :
        /\ filled[k] => lo[k] < hi[k]
        /\ hi[k] \in Nat /\ lo[k] \in Nat /\ Succ(k) \in Chunks
        /\ k # widx => EndOf(k)' = EndOf(k)
        /\ ~filled[k] /\ k # widx => hi[k] = 0
  BY <1>0, <1>2, SuccInRing DEF SInv, TypeOK, ShapeInv, EndOf
<1>e. \A k \in Chunks : k = widx => EndOf(k)' = data[k][0] + h
  BY <1>0, <1>1, <1>2 DEF EndOf
<1> HIDE DEF h, closes
<1>7. RunInv'
  <2>1. SUFFICES ASSUME NEW k \in Chunks, NEW j \in Offsets, lo[k] <= j, j < hi'[k]
                 PROVE  data[k][j] = data[k][lo[k]] + (j - lo[k])
    BY <1>0 DEF RunInv
  <2>2. CASE k # widx \/ j < hi[widx]
    BY <1>2, <2>1, <2>2 DEF DInv, RunInv
  <2>3. CASE k = widx /\ ~(j < hi[widx])
    <3>1. lo[k] = 0 /\ data[widx][j] = Reported + (j - hi[widx])
      BY <1>1, <1>2, <1>4, <1>o, <2>1, <2>3
    <3>2. data[widx][0] = Reported - hi[widx]
      <4>2. CASE hi[widx] > 0
        BY <1>1, <1>3, <1>5, <4>2
      <4>3. CASE hi[widx] = 0
        <5>1. wcount > 0
          BY <1>1, <1>2, <1>o, <2>1, <2>3, <4>3 DEF h
        <5>2. QED BY <1>3, <1>5, <4>3, <5>1
      <4>4. QED BY <1>1, <4>2, <4>3
    <3>3. QED BY <1>1, <1>3, <1>o, <2>3, <3>1, <3>2
  <2>4. QED BY <2>2, <2>3
<1>8. ChainInv'
  <2>1. SUFFICES ASSUME NEW k \in Chunks, filled'[k], Succ(k) # ridx, hi'[Succ(k)] > 0
                 PROVE  data[Succ(k)][lo[Succ(k)]] = EndOf(k)'
    BY <1>0 DEF ChainInv
  <2>2. CASE k = widx
    <3>1. Succ(widx) # widx
      <4>1. SUFFICES ASSUME Succ(widx) = widx PROVE FALSE
        OBVIOUS
      <4>2. nr_chunks = 1
        BY <1>1, <4>1, SuccInRing DEF SInv, Chunks
      <4>3. QED BY <1>1, <2>1, <2>2, <4>2, <4>1 DEF Chunks
    <3>2. hi[Succ(widx)] = 0
      BY <1>1, <1>t, <2>1, <2>2, <3>1, RingFacts
    <3>3. QED BY <1>1, <1>2, <2>1, <2>2, <3>1, <3>2
  <2>3. CASE k # widx /\ Succ(k) # widx
    BY <1>2, <1>t, <2>1, <2>3 DEF DInv, ChainInv
  <2>4. CASE k # widx /\ Succ(k) = widx
    <3>1. filled[k] /\ EndOf(k)' = EndOf(k)
      BY <1>2, <1>t, <2>1, <2>4
    <3>2. CASE hi[widx] > 0
      BY <1>t, <2>1, <2>4, <3>1, <3>2 DEF DInv, ChainInv
    <3>3. CASE hi[widx] = 0
      <4>1. EndOf(k) = Reported
        BY <2>4, <3>1, <3>3 DEF DInv, TailInv
      <4>2. wcount > 0
        BY <1>1, <1>2, <2>1, <2>4, <3>3 DEF h
      <4>3. QED BY <1>1, <1>5, <2>4, <3>1, <3>3, <4>1, <4>2
    <3>4. QED BY <1>1, <3>2, <3>3
  <2>5. QED BY <2>2, <2>3, <2>4
<1>9. HeadInv'
  <2>1. CASE ridx # widx
    <3>1. filled[ridx] /\ filled'[ridx]
      BY <1>1, <1>2, <2>1, RingFacts
    <3>2. QED BY <1>0, <3>1 DEF DInv, HeadInv
  <2>2. CASE ridx = widx
    <3>1. hi[widx] > 0 => data[widx][0] = consumed
      BY <1>1, <2>2 DEF DInv, HeadInv
    <3>2. hi[widx] = 0 => Reported = consumed
      BY <1>1, <2>2 DEF DInv, HeadInv
    <3>3. h > 0 => data[widx][0] = consumed
      BY <1>1, <1>5, <3>1, <3>2 DEF h
    <3>4. h = 0 => Reported' = consumed
      BY <1>1, <1>3, <3>2 DEF h
    <3>5. hi'[ridx] = h /\ lo'[ridx] = 0 /\ (filled'[ridx] => h > 0)
      BY <1>0, <1>1, <1>2, <2>2, ChunkAssumption DEF closes
    <3>6. QED BY <1>0, <1>1, <2>2, <3>3, <3>4, <3>5 DEF HeadInv
  <2>3. QED BY <2>1, <2>2
<1>10. TailInv'
  <2>1. CASE ~closes
    <3>1. widx' = widx /\ hi'[widx] = h /\ ~filled'[widx]
      BY <1>1, <1>2, <2>1
    <3>2. ASSUME NEW k \in Chunks, filled'[k], Succ(k) = widx, h = 0
          PROVE  EndOf(k)' = Reported'
      <4>1. k # widx /\ filled[k] /\ hi[widx] = 0 /\ wcount = 0
        BY <1>1, <1>2, <3>1, <3>2 DEF h
      <4>2. EndOf(k) = Reported /\ EndOf(k)' = EndOf(k)
        BY <1>t, <3>2, <4>1 DEF DInv, TailInv
      <4>3. QED BY <1>3, <4>1, <4>2
    <3>3. h > 0 => data'[widx'][lo'[widx']] + (hi'[widx'] - lo'[widx']) = Reported'
      BY <1>0, <1>1, <1>6, <3>1
    <3>4. ~filled'[widx'] /\ hi'[widx'] > 0 => EndOf(widx)' = Reported'
      BY <3>1, <3>3 DEF EndOf
    <3>5. QED BY <1>0, <3>1, <3>2, <3>4 DEF TailInv
  <2>2. CASE closes
    <3>1. widx' = Succ(widx) /\ h > 0
      BY <1>1, <1>2, <2>2, ChunkAssumption DEF closes
    <3>2. \A k \in Chunks : k = widx => EndOf(k)' = Reported'
      BY <1>6, <1>e, <3>1
    <3>3. ~filled'[Succ(widx)] => hi'[Succ(widx)] = 0
      BY <1>1, <1>2, <1>t, <2>2
    <3>4. \A k \in Chunks : Succ(k) = Succ(widx) => k = widx
      BY <1>1, RingFacts
    <3>5. hi'[Succ(widx)] \in Nat
      BY <1>1, <1>2, <1>t
    <3>6. QED BY <1>0, <3>1, <3>2, <3>3, <3>4, <3>5 DEF TailInv
  <2>3. QED BY <2>1, <2>2
<1>11. FreshInv'
  BY <1>0 DEF FreshInv
<1>12. QED BY <1>7, <1>8, <1>9, <1>10, <1>11 DEF DInv

LEMMA ConsumeDInv ==
  ASSUME SInv, DInv, NEW count \in 0 .. ChunkSize, buffer_consume(count)
  PROVE  DInv'
<1> DEFINE empty == lo[ridx] + count = hi[ridx]
<1>0. /\ Chunks' = Chunks /\ Offsets' = Offsets /\ nr_chunks' = nr_chunks
      /\ widx' = widx /\ data' = data /\ written' = written
      /\ consumed' = consumed + count /\ wst' = wst /\ wcount' = wcount
      /\ Reported' = Reported
      /\ \A k : Succ(k)' = Succ(k)
  BY DEF buffer_consume, Chunks, Offsets, pvars, Succ, Reported
<1>1. /\ widx \in Chunks /\ ridx \in Chunks /\ filled[ridx] /\ Succ(ridx) \in Chunks
      /\ lo[ridx] \in Nat /\ hi[ridx] \in 0 .. ChunkSize /\ lo[ridx] < hi[ridx]
      /\ lo[ridx] + count <= hi[ridx] /\ consumed \in Nat
  <2>1. ridx \in Chunks /\ widx \in Chunks
    BY DEF SInv, TypeOK
  <2>2. Succ(ridx) \in Chunks
    BY <2>1, SuccInRing DEF SInv
  <2>3. QED
    BY <2>1, <2>2, ChunkAssumption DEF SInv, TypeOK, GrantInv, ShapeInv, buffer_consume
<1>2. /\ \A k \in Chunks : filled'[k] <=> (filled[k] /\ (k # ridx \/ ~empty))
      /\ \A k \in Chunks : hi'[k] = (IF k = ridx /\ empty THEN 0 ELSE hi[k])
      /\ \A k \in Chunks : lo'[k] = (IF k = ridx THEN IF empty THEN 0 ELSE lo[k] + count
                                   ELSE lo[k])
      /\ empty => ridx' = Succ(ridx)
      /\ ~empty => ridx' = ridx
  BY <1>1 DEF buffer_consume, SInv, TypeOK
<1>3. /\ ~empty => lo[ridx] + count \in Offsets
      /\ lo[ridx] \in Offsets
      /\ data[ridx] \in [Offsets -> Nat]
  <2>1. data[ridx] \in [Offsets -> Nat]
    BY <1>1 DEF SInv, TypeOK
  <2>2. lo[ridx] \in Offsets /\ (~empty => lo[ridx] + count \in Offsets)
    BY <1>1, ChunkAssumption DEF Offsets
  <2>3. QED BY <2>1, <2>2
<1>4. ~empty => data[ridx][lo[ridx] + count] = data[ridx][lo[ridx]] + count
  <2>1. SUFFICES ASSUME ~empty
                 PROVE  data[ridx][lo[ridx] + count] = data[ridx][lo[ridx]] + count
    OBVIOUS
  <2>2. data[ridx][lo[ridx] + count]
          = data[ridx][lo[ridx]] + ((lo[ridx] + count) - lo[ridx])
    BY <1>1, <1>3, <2>1 DEF DInv, RunInv
  <2>3. QED BY <1>1, <2>2
<1>5. data[ridx][lo[ridx]] = consumed
  BY <1>1 DEF DInv, HeadInv
<1>t. \A k \in Chunks :
        /\ hi[k] \in Nat /\ lo[k] \in Nat /\ Succ(k) \in Chunks
        /\ k # ridx => EndOf(k)' = EndOf(k)
        /\ ~filled[k] => lo[k] = 0
        /\ ~filled[k] /\ k # widx => hi[k] = 0
  BY <1>0, <1>2, SuccInRing DEF SInv, TypeOK, ShapeInv, EndOf
<1>e. ~empty => \A k \in Chunks : EndOf(k)' = EndOf(k)
  <2>1. SUFFICES ASSUME ~empty, NEW k \in Chunks PROVE EndOf(k)' = EndOf(k)
    OBVIOUS
  <2>2. CASE k = ridx
    <3>1. lo'[k] = lo[ridx] + count /\ hi'[k] = hi[ridx]
      BY <1>1, <1>2, <2>1, <2>2
    <3>2. data[ridx][lo[ridx]] \in Nat
      BY <1>3
    <3>3. QED BY <1>0, <1>1, <1>4, <2>1, <2>2, <3>1, <3>2 DEF EndOf
  <2>3. QED BY <1>t, <2>2
<1> HIDE DEF empty
<1>7. RunInv'
  <2>1. SUFFICES ASSUME NEW k \in Chunks, NEW j \in Offsets, lo'[k] <= j, j < hi'[k]
                 PROVE  data[k][j] = data[k][lo'[k]] + (j - lo'[k])
    BY <1>0 DEF RunInv
  <2>o. j \in Int /\ j >= 0
    BY ChunkAssumption DEF Offsets
  <2>2. CASE k # ridx
    BY <1>2, <2>1, <2>2 DEF DInv, RunInv
  <2>3. CASE k = ridx
    <3>1. ~empty /\ lo'[k] = lo[ridx] + count /\ hi'[k] = hi[ridx]
      BY <1>1, <1>2, <2>1, <2>3, <2>o
    <3>2. data[ridx][j] = data[ridx][lo[ridx]] + (j - lo[ridx])
      BY <1>1, <2>1, <2>3, <2>o, <3>1 DEF DInv, RunInv
    <3>3. data[ridx][lo[ridx]] \in Nat
      BY <1>3
    <3>4. QED BY <1>1, <1>4, <2>3, <2>o, <3>1, <3>2, <3>3
  <2>4. QED BY <2>2, <2>3
<1>8. ChainInv'
  <2>1. SUFFICES ASSUME NEW k \in Chunks, filled'[k], Succ(k) # ridx', hi'[Succ(k)] > 0
                 PROVE  data[Succ(k)][lo'[Succ(k)]] = EndOf(k)'
    BY <1>0 DEF ChainInv
  <2>2. CASE ~empty
    BY <1>0, <1>2, <1>t, <1>e, <2>1, <2>2 DEF DInv, ChainInv
  <2>3. CASE empty
    <3>1. k # ridx /\ filled[k] /\ Succ(k) # ridx
      BY <1>1, <1>2, <1>t, <2>1, <2>3
    <3>2. QED BY <1>2, <1>t, <2>1, <2>3, <3>1 DEF DInv, ChainInv
  <2>4. QED BY <2>2, <2>3
<1>9. HeadInv'
  <2>1. CASE ~empty
    <3>1. ridx' = ridx /\ filled'[ridx] /\ lo'[ridx] = lo[ridx] + count
      BY <1>1, <1>2, <2>1
    <3>2. QED BY <1>0, <1>4, <1>5, <2>1, <3>1 DEF HeadInv
  <2>2. CASE empty
    <3>1. ridx' = Succ(ridx) /\ count = hi[ridx] - lo[ridx]
      BY <1>1, <1>2, <2>2 DEF empty
    <3>2. EndOf(ridx) = consumed + count
      BY <1>5, <3>1 DEF EndOf
    <3>3. CASE Succ(ridx) = ridx
      <4>1. widx = ridx
        <5>1. nr_chunks = 1
          BY <1>1, <3>3, SuccInRing DEF SInv, Chunks
        <5>2. QED BY <1>1, <5>1 DEF Chunks
      <4>2. EndOf(ridx) = Reported
        BY <1>1, <3>3, <4>1 DEF DInv, TailInv
      <4>3. ~filled'[ridx'] /\ hi'[ridx'] = 0
        BY <1>1, <1>2, <2>2, <3>1, <3>3
      <4>4. QED BY <1>0, <3>2, <4>2, <4>3 DEF HeadInv
    <3>4. CASE Succ(ridx) # ridx
      <4>1. /\ filled'[ridx'] <=> filled[Succ(ridx)]
            /\ hi'[ridx'] = hi[Succ(ridx)] /\ lo'[ridx'] = lo[Succ(ridx)]
        BY <1>1, <1>2, <3>1, <3>4
      <4>2. hi[Succ(ridx)] > 0 => data[Succ(ridx)][lo[Succ(ridx)]] = EndOf(ridx)
        BY <1>1, <3>4 DEF DInv, ChainInv
      <4>3. ~filled[Succ(ridx)] => widx = Succ(ridx) /\ lo[Succ(ridx)] = 0
        BY <1>1, <1>t, RingFacts
      <4>4. ~filled[Succ(ridx)] /\ hi[Succ(ridx)] = 0 => EndOf(ridx) = Reported
        BY <1>1, <4>3 DEF DInv, TailInv
      <4>5. filled[Succ(ridx)] => hi[Succ(ridx)] > 0
        BY <1>1, <1>t DEF SInv, ShapeInv
      <4>6. QED
        BY <1>0, <3>1, <3>2, <4>1, <4>2, <4>3, <4>4, <4>5 DEF HeadInv
    <3>5. QED BY <3>3, <3>4
  <2>3. QED BY <2>1, <2>2
<1>10. TailInv'
  <2>1. ~filled'[widx] /\ hi'[widx] > 0 => widx # ridx /\ ~filled[widx]
    BY <1>1, <1>2
  <2>2. ~filled'[widx] /\ hi'[widx] > 0 =>
          data[widx][lo'[widx]] + (hi'[widx] - lo'[widx]) = Reported
    BY <1>1, <1>2, <2>1 DEF DInv, TailInv, EndOf
  <2>3. ASSUME NEW k \in Chunks, filled'[k], Succ(k) = widx,
               filled'[widx] \/ hi'[widx] = 0
        PROVE  EndOf(k)' = Reported
    <3>1. filled[k] /\ EndOf(k)' = EndOf(k)
      BY <1>2, <1>t, <1>e, <2>3
    <3>2. filled[widx] \/ hi[widx] = 0
      BY <1>1, <1>2, <2>3
    <3>3. QED BY <2>3, <3>1, <3>2 DEF DInv, TailInv
  <2>4. ~filled'[widx'] /\ hi'[widx'] > 0 => EndOf(widx)' = Reported'
    BY <1>0, <2>2 DEF EndOf
  <2>5. QED BY <1>0, <2>3, <2>4 DEF TailInv
<1>11. FreshInv'
  <2>1. wst = "read" => widx # ridx /\ hi'[widx] = hi[widx]
    BY <1>1, <1>2 DEF SInv, GrantInv
  <2>2. QED BY <1>0, <2>1 DEF DInv, FreshInv
<1>12. QED BY <1>7, <1>8, <1>9, <1>10, <1>11 DEF DInv

(* Memory without contents has the right types all the same. *)
LEMMA GarbageTyped ==
  ASSUME TypeOK, NEW n \in Sizes, Garbage(n), nr_chunks' = n,
         mem' \in {"freed", "raw"}, ridx' = 0, widx' = 0,
         UNCHANGED <<pvars, rvars, written, consumed>>
  PROVE  TypeOK'
<1>1. n \in Nat \ {0} /\ 0 \in 0 .. n - 1 /\ Chunks' = 0 .. n - 1 /\ Offsets' = Offsets
  BY SizesAssumption DEF Chunks, Offsets
<1>2. 0 \in 0 .. ChunkSize
  BY ChunkAssumption
<1>3. /\ data' \in [0 .. n - 1 -> [Offsets -> Nat]]
      /\ lo' \in [0 .. n - 1 -> 0 .. ChunkSize]
      /\ hi' \in [0 .. n - 1 -> 0 .. ChunkSize]
      /\ filled' \in [0 .. n - 1 -> BOOLEAN]
  BY <1>2 DEF Garbage
<1>4. QED BY <1>1, <1>3 DEF TypeOK, pvars, rvars

LEMMA EmptiedDInv ==
  ASSUME TypeOK, NEW n \in Sizes, Emptied(n), nr_chunks' = n,
         NoPointers, UNCHANGED <<pvars, rvars, written>>, consumed' = written
  PROVE  DInv'
<1>1. n \in Nat \ {0} /\ 0 \in 0 .. n - 1 /\ Chunks' = 0 .. n - 1 /\ Offsets' = Offsets
  BY SizesAssumption DEF Chunks, Offsets
<1>2. \A k \in Chunks' : hi'[k] = 0 /\ lo'[k] = 0 /\ ~filled'[k]
  BY <1>1 DEF Emptied
<1>3. ridx' = 0 /\ widx' = 0 /\ wst' = "idle" /\ Reported' = written
  BY DEF Emptied, NoPointers, pvars, Reported, TypeOK
<1>4. RunInv'
  BY <1>1, <1>2, ChunkAssumption DEF RunInv, Offsets
<1>5. ChainInv' /\ TailInv'
  BY <1>1, <1>2, <1>3 DEF ChainInv, TailInv
<1>6. HeadInv' /\ FreshInv'
  BY <1>1, <1>2, <1>3 DEF HeadInv, FreshInv
<1>7. QED BY <1>4, <1>5, <1>6 DEF DInv

LEMMA HeldStep == Held /\ [Next]_vars => RingIInv'
<1> SUFFICES ASSUME SInv, DInv, mem = "live", [Next]_vars PROVE RingIInv'
  BY DEF Held
<1>1. CASE UNCHANGED vars
  <2>1. SInv'
    BY <1>1 DEF vars, SInv, TypeOK, RingInv, InRing, ShapeInv, GrantInv, Chunks, Offsets
  <2>2. DInv' /\ mem' = "live"
    BY <1>1 DEF vars, DInv, RunInv, ChainInv, HeadInv, TailInv, FreshInv,
                Chunks, Offsets, Succ, EndOf, Reported
  <2>3. QED BY <2>1, <2>2 DEF RingIInv, Held
<1>2. CASE buffer_get_wpos
  <2>1. DInv' /\ mem' = "live"
    BY <1>2, QuietDInv DEF buffer_get_wpos, Reported
  <2>2. QED BY <1>2, <2>1, WposSInv DEF RingIInv, Held
<1>3. CASE \E n \in 0 .. ChunkSize : ip_read(n)
  <2>1. mem' = "live"
    BY <1>3 DEF ip_read
  <2>2. QED BY <1>3, <2>1, IpReadSInv, IpReadDInv DEF RingIInv, Held
<1>4. CASE ip_read_again
  <2>1. DInv' /\ mem' = "live"
    BY <1>4, QuietDInv DEF ip_read_again, Reported
  <2>2. QED BY <1>4, <2>1, IpReadAgainSInv DEF RingIInv, Held
<1>5. CASE buffer_fill
  <2>1. mem' = "live"
    BY <1>5 DEF buffer_fill
  <2>2. QED BY <1>5, <2>1, FillSInv, FillDInv DEF RingIInv, Held
<1>6. CASE buffer_get_rpos \/ op_write_failed
  <2>1. UNCHANGED <<ring, mem, data, written, consumed, wst, wcount, wpos, wsize>>
    BY <1>6 DEF buffer_get_rpos, op_write_failed, pvars
  <2>2. DInv'
    BY <2>1 DEF DInv, RunInv, ChainInv, HeadInv, TailInv, FreshInv,
                Chunks, Offsets, Succ, EndOf, Reported, ring
  <2>3. QED BY <1>6, <2>1, <2>2, RposSInv, WriteFailedSInv DEF RingIInv, Held
<1>7. CASE \E count \in 0 .. ChunkSize : buffer_consume(count)
  <2>1. mem' = "live"
    BY <1>7 DEF buffer_consume
  <2>2. QED BY <1>7, <2>1, ConsumeSInv, ConsumeDInv DEF RingIInv, Held
<1>8. CASE buffer_reset
  <2>1. DInv' /\ mem' = "live"
    BY <1>8, EmptiedDInv DEF buffer_reset, SInv, TypeOK
  <2>2. QED BY <1>8, <2>1, ResetSInv DEF RingIInv, Held
<1>9. CASE \E n \in Sizes : set_buffer_chunks(n)
  <2>1. PICK n \in Sizes : set_buffer_chunks(n)
    BY <1>9
  <2>2. /\ mem' = "freed" /\ nr_chunks' = n /\ Garbage(n) /\ NoPointers
        /\ ridx' = 0 /\ widx' = 0
        /\ UNCHANGED <<pvars, rvars, written, consumed>>
    BY <2>1 DEF set_buffer_chunks
  <2>3. consumed = written
    <3>1. ~filled[ridx] /\ hi[ridx] = 0 /\ Reported = written
      BY <2>1 DEF set_buffer_chunks, NoPointers, Reported, SInv, TypeOK
    <3>2. QED BY <3>1 DEF DInv, HeadInv
  <2>4. TypeOK' /\ NoPointers'
    BY <2>2, GarbageTyped DEF SInv, NoPointers, pvars, rvars
  <2>5. QED BY <2>2, <2>3, <2>4 DEF RingIInv, Resizing
<1>10. CASE buffer_init_alloc \/ buffer_init_reset
  BY <1>10 DEF buffer_init_alloc, buffer_init_reset
<1>11. QED
  BY <1>1, <1>2, <1>3, <1>4, <1>5, <1>6, <1>7, <1>8, <1>9, <1>10 DEF Next

LEMMA ResizeStep == Resizing /\ [Next]_vars => RingIInv'
<1> SUFFICES ASSUME Resizing, [Next]_vars PROVE RingIInv'
  OBVIOUS
<1>0. /\ TypeOK /\ NoPointers /\ mem # "live" /\ nr_chunks \in Sizes
      /\ ridx = 0 /\ widx = 0
  BY DEF Resizing, TypeOK
<1>1. CASE UNCHANGED vars
  BY <1>1 DEF vars, RingIInv, Resizing, NoPointers, TypeOK, Chunks, Offsets
<1>2. CASE buffer_init_alloc
  <2>1. TypeOK' /\ NoPointers'
    BY <1>0, <1>2, GarbageTyped DEF buffer_init_alloc, NoPointers, pvars, rvars
  <2>2. QED BY <1>2, <2>1 DEF RingIInv, Resizing, buffer_init_alloc
<1>3. CASE buffer_init_reset
  <2>1. /\ Emptied(nr_chunks) /\ nr_chunks' = nr_chunks /\ mem' = "live"
        /\ consumed' = written /\ UNCHANGED <<pvars, rvars, written>>
    BY <1>3 DEF buffer_init_reset, Resizing
  <2>2. data' \in [0 .. nr_chunks - 1 -> [Offsets -> Nat]]
    BY <1>0, <1>3 DEF buffer_init_reset, TypeOK, Chunks
  <2>3. SInv'
    BY <1>0, <2>1, <2>2, EmptiedSInv
  <2>4. DInv'
    BY <1>0, <2>1, EmptiedDInv
  <2>5. QED BY <2>1, <2>3, <2>4 DEF RingIInv, Held
<1>4. CASE \/ buffer_get_wpos \/ (\E n \in 0 .. ChunkSize : ip_read(n))
           \/ ip_read_again \/ buffer_fill \/ buffer_get_rpos \/ op_write_failed
           \/ (\E count \in 0 .. ChunkSize : buffer_consume(count))
           \/ buffer_reset \/ (\E n \in Sizes : set_buffer_chunks(n))
  BY <1>0, <1>4
     DEF NoPointers, buffer_get_wpos, ip_read, ip_read_again, buffer_fill,
         buffer_get_rpos, op_write_failed, buffer_consume, buffer_reset,
         set_buffer_chunks
<1>5. QED BY <1>1, <1>2, <1>3, <1>4 DEF Next

LEMMA RingInvAlways == Spec => []RingIInv
<1>1. Init => RingIInv
  BY InitSInv, InitDInv DEF RingIInv, Held, Init
<1>2. RingIInv /\ [Next]_vars => RingIInv'
  BY HeldStep, ResizeStep DEF RingIInv
<1>3. QED BY <1>1, <1>2, PTL DEF Spec

-----------------------------------------------------------------------------
(* The results. *)

(* Indices stay inside the ring, l and h inside the chunk, for rings of    *)
(* every size: no buffer.c operation addresses memory outside its array.   *)
THEOREM TypeCorrect == Spec => []TypeOK
<1>1. RingIInv => TypeOK
  BY DEF RingIInv, Held, Resizing, SInv
<1>2. QED BY <1>1, RingInvAlways, PTL

(* The comment at the top of buffer.c: consumer and producer never hold    *)
(* pointers into the same chunk, so the bytes need no lock.                *)
THEOREM ChunksAreExclusive == Spec => []ChunkExclusive
<1>1. RingIInv => ChunkExclusive
  BY DEF RingIInv, Held, Resizing, NoPointers, SInv, TypeOK, GrantInv, ChunkExclusive
<1>2. QED BY <1>1, RingInvAlways, PTL

(* The comment of buffer_get_wpos: a write position always has room for    *)
(* at least 1024 bytes.                                                    *)
THEOREM WposHasRoom == Spec => []RoomToWrite
<1>1. RingIInv => RoomToWrite
  BY ChunkAssumption DEF RingIInv, Held, Resizing, NoPointers, SInv, TypeOK, ShapeInv, GrantInv, RoomToWrite
<1>2. QED BY <1>1, RingInvAlways, PTL

(* The BUG_ONs of buffer_fill and buffer_consume never fire. *)
THEOREM BugOnsNeverFire == Spec => []BugOnsHold
<1>1. RingIInv => BugOnsHold
  BY DEF RingIInv, Held, Resizing, NoPointers, SInv, GrantInv, BugOnsHold
<1>2. QED BY <1>1, RingInvAlways, PTL

(* buffer_get_filled_chunks counts the chunks marked filled. *)
THEOREM FilledCountIsRight == Spec => []FilledInRingOrder
<1>1. ASSUME SInv, mem = "live" PROVE FilledInRingOrder
  <2>1. /\ ridx \in Chunks /\ widx \in Chunks
        /\ nr_chunks \in Nat /\ nr_chunks > 0
    BY <1>1, SuccInRing DEF SInv, TypeOK
  <2>2. SUFFICES ASSUME NEW i \in Chunks
                 PROVE  filled[i] <=>
                          (i - ridx + (IF i < ridx THEN nr_chunks ELSE 0))
                             < buffer_get_filled_chunks
    BY <1>1 DEF FilledInRingOrder
  <2>3. filled[i] <=> InRing(i)
    BY <1>1 DEF SInv, RingInv
  <2>4. /\ i \in Int /\ 0 <= i /\ i < nr_chunks /\ ridx \in Int /\ widx \in Int
        /\ 0 <= ridx /\ ridx < nr_chunks /\ 0 <= widx /\ widx < nr_chunks
    BY <2>1 DEF Chunks
  <2>5. QED BY <2>1, <2>3, <2>4 DEF InRing, buffer_get_filled_chunks
<1>2. RingIInv => FilledInRingOrder
  BY <1>1 DEF RingIInv, Held, Resizing, FilledInRingOrder
<1>3. QED BY <1>2, RingInvAlways, PTL

(* The device receives the decoder's bytes in order, each exactly once,    *)
(* whatever the interleaving of the two threads: partial reads and writes, *)
(* closing a chunk early at end of file, wrap-around and resets included.  *)
THEOREM DeliveredInOrder == Spec => []InOrder
<1>1. ASSUME SInv, DInv PROVE InOrder
  <2>1. SUFFICES ASSUME rst = "granted"
                 PROVE  /\ rsize > 0
                        /\ \A j \in 0 .. rsize - 1 :
                             data[rpos.chunk][rpos.off + j] = consumed + j
    BY DEF InOrder
  <2>2. /\ ridx \in Chunks /\ filled[ridx] /\ rpos.chunk = ridx /\ rpos.off = lo[ridx]
        /\ rsize = hi[ridx] - lo[ridx] /\ lo[ridx] < hi[ridx]
        /\ lo[ridx] \in Nat /\ hi[ridx] \in 0 .. ChunkSize
    BY <1>1, <2>1 DEF SInv, TypeOK, ShapeInv, GrantInv
  <2>3. data[ridx][lo[ridx]] = consumed
    BY <1>1, <2>2 DEF DInv, HeadInv
  <2>4. ASSUME NEW j \in 0 .. rsize - 1
        PROVE  data[ridx][lo[ridx] + j] = consumed + j
    <3>1. lo[ridx] + j \in Offsets /\ lo[ridx] <= lo[ridx] + j /\ lo[ridx] + j < hi[ridx]
      BY <2>2, ChunkAssumption DEF Offsets
    <3>2. data[ridx][lo[ridx] + j] = data[ridx][lo[ridx]] + ((lo[ridx] + j) - lo[ridx])
      BY <1>1, <2>2, <3>1 DEF DInv, RunInv
    <3>3. QED BY <2>2, <2>3, <3>2
  <2>5. QED BY <2>2, <2>4
<1>2. RingIInv => InOrder
  BY <1>1 DEF RingIInv, Held, Resizing, NoPointers, InOrder
<1>3. QED BY <1>2, RingInvAlways, PTL

(* With a count of 0 no chunk is filled, and both indices meet. *)
NoneFilled == ridx = widx /\ \A k \in Chunks : ~filled[k]

LEMMA CountZero == SInv /\ buffer_get_filled_chunks = 0 => NoneFilled
<1> SUFFICES ASSUME SInv, buffer_get_filled_chunks = 0 PROVE NoneFilled
  OBVIOUS
<1>1. /\ ridx \in Chunks /\ widx \in Chunks
      /\ nr_chunks \in Nat /\ nr_chunks > 0
  BY SuccInRing DEF SInv, TypeOK
<1>2. ridx \in Int /\ ridx < nr_chunks /\ widx \in Int /\ 0 <= widx
  BY <1>1 DEF Chunks
<1>3. ridx = widx /\ ~filled[ridx]
  BY <1>1, <1>2 DEF buffer_get_filled_chunks
<1>4. QED BY <1>2, <1>3 DEF SInv, RingInv, InRing, NoneFilled

(* The sizes, the BUG_ONs and the count of filled chunks, together: what   *)
(* the player relies on when it uses a position after the unlock.          *)
THEOREM RingIsSound == Spec => []RingSound
BY TypeCorrect, WposHasRoom, BugOnsNeverFire, FilledCountIsRight, PTL DEF RingSound

(* Reporting end of file with a fill of 0 strands no byte in an unclosed   *)
(* chunk: either something is left for the consumer, or all was consumed.  *)
THEOREM EofStrandsNothing == Spec => NothingLeftBehind
<1>0. (SInv /\ buffer_get_filled_chunks = 0 => NoneFilled)'
  BY CountZero, PTL
<1>1. ASSUME SInv, DInv, buffer_fill, wcount = 0, buffer_get_filled_chunks' = 0
      PROVE  consumed = written
  <2>1. NoneFilled'
    BY <1>0, <1>1, FillSInv
  <2>2. /\ widx \in Chunks /\ Chunks' = Chunks /\ ridx' = ridx /\ ~filled[widx]
        /\ hi[widx] \in 0 .. ChunkSize /\ written \in Nat
        /\ filled' = [filled EXCEPT ![widx] = filled[widx] \/ Closes(0)]
        /\ widx' = IF Closes(0) THEN Succ(widx) ELSE widx
    BY <1>1 DEF SInv, TypeOK, GrantInv, buffer_fill, Chunks
  <2>3. ~filled'[widx] /\ ridx' = widx'
    BY <2>1, <2>2 DEF NoneFilled
  <2>4. ~Closes(0)
    BY <1>1, <2>2, <2>3 DEF SInv, TypeOK
  <2>5. hi[widx] = 0
    BY <2>2, <2>4 DEF Closes
  <2>6. ridx = widx
    BY <2>2, <2>3, <2>4
  <2>7. QED
    BY <1>1, <2>2, <2>5, <2>6 DEF DInv, HeadInv, Reported, buffer_fill
<1>2. RingIInv /\ [Next]_vars =>
        [buffer_fill /\ wcount = 0 /\ buffer_get_filled_chunks' = 0
           => consumed = written]_vars
  BY <1>1 DEF RingIInv, Held, Resizing, NoPointers, buffer_fill
<1>3. QED BY <1>2, RingInvAlways, PTL DEF Spec, NothingLeftBehind

-----------------------------------------------------------------------------
(* The refinement of the bounded chunk queue. *)

LEMMA InitRefines == Init => CQ!CInit
<1> SUFFICES ASSUME Init PROVE CQ!CInit
  OBVIOUS
<1>1. nr_chunks \in Sizes /\ 0 \in Chunks
  BY SizesAssumption DEF Init, Chunks
<1>2. Committed = 0 /\ ~Pending
  BY <1>1 DEF Init, buffer_get_filled_chunks, Committed, Pending
<1>3. QED BY <1>1, <1>2 DEF CQ!CInit, Pending

(* Where a close or an emptied chunk moves an index, the count moves by 1. *)
LEMMA FillCounts ==
  ASSUME SInv, buffer_fill
  PROVE  /\ buffer_get_filled_chunks < nr_chunks
         /\ Closes(wcount) =>
              buffer_get_filled_chunks' = buffer_get_filled_chunks + 1
         /\ ~Closes(wcount) => buffer_get_filled_chunks' = buffer_get_filled_chunks
<1>1. /\ widx \in Chunks /\ ridx \in Chunks /\ ~filled[widx]
      /\ nr_chunks' = nr_chunks /\ ridx' = ridx
      /\ filled \in [Chunks -> BOOLEAN]
      /\ filled' = [filled EXCEPT ![widx] = filled[widx] \/ Closes(wcount)]
      /\ widx' = IF Closes(wcount) THEN Succ(widx) ELSE widx
  BY DEF SInv, TypeOK, GrantInv, buffer_fill
<1>2. /\ nr_chunks \in Nat /\ nr_chunks > 0
      /\ Succ(widx) = IF widx + 1 = nr_chunks THEN 0 ELSE widx + 1
  BY <1>1, SuccInRing DEF SInv
<1>3. /\ ridx \in Int /\ 0 <= ridx /\ ridx < nr_chunks
      /\ widx \in Int /\ 0 <= widx /\ widx < nr_chunks
  BY <1>1, <1>2 DEF Chunks
<1>4. /\ filled'[ridx] <=> (filled[ridx] \/ (ridx = widx /\ Closes(wcount)))
      /\ ridx # widx => filled[ridx]
  BY <1>1, RingFacts
<1>5. buffer_get_filled_chunks < nr_chunks
  BY <1>1, <1>2, <1>3, <1>4 DEF buffer_get_filled_chunks
<1>6. CASE Closes(wcount)
  BY <1>1, <1>2, <1>3, <1>4, <1>5, <1>6 DEF buffer_get_filled_chunks
<1>7. CASE ~Closes(wcount)
  BY <1>1, <1>2, <1>3, <1>4, <1>5, <1>7 DEF buffer_get_filled_chunks
<1>8. QED BY <1>5, <1>6, <1>7

LEMMA FillRefines == SInv /\ mem = "live" /\ buffer_fill => [CQ!CNext]_(CQ!cvars)
<1> SUFFICES ASSUME SInv, mem = "live", buffer_fill PROVE [CQ!CNext]_(CQ!cvars)
  OBVIOUS
<1>1. /\ widx \in Chunks /\ ~filled[widx] /\ hi[widx] \in Nat /\ wcount \in Nat
      /\ nr_chunks' = nr_chunks /\ mem = "live" /\ mem' = "live"
      /\ filled \in [Chunks -> BOOLEAN] /\ hi \in [Chunks -> 0 .. ChunkSize]
      /\ filled' = [filled EXCEPT ![widx] = filled[widx] \/ Closes(wcount)]
      /\ hi' = [hi EXCEPT ![widx] = hi[widx] + wcount]
      /\ widx' = IF Closes(wcount) THEN Succ(widx) ELSE widx
      /\ Succ(widx) \in Chunks
  BY SuccInRing, ChunkAssumption DEF SInv, TypeOK, GrantInv, buffer_fill
<1>2. CASE Closes(wcount)
  <2>1. ~Pending'
    <3>1. CASE Succ(widx) = widx
      BY <1>1, <1>2, <3>1 DEF Pending
    <3>2. CASE Succ(widx) # widx
      <4>1. ~filled[Succ(widx)] => hi[Succ(widx)] = 0
        BY <1>1, <3>2 DEF SInv, ShapeInv
      <4>2. QED BY <1>1, <1>2, <3>2, <4>1 DEF Pending
    <3>3. QED BY <3>1, <3>2
  <2>2. CQ!Commit
    BY <1>1, <1>2, <2>1, FillCounts DEF CQ!Commit, Committed, Pending
  <2>3. QED BY <2>2 DEF CQ!CNext
<1>3. CASE ~Closes(wcount) /\ wcount = 0
  <2>1. Pending' <=> Pending
    BY <1>1, <1>3 DEF Pending
  <2>2. UNCHANGED CQ!cvars
    BY <1>1, <1>3, <2>1, FillCounts DEF CQ!cvars, Committed, Pending
  <2>3. QED BY <2>2
<1>4. CASE ~Closes(wcount) /\ wcount > 0
  <2>1. Pending'
    BY <1>1, <1>4 DEF Pending
  <2>2. CQ!AddPending
    BY <1>1, <1>4, <2>1, FillCounts DEF CQ!AddPending, Committed, Pending
  <2>3. QED BY <2>2 DEF CQ!CNext
<1>5. QED BY <1>1, <1>2, <1>3, <1>4

LEMMA ConsumeRefines ==
  ASSUME SInv, mem = "live",
         NEW count \in 0 .. ChunkSize, buffer_consume(count)
  PROVE  [CQ!CNext]_(CQ!cvars)
<1> DEFINE empty == lo[ridx] + count = hi[ridx]
<1>1. /\ widx \in Chunks /\ ridx \in Chunks /\ filled[ridx] /\ Succ(ridx) \in Chunks
      /\ nr_chunks' = nr_chunks /\ widx' = widx /\ mem = "live" /\ mem' = "live"
      /\ nr_chunks \in Nat /\ nr_chunks > 0
      /\ Succ(ridx) = IF ridx + 1 = nr_chunks THEN 0 ELSE ridx + 1
      /\ empty => ridx' = Succ(ridx)
      /\ ~empty => ridx' = ridx
      /\ \A k \in Chunks : filled'[k] <=> (filled[k] /\ (k # ridx \/ ~empty))
      /\ \A k \in Chunks : hi'[k] = (IF k = ridx /\ empty THEN 0 ELSE hi[k])
  <2>1. ridx \in Chunks /\ widx \in Chunks
    BY DEF SInv, TypeOK
  <2>2. /\ nr_chunks \in Nat /\ nr_chunks > 0 /\ Succ(ridx) \in Chunks
        /\ Succ(ridx) = IF ridx + 1 = nr_chunks THEN 0 ELSE ridx + 1
    BY <2>1, SuccInRing DEF SInv
  <2>3. QED
    BY <2>1, <2>2 DEF SInv, TypeOK, GrantInv, buffer_consume
<1>2. /\ ridx \in Int /\ 0 <= ridx /\ ridx < nr_chunks
      /\ widx \in Int /\ 0 <= widx /\ widx < nr_chunks
  BY <1>1 DEF Chunks
<1>3. Pending' <=> Pending
  BY <1>1 DEF Pending
<1> HIDE DEF empty
<1>4. CASE ~empty
  <2>1. buffer_get_filled_chunks' = buffer_get_filled_chunks
    BY <1>1, <1>2, <1>4 DEF buffer_get_filled_chunks
  <2>2. UNCHANGED CQ!cvars
    BY <1>1, <1>3, <2>1 DEF CQ!cvars, Committed, Pending
  <2>3. QED BY <2>2
<1>5. CASE empty
  <2>1. /\ buffer_get_filled_chunks > 0
        /\ buffer_get_filled_chunks' = buffer_get_filled_chunks - 1
    <3>1. CASE Succ(ridx) = widx
      <4>1. filled'[widx] <=> (filled[widx] /\ widx # ridx)
        BY <1>1, <1>5
      <4>2. ridx # widx => ~filled[widx]
        BY RingFacts
      <4>3. QED BY <1>1, <1>2, <1>5, <3>1, <4>1, <4>2 DEF buffer_get_filled_chunks
    <3>2. CASE Succ(ridx) # widx
      BY <1>1, <1>2, <1>5, <3>2 DEF buffer_get_filled_chunks
    <3>3. QED BY <3>1, <3>2
  <2>2. CQ!Take
    BY <1>1, <1>3, <2>1 DEF CQ!Take, Committed, Pending
  <2>3. QED BY <2>2 DEF CQ!CNext
<1>6. QED BY <1>4, <1>5

LEMMA EmptiedRefines ==
  ASSUME NEW n \in Sizes, Emptied(n), nr_chunks' = n, mem' = "live"
  PROVE  CQ!CNext
<1>1. n \in Nat \ {0} /\ 0 \in 0 .. n - 1
  BY SizesAssumption
<1>2. Committed' = 0 /\ ~Pending'
  BY <1>1 DEF Emptied, buffer_get_filled_chunks, Committed, Pending
<1>3. CQ!Clear(n)
  BY <1>2 DEF CQ!Clear, Committed, Pending
<1>4. QED BY <1>3 DEF CQ!CNext

LEMMA StepRefines == RingIInv /\ [Next]_vars => [CQ!CNext]_(CQ!cvars)
<1> SUFFICES ASSUME RingIInv, [Next]_vars PROVE [CQ!CNext]_(CQ!cvars)
  OBVIOUS
<1>0. /\ mem = "live" => SInv
      /\ mem # "live" => NoPointers
      /\ nr_chunks \in Sizes
  BY DEF RingIInv, Held, Resizing, SInv, TypeOK
<1>1. CASE UNCHANGED <<ring, mem>>
  <2>1. UNCHANGED CQ!cvars
    BY <1>1 DEF CQ!cvars, ring, buffer_get_filled_chunks, Committed, Pending
  <2>2. QED BY <2>1
<1>2. CASE buffer_get_wpos \/ ip_read_again \/ buffer_get_rpos \/ op_write_failed
  BY <1>1, <1>2 DEF buffer_get_wpos, ip_read_again, buffer_get_rpos, op_write_failed
<1>3. CASE \E n \in 0 .. ChunkSize : ip_read(n)
  BY <1>1, <1>3 DEF ip_read
<1>4. CASE UNCHANGED vars
  BY <1>1, <1>4 DEF vars, ring
<1>5. CASE buffer_fill
  BY <1>0, <1>5, FillRefines DEF buffer_fill, NoPointers
<1>6. CASE \E count \in 0 .. ChunkSize : buffer_consume(count)
  BY <1>0, <1>6, ConsumeRefines DEF buffer_consume, NoPointers
<1>7. CASE buffer_reset
  BY <1>0, <1>7, EmptiedRefines DEF buffer_reset
<1>8. CASE \E n \in Sizes : set_buffer_chunks(n)
  <2>1. PICK n \in Sizes : mem' = "freed" /\ nr_chunks' = n
    BY <1>8 DEF set_buffer_chunks
  <2>2. CQ!Clear(n)
    BY <2>1 DEF CQ!Clear, Committed, Pending
  <2>3. QED BY <2>2 DEF CQ!CNext
<1>9. CASE buffer_init_alloc
  <2>1. UNCHANGED CQ!cvars
    BY <1>9 DEF CQ!cvars, Committed, Pending, buffer_init_alloc
  <2>2. QED BY <2>1
<1>10. CASE buffer_init_reset
  BY <1>0, <1>10, EmptiedRefines DEF buffer_init_reset
<1>11. QED
  BY <1>2, <1>3, <1>4, <1>5, <1>6, <1>7, <1>8, <1>9, <1>10 DEF Next

(* buffer.c implements the bounded chunk queue the player relies on. *)
THEOREM BufferRefinesQueue == Spec => ImplementsChunkQueue
BY RingInvAlways, InitRefines, StepRefines, PTL
   DEF Spec, ImplementsChunkQueue, CQ!CSpec
=============================================================================
