------------------------------- MODULE Buffer -------------------------------
(***************************************************************************)
(* The player's ring buffer of chunks (buffer.c) and its two clients: the  *)
(* producer thread, which asks for a write position, lets the decoder fill *)
(* memory there and then reports the bytes, and the consumer thread, which *)
(* asks for a read position, hands the bytes to the output device and then *)
(* reports how many were taken.  Every buffer_* function but buffer_init   *)
(* locks buffer_mutex for its whole body, so each is one step; what the    *)
(* clients do with the returned pointers happens between those steps.      *)
(* buffer_init frees and allocates outside buffer_mutex, and is three      *)
(* steps here: the producer thread counts the filled chunks without a      *)
(* player mutex once more before it sleeps (player.c:1007), and can do so  *)
(* between any two of them.                                                *)
(*                                                                         *)
(* Bytes are numbered in the order the decoder delivers them, so that      *)
(* losing, repeating or reordering a byte shows in the memory's contents.  *)
(***************************************************************************)
EXTENDS Integers

CONSTANTS
  Sizes,      \* the values player_set_buffer_chunks may be called with
  ChunkSize,  \* CHUNK_SIZE
  MinFree,    \* the 1024 of buffer_fill: less free space closes a chunk
  MaxBytes    \* bound of the model: bytes delivered by the decoder

ASSUME SizesAssumption == Sizes \subseteq (Nat \ {0})
ASSUME ChunkAssumption ==
  /\ ChunkSize \in Nat /\ MinFree \in Nat
  /\ 0 < MinFree /\ MinFree <= ChunkSize
ASSUME MaxBytesAssumption == MaxBytes \in Nat

VARIABLES
  nr_chunks,  \* buffer_nr_chunks
  mem,        \* what buffer_chunks points to: chunks in use ("live"), memory
              \* given back ("freed") or new memory not yet reset ("raw")
  data,       \* chunk.data: the numbers of the bytes stored there
  lo, hi,     \* chunk.l and chunk.h
  filled,     \* chunk.filled
  ridx, widx, \* buffer_ridx, buffer_widx
  wst,        \* the producer: "idle", "granted" (has wpos) or "read" (ip_read done)
  wpos,       \* the pointer it holds: a chunk and an offset in it
  wsize,      \* the size buffer_get_wpos returned
  wcount,     \* the number of bytes ip_read delivered
  rst,        \* the consumer: "idle" or "granted" (has rpos)
  rpos, rsize,
  written,    \* bytes delivered so far, which is the next byte's number
  consumed    \* the number of the next byte owed to the device

ring  == <<nr_chunks, lo, hi, filled, ridx, widx>>
pvars == <<wst, wpos, wsize, wcount>>
rvars == <<rst, rpos, rsize>>
vars  == <<nr_chunks, mem, data, lo, hi, filled, ridx, widx,
           wst, wpos, wsize, wcount, rst, rpos, rsize, written, consumed>>

Chunks == 0 .. nr_chunks - 1
Offsets == 0 .. ChunkSize - 1

(* Fault_* definitions are faulty variants of the definition that follows  *)
(* them; they are used only to show that the properties can fail.          *)
Fault_SuccNoWrap(i) == i + 1

(* idx++; idx %= buffer_nr_chunks *)
Succ(i) == (i + 1) % nr_chunks

Fault_EmptiedKeepsFilled(n) ==
  /\ lo' = [i \in 0 .. n - 1 |-> 0]
  /\ hi' = [i \in 0 .. n - 1 |-> 0]
  /\ filled' = [i \in 0 .. n - 1 |-> i \in Chunks /\ filled[i]]
  /\ ridx' = 0
  /\ widx' = 0

(* The state buffer_reset leaves: every chunk empty, both indices at 0. *)
Emptied(n) ==
  /\ lo' = [i \in 0 .. n - 1 |-> 0]
  /\ hi' = [i \in 0 .. n - 1 |-> 0]
  /\ filled' = [i \in 0 .. n - 1 |-> FALSE]
  /\ ridx' = 0
  /\ widx' = 0

Init ==
  /\ nr_chunks \in Sizes /\ mem = "live"
  /\ data = [i \in Chunks |-> [j \in Offsets |-> 0]]
  /\ lo = [i \in Chunks |-> 0]
  /\ hi = [i \in Chunks |-> 0]
  /\ filled = [i \in Chunks |-> FALSE]
  /\ ridx = 0 /\ widx = 0
  /\ wst = "idle" /\ wpos = [chunk |-> 0, off |-> 0] /\ wsize = 0 /\ wcount = 0
  /\ rst = "idle" /\ rpos = [chunk |-> 0, off |-> 0] /\ rsize = 0
  /\ written = 0 /\ consumed = 0

-----------------------------------------------------------------------------
(* The producer thread, in a section of producer_mutex, which whoever      *)
(* resizes the buffer holds too: the memory is in use.                     *)

Fault_WposUnchecked ==
  /\ wst = "idle" /\ mem = "live"
  /\ wst' = "granted"
  /\ wpos' = [chunk |-> widx, off |-> hi[widx]]
  /\ wsize' = ChunkSize - hi[widx]
  /\ UNCHANGED <<ring, mem, data, wcount, rvars, written, consumed>>

(* A size of 0 (the chunk at widx is still the consumer's) makes the       *)
(* producer go away and try again later: nothing changes.                  *)
buffer_get_wpos ==
  /\ wst = "idle" /\ mem = "live"
  /\ ~filled[widx]
  /\ wst' = "granted"
  /\ wpos' = [chunk |-> widx, off |-> hi[widx]]
  /\ wsize' = ChunkSize - hi[widx]
  /\ UNCHANGED <<ring, mem, data, wcount, rvars, written, consumed>>

(* The decoder stores n bytes through the pointer; 0 is end of file. *)
ip_read(n) ==
  /\ wst = "granted"
  /\ n <= wsize
  /\ written + n <= MaxBytes
  /\ data' = [data EXCEPT ![wpos.chunk] =
                [j \in Offsets |->
                   IF wpos.off <= j /\ j < wpos.off + n
                   THEN written + (j - wpos.off) ELSE @[j]]]
  /\ written' = written + n
  /\ wcount' = n
  /\ wst' = "read"
  /\ UNCHANGED <<ring, mem, wpos, wsize, rvars, consumed>>

(* EAGAIN: the producer drops the pointer without reporting anything. *)
ip_read_again ==
  /\ wst = "granted"
  /\ wst' = "idle"
  /\ UNCHANGED <<ring, mem, data, wpos, wsize, wcount, rvars, written, consumed>>

Fault_ClosesWhenFull(count) ==
  LET h == hi[widx] + count
  IN h = ChunkSize \/ (count = 0 /\ h > 0)

Fault_ClosesIgnoresEof(count) == ChunkSize - (hi[widx] + count) < MinFree

(* The condition under which buffer_fill closes the chunk at widx. *)
Closes(count) ==
  LET h == hi[widx] + count
  IN ChunkSize - h < MinFree \/ (count = 0 /\ h > 0)

buffer_fill ==
  /\ wst = "read"
  /\ wst' = "idle"
  /\ hi' = [hi EXCEPT ![widx] = @ + wcount]
  /\ filled' = [filled EXCEPT ![widx] = @ \/ Closes(wcount)]
  /\ widx' = IF Closes(wcount) THEN Succ(widx) ELSE widx
  /\ UNCHANGED <<nr_chunks, mem, data, lo, ridx, wpos, wsize, wcount,
                 rvars, written, consumed>>

-----------------------------------------------------------------------------
(* The consumer thread, in a section of consumer_mutex. *)

(* A size of 0 sends the consumer to look for end of file instead. *)
buffer_get_rpos ==
  /\ rst = "idle" /\ mem = "live"
  /\ filled[ridx]
  /\ rst' = "granted"
  /\ rpos' = [chunk |-> ridx, off |-> lo[ridx]]
  /\ rsize' = hi[ridx] - lo[ridx]
  /\ UNCHANGED <<ring, mem, data, pvars, written, consumed>>

(* op_write failed: the device is reopened and the pointer dropped. *)
op_write_failed ==
  /\ rst = "granted"
  /\ rst' = "idle"
  /\ UNCHANGED <<ring, mem, data, pvars, rpos, rsize, written, consumed>>

Fault_ConsumeKeepsLow(count) ==
  LET empty == lo[ridx] + count = hi[ridx]
  IN /\ rst = "granted"
     /\ count <= rsize
     /\ rst' = "idle"
     /\ lo' = [lo EXCEPT ![ridx] = @ + count]
     /\ hi' = [hi EXCEPT ![ridx] = IF empty THEN 0 ELSE @]
     /\ filled' = [filled EXCEPT ![ridx] = @ /\ ~empty]
     /\ ridx' = IF empty THEN Succ(ridx) ELSE ridx
     /\ consumed' = consumed + count
     /\ UNCHANGED <<nr_chunks, mem, data, widx, pvars, rpos, rsize, written>>

(* op_write took count bytes, possibly fewer than were offered. *)
buffer_consume(count) ==
  LET empty == lo[ridx] + count = hi[ridx]
  IN /\ rst = "granted"
     /\ count <= rsize
     /\ rst' = "idle"
     /\ lo' = [lo EXCEPT ![ridx] = IF empty THEN 0 ELSE @ + count]
     /\ hi' = [hi EXCEPT ![ridx] = IF empty THEN 0 ELSE @]
     /\ filled' = [filled EXCEPT ![ridx] = @ /\ ~empty]
     /\ ridx' = IF empty THEN Succ(ridx) ELSE ridx
     /\ consumed' = consumed + count
     /\ UNCHANGED <<nr_chunks, mem, data, widx, pvars, rpos, rsize, written>>

-----------------------------------------------------------------------------
(* The player resets the buffer only while it holds both the consumer's    *)
(* and the producer's mutex, hence while neither uses a pointer.  The      *)
(* bytes still buffered are dropped, so the device is next owed `written'. *)

NoPointers == wst = "idle" /\ rst = "idle"

Fault_ResetUnlocked ==
  /\ rst = "idle" /\ mem = "live"
  /\ Emptied(nr_chunks)
  /\ consumed' = written
  /\ UNCHANGED <<nr_chunks, mem, data, pvars, rvars, written>>

buffer_reset ==
  /\ NoPointers /\ mem = "live"
  /\ Emptied(nr_chunks)
  /\ consumed' = written
  /\ UNCHANGED <<nr_chunks, mem, data, pvars, rvars, written>>

(* Memory whose contents nobody has written: `filled' may read as anything *)
(* and nothing else of it is read.                                         *)
Garbage(n) ==
  /\ data' = [i \in 0 .. n - 1 |-> [j \in Offsets |-> 0]]
  /\ lo' = [i \in 0 .. n - 1 |-> 0]
  /\ hi' = [i \in 0 .. n - 1 |-> 0]
  /\ filled' \in [0 .. n - 1 -> BOOLEAN]

(* player_set_buffer_chunks stops producer and consumer first, so the ring *)
(* is as buffer_reset left it; then it sets buffer_nr_chunks, and          *)
(* buffer_init frees the old chunks.                                       *)
set_buffer_chunks(n) ==
  /\ NoPointers /\ mem = "live"
  /\ ridx = 0 /\ widx = 0 /\ \A i \in Chunks : ~filled[i] /\ hi[i] = 0
  /\ nr_chunks' = n
  /\ mem' = "freed"
  /\ Garbage(n)
  /\ UNCHANGED <<ridx, widx, pvars, rvars, written, consumed>>

(* xnew *)
buffer_init_alloc ==
  /\ mem = "freed"
  /\ mem' = "raw"
  /\ Garbage(nr_chunks)
  /\ UNCHANGED <<nr_chunks, ridx, widx, pvars, rvars, written, consumed>>

(* The buffer_reset at the end of buffer_init. *)
buffer_init_reset ==
  /\ mem = "raw"
  /\ mem' = "live"
  /\ Emptied(nr_chunks)
  /\ UNCHANGED <<nr_chunks, data, pvars, rvars, written, consumed>>

Next ==
  \/ buffer_get_wpos
  \/ \E n \in 0 .. ChunkSize : ip_read(n)
  \/ ip_read_again
  \/ buffer_fill
  \/ buffer_get_rpos
  \/ op_write_failed
  \/ \E count \in 0 .. ChunkSize : buffer_consume(count)
  \/ buffer_reset
  \/ \E n \in Sizes : set_buffer_chunks(n)
  \/ buffer_init_alloc
  \/ buffer_init_reset

Spec == Init /\ [][Next]_vars

-----------------------------------------------------------------------------
Fault_FullCountsAsEmpty ==
  IF ridx <= widx THEN widx - ridx ELSE nr_chunks - ridx + widx

(* buffer_get_filled_chunks: the number of chunks from ridx up to widx. *)
buffer_get_filled_chunks ==
  IF ridx < widx THEN widx - ridx
  ELSE IF ridx > widx THEN nr_chunks - ridx + widx
  ELSE IF filled[ridx] THEN nr_chunks ELSE 0

TypeOK ==
  /\ nr_chunks \in Sizes /\ mem \in {"live", "freed", "raw"}
  /\ data \in [Chunks -> [Offsets -> Nat]]
  /\ lo \in [Chunks -> 0 .. ChunkSize]
  /\ hi \in [Chunks -> 0 .. ChunkSize]
  /\ filled \in [Chunks -> BOOLEAN]
  /\ ridx \in Chunks /\ widx \in Chunks
  /\ wst \in {"idle", "granted", "read"}
  /\ wpos \in [chunk : Nat, off : Nat]
  /\ wsize \in 0 .. ChunkSize /\ wcount \in 0 .. ChunkSize
  /\ rst \in {"idle", "granted"}
  /\ rpos \in [chunk : Nat, off : Nat]
  /\ rsize \in 0 .. ChunkSize
  /\ written \in Nat /\ consumed \in Nat

(* buffer.c:7 "chunk can be accessed by either consumer OR producer, not   *)
(* both at same time -> no need to lock": the two pointers handed out by   *)
(* buffer_get_wpos and buffer_get_rpos never lead into the same chunk.     *)
ChunkExclusive ==
  ~(wst # "idle" /\ rst = "granted" /\ wpos.chunk = rpos.chunk)

(* buffer.c:69 "If the return value is non-zero it is guaranteed to be >=  *)
(* 1024": a chunk with too little room was closed by buffer_fill, so every *)
(* write position offers at least MinFree bytes.                           *)
RoomToWrite == wst # "idle" => wsize >= MinFree

(* The BUG_ON(c->filled) of buffer_fill and BUG_ON(!c->filled) of          *)
(* buffer_consume do not fire, and both find the very chunk and offset     *)
(* whose pointer was handed out before the lock was dropped.               *)
BugOnsHold ==
  /\ wst # "idle" => ~filled[widx] /\ wpos = [chunk |-> widx, off |-> hi[widx]]
  /\ rst = "granted" => filled[ridx] /\ rpos = [chunk |-> ridx, off |-> lo[ridx]]

(* What the device is given, through a pointer the consumer may hold while *)
(* the producer fills other chunks and wraps around, is the next bytes of  *)
(* the stream: none lost, repeated, reordered or overwritten.              *)
InOrder ==
  rst = "granted" =>
    /\ rsize > 0
    /\ \A j \in 0 .. rsize - 1 :
         data[rpos.chunk][rpos.off + j] = consumed + j

(* buffer_get_filled_chunks, computed from the two indices alone, is the   *)
(* number of chunks marked filled; the player's end-of-file and prebuffer  *)
(* decisions rest on it.  Those are taken under a player mutex, while the  *)
(* chunks are live: the count that _producer_buffer_fill_update takes with *)
(* no mutex may fall into a resize, where it reads freed or new memory and *)
(* can say that all chunks are filled.                                     *)
FilledInRingOrder ==
  mem = "live" => \A i \in Chunks :
    filled[i] <=>
      (i - ridx + (IF i < ridx THEN nr_chunks ELSE 0)) < buffer_get_filled_chunks

(* Whatever producer and consumer do, and whoever resets or resizes the    *)
(* buffer between their calls, the indices of buffer.c stay in the ring,   *)
(* buffer_get_wpos grants room inside a chunk, none of the BUG_ONs of      *)
(* buffer_consume and buffer_fill fires, and outside of a resize the       *)
(* filled chunks are the ones that buffer_get_filled_chunks counts.        *)
RingSound == TypeOK /\ RoomToWrite /\ BugOnsHold /\ FilledInRingOrder

(* After end of file was reported (a fill of 0) and everything filled was  *)
(* consumed, every byte the decoder delivered has reached the device.      *)
NothingLeftBehind ==
  [][buffer_fill /\ wcount = 0 /\ buffer_get_filled_chunks' = 0
       => consumed = written]_vars

(* The chunks as the threads see them that hold a player mutex: none of    *)
(* them looks during a resize, which is a queue emptied from its start.    *)
Committed == IF mem = "live" THEN buffer_get_filled_chunks ELSE 0
Pending == mem = "live" /\ ~filled[widx] /\ hi[widx] > 0

(* The refinement: the chunk queue seen by the player. *)
CQ == INSTANCE ChunkQueue
        WITH Capacities <- Sizes,
             capacity <- nr_chunks,
             committed <- Committed,
             pending <- Pending

(* Every step of buffer.c is a step of the bounded queue of chunks, or     *)
(* leaves that queue alone.                                                *)
ImplementsChunkQueue == CQ!CSpec
=============================================================================
