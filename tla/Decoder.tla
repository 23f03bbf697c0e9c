------------------------------- MODULE Decoder ------------------------------
(***************************************************************************)
(* The decoder plugins of the build (plugins/input: ffmpeg, flac, aac) and *)
(* the reader that takes the metadata out of a radio stream                *)
(* (read_wrapper.c): what they keep between two calls of Read.             *)
(*                                                                         *)
(* Samples are numbered, and the bytes of the output by them: sample s is  *)
(* its bytes width * s up to width * (s + 1).  The decoding library yields *)
(* the samples of a frame at a time; the plugin hands out as many bytes as *)
(* are asked for and keeps the rest.  For aac the bytes of the stream      *)
(* count as the samples they are decoded to.                               *)
(***************************************************************************)
EXTENDS Integers

CONSTANTS
  Length,      \* samples of the file
  MaxFrame,    \* samples a frame may have
  MetaInt,     \* icy-metaint: bytes between two metadata blocks; 0: none
  BufferSize,  \* BUFFER_SIZE of aac.c
  Widths       \* bytes per sample of the sample formats ffmpeg may choose

ASSUME DecoderAssumption ==
  Length \in Nat /\ MaxFrame \in Nat \ {0} /\ MetaInt \in Nat /\ BufferSize \in Nat
ASSUME WidthsAssumption == Widths \subseteq {1, 2, 4}

VARIABLES
  plugin,      \* the plugin that was opened
  width,       \* bytes per sample of its output
  pos,         \* the sample the library decodes next
  lo, hi,      \* kept: bytes lo .. hi - 1 of the output
  made,        \* the bytes of the output before this one were converted;
               \* what is kept from there on is left over in the memory
  rlo, rhi,    \* aac, rBuf: bytes rlo .. rhi - 1
  counter,     \* aac, read_wrapper: bytes since the last metadata block
  since,       \* the server: bytes it sent since the last metadata block
  torn,        \* a byte of metadata was taken for audio, or audio for metadata
  req,         \* bytes the caller of Read waits for; 0: no call
  want,        \* the byte that follows the converted ones handed out
  lossy        \* a failed seek has lost samples

dvars == <<plugin, width, pos, lo, hi, made, rlo, rhi, counter, since, torn, req, want,
           lossy>>

Plugins == {"ffmpeg", "flac", "aac"}
Frame == 2     \* bytes of an aac frame
Least(a, b) == IF a < b THEN a ELSE b

(* The Open functions: decoder allocated, buffers empty.  They fail        *)
(* without leaving anything behind.  ffmpeg converts to 8 or 32 bit        *)
(* samples where the codec yields such, else to 16 bit.                    *)
ffmpeg_open == plugin = "ffmpeg" /\ width \in Widths
flac_open   == plugin = "flac" /\ width = 2
aac_open    == plugin = "aac" /\ width = 2

DecoderInit ==
  /\ ffmpeg_open \/ flac_open \/ aac_open
  /\ pos = 0 /\ lo = 0 /\ hi = 0 /\ made = 0 /\ rlo = 0 /\ rhi = 0
  /\ counter = 0 /\ since = 0 /\ torn = FALSE
  /\ req = 0 /\ want = 0 /\ lossy = FALSE

-----------------------------------------------------------------------------
(* ip_read asks for whole samples. *)
Call(count) ==
  /\ req = 0
  /\ req' = count * width
  /\ UNCHANGED <<plugin, width, pos, lo, hi, made, rlo, rhi, counter, since, torn, want,
                 lossy>>

Kept == hi > lo

(* Fault_* definitions are faulty variants of the definition that follows. *)
Fault_HandOutAgain ==
  LET n == Least(req, hi - lo)
  IN /\ lo' = IF n = req THEN lo ELSE lo + n
     /\ want' = Least(lo + n, made)

(* flac_read, ffmpeg_read and aac_read copy from what is kept. *)
HandOut ==
  LET n == Least(req, hi - lo)
  IN /\ lo' = lo + n
     /\ want' = Least(lo + n, made)

Deliver ==
  /\ req > 0 /\ Kept
  /\ HandOut
  /\ req' = 0
  /\ UNCHANGED <<plugin, width, pos, hi, made, rlo, rhi, counter, since, torn, lossy>>

(* End of file, or an error: nothing is handed out. *)
End ==
  /\ req > 0 /\ ~Kept
  /\ req' = 0
  /\ UNCHANGED <<plugin, width, pos, lo, hi, made, rlo, rhi, counter, since, torn, want,
                 lossy>>

-----------------------------------------------------------------------------
(* flac_read: process_single calls write_cb with one frame. *)
write_cb ==
  /\ plugin = "flac" /\ req > 0 /\ ~Kept /\ pos < Length
  /\ \E n \in 1 .. MaxFrame :
       /\ pos' = Least(pos + n, Length)
       /\ lo' = pos * width /\ hi' = pos' * width /\ made' = hi'
  /\ UNCHANGED <<plugin, width, rlo, rhi, counter, since, torn, req, want, lossy>>

(* What is kept goes first, then the decoder seeks; when it cannot, it     *)
(* goes on from wherever it stopped.                                       *)
flac_seek(t) ==
  /\ plugin = "flac" /\ req = 0
  /\ \E at \in {t} \cup 0 .. Length :
       /\ pos' = at /\ lo' = at * width /\ hi' = lo' /\ made' = lo' /\ want' = lo'
  /\ lossy' = FALSE
  /\ UNCHANGED <<plugin, width, rlo, rhi, counter, since, torn, req>>

(* ffmpeg_fill_buffer: the frame is converted to the output format, but    *)
(* the bytes are counted as if that had 16 bits: with 8 bit samples as     *)
(* many bytes again as were converted, with 32 bit half of them.           *)
ffmpeg_fill_buffer ==
  /\ plugin = "ffmpeg" /\ req > 0 /\ ~Kept /\ pos < Length
  /\ \E n \in 1 .. MaxFrame :
       LET res == Least(n, Length - pos)
           bufferUsedLen == res * 2
       IN /\ pos' = pos + res
          /\ lo' = pos * width /\ hi' = lo' + bufferUsedLen
          /\ made' = lo' + res * width
  /\ UNCHANGED <<plugin, width, rlo, rhi, counter, since, torn, req, want, lossy>>

Fault_SeekKeepsOutput(t) ==
  /\ plugin = "ffmpeg" /\ req = 0
  /\ pos' = t /\ want' = t * width /\ lossy' = FALSE
  /\ UNCHANGED <<plugin, width, lo, hi, made, rlo, rhi, counter, since, torn, req>>

(* A failed seek has flushed the decoder but not what is kept. *)
ffmpeg_seek(t) ==
  /\ plugin = "ffmpeg" /\ req = 0
  /\ \/ /\ pos' = t /\ lossy' = FALSE
        /\ lo' = t * width /\ hi' = lo' /\ made' = lo' /\ want' = lo'
     \/ /\ pos' \in pos .. Least(pos + MaxFrame, Length) /\ lossy' = TRUE
        /\ UNCHANGED <<lo, hi, made, want>>
  /\ UNCHANGED <<plugin, width, rlo, rhi, counter, since, torn, req>>

-----------------------------------------------------------------------------
(* The radio server sends MetaInt bytes of audio, a metadata block, ...    *)

Fault_WrapperCount(count, c) == Least(count, MetaInt)

(* count of read_wrapper's last read(): not into the metadata. *)
WrapperCount(count, c) ==
  IF count + c > MetaInt THEN MetaInt - c ELSE count

(* read_wrapper(count): the metadata block when one is due, then audio, of *)
(* which the socket may have less than was asked for.                      *)
read_wrapper(count) ==
  LET due == MetaInt > 0 /\ counter = MetaInt
      c == IF due THEN 0 ELSE counter
      s == IF due THEN 0 ELSE since
      max == IF MetaInt = 0 THEN count ELSE WrapperCount(count, c)
  IN \E k \in 1 .. Least(max, Length - rhi) :
       /\ rhi' = rhi + k
       /\ counter' = IF MetaInt = 0 THEN 0 ELSE c + k
       /\ since' = IF MetaInt = 0 THEN 0 ELSE Least(s + k, MetaInt)
       /\ torn' = (torn \/ (due /\ since # MetaInt) \/ (MetaInt > 0 /\ s + k > MetaInt))

(* buffer_fill, as often as buffer_fill_frame needs to see a whole frame. *)
buffer_fill ==
  /\ plugin = "aac" /\ req > 0 /\ ~Kept
  /\ rhi - rlo < Frame
  /\ read_wrapper(BufferSize - (rhi - rlo))
  /\ UNCHANGED <<plugin, width, pos, lo, hi, made, rlo, req, want, lossy>>

(* decode_one_frame: the frame's bytes leave the buffer; what is more than *)
(* was asked for stays in the overflow.  A damaged frame is skipped.       *)
decode_one_frame ==
  /\ plugin = "aac" /\ req > 0 /\ ~Kept
  /\ rhi - rlo >= Frame
  /\ rlo' = rlo + Frame
  /\ pos' = rlo'
  /\ hi' = rlo' * width /\ made' = hi'
  /\ \/ lo' = rlo * width /\ UNCHANGED want
     \/ lo' = hi' /\ want' = hi'
  /\ UNCHANGED <<plugin, width, rhi, counter, since, torn, req, lossy>>

aac_seek(t) ==
  /\ plugin = "aac" /\ req = 0
  /\ UNCHANGED dvars

DecoderNext ==
  \/ \E count \in 1 .. MaxFrame + 1 : Call(count)
  \/ Deliver \/ End \/ write_cb \/ ffmpeg_fill_buffer \/ buffer_fill \/ decode_one_frame
  \/ \E t \in 0 .. Length : flac_seek(t) \/ ffmpeg_seek(t) \/ aac_seek(t)

DecoderSpec == DecoderInit /\ [][DecoderNext]_dvars

-----------------------------------------------------------------------------
(* The caller of Read gets every sample once and in order whatever the     *)
(* sizes of its requests, of the frames and of the reads: none twice, none *)
(* from before a seek, and no bytes of the metadata of a stream.  None is  *)
(* left behind in a plugin's buffer, but for what ffmpeg_fill_buffer       *)
(* miscounts (ffmpeg.c:282 "This returns the number of bytes added to the  *)
(* buffer"): with 32 bit samples bytes are lost at the end of each frame,  *)
(* with 8 bit ones bytes that are no samples follow those of each frame.   *)
SamplesInOrder ==
  /\ Kept => /\ lo >= want
             /\ width = 2 /\ ~lossy => lo = want
             /\ width = 1 /\ ~lossy => lo = want \/ want = made
             /\ width # 1 => hi <= made
  /\ ~torn
  /\ plugin = "aac" => rhi - rlo <= BufferSize
=============================================================================
