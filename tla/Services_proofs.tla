--------------------------- MODULE Services_proofs --------------------------
(***************************************************************************)
(* The way of the sound outside the player's threads, and the track cache, *)
(* proved for every value of the constants: the input layer opens a file   *)
(* or stream and asks its decoder for whole frames (module Input), the     *)
(* decoder hands out every sample once (module Decoder), the device        *)
(* follows the player and gets what was scaled once (module Output), and   *)
(* each track object has as many references as owners, whatever the worker *)
(* and the main thread do to the cache (module Cache).                     *)
(***************************************************************************)
EXTENDS Input, Decoder, Output, Cache, Selection_proofs

-----------------------------------------------------------------------------
(* The input layer. *)

(* The multiples of u. *)
Whole(u) == {u * k : k \in Nat}

(* Who owns the input's descriptor and the one of the request under way,   *)
(* at every step of opening.  A request that failed may leave in hg.fd a   *)
(* number that meanwhile belongs to somebody else; data.fd never does.     *)
SourceInv ==
  /\ opened \in [Fds -> {"none", "ip", "other"}]
  /\ fd \in Fds \cup {0} /\ hfd \in Fds \cup {0}
  /\ fd # 0 => opened[fd] = "ip"
  /\ life \in {"none", "new"} => fd = 0
  /\ life = "open" => fd # 0
  /\ life = "opening" =>
       /\ step \in {"get", "connected", "moved", "got", "line", "file"} => fd = 0
       /\ step \in {"plugin", "unsupported"} => fd # 0
       /\ step \in {"connected", "moved"} \/ (step = "got" /\ rc = 0) =>
            hfd # 0 /\ opened[hfd] = "ip"

(* The chunk holds whole frames of the player's format. *)
FramesInv ==
  /\ h \in Nat /\ h <= CHUNK_SIZE
  /\ life # "open" => scale = 0
  /\ scale = 0 => h = 0
  /\ life = "open" =>
       /\ bits \in Bits /\ channels \in Channels
       /\ scale \in {0, IF bits <= 16 /\ channels <= 2
                        THEN (3 - channels) * (3 - bits \div 8) ELSE 1}
       /\ h \in Whole(scale * FrameSize)

InputInv == SourceInv /\ FramesInv

(* The lowest free descriptor is a free descriptor. *)
LEMMA LowestIsFree ==
  ASSUME Free # {}
  PROVE  Lowest \in Free
  <1> DEFINE R == OpToRel(<, Nat)
  <1>1. Free \subseteq Nat
    BY InputAssumption DEF Free
  <1>2. \E d \in Free : \A e \in Free : ~(<<e, d>> \in R)
    <2> HIDE DEF R
    <2>1. IsWellFoundedOn(R, Nat)
      BY NatLessThanWellFounded DEF R
    <2> QED BY <1>1, <2>1, WFMin
  <1>3. PICK d \in Free : \A e \in Free : ~(<<e, d>> \in R)
    BY <1>2
  <1>4. ASSUME NEW e \in Free PROVE d <= e
    <2>1. e \in Nat /\ d \in Nat
      BY <1>1
    <2>2. e < d => <<e, d>> \in R
      BY <2>1 DEF OpToRel
    <2> HIDE DEF R
    <2>3. ~(e < d)
      BY <1>3, <2>2
    <2> QED BY <2>1, <2>3
  <1> QED BY <1>3, <1>4 DEF Lowest

(* Sums and differences of multiples are multiples. *)
LEMMA WholeSum ==
  ASSUME NEW u \in Nat, NEW x \in Whole(u), NEW y \in Whole(u)
  PROVE  x + y \in Whole(u) /\ (x >= y => x - y \in Whole(u))
  <1>1. PICK k \in Nat : x = u * k
    BY DEF Whole
  <1>2. PICK j \in Nat : y = u * j
    BY DEF Whole
  <1>3. k + j \in Nat /\ x + y = u * (k + j)
    BY <1>1, <1>2, SMT
  <1>4. ASSUME x >= y PROVE x - y \in Whole(u)
    <2>1. CASE k >= j
      <3>1. k - j \in Nat /\ x - y = u * (k - j)
        BY <1>1, <1>2, <2>1, SMT
      <3> QED BY <3>1 DEF Whole
    <2>2. CASE k < j
      <3>1. PICK i \in Nat \ {0} : j = k + i
        <4>1. j - k \in Nat \ {0} /\ j = k + (j - k)
          BY <2>2
        <4> QED BY <4>1
      <3>2. y = x + u * i
        BY <1>1, <1>2, <3>1, SMT
      <3>3. u * i \in Nat /\ x \in Nat
        BY <1>1, SMT
      <3>4. x - y = 0
        BY <3>2, <3>3, <1>4
      <3>5. 0 = u * 0
        BY SMT
      <3> QED BY <3>4, <3>5 DEF Whole
    <2> QED BY <2>1, <2>2
  <1> QED BY <1>3, <1>4 DEF Whole

(* So are products. *)
LEMMA WholeProduct ==
  ASSUME NEW a \in Nat, NEW u \in Nat, NEW x \in Whole(u)
  PROVE  x * a \in Whole(a * u) /\ x \in Nat
  <1>1. PICK k \in Nat : x = u * k
    BY DEF Whole
  <1>2. x * a = (a * u) * k /\ x \in Nat
    BY <1>1, SMT
  <1> QED BY <1>1, <1>2 DEF Whole

(* A multiple of u leaves no remainder. *)
LEMMA WholeRemainder ==
  ASSUME NEW u \in Nat \ {0}, NEW x \in Whole(u)
  PROVE  x % u = 0
  <1> DEFINE q == x \div u
             r == x % u
  <1>1. PICK k \in Nat : x = u * k
    BY DEF Whole
  <1>2. x \in Nat
    BY <1>1, SMT
  <1>3. q \in Int /\ r \in Int /\ x = u * q + r /\ 0 <= r /\ r < u
    BY <1>2, SMT
  <1> HIDE DEF q, r
  <1>4. r = u * (k - q) /\ k - q \in Int
    BY <1>1, <1>3, SMT
  <1>5. CASE k - q >= 1
    <2>1. u * (k - q) >= u
      BY <1>4, <1>5, SMT
    <2> QED BY <1>3, <1>4, <2>1
  <1>6. CASE k - q <= -1
    <2>1. u * (k - q) <= -u
      BY <1>4, <1>6, SMT
    <2> QED BY <1>3, <1>4, <2>1
  <1>7. CASE k - q = 0
    BY <1>4, <1>7, SMT DEF r
  <1> QED BY <1>4, <1>5, <1>6, <1>7

(* What leaves no remainder is a multiple. *)
LEMMA NoRemainder ==
  ASSUME NEW u \in Nat \ {0}, NEW x \in Nat, x % u = 0
  PROVE  x \in Whole(u)
  <1> DEFINE q == x \div u
  <1>1. q \in Nat /\ x = u * q
    BY SMT
  <1> HIDE DEF q
  <1> QED BY <1>1 DEF Whole

(* Dividing a natural number yields one. *)
LEMMA Quotient ==
  ASSUME NEW u \in Nat \ {0}, NEW x \in Nat
  PROVE  x \div u \in Nat
  BY SMT

(* Zero is a multiple of anything. *)
LEMMA NoneIsWhole ==
  ASSUME NEW u \in Nat
  PROVE  0 \in Whole(u)
  <1>1. 0 = u * 0
    BY SMT
  <1> QED BY <1>1 DEF Whole

(* The size of a frame is a number of bytes. *)
LEMMA FrameSizes ==
  ASSUME NEW b \in {8, 16, 24, 32}, NEW c \in Nat, NEW x \in Nat
  PROVE  x * ((b \div 8) * c) \in Nat
  <1>1. b \div 8 \in {1, 2, 3, 4}
    OBVIOUS
  <1>2. (b \div 8) * c \in Nat
    BY <1>1
  <1> QED BY <1>2, SMT

(* The formats: three are converted to 16 bit stereo, of four bytes. *)
LEMMA Formats ==
  ASSUME FramesInv, life = "open", scale > 0
  PROVE  /\ FrameSize \in Nat \ {0} /\ scale \in Nat \ {0}
         /\ \/ scale = 1 /\ ~Converts
            \/ Converts /\ scale = 2 /\ FrameSize = 2
            \/ Converts /\ scale = 4 /\ FrameSize = 1
         /\ CHUNK_SIZE \in Whole(scale * FrameSize) /\ CHUNK_SIZE \in Nat
  <1>1. bits \in Bits /\ bits \in {8, 16, 24, 32} /\ channels \in Channels /\ channels \in Nat \ {0}
    BY InputAssumption DEF FramesInv
  <1> DEFINE bytes == bits \div 8
  <1>2. \/ bits = 8 /\ bytes = 1
        \/ bits = 16 /\ bytes = 2
        \/ bits = 24 /\ bytes = 3
        \/ bits = 32 /\ bytes = 4
    BY <1>1
  <1>3. CHUNK_SIZE \in Whole(bytes * channels) /\ CHUNK_SIZE \in Whole(4)
    <2>1. CHUNK_SIZE \in Nat /\ CHUNK_SIZE % 4 = 0 /\ CHUNK_SIZE % (bytes * channels) = 0
      BY <1>1, InputAssumption
    <2> HIDE DEF bytes
    <2>2. bytes * channels \in Nat \ {0}
      <3>1. bytes \in {1, 2, 3, 4}
        BY <1>2
      <3> QED BY <1>1, <3>1
    <2>3. CHUNK_SIZE \in Whole(bytes * channels)
      BY <2>1, <2>2, NoRemainder
    <2>4. CHUNK_SIZE \in Whole(4)
      BY <2>1, NoRemainder
    <2> QED BY <2>3, <2>4
  <1>4. scale = IF bits <= 16 /\ channels <= 2 THEN (3 - channels) * (3 - bytes) ELSE 1
    BY DEF FramesInv
  <1>5. FrameSize = bytes * channels
    BY DEF FrameSize
  <1> HIDE DEF bytes
  <1>6. CHUNK_SIZE \in Nat
    BY <1>3 DEF Whole
  <1>7. CASE ~Converts
    <2>1. scale = 1
      <3>1. CASE bits = 16 /\ channels = 2
        BY <1>2, <1>4, <3>1
      <3>2. CASE ~(bits <= 16 /\ channels <= 2)
        BY <1>4, <3>2
      <3> QED BY <1>7, <3>1, <3>2 DEF Converts
    <2>2. bytes * channels \in Nat \ {0} /\ scale * FrameSize = bytes * channels
      <3>1. bytes \in {1, 2, 3, 4}
        BY <1>2
      <3> QED BY <1>1, <1>5, <2>1, <3>1
    <2> QED BY <1>3, <1>5, <1>6, <1>7, <2>1, <2>2
  <1>8. CASE Converts
    <2>1. channels \in {1, 2} /\ bits \in {8, 16} /\ ~(bits = 16 /\ channels = 2)
      BY <1>1, <1>8 DEF Converts
    <2>2. CASE bits = 8 /\ channels = 1
      <3>1. bytes = 1 /\ scale = 4 /\ FrameSize = 1 /\ scale * FrameSize = 4
        BY <1>2, <1>4, <1>5, <2>2
      <3> QED BY <1>3, <1>6, <1>8, <3>1
    <2>3. CASE bits = 8 /\ channels = 2
      <3>1. bytes = 1 /\ scale = 2 /\ FrameSize = 2 /\ scale * FrameSize = 4
        BY <1>2, <1>4, <1>5, <2>3
      <3> QED BY <1>3, <1>6, <1>8, <3>1
    <2>4. CASE bits = 16 /\ channels = 1
      <3>1. bytes = 2 /\ scale = 2 /\ FrameSize = 2 /\ scale * FrameSize = 4
        BY <1>2, <1>4, <1>5, <2>4
      <3> QED BY <1>3, <1>6, <1>8, <3>1
    <2> QED BY <2>1, <2>2, <2>3, <2>4
  <1> QED BY <1>7, <1>8

(* What the decoder is asked for is whole frames and fits. *)
LEMMA AskedIsWhole ==
  ASSUME FramesInv, life = "open", scale > 0
  PROVE  /\ Asked(CHUNK_SIZE - h) \in Whole(FrameSize)
         /\ Asked(CHUNK_SIZE - h) * scale <= CHUNK_SIZE - h
         /\ Converts => scale > 1 /\ Asked(CHUNK_SIZE - h) <= TmpSize
  <1> DEFINE count == CHUNK_SIZE - h
  <1>1. /\ FrameSize \in Nat \ {0} /\ scale \in Nat \ {0}
        /\ \/ scale = 1 /\ ~Converts
           \/ Converts /\ scale = 2 /\ FrameSize = 2
           \/ Converts /\ scale = 4 /\ FrameSize = 1
        /\ CHUNK_SIZE \in Whole(scale * FrameSize) /\ CHUNK_SIZE \in Nat
    BY Formats
  <1>2. scale * FrameSize \in Nat /\ h \in Whole(scale * FrameSize) /\ h \in Nat /\ h <= CHUNK_SIZE
    BY <1>1 DEF FramesInv
  <1>3. count \in Whole(scale * FrameSize) /\ count \in Nat
    BY <1>1, <1>2, WholeSum
  <1> HIDE DEF count
  <1>4. CASE scale = 1 /\ ~Converts
    <2>1. Asked(count) = count /\ scale * FrameSize = FrameSize
      BY <1>1, <1>3, <1>4 DEF Asked
    <2> QED BY <1>3, <1>4, <2>1 DEF count
  <1>5. CASE Converts /\ scale = 2 /\ FrameSize = 2
    <2>1. PICK k \in Nat : count = 4 * k
      BY <1>3, <1>5 DEF Whole
    <2>2. Asked(count) = IF 2 * k > 8192 THEN 8192 ELSE 2 * k
      BY <1>5, <2>1 DEF Asked, TmpSize
    <2>3. \E j \in Nat : Asked(count) = 2 * j
      <3>1. 8192 = 2 * 4096 /\ 4096 \in Nat
        OBVIOUS
      <3> QED BY <2>2, <3>1
    <2>4. Asked(count) \in Whole(FrameSize)
      BY <1>5, <2>3 DEF Whole
    <2>5. Asked(count) * scale <= count /\ scale > 1 /\ Asked(count) <= TmpSize
      BY <1>5, <2>1, <2>2 DEF TmpSize
    <2> QED BY <2>4, <2>5 DEF count
  <1>6. CASE Converts /\ scale = 4 /\ FrameSize = 1
    <2>1. PICK k \in Nat : count = 4 * k
      BY <1>3, <1>6 DEF Whole
    <2>2. Asked(count) = IF k > 8192 THEN 8192 ELSE k
      BY <1>6, <2>1 DEF Asked, TmpSize
    <2>3. \E j \in Nat : Asked(count) = 1 * j
      BY <2>2
    <2>4. Asked(count) \in Whole(FrameSize)
      BY <1>6, <2>3 DEF Whole
    <2>5. Asked(count) * scale <= count /\ scale > 1 /\ Asked(count) <= TmpSize
      BY <1>6, <2>1, <2>2 DEF TmpSize
    <2> QED BY <2>4, <2>5 DEF count
  <1> QED BY <1>1, <1>4, <1>5, <1>6

(* Filling the chunk leaves whole frames in it. *)
LEMMA ReadKeepsFrames ==
  ASSUME FramesInv, ip_read
  PROVE  FramesInv'
  <1> DEFINE n == Asked(CHUNK_SIZE - h)
             half == ((n \div 2) \div FrameSize) * FrameSize
             u == scale * FrameSize
  <1>1. /\ life = "open" /\ scale > 0 /\ life' = life /\ scale' = scale
        /\ bits' = bits /\ channels' = channels
    BY DEF ip_read, http
  <1>2. PICK got \in ({half, n} \cup IF h = 0 THEN {FrameSize} ELSE {}) \ {0} :
          h' = IF CHUNK_SIZE - (h + got * scale) < 1024 THEN 0 ELSE h + got * scale
    BY DEF ip_read
  <1>3. /\ FrameSize \in Nat \ {0} /\ scale \in Nat \ {0} /\ CHUNK_SIZE \in Nat
    BY <1>1, Formats
  <1>4. n \in Whole(FrameSize)
    BY <1>1, AskedIsWhole
  <1>5. h \in Whole(u) /\ u \in Nat /\ h \in Nat
    BY <1>1, <1>3 DEF FramesInv
  <1> HIDE DEF n
  <1>6. n \in Nat
    BY <1>3, <1>4, WholeProduct
  <1>7. half \in Whole(FrameSize)
    <2> DEFINE k == (n \div 2) \div FrameSize
    <2>1. n \div 2 \in Nat
      BY <1>6
    <2>2. k \in Nat
      BY <1>3, <2>1, Quotient
    <2> HIDE DEF k
    <2>3. k * FrameSize = FrameSize * k
      BY <1>3, <2>2, SMT
    <2>4. FrameSize * k \in Whole(FrameSize)
      BY <2>2 DEF Whole
    <2> QED BY <2>3, <2>4 DEF k
  <1>8. FrameSize \in Whole(FrameSize)
    <2>1. FrameSize = FrameSize * 1 /\ 1 \in Nat
      BY <1>3
    <2> QED BY <2>1 DEF Whole
  <1> HIDE DEF half, u
  <1>9. got \in Whole(FrameSize)
    BY <1>2, <1>4, <1>7, <1>8
  <1>10. got * scale \in Whole(u) /\ got \in Nat
    BY <1>3, <1>9, WholeProduct DEF u
  <1>11. h + got * scale \in Whole(u)
    BY <1>5, <1>10, WholeSum
  <1>12. 0 \in Whole(u)
    BY <1>5, NoneIsWhole
  <1>13. h' \in Whole(u)
    BY <1>2, <1>11, <1>12
  <1>14. got * scale \in Nat
    BY <1>3, <1>10, SMT
  <1>15. h' \in Nat /\ h' <= CHUNK_SIZE
    BY <1>2, <1>3, <1>5, <1>14
  <1>16. FrameSize' = FrameSize
    BY <1>1 DEF FrameSize
  <1> QED BY <1>1, <1>13, <1>15, <1>16 DEF FramesInv, u

(* Every other step leaves the chunk as it is or starts it anew. *)
LEMMA StepKeepsFrames ==
  ASSUME FramesInv, [InputNext]_ivars
  PROVE  FramesInv'
  <1>1. ASSUME life' = life, bits' = bits, channels' = channels, scale' = scale, h' \in {0, h}
        PROVE  FramesInv'
    <2>1. FrameSize' = FrameSize
      BY <1>1 DEF FrameSize
    <2>2. ASSUME life = "open" PROVE 0 \in Whole(scale * FrameSize)
      <3>1. bits \in {8, 16, 24, 32} /\ channels \in Nat \ {0}
        BY <2>2, InputAssumption DEF FramesInv
      <3>2. bits <= 16 => bits \div 8 \in {1, 2}
        BY <3>1
      <3>3. channels <= 2 => channels \in {1, 2}
        BY <3>1
      <3>4. scale \in Nat
        BY <2>2, <3>1, <3>2, <3>3 DEF FramesInv
      <3>5. scale * FrameSize \in Nat
        BY <3>1, <3>4, FrameSizes DEF FrameSize
      <3> QED BY <3>5, NoneIsWhole
    <2>3. CHUNK_SIZE \in Nat
      BY InputAssumption DEF Whole
    <2> QED BY <1>1, <2>1, <2>2, <2>3 DEF FramesInv
  <1>2. ASSUME life' # "open", scale' = 0, h' = 0 PROVE FramesInv'
    <2>1. CHUNK_SIZE \in Nat
      BY InputAssumption DEF Whole
    <2> QED BY <1>2, <2>1 DEF FramesInv
  <1>3. ASSUME life' = life, sound' = sound PROVE FramesInv'
    BY <1>1, <1>3 DEF sound
  <1>4. CASE \E r \in BOOLEAN : ip_new(r)
    BY <1>2, <1>4 DEF ip_new, Cleared
  <1>5. CASE ip_open
    <2>1. life' # "open" /\ scale' = scale /\ h' = h /\ scale = 0 /\ h = 0
      BY <1>5 DEF ip_open, sound, FramesInv
    <2> QED BY <1>2, <2>1
  <1>6. CASE http_open \/ do_http_get \/ Redirect \/ open_remote \/ NextLine \/ handle_line
             \/ open_file \/ Fallback
    <2>1. life' = life /\ sound' = sound
      BY <1>6 DEF http_open, do_http_get, Redirect, open_remote, NextLine, handle_line,
                  open_file, Fallback, sound
    <2> QED BY <1>3, <2>1
  <1>7. CASE plugin_open
    <2>1. CASE life' = "open" /\ bits' \in Bits /\ channels' \in Channels /\ scale' = scale /\ h' = h
      <3>1. scale = 0 /\ h = 0 /\ h \in Nat
        BY <1>7 DEF plugin_open, FramesInv
      <3>2. bits' \in {8, 16, 24, 32} /\ channels' \in Nat
        BY <2>1, InputAssumption
      <3>3. scale' \in Nat
        BY <2>1, <3>1
      <3>4. scale' * FrameSize' \in Nat
        BY <3>2, <3>3, FrameSizes DEF FrameSize
      <3>5. 0 \in Whole(scale' * FrameSize')
        BY <3>4, NoneIsWhole
      <3>6. h' \in Whole(scale' * FrameSize')
        BY <2>1, <3>1, <3>5
      <3>7. CHUNK_SIZE \in Nat
        BY InputAssumption DEF Whole
      <3> QED BY <2>1, <3>1, <3>6, <3>7 DEF FramesInv
    <2>2. CASE UNCHANGED <<life, sound>>
      BY <1>3, <2>2
    <2> QED BY <1>7, <2>1, <2>2 DEF plugin_open
  <1>8. CASE ip_reset \/ ip_close \/ ip_delete
    <2>1. life' # "open" /\ scale' = 0 /\ h' = 0
      BY <1>8 DEF ip_reset, ip_close, ip_delete, Cleared
    <2> QED BY <1>2, <2>1
  <1>9. CASE ip_setup
    <2>1. /\ life = "open" /\ life' = "open" /\ scale = 0 /\ bits' = bits /\ channels' = channels
          /\ h' = h /\ h = 0
          /\ scale' = IF bits <= 16 /\ channels <= 2 THEN (3 - channels) * (3 - bits \div 8) ELSE 1
      BY <1>9 DEF ip_setup, FramesInv
    <2>2. bits \in {8, 16, 24, 32} /\ channels \in Nat \ {0} /\ bits \in Bits /\ channels \in Channels
      BY <2>1, InputAssumption DEF FramesInv
    <2>3. bits' \in {8, 16, 24, 32} /\ channels' \in Nat
      BY <2>1, <2>2
    <2>4. scale' \in Nat
      <3>1. bits <= 16 => bits \div 8 \in {1, 2}
        BY <2>2
      <3>2. channels <= 2 => channels \in {1, 2}
        BY <2>2
      <3> QED BY <2>1, <3>1, <3>2
    <2>5. scale' * FrameSize' \in Nat
      BY <2>3, <2>4, FrameSizes DEF FrameSize
    <2>6. h' \in Whole(scale' * FrameSize')
      BY <2>1, <2>5, NoneIsWhole
    <2>7. CHUNK_SIZE \in Nat
      BY InputAssumption DEF Whole
    <2> QED BY <2>1, <2>2, <2>6, <2>7 DEF FramesInv
  <1>10. CASE ip_read
    BY <1>10, ReadKeepsFrames
  <1>11. CASE \E err \in {"again", "eof", "plugin", "select"} : ip_read_nothing(err)
    <2>1. life' = life /\ bits' = bits /\ channels' = channels /\ scale' = scale /\ h' \in {0, h}
      BY <1>11 DEF ip_read_nothing
    <2> QED BY <1>1, <2>1
  <1>12. CASE ip_seek
    <2>1. life' = life /\ bits' = bits /\ channels' = channels /\ scale' = scale /\ h' \in {0, h}
      BY <1>12 DEF ip_seek
    <2> QED BY <1>1, <2>1
  <1>13. CASE Other
    <2>1. life' = life /\ sound' = sound
      BY <1>13 DEF Other
    <2> QED BY <1>3, <2>1
  <1>14. CASE UNCHANGED ivars
    <2>1. life' = life /\ sound' = sound
      BY <1>14 DEF ivars, sound
    <2> QED BY <1>3, <2>1
  <1> QED BY <1>4, <1>5, <1>6, <1>7, <1>8, <1>9, <1>10, <1>11, <1>12, <1>13, <1>14
             DEF InputNext, Opening

(* Closing one descriptor leaves the others alone. *)
LEMMA Closing ==
  ASSUME NEW w \in [Fds -> {"none", "ip", "other"}], NEW d \in Fds \cup {0}
  PROVE  /\ Close(d, w) \in [Fds -> {"none", "ip", "other"}]
         /\ \A e \in Fds \ {d} : Close(d, w)[e] = w[e]
  BY DEF Close

(* What the steps of an attempt to open do with the descriptors. *)
LEMMA OpeningKeepsSource ==
  ASSUME SourceInv, Opening
  PROVE  SourceInv'
  <1>1. /\ opened \in [Fds -> {"none", "ip", "other"}] /\ fd \in Fds \cup {0} /\ hfd \in Fds \cup {0}
        /\ fd # 0 => opened[fd] = "ip"
        /\ 0 \notin Fds
    BY InputAssumption DEF SourceInv
  <1>2. Free # {} => Lowest \in Fds /\ opened[Lowest] = "none"
    <2> HIDE DEF Lowest
    <2> QED BY LowestIsFree DEF Free
  <1>3. /\ Close(hfd, opened) \in [Fds -> {"none", "ip", "other"}]
        /\ Close(fd, opened) \in [Fds -> {"none", "ip", "other"}]
    BY <1>1, Closing
  <1>4. ASSUME life = "opening", fd = 0, step = "got", rc = 0, setup_remote,
               life' = life, hfd' = hfd
        PROVE  SourceInv'
    <2>1. hfd \in Fds /\ opened[hfd] = "ip"
      BY <1>1, <1>4 DEF SourceInv
    <2>2. CASE rc' = 0 /\ fd' = hfd /\ step' = "plugin" /\ UNCHANGED opened
      BY <1>1, <1>4, <2>1, <2>2 DEF SourceInv
    <2>3. CASE rc' = -1 /\ step' = "failed" /\ opened' = Close(hfd, opened) /\ UNCHANGED fd
      BY <1>1, <1>3, <1>4, <2>3 DEF SourceInv
    <2> QED BY <1>4, <2>2, <2>3 DEF setup_remote
  <1>5. CASE http_open
    <2>1. life = "opening" /\ step = "get" /\ fd = 0 /\ life' = life /\ fd' = fd
      BY <1>5 DEF http_open, SourceInv
    <2>2. CASE hfd' = 0 /\ rc' = -1 /\ step' = "got" /\ UNCHANGED opened
      BY <1>1, <2>1, <2>2 DEF SourceInv
    <2>3. CASE Free # {} /\ hfd' = Lowest /\ rc' = -1 /\ step' = "got" /\ UNCHANGED opened
      BY <1>1, <1>2, <2>1, <2>3 DEF SourceInv
    <2>4. CASE /\ Free # {} /\ hfd' = Lowest /\ opened' = [opened EXCEPT ![hfd'] = "ip"]
               /\ rc' = 0 /\ step' = "connected"
      BY <1>1, <1>2, <2>1, <2>4 DEF SourceInv
    <2> QED BY <1>5, <2>2, <2>3, <2>4 DEF http_open
  <1>6. CASE do_http_get
    <2>1. /\ life = "opening" /\ step = "connected" /\ fd = 0 /\ hfd # 0 /\ opened[hfd] = "ip"
          /\ life' = life /\ fd' = fd /\ hfd' = hfd /\ opened' = opened
      BY <1>6 DEF do_http_get, SourceInv
    <2>2. step' \in {"got", "moved"}
      BY <1>6 DEF do_http_get
    <2> QED BY <1>1, <2>1, <2>2 DEF SourceInv
  <1>7. CASE Redirect
    <2>1. /\ life = "opening" /\ fd = 0 /\ life' = life /\ fd' = fd
          /\ opened' = Close(hfd, opened) /\ hfd' = 0 /\ step' = "get"
      BY <1>7 DEF Redirect, SourceInv
    <2> QED BY <1>1, <1>3, <2>1 DEF SourceInv
  <1>8. CASE open_remote
    <2>1. life = "opening" /\ step = "got" /\ fd = 0 /\ life' = life /\ hfd' = hfd
      BY <1>8 DEF open_remote, SourceInv
    <2>2. CASE rc # 0
      <3>1. step' = "failed" /\ fd' = fd /\ opened' = opened
        BY <1>8, <2>2 DEF open_remote
      <3> QED BY <1>1, <2>1, <3>1 DEF SourceInv
    <2>3. CASE rc = 0 /\ setup_remote
      BY <1>4, <2>1, <2>3
    <2>4. CASE rc = 0 /\ read_playlist
      <3>1. opened' = Close(hfd, opened) /\ step' \in {"failed", "line"} /\ fd' = fd
        BY <2>4 DEF read_playlist
      <3> QED BY <1>1, <1>3, <2>1, <3>1 DEF SourceInv
    <2> QED BY <1>8, <2>2, <2>3, <2>4 DEF open_remote
  <1>9. CASE NextLine
    <2>1. /\ life = "opening" /\ fd = 0 /\ life' = life /\ fd' = fd /\ opened' = opened
          /\ step' \in {"failed", "get"} /\ hfd' \in {0, hfd}
      BY <1>9 DEF NextLine, SourceInv
    <2> QED BY <1>1, <2>1 DEF SourceInv
  <1>10. CASE handle_line
    <2>1. life = "opening" /\ step = "got" /\ fd = 0 /\ life' = life /\ hfd' = hfd
      BY <1>10 DEF handle_line, SourceInv
    <2>2. CASE rc # 0
      <3>1. opened' = Close(hfd, opened) /\ step' = "line" /\ fd' = fd
        BY <1>10, <2>2 DEF handle_line
      <3> QED BY <1>1, <1>3, <2>1, <3>1 DEF SourceInv
    <2>3. CASE rc = 0 /\ setup_remote
      BY <1>4, <2>1, <2>3
    <2> QED BY <1>10, <2>2, <2>3 DEF handle_line
  <1>11. CASE open_file
    <2>1. life = "opening" /\ step = "file" /\ fd = 0 /\ life' = life /\ hfd' = hfd
      BY <1>11 DEF open_file, SourceInv
    <2>2. CASE rc' = -1 /\ step' = "failed" /\ UNCHANGED <<fd, opened>>
      BY <1>1, <2>1, <2>2 DEF SourceInv
    <2>3. CASE /\ Free # {} /\ fd' = Lowest /\ opened' = [opened EXCEPT ![fd'] = "ip"]
               /\ step' = "plugin"
      BY <1>1, <1>2, <2>1, <2>3 DEF SourceInv
    <2> QED BY <1>11, <2>2, <2>3 DEF open_file
  <1>12. CASE plugin_open
    <2>1. /\ life = "opening" /\ fd # 0 /\ fd' = fd /\ opened' = opened /\ hfd' = 0
          /\ \/ life' = "open"
             \/ life' = life /\ step' \in {"failed", "unsupported"}
      BY <1>12 DEF plugin_open, Left, SourceInv
    <2> QED BY <1>1, <2>1 DEF SourceInv
  <1>13. CASE Fallback
    <2>1. /\ life = "opening" /\ fd # 0 /\ fd' = fd /\ opened' = opened /\ hfd' = hfd
          /\ life' = life /\ step' = "plugin"
      BY <1>13 DEF Fallback, SourceInv
    <2> QED BY <1>1, <2>1 DEF SourceInv
  <1>14. CASE ip_reset
    <2>1. life' = "new" /\ opened' = Close(fd, opened) /\ fd' = 0 /\ hfd' = 0
      BY <1>14 DEF ip_reset, Left
    <2> QED BY <1>3, <2>1 DEF SourceInv
  <1> QED BY <1>5, <1>6, <1>7, <1>8, <1>9, <1>10, <1>11, <1>12, <1>13, <1>14 DEF Opening

(* The other steps close the input's own descriptor, or none. *)
LEMMA StepKeepsSource ==
  ASSUME SourceInv, [InputNext]_ivars
  PROVE  SourceInv'
  <1>1. /\ opened \in [Fds -> {"none", "ip", "other"}] /\ fd \in Fds \cup {0} /\ hfd \in Fds \cup {0}
        /\ fd # 0 => opened[fd] = "ip"
        /\ 0 \notin Fds
    BY InputAssumption DEF SourceInv
  <1>2. Close(fd, opened) \in [Fds -> {"none", "ip", "other"}]
    BY <1>1, Closing
  <1>3. ASSUME life' = life, fd' = fd, hfd' = hfd, step' = step, rc' = rc, opened' = opened
        PROVE  SourceInv'
    BY <1>3 DEF SourceInv
  <1>4. CASE \E r \in BOOLEAN : ip_new(r)
    <2>1. life' = "new" /\ fd' = 0 /\ hfd' = hfd /\ opened' = opened
      BY <1>4 DEF ip_new, http
    <2> QED BY <1>1, <2>1 DEF SourceInv
  <1>5. CASE ip_open
    <2>1. /\ life' = "opening" /\ fd = 0 /\ fd' = 0 /\ opened' = opened /\ hfd' = 0
          /\ step' \in {"get", "file"}
      BY <1>5 DEF ip_open, SourceInv
    <2> QED BY <1>1, <2>1 DEF SourceInv
  <1>6. CASE Opening
    BY <1>6, OpeningKeepsSource
  <1>7. CASE \/ ip_setup \/ ip_read \/ ip_seek
             \/ \E err \in {"again", "eof", "plugin", "select"} : ip_read_nothing(err)
    <2>1. /\ life' = life /\ fd' = fd /\ opened' = opened
          /\ hfd' = hfd /\ step' = step /\ rc' = rc
      BY <1>7 DEF ip_setup, ip_read, ip_seek, ip_read_nothing, http
    <2> QED BY <1>3, <2>1
  <1>8. CASE ip_close \/ ip_delete
    <2>1. life' \in {"none", "new"} /\ opened' = Close(fd, opened) /\ fd' = 0 /\ hfd' = hfd
      BY <1>8 DEF ip_close, ip_delete, http
    <2> QED BY <1>1, <1>2, <2>1 DEF SourceInv
  <1>9. CASE Other
    <2>1. life' = life /\ fd' = fd /\ hfd' = hfd /\ step' = step /\ rc' = rc
      BY <1>9 DEF Other, http
    <2>2. CASE Free # {} /\ opened' = [opened EXCEPT ![Lowest] = "other"]
      <3>1. Lowest \in Fds /\ opened[Lowest] = "none"
        <4> HIDE DEF Lowest
        <4> QED BY <2>2, LowestIsFree DEF Free
      <3>2. /\ opened' \in [Fds -> {"none", "ip", "other"}]
            /\ \A d \in Fds : opened[d] = "ip" => opened'[d] = "ip"
        BY <1>1, <2>2, <3>1
      <3> QED BY <1>1, <2>1, <3>2 DEF SourceInv
    <2>3. CASE \E d \in Fds : opened[d] = "other" /\ opened' = [opened EXCEPT ![d] = "none"]
      <3>1. PICK d \in Fds : opened[d] = "other" /\ opened' = [opened EXCEPT ![d] = "none"]
        BY <2>3
      <3>2. /\ opened' \in [Fds -> {"none", "ip", "other"}]
            /\ \A e \in Fds : opened[e] = "ip" => opened'[e] = "ip"
        BY <1>1, <3>1
      <3> QED BY <1>1, <2>1, <3>2 DEF SourceInv
    <2> QED BY <1>9, <2>2, <2>3 DEF Other
  <1>10. CASE UNCHANGED ivars
    BY <1>3, <1>10 DEF ivars
  <1> QED BY <1>4, <1>5, <1>6, <1>7, <1>8, <1>9, <1>10 DEF InputNext

(* Whatever redirections, playlist entries, failures and other threads'    *)
(* descriptors there are, an open input has a descriptor of its own and a  *)
(* closed one none (ip_open, ip_reset), and in every supported format      *)
(* ip_read asks for whole frames that fit the chunk and the buffer of the  *)
(* conversion.                                                             *)
THEOREM InputIsSound == InputSpec => []InputSound
  <1>1. InputInit => InputInv
    <2> SUFFICES ASSUME InputInit PROVE InputInv
      OBVIOUS
    <2>1. SourceInv
      BY InputAssumption DEF InputInit, SourceInv
    <2>2. CHUNK_SIZE \in Nat
      BY InputAssumption DEF Whole
    <2>3. FramesInv
      BY <2>2 DEF InputInit, FramesInv
    <2> QED BY <2>1, <2>3 DEF InputInv
  <1>2. InputInv /\ [InputNext]_ivars => InputInv'
    BY StepKeepsFrames, StepKeepsSource DEF InputInv
  <1>3. InputInv => InputSound
    <2> SUFFICES ASSUME InputInv PROVE OpenHasSource /\ WholeFrames
      BY DEF InputSound
    <2>1. OpenHasSource
      BY DEF InputInv, SourceInv, OpenHasSource
    <2>2. ASSUME life = "open", scale > 0
          PROVE  /\ Asked(CHUNK_SIZE - h) % FrameSize = 0
                 /\ Asked(CHUNK_SIZE - h) * scale <= CHUNK_SIZE - h
                 /\ Converts => scale > 1 /\ Asked(CHUNK_SIZE - h) <= TmpSize
      <3> HIDE DEF Asked, FrameSize, Converts, TmpSize
      <3>1. FramesInv
        BY DEF InputInv
      <3>2. FrameSize \in Nat \ {0}
        BY <2>2, <3>1, Formats
      <3>3. Asked(CHUNK_SIZE - h) \in Whole(FrameSize)
        BY <2>2, <3>1, AskedIsWhole
      <3>4. Asked(CHUNK_SIZE - h) % FrameSize = 0
        BY <3>2, <3>3, WholeRemainder
      <3> QED BY <2>2, <3>1, <3>4, AskedIsWhole
    <2> QED BY <2>1, <2>2 DEF WholeFrames
  <1> QED BY <1>1, <1>2, <1>3, PTL DEF InputSpec

-----------------------------------------------------------------------------
(* The device and the software volume. *)

States == {"CLOSED", "SETUP", "PREPARED", "RUNNING", "PAUSED", "XRUN", "SUSPENDED"}

(* The device is never stuck, and holds units only while it plays, is      *)
(* paused or sleeps.  One that is paused has room, since op_alsa_pause     *)
(* waited for it: that is why op_alsa_unpause, which waits again, returns. *)
DeviceOK(d) ==
  /\ d \in [state : States, hw : 0 .. HwSize]
  /\ d.state \in {"RUNNING", "PAUSED"} => d.hw > 0
  /\ d.state = "PAUSED" => d.hw < HwSize
  /\ d.state \in {"CLOSED", "SETUP", "PREPARED", "XRUN"} => d.hw = 0

PlayStates  == {"PREPARED", "RUNNING", "XRUN", "SUSPENDED"}
PauseStates == {"SETUP", "PREPARED", "PAUSED", "XRUN", "SUSPENDED"}

(* Without hardware pause the device is in SETUP or was dropped while the  *)
(* player is paused; with it, it is never in SETUP.                        *)
DeviceInv ==
  /\ DeviceOK(dev) /\ canPause \in BOOLEAN
  /\ consumer \in {"STOPPED", "PLAYING", "PAUSED"}
  /\ consumer = "PLAYING" => dev.state \in PlayStates
  /\ consumer = "PAUSED" => dev.state \in PauseStates
  /\ consumer = "STOPPED" => dev = Closed
  /\ canPause => dev.state # "SETUP"

(* From the consumer's position on, exactly the units before scale_pos     *)
(* have been scaled, and only while one of the options is on.              *)
ScaleInv ==
  /\ cpos \in 0 .. TrackSize /\ spos \in 0 .. TrackSize
  /\ times \in [Units -> 0 .. 2]
  /\ vol \in [soft : BOOLEAN, gain : BOOLEAN] /\ calm \in BOOLEAN /\ wrong = FALSE
  /\ Enabled => spos >= cpos
  /\ calm => \A u \in Units : u >= cpos => times[u] = IF Enabled /\ u < spos THEN 1 ELSE 0

OutputInv == DeviceInv /\ ScaleInv

(* Waiting for room ends, with a device that plays or has run dry. *)
LEMMA WaitReturns ==
  ASSUME NEW d, DeviceOK(d), d.state \in {"RUNNING", "PAUSED"},
         NEW w \in snd_pcm_wait(d)
  PROVE  /\ DeviceOK(w) /\ w.hw < HwSize
         /\ w.state = d.state \/ (w.state = "XRUN" /\ d.state = "RUNNING")
  <1>1. CASE d.state = "RUNNING"
    <2>1. CASE w = [state |-> "XRUN", hw |-> 0]
      BY <1>1, <2>1, OutputAssumption DEF DeviceOK, States
    <2>2. CASE \E k \in 1 .. (IF d.hw < HwSize THEN d.hw ELSE HwSize - 1) : w = [d EXCEPT !.hw = k]
      <3>1. PICK k \in 1 .. (IF d.hw < HwSize THEN d.hw ELSE HwSize - 1) : w = [d EXCEPT !.hw = k]
        BY <2>2
      <3>2. k \in 1 .. HwSize - 1
        BY <3>1, OutputAssumption DEF DeviceOK
      <3> QED BY <1>1, <3>1, <3>2, OutputAssumption DEF DeviceOK, States
    <2> QED BY <1>1, <2>1, <2>2 DEF snd_pcm_wait
  <1>2. CASE d.state = "PAUSED"
    BY <1>2, OutputAssumption DEF snd_pcm_wait, DeviceOK
  <1> QED BY <1>1, <1>2

(* What op_alsa_pause and op_alsa_unpause leave. *)
LEMMA PauseDevice ==
  ASSUME NEW d, DeviceOK(d), d.state \in PlayStates, canPause \in BOOLEAN,
         NEW e \in op_alsa_pause(d)
  PROVE  DeviceOK(e) /\ e.state \in PauseStates /\ (canPause => e.state # "SETUP")
  <1>1. CASE ~canPause
    BY <1>1, OutputAssumption DEF op_alsa_pause, Setup, DeviceOK, States, PauseStates
  <1>2. CASE canPause /\ d.state = "RUNNING"
    <2>1. PICK w \in snd_pcm_wait(d) : e = snd_pcm_pause(w, TRUE)
      BY <1>2 DEF op_alsa_pause
    <2>2. DeviceOK(w) /\ w.hw < HwSize /\ w.state \in {"RUNNING", "XRUN"}
      BY <1>2, <2>1, WaitReturns
    <2> QED BY <2>1, <2>2 DEF snd_pcm_pause, DeviceOK, States, PauseStates
  <1>3. CASE canPause /\ d.state # "RUNNING"
    BY <1>3 DEF op_alsa_pause, PlayStates, PauseStates
  <1> QED BY <1>1, <1>2, <1>3

(* What unpausing leaves the device in. *)
LEMMA UnpauseDevice ==
  ASSUME NEW d, DeviceOK(d), d.state \in PauseStates, canPause \in BOOLEAN,
         canPause => d.state # "SETUP", NEW e \in op_alsa_unpause(d)
  PROVE  DeviceOK(e) /\ e.state \in PlayStates
  <1>1. CASE ~canPause
    BY <1>1, OutputAssumption DEF op_alsa_unpause, Prepared, DeviceOK, States, PlayStates
  <1>2. CASE canPause /\ d.state = "PAUSED"
    <2>1. PICK w \in snd_pcm_wait(d) : e = snd_pcm_pause(w, FALSE)
      BY <1>2 DEF op_alsa_unpause
    <2>2. w = d
      BY <1>2, <2>1, OutputAssumption DEF snd_pcm_wait, DeviceOK
    <2> QED BY <1>2, <2>1, <2>2 DEF snd_pcm_pause, DeviceOK, States, PlayStates
  <1>3. CASE canPause /\ d.state # "PAUSED"
    BY <1>3 DEF op_alsa_unpause, PlayStates, PauseStates
  <1> QED BY <1>1, <1>2, <1>3

(* A device that was opened, or not. *)
LEMMA OpenedDevice ==
  ASSUME dev' \in op_alsa_open, Opened("PLAYING"), canPause' \in BOOLEAN
  PROVE  DeviceInv'
  BY OutputAssumption DEF op_alsa_open, Opened, Prepared, Closed, DeviceInv, DeviceOK, States, PlayStates

(* Every step keeps the device in a state that fits the consumer. *)
LEMMA DeviceStep ==
  ASSUME DeviceInv, AudioNext
  PROVE  DeviceInv'
  <1>0. DeviceOK(Closed) /\ DeviceOK(Prepared) /\ Prepared.state = "PREPARED"
    BY OutputAssumption DEF DeviceOK, Closed, Prepared, States
  <1>1. CASE consumer_play
    <2>1. CASE consumer = "STOPPED" /\ dev' \in op_alsa_open /\ Opened("PLAYING")
      BY <1>1, <2>1, OpenedDevice DEF consumer_play, DeviceInv
    <2>2. CASE consumer = "PAUSED" /\ dev' \in op_alsa_unpause(dev) /\ consumer' = "PLAYING"
      <3>1. DeviceOK(dev') /\ dev'.state \in PlayStates
        BY <2>2, UnpauseDevice DEF DeviceInv
      <3> QED BY <1>1, <2>2, <3>1 DEF consumer_play, DeviceInv, PlayStates
    <2> QED BY <1>1, <2>1, <2>2 DEF consumer_play
  <1>2. CASE consumer_pause
    <2>1. DeviceOK(dev') /\ dev'.state \in PauseStates /\ (canPause => dev'.state # "SETUP")
      BY <1>2, PauseDevice DEF consumer_pause, DeviceInv
    <2> QED BY <1>2, <2>1 DEF consumer_pause, DeviceInv
  <1>3. CASE consumer_stop
    BY <1>0, <1>3 DEF consumer_stop, op_alsa_close, DeviceInv, Closed
  <1>4. CASE player_set_op
    <2>1. CASE dev' = Closed /\ consumer' = "STOPPED"
      BY <1>0, <1>4, <2>1 DEF player_set_op, DeviceInv, Closed
    <2>2. CASE dev' \in op_alsa_pause(Prepared) /\ consumer = "PAUSED" /\ UNCHANGED consumer
      <3>1. DeviceOK(dev') /\ dev'.state \in PauseStates /\ (canPause => dev'.state # "SETUP")
        BY <1>0, <2>2, PauseDevice DEF DeviceInv, PlayStates
      <3> QED BY <1>4, <2>2, <3>1 DEF player_set_op, DeviceInv
    <2>3. CASE dev' = Prepared /\ consumer = "PLAYING" /\ UNCHANGED consumer
      BY <1>0, <1>4, <2>3 DEF player_set_op, DeviceInv, PlayStates
    <2> QED BY <1>4, <2>1, <2>2, <2>3 DEF player_set_op, Active, DeviceInv
  <1>5. CASE Reopen
    BY <1>5, OpenedDevice DEF Reopen, DeviceInv
  <1>6. CASE \E drop \in BOOLEAN : change_sf(drop)
    <2>1. PICK drop \in BOOLEAN : change_sf(drop)
      BY <1>6
    <2>2. CASE dev' \in op_alsa_open /\ Opened("PLAYING")
      BY <2>1, <2>2, OpenedDevice DEF change_sf, DeviceInv
    <2>3. CASE consumer' = "PLAYING" /\ dev' \in op_alsa_unpause(Prepared)
      <3>1. DeviceOK(dev') /\ dev'.state \in PlayStates
        BY <1>0, <2>3, UnpauseDevice DEF DeviceInv, PauseStates
      <3> QED BY <2>1, <2>3, <3>1 DEF change_sf, DeviceInv, PlayStates
    <2>4. CASE consumer = "PLAYING" /\ consumer' = "PLAYING" /\ dev' \in {Prepared, dev}
      BY <1>0, <2>1, <2>4 DEF change_sf, DeviceInv, PlayStates
    <2> QED BY <2>1, <2>2, <2>3, <2>4 DEF change_sf, op_alsa_drop, Active, DeviceInv
  <1>7. CASE \E to \in Units : player_seek(to)
    <2>1. PICK to \in Units : player_seek(to)
      BY <1>7
    <2>2. CASE Active /\ dev' = Prepared /\ UNCHANGED consumer
      BY <1>0, <2>1, <2>2 DEF player_seek, Active, DeviceInv, PlayStates, PauseStates
    <2>3. CASE dev' \in op_alsa_open /\ Opened("PLAYING")
      BY <2>1, <2>3, OpenedDevice DEF player_seek, DeviceInv
    <2>4. CASE dev' \in op_alsa_pause(Prepared) /\ consumer' = "PAUSED"
      <3>1. DeviceOK(dev') /\ dev'.state \in PauseStates /\ (canPause => dev'.state # "SETUP")
        BY <1>0, <2>4, PauseDevice DEF DeviceInv, PlayStates
      <3> QED BY <2>1, <2>4, <3>1 DEF player_seek, DeviceInv
    <2> QED BY <2>1, <2>2, <2>3, <2>4 DEF player_seek, op_alsa_drop
  <1>8. CASE \E size \in 1 .. HwSize, took \in 0 .. HwSize : Write(size, took)
    <2>1. PICK size \in 1 .. HwSize, took \in 0 .. HwSize : Write(size, took)
      BY <1>8
    <2> DEFINE d == snd_pcm_recover(dev)
    <2>2. DeviceOK(d) /\ d.state \in PlayStates
      BY <1>0, <2>1 DEF snd_pcm_recover, Write, DeviceInv, PlayStates
    <2>3. /\ consumer = "PLAYING" /\ took <= size /\ size <= HwSize - d.hw
          /\ dev' = IF took = 0 THEN d ELSE [state |-> "RUNNING", hw |-> d.hw + took]
          /\ UNCHANGED <<consumer, canPause>>
      BY <2>1 DEF Write
    <2> HIDE DEF d
    <2>4. CASE took = 0
      BY <2>2, <2>3, <2>4 DEF DeviceInv, PlayStates
    <2>5. CASE took # 0
      <3>1. d.hw + took \in 1 .. HwSize
        BY <2>2, <2>3, <2>5, OutputAssumption DEF DeviceOK
      <3>2. dev' = [state |-> "RUNNING", hw |-> d.hw + took]
        BY <2>3, <2>5
      <3>3. DeviceOK(dev')
        BY <3>1, <3>2, OutputAssumption DEF DeviceOK, States
      <3> QED BY <2>3, <3>2, <3>3 DEF DeviceInv, PlayStates
    <2> QED BY <2>4, <2>5
  <1>9. CASE player_set_soft_vol("soft") \/ player_set_rg
    BY <1>9 DEF player_set_soft_vol, player_set_rg, DeviceInv
  <1>10. CASE Hardware
    <2>1. consumer = "PLAYING" /\ UNCHANGED <<consumer, canPause>>
      BY <1>10 DEF Hardware, DeviceInv, PauseStates, Closed
    <2>2. DeviceOK(dev') /\ dev'.state \in {"RUNNING", "XRUN"}
      <3>1. CASE dev.hw > 1
        BY <1>10, <3>1, OutputAssumption DEF Hardware, DeviceInv, DeviceOK, States
      <3>2. CASE ~(dev.hw > 1)
        BY <1>10, <3>2, OutputAssumption DEF Hardware, DeviceInv, DeviceOK, States
      <3> QED BY <3>1, <3>2
    <2> QED BY <2>1, <2>2 DEF DeviceInv, PlayStates
  <1>11. CASE Suspend
    <2>1. consumer = "PLAYING" /\ UNCHANGED <<consumer, canPause>>
      BY <1>11 DEF Suspend, DeviceInv, PauseStates, Closed
    <2>2. DeviceOK(dev') /\ dev'.state = "SUSPENDED"
      BY <1>11 DEF Suspend, DeviceInv, DeviceOK, States
    <2> QED BY <2>1, <2>2 DEF DeviceInv, PlayStates
  <1> QED BY <1>1, <1>2, <1>3, <1>4, <1>5, <1>6, <1>7, <1>8, <1>9, <1>10, <1>11 DEF AudioNext

(* After a reset nothing is scaled. *)
LEMMA ResetScale ==
  ASSUME ScaleInv, NEW to \in 0 .. TrackSize, reset_buffer(to)
  PROVE  ScaleInv'
  BY OutputAssumption DEF ScaleInv, reset_buffer, Enabled, Units

(* A write scales what scale_pos has not reached, and the device takes     *)
(* only what was scaled.                                                   *)
LEMMA WriteScales ==
  ASSUME ScaleInv, NEW size \in 1 .. HwSize, NEW took \in 0 .. HwSize,
         Write(size, took)
  PROVE  ScaleInv'
  <1> DEFINE to == cpos + size
  <1>1. /\ took <= size /\ to <= TrackSize /\ cpos' = cpos + took
        /\ UNCHANGED <<vol, calm>>
        /\ IF Enabled THEN scale_samples(size) ELSE UNCHANGED <<spos, times>>
        /\ wrong' = (wrong \/ (calm /\ \E u \in cpos .. cpos + took - 1 :
                                 times'[u] # IF Enabled THEN 1 ELSE 0))
    BY DEF Write
  <1>2. /\ cpos \in Nat /\ spos \in Nat /\ to \in Nat /\ cpos' \in 0 .. TrackSize /\ cpos' <= to
        /\ cpos <= cpos' /\ Enabled' = Enabled /\ wrong = FALSE
    BY <1>1, OutputAssumption DEF ScaleInv, Enabled
  <1>3. CASE ~Enabled
    <2>1. UNCHANGED <<spos, times>>
      BY <1>1, <1>3
    <2>2. calm => \A u \in Units : u >= cpos => times[u] = 0
      BY <1>3 DEF ScaleInv
    <2>3. \A u \in cpos .. cpos + took - 1 : u \in Units /\ u >= cpos
      BY <1>1, <1>2, OutputAssumption DEF Units
    <2>4. wrong' = FALSE
      BY <1>1, <1>2, <1>3, <2>1, <2>2, <2>3
    <2>5. \A u \in Units : u >= cpos' => u >= cpos
      BY <1>2, OutputAssumption DEF Units
    <2> QED BY <1>1, <1>2, <1>3, <2>1, <2>2, <2>4, <2>5 DEF ScaleInv
  <1>4. CASE Enabled
    <2>1. spos >= cpos /\ (calm => \A u \in Units : u >= cpos => times[u] = IF u < spos THEN 1 ELSE 0)
      BY <1>4 DEF ScaleInv
    <2>2. /\ spos' \in 0 .. TrackSize /\ spos' >= to
          /\ times' \in [Units -> 0 .. 2]
          /\ calm => \A u \in Units : u >= cpos => times'[u] = IF u < spos' THEN 1 ELSE 0
      <3>1. CASE spos >= to
        BY <1>1, <1>4, <2>1, <3>1 DEF scale_samples, ScaleInv
      <3>2. CASE ~(spos >= to)
        <4>1. /\ spos' = to
              /\ \A u \in Units :
                   times'[u] = IF u \in spos .. to - 1 THEN SCALE_SAMPLES(times[u]) ELSE times[u]
              /\ times' \in [Units -> 0 .. 2]
          <5>1. scale_samples(size)
            BY <1>1, <1>4
          <5>2. ~(spos >= cpos + size)
            BY <3>2
          <5>3. /\ spos' = cpos + size
                /\ times' = [u \in Units |->
                              IF u \in spos .. cpos + size - 1 THEN SCALE_SAMPLES(times[u]) ELSE times[u]]
            BY <5>1, <5>2 DEF scale_samples
          <5>4. times \in [Units -> 0 .. 2]
            BY DEF ScaleInv
          <5>5. \A k \in 0 .. 2 : SCALE_SAMPLES(k) \in 0 .. 2
            BY DEF SCALE_SAMPLES
          <5>6. times' \in [Units -> 0 .. 2]
            BY <5>3, <5>4, <5>5
          <5>7. \A u \in Units :
                  times'[u] = IF u \in spos .. to - 1 THEN SCALE_SAMPLES(times[u]) ELSE times[u]
            <6>1. cpos + size - 1 = to - 1
              BY <1>2, OutputAssumption
            <6> QED BY <5>3, <6>1
          <5> QED BY <5>3, <5>6, <5>7
        <4>4. ASSUME calm, NEW u \in Units, u >= cpos
              PROVE  times'[u] = IF u < to THEN 1 ELSE 0
          <5>1. CASE u < spos
            BY <1>2, <2>1, <3>2, <4>1, <4>4, <5>1, OutputAssumption DEF Units
          <5>2. CASE u >= spos /\ u < to
            <6>1. u \in spos .. to - 1 /\ times[u] = 0
              BY <1>2, <2>1, <4>4, <5>2, OutputAssumption DEF Units
            <6> QED BY <4>1, <5>2, <6>1 DEF SCALE_SAMPLES
          <5>3. CASE u >= to
            <6>1. u \notin spos .. to - 1 /\ times[u] = 0 /\ ~(u < to)
              BY <1>2, <2>1, <3>2, <4>4, <5>3, OutputAssumption DEF Units
            <6> QED BY <4>1, <6>1
          <5> QED BY <1>2, <5>1, <5>2, <5>3, OutputAssumption DEF Units
        <4> QED BY <1>1, <1>2, <4>1, <4>4, OutputAssumption
      <3> QED BY <3>1, <3>2
    <2>3. \A u \in cpos .. cpos + took - 1 : u \in Units /\ u >= cpos /\ u < spos'
      BY <1>1, <1>2, <2>2, OutputAssumption DEF Units
    <2>4. wrong' = FALSE
      BY <1>1, <1>2, <1>4, <2>2, <2>3
    <2>5. \A u \in Units : u >= cpos' => u >= cpos
      BY <1>2, OutputAssumption DEF Units
    <2>6. spos' >= cpos'
      BY <1>2, <2>2, OutputAssumption
    <2>7. vol' \in [soft : BOOLEAN, gain : BOOLEAN] /\ calm' \in BOOLEAN
      BY <1>1 DEF ScaleInv
    <2>8. calm' => \A u \in Units : u >= cpos' => times'[u] = IF Enabled' /\ u < spos' THEN 1 ELSE 0
      BY <1>1, <1>2, <1>4, <2>2, <2>5
    <2> QED BY <1>2, <2>2, <2>4, <2>6, <2>7, <2>8 DEF ScaleInv
  <1> QED BY <1>3, <1>4

(* Switching an option on or off. *)
LEMMA OptionScales ==
  ASSUME ScaleInv, NEW o \in {"soft", "gain"}, player_set_soft_vol(o)
  PROVE  ScaleInv'
  <1>1. /\ vol' \in [soft : BOOLEAN, gain : BOOLEAN] /\ UNCHANGED <<cpos, times, wrong>>
        /\ spos' = IF Enabled THEN spos ELSE cpos
        /\ calm' = (calm /\ spos <= cpos)
    BY DEF player_set_soft_vol, ScaleInv
  <1>2. /\ cpos \in 0 .. TrackSize /\ spos \in 0 .. TrackSize /\ spos' \in 0 .. TrackSize
        /\ calm' \in BOOLEAN /\ (Enabled => spos >= cpos)
    BY <1>1 DEF ScaleInv
  <1>3. Enabled' => spos' >= cpos'
    BY <1>1, <1>2, OutputAssumption
  <1>4. calm' => \A u \in Units : u >= cpos' => times'[u] = IF Enabled' /\ u < spos' THEN 1 ELSE 0
    <2> SUFFICES ASSUME calm, spos <= cpos, NEW u \in Units, u >= cpos
                 PROVE  times[u] = IF Enabled' /\ u < spos' THEN 1 ELSE 0
      BY <1>1
    <2>1. times[u] = 0
      BY <1>2, OutputAssumption DEF ScaleInv, Units
    <2>2. ~(u < spos')
      BY <1>1, <1>2, OutputAssumption DEF Units
    <2> QED BY <2>1, <2>2
  <1> QED BY <1>1, <1>2, <1>3, <1>4 DEF ScaleInv

(* Every step keeps the positions and what was scaled together. *)
LEMMA ScaleStep ==
  ASSUME ScaleInv, AudioNext
  PROVE  ScaleInv'
  <1>0. 0 \in 0 .. TrackSize /\ Units \subseteq 0 .. TrackSize
    BY OutputAssumption DEF Units
  <1>1. CASE UNCHANGED scaling
    BY <1>1 DEF scaling, ScaleInv, Enabled
  <1>2. CASE \E to \in 0 .. TrackSize : reset_buffer(to)
    BY <1>2, ResetScale
  <1>3. CASE consumer_play \/ consumer_pause \/ consumer_stop \/ player_set_op \/ Reopen
    <2>1. UNCHANGED scaling \/ reset_buffer(0)
      BY <1>3 DEF consumer_play, consumer_pause, consumer_stop, player_set_op, Reopen, scaling
    <2> QED BY <1>0, <1>1, <1>2, <2>1
  <1>4. CASE (\E drop \in BOOLEAN : change_sf(drop)) \/ (\E to \in Units : player_seek(to))
    BY <1>0, <1>2, <1>4 DEF change_sf, player_seek
  <1>5. CASE \E size \in 1 .. HwSize, took \in 0 .. HwSize : Write(size, took)
    BY <1>5, WriteScales
  <1>6. CASE player_set_soft_vol("soft") \/ player_set_rg
    BY <1>6, OptionScales DEF player_set_rg
  <1>7. CASE Hardware \/ Suspend
    BY <1>1, <1>7 DEF Hardware, Suspend, scaling
  <1> QED BY <1>3, <1>4, <1>5, <1>6, <1>7 DEF AudioNext

(* For any device, track and interleaving of commands, underruns and       *)
(* sleeps: the device follows the consumer's status and no wait for it is  *)
(* endless (alsa.c:250 to 310), and every unit is scaled exactly once      *)
(* before it is written (scale_samples, player.c:270 to 330).              *)
THEOREM OutputIsSound == AudioSpec => []OutputSound
  <1>1. AudioInit => OutputInv
    BY OutputAssumption
       DEF AudioInit, OutputInv, DeviceInv, DeviceOK, Closed, States, ScaleInv, Enabled, Units
  <1>2. OutputInv /\ [AudioNext]_avars => OutputInv'
    <2> SUFFICES ASSUME OutputInv, [AudioNext]_avars PROVE OutputInv'
      OBVIOUS
    <2>1. CASE AudioNext
      BY <2>1, DeviceStep, ScaleStep DEF OutputInv
    <2>2. CASE UNCHANGED avars
      BY <2>2 DEF avars, OutputInv, DeviceInv, DeviceOK, ScaleInv, Enabled
    <2> QED BY <2>1, <2>2
  <1>3. OutputInv => OutputSound
    BY DEF OutputInv, DeviceInv, DeviceOK, States, PlayStates, PauseStates, ScaleInv, OutputSound,
           DeviceFollows, ScaledOnce
  <1> QED BY <1>1, <1>2, <1>3, PTL DEF AudioSpec

-----------------------------------------------------------------------------
(* The decoders. *)

DecoderTypes ==
  /\ plugin \in Plugins /\ width \in {1, 2, 4} /\ (plugin # "ffmpeg" => width = 2)
  /\ pos \in Nat /\ lo \in Nat /\ hi \in Nat /\ made \in Nat /\ rlo \in Nat /\ rhi \in Nat
  /\ counter \in Nat /\ since \in Nat /\ req \in Nat /\ want \in Nat
  /\ lo <= hi /\ rlo <= rhi

(* What is kept starts with the byte that is due and ends with the last    *)
(* one converted, where the library goes on; when nothing is kept the      *)
(* library is there itself.  Only a failed seek of ffmpeg moves the        *)
(* library ahead, and only its 8 and 32 bit output ends elsewhere.         *)
KeptInv ==
  /\ plugin # "ffmpeg" => ~lossy
  /\ plugin = "aac" => pos = rlo
  /\ want <= made /\ made <= pos * width
  /\ Kept => want <= lo
  /\ width = 1 => made <= hi
  /\ width # 1 => hi <= made
  /\ ~lossy /\ width = 2 => made = pos * 2 /\ (IF Kept THEN want = lo /\ hi = made ELSE want = made)
  /\ ~lossy /\ width = 1 => made = pos /\ (IF Kept THEN want = lo \/ want = made ELSE want = made)

(* The reader counts as the server does. *)
MetaDataInv ==
  /\ ~torn
  /\ counter = since /\ counter <= MetaInt
  /\ plugin = "aac" => rhi - rlo <= BufferSize

DecoderInv == DecoderTypes /\ KeptInv /\ MetaDataInv

(* One read of the wrapper stays out of the metadata and within the buffer. *)
LEMMA WrapperReads ==
  ASSUME DecoderTypes, MetaDataInv, NEW count \in Nat, read_wrapper(count)
  PROVE  /\ \E k \in Nat : k > 0 /\ k <= count /\ rhi' = rhi + k
         /\ counter' \in Nat /\ since' = counter' /\ counter' <= MetaInt /\ ~torn'
  <1> DEFINE due == MetaInt > 0 /\ counter = MetaInt
             c == IF due THEN 0 ELSE counter
             s == IF due THEN 0 ELSE since
             max == IF MetaInt = 0 THEN count ELSE WrapperCount(count, c)
  <1>1. PICK k \in 1 .. Least(max, Length - rhi) :
          /\ rhi' = rhi + k
          /\ counter' = IF MetaInt = 0 THEN 0 ELSE c + k
          /\ since' = IF MetaInt = 0 THEN 0 ELSE Least(s + k, MetaInt)
          /\ torn' = (torn \/ (due /\ since # MetaInt) \/ (MetaInt > 0 /\ s + k > MetaInt))
    BY DEF read_wrapper
  <1>2. /\ c \in Nat /\ s = c /\ c <= MetaInt /\ ~torn /\ (due => since = MetaInt)
        /\ MetaInt \in Nat /\ rhi \in Nat /\ Length \in Nat
    BY DecoderAssumption DEF DecoderTypes, MetaDataInv
  <1> HIDE DEF due, c, s
  <1>3. max \in Int /\ max <= count /\ (MetaInt > 0 => c + max <= MetaInt)
    BY <1>2 DEF WrapperCount
  <1> HIDE DEF max
  <1>4. k \in Nat /\ k > 0 /\ k <= max
    BY <1>1, <1>2, <1>3 DEF Least
  <1>5. MetaInt > 0 => c + k <= MetaInt
    BY <1>2, <1>3, <1>4
  <1>6. k <= count
    BY <1>3, <1>4
  <1>7. counter' \in Nat /\ since' = counter' /\ counter' <= MetaInt
    BY <1>1, <1>2, <1>4, <1>5 DEF Least
  <1>8. ~torn'
    <2>1. ~(MetaInt > 0 /\ s + k > MetaInt)
      BY <1>2, <1>4, <1>5
    <2>2. torn' = (torn \/ (due /\ since # MetaInt) \/ (MetaInt > 0 /\ s + k > MetaInt))
      BY <1>1
    <2> QED BY <1>2, <2>1, <2>2, Zenon
  <1> QED BY <1>1, <1>4, <1>6, <1>7, <1>8

(* Further samples are further bytes, whatever their width. *)
LEMMA Farther ==
  ASSUME NEW p \in Nat, NEW q \in Nat, p <= q, NEW bytes \in {1, 2, 4}
  PROVE  p * bytes <= q * bytes /\ q * bytes \in Nat
  <1>1. CASE bytes = 1
    <2> SUFFICES p * 1 <= q * 1 /\ q * 1 \in Nat
      BY <1>1
    <2> QED OBVIOUS
  <1>2. CASE bytes = 2
    <2> SUFFICES p * 2 <= q * 2 /\ q * 2 \in Nat
      BY <1>2
    <2> QED OBVIOUS
  <1>3. CASE bytes = 4
    <2> SUFFICES p * 4 <= q * 4 /\ q * 4 \in Nat
      BY <1>3
    <2> QED OBVIOUS
  <1> QED BY <1>1, <1>2, <1>3

(* Every step of a decoder keeps the samples in order. *)
LEMMA DecoderStep ==
  ASSUME DecoderInv, DecoderNext
  PROVE  DecoderInv'
  <1> USE DEF DecoderInv
  <1>0. width \in Nat /\ width > 0 /\ pos * width \in Nat
    BY DEF DecoderTypes
  <1>1. CASE \E count \in 1 .. MaxFrame + 1 : Call(count)
    <2>1. PICK count \in 1 .. MaxFrame + 1 : Call(count)
      BY <1>1
    <2>2. count * width \in Nat
      BY <2>1, DecoderAssumption DEF DecoderTypes
    <2> QED BY <2>1, <2>2 DEF Call, DecoderTypes, KeptInv, MetaDataInv, Kept
  <1>2. CASE Deliver
    <2> DEFINE k == Least(req, hi - lo)
    <2>1. /\ lo' = lo + k /\ want' = Least(lo + k, made) /\ req' = 0 /\ Kept
          /\ UNCHANGED <<plugin, width, pos, hi, made, rlo, rhi, counter, since, torn, lossy>>
          /\ req > 0
      BY <1>2 DEF Deliver, HandOut
    <2>2. k \in Nat /\ k > 0 /\ lo + k <= hi
      BY <2>1 DEF Least, Kept, DecoderTypes
    <2> HIDE DEF k
    <2>3. DecoderTypes'
      BY <2>1, <2>2 DEF DecoderTypes, Least
    <2>4. KeptInv'
      BY <2>1, <2>2 DEF DecoderTypes, KeptInv, Kept, Least
    <2> QED BY <2>1, <2>3, <2>4 DEF MetaDataInv
  <1>3. CASE End
    BY <1>3 DEF End, DecoderTypes, KeptInv, MetaDataInv, Kept
  <1>4. CASE write_cb
    <2>1. PICK k \in 1 .. MaxFrame :
            pos' = Least(pos + k, Length) /\ lo' = pos * width /\ hi' = pos' * width
      BY <1>4 DEF write_cb
    <2>2. /\ plugin = "flac" /\ ~Kept /\ pos < Length /\ made' = hi'
          /\ UNCHANGED <<plugin, width, rlo, rhi, counter, since, torn, req, want, lossy>>
      BY <1>4 DEF write_cb
    <2>3. pos' \in Nat /\ pos < pos' /\ width = 2
      BY <2>1, <2>2, DecoderAssumption DEF Least, DecoderTypes
    <2>4. lo' = pos * 2 /\ hi' = pos' * 2
      BY <2>1, <2>3
    <2>5. DecoderTypes'
      BY <2>1, <2>2, <2>3, <2>4 DEF DecoderTypes
    <2>6. KeptInv'
      BY <2>1, <2>2, <2>3, <2>4 DEF DecoderTypes, KeptInv, Kept
    <2> QED BY <2>2, <2>5, <2>6 DEF MetaDataInv
  <1>5. CASE ffmpeg_fill_buffer
    <2>1. PICK k \in 1 .. MaxFrame :
            LET res == Least(k, Length - pos)
            IN /\ pos' = pos + res
               /\ lo' = pos * width /\ hi' = lo' + res * 2 /\ made' = lo' + res * width
      BY <1>5 DEF ffmpeg_fill_buffer
    <2> DEFINE res == Least(k, Length - pos)
    <2>2. /\ plugin = "ffmpeg" /\ ~Kept /\ pos < Length
          /\ UNCHANGED <<plugin, width, rlo, rhi, counter, since, torn, req, want, lossy>>
      BY <1>5 DEF ffmpeg_fill_buffer
    <2>3. res \in Nat /\ res > 0
      BY <2>2, DecoderAssumption DEF Least, DecoderTypes
    <2>4. pos' = pos + res /\ lo' = pos * width /\ hi' = lo' + res * 2 /\ made' = lo' + res * width
      BY <2>1
    <2> HIDE DEF res
    <2>5. DecoderTypes'
      BY <2>2, <2>3, <2>4 DEF DecoderTypes
    <2>6. CASE width = 1
      BY <2>2, <2>3, <2>4, <2>5, <2>6 DEF DecoderTypes, KeptInv, MetaDataInv, Kept
    <2>7. CASE width = 2
      BY <2>2, <2>3, <2>4, <2>5, <2>7 DEF DecoderTypes, KeptInv, MetaDataInv, Kept
    <2>8. CASE width = 4
      BY <2>2, <2>3, <2>4, <2>5, <2>8 DEF DecoderTypes, KeptInv, MetaDataInv, Kept
    <2> QED BY <2>6, <2>7, <2>8 DEF DecoderTypes
  <1>6. CASE buffer_fill
    <2> DEFINE count == BufferSize - (rhi - rlo)
    <2>1. /\ plugin = "aac" /\ ~Kept /\ read_wrapper(count)
          /\ UNCHANGED <<plugin, width, pos, lo, hi, made, rlo, req, want, lossy>>
      BY <1>6 DEF buffer_fill
    <2>2. count \in Nat
      BY <2>1, DecoderAssumption DEF DecoderTypes, MetaDataInv
    <2> HIDE DEF count
    <2>3. /\ \E k \in Nat : k > 0 /\ k <= count /\ rhi' = rhi + k
          /\ counter' \in Nat /\ since' = counter' /\ counter' <= MetaInt /\ ~torn'
      BY <2>1, <2>2, WrapperReads
    <2>4. rhi' \in Nat /\ rlo <= rhi' /\ rhi' - rlo <= BufferSize
      BY <2>3, DecoderAssumption DEF count, DecoderTypes
    <2> QED BY <2>1, <2>3, <2>4 DEF DecoderTypes, KeptInv, MetaDataInv, Kept
  <1>7. CASE decode_one_frame
    <2>1. /\ plugin = "aac" /\ width = 2 /\ ~Kept /\ rhi - rlo >= 2
          /\ rlo' = rlo + 2 /\ pos' = rlo' /\ hi' = rlo' * width /\ made' = hi'
          /\ UNCHANGED <<plugin, width, rhi, counter, since, torn, req, lossy>>
          /\ \/ lo' = rlo * width /\ UNCHANGED want
             \/ lo' = hi' /\ want' = hi'
      BY <1>7 DEF decode_one_frame, Frame, DecoderTypes
    <2>2. hi' = rlo * 2 + 4 /\ rlo' \in Nat
      BY <2>1 DEF DecoderTypes
    <2> QED BY <2>1, <2>2, DecoderAssumption DEF DecoderTypes, KeptInv, MetaDataInv, Kept
  <1>8. CASE \E t \in 0 .. Length : flac_seek(t) \/ ffmpeg_seek(t) \/ aac_seek(t)
    <2>1. PICK t \in 0 .. Length : flac_seek(t) \/ ffmpeg_seek(t) \/ aac_seek(t)
      BY <1>8
    <2>2. CASE flac_seek(t)
      <3>1. PICK at \in {t} \cup 0 .. Length :
              pos' = at /\ lo' = at * width /\ hi' = lo' /\ made' = lo' /\ want' = lo'
        BY <2>2 DEF flac_seek
      <3>2. /\ at \in Nat /\ plugin = "flac" /\ width = 2 /\ lossy' = FALSE
            /\ UNCHANGED <<plugin, width, rlo, rhi, counter, since, torn, req>>
        BY <2>2, <3>1, DecoderAssumption DEF flac_seek, DecoderTypes
      <3>3. DecoderTypes'
        BY <3>1, <3>2 DEF DecoderTypes
      <3>4. KeptInv'
        BY <3>1, <3>2 DEF KeptInv, Kept
      <3> QED BY <3>2, <3>3, <3>4 DEF MetaDataInv
    <2>3. CASE ffmpeg_seek(t)
      <3>1. /\ plugin = "ffmpeg" /\ UNCHANGED <<plugin, width, rlo, rhi, counter, since, torn, req>>
            /\ \/ /\ pos' = t /\ lossy' = FALSE
                  /\ lo' = t * width /\ hi' = lo' /\ made' = lo' /\ want' = lo'
               \/ /\ pos' \in pos .. Least(pos + MaxFrame, Length) /\ lossy' = TRUE
                  /\ UNCHANGED <<lo, hi, made, want>>
        BY <2>3 DEF ffmpeg_seek
      <3>2. MetaDataInv'
        BY <3>1 DEF MetaDataInv
      <3>3. CASE /\ pos' = t /\ lossy' = FALSE
                 /\ lo' = t * width /\ hi' = lo' /\ made' = lo' /\ want' = lo'
        <4>1. t \in Nat /\ t * width \in Nat
          BY <1>0, <2>1, DecoderAssumption
        <4>2. DecoderTypes'
          BY <3>1, <3>3, <4>1 DEF DecoderTypes
        <4>3. width = 1 => t * width = t
          BY <4>1
        <4>4. KeptInv'
          BY <3>1, <3>3, <4>1, <4>3 DEF DecoderTypes, KeptInv, Kept
        <4> QED BY <3>2, <4>2, <4>4
      <3>4. CASE /\ pos' \in pos .. Least(pos + MaxFrame, Length) /\ lossy' = TRUE
                 /\ UNCHANGED <<lo, hi, made, want>>
        <4>1. pos' \in Nat /\ pos <= pos'
          BY <3>4, DecoderAssumption DEF DecoderTypes, Least
        <4>2. DecoderTypes'
          BY <3>1, <3>4, <4>1 DEF DecoderTypes
        <4>3. pos * width <= pos' * width'
          <5>1. pos * width <= pos' * width
            BY <4>1, Farther DEF DecoderTypes
          <5>2. width' = width
            BY <3>1
          <5> QED BY <5>1, <5>2
        <4>4. pos' * width' \in Nat
          <5>1. pos' * width \in Nat
            BY <4>1, Farther DEF DecoderTypes
          <5>2. width' = width
            BY <3>1
          <5> QED BY ONLY <5>1, <5>2
        <4>5. made' <= pos' * width'
          <5>1. made \in Nat /\ made <= pos * width /\ made' = made
            BY <3>4 DEF DecoderTypes, KeptInv
          <5> QED BY ONLY <1>0, <4>3, <4>4, <5>1
        <4>6. KeptInv'
          BY <3>1, <3>4, <4>5 DEF DecoderTypes, KeptInv, Kept
        <4> QED BY <3>2, <4>2, <4>6
      <3> QED BY <3>1, <3>3, <3>4
    <2>4. CASE aac_seek(t)
      BY <2>4 DEF aac_seek, dvars, DecoderTypes, KeptInv, MetaDataInv, Kept
    <2> QED BY <2>1, <2>2, <2>3, <2>4
  <1> QED BY <1>1, <1>2, <1>3, <1>4, <1>5, <1>6, <1>7, <1>8 DEF DecoderNext

(* For any length, sizes of frames, of requests and of metadata intervals, *)
(* and for every output format that ffmpeg_open chooses: the samples in    *)
(* order and no metadata among them (ffmpeg_read, flac_read, aac_read and  *)
(* read_wrapper); each of them once where the output has 16 bit samples,   *)
(* which is what ffmpeg_fill_buffer counts in (ffmpeg.c:371).              *)
THEOREM DecoderInOrder == DecoderSpec => []SamplesInOrder
  <1>1. DecoderInit => DecoderInv
    <2> SUFFICES ASSUME DecoderInit PROVE DecoderInv
      OBVIOUS
    <2>1. plugin \in Plugins /\ width \in {1, 2, 4} /\ (plugin # "ffmpeg" => width = 2)
      BY WidthsAssumption DEF DecoderInit, ffmpeg_open, flac_open, aac_open, Plugins
    <2>2. DecoderTypes
      BY <2>1 DEF DecoderInit, DecoderTypes
    <2>3. KeptInv
      BY <2>1 DEF DecoderInit, KeptInv, Kept
    <2>4. MetaDataInv
      BY DecoderAssumption DEF DecoderInit, MetaDataInv
    <2> QED BY <2>2, <2>3, <2>4 DEF DecoderInv
  <1>2. DecoderInv /\ [DecoderNext]_dvars => DecoderInv'
    <2> SUFFICES ASSUME DecoderInv, [DecoderNext]_dvars PROVE DecoderInv'
      OBVIOUS
    <2>1. CASE DecoderNext
      BY <2>1, DecoderStep
    <2>2. CASE UNCHANGED dvars
      BY <2>2 DEF dvars, DecoderInv, DecoderTypes, KeptInv, MetaDataInv, Kept
    <2> QED BY <2>1, <2>2
  <1>3. DecoderInv => SamplesInOrder
    BY DEF DecoderInv, DecoderTypes, KeptInv, MetaDataInv, SamplesInOrder, Kept
  <1> QED BY <1>1, <1>2, <1>3, PTL DEF DecoderSpec

-----------------------------------------------------------------------------
(* Counting the elements of a sequence that are in a set. *)
Count(s, S) == Cardinality({i \in DOMAIN s : s[i] \in S})

(* Facts on which elements of a sequence there are. *)
LEMMA CountType ==
  ASSUME NEW X, NEW s \in Seq(X), NEW S
  PROVE  IsFiniteSet({i \in DOMAIN s : s[i] \in S}) /\ Count(s, S) \in Nat
  <1>1. DOMAIN s = 1 .. Len(s) /\ Len(s) \in Nat
    OBVIOUS
  <1>2. IsFiniteSet(1 .. Len(s))
    BY <1>1, FS_Interval
  <1>3. {i \in DOMAIN s : s[i] \in S} \in SUBSET (1 .. Len(s))
    BY <1>1
  <1>4. IsFiniteSet({i \in DOMAIN s : s[i] \in S})
    BY <1>2, <1>3, FS_Subset
  <1> QED BY <1>4, FS_CardinalityType DEF Count

LEMMA CountAppend ==
  ASSUME NEW X, NEW s \in Seq(X), NEW x \in X, NEW S
  PROVE  Count(Append(s, x), S) = Count(s, S) + B(x \in S)
  <1> DEFINE I == {i \in DOMAIN s : s[i] \in S}
             u == Append(s, x)
             J == {i \in DOMAIN u : u[i] \in S}
             n == Len(s) + 1
  <1>1. /\ n \in Nat /\ n >= 1 /\ DOMAIN s = 1 .. n - 1 /\ DOMAIN u = 1 .. n
        /\ u[n] = x /\ \A i \in 1 .. n - 1 : u[i] = s[i]
    OBVIOUS
  <1>2. IsFiniteSet(I) /\ Cardinality(I) \in Nat
    BY CountType DEF Count
  <1> HIDE DEF u, n
  <1>3. n \notin I
    BY <1>1
  <1>4. CASE x \in S
    <2>1. J = I \cup {n}
      <3>1. \A i \in 1 .. n - 1 : i \in J <=> i \in I
        BY <1>1
      <3>2. n \in J
        BY <1>1, <1>4
      <3>3. J \subseteq 1 .. n /\ I \subseteq 1 .. n - 1
        BY <1>1
      <3>4. 1 .. n = (1 .. n - 1) \cup {n}
        BY <1>1
      <3> HIDE DEF I, J
      <3> QED BY <3>1, <3>2, <3>3, <3>4
    <2> HIDE DEF I, J
    <2>2. Cardinality(J) = Cardinality(I) + 1
      BY <1>2, <1>3, <2>1, FS_AddElement
    <2> QED BY <2>2, <1>4 DEF Count, B, I, J, u
  <1>5. CASE x \notin S
    <2>1. J = I
      BY <1>1, <1>5
    <2>2. Cardinality(J) = Cardinality(I)
      BY <2>1
    <2> HIDE DEF I, J
    <2>3. Cardinality(J) = Cardinality(I) + 0
      BY <2>2, <1>2
    <2> QED BY <2>3, <1>5 DEF Count, B, I, J, u
  <1> QED BY <1>4, <1>5

LEMMA CountTail ==
  ASSUME NEW X, NEW s \in Seq(X), s # <<>>, NEW S
  PROVE  Count(s, S) = Count(Tail(s), S) + B(s[1] \in S)
  <1> DEFINE u == Tail(s)
             I == {i \in DOMAIN s : s[i] \in S}
             J == {i \in DOMAIN u : u[i] \in S}
             n == Len(s)
             f == [j \in J |-> j + 1]
  <1>1. /\ n \in Nat /\ n >= 1 /\ DOMAIN s = 1 .. n /\ DOMAIN u = 1 .. n - 1
        /\ \A i \in 1 .. n - 1 : u[i] = s[i + 1]
    OBVIOUS
  <1>2. IsFiniteSet(I) /\ Cardinality(I) \in Nat /\ IsFiniteSet(J) /\ Cardinality(J) \in Nat
    <2>1. u \in Seq(X)
      OBVIOUS
    <2> HIDE DEF u
    <2> QED BY <2>1, CountType DEF Count
  <1> HIDE DEF u, n
  <1>3. f \in Bijection(J, I \ {1})
    <2>1. f \in [J -> I \ {1}]
      BY <1>1
    <2>2. \A a, b \in J : f[a] = f[b] => a = b
      BY <1>1
    <2>3. \A i \in I \ {1} : i - 1 \in J /\ f[i - 1] = i
      BY <1>1
    <2> HIDE DEF f, I, J
    <2>4. \A i \in I \ {1} : \E j \in J : f[j] = i
      BY <2>3
    <2>5. f \in Injection(J, I \ {1})
      BY <2>1, <2>2 DEF Injection, IsInjective
    <2>6. f \in Surjection(J, I \ {1})
      BY <2>1, <2>4 DEF Surjection
    <2> QED BY <2>5, <2>6 DEF Bijection
  <1> HIDE DEF f
  <1>4. Cardinality(I \ {1}) = Cardinality(J)
    BY <1>2, <1>3, FS_Bijection DEF ExistsBijection
  <1>5. Cardinality(I \ {1}) = IF 1 \in I THEN Cardinality(I) - 1 ELSE Cardinality(I)
    BY <1>2, FS_RemoveElement
  <1>6. 1 \in I <=> s[1] \in S
    BY <1>1
  <1> HIDE DEF I, J
  <1>7. Cardinality(I) = Cardinality(J) + B(s[1] \in S)
    BY <1>2, <1>4, <1>5, <1>6 DEF B
  <1> QED BY <1>7 DEF Count, I, J, u

-----------------------------------------------------------------------------
(* The operators on the track objects and the table. *)
Infos == [file : Names, mtime : Int, zero : BOOLEAN, refs : Int, next : Nat]
Caches == {c \in [infos : Seq(Infos), table : Seq(Nat)] :
             ToSet(c.table) \subseteq 1 .. Len(c.infos) /\ Once(c.table)}

(* The references to t that the table does not own. *)
Excess(c, t) ==
  IF t \in 1 .. Len(c.infos) THEN c.infos[t].refs - B(t \in ToSet(c.table)) ELSE 0

(* d comes from b: objects keep their file and, but for those in S, their  *)
(* link, and only new objects get into the table.                          *)
Grows(b, d, S) ==
  /\ b \in Caches /\ d \in Caches
  /\ Len(b.infos) <= Len(d.infos)
  /\ \A t \in 1 .. Len(b.infos) :
       d.infos[t].file = b.infos[t].file /\ (t \notin S => d.infos[t].next = b.infos[t].next)
  /\ \A t \in ToSet(d.table) : t \in ToSet(b.table) \/ t > Len(b.infos)

LEMMA CacheTypes ==
  ASSUME NEW c \in Caches
  PROVE  /\ c.infos \in Seq(Infos) /\ c.table \in Seq(Nat) /\ Once(c.table)
         /\ ToSet(c.table) \subseteq 1 .. Len(c.infos) /\ Len(c.infos) \in Nat
         /\ \A t \in 1 .. Len(c.infos) :
              /\ c.infos[t] \in Infos /\ c.infos[t].file \in Names /\ c.infos[t].refs \in Int
              /\ c.infos[t].next \in Nat /\ c.infos[t].mtime \in Int /\ c.infos[t].zero \in BOOLEAN
  <1>1. /\ c.infos \in Seq(Infos) /\ c.table \in Seq(Nat) /\ Once(c.table)
        /\ ToSet(c.table) \subseteq 1 .. Len(c.infos)
    BY DEF Caches
  <1>2. \A t \in 1 .. Len(c.infos) : c.infos[t] \in Infos
    BY <1>1
  <1>3. ASSUME NEW t \in 1 .. Len(c.infos)
        PROVE  /\ c.infos[t].file \in Names /\ c.infos[t].refs \in Int /\ c.infos[t].next \in Nat
               /\ c.infos[t].mtime \in Int /\ c.infos[t].zero \in BOOLEAN
    BY <1>2 DEF Infos
  <1>4. Len(c.infos) \in Nat
    BY <1>1
  <1> QED BY <1>1, <1>2, <1>3, <1>4

LEMMA GrowsSelf ==
  ASSUME NEW c \in Caches, NEW S
  PROVE  Grows(c, c, S)
  BY CacheTypes DEF Grows

LEMMA GrowsOn ==
  ASSUME NEW b, NEW c, NEW d, NEW S, NEW R, Grows(b, c, S), Grows(c, d, R)
  PROVE  Grows(b, d, S \cup R)
  <1>1. b \in Caches /\ c \in Caches /\ d \in Caches
    BY DEF Grows
  <1>2. /\ Len(b.infos) \in Nat /\ Len(c.infos) \in Nat /\ Len(d.infos) \in Nat
        /\ Len(b.infos) <= Len(c.infos) /\ Len(c.infos) <= Len(d.infos)
        /\ ToSet(d.table) \subseteq 1 .. Len(d.infos)
    BY <1>1, CacheTypes DEF Grows
  <1>3. Len(b.infos) <= Len(d.infos)
    BY <1>2
  <1>4. ASSUME NEW t \in 1 .. Len(b.infos)
        PROVE  /\ d.infos[t].file = b.infos[t].file
               /\ t \notin S \cup R => d.infos[t].next = b.infos[t].next
    <2>1. t \in 1 .. Len(c.infos)
      BY <1>2
    <2> QED BY <2>1 DEF Grows
  <1>5. ASSUME NEW t \in ToSet(d.table)
        PROVE  t \in ToSet(b.table) \/ t > Len(b.infos)
    <2>1. t \in Nat
      BY <1>2
    <2>2. t \in ToSet(c.table) \/ t > Len(c.infos)
      BY DEF Grows
    <2>3. CASE t \in ToSet(c.table)
      BY <2>3 DEF Grows
    <2>4. CASE t > Len(c.infos)
      BY <2>1, <2>4, <1>2
    <2> QED BY <2>2, <2>3, <2>4
  <1> QED BY <1>1, <1>3, <1>4, <1>5 DEF Grows

LEMMA ObjectCounted ==
  ASSUME NEW o \in Infos, NEW n \in Int
  PROVE  /\ [o EXCEPT !.refs = o.refs + n] \in Infos
         /\ [o EXCEPT !.refs = o.refs + n].file = o.file
         /\ [o EXCEPT !.refs = o.refs + n].next = o.next
         /\ [o EXCEPT !.refs = o.refs + n].refs = o.refs + n
  <1> DEFINE m == o.refs + n
             r == [o EXCEPT !.refs = m]
  <1>1. m \in Int
    BY DEF Infos
  <1> HIDE DEF m
  <1>2. r \in Infos /\ r.file = o.file /\ r.next = o.next /\ r.refs = m
    BY <1>1 DEF Infos
  <1> QED BY <1>2 DEF m

LEMMA CountedStep ==
  ASSUME NEW c \in Caches, NEW S, NEW n \in Int
  PROVE  /\ Grows(c, Counted(c, S, n), {})
         /\ Len(Counted(c, S, n).infos) = Len(c.infos) /\ Counted(c, S, n).table = c.table
         /\ \A t : Excess(Counted(c, S, n), t) =
                     Excess(c, t) + IF t \in S /\ t \in 1 .. Len(c.infos) THEN n ELSE 0
  <1> DEFINE k == Len(c.infos)
             one(t) == IF t \in S THEN [c.infos[t] EXCEPT !.refs = @ + n] ELSE c.infos[t]
             s == [t \in 1 .. k |-> one(t)]
             d == [c EXCEPT !.infos = s]
  <1>1. /\ c.infos \in Seq(Infos) /\ c.table \in Seq(Nat) /\ Once(c.table) /\ k \in Nat
        /\ ToSet(c.table) \subseteq 1 .. k /\ DOMAIN c.infos = 1 .. k
        /\ \A t \in 1 .. k : c.infos[t] \in Infos /\ c.infos[t].refs \in Int
    BY CacheTypes
  <1>2. Counted(c, S, n) = d
    BY <1>1 DEF Counted
  <1>3. ASSUME NEW t \in 1 .. k
        PROVE  /\ one(t) \in Infos /\ one(t).file = c.infos[t].file /\ one(t).next = c.infos[t].next
               /\ one(t).refs = c.infos[t].refs + IF t \in S THEN n ELSE 0
    <2>1. CASE t \in S
      <3>1. one(t) = [c.infos[t] EXCEPT !.refs = c.infos[t].refs + n]
        BY <2>1
      <3> HIDE DEF one, k
      <3>2. c.infos[t] \in Infos
        BY <1>1
      <3> QED BY <2>1, <3>1, <3>2, ObjectCounted
    <2>2. CASE t \notin S
      BY <2>2, <1>1
    <2> QED BY <2>1, <2>2
  <1> HIDE DEF one, k
  <1>4. s \in Seq(Infos) /\ Len(s) = k /\ \A t \in 1 .. k : s[t] = one(t)
    BY <1>1, <1>3
  <1> HIDE DEF s
  <1>5. c \in [infos : Seq(Infos), table : Seq(Nat)]
    BY DEF Caches
  <1>6. d.infos = s /\ d.table = c.table /\ d \in [infos : Seq(Infos), table : Seq(Nat)]
    BY <1>4, <1>5
  <1> HIDE DEF d
  <1>7. d \in Caches
    BY <1>1, <1>4, <1>6 DEF Caches
  <1>8. Grows(c, d, {})
    BY <1>1, <1>3, <1>4, <1>6, <1>7 DEF Grows, k
  <1>9. ASSUME NEW t
        PROVE  Excess(d, t) = Excess(c, t) + IF t \in S /\ t \in 1 .. k THEN n ELSE 0
    <2>1. CASE t \in 1 .. k
      <3> DEFINE b == B(t \in ToSet(c.table))
      <3>1. b \in Int
        BY DEF B
      <3>2. Excess(d, t) = d.infos[t].refs - b /\ Excess(c, t) = c.infos[t].refs - b
        BY <2>1, <1>4, <1>6 DEF Excess, k
      <3> HIDE DEF b
      <3>3. d.infos[t].refs = c.infos[t].refs + IF t \in S THEN n ELSE 0
        BY <1>3, <1>4, <1>6, <2>1
      <3> QED BY <1>1, <2>1, <3>1, <3>2, <3>3
    <2>2. CASE t \notin 1 .. k
      BY <2>2, <1>4, <1>6 DEF Excess, k
    <2> QED BY <2>1, <2>2
  <1> QED BY <1>2, <1>4, <1>6, <1>8, <1>9 DEF k

LEMMA ExcessType ==
  ASSUME NEW c \in Caches, NEW t
  PROVE  Excess(c, t) \in Int
  <1>1. CASE t \in 1 .. Len(c.infos)
    <2>1. B(t \in ToSet(c.table)) \in Int
      BY DEF B
    <2>2. c.infos[t].refs \in Int
      BY <1>1, CacheTypes
    <2> QED BY <1>1, <2>1, <2>2 DEF Excess
  <1>2. CASE t \notin 1 .. Len(c.infos)
    BY <1>2 DEF Excess
  <1> QED BY <1>1, <1>2

(* d is c with one more object, the last. *)
Extends(c, d, file) ==
  LET n == Len(c.infos) + 1
  IN  /\ Grows(c, d, {}) /\ Len(d.infos) = n /\ d.table = c.table /\ d.infos[n].file = file
      /\ \A t : Excess(d, t) = Excess(c, t) + B(t = n)

LEMMA NewStep ==
  ASSUME NEW c \in Caches, NEW file \in Names, NEW mtime \in Int, NEW zero \in BOOLEAN
  PROVE  Extends(c, track_info_new(c, file, mtime, zero), file)
  <1> DEFINE o == [file |-> file, mtime |-> mtime, zero |-> zero, refs |-> 1, next |-> 0]
             s == Append(c.infos, o)
             d == [c EXCEPT !.infos = s]
             k == Len(c.infos)
             n == k + 1
  <1>1. /\ c.infos \in Seq(Infos) /\ c.table \in Seq(Nat) /\ Once(c.table) /\ k \in Nat
        /\ ToSet(c.table) \subseteq 1 .. k
    BY CacheTypes
  <1>2. track_info_new(c, file, mtime, zero) = d
    BY DEF track_info_new
  <1>3. o \in Infos /\ o.file = file /\ o.refs = 1
    BY DEF Infos
  <1> HIDE DEF o
  <1>4. s \in Seq(Infos) /\ Len(s) = n /\ s[n] = o /\ \A t \in 1 .. k : s[t] = c.infos[t]
    BY <1>1, <1>3
  <1> HIDE DEF s
  <1>5. c \in [infos : Seq(Infos), table : Seq(Nat)]
    BY DEF Caches
  <1>6. d.infos = s /\ d.table = c.table /\ d \in [infos : Seq(Infos), table : Seq(Nat)]
    BY <1>4, <1>5
  <1> HIDE DEF d
  <1>7. d \in Caches
    BY <1>1, <1>4, <1>6 DEF Caches
  <1>8. Grows(c, d, {})
    BY <1>1, <1>4, <1>6, <1>7 DEF Grows
  <1>9. ASSUME NEW t
        PROVE  Excess(d, t) = Excess(c, t) + B(t = n)
    <2>1. CASE t \in 1 .. k
      <3>1. Excess(d, t) = Excess(c, t) /\ t # n
        BY <1>1, <1>4, <1>6, <2>1 DEF Excess
      <3> QED BY <3>1, ExcessType DEF B
    <2>2. CASE t = n
      <3>1. n \notin ToSet(c.table) /\ n \in 1 .. n /\ n \notin 1 .. k
        BY <1>1
      <3>2. Excess(c, t) = 0
        BY <2>2, <3>1 DEF Excess
      <3>3. Excess(d, t) = 1 - 0
        BY <2>2, <3>1, <1>3, <1>4, <1>6 DEF Excess, B
      <3> QED BY <2>2, <3>2, <3>3 DEF B
    <2>3. CASE t \notin 1 .. k /\ t # n
      <3>1. t \notin 1 .. n
        BY <2>3, <1>1
      <3> QED BY <3>1, <2>3, <1>4, <1>6 DEF Excess, B
    <2> QED BY <2>1, <2>2, <2>3
  <1> QED BY <1>2, <1>3, <1>4, <1>6, <1>8, <1>9 DEF Extends

LEMMA Joined ==
  ASSUME NEW X, NEW u \in Seq(X), NEW s \in Seq(X)
  PROVE  /\ u \o s \in Seq(X) /\ Len(u \o s) = Len(u) + Len(s)
         /\ \A i \in 1 .. Len(u) : (u \o s)[i] = u[i]
         /\ \A i \in 1 .. Len(s) : (u \o s)[Len(u) + i] = s[i]
  <1>1. u \o s \in Seq(X)
    OBVIOUS
  <1>2. Len(u \o s) = Len(u) + Len(s)
    OBVIOUS
  <1>3. \A i \in 1 .. Len(u) : (u \o s)[i] = u[i]
    OBVIOUS
  <1>4. \A i \in 1 .. Len(s) : (u \o s)[Len(u) + i] = s[i]
    OBVIOUS
  <1> QED BY <1>1, <1>2, <1>3, <1>4

LEMMA Prepended ==
  ASSUME NEW X, NEW s \in Seq(X), NEW x \in X
  PROVE  /\ <<x>> \o s \in Seq(X) /\ Len(<<x>> \o s) = Len(s) + 1 /\ (<<x>> \o s)[1] = x
         /\ \A i \in 1 .. Len(s) : (<<x>> \o s)[i + 1] = s[i]
  <1> DEFINE u == <<x>>
             v == u \o s
             m == Len(s)
  <1>1. u \in Seq(X) /\ Len(u) = 1 /\ u[1] = x /\ m \in Nat
    OBVIOUS
  <1> HIDE DEF u
  <1>2. /\ v \in Seq(X) /\ Len(v) = Len(u) + m
        /\ \A i \in 1 .. Len(u) : v[i] = u[i]
        /\ \A i \in 1 .. m : v[Len(u) + i] = s[i]
    <2>1. u \in Seq(X)
      BY <1>1
    <2> QED BY <2>1, Joined
  <1> HIDE DEF v, m
  <1>3. Len(v) = m + 1 /\ v[1] = x
    BY <1>1, <1>2
  <1>4. ASSUME NEW i \in 1 .. m PROVE v[i + 1] = s[i]
    <2>1. Len(u) + i = i + 1
      BY <1>1
    <2> QED BY <1>2, <2>1
  <1> QED BY <1>2, <1>3, <1>4 DEF u, v, m

LEMMA EntryAdded ==
  ASSUME NEW b, NEW c, Grows(b, c, {}), NEW n \in 1 .. Len(c.infos), n > Len(b.infos),
         n \notin ToSet(c.table)
  PROVE  /\ Grows(b, add_ti(c, n), {}) /\ add_ti(c, n).infos = c.infos
         /\ \A t : Excess(add_ti(c, n), t) = Excess(c, t) - B(t = n)
  <1> DEFINE s == <<n>> \o c.table
             d == [c EXCEPT !.table = s]
             m == Len(c.table)
  <1>1. b \in Caches /\ c \in Caches
    BY DEF Grows
  <1>2. /\ c.infos \in Seq(Infos) /\ c.table \in Seq(Nat) /\ Once(c.table) /\ m \in Nat
        /\ ToSet(c.table) \subseteq 1 .. Len(c.infos) /\ Len(c.infos) \in Nat
        /\ \A t \in 1 .. Len(c.infos) : c.infos[t].refs \in Int
    BY <1>1, CacheTypes
  <1>3. add_ti(c, n) = d
    BY DEF add_ti
  <1>4. /\ s \in Seq(Nat) /\ Len(s) = m + 1 /\ s[1] = n
        /\ \A i \in 1 .. m : s[i + 1] = c.table[i]
    <2>1. n \in Nat /\ c.table \in Seq(Nat)
      BY <1>2
    <2> QED BY ONLY <2>1, Prepended
  <1> HIDE DEF s, m
  <1>5. ASSUME NEW i \in 2 .. m + 1
        PROVE  i - 1 \in 1 .. m /\ s[i] = c.table[i - 1]
    <2>1. i - 1 \in 1 .. m /\ (i - 1) + 1 = i
      BY <1>2
    <2> QED BY <1>4, <2>1
  <1>6. DOMAIN s = 1 .. m + 1 /\ DOMAIN c.table = 1 .. m
    BY <1>2, <1>4 DEF m
  <1>7. \A t : t \in ToSet(s) <=> t = n \/ t \in ToSet(c.table)
    <2>1. ASSUME NEW t \in ToSet(c.table) PROVE t \in ToSet(s)
      <3>1. PICK i \in 1 .. m : c.table[i] = t
        BY <1>6 DEF ToSet
      <3>2. s[i + 1] = t
        BY <1>4, <3>1
      <3>3. m \in Nat
        BY <1>2
      <3>4. i + 1 \in DOMAIN s
        BY ONLY <1>6, <3>3, i \in 1 .. m
      <3> QED BY <3>2, <3>4 DEF ToSet
    <2>2. ASSUME NEW t \in ToSet(s), t # n PROVE t \in ToSet(c.table)
      <3>1. PICK i \in 1 .. m + 1 : s[i] = t
        BY <1>6 DEF ToSet
      <3>3. i # 1
        BY <1>4, <2>2, <3>1
      <3>4. i \in 2 .. m + 1
        BY <1>2, <3>1, <3>3
      <3>2. i - 1 \in DOMAIN c.table /\ c.table[i - 1] = t
        BY <1>5, <1>6, <3>1, <3>4
      <3> QED BY <3>2 DEF ToSet
    <2>3. n \in ToSet(s)
      <3>1. 1 \in DOMAIN s
        BY <1>2, <1>6
      <3> QED BY <3>1, <1>4 DEF ToSet
    <2> QED BY <2>1, <2>2, <2>3
  <1>8. Once(s)
    <2> SUFFICES ASSUME NEW i \in 1 .. m + 1, NEW j \in 1 .. m + 1, s[i] = s[j] PROVE i = j
      BY <1>4 DEF Once
    <2>1. \A k \in 2 .. m + 1 : s[k] # n
      BY <1>5, <1>6 DEF ToSet
    <2>2. CASE i = 1 \/ j = 1
      BY <1>2, <1>4, <2>1, <2>2
    <2>3. CASE i # 1 /\ j # 1
      <3>3. i \in 2 .. m + 1 /\ j \in 2 .. m + 1
        BY <1>2, <2>3
      <3>4. i - 1 \in 1 .. m /\ j - 1 \in 1 .. m /\ s[i] = c.table[i - 1] /\ s[j] = c.table[j - 1]
        BY ONLY <1>5, <3>3
      <3>1. i - 1 \in 1 .. m /\ j - 1 \in 1 .. m /\ c.table[i - 1] = c.table[j - 1]
        BY ONLY <3>4, s[i] = s[j]
      <3>2. i - 1 = j - 1
        BY <3>1, <1>2 DEF Once, m
      <3> QED BY <3>2
    <2> QED BY <2>2, <2>3
  <1>9. c \in [infos : Seq(Infos), table : Seq(Nat)]
    BY <1>1 DEF Caches
  <1>10. d.infos = c.infos /\ d.table = s /\ d \in [infos : Seq(Infos), table : Seq(Nat)]
    BY <1>4, <1>9
  <1> HIDE DEF d
  <1>11. d \in Caches
    BY <1>2, <1>7, <1>8, <1>10 DEF Caches
  <1>12. Grows(b, d, {})
    BY <1>7, <1>10, <1>11 DEF Grows
  <1>13. ASSUME NEW t
         PROVE  Excess(d, t) = Excess(c, t) - B(t = n)
    <2>1. CASE t = n
      BY <2>1, <1>2, <1>7, <1>10 DEF Excess, B
    <2>2. CASE t # n
      <3>1. Excess(d, t) = Excess(c, t)
        BY <2>2, <1>7, <1>10 DEF Excess
      <3> QED BY <2>2, <3>1, <1>1, ExcessType DEF B
    <2> QED BY <2>1, <2>2
  <1> QED BY <1>3, <1>10, <1>12, <1>13

LEMMA EntryRemoved ==
  ASSUME NEW c \in Caches, NEW n
  PROVE  LET d == do_cache_remove_ti(c, n)
         IN  /\ Grows(c, d, {}) /\ Len(d.infos) = Len(c.infos)
             /\ ToSet(d.table) = ToSet(c.table) \ {n}
             /\ \A t : Excess(d, t) = Excess(c, t)
  <1>1. CASE n \notin ToSet(c.table)
    <2>1. do_cache_remove_ti(c, n) = c
      BY <1>1 DEF do_cache_remove_ti
    <2> QED BY <2>1, <1>1, GrowsSelf
  <1>2. CASE n \in ToSet(c.table)
    <2> DEFINE s == Select(c.table, ToSet(c.table) \ {n})
               e == [c EXCEPT !.table = s]
    <2>1. do_cache_remove_ti(c, n) = Counted(e, {n}, -1)
      BY <1>2 DEF do_cache_remove_ti, track_info_unref
    <2>2. /\ c.infos \in Seq(Infos) /\ c.table \in Seq(Nat) /\ Once(c.table)
          /\ ToSet(c.table) \subseteq 1 .. Len(c.infos)
          /\ \A t \in 1 .. Len(c.infos) : c.infos[t].refs \in Int
      BY CacheTypes
    <2>3. s \in Seq(Nat) /\ Once(s) /\ ToSet(s) = ToSet(c.table) \ {n}
      <3>1. /\ s \in Seq(Nat) /\ Once(s) /\ ToSet(s) = ToSet(c.table) \cap (ToSet(c.table) \ {n})
        BY <2>2, SelectedSet
      <3> HIDE DEF s
      <3> QED BY <3>1
    <2> HIDE DEF s
    <2>4. c \in [infos : Seq(Infos), table : Seq(Nat)]
      BY DEF Caches
    <2>5. e.infos = c.infos /\ e.table = s /\ e \in [infos : Seq(Infos), table : Seq(Nat)]
      BY <2>3, <2>4
    <2> HIDE DEF e
    <2>6. e \in Caches
      BY <2>2, <2>3, <2>5 DEF Caches
    <2>7. Grows(c, e, {})
      <3>1. Len(c.infos) <= Len(e.infos)
        BY <2>5, CacheTypes
      <3> QED BY <2>3, <2>5, <2>6, <3>1 DEF Grows
    <2> DEFINE d == Counted(e, {n}, -1)
    <2>8. /\ Grows(e, d, {}) /\ Len(d.infos) = Len(e.infos) /\ d.table = e.table
          /\ \A t : Excess(d, t) = Excess(e, t) + IF t \in {n} /\ t \in 1 .. Len(e.infos) THEN -1 ELSE 0
      BY <2>6, CountedStep
    <2> HIDE DEF d
    <2>9. Grows(c, d, {} \cup {})
      BY <2>7, <2>8, GrowsOn
    <2>10. ASSUME NEW t
           PROVE  Excess(d, t) = Excess(c, t)
      <3>1. CASE t = n
        <4>1. Excess(c, t) = c.infos[n].refs - 1 /\ Excess(e, t) = c.infos[n].refs - 0
          BY <3>1, <1>2, <2>2, <2>3, <2>5 DEF Excess, B
        <4>2. Excess(d, t) = Excess(e, t) + -1
          BY <3>1, <1>2, <2>2, <2>5, <2>8
        <4>3. c.infos[n].refs \in Int
          BY <1>2, <2>2
        <4> QED BY <4>1, <4>2, <4>3
      <3>2. CASE t # n
        <4>1. Excess(e, t) = Excess(c, t)
          BY <3>2, <2>3, <2>5 DEF Excess
        <4>2. Excess(d, t) = Excess(e, t) + 0
          BY <3>2, <2>8
        <4> QED BY <4>1, <4>2, ExcessType
      <3> QED BY <3>1, <3>2
    <2> QED BY <2>1, <2>3, <2>5, <2>8, <2>9, <2>10 DEF d
  <1> QED BY <1>1, <1>2

LEMMA EntryFound ==
  ASSUME NEW c \in Caches, NEW file
  PROVE  LET t == lookup_cache_entry(c, file)
         IN  t = 0 \/ (t \in 1 .. Len(c.infos) /\ t \in ToSet(c.table) /\ c.infos[t].file = file)
  <1> DEFINE I == {i \in DOMAIN c.table : c.infos[c.table[i]].file = file}
  <1>1. c.table \in Seq(Nat) /\ ToSet(c.table) \subseteq 1 .. Len(c.infos)
    BY CacheTypes
  <1>2. CASE I = {}
    BY <1>2 DEF lookup_cache_entry
  <1>3. CASE I # {}
    <2>1. lookup_cache_entry(c, file) = c.table[Min(I)]
      BY <1>3 DEF lookup_cache_entry
    <2>2. I \subseteq Nat
      BY <1>1
    <2>3. Min(I) \in I
      <3> HIDE DEF I
      <3> QED BY <1>3, <2>2, LeastOf
    <2> DEFINE k == Min(I)
    <2> HIDE DEF k
    <2>4. k \in DOMAIN c.table /\ c.infos[c.table[k]].file = file
      BY <2>3 DEF k
    <2>5. c.table[k] \in ToSet(c.table)
      BY <2>4 DEF ToSet
    <2> QED BY <1>1, <2>1, <2>4, <2>5 DEF k
  <1> QED BY <1>2, <1>3

Probing(c, d, file) ==
  LET n == Len(c.infos) + 1
  IN  /\ Got(c, d) \in {0, n}
      /\ Got(c, d) = 0 => d = c
      /\ Got(c, d) = n => /\ Grows(c, d, {}) /\ Len(d.infos) = n /\ d.table = c.table
                          /\ d.infos[n].file = file
                          /\ \A t : Excess(d, t) = Excess(c, t) + B(t = n)

LEMMA NewProbed ==
  ASSUME NEW c \in Caches, NEW file \in Names, NEW mtime \in Int, NEW zero \in BOOLEAN
  PROVE  Probing(c, track_info_new(c, file, mtime, zero), file)
  <1> DEFINE d == track_info_new(c, file, mtime, zero)
             n == Len(c.infos) + 1
  <1>0. Extends(c, d, file)
    BY NewStep
  <1> HIDE DEF d
  <1>1. /\ Grows(c, d, {}) /\ Len(d.infos) = n /\ d.table = c.table /\ d.infos[n].file = file
        /\ \A t : Excess(d, t) = Excess(c, t) + B(t = n)
    BY <1>0 DEF Extends
  <1>2. Len(c.infos) \in Nat
    BY CacheTypes
  <1>3. Got(c, d) = n /\ n # 0
    BY <1>1, <1>2 DEF Got
  <1> QED BY <1>1, <1>3 DEF Probing, d

LEMMA SelfProbed ==
  ASSUME NEW c \in Caches, NEW file
  PROVE  Probing(c, c, file)
  <1>1. Len(c.infos) \in Nat
    BY CacheTypes
  <1>2. Got(c, c) = 0 /\ 0 # Len(c.infos) + 1
    BY <1>1 DEF Got
  <1> QED BY <1>2 DEF Probing

LEMMA Probed ==
  ASSUME NEW c \in Caches, NEW file \in Names, disk \in [Files -> Int], NEW d \in ip_get_ti(c, file)
  PROVE  Probing(c, d, file)
  <1>1. -1 \in Int /\ TRUE \in BOOLEAN
    OBVIOUS
  <1>2. d = c \/ \E mtime \in Int, zero \in BOOLEAN : d = track_info_new(c, file, mtime, zero)
    <2>1. CASE file \in Streams
      BY <1>1, <2>1 DEF ip_get_ti
    <2>2. CASE file \notin Streams /\ disk[file] = 0
      BY <2>2 DEF ip_get_ti
    <2>3. CASE file \notin Streams /\ disk[file] # 0
      <3>1. disk[file] \in Int
        BY <2>3 DEF Names
      <3>2. ip_get_ti(c, file) = {track_info_new(c, file, disk[file], zero) : zero \in BOOLEAN} \cup {c}
        BY <2>3 DEF ip_get_ti
      <3> QED BY <3>1, <3>2
    <2> QED BY <2>1, <2>2, <2>3
  <1>3. CASE d = c
    BY <1>3, SelfProbed
  <1>4. ASSUME NEW mtime \in Int, NEW zero \in BOOLEAN, d = track_info_new(c, file, mtime, zero)
        PROVE  Probing(c, d, file)
    BY <1>4, NewProbed
  <1> QED BY <1>2, <1>3, <1>4

(* What cache_get_ti returns: a cache and a referenced object of the file. *)
Gets(b, d, n, file) ==
  /\ Grows(b, d, {}) /\ n \in 0 .. Len(d.infos)
  /\ n # 0 => d.infos[n].file = file
  /\ \A t \in Nat \ {0} : Excess(d, t) = Excess(b, t) + B(t = n)

LEMMA HitGets ==
  ASSUME NEW b \in Caches, NEW n \in 1 .. Len(b.infos)
  PROVE  Gets(b, track_info_ref(b, n), n, b.infos[n].file)
  <1> DEFINE d == Counted(b, {n}, 1)
  <1>1. /\ Grows(b, d, {}) /\ Len(d.infos) = Len(b.infos)
        /\ \A t : Excess(d, t) = Excess(b, t) + IF t \in {n} /\ t \in 1 .. Len(b.infos) THEN 1 ELSE 0
    BY CountedStep
  <1>2. track_info_ref(b, n) = d
    BY DEF track_info_ref
  <1> HIDE DEF d
  <1>3. n \in 0 .. Len(d.infos) /\ Len(b.infos) \in Nat
    BY <1>1, CacheTypes
  <1>4. d.infos[n].file = b.infos[n].file
    BY <1>1 DEF Grows
  <1>5. \A t : Excess(d, t) = Excess(b, t) + B(t = n)
    BY <1>1 DEF B
  <1> QED BY <1>1, <1>2, <1>3, <1>4, <1>5 DEF Gets

LEMMA MissGets ==
  ASSUME NEW b, NEW c, Grows(b, c, {}), \A t : Excess(c, t) = Excess(b, t),
         NEW d, NEW file, Probing(c, d, file)
  PROVE  /\ Got(c, d) = 0 => Gets(b, c, 0, file)
         /\ Got(c, d) # 0 => Gets(b, track_info_ref(add_ti(d, Got(c, d)), Got(c, d)), Got(c, d), file)
  <1>0. b \in Caches /\ c \in Caches
    BY DEF Grows
  <1>1. CASE Got(c, d) = 0
    <2>1. 0 \in 0 .. Len(c.infos)
      BY <1>0, CacheTypes
    <2>2. \A t \in Nat \ {0} : Excess(c, t) = Excess(b, t) + B(t = 0)
      BY <1>0, ExcessType DEF B
    <2> QED BY <1>1, <2>1, <2>2 DEF Gets
  <1>2. CASE Got(c, d) # 0
    <2> DEFINE n == Len(c.infos) + 1
               e == add_ti(d, n)
               f == Counted(e, {n}, 1)
    <2>1. /\ Got(c, d) = n /\ Grows(c, d, {}) /\ Len(d.infos) = n /\ d.table = c.table
          /\ d.infos[n].file = file
          /\ \A t : Excess(d, t) = Excess(c, t) + B(t = n)
      BY <1>2 DEF Probing
    <2>2. Len(b.infos) \in Nat /\ Len(c.infos) \in Nat /\ Len(b.infos) <= Len(c.infos)
          /\ ToSet(c.table) \subseteq 1 .. Len(c.infos)
      BY <1>0, CacheTypes DEF Grows
    <2>3. n \in Nat /\ n > Len(b.infos) /\ n \notin ToSet(c.table) /\ n \in 1 .. n
      BY <2>2
    <2>4. Grows(b, d, {} \cup {})
      BY <2>1, GrowsOn
    <2>5. Grows(b, d, {})
      BY <2>4
    <2> HIDE DEF n
    <2>6. /\ Grows(b, e, {}) /\ e.infos = d.infos
          /\ \A t : Excess(e, t) = Excess(d, t) - B(t = n)
      BY <2>1, <2>3, <2>5, EntryAdded
    <2> HIDE DEF e
    <2>7. e \in Caches /\ d \in Caches
      BY <2>5, <2>6 DEF Grows
    <2>8. /\ Grows(e, f, {}) /\ Len(f.infos) = Len(e.infos)
          /\ \A t : Excess(f, t) = Excess(e, t) + IF t \in {n} /\ t \in 1 .. Len(e.infos) THEN 1 ELSE 0
      BY <2>7, CountedStep
    <2>9. track_info_ref(e, n) = f
      BY DEF track_info_ref
    <2> HIDE DEF f
    <2>10. Grows(b, f, {} \cup {})
      BY <2>6, <2>8, GrowsOn
    <2>11. f.infos[n].file = file
      BY <2>1, <2>3, <2>6, <2>8 DEF Grows
    <2>12. ASSUME NEW t PROVE Excess(f, t) = Excess(b, t) + B(t = n)
      <3>1. Excess(b, t) \in Int /\ Excess(e, t) = (Excess(b, t) + B(t = n)) - B(t = n)
        BY <1>0, <2>1, <2>6, ExcessType
      <3>2. Excess(f, t) = Excess(e, t) + B(t = n)
        BY <2>1, <2>3, <2>6, <2>8 DEF B
      <3>3. B(t = n) \in Int
        BY DEF B
      <3> QED BY <3>1, <3>2, <3>3
    <2>13. n \in 0 .. Len(f.infos)
      BY <2>1, <2>3, <2>6, <2>8
    <2>14. Gets(b, f, n, file)
      BY <2>10, <2>11, <2>12, <2>13 DEF Gets
    <2> QED BY <1>2, <2>1, <2>9, <2>14 DEF e
  <1> QED BY <1>1, <1>2

LEMMA CacheGets ==
  ASSUME NEW b \in Caches, NEW file \in Names, NEW force, disk \in [Files -> Int],
         NEW got \in cache_get_ti(b, file, force)
  PROVE  Gets(b, got[1], got[2], file)
  <1> DEFINE ti == lookup_cache_entry(b, file)
             stale == ti # 0 /\ (force \/ (~skip /\ b.infos[ti].zero /\ file \notin Streams))
             c == IF stale THEN do_cache_remove_ti(b, ti) ELSE b
             new == IF skip /\ ~stale /\ ~force THEN {track_info_new(c, file, 0, TRUE)}
                    ELSE ip_get_ti(c, file)
             after(d) == IF Got(c, d) = 0 THEN <<c, 0>>
                         ELSE <<track_info_ref(add_ti(d, Got(c, d)), Got(c, d)), Got(c, d)>>
  <1>1. got \in IF ti # 0 /\ ~stale THEN {<<track_info_ref(b, ti), ti>>} ELSE {after(d) : d \in new}
    BY DEF cache_get_ti
  <1>2. ti = 0 \/ (ti \in 1 .. Len(b.infos) /\ b.infos[ti].file = file)
    BY EntryFound
  <1>3. CASE ti # 0 /\ ~stale
    <2>1. got = <<track_info_ref(b, ti), ti>>
      BY <1>1, <1>3
    <2> HIDE DEF ti, stale
    <2>2. ti \in 1 .. Len(b.infos) /\ b.infos[ti].file = file
      BY <1>2, <1>3
    <2>3. Gets(b, track_info_ref(b, ti), ti, file)
      BY <2>2, HitGets
    <2> QED BY <2>1, <2>3
  <1>4. CASE ~(ti # 0 /\ ~stale)
    <2>1. PICK d \in new : got = after(d)
      BY <1>1, <1>4
    <2>2. Grows(b, c, {}) /\ \A t : Excess(c, t) = Excess(b, t)
      <3>1. CASE stale
        BY <3>1, EntryRemoved
      <3>2. CASE ~stale
        BY <3>2, GrowsSelf
      <3> QED BY <3>1, <3>2
    <2>3. c \in Caches
      BY <2>2 DEF Grows
    <2> HIDE DEF c, stale, ti
    <2>4. Probing(c, d, file)
      <3>1. CASE d \in ip_get_ti(c, file)
        BY <2>3, <3>1, Probed
      <3>2. CASE d = track_info_new(c, file, 0, TRUE)
        <4>1. 0 \in Int /\ TRUE \in BOOLEAN
          OBVIOUS
        <4> QED BY <2>3, <3>2, <4>1, NewProbed
      <3> QED BY <2>1, <3>1, <3>2
    <2>5. /\ Got(c, d) = 0 => Gets(b, c, 0, file)
          /\ Got(c, d) # 0 => Gets(b, track_info_ref(add_ti(d, Got(c, d)), Got(c, d)), Got(c, d), file)
      BY <2>2, <2>4, MissGets
    <2> QED BY <2>1, <2>5
  <1> QED BY <1>3, <1>4

(* What becomes of entry n of a refresh: it is let go of, or kept with its *)
(* link, and then it is not in the table any more.                         *)
Outcome(b, fate, n) ==
  LET d == fate[1]
  IN  IF fate[2]
      THEN /\ Grows(b, d, {n}) /\ n \notin ToSet(d.table) /\ d.infos[n].next \in (0 .. Len(d.infos)) \ {n}
           /\ \A t \in Nat \ {0} : Excess(d, t) = Excess(b, t) + B(t = d.infos[n].next)
      ELSE /\ Grows(b, d, {})
           /\ \A t \in Nat \ {0} : Excess(d, t) = Excess(b, t) - B(t = n)

LEMMA LetsGo ==
  ASSUME NEW b, NEW c, Grows(b, c, {}), NEW n \in 1 .. Len(b.infos),
         \A t \in Nat \ {0} : Excess(c, t) = Excess(b, t)
  PROVE  Outcome(b, LetGo(c, n), n)
  <1> DEFINE d == Counted(c, {n}, -1)
  <1>1. b \in Caches /\ c \in Caches
    BY DEF Grows
  <1>2. n \in 1 .. Len(c.infos)
    BY <1>1, CacheTypes DEF Grows
  <1>3. /\ Grows(c, d, {})
        /\ \A t : Excess(d, t) = Excess(c, t) + IF t \in {n} /\ t \in 1 .. Len(c.infos) THEN -1 ELSE 0
    BY <1>1, CountedStep
  <1>4. LetGo(c, n) = <<d, FALSE>>
    BY DEF LetGo, track_info_unref
  <1> HIDE DEF d
  <1>5. Grows(b, d, {} \cup {})
    BY <1>3, GrowsOn
  <1>6. ASSUME NEW t \in Nat \ {0} PROVE Excess(d, t) = Excess(b, t) - B(t = n)
    <2>1. Excess(b, t) \in Int
      BY <1>1, ExcessType
    <2>2. Excess(d, t) = Excess(b, t) + IF t \in {n} /\ t \in 1 .. Len(c.infos) THEN -1 ELSE 0
      BY <1>3
    <2> QED BY <2>1, <2>2, <1>2 DEF B
  <1> QED BY <1>4, <1>5, <1>6 DEF Outcome

LEMMA ObjectLinked ==
  ASSUME NEW o \in Infos, NEW n \in Nat
  PROVE  /\ [o EXCEPT !.next = n] \in Infos
         /\ [o EXCEPT !.next = n].file = o.file
         /\ [o EXCEPT !.next = n].next = n
         /\ [o EXCEPT !.next = n].refs = o.refs
  BY DEF Infos

LEMMA Keeps ==
  ASSUME NEW b, NEW c, Grows(b, c, {}), NEW n \in 1 .. Len(b.infos), n \notin ToSet(c.table),
         NEW x \in (0 .. Len(c.infos)) \ {n},
         \A t \in Nat \ {0} : Excess(c, t) = Excess(b, t) + B(t = x)
  PROVE  Outcome(b, Keep(c, n, x), n)
  <1> DEFINE o == [c.infos[n] EXCEPT !.next = x]
             s == [c.infos EXCEPT ![n] = o]
             d == [c EXCEPT !.infos = s]
             k == Len(c.infos)
  <1>1. b \in Caches /\ c \in Caches
    BY DEF Grows
  <1>2. /\ c.infos \in Seq(Infos) /\ c.table \in Seq(Nat) /\ Once(c.table) /\ k \in Nat
        /\ ToSet(c.table) \subseteq 1 .. k /\ \A t \in 1 .. k : c.infos[t] \in Infos
    BY <1>1, CacheTypes
  <1>3. n \in 1 .. k
    BY <1>1, <1>2, CacheTypes DEF Grows
  <1>4. o \in Infos /\ o.file = c.infos[n].file /\ o.next = x /\ o.refs = c.infos[n].refs
    BY <1>2, <1>3, ObjectLinked
  <1>5. Keep(c, n, x) = <<d, TRUE>>
    BY DEF Keep
  <1> HIDE DEF o
  <1>6. /\ s \in Seq(Infos) /\ Len(s) = k /\ s[n] = o
        /\ \A t \in 1 .. k : t # n => s[t] = c.infos[t]
    BY <1>2, <1>3, <1>4
  <1> HIDE DEF s
  <1>7. c \in [infos : Seq(Infos), table : Seq(Nat)]
    BY <1>1 DEF Caches
  <1>8. d.infos = s /\ d.table = c.table /\ d \in [infos : Seq(Infos), table : Seq(Nat)]
    BY <1>6, <1>7
  <1> HIDE DEF d
  <1>9. d \in Caches
    BY <1>2, <1>6, <1>8 DEF Caches
  <1>10. Grows(c, d, {n})
    <2>1. ASSUME NEW t \in 1 .. k
          PROVE  d.infos[t].file = c.infos[t].file /\ (t \notin {n} => d.infos[t].next = c.infos[t].next)
      BY <1>4, <1>6, <1>8
    <2> QED BY <2>1, <1>1, <1>2, <1>6, <1>8, <1>9 DEF Grows
  <1>11. Grows(b, d, {} \cup {n})
    BY <1>10, GrowsOn
  <1>12. Grows(b, d, {n})
    BY <1>11
  <1>13. \A t : Excess(d, t) = Excess(c, t)
    BY <1>4, <1>6, <1>8 DEF Excess
  <1>14. d.infos[n].next = x /\ x \in (0 .. Len(d.infos)) \ {n} /\ n \notin ToSet(d.table)
    BY <1>4, <1>6, <1>8
  <1> QED BY <1>5, <1>12, <1>13, <1>14 DEF Outcome

LEMMA Deletes ==
  ASSUME NEW b, NEW c, Grows(b, c, {}), NEW n \in 1 .. Len(b.infos), n \notin ToSet(c.table),
         \A t \in Nat \ {0} : Excess(c, t) = Excess(b, t)
  PROVE  Outcome(b, Deleted(c, n), n)
  <1>1. Outcome(b, LetGo(c, n), n)
    BY LetsGo
  <1>2. b \in Caches /\ c \in Caches
    BY DEF Grows
  <1>3. 0 \in (0 .. Len(c.infos)) \ {n}
    BY <1>2, CacheTypes
  <1>4. \A t \in Nat \ {0} : Excess(c, t) = Excess(b, t) + B(t = 0)
    BY <1>2, ExcessType DEF B
  <1>5. Outcome(b, Keep(c, n, 0), n)
    BY <1>3, <1>4, Keeps
  <1> QED BY <1>1, <1>5 DEF Deleted

LEMMA Changes ==
  ASSUME NEW b, NEW c, Grows(b, c, {}), NEW n \in 1 .. Len(b.infos), n \notin ToSet(c.table),
         \A t \in Nat \ {0} : Excess(c, t) = Excess(b, t), disk \in [Files -> Int],
         NEW fate \in Changed(c, n)
  PROVE  Outcome(b, fate, n)
  <1> DEFINE file == c.infos[n].file
  <1>1. b \in Caches /\ c \in Caches
    BY DEF Grows
  <1>2. n \in 1 .. Len(c.infos) /\ Len(c.infos) \in Nat
    BY <1>1, CacheTypes DEF Grows
  <1>3. file \in Names
    BY <1>1, <1>2, CacheTypes
  <1>4. PICK d \in ip_get_ti(c, file) :
          fate = IF Got(c, d) = 0 THEN Deleted(c, n)
                 ELSE IF track_info_unique_ref(d, n) THEN LetGo(add_ti(d, Got(c, d)), n)
                 ELSE Keep(track_info_ref(add_ti(d, Got(c, d)), Got(c, d)), n, Got(c, d))
    BY DEF Changed
  <1> HIDE DEF file
  <1>5. Probing(c, d, file)
    BY <1>1, <1>3, Probed
  <1>6. CASE Got(c, d) = 0
    BY <1>4, <1>6, Deletes
  <1>7. CASE Got(c, d) # 0
    <2> DEFINE k == Got(c, d)
               e == add_ti(d, k)
               f == track_info_ref(e, k)
    <2>1. /\ k = Len(c.infos) + 1 /\ Grows(c, d, {}) /\ Len(d.infos) = k /\ d.table = c.table
          /\ \A t : Excess(d, t) = Excess(c, t) + B(t = k)
      BY <1>5, <1>7 DEF Probing
    <2>2. Gets(c, f, k, file)
      <3>1. \A t : Excess(c, t) = Excess(c, t)
        OBVIOUS
      <3> QED BY <1>1, <1>5, <1>7, <3>1, GrowsSelf, MissGets
    <2>3. k \in 1 .. Len(d.infos) /\ k > Len(c.infos) /\ k \notin ToSet(d.table)
      <3> HIDE DEF k
      <3>1. k > Len(c.infos) /\ k \in 1 .. k
        BY <1>2, <2>1
      <3>2. ToSet(c.table) \subseteq 1 .. Len(c.infos)
        BY <1>1, CacheTypes
      <3>3. k \notin 1 .. Len(c.infos)
        BY <1>2, <3>1
      <3> QED BY <2>1, <3>1, <3>2, <3>3
    <2> HIDE DEF k
    <2>4. Grows(c, e, {}) /\ \A t : Excess(e, t) = Excess(d, t) - B(t = k)
      BY <2>1, <2>3, EntryAdded
    <2> HIDE DEF e, f
    <2>5. CASE track_info_unique_ref(d, n)
      <3>1. Grows(b, e, {} \cup {})
        BY <2>4, GrowsOn
      <3>2. ASSUME NEW t \in Nat \ {0} PROVE Excess(e, t) = Excess(b, t)
        <4>1. Excess(e, t) = (Excess(b, t) + B(t = k)) - B(t = k)
          BY <2>1, <2>4
        <4>2. Excess(b, t) \in Int /\ B(t = k) \in Int
          BY <1>1, ExcessType DEF B
        <4> QED BY <4>1, <4>2
      <3>3. Outcome(b, LetGo(e, n), n)
        BY <3>1, <3>2, LetsGo
      <3> QED BY <1>4, <1>7, <2>5, <3>3 DEF e, k
    <2>6. CASE ~track_info_unique_ref(d, n)
      <3>1. Grows(c, f, {}) /\ k \in 0 .. Len(f.infos)
            /\ \A t \in Nat \ {0} : Excess(f, t) = Excess(c, t) + B(t = k)
        BY <2>2 DEF Gets
      <3>2. Grows(b, f, {} \cup {})
        BY <3>1, GrowsOn
      <3>3. n \notin ToSet(f.table)
        BY <3>1, <1>2 DEF Grows
      <3>4. \A t \in Nat \ {0} : Excess(f, t) = Excess(b, t) + B(t = k)
        BY <3>1
      <3>5. k \in (0 .. Len(f.infos)) \ {n}
        BY <3>1, <2>1, <1>2
      <3>6. Outcome(b, Keep(f, n, k), n)
        BY <3>2, <3>3, <3>4, <3>5, Keeps
      <3> QED BY <1>4, <1>7, <2>6, <3>6 DEF e, f, k
    <2> QED BY <2>5, <2>6
  <1> QED BY <1>6, <1>7

LEMMA Refreshes ==
  ASSUME Here \in Caches, disk \in [Files -> Int], NEW n \in 1 .. Len(infos), NEW force,
         NEW fate \in Refreshed(n, force)
  PROVE  Outcome(Here, fate, n)
  <1> DEFINE c == do_cache_remove_ti(Here, n)
  <1>1. n \in 1 .. Len(Here.infos)
    BY DEF Here
  <1>2. /\ Grows(Here, c, {}) /\ ToSet(c.table) = ToSet(Here.table) \ {n}
        /\ \A t : Excess(c, t) = Excess(Here, t)
    BY EntryRemoved
  <1>3. fate = LetGo(Here, n) \/ fate = Deleted(c, n) \/ fate = LetGo(c, n) \/ fate \in Changed(c, n)
    BY DEF Refreshed
  <1> HIDE DEF c
  <1>4. n \notin ToSet(c.table)
    BY <1>2
  <1>5. Outcome(Here, LetGo(Here, n), n)
    BY <1>1, GrowsSelf, LetsGo
  <1>6. Outcome(Here, LetGo(c, n), n)
    BY <1>1, <1>2, LetsGo
  <1>7. Outcome(Here, Deleted(c, n), n)
    BY <1>1, <1>2, <1>4, Deletes
  <1>8. CASE fate \in Changed(c, n)
    BY <1>1, <1>2, <1>4, <1>8, Changes
  <1> QED BY <1>3, <1>5, <1>6, <1>7, <1>8

-----------------------------------------------------------------------------
(* The worker's part of the state: the entries a refresh visits and keeps, *)
(* jobs and results.                                                       *)
JobSet(n) ==
  [kind : {"add"}, file : Names, force : BOOLEAN] \cup [kind : {"update"}, tis : SUBSET (1 .. n)]
    \cup [kind : {"refresh"}, force : BOOLEAN]
ResultSet(n) ==
  [kind : {"add", "refresh"}, tis : SUBSET (1 .. n)]
    \cup [kind : {"update"}, tis : SUBSET (1 .. n), gone : SUBSET (1 .. n)]

Updates(x, t) == x.kind = "update" /\ t \in x.tis
InJobs(j, t) == Cardinality({i \in DOMAIN j : Updates(j[i], t)})
InResults(r, t) == Cardinality({i \in DOMAIN r : t \in r[i].tis})

(* The objects that wait in a result of a refresh. *)
Refreshing(r, old) == \E i \in DOMAIN r : r[i].kind = "refresh" /\ old \in r[i].tis
Waiting(o, r, old) == old \in o \/ Refreshing(r, old)
Links(s, o, r, t) == {old \in DOMAIN s : s[old].next = t /\ Waiting(o, r, old)}
Linked(s, o, r, t) == Cardinality(Links(s, o, r, t))

(* What waits was taken out of the table, is not visited again, waits once *)
(* only, and has a link to another object or none.                         *)
WorkSound(c, sn, o, j, r) ==
  LET n == Len(c.infos) IN
  /\ j \in Seq(JobSet(n)) /\ r \in Seq(ResultSet(n)) /\ (sn = Idle \/ sn \in SUBSET (1 .. n)) /\ o \in SUBSET (1 .. n)
  /\ sn = Idle => o = {}
  /\ \A t \in sn : ~Waiting(o, r, t)
  /\ \A t \in 1 .. n : Waiting(o, r, t) => t \notin ToSet(c.table) /\ c.infos[t].next \in (0 .. n) \ {t}
  /\ \A t \in o : ~Refreshing(r, t)
  /\ \A a, b \in DOMAIN r : \A t \in r[a].tis \cap r[b].tis :
       r[a].kind = "refresh" /\ r[b].kind = "refresh" => a = b

LEMMA SetsGrow ==
  ASSUME NEW n \in Nat, NEW m \in Nat, n <= m
  PROVE  JobSet(n) \subseteq JobSet(m) /\ ResultSet(n) \subseteq ResultSet(m)
  <1>1. SUBSET (1 .. n) \subseteq SUBSET (1 .. m)
    BY SMT
  <1>2. JobSet(n) \subseteq JobSet(m)
    BY <1>1 DEF JobSet
  <1>3. ResultSet(n) \subseteq ResultSet(m)
    BY <1>1 DEF ResultSet
  <1> QED BY <1>2, <1>3

LEMMA SeqGrows ==
  ASSUME NEW S, NEW T, S \subseteq T, NEW s \in Seq(S)
  PROVE  s \in Seq(T)
  <1>1. \A i \in 1 .. Len(s) : s[i] \in T
    OBVIOUS
  <1>2. s = [i \in 1 .. Len(s) |-> s[i]] /\ Len(s) \in Nat
    OBVIOUS
  <1> QED BY <1>1, <1>2

LEMMA ResultShape ==
  ASSUME NEW n, NEW x \in ResultSet(n)
  PROVE  /\ x.kind \in {"add", "refresh", "update"} /\ x.tis \in SUBSET (1 .. n)
         /\ \A T \in SUBSET (1 .. n) :
              /\ [x EXCEPT !.tis = T] \in ResultSet(n)
              /\ [x EXCEPT !.tis = T].kind = x.kind /\ [x EXCEPT !.tis = T].tis = T
  <1> DEFINE R == [kind : {"add", "refresh"}, tis : SUBSET (1 .. n)]
             U == [kind : {"update"}, tis : SUBSET (1 .. n), gone : SUBSET (1 .. n)]
  <1>1. CASE x \in R
    <2>1. \A T \in SUBSET (1 .. n) :
            /\ [x EXCEPT !.tis = T] \in R
            /\ [x EXCEPT !.tis = T].kind = x.kind /\ [x EXCEPT !.tis = T].tis = T
      BY <1>1
    <2> QED BY <1>1, <2>1 DEF ResultSet
  <1>2. CASE x \in U
    <2>1. \A T \in SUBSET (1 .. n) :
            /\ [x EXCEPT !.tis = T] \in U
            /\ [x EXCEPT !.tis = T].kind = x.kind /\ [x EXCEPT !.tis = T].tis = T
      BY <1>2
    <2> QED BY <1>2, <2>1 DEF ResultSet
  <1> QED BY <1>1, <1>2 DEF ResultSet

LEMMA CountsTyped ==
  ASSUME NEW c \in Caches, NEW sn, NEW o, NEW j, NEW r, WorkSound(c, sn, o, j, r), NEW t
  PROVE  /\ InJobs(j, t) \in Nat /\ InResults(r, t) \in Nat /\ Linked(c.infos, o, r, t) \in Nat
  <1> DEFINE n == Len(c.infos)
  <1>1. c.infos \in Seq(Infos) /\ n \in Nat
    BY CacheTypes
  <1>2. j \in Seq(JobSet(n)) /\ r \in Seq(ResultSet(n))
    BY DEF WorkSound
  <1> HIDE DEF n
  <1>3. DOMAIN j = 1 .. Len(j) /\ Len(j) \in Nat /\ DOMAIN r = 1 .. Len(r) /\ Len(r) \in Nat
        /\ DOMAIN c.infos = 1 .. n
    BY <1>1, <1>2 DEF n
  <1>4. IsFiniteSet(DOMAIN j) /\ IsFiniteSet(DOMAIN r) /\ IsFiniteSet(DOMAIN c.infos)
    <2> DEFINE p == Len(j)
               q == Len(r)
    <2>1. p \in Nat /\ q \in Nat /\ n \in Nat
      BY <1>1, <1>3
    <2> HIDE DEF p, q
    <2>2. IsFiniteSet(1 .. p)
      BY ONLY <2>1, FS_Interval
    <2>3. IsFiniteSet(1 .. q)
      BY ONLY <2>1, FS_Interval
    <2>4. IsFiniteSet(1 .. n)
      BY ONLY <2>1, FS_Interval
    <2> QED BY <1>3, <2>2, <2>3, <2>4 DEF p, q
  <1>5. /\ {i \in DOMAIN j : Updates(j[i], t)} \in SUBSET DOMAIN j
        /\ {i \in DOMAIN r : t \in r[i].tis} \in SUBSET DOMAIN r
        /\ {old \in DOMAIN c.infos : c.infos[old].next = t /\ Waiting(o, r, old)} \in SUBSET DOMAIN c.infos
    OBVIOUS
  <1> QED BY <1>4, <1>5, FS_Subset, FS_CardinalityType DEF InJobs, InResults, Linked, Links

LEMMA LinkedFinite ==
  ASSUME NEW c \in Caches, NEW o, NEW r, NEW t
  PROVE  IsFiniteSet(Links(c.infos, o, r, t))
  <1> DEFINE n == Len(c.infos)
             I == {old \in DOMAIN c.infos : c.infos[old].next = t /\ Waiting(o, r, old)}
  <1>1. c.infos \in Seq(Infos) /\ n \in Nat
    BY CacheTypes
  <1>2. DOMAIN c.infos = 1 .. n
    BY <1>1
  <1> HIDE DEF n
  <1>3. IsFiniteSet(1 .. n)
    BY <1>1, FS_Interval
  <1>4. I \in SUBSET (1 .. n)
    BY <1>2
  <1>5. IsFiniteSet(I)
    BY <1>3, <1>4, FS_Subset
  <1> QED BY <1>5 DEF Links

(* The cache grows, and the worker's part stays. *)
LEMMA WorkGrows ==
  ASSUME NEW b, NEW d, Grows(b, d, {}), NEW sn, NEW o, NEW j, NEW r, WorkSound(b, sn, o, j, r)
  PROVE  /\ WorkSound(d, sn, o, j, r)
         /\ \A t : Linked(d.infos, o, r, t) = Linked(b.infos, o, r, t)
  <1> DEFINE n == Len(b.infos)
             m == Len(d.infos)
  <1>1. b \in Caches /\ d \in Caches
    BY DEF Grows
  <1>2. n \in Nat /\ m \in Nat /\ n <= m /\ DOMAIN b.infos = 1 .. n /\ DOMAIN d.infos = 1 .. m
    BY <1>1, CacheTypes DEF Grows
  <1>3. /\ j \in Seq(JobSet(n)) /\ r \in Seq(ResultSet(n)) /\ (sn = Idle \/ sn \in SUBSET (1 .. n))
        /\ o \in SUBSET (1 .. n)
    BY DEF WorkSound
  <1>4. \A t \in 1 .. n : d.infos[t].next = b.infos[t].next
    BY DEF Grows
  <1>5. \A t \in ToSet(d.table) : t \in ToSet(b.table) \/ t > n
    BY DEF Grows
  <1> HIDE DEF n, m
  <1>6. j \in Seq(JobSet(m)) /\ r \in Seq(ResultSet(m))
    BY <1>2, <1>3, SetsGrow, SeqGrows
  <1>7. (sn = Idle \/ sn \in SUBSET (1 .. m)) /\ o \in SUBSET (1 .. m)
    BY <1>2, <1>3
  <1>8. \A t : Waiting(o, r, t) => t \in 1 .. n
    <2>1. \A i \in DOMAIN r : r[i].tis \in SUBSET (1 .. n)
      <3>1. \A i \in DOMAIN r : r[i] \in ResultSet(n)
        BY <1>3
      <3> QED BY <3>1, ResultShape
    <2> QED BY <1>3, <2>1 DEF Waiting, Refreshing
  <1>9. ASSUME NEW t \in 1 .. m, Waiting(o, r, t)
        PROVE  t \notin ToSet(d.table) /\ d.infos[t].next \in (0 .. m) \ {t}
    <2>1. t \in 1 .. n
      BY <1>8, <1>9
    <2>2. t \notin ToSet(b.table) /\ b.infos[t].next \in (0 .. n) \ {t}
      BY <1>9, <2>1 DEF WorkSound, n
    <2>3. ~(t > n)
      BY <1>2, <2>1
    <2> QED BY <1>2, <1>4, <1>5, <2>1, <2>2, <2>3
  <1>10. WorkSound(d, sn, o, j, r)
    BY <1>6, <1>7, <1>9 DEF WorkSound, m
  <1>11. ASSUME NEW t PROVE Linked(d.infos, o, r, t) = Linked(b.infos, o, r, t)
    <2>1. 1 .. n \subseteq 1 .. m
      BY <1>2
    <2>2. {old \in DOMAIN d.infos : d.infos[old].next = t /\ Waiting(o, r, old)}
            = {old \in DOMAIN b.infos : b.infos[old].next = t /\ Waiting(o, r, old)}
      BY <1>2, <1>4, <1>8, <2>1
    <2> QED BY <2>2 DEF Linked, Links
  <1> QED BY <1>10, <1>11

LEMMA JobAppended ==
  ASSUME NEW c \in Caches, NEW sn, NEW o, NEW j, NEW r, WorkSound(c, sn, o, j, r),
         NEW x \in JobSet(Len(c.infos))
  PROVE  /\ WorkSound(c, sn, o, Append(j, x), r)
         /\ \A t : InJobs(Append(j, x), t) = InJobs(j, t) + B(Updates(x, t))
  <1> DEFINE X == JobSet(Len(c.infos))
             u == Append(j, x)
  <1>1. j \in Seq(X)
    BY DEF WorkSound
  <1>2. u \in Seq(X)
    BY <1>1
  <1>3. ASSUME NEW t PROVE InJobs(u, t) = InJobs(j, t) + B(Updates(x, t))
    <2> DEFINE S == {y \in X : Updates(y, t)}
    <2>1. \A i \in DOMAIN j : j[i] \in X
      BY <1>1
    <2>2. \A i \in DOMAIN u : u[i] \in X
      BY <1>2
    <2> HIDE DEF X, u
    <2>3. {i \in DOMAIN j : Updates(j[i], t)} = {i \in DOMAIN j : j[i] \in S}
      BY <2>1
    <2>4. {i \in DOMAIN u : Updates(u[i], t)} = {i \in DOMAIN u : u[i] \in S}
      BY <2>2
    <2>5. x \in S <=> Updates(x, t)
      BY DEF X
    <2> HIDE DEF S
    <2>6. x \in X
      BY DEF X
    <2>7. Count(Append(j, x), S) = Count(j, S) + B(x \in S)
      BY <1>1, <2>6, CountAppend
    <2>8. B(x \in S) = B(Updates(x, t))
      BY <2>5 DEF B
    <2> QED BY <2>3, <2>4, <2>7, <2>8 DEF InJobs, Count, u
  <1> QED BY <1>2, <1>3 DEF WorkSound

LEMMA JobDone ==
  ASSUME NEW c \in Caches, NEW sn, NEW o, NEW j, NEW r, WorkSound(c, sn, o, j, r), j # <<>>
  PROVE  /\ WorkSound(c, sn, o, Tail(j), r) /\ j[1] \in JobSet(Len(c.infos))
         /\ \A t : InJobs(j, t) = InJobs(Tail(j), t) + B(Updates(j[1], t))
  <1> DEFINE X == JobSet(Len(c.infos))
             u == Tail(j)
  <1>1. j \in Seq(X)
    BY DEF WorkSound
  <1>2. u \in Seq(X) /\ j[1] \in X
    BY <1>1
  <1>3. ASSUME NEW t PROVE InJobs(j, t) = InJobs(u, t) + B(Updates(j[1], t))
    <2> DEFINE S == {y \in X : Updates(y, t)}
    <2>1. \A i \in DOMAIN j : j[i] \in X
      BY <1>1
    <2>2. \A i \in DOMAIN u : u[i] \in X
      BY <1>2
    <2> HIDE DEF X, u
    <2>3. {i \in DOMAIN j : Updates(j[i], t)} = {i \in DOMAIN j : j[i] \in S}
      BY <2>1
    <2>4. {i \in DOMAIN u : Updates(u[i], t)} = {i \in DOMAIN u : u[i] \in S}
      BY <2>2
    <2>5. j[1] \in S <=> Updates(j[1], t)
      BY <1>2
    <2> HIDE DEF S
    <2>7. Count(j, S) = Count(Tail(j), S) + B(j[1] \in S)
      BY <1>1, CountTail
    <2>8. B(j[1] \in S) = B(Updates(j[1], t))
      BY <2>5 DEF B
    <2> QED BY <2>3, <2>4, <2>7, <2>8 DEF InJobs, Count, u
  <1> QED BY <1>2, <1>3 DEF WorkSound

(* The results, as the count sees them. *)
LEMMA ResultCounts ==
  ASSUME NEW n, NEW r \in Seq(ResultSet(n)), NEW t
  PROVE  /\ \A x \in ResultSet(n) : InResults(Append(r, x), t) = InResults(r, t) + B(t \in x.tis)
         /\ r # <<>> => InResults(r, t) = InResults(Tail(r), t) + B(t \in r[1].tis)
  <1> DEFINE X == ResultSet(n)
             S == {y \in X : t \in y.tis}
  <1> HIDE DEF X
  <1>1. ASSUME NEW s \in Seq(X) PROVE InResults(s, t) = Count(s, S)
    <2>1. \A i \in DOMAIN s : s[i] \in X
      OBVIOUS
    <2>2. {i \in DOMAIN s : t \in s[i].tis} = {i \in DOMAIN s : s[i] \in S}
      BY <2>1
    <2> QED BY <2>2 DEF InResults, Count
  <1>2. r \in Seq(X)
    BY DEF X
  <1>3. \A x \in X : B(x \in S) = B(t \in x.tis)
    BY DEF B
  <1> HIDE DEF S
  <1>4. ASSUME NEW x \in X PROVE InResults(Append(r, x), t) = InResults(r, t) + B(t \in x.tis)
    <2>1. Append(r, x) \in Seq(X)
      BY <1>2
    <2>2. Count(Append(r, x), S) = Count(r, S) + B(x \in S)
      BY <1>2, CountAppend
    <2> QED BY <1>1, <1>2, <1>3, <2>1, <2>2
  <1>5. ASSUME r # <<>> PROVE InResults(r, t) = InResults(Tail(r), t) + B(t \in r[1].tis)
    <2>1. Tail(r) \in Seq(X) /\ r[1] \in X
      BY <1>2, <1>5
    <2>2. Count(r, S) = Count(Tail(r), S) + B(r[1] \in S)
      BY <1>2, <1>5, CountTail
    <2> QED BY <1>1, <1>2, <1>3, <2>1, <2>2
  <1> QED BY <1>4, <1>5 DEF X

LEMMA AppendedAt ==
  ASSUME NEW X, NEW r \in Seq(X), NEW x \in X
  PROVE  /\ Append(r, x) \in Seq(X) /\ Len(r) \in Nat
         /\ DOMAIN r = 1 .. Len(r) /\ DOMAIN Append(r, x) = 1 .. Len(r) + 1
         /\ Append(r, x)[Len(r) + 1] = x /\ \A i \in 1 .. Len(r) : Append(r, x)[i] = r[i]
         /\ \A i \in 1 .. Len(r) + 1 : i \in 1 .. Len(r) \/ i = Len(r) + 1
         /\ \A i \in 1 .. Len(r) : i \in 1 .. Len(r) + 1
         /\ Len(r) + 1 \in 1 .. Len(r) + 1
  OBVIOUS

LEMMA ResultPushed ==
  ASSUME NEW c \in Caches, NEW sn, NEW o, NEW j, NEW r, WorkSound(c, sn, o, j, r),
         NEW x \in ResultSet(Len(c.infos)), x.kind # "refresh"
  PROVE  /\ WorkSound(c, sn, o, j, Append(r, x))
         /\ \A t : InResults(Append(r, x), t) = InResults(r, t) + B(t \in x.tis)
         /\ \A t : Linked(c.infos, o, Append(r, x), t) = Linked(c.infos, o, r, t)
  <1> DEFINE X == ResultSet(Len(c.infos))
             u == Append(r, x)
  <1>1. r \in Seq(X)
    BY DEF WorkSound
  <1>2. \A t : InResults(Append(r, x), t) = InResults(r, t) + B(t \in x.tis)
    BY <1>1, ResultCounts
  <1> HIDE DEF X
  <1>3. x \in X
    BY DEF X
  <1>4. /\ u \in Seq(X)
        /\ DOMAIN r = 1 .. Len(r) /\ DOMAIN u = 1 .. Len(r) + 1
        /\ u[Len(r) + 1] = x /\ \A i \in 1 .. Len(r) : u[i] = r[i]
        /\ \A i \in 1 .. Len(r) + 1 : i \in 1 .. Len(r) \/ i = Len(r) + 1
        /\ \A i \in 1 .. Len(r) : i \in 1 .. Len(r) + 1
    BY <1>1, <1>3, AppendedAt
  <1> HIDE DEF u
  <1>5. \A t : Refreshing(u, t) <=> Refreshing(r, t)
    BY <1>4 DEF Refreshing
  <1>6. \A t : Waiting(o, u, t) <=> Waiting(o, r, t)
    BY <1>5 DEF Waiting
  <1>7. \A a, b \in DOMAIN u : \A t \in u[a].tis \cap u[b].tis :
          u[a].kind = "refresh" /\ u[b].kind = "refresh" => a = b
    BY <1>4 DEF WorkSound
  <1>8. WorkSound(c, sn, o, j, u)
    BY <1>4, <1>5, <1>6, <1>7 DEF WorkSound, X
  <1>9. \A t : Linked(c.infos, o, u, t) = Linked(c.infos, o, r, t)
    BY <1>6 DEF Linked, Links
  <1> QED BY <1>2, <1>8, <1>9 DEF u

(* What a refresh kept becomes its result. *)
LEMMA RefreshPushed ==
  ASSUME NEW c \in Caches, NEW o, NEW j, NEW r, WorkSound(c, {}, o, j, r)
  PROVE  LET u == Append(r, [kind |-> "refresh", tis |-> o])
         IN  /\ WorkSound(c, Idle, {}, j, u)
             /\ \A t : InResults(u, t) = InResults(r, t) + B(t \in o)
             /\ \A t : Linked(c.infos, {}, u, t) = Linked(c.infos, o, r, t)
  <1> DEFINE n == Len(c.infos)
             X == ResultSet(n)
             x == [kind |-> "refresh", tis |-> o]
             u == Append(r, x)
  <1>1. r \in Seq(X) /\ o \in SUBSET (1 .. n) /\ j \in Seq(JobSet(n))
    BY DEF WorkSound
  <1>2. x \in X /\ x.kind = "refresh" /\ x.tis = o
    BY <1>1 DEF ResultSet
  <1> HIDE DEF x
  <1>3. \A t : InResults(u, t) = InResults(r, t) + B(t \in x.tis)
    BY <1>1, <1>2, ResultCounts
  <1> HIDE DEF X
  <1>4. /\ u \in Seq(X)
        /\ DOMAIN r = 1 .. Len(r) /\ DOMAIN u = 1 .. Len(r) + 1
        /\ u[Len(r) + 1] = x /\ \A i \in 1 .. Len(r) : u[i] = r[i]
        /\ \A i \in 1 .. Len(r) + 1 : i \in 1 .. Len(r) \/ i = Len(r) + 1
        /\ \A i \in 1 .. Len(r) : i \in 1 .. Len(r) + 1
        /\ Len(r) + 1 \in 1 .. Len(r) + 1
    BY <1>1, <1>2, AppendedAt
  <1> HIDE DEF u
  <1>5. \A t : Refreshing(u, t) <=> t \in o \/ Refreshing(r, t)
    BY <1>2, <1>4 DEF Refreshing
  <1>6. \A t : Waiting({}, u, t) <=> Waiting(o, r, t)
    BY <1>5 DEF Waiting
  <1>7. \A t \in o : ~Refreshing(r, t)
    BY DEF WorkSound
  <1>8. ASSUME NEW a \in DOMAIN u, NEW b \in DOMAIN u, NEW t \in u[a].tis \cap u[b].tis,
               u[a].kind = "refresh", u[b].kind = "refresh"
        PROVE  a = b
    <2>1. CASE a \in 1 .. Len(r) /\ b \in 1 .. Len(r)
      BY <1>4, <1>8, <2>1 DEF WorkSound
    <2>2. CASE a = Len(r) + 1 /\ b \in 1 .. Len(r)
      BY <1>2, <1>4, <1>7, <1>8, <2>2 DEF Refreshing
    <2>3. CASE b = Len(r) + 1 /\ a \in 1 .. Len(r)
      BY <1>2, <1>4, <1>7, <1>8, <2>3 DEF Refreshing
    <2> QED BY <1>4, <1>8, <2>1, <2>2, <2>3
  <1>9. \A t \in Idle : ~Waiting({}, u, t)
    <2>1. \A i \in DOMAIN r : r[i].tis \in SUBSET (1 .. n)
      <3>1. \A i \in DOMAIN r : r[i] \in ResultSet(n)
        BY <1>1 DEF X
      <3> QED BY <3>1, ResultShape
    <2>2. 0 \notin 1 .. n
      OBVIOUS
    <2> QED BY <1>1, <1>6, <2>1, <2>2 DEF Waiting, Refreshing, Idle
  <1>10. WorkSound(c, Idle, {}, j, u)
    <2>1. \A t \in 1 .. n : Waiting({}, u, t) => t \notin ToSet(c.table) /\ c.infos[t].next \in (0 .. n) \ {t}
      BY <1>6 DEF WorkSound
    <2> QED BY <1>1, <1>4, <1>8, <1>9, <2>1 DEF WorkSound, X
  <1>11. \A t : Linked(c.infos, {}, u, t) = Linked(c.infos, o, r, t)
    BY <1>6 DEF Linked, Links
  <1> QED BY <1>2, <1>3, <1>10, <1>11 DEF u, x

(* The main thread takes an object out of the first result. *)
TakenAs(c, sn, o, j, r, u, x) ==
  /\ x \in 1 .. Len(c.infos)
  /\ r[1].kind = "refresh" => c.infos[x].next \in (0 .. Len(c.infos)) \ {x}
  /\ WorkSound(c, sn, o, j, u)
  /\ \A t : InResults(r, t) = InResults(u, t) + B(t = x)
  /\ \A t : Linked(c.infos, o, r, t)
              = Linked(c.infos, o, u, t) + B(r[1].kind = "refresh" /\ c.infos[x].next = t)

LEMMA ResultTaken ==
  ASSUME NEW c \in Caches, NEW sn, NEW o, NEW j, NEW r, WorkSound(c, sn, o, j, r),
         r # <<>>, NEW x \in r[1].tis
  PROVE  TakenAs(c, sn, o, j, r, [r EXCEPT ![1].tis = @ \ {x}], x)
  <1> DEFINE n == Len(c.infos)
             X == ResultSet(n)
             k == Len(r)
             T == r[1].tis \ {x}
             y == [r[1] EXCEPT !.tis = T]
             u == [r EXCEPT ![1] = y]
  <1>1. r \in Seq(X) /\ k \in Nat /\ DOMAIN r = 1 .. k /\ \A i \in 1 .. k : r[i] \in X
    BY DEF WorkSound
  <1>2. 1 \in 1 .. k /\ r[1] \in X
    BY <1>1
  <1>3. r[1].tis \in SUBSET (1 .. n)
    BY <1>2, ResultShape
  <1>4. T \in SUBSET (1 .. n) /\ x \in 1 .. n
    BY <1>3
  <1>6. [r EXCEPT ![1].tis = @ \ {x}] = u
    OBVIOUS
  <1> HIDE DEF T
  <1>5. y \in X /\ y.kind = r[1].kind /\ y.tis = T
    BY <1>2, <1>4, ResultShape
  <1> HIDE DEF y, X
  <1>7. /\ u \in Seq(X) /\ DOMAIN u = 1 .. k /\ u[1] = y /\ \A i \in 1 .. k : i # 1 => u[i] = r[i]
    BY <1>1, <1>5
  <1> HIDE DEF u, k
  <1>8. /\ \A i \in 1 .. k : u[i].kind = r[i].kind
        /\ \A i \in 1 .. k : i # 1 => u[i].tis = r[i].tis
        /\ u[1].tis = r[1].tis \ {x}
    BY <1>5, <1>7 DEF T
  <1>9. ASSUME NEW t PROVE InResults(r, t) = InResults(u, t) + B(t = x)
    <2> DEFINE I == {i \in DOMAIN r : t \in r[i].tis}
               J == {i \in DOMAIN u : t \in u[i].tis}
    <2>1. IsFiniteSet(1 .. k)
      BY <1>1, FS_Interval
    <2>2. I \in SUBSET (1 .. k)
      BY <1>1
    <2>3. IsFiniteSet(I) /\ Cardinality(I) \in Nat
      BY <2>1, <2>2, FS_Subset, FS_CardinalityType
    <2>4. CASE t = x
      <3>1. J = I \ {1} /\ 1 \in I
        BY <2>4, <1>1, <1>2, <1>7, <1>8
      <3> HIDE DEF I, J
      <3>2. Cardinality(J) = Cardinality(I) - 1
        BY <2>3, <3>1, FS_RemoveElement
      <3>3. Cardinality(I) = Cardinality(J) + 1
        BY <2>3, <3>2
      <3> QED BY <2>4, <3>3 DEF InResults, B, I, J
    <2>5. CASE t # x
      <3>1. J = I
        BY <2>5, <1>1, <1>2, <1>7, <1>8
      <3> HIDE DEF I, J
      <3>2. Cardinality(I) = Cardinality(J) + 0
        BY <2>3, <3>1
      <3> QED BY <2>5, <3>2 DEF InResults, B, I, J
    <2> QED BY <2>4, <2>5
  <1>10. \A a \in DOMAIN r : r[a].kind = "refresh" /\ r[1].kind = "refresh" /\ x \in r[a].tis => a = 1
    BY <1>1, <1>2 DEF WorkSound
  <1>11. r[1].kind = "refresh" => ~Refreshing(u, x) /\ x \notin o /\ Refreshing(r, x)
    <2> SUFFICES ASSUME r[1].kind = "refresh"
                 PROVE  ~Refreshing(u, x) /\ x \notin o /\ Refreshing(r, x)
      OBVIOUS
    <2>1. Refreshing(r, x)
      BY <1>1, <1>2 DEF Refreshing
    <2>2. x \notin o
      BY <2>1 DEF WorkSound
    <2>3. ~Refreshing(u, x)
      BY <1>1, <1>7, <1>8, <1>10 DEF Refreshing
    <2> QED BY <2>1, <2>2, <2>3
  <1>12. \A t : t # x => (Refreshing(u, t) <=> Refreshing(r, t))
    BY <1>1, <1>2, <1>7, <1>8 DEF Refreshing
  <1>13. r[1].kind # "refresh" => \A t : Refreshing(u, t) <=> Refreshing(r, t)
    BY <1>1, <1>2, <1>7, <1>8 DEF Refreshing
  <1>14. \A t : Refreshing(u, t) => Refreshing(r, t)
    BY <1>11, <1>12, <1>13
  <1>15. WorkSound(c, sn, o, j, u)
    <2>1. \A a, b \in DOMAIN u : \A t \in u[a].tis \cap u[b].tis :
            u[a].kind = "refresh" /\ u[b].kind = "refresh" => a = b
      <3>1. \A a \in 1 .. k : u[a].tis \subseteq r[a].tis
        BY <1>8
      <3> QED BY <3>1, <1>1, <1>7, <1>8 DEF WorkSound
    <2>2. \A t : Waiting(o, u, t) => Waiting(o, r, t)
      BY <1>14 DEF Waiting
    <2> QED BY <2>1, <2>2, <1>7, <1>14 DEF WorkSound, X
  <1>16. ASSUME NEW t
         PROVE  Linked(c.infos, o, r, t)
                  = Linked(c.infos, o, u, t) + B(r[1].kind = "refresh" /\ c.infos[x].next = t)
    <2> DEFINE I == {old \in DOMAIN c.infos : c.infos[old].next = t /\ Waiting(o, r, old)}
               J == {old \in DOMAIN c.infos : c.infos[old].next = t /\ Waiting(o, u, old)}
    <2>00. c \in Caches
      OBVIOUS
    <2>0. IsFiniteSet(I)
      <3>1. IsFiniteSet(Links(c.infos, o, r, t))
        BY ONLY <2>00, LinkedFinite
      <3> QED BY <3>1 DEF Links
    <2>1. IsFiniteSet(I) /\ Cardinality(I) \in Nat
      <3> HIDE DEF I
      <3> QED BY <2>0, FS_CardinalityType
    <2>2. x \in DOMAIN c.infos
      BY <1>4, CacheTypes
    <2>3. CASE r[1].kind = "refresh" /\ c.infos[x].next = t
      <3>1. J = I \ {x} /\ x \in I
        BY <2>2, <2>3, <1>11, <1>12 DEF Waiting
      <3> HIDE DEF I, J
      <3>2. Cardinality(J) = Cardinality(I) - 1
        BY <2>1, <3>1, FS_RemoveElement
      <3>3. Cardinality(I) = Cardinality(J) + 1
        BY <2>1, <3>2
      <3> QED BY <2>3, <3>3 DEF Linked, Links, B, I, J
    <2>4. CASE ~(r[1].kind = "refresh" /\ c.infos[x].next = t)
      <3>1. \A old \in DOMAIN c.infos : c.infos[old].next = t => (Waiting(o, u, old) <=> Waiting(o, r, old))
        BY <2>4, <1>12, <1>13 DEF Waiting
      <3>2. J = I
        BY <3>1
      <3> HIDE DEF I, J
      <3>3. Cardinality(I) = Cardinality(J) + 0
        BY <2>1, <3>2
      <3> QED BY <2>4, <3>3 DEF Linked, Links, B, I, J
    <2> QED BY <2>3, <2>4
  <1>17. r[1].kind = "refresh" => c.infos[x].next \in (0 .. n) \ {x}
    BY <1>4, <1>11 DEF WorkSound, Waiting
  <1> QED BY <1>4, <1>6, <1>9, <1>15, <1>16, <1>17 DEF TakenAs

(* A result that is done with. *)
LEMMA ResultDone ==
  ASSUME NEW c \in Caches, NEW sn, NEW o, NEW j, NEW r, WorkSound(c, sn, o, j, r),
         r # <<>>, r[1].tis = {}
  PROVE  /\ WorkSound(c, sn, o, j, Tail(r))
         /\ \A t : InResults(Tail(r), t) = InResults(r, t)
         /\ \A t : Linked(c.infos, o, Tail(r), t) = Linked(c.infos, o, r, t)
  <1> DEFINE n == Len(c.infos)
             X == ResultSet(n)
             k == Len(r)
             u == Tail(r)
  <1>1. r \in Seq(X)
    BY DEF WorkSound
  <1>2. ASSUME NEW t PROVE InResults(u, t) = InResults(r, t)
    <2>1. InResults(r, t) = InResults(u, t) + B(t \in r[1].tis)
      BY <1>1, ResultCounts
    <2>2. InResults(r, t) \in Nat
      BY CountsTyped
    <2>3. B(t \in r[1].tis) = 0
      BY DEF B
    <2>4. u \in Seq(X)
      BY <1>1
    <2>5. InResults(u, t) \in Nat
      <3> DEFINE J == {i \in DOMAIN u : t \in u[i].tis}
                 q == Len(u)
      <3>1. DOMAIN u = 1 .. q /\ q \in Nat
        BY <2>4
      <3> HIDE DEF q
      <3>2. IsFiniteSet(1 .. q)
        BY ONLY <3>1, FS_Interval
      <3>3. J \in SUBSET (1 .. q)
        BY <3>1
      <3>4. IsFiniteSet(J)
        BY <3>2, <3>3, FS_Subset
      <3> QED BY <3>4, FS_CardinalityType DEF InResults
    <2> QED BY <2>1, <2>3, <2>5
  <1> HIDE DEF X
  <1>3. /\ u \in Seq(X) /\ k \in Nat /\ k >= 1 /\ DOMAIN r = 1 .. k /\ DOMAIN u = 1 .. k - 1
        /\ \A i \in 1 .. k - 1 : u[i] = r[i + 1]
    BY <1>1
  <1> HIDE DEF u, k
  <1>4. \A t : Refreshing(u, t) <=> Refreshing(r, t)
    <2>1. ASSUME NEW t, Refreshing(u, t) PROVE Refreshing(r, t)
      <3>1. PICK i \in 1 .. k - 1 : u[i].kind = "refresh" /\ t \in u[i].tis
        BY <1>3, <2>1 DEF Refreshing
      <3>2. i + 1 \in DOMAIN r /\ r[i + 1] = u[i]
        BY <1>3
      <3> QED BY <3>1, <3>2 DEF Refreshing
    <2>2. ASSUME NEW t, Refreshing(r, t) PROVE Refreshing(u, t)
      <3>1. PICK i \in 1 .. k : r[i].kind = "refresh" /\ t \in r[i].tis
        BY <1>3, <2>2 DEF Refreshing
      <3>2. i # 1
        BY <3>1
      <3>3. i - 1 \in DOMAIN u /\ u[i - 1] = r[i]
        BY <1>3, <3>2
      <3> QED BY <3>1, <3>3 DEF Refreshing
    <2> QED BY <2>1, <2>2
  <1>5. \A t : Waiting(o, u, t) <=> Waiting(o, r, t)
    BY <1>4 DEF Waiting
  <1>6. ASSUME NEW a \in DOMAIN u, NEW b \in DOMAIN u, NEW t \in u[a].tis \cap u[b].tis,
               u[a].kind = "refresh", u[b].kind = "refresh"
        PROVE  a = b
    <2>1. /\ a \in 1 .. k - 1 /\ b \in 1 .. k - 1 /\ a + 1 \in DOMAIN r /\ b + 1 \in DOMAIN r
          /\ u[a] = r[a + 1] /\ u[b] = r[b + 1]
      BY <1>3
    <2>2. a + 1 = b + 1
      BY <1>6, <2>1 DEF WorkSound
    <2> QED BY <2>1, <2>2
  <1>7. WorkSound(c, sn, o, j, u)
    BY <1>3, <1>4, <1>5, <1>6 DEF WorkSound, X
  <1>8. \A t : Linked(c.infos, o, u, t) = Linked(c.infos, o, r, t)
    BY <1>5 DEF Linked, Links
  <1> QED BY <1>2, <1>7, <1>8 DEF u

(* A refresh begins. *)
LEMMA RefreshBegins ==
  ASSUME NEW c \in Caches, NEW o, NEW j, NEW r, WorkSound(c, Idle, o, j, r)
  PROVE  WorkSound(c, ToSet(c.table), {}, j, r) /\ o = {}
  <1>1. ToSet(c.table) \in SUBSET (1 .. Len(c.infos))
    BY CacheTypes
  <1>2. o = {}
    BY DEF WorkSound
  <1>3. \A t \in ToSet(c.table) : ~Waiting(o, r, t)
    BY <1>1 DEF WorkSound
  <1>4. ToSet(c.table) # Idle
    BY <1>1 DEF Idle
  <1> QED BY <1>1, <1>2, <1>3, <1>4 DEF WorkSound

(* It deals with one entry, which it keeps or lets go of. *)
LEMMA RefreshLetsGo ==
  ASSUME NEW c \in Caches, NEW sn, NEW o, NEW j, NEW r, WorkSound(c, sn, o, j, r),
         sn # Idle, NEW x \in sn
  PROVE  WorkSound(c, sn \ {x}, o, j, r) /\ x \in 1 .. Len(c.infos)
  <1>1. sn \in SUBSET (1 .. Len(c.infos))
    BY DEF WorkSound
  <1>2. sn \ {x} # Idle
    BY <1>1 DEF Idle
  <1> QED BY <1>1, <1>2 DEF WorkSound

KeptAs(b, d, sn, o, j, r, x) ==
  /\ WorkSound(d, sn \ {x}, o \cup {x}, j, r)
  /\ x \notin o
  /\ \A t : Linked(d.infos, o \cup {x}, r, t) = Linked(b.infos, o, r, t) + B(t = d.infos[x].next)

LEMMA RefreshKeeps ==
  ASSUME NEW b, NEW d, NEW sn, NEW o, NEW j, NEW r, WorkSound(b, sn, o, j, r),
         sn # Idle, NEW x \in sn, Grows(b, d, {x}), x \notin ToSet(d.table),
         d.infos[x].next \in (0 .. Len(d.infos)) \ {x}
  PROVE  KeptAs(b, d, sn, o, j, r, x)
  <1> DEFINE n == Len(b.infos)
             m == Len(d.infos)
  <1>1. b \in Caches /\ d \in Caches
    BY DEF Grows
  <1>2. n \in Nat /\ m \in Nat /\ n <= m /\ DOMAIN b.infos = 1 .. n /\ DOMAIN d.infos = 1 .. m
    BY <1>1, CacheTypes DEF Grows
  <1>3. /\ j \in Seq(JobSet(n)) /\ r \in Seq(ResultSet(n)) /\ sn \in SUBSET (1 .. n)
        /\ o \in SUBSET (1 .. n) /\ ~Waiting(o, r, x)
    BY DEF WorkSound
  <1>4. \A t \in 1 .. n : t # x => d.infos[t].next = b.infos[t].next
    BY DEF Grows
  <1>5. \A t \in ToSet(d.table) : t \in ToSet(b.table) \/ t > n
    BY DEF Grows
  <1>6. d.infos[x].next \in (0 .. m) \ {x}
    OBVIOUS
  <1> HIDE DEF n, m
  <1>7. j \in Seq(JobSet(m)) /\ r \in Seq(ResultSet(m))
    BY <1>2, <1>3, SetsGrow, SeqGrows
  <1>8. sn \ {x} \in SUBSET (1 .. m) /\ o \cup {x} \in SUBSET (1 .. m) /\ sn \ {x} # Idle /\ x \in 1 .. n
    <2>1. 0 \notin 1 .. n
      OBVIOUS
    <2> QED BY <1>2, <1>3, <2>1 DEF Idle
  <1>9. \A t : Waiting(o, r, t) => t \in 1 .. n
    <2>1. \A i \in DOMAIN r : r[i].tis \in SUBSET (1 .. n)
      <3>1. \A i \in DOMAIN r : r[i] \in ResultSet(n)
        BY <1>3
      <3> QED BY <3>1, ResultShape
    <2> QED BY <1>3, <2>1 DEF Waiting, Refreshing
  <1>10. \A t : Waiting(o \cup {x}, r, t) <=> t = x \/ Waiting(o, r, t)
    BY DEF Waiting
  <1>11. ASSUME NEW t \in 1 .. m, Waiting(o \cup {x}, r, t)
         PROVE  t \notin ToSet(d.table) /\ d.infos[t].next \in (0 .. m) \ {t}
    <2>1. CASE t = x
      BY <2>1, <1>6
    <2>2. CASE t # x
      <3>1. t \in 1 .. n /\ Waiting(o, r, t)
        BY <1>9, <1>10, <1>11, <2>2
      <3>2. t \notin ToSet(b.table) /\ b.infos[t].next \in (0 .. n) \ {t}
        BY <3>1 DEF WorkSound, n
      <3>3. ~(t > n)
        BY <1>2, <3>1
      <3> QED BY <1>2, <1>4, <1>5, <2>2, <3>1, <3>2, <3>3
    <2> QED BY <2>1, <2>2
  <1>12. WorkSound(d, sn \ {x}, o \cup {x}, j, r)
    <2>1. \A t \in sn \ {x} : ~Waiting(o \cup {x}, r, t)
      BY <1>10 DEF WorkSound
    <2>2. \A t \in o \cup {x} : ~Refreshing(r, t)
      BY <1>3 DEF WorkSound, Waiting
    <2> QED BY <1>7, <1>8, <1>11, <2>1, <2>2 DEF WorkSound, m
  <1>13. ASSUME NEW t
         PROVE  Linked(d.infos, o \cup {x}, r, t) = Linked(b.infos, o, r, t) + B(t = d.infos[x].next)
    <2> DEFINE I == {old \in DOMAIN b.infos : b.infos[old].next = t /\ Waiting(o, r, old)}
               J == {old \in DOMAIN d.infos : d.infos[old].next = t /\ Waiting(o \cup {x}, r, old)}
    <2>00. b \in Caches
      BY <1>1
    <2>0. IsFiniteSet(I)
      <3>1. IsFiniteSet(Links(b.infos, o, r, t))
        BY ONLY <2>00, LinkedFinite
      <3> QED BY <3>1 DEF Links
    <2>1. IsFiniteSet(I) /\ Cardinality(I) \in Nat
      <3> HIDE DEF I
      <3> QED BY <2>0, FS_CardinalityType
    <2>2. 1 .. n \subseteq 1 .. m
      BY <1>2
    <2>3. CASE t = d.infos[x].next
      <3>1. J = I \cup {x} /\ x \notin I
        BY <2>2, <2>3, <1>2, <1>3, <1>4, <1>8, <1>9, <1>10
      <3> HIDE DEF I, J
      <3>2. Cardinality(J) = Cardinality(I) + 1
        BY <2>1, <3>1, FS_AddElement
      <3> QED BY <2>3, <3>2 DEF Linked, Links, B, I, J
    <2>4. CASE t # d.infos[x].next
      <3>1. J = I
        BY <2>2, <2>4, <1>2, <1>3, <1>4, <1>9, <1>10
      <3> HIDE DEF I, J
      <3>2. Cardinality(J) = Cardinality(I) + 0
        BY <2>1, <3>1
      <3> QED BY <2>4, <3>2 DEF Linked, Links, B, I, J
    <2> QED BY <2>3, <2>4
  <1>14. x \notin o
    BY <1>3 DEF Waiting
  <1> QED BY <1>12, <1>13, <1>14 DEF KeptAs

-----------------------------------------------------------------------------
(* The main thread's part of the state, and the invariant. *)
InLib(l, t) == \E f \in Names : l[f] = t
LibTrue(c, l) ==
  l \in [Names -> 0 .. Len(c.infos)] /\ \A f \in Names : l[f] # 0 => c.infos[l[f]].file = f
MainSound(c, l, hd, p, st, db) ==
  /\ LibTrue(c, l) /\ hd \in SUBSET (1 .. Len(c.infos))
  /\ p \in 0 .. Len(c.infos) /\ st \in 0 .. Len(c.infos) /\ db \in 0 .. Len(c.infos)

Mains(l, hd, p, st, t) == B(InLib(l, t)) + B(t \in hd) + B(p = t) + B(st = t)
Works(s, sn, o, j, r, t) ==
  B(t \in sn) + B(t \in o) + InJobs(j, t) + InResults(r, t) + Linked(s, o, r, t)

(* The table's references apart, an object has as many as owners. *)
Balanced(c, l, hd, p, st, db, sn, o, j, r) ==
  \A t \in Nat \ {0} :
    Excess(c, t) + B(db = t) = Mains(l, hd, p, st, t) + Works(c.infos, sn, o, j, r, t)

Images == [file : Names, mtime : Int, zero : BOOLEAN]
Saves == [file : Names \cup {NoFile}, lib_file : Names \cup {NoFile}]
KeptSound == disk \in [Files -> Int] /\ image \in Seq(Images) /\ saved \in Saves

CacheInv ==
  /\ Here \in Caches
  /\ MainSound(Here, lib, held, playing, stored, debt)
  /\ WorkSound(Here, snap, out, jobs, results)
  /\ KeptSound
  /\ Balanced(Here, lib, held, playing, stored, debt, snap, out, jobs, results)

LEMMA MainsType ==
  ASSUME NEW l, NEW hd, NEW p, NEW st, NEW t
  PROVE  Mains(l, hd, p, st, t) \in Int
  <1>1. B(InLib(l, t)) \in Int /\ B(t \in hd) \in Int /\ B(p = t) \in Int /\ B(st = t) \in Int
    BY DEF B
  <1> QED BY <1>1 DEF Mains

LEMMA WorksType ==
  ASSUME NEW c \in Caches, NEW sn, NEW o, NEW j, NEW r, WorkSound(c, sn, o, j, r), NEW t
  PROVE  Works(c.infos, sn, o, j, r, t) \in Int
  <1>1. B(t \in sn) \in Int /\ B(t \in o) \in Int
    BY DEF B
  <1>2. InJobs(j, t) \in Int /\ InResults(r, t) \in Int /\ Linked(c.infos, o, r, t) \in Int
    BY CountsTyped
  <1> QED BY <1>1, <1>2 DEF Works

LEMMA MainGrows ==
  ASSUME NEW b, NEW d, NEW S, Grows(b, d, S), NEW l, NEW hd, NEW p, NEW st, NEW db,
         MainSound(b, l, hd, p, st, db)
  PROVE  MainSound(d, l, hd, p, st, db)
  <1> DEFINE n == Len(b.infos)
             m == Len(d.infos)
  <1>1. b \in Caches /\ d \in Caches
    BY DEF Grows
  <1>2. n \in Nat /\ m \in Nat /\ n <= m
    BY <1>1, CacheTypes DEF Grows
  <1>3. \A t \in 1 .. n : d.infos[t].file = b.infos[t].file
    BY DEF Grows
  <1>4. /\ l \in [Names -> 0 .. n] /\ hd \in SUBSET (1 .. n) /\ p \in 0 .. n /\ st \in 0 .. n
        /\ db \in 0 .. n /\ \A f \in Names : l[f] # 0 => b.infos[l[f]].file = f
    BY DEF MainSound, LibTrue
  <1> HIDE DEF n, m
  <1>5. 0 .. n \subseteq 0 .. m /\ 1 .. n \subseteq 1 .. m
    BY <1>2
  <1>6. \A f \in Names : l[f] # 0 => d.infos[l[f]].file = f
    <2> SUFFICES ASSUME NEW f \in Names, l[f] # 0 PROVE d.infos[l[f]].file = f
      OBVIOUS
    <2>1. l[f] \in 1 .. n
      BY <1>2, <1>4
    <2> QED BY <1>3, <1>4, <2>1
  <1>7. l \in [Names -> 0 .. m]
    BY <1>4, <1>5
  <1>8. hd \in SUBSET (1 .. m) /\ p \in 0 .. m /\ st \in 0 .. m /\ db \in 0 .. m
    BY <1>4, <1>5
  <1> QED BY <1>6, <1>7, <1>8 DEF MainSound, LibTrue, m

(* The library and the references move together. *)
Moves(c, l, d, m) ==
  /\ Grows(c, d, {}) /\ Len(d.infos) = Len(c.infos) /\ LibTrue(d, m)
  /\ \A t \in Nat \ {0} : Excess(d, t) + B(InLib(l, t)) = Excess(c, t) + B(InLib(m, t))

LEMMA StaysMoved ==
  ASSUME NEW c \in Caches, NEW l, LibTrue(c, l)
  PROVE  Moves(c, l, c, l)
  BY GrowsSelf DEF Moves

LEMMA LibAdds ==
  ASSUME NEW c \in Caches, NEW l, LibTrue(c, l), NEW x \in 1 .. Len(c.infos)
  PROVE  Moves(c, l, Added(c, l, x)[1], Added(c, l, x)[2])
  <1> DEFINE g == c.infos[x].file
             d == Counted(c, {x}, 1)
             m == [l EXCEPT ![g] = x]
             n == Len(c.infos)
  <1>1. CASE l[g] # 0
    <2>1. Added(c, l, x) = <<c, l>>
      BY <1>1 DEF Added, Is
    <2> QED BY <2>1, StaysMoved
  <1>2. CASE l[g] = 0
    <2>1. Added(c, l, x) = <<d, m>>
      BY <1>2 DEF Added, Is, track_info_ref
    <2>2. /\ Grows(c, d, {}) /\ Len(d.infos) = n
          /\ \A t : Excess(d, t) = Excess(c, t) + IF t \in {x} /\ t \in 1 .. n THEN 1 ELSE 0
      BY CountedStep
    <2> HIDE DEF d
    <2>3. \A t \in 1 .. n : d.infos[t].file = c.infos[t].file
      BY <2>2 DEF Grows
    <2>4. g \in Names /\ n \in Nat
      BY CacheTypes
    <2>5. l \in [Names -> 0 .. n] /\ \A f \in Names : l[f] # 0 => c.infos[l[f]].file = f
      BY DEF LibTrue
    <2>6. c.infos[x].file = g /\ x \in 1 .. n /\ x \in 0 .. n /\ x # 0
      BY <2>4
    <2> HIDE DEF g, n
    <2>7. m \in [Names -> 0 .. n] /\ m[g] = x /\ \A f \in Names : f # g => m[f] = l[f]
      BY <2>4, <2>5, <2>6
    <2> HIDE DEF m
    <2>8. LibTrue(d, m)
      <3>1. ASSUME NEW f \in Names, m[f] # 0 PROVE d.infos[m[f]].file = f
        <4>1. CASE f = g
          BY <4>1, <2>3, <2>6, <2>7
        <4>2. CASE f # g
          <5>1. l[f] \in 1 .. n /\ m[f] = l[f]
            BY <2>4, <2>5, <2>7, <3>1, <4>2
          <5> QED BY <5>1, <2>3, <2>5, <3>1
        <4> QED BY <4>1, <4>2
      <3> QED BY <2>2, <2>7, <3>1 DEF LibTrue, n
    <2>9. ~InLib(l, x) /\ InLib(m, x)
      BY <1>2, <2>4, <2>5, <2>6, <2>7 DEF InLib
    <2>10. \A t \in Nat \ {0} : t # x => (InLib(m, t) <=> InLib(l, t))
      BY <1>2, <2>4, <2>7 DEF InLib
    <2>11. ASSUME NEW t \in Nat \ {0}
           PROVE  Excess(d, t) + B(InLib(l, t)) = Excess(c, t) + B(InLib(m, t))
      <3>1. Excess(c, t) \in Int
        BY ExcessType
      <3>2. CASE t = x
        BY <2>2, <2>6, <2>9, <3>1, <3>2 DEF B
      <3>3. CASE t # x
        BY <2>2, <2>10, <3>1, <3>3 DEF B
      <3> QED BY <3>2, <3>3
    <2> QED BY <2>1, <2>2, <2>8, <2>11 DEF Moves, n
  <1> QED BY <1>1, <1>2

LEMMA LibTakes ==
  ASSUME Here \in Caches, LibTrue(Here, lib), NEW x \in 1 .. Len(infos)
  PROVE  Moves(Here, lib, Taken(Here, x)[1], Taken(Here, x)[2])
  <1> DEFINE c == Here
             g == c.infos[x].file
             d == Counted(c, {x}, -1)
             m == [lib EXCEPT ![g] = 0]
             n == Len(c.infos)
  <1>0. c.infos = infos
    BY DEF Here
  <1>1. CASE lib[g] # x
    <2>1. Taken(Here, x) = <<Here, lib>>
      BY <1>0, <1>1 DEF Taken, Has
    <2> QED BY <2>1, StaysMoved
  <1>2. CASE lib[g] = x
    <2>1. Taken(Here, x) = <<d, m>>
      BY <1>0, <1>2 DEF Taken, Has, Is, track_info_unref
    <2>2. /\ Grows(c, d, {}) /\ Len(d.infos) = n
          /\ \A t : Excess(d, t) = Excess(c, t) + IF t \in {x} /\ t \in 1 .. n THEN -1 ELSE 0
      BY CountedStep
    <2> HIDE DEF d
    <2>3. \A t \in 1 .. n : d.infos[t].file = c.infos[t].file
      BY <2>2 DEF Grows
    <2>4. x \in 1 .. n
      BY <1>0
    <2>5. g \in Names /\ n \in Nat
      BY <2>4, CacheTypes
    <2>6. lib \in [Names -> 0 .. n] /\ \A f \in Names : lib[f] # 0 => c.infos[lib[f]].file = f
      BY DEF LibTrue
    <2>7. c.infos[x].file = g /\ x # 0 /\ 0 \in 0 .. n
      BY <2>4, <2>5
    <2>71. Here \in Caches
      OBVIOUS
    <2> HIDE DEF g, n, c
    <2>8. m \in [Names -> 0 .. n] /\ m[g] = 0 /\ \A f \in Names : f # g => m[f] = lib[f]
      BY <2>5, <2>6, <2>7
    <2> HIDE DEF m
    <2>9. LibTrue(d, m)
      <3>1. ASSUME NEW f \in Names, m[f] # 0 PROVE d.infos[m[f]].file = f
        <4>1. f # g
          BY <2>8, <3>1
        <4>2. lib[f] \in 1 .. n /\ m[f] = lib[f]
          BY <2>5, <2>6, <2>8, <3>1, <4>1
        <4> QED BY <4>2, <2>3, <2>6, <3>1
      <3> QED BY <2>2, <2>8, <3>1 DEF LibTrue, n
    <2>10. InLib(lib, x) /\ ~InLib(m, x)
      <3>1. ASSUME NEW f \in Names, m[f] = x PROVE FALSE
        BY <2>6, <2>7, <2>8, <3>1
      <3> QED BY <1>2, <2>5, <3>1 DEF InLib
    <2>11. \A t \in Nat \ {0} : t # x => (InLib(m, t) <=> InLib(lib, t))
      BY <1>2, <2>5, <2>8 DEF InLib
    <2>12. ASSUME NEW t \in Nat \ {0}
           PROVE  Excess(d, t) + B(InLib(lib, t)) = Excess(c, t) + B(InLib(m, t))
      <3>1. Excess(c, t) \in Int
        BY <2>71, ExcessType DEF c
      <3>2. CASE t = x
        BY <2>2, <2>4, <2>10, <3>1, <3>2 DEF B
      <3>3. CASE t # x
        BY <2>2, <2>11, <3>1, <3>3 DEF B
      <3> QED BY <3>2, <3>3
    <2> QED BY <2>1, <2>2, <2>9, <2>12 DEF Moves, n, c
  <1> QED BY <1>1, <1>2

LEMMA MovesOn ==
  ASSUME NEW b, NEW k, NEW c, NEW l, NEW d, NEW m, Moves(b, k, c, l), Moves(c, l, d, m)
  PROVE  Moves(b, k, d, m)
  <1>1. Grows(b, d, {} \cup {})
    BY GrowsOn DEF Moves
  <1>2. b \in Caches /\ c \in Caches /\ d \in Caches
    BY DEF Moves, Grows
  <1>3. ASSUME NEW t \in Nat \ {0}
        PROVE  Excess(d, t) + B(InLib(k, t)) = Excess(b, t) + B(InLib(m, t))
    <2>1. Excess(b, t) \in Int /\ Excess(c, t) \in Int /\ Excess(d, t) \in Int
      BY <1>2, ExcessType
    <2>2. B(InLib(k, t)) \in Int /\ B(InLib(l, t)) \in Int /\ B(InLib(m, t)) \in Int
      BY DEF B
    <2>3. /\ Excess(c, t) + B(InLib(k, t)) = Excess(b, t) + B(InLib(l, t))
          /\ Excess(d, t) + B(InLib(l, t)) = Excess(c, t) + B(InLib(m, t))
      BY DEF Moves
    <2> QED BY <2>1, <2>2, <2>3 DEF B
  <1> QED BY <1>1, <1>3 DEF Moves

-----------------------------------------------------------------------------
(* The steps of the worker. *)

(* The cache and the worker's part change by the same. *)
LEMMA WorkerStep ==
  ASSUME CacheInv, Here' \in Caches, NEW S, Grows(Here, Here', S),
         WorkSound(Here', snap', out', jobs', results'), UNCHANGED users, KeptSound',
         \A t \in Nat \ {0} :
           Excess(Here', t) + Works(infos, snap, out, jobs, results, t)
             = Excess(Here, t) + Works(infos', snap', out', jobs', results', t)
  PROVE  CacheInv'
  <1>1. /\ lib' = lib /\ held' = held /\ playing' = playing /\ stored' = stored /\ debt' = debt
    BY DEF users
  <1>2. MainSound(Here', lib, held, playing, stored, debt)
    BY MainGrows DEF CacheInv
  <1>3. Here.infos = infos /\ Here'.infos = infos'
    BY DEF Here
  <1>4. ASSUME NEW t \in Nat \ {0}
        PROVE  Excess(Here', t) + B(debt = t)
                 = Mains(lib, held, playing, stored, t) + Works(infos', snap', out', jobs', results', t)
    <2> DEFINE e == Excess(Here, t)
               e1 == Excess(Here', t)
               w == Works(infos, snap, out, jobs, results, t)
               w1 == Works(infos', snap', out', jobs', results', t)
               m == Mains(lib, held, playing, stored, t)
               d == B(debt = t)
    <2>1. e \in Int /\ e1 \in Int
      BY ExcessType DEF CacheInv
    <2>2. w \in Int /\ w1 \in Int
      BY <1>3, WorksType DEF CacheInv
    <2>3. m \in Int /\ d \in Int
      BY MainsType DEF B
    <2>4. e1 + w = e + w1
      OBVIOUS
    <2>5. e + d = m + w
      BY <1>3 DEF CacheInv, Balanced
    <2> HIDE DEF e, e1, w, w1, m, d
    <2>6. e1 + d = m + w1
      BY <2>1, <2>2, <2>3, <2>4, <2>5
    <2> QED BY <2>6 DEF e1, w1, m, d
  <1>5. Balanced(Here', lib, held, playing, stored, debt, snap', out', jobs', results')
    BY <1>3, <1>4 DEF Balanced
  <1>6. KeptSound'
    OBVIOUS
  <1> QED BY <1>1, <1>2, <1>5, <1>6 DEF CacheInv

(* What the cache file and the resume file hold changes at the end only. *)
LEMMA KeptStays ==
  ASSUME CacheInv, UNCHANGED <<disk, image, saved>>
  PROVE  KeptSound'
  BY DEF CacheInv, KeptSound

LEMMA PutMeans ==
  ASSUME NEW c, Put(c), c \in Caches
  PROVE  Here' = c
  <1>1. infos' = c.infos /\ table' = c.table
    BY DEF Put
  <1>2. c = [infos |-> c.infos, table |-> c.table]
    BY DEF Caches
  <1> QED BY <1>1, <1>2 DEF Here

LEMMA InvParts ==
  ASSUME CacheInv
  PROVE  /\ Here \in Caches /\ Here.infos = infos /\ Here.table = table
         /\ infos \in Seq(Infos) /\ Len(infos) \in Nat
         /\ MainSound(Here, lib, held, playing, stored, debt)
         /\ WorkSound(Here, snap, out, jobs, results)
         /\ disk \in [Files -> Int] /\ image \in Seq(Images) /\ saved \in Saves
         /\ LibTrue(Here, lib) /\ held \in SUBSET (1 .. Len(infos))
         /\ playing \in 0 .. Len(infos) /\ stored \in 0 .. Len(infos) /\ debt \in 0 .. Len(infos)
         /\ lib \in [Names -> 0 .. Len(infos)]
  <1>1. Here \in Caches /\ Here.infos = infos /\ Here.table = table
    BY DEF CacheInv, Here
  <1>2. infos \in Seq(Infos) /\ Len(infos) \in Nat
    BY <1>1, CacheTypes
  <1> QED BY <1>1, <1>2 DEF CacheInv, KeptSound, MainSound, LibTrue

LEMMA JobShape ==
  ASSUME NEW n, NEW x \in JobSet(n)
  PROVE  /\ x.kind \in {"add", "update", "refresh"}
         /\ x.kind = "add" => x.file \in Names
         /\ x.kind = "update" => x.tis \in SUBSET (1 .. n)
  BY DEF JobSet

LEMMA AddWorks ==
  ASSUME CacheInv, W_add
  PROVE  CacheInv'
  <1>1. PICK got \in cache_get_ti(Here, jobs[1].file, jobs[1].force) :
          /\ Put(got[1])
          /\ IF got[2] = 0 THEN UNCHANGED results
             ELSE push([kind |-> "add", tis |-> {got[2]}])
    BY DEF W_add
  <1>2. /\ jobs # <<>> /\ jobs[1].kind = "add" /\ jobs' = Tail(jobs) /\ UNCHANGED users
        /\ UNCHANGED <<disk, image, saved>> /\ snap' = snap /\ out' = out
    BY DEF W_add
  <1> DEFINE c == got[1]
             n == got[2]
             x == [kind |-> "add", tis |-> {n}]
             r == IF n = 0 THEN results ELSE Append(results, x)
  <1>3. Here \in Caches /\ disk \in [Files -> Int] /\ WorkSound(Here, snap, out, jobs, results)
        /\ Here.infos = infos
    BY InvParts
  <1>4. /\ WorkSound(Here, snap, out, Tail(jobs), results)
        /\ jobs[1] \in JobSet(Len(Here.infos))
        /\ \A t : InJobs(jobs, t) = InJobs(Tail(jobs), t) + B(Updates(jobs[1], t))
    BY <1>2, <1>3, JobDone
  <1>5. jobs[1].file \in Names
    BY <1>2, <1>4, JobShape
  <1>6. Gets(Here, c, n, jobs[1].file)
    BY <1>3, <1>5, CacheGets
  <1> HIDE DEF c, n
  <1>7. /\ Grows(Here, c, {}) /\ n \in 0 .. Len(c.infos)
        /\ \A t \in Nat \ {0} : Excess(c, t) = Excess(Here, t) + B(t = n)
    BY <1>6 DEF Gets
  <1>8. c \in Caches /\ Len(c.infos) \in Nat
    BY <1>7, CacheTypes DEF Grows
  <1>9. Here' = c /\ infos' = c.infos
    BY <1>1, <1>8, PutMeans DEF c, Put
  <1>10. results' = r
    BY <1>1 DEF push, n
  <1>11. /\ WorkSound(c, snap, out, Tail(jobs), results)
         /\ \A t : Linked(c.infos, out, results, t) = Linked(Here.infos, out, results, t)
    BY <1>4, <1>7, WorkGrows
  <1>12. /\ WorkSound(c, snap, out, Tail(jobs), r)
         /\ \A t \in Nat \ {0} : InResults(r, t) = InResults(results, t) + B(t = n)
         /\ \A t : Linked(c.infos, out, r, t) = Linked(c.infos, out, results, t)
    <2>1. CASE n = 0
      <3>1. \A t \in Nat \ {0} : InResults(results, t) \in Nat
        BY <1>3, CountsTyped
      <3> QED BY <2>1, <3>1, <1>11 DEF B
    <2>2. CASE n # 0
      <3> DEFINE j == Tail(jobs)
      <3>1. x \in ResultSet(Len(c.infos)) /\ x.kind # "refresh" /\ x.tis = {n}
        BY <1>7, <1>8, <2>2 DEF ResultSet
      <3>2. WorkSound(c, snap, out, j, results)
        BY <1>11
      <3> HIDE DEF x, j
      <3>3. /\ WorkSound(c, snap, out, j, Append(results, x))
            /\ \A t : InResults(Append(results, x), t) = InResults(results, t) + B(t \in x.tis)
            /\ \A t : Linked(c.infos, out, Append(results, x), t) = Linked(c.infos, out, results, t)
        BY <1>8, <3>1, <3>2, ResultPushed
      <3>4. \A t : B(t \in x.tis) = B(t = n)
        BY <3>1 DEF B
      <3>5. r = Append(results, x)
        BY <2>2 DEF x
      <3> QED BY <3>3, <3>4, <3>5 DEF j
    <2> QED BY <2>1, <2>2
  <1> HIDE DEF r
  <1>13. ASSUME NEW t \in Nat \ {0}
         PROVE  Excess(c, t) + Works(infos, snap, out, jobs, results, t)
                  = Excess(Here, t) + Works(c.infos, snap, out, Tail(jobs), r, t)
    <2> DEFINE b == B(t = n)
               s1 == B(t \in snap)
               s2 == B(t \in out)
    <2>1. /\ Excess(Here, t) \in Int /\ InJobs(jobs, t) \in Nat /\ InResults(results, t) \in Nat
          /\ Linked(infos, out, results, t) \in Nat /\ InJobs(Tail(jobs), t) \in Nat
      BY <1>3, <1>4, ExcessType, CountsTyped
    <2>2. b \in Int /\ s1 \in Int /\ s2 \in Int
      BY DEF B
    <2>3. InJobs(jobs, t) = InJobs(Tail(jobs), t) + 0
      BY <1>2, <1>4 DEF B, Updates
    <2>4. /\ Excess(c, t) = Excess(Here, t) + b /\ InResults(r, t) = InResults(results, t) + b
          /\ Linked(c.infos, out, r, t) = Linked(infos, out, results, t)
      BY <1>3, <1>7, <1>11, <1>12
    <2>5. /\ Works(infos, snap, out, jobs, results, t)
               = s1 + s2 + InJobs(jobs, t) + InResults(results, t) + Linked(infos, out, results, t)
          /\ Works(c.infos, snap, out, Tail(jobs), r, t)
               = s1 + s2 + InJobs(Tail(jobs), t) + InResults(r, t) + Linked(c.infos, out, r, t)
      BY DEF Works
    <2> HIDE DEF b, s1, s2
    <2> QED BY <2>1, <2>2, <2>3, <2>4, <2>5
  <1>14. KeptSound'
    BY <1>2, KeptStays
  <1>15. WorkSound(Here', snap', out', jobs', results')
    BY <1>2, <1>9, <1>10, <1>12
  <1>16. \A t \in Nat \ {0} :
           Excess(Here', t) + Works(infos, snap, out, jobs, results, t)
             = Excess(Here, t) + Works(infos', snap', out', jobs', results', t)
    BY <1>2, <1>9, <1>10, <1>13
  <1>17. Here' \in Caches /\ Grows(Here, Here', {})
    BY <1>7, <1>8, <1>9
  <1> QED BY <1>2, <1>14, <1>15, <1>16, <1>17, WorkerStep

(* One term of the balance after another. *)
LEMMA WorkTerms ==
  ASSUME NEW c \in Caches, NEW sn, NEW o, NEW j, NEW r, WorkSound(c, sn, o, j, r), NEW t
  PROVE  /\ Excess(c, t) \in Int /\ InJobs(j, t) \in Int /\ InResults(r, t) \in Int
         /\ Linked(c.infos, o, r, t) \in Int /\ B(t \in sn) \in Int /\ B(t \in o) \in Int
  <1>1. B(t \in sn) \in Int /\ B(t \in o) \in Int
    BY DEF B
  <1>2. InJobs(j, t) \in Int /\ InResults(r, t) \in Int /\ Linked(c.infos, o, r, t) \in Int
    BY CountsTyped
  <1> QED BY <1>1, <1>2, ExcessType

LEMMA UpdateWorks ==
  ASSUME CacheInv, W_update
  PROVE  CacheInv'
  <1> DEFINE b == Here
             tis == jobs[1].tis
             dirty == {ti \in tis : Dirty(ti)}
             clean == tis \ dirty
             gone == {ti \in dirty : infos[ti].file \in Files /\ disk[infos[ti].file] = 0}
             x == [kind |-> "update", tis |-> dirty, gone |-> gone]
             c == Counted(b, clean, -1)
             j == Tail(jobs)
             r == Append(results, x)
             n == Len(b.infos)
  <1>1. /\ jobs # <<>> /\ jobs[1].kind = "update" /\ Put(c) /\ results' = r /\ jobs' = j
        /\ UNCHANGED users /\ UNCHANGED <<disk, image, saved>> /\ snap' = snap /\ out' = out
    BY DEF W_update, push
  <1>2. b \in Caches /\ b.infos = infos /\ WorkSound(b, snap, out, jobs, results)
    BY InvParts
  <1>3. /\ WorkSound(b, snap, out, j, results) /\ jobs[1] \in JobSet(n)
        /\ \A t : InJobs(jobs, t) = InJobs(j, t) + B(Updates(jobs[1], t))
    BY <1>1, <1>2, JobDone
  <1>4. tis \in SUBSET (1 .. n)
    BY <1>1, <1>3, JobShape
  <1>5. \A t : B(Updates(jobs[1], t)) = B(t \in tis)
    BY <1>1 DEF Updates, B
  <1>6. dirty \in SUBSET (1 .. n) /\ gone \in SUBSET (1 .. n)
    BY <1>4
  <1>7. \A t : B(t \in tis) = B(t \in dirty) + (IF t \in clean /\ t \in 1 .. n THEN 1 ELSE 0)
    BY <1>4 DEF B
  <1> HIDE DEF tis, gone
  <1>8. x \in ResultSet(n) /\ x.kind # "refresh" /\ x.tis = dirty
    BY <1>6 DEF ResultSet
  <1> HIDE DEF dirty, x, clean, b
  <1>9. /\ Grows(b, c, {})
        /\ \A t : Excess(c, t) = Excess(b, t) + IF t \in clean /\ t \in 1 .. n THEN -1 ELSE 0
    BY <1>2, CountedStep
  <1> HIDE DEF c, j, n
  <1>10. /\ WorkSound(b, snap, out, j, r)
         /\ \A t : InResults(r, t) = InResults(results, t) + B(t \in dirty)
         /\ \A t : Linked(b.infos, out, r, t) = Linked(b.infos, out, results, t)
    BY <1>2, <1>3, <1>8, ResultPushed DEF n
  <1> HIDE DEF r
  <1>11. /\ WorkSound(c, snap, out, j, r)
         /\ \A t : Linked(c.infos, out, r, t) = Linked(b.infos, out, r, t)
    BY <1>9, <1>10, WorkGrows
  <1>12. c \in Caches
    BY <1>9 DEF Grows
  <1>13. Here' = c /\ infos' = c.infos
    BY <1>1, <1>12, PutMeans DEF Put
  <1>14. ASSUME NEW t \in Nat \ {0}
         PROVE  Excess(c, t) + Works(infos, snap, out, jobs, results, t)
                  = Excess(b, t) + Works(c.infos, snap, out, j, r, t)
    <2> DEFINE k == IF t \in clean /\ t \in 1 .. n THEN 1 ELSE 0
               d == B(t \in dirty)
               s1 == B(t \in snap)
               s2 == B(t \in out)
    <2>1. /\ Excess(b, t) \in Int /\ InJobs(j, t) \in Int /\ InResults(results, t) \in Int
          /\ Linked(b.infos, out, results, t) \in Int /\ s1 \in Int /\ s2 \in Int
      BY <1>2, <1>3, WorkTerms
    <2>2. d \in Int /\ k \in Int
      BY DEF B
    <2>3. InJobs(jobs, t) = InJobs(j, t) + d + k
      BY <1>3, <1>5, <1>7, <2>1, <2>2
    <2>4. Excess(c, t) = Excess(b, t) - k
      BY <1>9, <2>1
    <2>5. InResults(r, t) = InResults(results, t) + d
      BY <1>10
    <2>6. Linked(c.infos, out, r, t) = Linked(b.infos, out, results, t)
      BY <1>10, <1>11
    <2>7. /\ Works(infos, snap, out, jobs, results, t)
               = s1 + s2 + InJobs(jobs, t) + InResults(results, t) + Linked(b.infos, out, results, t)
          /\ Works(c.infos, snap, out, j, r, t)
               = s1 + s2 + InJobs(j, t) + InResults(r, t) + Linked(c.infos, out, r, t)
      BY <1>2 DEF Works
    <2> HIDE DEF k, d, s1, s2
    <2> QED BY <2>1, <2>2, <2>3, <2>4, <2>5, <2>6, <2>7
  <1>15. KeptSound'
    BY <1>1, KeptStays
  <1> QED BY <1>1, <1>9, <1>11, <1>12, <1>13, <1>14, <1>15, WorkerStep DEF b

LEMMA RefreshStarts ==
  ASSUME CacheInv, get_track_infos
  PROVE  CacheInv'
  <1> DEFINE b == Here
             S == ToSet(table)
             c == Counted(b, S, 1)
             n == Len(b.infos)
  <1>1. /\ snap = Idle /\ Put(c) /\ results' = results /\ jobs' = jobs
        /\ UNCHANGED users /\ UNCHANGED <<disk, image, saved>> /\ snap' = S /\ out' = {}
    BY DEF get_track_infos
  <1>2. /\ b \in Caches /\ b.infos = infos /\ b.table = table
        /\ WorkSound(b, snap, out, jobs, results) /\ n \in Nat
    BY InvParts, CacheTypes
  <1>3. WorkSound(b, S, {}, jobs, results) /\ out = {}
    BY <1>1, <1>2, RefreshBegins
  <1>4. S \subseteq 1 .. n
    BY <1>2, CacheTypes
  <1> HIDE DEF b, S
  <1>5. /\ Grows(b, c, {})
        /\ \A t : Excess(c, t) = Excess(b, t) + IF t \in S /\ t \in 1 .. n THEN 1 ELSE 0
    BY <1>2, CountedStep
  <1> HIDE DEF c, n
  <1>6. /\ WorkSound(c, S, {}, jobs, results)
        /\ \A t : Linked(c.infos, {}, results, t) = Linked(b.infos, {}, results, t)
    BY <1>3, <1>5, WorkGrows
  <1>7. c \in Caches
    BY <1>5 DEF Grows
  <1>8. Here' = c /\ infos' = c.infos
    BY <1>1, <1>7, PutMeans DEF Put
  <1>9. ASSUME NEW t \in Nat \ {0}
        PROVE  Excess(c, t) + Works(infos, snap, out, jobs, results, t)
                 = Excess(b, t) + Works(c.infos, S, {}, jobs, results, t)
    <2> DEFINE s1 == B(t \in S)
               s2 == B(t \in {})
               s0 == B(t \in snap)
    <2>1. /\ Excess(b, t) \in Int /\ InJobs(jobs, t) \in Int /\ InResults(results, t) \in Int
          /\ Linked(b.infos, {}, results, t) \in Int /\ s1 \in Int /\ s2 \in Int
      BY <1>2, <1>3, WorkTerms
    <2>2. s0 = 0 /\ s2 = 0
      BY <1>1 DEF B, Idle
    <2>3. Excess(c, t) = Excess(b, t) + s1
      BY <1>4, <1>5 DEF B
    <2>4. Linked(c.infos, {}, results, t) = Linked(b.infos, {}, results, t)
      BY <1>6
    <2>5. /\ Works(infos, snap, out, jobs, results, t)
               = s0 + s2 + InJobs(jobs, t) + InResults(results, t) + Linked(b.infos, {}, results, t)
          /\ Works(c.infos, S, {}, jobs, results, t)
               = s1 + s2 + InJobs(jobs, t) + InResults(results, t) + Linked(c.infos, {}, results, t)
      BY <1>2, <1>3 DEF Works
    <2> HIDE DEF s0, s1, s2
    <2> QED BY <2>1, <2>2, <2>3, <2>4, <2>5
  <1>10. KeptSound'
    BY <1>1, KeptStays
  <1> QED BY <1>1, <1>5, <1>6, <1>7, <1>8, <1>9, <1>10, WorkerStep DEF b

LEMMA RefreshWorks ==
  ASSUME CacheInv, W_refresh
  PROVE  CacheInv'
  <1>1. PICK x \in snap : \E f \in Refreshed(x, jobs[1].force) :
          /\ Put(f[1]) /\ out' = (IF f[2] THEN out \cup {x} ELSE out) /\ snap' = snap \ {x}
    BY DEF W_refresh
  <1>2. PICK fate \in Refreshed(x, jobs[1].force) :
          /\ Put(fate[1]) /\ out' = (IF fate[2] THEN out \cup {x} ELSE out) /\ snap' = snap \ {x}
    BY <1>1
  <1>3. /\ snap # Idle /\ jobs' = jobs /\ results' = results
        /\ UNCHANGED users /\ UNCHANGED <<disk, image, saved>>
    BY DEF W_refresh
  <1> DEFINE b == Here
             c == fate[1]
             S == snap \ {x}
             y == c.infos[x].next
  <1>4. /\ b \in Caches /\ b.infos = infos /\ disk \in [Files -> Int]
        /\ WorkSound(b, snap, out, jobs, results)
    BY InvParts
  <1>5. WorkSound(b, S, out, jobs, results) /\ x \in 1 .. Len(b.infos)
    BY <1>3, <1>4, RefreshLetsGo
  <1>6. Outcome(b, fate, x)
    BY <1>4, <1>5, Refreshes
  <1>7. KeptSound'
    BY <1>3, KeptStays
  <1>8. CASE fate[2]
    <2> DEFINE o == out \cup {x}
    <2>1. /\ Grows(b, c, {x}) /\ x \notin ToSet(c.table) /\ y \in (0 .. Len(c.infos)) \ {x}
          /\ \A t \in Nat \ {0} : Excess(c, t) = Excess(b, t) + B(t = y)
      BY <1>6, <1>8 DEF Outcome
    <2> HIDE DEF b, c
    <2>2. /\ WorkSound(c, S, o, jobs, results) /\ x \notin out
          /\ \A t : Linked(c.infos, o, results, t) = Linked(b.infos, out, results, t) + B(t = y)
      <3>1. snap # Idle /\ WorkSound(b, snap, out, jobs, results) /\ x \in snap
        BY <1>3, <1>4
      <3>2. Grows(b, c, {x}) /\ x \notin ToSet(c.table) /\ c.infos[x].next \in (0 .. Len(c.infos)) \ {x}
        BY <2>1
      <3>3. KeptAs(b, c, snap, out, jobs, results, x)
        BY <3>1, <3>2, RefreshKeeps
      <3> QED BY <3>3 DEF KeptAs
    <2>3. c \in Caches
      BY <2>1 DEF Grows
    <2>4. Here' = c /\ infos' = c.infos /\ out' = o /\ snap' = S
      BY <1>2, <1>8, <2>3, PutMeans DEF Put, c
    <2>5. ASSUME NEW t \in Nat \ {0}
          PROVE  Excess(c, t) + Works(infos, snap, out, jobs, results, t)
                   = Excess(b, t) + Works(c.infos, S, o, jobs, results, t)
      <3> DEFINE s0 == B(t \in snap)
                 s1 == B(t \in S)
                 o0 == B(t \in out)
                 o1 == B(t \in o)
                 k == B(t = y)
      <3>1. /\ Excess(b, t) \in Int /\ InJobs(jobs, t) \in Int /\ InResults(results, t) \in Int
            /\ Linked(b.infos, out, results, t) \in Int /\ s0 \in Int /\ o0 \in Int
        BY <1>4, WorkTerms
      <3>2. k \in Int
        BY DEF B
      <3>3. s0 + o0 = s1 + o1 /\ s1 \in Int /\ o1 \in Int
        BY <2>2 DEF B
      <3>4. Excess(c, t) = Excess(b, t) + k
        BY <2>1
      <3>5. Linked(c.infos, o, results, t) = Linked(b.infos, out, results, t) + k
        BY <2>2
      <3>6. /\ Works(infos, snap, out, jobs, results, t)
                 = s0 + o0 + InJobs(jobs, t) + InResults(results, t) + Linked(b.infos, out, results, t)
            /\ Works(c.infos, S, o, jobs, results, t)
                 = s1 + o1 + InJobs(jobs, t) + InResults(results, t) + Linked(c.infos, o, results, t)
        BY <1>4 DEF Works
      <3> HIDE DEF s0, s1, o0, o1, k
      <3> QED BY <3>1, <3>2, <3>3, <3>4, <3>5, <3>6
    <2> HIDE DEF S, o
    <2> QED BY <1>3, <1>7, <2>1, <2>2, <2>3, <2>4, <2>5, WorkerStep DEF b
  <1>9. CASE ~fate[2]
    <2>1. /\ Grows(b, c, {})
          /\ \A t \in Nat \ {0} : Excess(c, t) = Excess(b, t) - B(t = x)
      BY <1>6, <1>9 DEF Outcome
    <2> HIDE DEF b, c
    <2>2. /\ WorkSound(c, S, out, jobs, results)
          /\ \A t : Linked(c.infos, out, results, t) = Linked(b.infos, out, results, t)
      BY <1>5, <2>1, WorkGrows
    <2>3. c \in Caches
      BY <2>1 DEF Grows
    <2>4. Here' = c /\ infos' = c.infos /\ out' = out /\ snap' = S
      BY <1>2, <1>9, <2>3, PutMeans DEF Put, c
    <2>5. ASSUME NEW t \in Nat \ {0}
          PROVE  Excess(c, t) + Works(infos, snap, out, jobs, results, t)
                   = Excess(b, t) + Works(c.infos, S, out, jobs, results, t)
      <3> DEFINE s0 == B(t \in snap)
                 s1 == B(t \in S)
                 o0 == B(t \in out)
                 k == B(t = x)
      <3>1. /\ Excess(b, t) \in Int /\ InJobs(jobs, t) \in Int /\ InResults(results, t) \in Int
            /\ Linked(b.infos, out, results, t) \in Int /\ s0 \in Int /\ o0 \in Int
        BY <1>4, WorkTerms
      <3>2. s0 = s1 + k /\ s1 \in Int /\ k \in Int
        BY DEF B
      <3>3. Excess(c, t) = Excess(b, t) - k
        BY <2>1
      <3>4. Linked(c.infos, out, results, t) = Linked(b.infos, out, results, t)
        BY <2>2
      <3>5. /\ Works(infos, snap, out, jobs, results, t)
                 = s0 + o0 + InJobs(jobs, t) + InResults(results, t) + Linked(b.infos, out, results, t)
            /\ Works(c.infos, S, out, jobs, results, t)
                 = s1 + o0 + InJobs(jobs, t) + InResults(results, t) + Linked(c.infos, out, results, t)
        BY <1>4 DEF Works
      <3> HIDE DEF s0, s1, o0, k
      <3> QED BY <3>1, <3>2, <3>3, <3>4, <3>5
    <2> HIDE DEF S
    <2> QED BY <1>3, <1>7, <2>1, <2>2, <2>3, <2>4, <2>5, WorkerStep DEF b
  <1> QED BY <1>8, <1>9

LEMMA RefreshEnds ==
  ASSUME CacheInv, W_refreshed
  PROVE  CacheInv'
  <1> DEFINE b == Here
             x == [kind |-> "refresh", tis |-> out]
             r == Append(results, x)
             j == Tail(jobs)
  <1>1. /\ jobs # <<>> /\ jobs[1].kind = "refresh" /\ snap = {} /\ results' = r /\ jobs' = j
        /\ UNCHANGED users /\ UNCHANGED <<disk, image, saved>> /\ snap' = Idle /\ out' = {}
        /\ infos' = infos /\ table' = table
    BY DEF W_refreshed, push
  <1>2. b \in Caches /\ b.infos = infos /\ WorkSound(b, {}, out, jobs, results)
    BY <1>1, InvParts
  <1>3. Here' = b
    BY <1>1 DEF Here
  <1> HIDE DEF b
  <1>4. /\ WorkSound(b, Idle, {}, jobs, r)
        /\ \A t : InResults(r, t) = InResults(results, t) + B(t \in out)
        /\ \A t : Linked(b.infos, {}, r, t) = Linked(b.infos, out, results, t)
    BY <1>2, RefreshPushed
  <1> HIDE DEF r, x
  <1>5. /\ WorkSound(b, Idle, {}, j, r)
        /\ \A t : InJobs(jobs, t) = InJobs(j, t) + B(Updates(jobs[1], t))
    BY <1>1, <1>2, <1>4, JobDone
  <1> HIDE DEF j
  <1>6. ASSUME NEW t \in Nat \ {0}
        PROVE  Excess(b, t) + Works(infos, snap, out, jobs, results, t)
                 = Excess(b, t) + Works(infos, Idle, {}, j, r, t)
    <2> DEFINE o0 == B(t \in out)
               s0 == B(t \in snap)
               s1 == B(t \in Idle)
               o1 == B(t \in {})
    <2>1. /\ Excess(b, t) \in Int /\ InResults(results, t) \in Int
          /\ Linked(b.infos, out, results, t) \in Int /\ o0 \in Int
      BY <1>2, WorkTerms
    <2>2. InJobs(j, t) \in Int
      BY <1>2, <1>5, WorkTerms
    <2>3. s0 = 0 /\ s1 = 0 /\ o1 = 0
      BY <1>1 DEF B, Idle
    <2>4. InJobs(jobs, t) = InJobs(j, t)
      BY <1>1, <1>5, <2>2 DEF B, Updates
    <2>5. InResults(r, t) = InResults(results, t) + o0
      BY <1>4
    <2>6. Linked(b.infos, {}, r, t) = Linked(b.infos, out, results, t)
      BY <1>4
    <2>7. /\ Works(infos, snap, out, jobs, results, t)
               = s0 + o0 + InJobs(jobs, t) + InResults(results, t) + Linked(b.infos, out, results, t)
          /\ Works(infos, Idle, {}, j, r, t)
               = s1 + o1 + InJobs(j, t) + InResults(r, t) + Linked(b.infos, {}, r, t)
      BY <1>2 DEF Works
    <2> HIDE DEF o0, s0, s1, o1
    <2> QED BY <2>1, <2>2, <2>3, <2>4, <2>5, <2>6, <2>7
  <1>7. KeptSound'
    BY <1>1, KeptStays
  <1>8. Grows(b, b, {})
    BY <1>2, GrowsSelf
  <1> QED BY <1>1, <1>2, <1>3, <1>5, <1>6, <1>7, <1>8, WorkerStep DEF b

-----------------------------------------------------------------------------
(* The steps of the main thread. *)

(* What changes in the cache, the users and the worker's part adds up. *)
LEMMA MainStep ==
  ASSUME CacheInv, Here' \in Caches, KeptSound',
         MainSound(Here', lib', held', playing', stored', debt'),
         WorkSound(Here', snap', out', jobs', results'),
         \A t \in Nat \ {0} :
           Excess(Here', t) + B(debt' = t) + Mains(lib, held, playing, stored, t)
               + Works(infos, snap, out, jobs, results, t)
             = Excess(Here, t) + B(debt = t) + Mains(lib', held', playing', stored', t)
               + Works(infos', snap', out', jobs', results', t)
  PROVE  CacheInv'
  <1>1. Here.infos = infos /\ Here'.infos = infos'
    BY DEF Here
  <1>2. ASSUME NEW t \in Nat \ {0}
        PROVE  Excess(Here', t) + B(debt' = t)
                 = Mains(lib', held', playing', stored', t)
                     + Works(infos', snap', out', jobs', results', t)
    <2> DEFINE e == Excess(Here, t)
               e1 == Excess(Here', t)
               w == Works(infos, snap, out, jobs, results, t)
               w1 == Works(infos', snap', out', jobs', results', t)
               m == Mains(lib, held, playing, stored, t)
               m1 == Mains(lib', held', playing', stored', t)
               d == B(debt = t)
               d1 == B(debt' = t)
    <2>1. e \in Int /\ e1 \in Int
      BY ExcessType DEF CacheInv
    <2>2. w \in Int /\ w1 \in Int
      BY <1>1, WorksType DEF CacheInv
    <2>3. m \in Int /\ m1 \in Int /\ d \in Int /\ d1 \in Int
      BY MainsType DEF B
    <2>4. e1 + d1 + m + w = e + d + m1 + w1
      OBVIOUS
    <2>5. e + d = m + w
      BY <1>1 DEF CacheInv, Balanced
    <2> HIDE DEF e, e1, w, w1, m, m1, d, d1
    <2>6. e1 + d1 = m1 + w1
      BY <2>1, <2>2, <2>3, <2>4, <2>5
    <2> QED BY <2>6 DEF e1, w1, m1, d1
  <1>3. Balanced(Here', lib', held', playing', stored', debt', snap', out', jobs', results')
    BY <1>1, <1>2 DEF Balanced
  <1> QED BY <1>3 DEF CacheInv

(* Users of objects change, not the worker's part. *)
LEMMA UserStep ==
  ASSUME CacheInv, NEW c, Put(c), Grows(Here, c, {}), UNCHANGED work, KeptSound',
         MainSound(c, lib', held', playing', stored', debt'),
         \A t \in Nat \ {0} :
           Excess(c, t) + B(debt' = t) + Mains(lib, held, playing, stored, t)
             = Excess(Here, t) + B(debt = t) + Mains(lib', held', playing', stored', t)
  PROVE  CacheInv'
  <1>1. c \in Caches
    BY DEF Grows
  <1>2. Here' = c /\ infos' = c.infos
    BY <1>1, PutMeans DEF Put
  <1>3. /\ snap' = snap /\ out' = out /\ jobs' = jobs /\ results' = results
    BY DEF work
  <1>4. Here \in Caches /\ Here.infos = infos /\ WorkSound(Here, snap, out, jobs, results)
    BY InvParts
  <1>5. /\ WorkSound(c, snap, out, jobs, results)
        /\ \A t : Linked(c.infos, out, results, t) = Linked(Here.infos, out, results, t)
    BY <1>4, WorkGrows
  <1>6. ASSUME NEW t
        PROVE  Works(infos', snap', out', jobs', results', t) = Works(infos, snap, out, jobs, results, t)
    BY <1>2, <1>3, <1>4, <1>5 DEF Works
  <1>7. ASSUME NEW t \in Nat \ {0}
        PROVE  Excess(Here', t) + B(debt' = t) + Mains(lib, held, playing, stored, t)
                   + Works(infos, snap, out, jobs, results, t)
                 = Excess(Here, t) + B(debt = t) + Mains(lib', held', playing', stored', t)
                   + Works(infos', snap', out', jobs', results', t)
    <2>1. Excess(c, t) + B(debt' = t) + Mains(lib, held, playing, stored, t)
            = Excess(Here, t) + B(debt = t) + Mains(lib', held', playing', stored', t)
      OBVIOUS
    <2> QED BY <2>1, <1>2, <1>6
  <1> QED BY <1>1, <1>2, <1>3, <1>5, <1>7, MainStep

LEMMA SavedStays ==
  ASSUME CacheInv, MUnchanged
  PROVE  KeptSound' /\ snap' = snap /\ out' = out
  BY KeptStays DEF MUnchanged

(* A job that holds no reference is scheduled. *)
LEMMA Scheduled ==
  ASSUME CacheInv, NEW x \in JobSet(Len(infos)), x.kind # "update", Schedule(x),
         UNCHANGED <<infos, table, results, users>>, MUnchanged
  PROVE  CacheInv'
  <1> DEFINE j == Append(jobs, x)
  <1>1. /\ jobs' = j /\ results' = results /\ infos' = infos /\ table' = table /\ UNCHANGED users
    BY DEF Schedule
  <1>2. KeptSound' /\ snap' = snap /\ out' = out
    BY SavedStays
  <1>3. /\ Here \in Caches /\ Here.infos = infos /\ WorkSound(Here, snap, out, jobs, results)
    BY InvParts
  <1>4. /\ WorkSound(Here, snap, out, j, results)
        /\ \A t : InJobs(j, t) = InJobs(jobs, t) + B(Updates(x, t))
    BY <1>3, JobAppended
  <1> HIDE DEF j
  <1>5. Here' = Here /\ Grows(Here, Here, {})
    BY <1>1, <1>3, GrowsSelf DEF Here
  <1>6. ASSUME NEW t \in Nat \ {0}
        PROVE  Works(infos, snap, out, jobs, results, t) = Works(infos, snap, out, j, results, t)
    <2>1. InJobs(jobs, t) \in Int
      BY <1>3, WorkTerms
    <2>2. InJobs(j, t) = InJobs(jobs, t)
      BY <1>4, <2>1 DEF B, Updates
    <2> QED BY <2>2 DEF Works
  <1> QED BY <1>1, <1>2, <1>3, <1>4, <1>5, <1>6, WorkerStep

LEMMA AddScheduled ==
  ASSUME CacheInv, NEW file \in Names, NEW force \in BOOLEAN, cmus_add(file, force)
  PROVE  CacheInv'
  <1> DEFINE x == [kind |-> "add", file |-> file, force |-> force]
  <1>1. x \in JobSet(Len(infos)) /\ x.kind # "update"
    BY DEF JobSet
  <1>2. Schedule(x) /\ UNCHANGED <<infos, table, results, users>> /\ MUnchanged
    BY DEF cmus_add
  <1> HIDE DEF x
  <1> QED BY <1>1, <1>2, Scheduled

LEMMA RefreshScheduled ==
  ASSUME CacheInv, NEW force \in BOOLEAN, cmus_update_cache(force)
  PROVE  CacheInv'
  <1> DEFINE x == [kind |-> "refresh", force |-> force]
  <1>1. x \in JobSet(Len(infos)) /\ x.kind # "update"
    BY DEF JobSet
  <1>2. Schedule(x) /\ UNCHANGED <<infos, table, results, users>> /\ MUnchanged
    BY DEF cmus_update_cache
  <1> HIDE DEF x
  <1> QED BY <1>1, <1>2, Scheduled

(* The job takes the references with it. *)
LEMMA UpdateScheduled ==
  ASSUME CacheInv, cmus_update_lib
  PROVE  CacheInv'
  <1> DEFINE b == Here
             S == {lib[f] : f \in Names} \ {0}
             x == [kind |-> "update", tis |-> S]
             j == Append(jobs, x)
             c == Counted(b, S, 1)
             n == Len(b.infos)
  <1>1. /\ jobs' = j /\ results' = results /\ Put(c) /\ UNCHANGED users /\ MUnchanged
    BY DEF cmus_update_lib, Schedule
  <1>2. KeptSound' /\ snap' = snap /\ out' = out
    BY <1>1, SavedStays
  <1>3. /\ b \in Caches /\ b.infos = infos /\ WorkSound(b, snap, out, jobs, results)
        /\ lib \in [Names -> 0 .. n] /\ n \in Nat
    BY InvParts
  <1>4. S \in SUBSET (1 .. n)
    BY <1>3
  <1> HIDE DEF S, b, n
  <1>5. x \in JobSet(n) /\ x.kind = "update" /\ x.tis = S
    BY <1>4 DEF JobSet
  <1> HIDE DEF x
  <1>6. /\ WorkSound(b, snap, out, j, results)
        /\ \A t : InJobs(j, t) = InJobs(jobs, t) + B(Updates(x, t))
    BY <1>3, <1>5, JobAppended DEF n
  <1>7. /\ Grows(b, c, {})
        /\ \A t : Excess(c, t) = Excess(b, t) + IF t \in S /\ t \in 1 .. n THEN 1 ELSE 0
    BY <1>3, CountedStep DEF n
  <1> HIDE DEF c, j
  <1>8. /\ WorkSound(c, snap, out, j, results)
        /\ \A t : Linked(c.infos, out, results, t) = Linked(b.infos, out, results, t)
    BY <1>6, <1>7, WorkGrows
  <1>9. c \in Caches
    BY <1>7 DEF Grows
  <1>10. Here' = c /\ infos' = c.infos
    BY <1>1, <1>9, PutMeans DEF Put
  <1>11. ASSUME NEW t \in Nat \ {0}
         PROVE  Excess(c, t) + Works(infos, snap, out, jobs, results, t)
                  = Excess(b, t) + Works(c.infos, snap, out, j, results, t)
    <2> DEFINE k == B(t \in S)
               s == B(t \in snap)
               o == B(t \in out)
    <2>1. /\ Excess(b, t) \in Int /\ InJobs(jobs, t) \in Int /\ InResults(results, t) \in Int
          /\ Linked(b.infos, out, results, t) \in Int /\ s \in Int /\ o \in Int
      BY <1>3, WorkTerms
    <2>2. k \in Int
      BY DEF B
    <2>3. InJobs(j, t) = InJobs(jobs, t) + k
      BY <1>5, <1>6 DEF Updates, B
    <2>4. Excess(c, t) = Excess(b, t) + k
      BY <1>4, <1>7 DEF B
    <2>5. Linked(c.infos, out, results, t) = Linked(b.infos, out, results, t)
      BY <1>8
    <2>6. /\ Works(infos, snap, out, jobs, results, t)
               = s + o + InJobs(jobs, t) + InResults(results, t) + Linked(b.infos, out, results, t)
          /\ Works(c.infos, snap, out, j, results, t)
               = s + o + InJobs(j, t) + InResults(results, t) + Linked(c.infos, out, results, t)
      BY <1>3 DEF Works
    <2> HIDE DEF k, s, o
    <2> QED BY <2>1, <2>2, <2>3, <2>4, <2>5, <2>6
  <1> QED BY <1>1, <1>2, <1>7, <1>8, <1>9, <1>10, <1>11, WorkerStep DEF b

(* A reference to x is taken or given up; x = 0: none. *)
RefOf(c, x) == IF x = 0 THEN c ELSE track_info_ref(c, x)
UnrefOf(c, x) == IF x = 0 THEN c ELSE track_info_unref(c, x)
Adds(c, d, x) ==
  /\ Grows(c, d, {}) /\ Len(d.infos) = Len(c.infos)
  /\ \A t \in Nat \ {0} : Excess(d, t) = Excess(c, t) + B(t = x)
Drops(c, d, x) ==
  /\ Grows(c, d, {}) /\ Len(d.infos) = Len(c.infos)
  /\ \A t \in Nat \ {0} : Excess(d, t) = Excess(c, t) - B(t = x)

LEMMA RefAdds ==
  ASSUME NEW c \in Caches, NEW x \in 0 .. Len(c.infos)
  PROVE  Adds(c, RefOf(c, x), x)
  <1> DEFINE d == Counted(c, {x}, 1)
  <1>1. Len(c.infos) \in Nat
    BY CacheTypes
  <1>2. \A t : Excess(c, t) \in Int
    BY ExcessType
  <1>3. CASE x = 0
    BY <1>2, <1>3, GrowsSelf DEF RefOf, Adds, B
  <1>4. CASE x # 0
    <2>1. /\ Grows(c, d, {}) /\ Len(d.infos) = Len(c.infos)
          /\ \A t : Excess(d, t) = Excess(c, t) + IF t \in {x} /\ t \in 1 .. Len(c.infos) THEN 1 ELSE 0
      BY CountedStep
    <2>2. RefOf(c, x) = d
      BY <1>4 DEF RefOf, track_info_ref
    <2> HIDE DEF d
    <2>3. \A t \in Nat \ {0} : Excess(d, t) = Excess(c, t) + B(t = x)
      BY <1>1, <1>4, <2>1 DEF B
    <2> QED BY <2>1, <2>2, <2>3 DEF Adds
  <1> QED BY <1>3, <1>4

LEMMA UnrefDrops ==
  ASSUME NEW c \in Caches, NEW x \in 0 .. Len(c.infos)
  PROVE  Drops(c, UnrefOf(c, x), x)
  <1> DEFINE d == Counted(c, {x}, -1)
  <1>1. Len(c.infos) \in Nat
    BY CacheTypes
  <1>2. \A t : Excess(c, t) \in Int
    BY ExcessType
  <1>3. CASE x = 0
    BY <1>2, <1>3, GrowsSelf DEF UnrefOf, Drops, B
  <1>4. CASE x # 0
    <2>1. /\ Grows(c, d, {}) /\ Len(d.infos) = Len(c.infos)
          /\ \A t : Excess(d, t) = Excess(c, t) + IF t \in {x} /\ t \in 1 .. Len(c.infos) THEN -1 ELSE 0
      BY CountedStep
    <2>2. UnrefOf(c, x) = d
      BY <1>4 DEF UnrefOf, track_info_unref
    <2> HIDE DEF d
    <2>3. \A t \in Nat \ {0} : Excess(d, t) = Excess(c, t) - B(t = x)
      BY <1>1, <1>2, <1>4, <2>1 DEF B
    <2> QED BY <2>1, <2>2, <2>3 DEF Drops
  <1> QED BY <1>3, <1>4

LEMMA GrowsTo ==
  ASSUME NEW b, NEW c, NEW d, Grows(b, c, {}), Grows(c, d, {})
  PROVE  Grows(b, d, {})
  <1>1. Grows(b, d, {} \cup {})
    BY GrowsOn
  <1> QED BY <1>1

(* What MainSound says, an object of b being one of d. *)
LEMMA UsersGrow ==
  ASSUME CacheInv, NEW d, Grows(Here, d, {})
  PROVE  /\ MainSound(d, lib, held, playing, stored, debt)
         /\ LibTrue(d, lib) /\ held \in SUBSET (1 .. Len(d.infos))
         /\ playing \in 0 .. Len(d.infos) /\ stored \in 0 .. Len(d.infos) /\ debt \in 0 .. Len(d.infos)
         /\ \A x \in 1 .. Len(infos) : x \in 1 .. Len(d.infos)
         /\ \A x \in 0 .. Len(infos) : x \in 0 .. Len(d.infos)
  <1>1. MainSound(d, lib, held, playing, stored, debt)
    BY MainGrows DEF CacheInv
  <1>2. Len(infos) \in Nat /\ Len(d.infos) \in Nat /\ Len(infos) <= Len(d.infos)
    <2>1. Here.infos = infos /\ Here \in Caches
      BY InvParts
    <2> QED BY <2>1, CacheTypes DEF Grows
  <1> QED BY <1>1, <1>2 DEF MainSound

LEMMA FilePlayed ==
  ASSUME CacheInv, NEW file \in Names, cmus_play_file(file)
  PROVE  CacheInv'
  <1>1. PICK got \in cache_get_ti(Here, file, FALSE) :
          IF got[2] = 0 THEN Put(got[1]) /\ UNCHANGED playing ELSE Play(got[1], got[2])
    BY DEF cmus_play_file
  <1> DEFINE b == Here
             c == got[1]
             n == got[2]
             d == UnrefOf(c, playing)
  <1>2. /\ MUnchanged /\ jobs' = jobs /\ results' = results
        /\ lib' = lib /\ held' = held /\ stored' = stored /\ debt' = debt
    BY DEF cmus_play_file
  <1>3. KeptSound' /\ UNCHANGED work
    BY <1>2, SavedStays DEF work
  <1>4. b \in Caches /\ disk \in [Files -> Int]
    BY InvParts
  <1>5. Gets(b, c, n, file)
    BY <1>4, CacheGets
  <1> HIDE DEF b, c, n
  <1>6. /\ Grows(b, c, {}) /\ n \in 0 .. Len(c.infos)
        /\ \A t \in Nat \ {0} : Excess(c, t) = Excess(b, t) + B(t = n)
    BY <1>5 DEF Gets
  <1>7. c \in Caches
    BY <1>6 DEF Grows
  <1>8. playing \in 0 .. Len(c.infos)
    BY <1>6, UsersGrow DEF b
  <1>9. CASE n = 0
    <2>1. Put(c) /\ playing' = playing
      BY <1>1, <1>9 DEF c, n
    <2>2. MainSound(c, lib, held, playing, stored, debt)
      BY <1>6, UsersGrow DEF b
    <2>3. ASSUME NEW t \in Nat \ {0}
          PROVE  Excess(c, t) + B(debt' = t) + Mains(lib, held, playing, stored, t)
                   = Excess(b, t) + B(debt = t) + Mains(lib', held', playing', stored', t)
      <3>1. Excess(c, t) = Excess(b, t)
        <4>1. Excess(b, t) \in Int
          BY <1>4, ExcessType
        <4> QED BY <1>6, <1>9, <4>1 DEF B
      <3> QED BY <3>1, <2>1, <1>2
    <2> QED BY <1>2, <1>3, <1>6, <2>1, <2>2, <2>3, UserStep DEF b
  <1>10. CASE n # 0
    <2>1. Put(d) /\ playing' = n
      BY <1>1, <1>10 DEF c, n, Play, UnrefOf
    <2>2. Drops(c, d, playing)
      BY <1>7, <1>8, UnrefDrops
    <2> HIDE DEF d
    <2>3. Grows(b, d, {}) /\ Len(d.infos) = Len(c.infos)
      BY <1>6, <2>2, GrowsTo DEF Drops
    <2>4. MainSound(d, lib, held, n, stored, debt)
      BY <1>6, <2>3, UsersGrow DEF b, MainSound
    <2>5. ASSUME NEW t \in Nat \ {0}
          PROVE  Excess(d, t) + B(debt' = t) + Mains(lib, held, playing, stored, t)
                   = Excess(b, t) + B(debt = t) + Mains(lib', held', playing', stored', t)
      <3> DEFINE k == B(debt = t)
                 l == B(InLib(lib, t))
                 hd == B(t \in held)
                 p == B(playing = t)
                 p1 == B(n = t)
                 s == B(stored = t)
      <3>1. Excess(b, t) \in Int
        BY <1>4, ExcessType
      <3>2. k \in Int /\ l \in Int /\ hd \in Int /\ p \in Int /\ p1 \in Int /\ s \in Int
        BY DEF B
      <3>3. Excess(c, t) = Excess(b, t) + p1
        BY <1>6 DEF B
      <3>4. Excess(d, t) = Excess(c, t) - p
        BY <2>2 DEF Drops, B
      <3>5. Mains(lib, held, playing, stored, t) = l + hd + p + s
            /\ Mains(lib, held, n, stored, t) = l + hd + p1 + s
        BY DEF Mains
      <3> HIDE DEF k, l, hd, p, p1, s
      <3>6. Excess(d, t) + k + Mains(lib, held, playing, stored, t)
              = Excess(b, t) + k + Mains(lib, held, n, stored, t)
        BY <3>1, <3>2, <3>3, <3>4, <3>5
      <3> QED BY <3>6, <2>1, <1>2 DEF k
    <2> QED BY <1>2, <1>3, <2>1, <2>3, <2>4, <2>5, UserStep DEF b
  <1> QED BY <1>9, <1>10

LEMMA TrackHeld ==
  ASSUME CacheInv, NEW f \in Names, Hold(lib[f])
  PROVE  CacheInv'
  <1> DEFINE b == Here
             x == lib[f]
             d == RefOf(b, x)
  <1>1. /\ x # 0 /\ x \notin held /\ held' = held \cup {x} /\ Put(d) /\ MUnchanged
        /\ jobs' = jobs /\ results' = results
        /\ lib' = lib /\ playing' = playing /\ stored' = stored /\ debt' = debt
    BY DEF Hold, RefOf
  <1>2. KeptSound' /\ UNCHANGED work
    BY <1>1, SavedStays DEF work
  <1>3. b \in Caches /\ b.infos = infos /\ x \in 0 .. Len(infos) /\ Len(infos) \in Nat
    BY InvParts
  <1>4. Adds(b, d, x)
    BY <1>3, RefAdds
  <1> HIDE DEF b, x, d
  <1>5. /\ Grows(b, d, {})
        /\ \A t \in Nat \ {0} : Excess(d, t) = Excess(b, t) + B(t = x)
    BY <1>4 DEF Adds
  <1>6. x \in 1 .. Len(d.infos)
    BY <1>1, <1>3, <1>5, UsersGrow DEF b
  <1>7. MainSound(d, lib, held \cup {x}, playing, stored, debt)
    BY <1>5, <1>6, UsersGrow DEF b, MainSound
  <1>8. ASSUME NEW t \in Nat \ {0}
        PROVE  Excess(d, t) + B(debt = t) + Mains(lib, held, playing, stored, t)
                 = Excess(b, t) + B(debt = t) + Mains(lib, held \cup {x}, playing, stored, t)
    <2> DEFINE k == B(debt = t)
               l == B(InLib(lib, t))
               hd == B(t \in held)
               h1 == B(t \in held \cup {x})
               p == B(playing = t)
               s == B(stored = t)
               y == B(t = x)
    <2>1. Excess(b, t) \in Int
      BY <1>3, ExcessType
    <2>2. k \in Int /\ l \in Int /\ hd \in Int /\ p \in Int /\ s \in Int /\ y \in Int
      BY DEF B
    <2>3. h1 = hd + y
      BY <1>1 DEF B
    <2>4. Excess(d, t) = Excess(b, t) + y
      BY <1>5
    <2>5. /\ Mains(lib, held, playing, stored, t) = l + hd + p + s
          /\ Mains(lib, held \cup {x}, playing, stored, t) = l + h1 + p + s
      BY DEF Mains
    <2> HIDE DEF k, l, hd, h1, p, s, y
    <2>6. Excess(d, t) + k + Mains(lib, held, playing, stored, t)
            = Excess(b, t) + k + Mains(lib, held \cup {x}, playing, stored, t)
      BY <2>1, <2>2, <2>3, <2>4, <2>5
    <2> QED BY <2>6 DEF k
  <1> QED BY <1>1, <1>2, <1>5, <1>7, <1>8, UserStep DEF b

LEMMA TrackReleased ==
  ASSUME CacheInv, NEW x \in held, Release(x)
  PROVE  CacheInv'
  <1> DEFINE b == Here
             d == UnrefOf(b, x)
  <1>0. /\ held' = held \ {x} /\ MUnchanged /\ jobs' = jobs /\ results' = results
        /\ lib' = lib /\ playing' = playing /\ stored' = stored /\ debt' = debt
    BY DEF Release
  <1>2. KeptSound' /\ UNCHANGED work
    BY <1>0, SavedStays DEF work
  <1>3. b \in Caches /\ b.infos = infos /\ x \in 0 .. Len(infos) /\ x # 0
    BY InvParts
  <1>1. Put(d)
    BY <1>3 DEF Release, UnrefOf
  <1>4. Drops(b, d, x)
    BY <1>3, UnrefDrops
  <1> HIDE DEF b, d
  <1>5. /\ Grows(b, d, {})
        /\ \A t \in Nat \ {0} : Excess(d, t) = Excess(b, t) - B(t = x)
    BY <1>4 DEF Drops
  <1>7. MainSound(d, lib, held \ {x}, playing, stored, debt)
    BY <1>5, UsersGrow DEF b, MainSound
  <1>8. ASSUME NEW t \in Nat \ {0}
        PROVE  Excess(d, t) + B(debt = t) + Mains(lib, held, playing, stored, t)
                 = Excess(b, t) + B(debt = t) + Mains(lib, held \ {x}, playing, stored, t)
    <2> DEFINE k == B(debt = t)
               l == B(InLib(lib, t))
               hd == B(t \in held)
               h1 == B(t \in held \ {x})
               p == B(playing = t)
               s == B(stored = t)
               y == B(t = x)
    <2>1. Excess(b, t) \in Int
      BY <1>3, ExcessType
    <2>2. k \in Int /\ l \in Int /\ h1 \in Int /\ p \in Int /\ s \in Int /\ y \in Int
      BY DEF B
    <2>3. hd = h1 + y
      BY DEF B
    <2>4. Excess(d, t) = Excess(b, t) - y
      BY <1>5
    <2>5. /\ Mains(lib, held, playing, stored, t) = l + hd + p + s
          /\ Mains(lib, held \ {x}, playing, stored, t) = l + h1 + p + s
      BY DEF Mains
    <2> HIDE DEF k, l, hd, h1, p, s, y
    <2>6. Excess(d, t) + k + Mains(lib, held, playing, stored, t)
            = Excess(b, t) + k + Mains(lib, held \ {x}, playing, stored, t)
      BY <2>1, <2>2, <2>3, <2>4, <2>5
    <2> QED BY <2>6 DEF k
  <1> QED BY <1>0, <1>1, <1>2, <1>5, <1>7, <1>8, UserStep DEF b

LEMMA TrackStored ==
  ASSUME CacheInv, NEW f \in Names, Store(lib[f])
  PROVE  CacheInv'
  <1> DEFINE b == Here
             x == lib[f]
             c == UnrefOf(b, stored)
             d == RefOf(c, x)
  <1>1. /\ x # 0 /\ stored' = x /\ Put(d) /\ MUnchanged
        /\ jobs' = jobs /\ results' = results
        /\ lib' = lib /\ held' = held /\ playing' = playing /\ debt' = debt
    BY DEF Store, lib_store_cur_track, RefOf, UnrefOf
  <1>2. KeptSound' /\ UNCHANGED work
    BY <1>1, SavedStays DEF work
  <1>3. /\ b \in Caches /\ b.infos = infos /\ x \in 0 .. Len(infos) /\ Len(infos) \in Nat
        /\ stored \in 0 .. Len(infos)
    BY InvParts
  <1>4. Drops(b, c, stored)
    BY <1>3, UnrefDrops
  <1> HIDE DEF b, x, c
  <1>5. c \in Caches /\ x \in 0 .. Len(c.infos)
    BY <1>3, <1>4 DEF Drops, Grows
  <1>6. Adds(c, d, x)
    BY <1>5, RefAdds
  <1> HIDE DEF d
  <1>7. /\ Grows(b, d, {})
        /\ \A t \in Nat \ {0} : Excess(c, t) = Excess(b, t) - B(t = stored)
        /\ \A t \in Nat \ {0} : Excess(d, t) = Excess(c, t) + B(t = x)
    BY <1>4, <1>6, GrowsTo DEF Adds, Drops
  <1>8. MainSound(d, lib, held, playing, x, debt)
    BY <1>3, <1>7, UsersGrow DEF b, MainSound
  <1>9. ASSUME NEW t \in Nat \ {0}
        PROVE  Excess(d, t) + B(debt = t) + Mains(lib, held, playing, stored, t)
                 = Excess(b, t) + B(debt = t) + Mains(lib, held, playing, x, t)
    <2> DEFINE k == B(debt = t)
               l == B(InLib(lib, t))
               hd == B(t \in held)
               p == B(playing = t)
               s == B(stored = t)
               y == B(x = t)
    <2>1. Excess(b, t) \in Int
      BY <1>3, ExcessType
    <2>2. k \in Int /\ l \in Int /\ hd \in Int /\ p \in Int /\ s \in Int /\ y \in Int
      BY DEF B
    <2>3. Excess(c, t) = Excess(b, t) - s
      BY <1>7 DEF B
    <2>4. Excess(d, t) = Excess(c, t) + y
      BY <1>7 DEF B
    <2>5. /\ Mains(lib, held, playing, stored, t) = l + hd + p + s
          /\ Mains(lib, held, playing, x, t) = l + hd + p + y
      BY DEF Mains
    <2> HIDE DEF k, l, hd, p, s, y
    <2>6. Excess(d, t) + k + Mains(lib, held, playing, stored, t)
            = Excess(b, t) + k + Mains(lib, held, playing, x, t)
      BY <2>1, <2>2, <2>3, <2>4, <2>5
    <2> QED BY <2>6 DEF k
  <1> QED BY <1>1, <1>2, <1>7, <1>8, <1>9, UserStep DEF b

-----------------------------------------------------------------------------
(* The results.  What the handler of an object does besides giving up the  *)
(* reference that the result had, and that of the link, balances.          *)
LEMMA HandlerStep ==
  ASSUME CacheInv, NEW kind, NEW x, AtHead(kind, x), Done(x), MUnchanged,
         NEW c, Put(c), Grows(Here, c, {}), MainSound(c, lib', held', playing', stored', debt'),
         WorkSound(Here, snap, out, jobs', results), \A t : InJobs(jobs', t) = InJobs(jobs, t),
         \A t \in Nat \ {0} :
           Excess(c, t) + B(debt' = t) + Mains(lib, held, playing, stored, t)
               + B(t = x) + B(kind = "refresh" /\ infos[x].next = t)
             = Excess(Here, t) + B(debt = t) + Mains(lib', held', playing', stored', t)
  PROVE  CacheInv'
  <1> DEFINE b == Here
             u == [results EXCEPT ![1].tis = @ \ {x}]
             j == jobs'
             m == Mains(lib', held', playing', stored', 1)
  <1>1. /\ results # <<>> /\ results[1].kind = kind /\ x \in results[1].tis /\ results' = u
    BY DEF AtHead, Done
  <1>2. KeptSound' /\ snap' = snap /\ out' = out
    BY SavedStays
  <1>3. /\ b \in Caches /\ b.infos = infos /\ WorkSound(b, snap, out, jobs, results)
    BY InvParts
  <1>4. WorkSound(b, snap, out, j, results)
    OBVIOUS
  <1>5. \A t : InJobs(j, t) = InJobs(jobs, t)
    OBVIOUS
  <1>6. Grows(b, c, {})
    OBVIOUS
  <1>7. c \in Caches
    BY <1>6 DEF Grows
  <1>8. Here' = c /\ infos' = c.infos
    BY <1>7, PutMeans DEF Put
  <1> HIDE DEF b, j
  <1>9. TakenAs(b, snap, out, j, results, u, x)
    BY ONLY <1>1, <1>3, <1>4, ResultTaken
  <1> HIDE DEF u
  <1>10. /\ WorkSound(c, snap, out, j, u)
         /\ \A t : Linked(c.infos, out, u, t) = Linked(b.infos, out, u, t)
    BY ONLY <1>6, <1>9, WorkGrows DEF TakenAs
  <1>11. ASSUME NEW t \in Nat \ {0}
         PROVE  Excess(c, t) + B(debt' = t) + Mains(lib, held, playing, stored, t)
                    + Works(infos, snap, out, jobs, results, t)
                  = Excess(b, t) + B(debt = t) + Mains(lib', held', playing', stored', t)
                    + Works(c.infos, snap, out, j, u, t)
    <2> DEFINE e == Excess(b, t)
               e1 == Excess(c, t)
               d == B(debt = t)
               d1 == B(debt' = t)
               n == Mains(lib, held, playing, stored, t)
               n1 == Mains(lib', held', playing', stored', t)
               y == B(t = x)
               z == B(kind = "refresh" /\ infos[x].next = t)
               s == B(t \in snap)
               o == B(t \in out)
    <2>1. e1 + d1 + n + y + z = e + d + n1
      BY DEF b
    <2>2. /\ InJobs(j, t) \in Int /\ InResults(u, t) \in Int /\ Linked(b.infos, out, u, t) \in Int
          /\ s \in Int /\ o \in Int /\ e \in Int
      BY <1>3, <1>9, WorkTerms DEF TakenAs
    <2>3. e1 \in Int /\ n \in Int /\ n1 \in Int
      BY <1>7, ExcessType, MainsType
    <2>4. d \in Int /\ d1 \in Int /\ y \in Int /\ z \in Int
      BY DEF B
    <2>5. Works(infos, snap, out, jobs, results, t)
            = s + o + InJobs(j, t) + (InResults(u, t) + y) + (Linked(b.infos, out, u, t) + z)
      BY <1>1, <1>3, <1>5, <1>9 DEF Works, TakenAs
    <2>6. Works(c.infos, snap, out, j, u, t)
            = s + o + InJobs(j, t) + InResults(u, t) + Linked(b.infos, out, u, t)
      BY <1>10 DEF Works
    <2> HIDE DEF e, e1, d, d1, n, n1, y, z, s, o
    <2>7. e1 + d1 + n + Works(infos, snap, out, jobs, results, t)
            = e + d + n1 + Works(c.infos, snap, out, j, u, t)
      BY <2>1, <2>2, <2>3, <2>4, <2>5, <2>6
    <2> QED BY <2>7 DEF e, e1, d, d1, n, n1
  <1>12. ASSUME NEW t \in Nat \ {0}
         PROVE  Excess(Here', t) + B(debt' = t) + Mains(lib, held, playing, stored, t)
                    + Works(infos, snap, out, jobs, results, t)
                  = Excess(Here, t) + B(debt = t) + Mains(lib', held', playing', stored', t)
                    + Works(infos', snap', out', jobs', results', t)
    BY <1>1, <1>2, <1>8, <1>11 DEF b, j
  <1>13. WorkSound(Here', snap', out', jobs', results')
    BY <1>1, <1>2, <1>8, <1>10 DEF j
  <1>14. MainSound(Here', lib', held', playing', stored', debt')
    BY <1>8
  <1>15. Here' \in Caches
    BY <1>7, <1>8
  <1> QED BY <1>2, <1>12, <1>13, <1>14, <1>15, MainStep

(* Of a result of additions or updates: the library changes, perhaps the   *)
(* table, and the reference is given up.                                   *)
LEMMA MovedStep ==
  ASSUME CacheInv, NEW kind, kind # "refresh", NEW x \in 1 .. Len(infos), AtHead(kind, x), Done(x),
         MUnchanged, NEW a, Moves(Here, lib, a, lib'), NEW d, Grows(a, d, {}),
         Len(d.infos) = Len(a.infos), \A t \in Nat \ {0} : Excess(d, t) = Excess(a, t),
         Put(UnrefOf(d, x)), UNCHANGED <<held, playing, stored, debt>>,
         WorkSound(Here, snap, out, jobs', results), \A t : InJobs(jobs', t) = InJobs(jobs, t)
  PROVE  CacheInv'
  <1> DEFINE b == Here
             c == UnrefOf(d, x)
             l == lib'
  <1>1. /\ Grows(b, a, {}) /\ Len(a.infos) = Len(b.infos) /\ LibTrue(a, l)
        /\ \A t \in Nat \ {0} : Excess(a, t) + B(InLib(lib, t)) = Excess(b, t) + B(InLib(l, t))
    BY DEF Moves
  <1>2. b \in Caches /\ b.infos = infos /\ a \in Caches /\ d \in Caches
    BY <1>1, InvParts DEF Grows
  <1>3. x \in 0 .. Len(d.infos)
    BY <1>1, <1>2
  <1>4. Drops(d, c, x)
    BY <1>2, <1>3, UnrefDrops
  <1> HIDE DEF c
  <1>5. /\ Grows(d, c, {}) /\ Len(c.infos) = Len(b.infos)
        /\ \A t \in Nat \ {0} : Excess(c, t) = Excess(d, t) - B(t = x)
    BY <1>1, <1>4 DEF Drops
  <1>6. Grows(b, d, {})
    BY <1>1, GrowsTo
  <1>7. Grows(b, c, {})
    BY <1>5, <1>6, GrowsTo
  <1>8. LibTrue(c, l)
    <2>1. Grows(a, c, {})
      BY <1>5, GrowsTo
    <2>2. l \in [Names -> 0 .. Len(c.infos)] /\ \A f \in Names : l[f] # 0 => a.infos[l[f]].file = f
      BY <1>1, <1>5 DEF LibTrue
    <2>3. \A t \in 1 .. Len(a.infos) : c.infos[t].file = a.infos[t].file
      BY <2>1 DEF Grows
    <2>4. ASSUME NEW f \in Names, l[f] # 0 PROVE c.infos[l[f]].file = f
      <3>1. l[f] \in 1 .. Len(a.infos)
        BY <1>1, <1>5, <2>2, <2>4, <1>2, CacheTypes
      <3> QED BY <2>2, <2>3, <2>4, <3>1
    <2> QED BY <2>2, <2>4 DEF LibTrue
  <1>9. MainSound(c, lib', held', playing', stored', debt')
    BY <1>7, <1>8, UsersGrow DEF b, MainSound
  <1>10. ASSUME NEW t \in Nat \ {0}
         PROVE  Excess(c, t) + B(debt' = t) + Mains(lib, held, playing, stored, t)
                    + B(t = x) + B(kind = "refresh" /\ infos[x].next = t)
                  = Excess(Here, t) + B(debt = t) + Mains(lib', held', playing', stored', t)
    <2> DEFINE k == B(debt = t)
               i0 == B(InLib(lib, t))
               i1 == B(InLib(l, t))
               hd == B(t \in held)
               p == B(playing = t)
               s == B(stored = t)
               y == B(t = x)
               z == B(kind = "refresh" /\ infos[x].next = t)
               m0 == Mains(lib, held, playing, stored, t)
               m1 == Mains(l, held, playing, stored, t)
               r == hd + p + s
    <2>1. /\ Excess(b, t) \in Int /\ Excess(a, t) \in Int
      BY <1>2, ExcessType
    <2>2. /\ k \in Int /\ i0 \in Int /\ i1 \in Int /\ hd \in Int /\ p \in Int /\ s \in Int /\ y \in Int
          /\ z = 0
      BY DEF B
    <2>3. Excess(a, t) + i0 = Excess(b, t) + i1
      BY <1>1
    <2>4. Excess(c, t) = Excess(a, t) - y
      BY <1>5
    <2>5. m0 = i0 + hd + p + s /\ m1 = i1 + hd + p + s
      BY DEF Mains
    <2> HIDE DEF k, i0, i1, hd, p, s, y, z, l, m0, m1
    <2>6. m0 = i0 + r /\ m1 = i1 + r /\ r \in Int
      BY ONLY <2>2, <2>5
    <2> HIDE DEF r
    <2>7. Excess(a, t) + m0 = Excess(b, t) + m1 /\ m0 \in Int /\ m1 \in Int
      BY ONLY <2>1, <2>2, <2>3, <2>6
    <2> DEFINE ea == Excess(a, t)
               eb == Excess(b, t)
               ec == Excess(c, t)
    <2>8. ec = ea - y /\ ea + m0 = eb + m1 /\ ea \in Int /\ eb \in Int
      BY <2>1, <2>4, <2>7
    <2> HIDE DEF ea, eb, ec
    <2>9. ec + k + m0 + y + z = eb + k + m1
      BY ONLY <2>2, <2>7, <2>8
    <2> QED BY <2>9 DEF ea, eb, ec, k, y, z, l, m0, m1
  <1>11. Put(c)
    BY DEF c
  <1>12. Grows(Here, c, {})
    BY <1>7
  <1> HIDE DEF b
  <1> QED BY <1>9, <1>10, <1>11, <1>12, HandlerStep

LEMMA AddHandled ==
  ASSUME CacheInv, NEW x \in 1 .. Len(infos), job_handle_add_result(x)
  PROVE  CacheInv'
  <1> DEFINE a == Added(Here, lib, x)[1]
  <1>1. /\ AtHead("add", x) /\ Done(x) /\ MUnchanged /\ lib' = Added(Here, lib, x)[2]
        /\ Put(track_info_unref(a, x)) /\ jobs' = jobs
        /\ UNCHANGED <<held, playing, stored, debt>>
    BY DEF job_handle_add_result
  <1>2. Here \in Caches /\ Here.infos = infos /\ LibTrue(Here, lib) /\ WorkSound(Here, snap, out, jobs, results)
    BY InvParts
  <1>3. Moves(Here, lib, a, lib')
    BY <1>1, <1>2, LibAdds
  <1> HIDE DEF a
  <1>4. Grows(a, a, {})
    BY <1>3, GrowsSelf DEF Moves, Grows
  <1>5. Put(UnrefOf(a, x))
    BY <1>1 DEF UnrefOf
  <1>6. WorkSound(Here, snap, out, jobs', results) /\ \A t : InJobs(jobs', t) = InJobs(jobs, t)
    BY <1>1, <1>2
  <1>7. /\ Len(a.infos) = Len(a.infos) /\ \A t \in Nat \ {0} : Excess(a, t) = Excess(a, t)
    OBVIOUS
  <1>8. "add" # "refresh"
    OBVIOUS
  <1> QED BY <1>1, <1>3, <1>4, <1>5, <1>6, <1>7, <1>8, MovedStep

LEMMA UpdateHandled ==
  ASSUME CacheInv, NEW x \in 1 .. Len(infos), job_handle_update_result(x)
  PROVE  CacheInv'
  <1> DEFINE a == Taken(Here, x)[1]
             d == do_cache_remove_ti(a, x)
             k == [kind |-> "add", file |-> infos[x].file, force |-> infos[x].zero]
  <1>1. /\ AtHead("update", x) /\ Done(x) /\ MUnchanged /\ lib' = Taken(Here, x)[2]
        /\ Put(track_info_unref(d, x)) /\ (jobs' = jobs \/ Schedule(k))
        /\ UNCHANGED <<held, playing, stored, debt>>
    BY DEF job_handle_update_result
  <1>2. Here \in Caches /\ Here.infos = infos /\ LibTrue(Here, lib) /\ WorkSound(Here, snap, out, jobs, results)
    BY InvParts
  <1>3. Moves(Here, lib, a, lib')
    BY <1>1, <1>2, LibTakes
  <1>4. k \in JobSet(Len(infos)) /\ k.kind = "add"
    BY <1>2, CacheTypes DEF JobSet
  <1> HIDE DEF a, k
  <1>5. a \in Caches
    BY <1>3 DEF Moves, Grows
  <1>6. Grows(a, d, {}) /\ Len(d.infos) = Len(a.infos) /\ \A t : Excess(d, t) = Excess(a, t)
    BY <1>5, EntryRemoved
  <1> HIDE DEF d
  <1>7. Put(UnrefOf(d, x))
    BY <1>1 DEF UnrefOf
  <1>8. WorkSound(Here, snap, out, jobs', results) /\ \A t : InJobs(jobs', t) = InJobs(jobs, t)
    <2>1. CASE jobs' = jobs
      BY <2>1, <1>2
    <2>2. CASE Schedule(k)
      <3> DEFINE j == Append(jobs, k)
      <3>1. jobs' = j
        BY <2>2 DEF Schedule
      <3>2. /\ WorkSound(Here, snap, out, j, results)
            /\ \A t : InJobs(j, t) = InJobs(jobs, t) + B(Updates(k, t))
        BY <1>2, <1>4, JobAppended
      <3>3. \A t : InJobs(jobs, t) \in Int
        BY <1>2, WorkTerms
      <3> HIDE DEF j
      <3>4. \A t : InJobs(j, t) = InJobs(jobs, t)
        BY <1>4, <3>2, <3>3 DEF B, Updates
      <3> QED BY <3>1, <3>2, <3>4
    <2> QED BY <1>1, <2>1, <2>2
  <1>9. "update" # "refresh"
    OBVIOUS
  <1>10. \A t \in Nat \ {0} : Excess(d, t) = Excess(a, t)
    BY <1>6
  <1> QED BY <1>1, <1>3, <1>6, <1>7, <1>8, <1>9, <1>10, MovedStep

(* The references that an exchange takes and gives up, one after another. *)
Chain(c, y1, y2, y3, y4, x, new) ==
  UnrefOf(UnrefOf(RefOf(UnrefOf(RefOf(UnrefOf(c, y1), y2), y3), y4), x), new)

Chained(c, d, y1, y2, y3, y4, x, new) ==
  /\ Grows(c, d, {}) /\ Len(d.infos) = Len(c.infos)
  /\ \A t \in Nat \ {0} :
       Excess(d, t) + B(t = y1) + B(t = y3) + B(t = x) + B(t = new)
         = Excess(c, t) + B(t = y2) + B(t = y4)

LEMMA ChainCounts ==
  ASSUME NEW c \in Caches, NEW y1 \in 0 .. Len(c.infos), NEW y2 \in 0 .. Len(c.infos),
         NEW y3 \in 0 .. Len(c.infos), NEW y4 \in 0 .. Len(c.infos), NEW x \in 0 .. Len(c.infos),
         NEW new \in 0 .. Len(c.infos)
  PROVE  Chained(c, Chain(c, y1, y2, y3, y4, x, new), y1, y2, y3, y4, x, new)
  <1> DEFINE n == Len(c.infos)
             c1 == UnrefOf(c, y1)
             c2 == RefOf(c1, y2)
             c3 == UnrefOf(c2, y3)
             c4 == RefOf(c3, y4)
             c5 == UnrefOf(c4, x)
             c6 == UnrefOf(c5, new)
  <1>1. Drops(c, c1, y1)
    BY UnrefDrops
  <1> HIDE DEF c1
  <1>2. c1 \in Caches /\ Len(c1.infos) = n
    BY <1>1 DEF Drops, Grows
  <1>3. Adds(c1, c2, y2)
    BY <1>2, RefAdds
  <1> HIDE DEF c2
  <1>4. c2 \in Caches /\ Len(c2.infos) = n
    BY <1>2, <1>3 DEF Adds, Grows
  <1>5. Drops(c2, c3, y3)
    BY <1>4, UnrefDrops
  <1> HIDE DEF c3
  <1>6. c3 \in Caches /\ Len(c3.infos) = n
    BY <1>4, <1>5 DEF Drops, Grows
  <1>7. Adds(c3, c4, y4)
    BY <1>6, RefAdds
  <1> HIDE DEF c4
  <1>8. c4 \in Caches /\ Len(c4.infos) = n
    BY <1>6, <1>7 DEF Adds, Grows
  <1>9. Drops(c4, c5, x)
    BY <1>8, UnrefDrops
  <1> HIDE DEF c5
  <1>10. c5 \in Caches /\ Len(c5.infos) = n
    BY <1>8, <1>9 DEF Drops, Grows
  <1>11. Drops(c5, c6, new)
    BY <1>10, UnrefDrops
  <1>12. Chain(c, y1, y2, y3, y4, x, new) = c6
    BY DEF Chain, c1, c2, c3, c4, c5
  <1> HIDE DEF c6
  <1>13. Len(c6.infos) = n
    BY <1>10, <1>11 DEF Drops
  <1>14. Grows(c, c6, {})
    <2>1. Grows(c, c2, {})
      BY <1>1, <1>3, GrowsTo DEF Drops, Adds
    <2>2. Grows(c, c3, {})
      BY <1>5, <2>1, GrowsTo DEF Drops
    <2>3. Grows(c, c4, {})
      BY <1>7, <2>2, GrowsTo DEF Adds
    <2>4. Grows(c, c5, {})
      BY <1>9, <2>3, GrowsTo DEF Drops
    <2> QED BY <1>11, <2>4, GrowsTo DEF Drops
  <1>15. ASSUME NEW t \in Nat \ {0}
         PROVE  Excess(c6, t) + B(t = y1) + B(t = y3) + B(t = x) + B(t = new)
                  = Excess(c, t) + B(t = y2) + B(t = y4)
    <2> DEFINE b1 == B(t = y1)
               b2 == B(t = y2)
               b3 == B(t = y3)
               b4 == B(t = y4)
               b5 == B(t = x)
               b6 == B(t = new)
               e0 == Excess(c, t)
               e2 == Excess(c2, t)
               e4 == Excess(c4, t)
               e6 == Excess(c6, t)
    <2>1. /\ b1 \in Int /\ b2 \in Int /\ b3 \in Int /\ b4 \in Int /\ b5 \in Int /\ b6 \in Int
      BY DEF B
    <2>2. e0 \in Int /\ e2 \in Int /\ e4 \in Int
      BY <1>4, <1>8, ExcessType
    <2>3. e2 = (e0 - b1) + b2
      BY <1>1, <1>3 DEF Drops, Adds
    <2>4. e4 = (e2 - b3) + b4
      BY <1>5, <1>7 DEF Drops, Adds
    <2>5. e6 = (e4 - b5) - b6
      BY <1>9, <1>11 DEF Drops
    <2> HIDE DEF b1, b2, b3, b4, b5, b6, e0, e2, e4, e6
    <2>6. e6 + b1 + b3 + b5 + b6 = e0 + b2 + b4
      BY ONLY <2>1, <2>2, <2>3, <2>4, <2>5
    <2> QED BY <2>6 DEF b1, b2, b3, b4, b5, b6, e0, e6
  <1> QED BY <1>12, <1>13, <1>14, <1>15 DEF Chained

LEMMA CacheHandled ==
  ASSUME CacheInv, NEW x \in 1 .. Len(infos), job_handle_update_cache_result(x)
  PROVE  CacheInv'
  <1> DEFINE b == Here
             n == Len(infos)
             new == infos[x].next
             t0 == Taken(Here, x)
             a == IF Has(x) /\ new # 0 THEN Added(t0[1], t0[2], new) ELSE t0
             in == x \in held
             p == playing = x /\ new # 0
             y1 == IF in THEN x ELSE 0
             y2 == IF in /\ new # 0 /\ new \notin held THEN new ELSE 0
             y3 == IF p THEN x ELSE 0
             y4 == IF p THEN new ELSE 0
             c == Chain(a[1], y1, y2, y3, y4, x, new)
             hd == (held \ {x}) \cup (IF in /\ new # 0 THEN {new} ELSE {})
             q == IF p THEN new ELSE playing
             u == [results EXCEPT ![1].tis = @ \ {x}]
  <1>1. /\ AtHead("refresh", x) /\ Exchange(x) /\ Done(x) /\ MUnchanged
        /\ jobs' = jobs /\ stored' = stored /\ debt' = debt
    BY DEF job_handle_update_cache_result
  <1>2. /\ b \in Caches /\ b.infos = infos /\ LibTrue(b, lib) /\ WorkSound(b, snap, out, jobs, results)
        /\ held \in SUBSET (1 .. n) /\ playing \in 0 .. n /\ n \in Nat
    BY InvParts
  <1>3. new \in (0 .. n) \ {x}
    <2>1. results # <<>> /\ results[1].kind = "refresh" /\ x \in results[1].tis
      BY <1>1 DEF AtHead
    <2>2. TakenAs(b, snap, out, jobs, results, u, x)
      BY ONLY <1>2, <2>1, ResultTaken
    <2> QED BY <1>2, <2>1, <2>2 DEF TakenAs
  <1>4. /\ Put(c) /\ lib' = a[2] /\ held' = hd /\ playing' = q
    <2>1. x # 0
      OBVIOUS
    <2> QED BY <1>1, <2>1 DEF Exchange, Chain, RefOf, UnrefOf
  <1>5. Moves(b, lib, a[1], a[2])
    <2>1. Moves(b, lib, t0[1], t0[2])
      BY <1>2, LibTakes
    <2> DEFINE v == t0[1]
               w == t0[2]
    <2> HIDE DEF t0, b
    <2>2. CASE Has(x) /\ new # 0
      <3>1. v \in Caches /\ LibTrue(v, w) /\ Len(v.infos) = n
        BY <1>2, <2>1 DEF Moves, Grows
      <3>2. new \in 1 .. Len(v.infos)
        BY <1>3, <2>2, <3>1
      <3> HIDE DEF v, w, new
      <3>3. Moves(v, w, Added(v, w, new)[1], Added(v, w, new)[2])
        BY <3>1, <3>2, LibAdds
      <3>4. Moves(b, lib, v, w)
        BY <2>1 DEF v, w
      <3>5. Moves(b, lib, Added(v, w, new)[1], Added(v, w, new)[2])
        BY ONLY <3>3, <3>4, MovesOn
      <3> QED BY <2>2, <3>5 DEF v, w
    <2>3. CASE ~(Has(x) /\ new # 0)
      BY <2>1, <2>3
    <2> QED BY <2>2, <2>3
  <1> DEFINE a1 == a[1]
             l == a[2]
  <1>6. /\ Grows(b, a1, {}) /\ Len(a1.infos) = n /\ LibTrue(a1, l)
        /\ \A t \in Nat \ {0} : Excess(a1, t) + B(InLib(lib, t)) = Excess(b, t) + B(InLib(l, t))
    BY <1>2, <1>5 DEF Moves
  <1>7. /\ y1 \in 0 .. n /\ y2 \in 0 .. n /\ y3 \in 0 .. n /\ y4 \in 0 .. n /\ x \in 0 .. n /\ new \in 0 .. n
    BY <1>3, <1>2
  <1>8. hd \in SUBSET (1 .. n) /\ q \in 0 .. n
    <2>1. new # 0 => new \in 1 .. n
      BY <1>2, <1>3
    <2>2. new \in 0 .. n
      BY <1>3
    <2> HIDE DEF new, in, n
    <2>3. hd \in SUBSET (1 .. n)
      BY <1>2, <2>1
    <2>4. q \in 0 .. n
      BY <1>2, <2>2
    <2> QED BY <2>3, <2>4
  <1>9. \A t \in Nat \ {0} : B(t \in hd) + B(t = y1) = B(t \in held) + B(t = y2)
    BY <1>2, <1>3 DEF B
  <1>10. \A t \in Nat \ {0} : B(q = t) + B(t = y3) = B(playing = t) + B(t = y4)
    BY <1>2, <1>3 DEF B
  <1>11. c = Chain(a1, y1, y2, y3, y4, x, new)
    OBVIOUS
  <1>12. Put(c) /\ lib' = l /\ held' = hd /\ playing' = q
    BY <1>4
  <1> HIDE DEF a1, l, a, t0, b, c, hd, q, y1, y2, y3, y4, n
  <1>13. a1 \in Caches
    BY <1>6 DEF Grows
  <1>14. /\ Grows(a1, c, {}) /\ Len(c.infos) = n
         /\ \A t \in Nat \ {0} :
              Excess(c, t) + B(t = y1) + B(t = y3) + B(t = x) + B(t = new)
                = Excess(a1, t) + B(t = y2) + B(t = y4)
    <2> DEFINE m == Len(a1.infos)
    <2>1. m = n
      BY <1>6
    <2>2. /\ y1 \in 0 .. m /\ y2 \in 0 .. m /\ y3 \in 0 .. m /\ y4 \in 0 .. m
          /\ x \in 0 .. m /\ new \in 0 .. m
      BY <1>7, <2>1
    <2> HIDE DEF new
    <2> DEFINE d == Chain(a1, y1, y2, y3, y4, x, new)
    <2>3. Chained(a1, d, y1, y2, y3, y4, x, new)
      BY ONLY <1>13, <2>2, ChainCounts
    <2> HIDE DEF d
    <2>4. c = d
      BY <1>11 DEF d
    <2> QED BY ONLY <2>1, <2>3, <2>4 DEF Chained, m
  <1>15. Grows(b, c, {})
    BY <1>6, <1>14, GrowsTo
  <1>16. LibTrue(c, l)
    <2>1. l \in [Names -> 0 .. n] /\ \A f \in Names : l[f] # 0 => a1.infos[l[f]].file = f
      BY <1>6 DEF LibTrue
    <2>2. \A t \in 1 .. n : c.infos[t].file = a1.infos[t].file
      BY <1>6, <1>14 DEF Grows
    <2>3. ASSUME NEW f \in Names, l[f] # 0 PROVE c.infos[l[f]].file = f
      <3>1. l[f] \in 1 .. n
        BY <1>2, <2>1, <2>3
      <3> QED BY <2>1, <2>2, <2>3, <3>1
    <2> QED BY <1>14, <2>1, <2>3 DEF LibTrue
  <1>17. MainSound(c, lib', held', playing', stored', debt')
    <2>1. stored \in 0 .. Len(c.infos) /\ debt \in 0 .. Len(c.infos)
      BY <1>15, UsersGrow DEF b
    <2> QED BY <1>1, <1>8, <1>12, <1>14, <1>16, <2>1 DEF MainSound
  <1>18. ASSUME NEW t \in Nat \ {0}
         PROVE  Excess(c, t) + B(debt' = t) + Mains(lib, held, playing, stored, t)
                    + B(t = x) + B("refresh" = "refresh" /\ infos[x].next = t)
                  = Excess(b, t) + B(debt = t) + Mains(lib', held', playing', stored', t)
    <2> DEFINE k == B(debt = t)
               i0 == B(InLib(lib, t))
               i1 == B(InLib(l, t))
               h0 == B(t \in held)
               h1 == B(t \in hd)
               q0 == B(playing = t)
               q1 == B(q = t)
               s == B(stored = t)
               m0 == Mains(lib, held, playing, stored, t)
               m1 == Mains(l, hd, q, stored, t)
               b1 == B(t = y1)
               b2 == B(t = y2)
               b3 == B(t = y3)
               b4 == B(t = y4)
               bx == B(t = x)
               bn == B(t = new)
               e0 == Excess(b, t)
               e1 == Excess(a1, t)
               e2 == Excess(c, t)
    <2>1. /\ k \in Int /\ i0 \in Int /\ i1 \in Int /\ h0 \in Int /\ h1 \in Int /\ q0 \in Int /\ q1 \in Int
          /\ s \in Int
      BY DEF B
    <2>2. b1 \in Int /\ b2 \in Int /\ b3 \in Int /\ b4 \in Int /\ bx \in Int /\ bn \in Int
      BY DEF B
    <2>3. e0 \in Int /\ e1 \in Int /\ e2 \in Int
      BY <1>2, <1>13, <1>14, ExcessType DEF Grows
    <2>4. m0 = i0 + h0 + q0 + s /\ m1 = i1 + h1 + q1 + s
      BY DEF Mains
    <2>5. e1 + i0 = e0 + i1
      BY <1>6
    <2>6. e2 + b1 + b3 + bx + bn = e1 + b2 + b4
      BY <1>14
    <2>7. h1 + b1 = h0 + b2 /\ q1 + b3 = q0 + b4
      BY <1>9, <1>10
    <2>8. B("refresh" = "refresh" /\ infos[x].next = t) = bn
      BY DEF B
    <2>9. Mains(lib', held', playing', stored', t) = m1 /\ B(debt' = t) = k
      BY <1>1, <1>12
    <2> HIDE DEF k, i0, i1, h0, h1, q0, q1, s, m0, m1, b1, b2, b3, b4, bx, bn, e0, e1, e2
    <2>10. e2 + i0 + h0 + q0 + bx + bn = e0 + i1 + h1 + q1
      BY ONLY <2>1, <2>2, <2>3, <2>5, <2>6, <2>7
    <2>11. e2 + k + m0 + bx + bn = e0 + k + m1
      BY ONLY <2>1, <2>2, <2>3, <2>4, <2>10
    <2> QED BY <2>8, <2>9, <2>11 DEF k, m0, bx, e0, e2
  <1>19. WorkSound(Here, snap, out, jobs', results) /\ \A t : InJobs(jobs', t) = InJobs(jobs, t)
    BY <1>1, <1>2 DEF b
  <1>20. Put(c) /\ Grows(Here, c, {})
    BY <1>12, <1>15 DEF b
  <1>21. ASSUME NEW t \in Nat \ {0}
         PROVE  Excess(c, t) + B(debt' = t) + Mains(lib, held, playing, stored, t)
                    + B(t = x) + B("refresh" = "refresh" /\ infos[x].next = t)
                  = Excess(Here, t) + B(debt = t) + Mains(lib', held', playing', stored', t)
    BY <1>18 DEF b
  <1> HIDE DEF new, in, p, u
  <1> QED BY ONLY CacheInv, <1>1, <1>17, <1>19, <1>20, <1>21, HandlerStep

LEMMA ResultHandled ==
  ASSUME CacheInv, M_result_done
  PROVE  CacheInv'
  <1> DEFINE b == Here
             r == Tail(results)
  <1>1. /\ results # <<>> /\ results[1].tis = {} /\ results' = r /\ MUnchanged
        /\ infos' = infos /\ table' = table /\ jobs' = jobs /\ UNCHANGED users
    BY DEF M_result_done
  <1>2. KeptSound' /\ snap' = snap /\ out' = out
    BY <1>1, SavedStays
  <1>3. /\ b \in Caches /\ b.infos = infos /\ WorkSound(b, snap, out, jobs, results)
    BY InvParts
  <1>4. Here' = b /\ Grows(b, b, {})
    BY <1>1, <1>3, GrowsSelf DEF Here
  <1> HIDE DEF b
  <1>5. /\ WorkSound(b, snap, out, jobs, r)
        /\ \A t : InResults(r, t) = InResults(results, t)
        /\ \A t : Linked(b.infos, out, r, t) = Linked(b.infos, out, results, t)
    BY ONLY <1>1, <1>3, ResultDone
  <1> HIDE DEF r
  <1>6. ASSUME NEW t
        PROVE  Works(infos, snap, out, jobs, results, t) = Works(infos, snap, out, jobs, r, t)
    BY <1>3, <1>5 DEF Works
  <1> QED BY <1>1, <1>2, <1>3, <1>4, <1>5, <1>6, WorkerStep DEF b

LEMMA FileTouched ==
  ASSUME MaxTime \in Nat, CacheInv, NEW f \in Files, NEW k \in 0 .. MaxTime, Touch(f, k)
  PROVE  CacheInv'
  <1> DEFINE b == Here
  <1>1. /\ disk' = [disk EXCEPT ![f] = k] /\ image' = image /\ saved' = saved
        /\ UNCHANGED work /\ UNCHANGED users /\ infos' = infos /\ table' = table
    BY DEF Touch
  <1>2. KeptSound'
    <2>1. disk \in [Files -> Int] /\ image \in Seq(Images) /\ saved \in Saves
      BY InvParts
    <2>2. k \in Int
      OBVIOUS
    <2>3. disk' \in [Files -> Int]
      BY <1>1, <2>1, <2>2
    <2> QED BY <1>1, <2>1, <2>3 DEF KeptSound
  <1>3. b \in Caches /\ b.infos = infos /\ b.table = table
    BY InvParts
  <1>4. Put(b) /\ Grows(b, b, {})
    BY <1>1, <1>3, GrowsSelf DEF Put
  <1>5. lib' = lib /\ held' = held /\ playing' = playing /\ stored' = stored /\ debt' = debt
    BY <1>1 DEF users
  <1>6. MainSound(b, lib', held', playing', stored', debt')
    BY <1>5, InvParts
  <1> QED BY <1>1, <1>2, <1>4, <1>5, <1>6, UserStep

-----------------------------------------------------------------------------
(* A start: the cache file's entries are owned by the table alone, then    *)
(* the resume file's tracks are loaded.                                    *)
LEMMA StartsBalanced ==
  ASSUME NEW c \in Caches, NEW l, LibTrue(c, l), NEW p \in 0 .. Len(c.infos),
         NEW st \in 0 .. Len(c.infos),
         \A t \in Nat \ {0} : Excess(c, t) = B(InLib(l, t)) + B(p = t)
  PROVE  /\ MainSound(c, l, {}, p, st, st) /\ WorkSound(c, Idle, {}, <<>>, <<>>)
         /\ Balanced(c, l, {}, p, st, st, Idle, {}, <<>>, <<>>)
  <1>1. MainSound(c, l, {}, p, st, st)
    BY DEF MainSound
  <1>2. \A t : ~Waiting({}, <<>>, t)
    BY DEF Waiting, Refreshing
  <1>3. WorkSound(c, Idle, {}, <<>>, <<>>)
    BY <1>2 DEF WorkSound
  <1>4. ASSUME NEW t \in Nat \ {0}
        PROVE  Excess(c, t) + B(st = t)
                 = Mains(l, {}, p, st, t) + Works(c.infos, Idle, {}, <<>>, <<>>, t)
    <2> DEFINE i == B(InLib(l, t))
               q == B(p = t)
               s == B(st = t)
    <2>1. Cardinality({}) = 0
      BY FS_EmptySet
    <2>2. InJobs(<<>>, t) = 0
      <3>1. {k \in DOMAIN <<>> : Updates(<<>>[k], t)} = {}
        OBVIOUS
      <3> QED BY <2>1, <3>1 DEF InJobs
    <2>3. InResults(<<>>, t) = 0
      <3>1. {k \in DOMAIN <<>> : t \in <<>>[k].tis} = {}
        OBVIOUS
      <3> QED BY <2>1, <3>1 DEF InResults
    <2>4. Linked(c.infos, {}, <<>>, t) = 0
      <3>1. {old \in DOMAIN c.infos : c.infos[old].next = t /\ Waiting({}, <<>>, old)} = {}
        BY <1>2
      <3> QED BY <2>1, <3>1 DEF Linked, Links
    <2>5. B(t \in Idle) = 0 /\ B(t \in {}) = 0
      BY DEF B, Idle
    <2>6. Works(c.infos, Idle, {}, <<>>, <<>>, t) = 0
      BY <2>2, <2>3, <2>4, <2>5 DEF Works
    <2>7. i \in Int /\ q \in Int /\ s \in Int
      BY DEF B
    <2>8. Excess(c, t) = i + q /\ Mains(l, {}, p, st, t) = i + 0 + q + s
      BY <2>5 DEF Mains
    <2> HIDE DEF i, q, s
    <2>9. Excess(c, t) + s = Mains(l, {}, p, st, t) + 0
      BY ONLY <2>7, <2>8
    <2> QED BY <2>6, <2>9 DEF s
  <1> QED BY <1>1, <1>3, <1>4 DEF Balanced

LEMMA CacheRead ==
  ASSUME NEW s \in Seq(Images)
  PROVE  /\ read_cache(s) \in Caches /\ \A t : Excess(read_cache(s), t) = 0
  <1> DEFINE n == Len(s)
             o(i) == [file |-> s[i].file, mtime |-> s[i].mtime, zero |-> s[i].zero,
                      refs |-> 1, next |-> 0]
             f == [i \in 1 .. n |-> o(i)]
             k == [i \in 1 .. n |-> n + 1 - i]
             c == [infos |-> f, table |-> k]
  <1>1. n \in Nat /\ \A i \in 1 .. n : s[i] \in Images
    OBVIOUS
  <1>2. \A i \in 1 .. n : o(i) \in Infos /\ o(i).refs = 1
    BY <1>1 DEF Images, Infos
  <1>3. read_cache(s) = c
    BY DEF read_cache
  <1> HIDE DEF o, n
  <1>4. f \in Seq(Infos) /\ Len(f) = n /\ \A i \in 1 .. n : f[i].refs = 1
    BY <1>1, <1>2
  <1>5. k \in Seq(Nat) /\ DOMAIN k = 1 .. n /\ \A i \in 1 .. n : k[i] = n + 1 - i
    BY <1>1
  <1> HIDE DEF f, k
  <1>6. ToSet(k) = 1 .. n
    <2>1. \A i \in 1 .. n : k[i] \in 1 .. n
      BY <1>1, <1>5
    <2>2. \A i \in 1 .. n : n + 1 - i \in 1 .. n /\ k[n + 1 - i] = i
      BY <1>1, <1>5
    <2> QED BY <1>5, <2>1, <2>2 DEF ToSet
  <1>7. Once(k)
    BY <1>1, <1>5 DEF Once
  <1>8. c \in Caches
    BY <1>4, <1>5, <1>6, <1>7 DEF Caches
  <1>9. \A t : Excess(c, t) = 0
    BY <1>4, <1>6 DEF Excess, B
  <1> QED BY <1>3, <1>8, <1>9

(* The library and its stored track, which the resume file names, after    *)
(* resume_load: the reference given up twice is the one the debt is for.   *)
Resumed(r) ==
  /\ r.c \in Caches /\ LibTrue(r.c, r.lib) /\ r.stored \in 0 .. Len(r.c.infos)
  /\ \A t \in Nat \ {0} : Excess(r.c, t) = B(InLib(r.lib, t))

LEMMA NoneInEmpty ==
  ASSUME NEW c \in Caches
  PROVE  LibTrue(c, Empty) /\ \A t \in Nat \ {0} : B(InLib(Empty, t)) = 0
  <1>1. Len(c.infos) \in Nat
    BY CacheTypes
  <1> QED BY <1>1 DEF LibTrue, Empty, InLib, B

LEMMA NothingResumed ==
  ASSUME NEW c \in Caches, \A t \in Nat \ {0} : Excess(c, t) = 0
  PROVE  Resumed([c |-> c, lib |-> Empty, stored |-> 0])
  <1>1. 0 \in 0 .. Len(c.infos)
    BY CacheTypes
  <1> QED BY <1>1, NoneInEmpty DEF Resumed

(* The reference to x is given up, taken for cur_track_ti, and given up.   *)
LEMMA StoredTwice ==
  ASSUME NEW a \in Caches, NEW x \in 1 .. Len(a.infos)
  PROVE  LET d == track_info_unref(lib_store_cur_track(track_info_unref(a, x), 0, x), x)
         IN  Drops(a, d, x)
  <1> DEFINE a1 == UnrefOf(a, x)
             a2 == RefOf(a1, x)
             d == UnrefOf(a2, x)
  <1>1. x \in 0 .. Len(a.infos) /\ x # 0
    OBVIOUS
  <1>2. track_info_unref(lib_store_cur_track(track_info_unref(a, x), 0, x), x) = d
    BY <1>1 DEF lib_store_cur_track, UnrefOf, RefOf
  <1>3. Drops(a, a1, x)
    BY <1>1, UnrefDrops
  <1> HIDE DEF a1
  <1>4. a1 \in Caches /\ Len(a1.infos) = Len(a.infos)
    BY <1>3 DEF Drops, Grows
  <1>5. Adds(a1, a2, x)
    BY <1>1, <1>4, RefAdds
  <1> HIDE DEF a2
  <1>6. a2 \in Caches /\ Len(a2.infos) = Len(a.infos)
    BY <1>4, <1>5 DEF Adds, Grows
  <1>7. Drops(a2, d, x)
    BY <1>1, <1>6, UnrefDrops
  <1> HIDE DEF d
  <1>8. Grows(a, a2, {})
    BY <1>3, <1>5, GrowsTo DEF Drops, Adds
  <1>9. Grows(a, d, {}) /\ Len(d.infos) = Len(a.infos)
    BY <1>6, <1>7, <1>8, GrowsTo DEF Drops
  <1>10. ASSUME NEW t \in Nat \ {0} PROVE Excess(d, t) = Excess(a, t) - B(t = x)
    <2> DEFINE y == B(t = x)
               e == Excess(a, t)
    <2>1. y \in Int /\ e \in Int
      BY ExcessType DEF B
    <2>2. Excess(d, t) = ((e - y) + y) - y
      BY <1>3, <1>5, <1>7 DEF Drops, Adds
    <2> HIDE DEF y, e
    <2>3. Excess(d, t) = e - y
      BY ONLY <2>1, <2>2
    <2> QED BY <2>3 DEF e, y
  <1> QED BY <1>2, <1>9, <1>10 DEF Drops

LEMMA LibResumed ==
  ASSUME NEW c \in Caches, \A t \in Nat \ {0} : Excess(c, t) = 0, disk \in [Files -> Int],
         saved' \in Saves, NEW r \in ResumeLib(c)
  PROVE  Resumed(r)
  <1> DEFINE g == saved'.lib_file
             two(a, x) == track_info_unref(lib_store_cur_track(track_info_unref(a, x), 0, x), x)
  <1>1. CASE g = NoFile
    <2>1. r = [c |-> c, lib |-> Empty, stored |-> 0]
      BY <1>1 DEF ResumeLib
    <2> QED BY <2>1, NothingResumed
  <1>2. CASE g # NoFile
    <2>1. PICK got \in cache_get_ti(c, g, FALSE) :
            LET ti == got[2]
                d == got[1]
                a == Added(d, Empty, ti)
            IN  IF ti = 0 THEN r = [c |-> d, lib |-> Empty, stored |-> 0]
                ELSE \/ r = [c |-> two(a[1], ti), lib |-> a[2], stored |-> ti]
                     \/ r = [c |-> two(d, ti), lib |-> Empty, stored |-> ti]
      BY <1>2 DEF ResumeLib
    <2> DEFINE d == got[1]
               x == got[2]
               a == Added(d, Empty, x)
    <2>2. g \in Names
      BY <1>2 DEF Saves
    <2>3. Gets(c, d, x, g)
      BY <2>2, CacheGets
    <2> HIDE DEF d, x
    <2>4. /\ Grows(c, d, {}) /\ x \in 0 .. Len(d.infos) /\ d \in Caches
          /\ \A t \in Nat \ {0} : Excess(d, t) = B(t = x)
      <3>1. /\ Grows(c, d, {}) /\ x \in 0 .. Len(d.infos)
            /\ \A t \in Nat \ {0} : Excess(d, t) = Excess(c, t) + B(t = x)
        BY <2>3 DEF Gets
      <3>2. d \in Caches
        BY <3>1 DEF Grows
      <3>3. \A t \in Nat \ {0} : Excess(d, t) = 0 + B(t = x)
        BY <3>1
      <3>4. \A t \in Nat \ {0} : Excess(d, t) = B(t = x)
        BY <3>3 DEF B
      <3> QED BY <3>1, <3>2, <3>4
    <2>5. CASE x = 0
      <3>1. \A t \in Nat \ {0} : Excess(d, t) = 0
        BY <2>4, <2>5 DEF B
      <3>2. Resumed([c |-> d, lib |-> Empty, stored |-> 0])
        BY ONLY <2>4, <3>1, NothingResumed
      <3> QED BY <2>1, <2>5, <3>2 DEF d, x
    <2>6. CASE x # 0
      <3>1. x \in 1 .. Len(d.infos)
        BY <2>4, <2>6
      <3>2. r = [c |-> two(a[1], x), lib |-> a[2], stored |-> x]
              \/ r = [c |-> two(d, x), lib |-> Empty, stored |-> x]
        BY <2>1, <2>6 DEF d, x
      <3>3. LibTrue(d, Empty) /\ \A t \in Nat \ {0} : B(InLib(Empty, t)) = 0
        BY <2>4, NoneInEmpty
      <3>4. CASE r = [c |-> two(d, x), lib |-> Empty, stored |-> x]
        <4> DEFINE e == two(d, x)
        <4>1. Drops(d, e, x)
          BY <2>4, <3>1, StoredTwice
        <4> HIDE DEF e
        <4>2. e \in Caches /\ LibTrue(e, Empty) /\ x \in 0 .. Len(e.infos)
          BY <2>4, <4>1, NoneInEmpty DEF Drops, Grows
        <4>3. \A t \in Nat \ {0} : Excess(e, t) = B(InLib(Empty, t))
          BY <2>4, <3>3, <4>1 DEF Drops, B
        <4>4. r.c = e /\ r.lib = Empty /\ r.stored = x
          BY <3>4 DEF e
        <4> QED BY <4>2, <4>3, <4>4 DEF Resumed
      <3>5. CASE r = [c |-> two(a[1], x), lib |-> a[2], stored |-> x]
        <4> DEFINE a1 == a[1]
                   l == a[2]
                   e == two(a1, x)
        <4>1. Moves(d, Empty, a1, l)
          BY <2>4, <3>1, <3>3, LibAdds
        <4>2. r.c = e /\ r.lib = l /\ r.stored = x
          BY <3>5
        <4>3. InLib(l, x)
          <5>1. d.infos[x].file \in Names
            BY <2>4, <3>1, CacheTypes
          <5>2. l = [Empty EXCEPT ![d.infos[x].file] = x]
            BY <5>1 DEF Added, Is, Empty
          <5> QED BY <5>1, <5>2 DEF InLib, Empty
        <4> HIDE DEF a1, l, a
        <4>4. /\ a1 \in Caches /\ Len(a1.infos) = Len(d.infos) /\ LibTrue(a1, l)
              /\ \A t \in Nat \ {0} :
                   Excess(a1, t) + B(InLib(Empty, t)) = Excess(d, t) + B(InLib(l, t))
          BY <4>1 DEF Moves, Grows
        <4>5. x \in 1 .. Len(a1.infos)
          BY <3>1, <4>4
        <4>6. Drops(a1, e, x)
          BY <4>4, <4>5, StoredTwice
        <4> HIDE DEF e
        <4>7. e \in Caches /\ Grows(a1, e, {}) /\ Len(e.infos) = Len(a1.infos)
          BY <4>6 DEF Drops, Grows
        <4>8. LibTrue(e, l)
          <5>1. l \in [Names -> 0 .. Len(e.infos)] /\ \A f \in Names : l[f] # 0 => a1.infos[l[f]].file = f
            BY <4>4, <4>7 DEF LibTrue
          <5>2. \A t \in 1 .. Len(a1.infos) : e.infos[t].file = a1.infos[t].file
            BY <4>7 DEF Grows
          <5>3. ASSUME NEW f \in Names, l[f] # 0 PROVE e.infos[l[f]].file = f
            <6>1. l[f] \in 1 .. Len(a1.infos)
              BY <4>4, <4>7, <5>1, <5>3, CacheTypes
            <6> QED BY <5>1, <5>2, <5>3, <6>1
          <5> QED BY <5>1, <5>3 DEF LibTrue
        <4>9. ASSUME NEW t \in Nat \ {0} PROVE Excess(e, t) = B(InLib(l, t))
          <5> DEFINE y == B(t = x)
                     i == B(InLib(l, t))
          <5>1. y \in Int /\ i \in Int /\ Excess(a1, t) \in Int
            BY <4>4, ExcessType DEF B
          <5>2. Excess(e, t) = Excess(a1, t) - y
            BY <4>6 DEF Drops
          <5>3. Excess(a1, t) + 0 = y + i
            BY <2>4, <3>3, <4>4
          <5> HIDE DEF y, i
          <5>4. Excess(e, t) = i
            BY ONLY <5>1, <5>2, <5>3
          <5> QED BY <5>4 DEF i
        <4>10. x \in 0 .. Len(e.infos)
          BY <4>5, <4>7
        <4> QED BY <4>2, <4>7, <4>8, <4>9, <4>10 DEF Resumed
      <3> QED BY <3>2, <3>4, <3>5
    <2> QED BY <2>5, <2>6
  <1> QED BY <1>1, <1>2

(* The program starts, from what the last run or an earlier one left.      *)
LEMMA Starts ==
  ASSUME disk \in [Files -> Int], image' \in Seq(Images), saved' \in Saves, Start
  PROVE  CacheInv'
  <1> DEFINE c == read_cache(image')
  <1>1. /\ jobs' = <<>> /\ snap' = Idle /\ out' = {} /\ results' = <<>> /\ held' = {}
        /\ disk' = disk /\ (resume_load(c) \/ NoResumeLoad(c))
    BY DEF Start
  <1>2. c \in Caches /\ \A t \in Nat \ {0} : Excess(c, t) = 0
    BY CacheRead
  <1> HIDE DEF c
  <1>3. PICK r : /\ Resumed(r) /\ lib' = r.lib /\ stored' = r.stored /\ debt' = r.stored
                 /\ \/ Put(r.c) /\ playing' = 0
                    \/ saved'.file # NoFile /\ \E got \in cache_get_ti(r.c, saved'.file, FALSE) :
                                                 Put(got[1]) /\ playing' = got[2]
    <2>1. CASE resume_load(c)
      <3>1. PICK r \in ResumeLib(c) :
              /\ lib' = r.lib /\ stored' = r.stored /\ debt' = r.stored
              /\ IF saved'.file = NoFile THEN Put(r.c) /\ playing' = 0
                 ELSE \E got \in cache_get_ti(r.c, saved'.file, FALSE) : Put(got[1]) /\ playing' = got[2]
        BY <2>1 DEF resume_load
      <3>2. Resumed(r)
        BY <1>2, LibResumed
      <3> QED BY <3>1, <3>2
    <2>2. CASE NoResumeLoad(c)
      <3> DEFINE r == [c |-> c, lib |-> Empty, stored |-> 0]
      <3>1. Resumed(r)
        BY <1>2, NothingResumed
      <3>2. r.c = c /\ r.lib = Empty /\ r.stored = 0
        OBVIOUS
      <3> HIDE DEF r
      <3> QED BY <2>2, <3>1, <3>2 DEF NoResumeLoad
    <2> QED BY <1>1, <2>1, <2>2
  <1> DEFINE d == r.c
             l == r.lib
             st == r.stored
  <1>4. /\ d \in Caches /\ LibTrue(d, l) /\ st \in 0 .. Len(d.infos)
        /\ \A t \in Nat \ {0} : Excess(d, t) = B(InLib(l, t))
    BY <1>3 DEF Resumed
  <1>5. /\ lib' = l /\ stored' = st /\ debt' = st
        /\ \/ Put(d) /\ playing' = 0
           \/ saved'.file # NoFile /\ \E got \in cache_get_ti(d, saved'.file, FALSE) :
                                        Put(got[1]) /\ playing' = got[2]
    BY <1>3
  <1> HIDE DEF d, l, st
  <1>6. PICK e, p : /\ Put(e) /\ playing' = p /\ Grows(d, e, {}) /\ p \in 0 .. Len(e.infos)
                    /\ \A t \in Nat \ {0} : Excess(e, t) = Excess(d, t) + B(p = t)
    <2>1. CASE Put(d) /\ playing' = 0
      <3>1. Grows(d, d, {}) /\ 0 \in 0 .. Len(d.infos)
        BY <1>4, GrowsSelf, CacheTypes
      <3>2. \A t \in Nat \ {0} : Excess(d, t) = Excess(d, t) + B(0 = t)
        BY <1>4, ExcessType DEF B
      <3> QED BY <2>1, <3>1, <3>2
    <2>2. CASE saved'.file # NoFile /\ \E got \in cache_get_ti(d, saved'.file, FALSE) :
                                         Put(got[1]) /\ playing' = got[2]
      <3> DEFINE g == saved'.file
      <3>1. g \in Names
        BY <2>2 DEF Saves
      <3> HIDE DEF g
      <3>2. PICK got \in cache_get_ti(d, g, FALSE) : Put(got[1]) /\ playing' = got[2]
        BY <2>2 DEF g
      <3>3. Gets(d, got[1], got[2], g)
        BY <1>4, <3>1, CacheGets
      <3>4. /\ Grows(d, got[1], {}) /\ got[2] \in 0 .. Len(got[1].infos)
            /\ \A t \in Nat \ {0} : Excess(got[1], t) = Excess(d, t) + B(got[2] = t)
        BY <3>3 DEF Gets, B
      <3> QED BY <3>2, <3>4
    <2> QED BY <1>5, <2>1, <2>2
  <1>7. e \in Caches
    BY <1>6 DEF Grows
  <1>8. Here' = e /\ infos' = e.infos
    BY <1>6, <1>7, PutMeans DEF Put
  <1>9. LibTrue(e, l) /\ st \in 0 .. Len(e.infos)
    <2>1. Len(d.infos) \in Nat /\ Len(e.infos) \in Nat /\ Len(d.infos) <= Len(e.infos)
      BY <1>4, <1>6, <1>7, CacheTypes DEF Grows
    <2>2. \A t \in 1 .. Len(d.infos) : e.infos[t].file = d.infos[t].file
      BY <1>6 DEF Grows
    <2>3. l \in [Names -> 0 .. Len(d.infos)] /\ \A f \in Names : l[f] # 0 => d.infos[l[f]].file = f
      BY <1>4 DEF LibTrue
    <2>4. ASSUME NEW f \in Names, l[f] # 0 PROVE e.infos[l[f]].file = f
      <3>1. l[f] \in 1 .. Len(d.infos)
        BY <2>1, <2>3, <2>4
      <3> QED BY <2>2, <2>3, <2>4, <3>1
    <2>5. l \in [Names -> 0 .. Len(e.infos)]
      BY <2>1, <2>3
    <2> QED BY <1>4, <2>1, <2>4, <2>5 DEF LibTrue
  <1>10. \A t \in Nat \ {0} : Excess(e, t) = B(InLib(l, t)) + B(p = t)
    BY <1>4, <1>6
  <1>11. /\ MainSound(e, l, {}, p, st, st) /\ WorkSound(e, Idle, {}, <<>>, <<>>)
         /\ Balanced(e, l, {}, p, st, st, Idle, {}, <<>>, <<>>)
    BY <1>6, <1>7, <1>9, <1>10, StartsBalanced
  <1>12. KeptSound'
    BY <1>1 DEF KeptSound
  <1> QED BY <1>1, <1>5, <1>6, <1>7, <1>8, <1>11, <1>12 DEF CacheInv

LEMMA CrashKeeps ==
  ASSUME CacheInv, Crash
  PROVE  CacheInv'
  <1>1. disk \in [Files -> Int] /\ image \in Seq(Images) /\ saved \in Saves
    BY InvParts
  <1>2. image' = image /\ saved' = saved /\ Start
    BY DEF Crash
  <1>3. image' \in Seq(Images) /\ saved' \in Saves
    BY <1>1, <1>2
  <1> QED BY <1>1, <1>2, <1>3, Starts

LEMMA ExitKeeps ==
  ASSUME CacheInv, Exit
  PROVE  CacheInv'
  <1>1. /\ disk \in [Files -> Int] /\ saved \in Saves /\ Here \in Caches
        /\ Here.infos = infos /\ Here.table = table
        /\ playing \in 0 .. Len(infos) /\ stored \in 0 .. Len(infos) /\ Len(infos) \in Nat
        /\ lib \in [Names -> 0 .. Len(infos)]
    BY InvParts
  <1>2. cache_close /\ (resume_exit \/ saved' = saved) /\ Start
    BY DEF Exit
  <1>3. /\ \A t \in 1 .. Len(infos) : infos[t].file \in Names /\ write_ti(t) \in Images
    <2>1. \A t \in 1 .. Len(infos) :
            infos[t].file \in Names /\ infos[t].mtime \in Int /\ infos[t].zero \in BOOLEAN
      BY <1>1, CacheTypes
    <2> QED BY <2>1 DEF write_ti, Images
  <1>4. image' \in Seq(Images)
    <2> DEFINE n == Len(table)
               w == [i \in 1 .. n |-> write_ti(table[i])]
    <2>1. table \in Seq(Nat) /\ ToSet(table) \subseteq 1 .. Len(infos)
      BY <1>1, CacheTypes
    <2>2. n \in Nat /\ \A i \in 1 .. n : table[i] \in 1 .. Len(infos)
      BY <2>1 DEF ToSet
    <2>3. PICK k \in 0 .. n : image' = SubSeq(w, 1, k)
      BY <1>2 DEF cache_close
    <2> HIDE DEF n
    <2>4. w \in Seq(Images) /\ Len(w) = n
      BY <1>3, <2>2
    <2> HIDE DEF w
    <2>5. SubSeq(w, 1, k) \in Seq(Images)
      BY <2>2, <2>4
    <2> QED BY <2>3, <2>5
  <1>5. saved' \in Saves
    <2>1. CASE saved' = saved
      BY <1>1, <2>1
    <2>2. CASE resume_exit
      <3>1. PICK cur \in ({lib[f] : f \in Names} \ {0}) \cup
                           (IF stored # 0 /\ lib[infos[stored].file] # 0 THEN {stored} ELSE {0}) :
              saved' = [file |-> IF playing = 0 THEN NoFile ELSE infos[playing].file,
                        lib_file |-> IF cur = 0 THEN NoFile ELSE infos[cur].file]
        BY <2>2 DEF resume_exit
      <3>2. cur \in 0 .. Len(infos)
        BY <1>1, <3>1
      <3>3. cur # 0 => infos[cur].file \in Names
        BY <1>1, <1>3, <3>2
      <3>4. playing # 0 => infos[playing].file \in Names
        BY <1>1, <1>3
      <3> QED BY <3>1, <3>3, <3>4 DEF Saves
    <2> QED BY <1>2, <2>1, <2>2
  <1> QED BY <1>1, <1>2, <1>4, <1>5, Starts

LEMMA CacheStarts ==
  ASSUME CacheInit
  PROVE  CacheInv
  <1> DEFINE c == [infos |-> <<>>, table |-> <<>>]
  <1>1. /\ Here = c /\ jobs = <<>> /\ snap = Idle /\ out = {} /\ results = <<>>
        /\ lib = Empty /\ held = {} /\ playing = 0 /\ stored = 0 /\ debt = 0
        /\ disk \in [Files -> Int] /\ image = <<>> /\ saved = NoResume
    BY DEF CacheInit, Here, Empty
  <1>2. c \in Caches
    <2>1. ToSet(<<>>) = {}
      BY DEF ToSet
    <2> QED BY <2>1 DEF Caches, Once
  <1>3. \A t : Excess(c, t) = 0
    BY DEF Excess
  <1> HIDE DEF c
  <1>4. LibTrue(c, Empty) /\ \A t \in Nat \ {0} : B(InLib(Empty, t)) = 0
    BY <1>2, NoneInEmpty
  <1>5. 0 \in 0 .. Len(c.infos)
    BY <1>2, CacheTypes
  <1>6. \A t \in Nat \ {0} : Excess(c, t) = B(InLib(Empty, t)) + B(0 = t)
    BY <1>3, <1>4 DEF B
  <1>7. /\ MainSound(c, Empty, {}, 0, 0, 0) /\ WorkSound(c, Idle, {}, <<>>, <<>>)
        /\ Balanced(c, Empty, {}, 0, 0, 0, Idle, {}, <<>>, <<>>)
    BY <1>2, <1>4, <1>5, <1>6, StartsBalanced
  <1>8. KeptSound
    BY <1>1 DEF KeptSound, NoResume, Saves
  <1> QED BY <1>1, <1>2, <1>7, <1>8 DEF CacheInv

-----------------------------------------------------------------------------
LEMMA CacheStutters ==
  ASSUME CacheInv, UNCHANGED cvars
  PROVE  CacheInv'
  <1>1. /\ infos' = infos /\ table' = table /\ disk' = disk /\ jobs' = jobs /\ snap' = snap
        /\ out' = out /\ results' = results /\ lib' = lib /\ held' = held /\ playing' = playing
        /\ stored' = stored /\ debt' = debt /\ saved' = saved /\ image' = image
    BY DEF cvars, work, users
  <1> QED BY <1>1 DEF CacheInv, Here, KeptSound

(* Whatever the worker and the main thread do and in whatever order, the   *)
(* objects, the table, the users' pointers, the jobs and the results fit   *)
(* together, and each object's references are all accounted for.           *)
THEOREM CacheInvariant == CacheSpec => []CacheInv
  <1>1. CacheInit => CacheInv
    BY CacheStarts
  <1>2. CacheInv /\ [CacheNext]_cvars => CacheInv'
    <2> SUFFICES ASSUME CacheInv, [CacheNext]_cvars PROVE CacheInv'
      OBVIOUS
    <2>1. CASE W_add
      BY <2>1, AddWorks
    <2>2. CASE W_update
      BY <2>2, UpdateWorks
    <2>3. CASE get_track_infos
      BY <2>3, RefreshStarts
    <2>4. CASE W_refresh
      BY <2>4, RefreshWorks
    <2>5. CASE W_refreshed
      BY <2>5, RefreshEnds
    <2>6. CASE \E f \in Names : cmus_play_file(f) \/ (\E force \in BOOLEAN : cmus_add(f, force))
      BY <2>6, FilePlayed, AddScheduled
    <2>7. CASE cmus_update_lib
      BY <2>7, UpdateScheduled
    <2>8. CASE \E force \in BOOLEAN : cmus_update_cache(force)
      BY <2>8, RefreshScheduled
    <2>9. CASE \E f \in Names : Hold(lib[f]) \/ Store(lib[f])
      BY <2>9, TrackHeld, TrackStored
    <2>10. CASE \E ti \in held : Release(ti)
      BY <2>10, TrackReleased
    <2>11. CASE \E ti \in 1 .. Len(infos) : \/ job_handle_add_result(ti) \/ job_handle_update_result(ti)
                                            \/ job_handle_update_cache_result(ti)
      BY <2>11, AddHandled, UpdateHandled, CacheHandled
    <2>12. CASE M_result_done
      BY <2>12, ResultHandled
    <2>13. CASE Exit
      BY <2>13, ExitKeeps
    <2>14. CASE Crash
      BY <2>14, CrashKeeps
    <2>15. CASE \E f \in Files, t \in 0 .. MaxTime : Touch(f, t)
      BY <2>15, FileTouched, TimeAssumption
    <2>16. CASE UNCHANGED cvars
      BY <2>16, CacheStutters
    <2> QED BY <2>1, <2>2, <2>3, <2>4, <2>5, <2>6, <2>7, <2>8, <2>9, <2>10, <2>11, <2>12, <2>13,
               <2>14, <2>15, <2>16 DEF CacheNext
  <1> QED BY <1>1, <1>2, PTL DEF CacheSpec

(* The table owns one reference at most, the library too. *)
LEMMA OwnersCounted ==
  ASSUME CacheInv, NEW t \in 1 .. Len(infos)
  PROVE  infos[t].refs + B(debt = t) = Owners(t)
  <1> DEFINE I == {i \in DOMAIN table : table[i] = t}
             g == infos[t].file
             k == B(t \in ToSet(table))
             z == B(debt = t)
             m == Mains(lib, held, playing, stored, t)
             w == Works(infos, snap, out, jobs, results, t)
             x == infos[t].refs
  <1>1. /\ Here \in Caches /\ Here.infos = infos /\ Here.table = table
        /\ lib \in [Names -> 0 .. Len(infos)] /\ Len(infos) \in Nat /\ LibTrue(Here, lib)
        /\ WorkSound(Here, snap, out, jobs, results)
    BY InvParts
  <1>2. table \in Seq(Nat) /\ Once(table) /\ g \in Names /\ x \in Int /\ t \in Nat \ {0}
    BY <1>1, CacheTypes
  <1>3. Cardinality(I) = k
    <2>1. CASE t \in ToSet(table)
      <3>1. PICK i \in DOMAIN table : table[i] = t
        BY <2>1 DEF ToSet
      <3>2. I = {i}
        BY <1>2, <3>1 DEF Once
      <3>3. Cardinality({i}) = 1
        BY FS_Singleton
      <3> HIDE DEF I
      <3> QED BY <2>1, <3>2, <3>3 DEF B
    <2>2. CASE t \notin ToSet(table)
      <3>1. I = {}
        BY <2>2 DEF ToSet
      <3> HIDE DEF I
      <3> QED BY <2>2, <3>1, FS_EmptySet DEF B
    <2> QED BY <2>1, <2>2
  <1>4. (lib[g] = t) <=> InLib(lib, t)
    <2>1. \A f \in Names : lib[f] = t => f = g
      BY <1>1, <1>2 DEF LibTrue
    <2> QED BY <1>2, <2>1 DEF InLib
  <1>5. Excess(Here, t) = x - k
    BY <1>1 DEF Excess
  <1>6. Excess(Here, t) + z = m + w
    BY <1>1, <1>2 DEF CacheInv, Balanced
  <1>7. k \in Int /\ z \in Int /\ m \in Int /\ w \in Int
    <2>1. w \in Int
      BY <1>1, WorksType
    <2> QED BY <2>1, MainsType DEF B
  <1> HIDE DEF k, z, m, w, x
  <1>8. x + z = k + m + w
    BY <1>2, <1>5, <1>6, <1>7
  <1>9. Owners(t) = k + m + w
    <2> DEFINE l == B(InLib(lib, t))
               hd == B(t \in held)
               p == B(playing = t)
               s == B(stored = t)
               s1 == B(t \in snap)
               s2 == B(t \in out)
               j == InJobs(jobs, t)
               r == InResults(results, t)
               n == Linked(infos, out, results, t)
    <2>1. B(lib[infos[t].file] = t) = l
      BY <1>4 DEF B
    <2>2. \A old : Waits(old) <=> Waiting(out, results, old)
      BY DEF Waits, Waiting, Refreshing
    <2>3. {old \in DOMAIN infos : infos[old].next = t /\ Waits(old)}
            = {old \in DOMAIN infos : infos[old].next = t /\ Waiting(out, results, old)}
      BY <2>2
    <2>4. {i \in DOMAIN jobs : jobs[i].kind = "update" /\ t \in jobs[i].tis}
            = {i \in DOMAIN jobs : Updates(jobs[i], t)}
      BY DEF Updates
    <2>5. Owners(t) = k + l + hd + p + s + s1 + s2 + j + r + n
      BY <1>3, <2>1, <2>3, <2>4 DEF Owners, InJobs, InResults, Linked, Links
    <2>6. m = l + hd + p + s /\ w = s1 + s2 + j + r + n
      BY DEF m, w, Mains, Works
    <2>7. /\ j \in Int /\ r \in Int /\ n \in Int /\ s1 \in Int /\ s2 \in Int
      BY <1>1, WorkTerms
    <2>8. l \in Int /\ hd \in Int /\ p \in Int /\ s \in Int
      BY DEF B
    <2> HIDE DEF l, hd, p, s, s1, s2, j, r, n, k, m, w
    <2> QED BY ONLY <1>7, <2>5, <2>6, <2>7, <2>8
  <1> QED BY <1>8, <1>9 DEF x, z

(* No track object is freed while anything points to it, none is leaked:   *)
(* its count is the number of its owners, but for the reference that       *)
(* resume_load gives up twice.                                             *)
THEOREM TrackRefsStayBalanced == CacheSpec => []TrackRefsBalanced
  <1>1. CacheInv => TrackRefsBalanced
    BY OwnersCounted DEF TrackRefsBalanced
  <1> QED BY <1>1, CacheInvariant, PTL

=============================================================================
