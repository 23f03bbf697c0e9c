-------------------------------- MODULE Input -------------------------------
(***************************************************************************)
(* The input layer (input.c) from ip_new to ip_delete: opening a file or,  *)
(* through redirections and remote playlists, a stream (http.c), reading   *)
(* whole frames in the player's format, end of file, seeking, closing.     *)
(*                                                                         *)
(* Descriptors are numbers; opened[d] says who owns an open one.  Another    *)
(* thread opens files of its own meanwhile.                                *)
(***************************************************************************)
EXTENDS Integers, FiniteSets

CONSTANTS
  Fds,          \* descriptors: bound on how many are open
  MaxLines,     \* bound: entries of a remote playlist
  Bits,         \* sample sizes of the decoders
  Channels,     \* numbers of channels of the decoders
  CHUNK_SIZE    \* bytes of a chunk of the player's buffer

(* buffer.h:5: a chunk is a multiple of every supported frame size, that   *)
(* of 16 bit stereo among them.                                            *)
ASSUME InputAssumption ==
  /\ Fds \subseteq Nat \ {0}
  /\ Bits \subseteq {8, 16, 24, 32} /\ Channels \subseteq Nat \ {0}
  /\ CHUNK_SIZE \in Nat /\ CHUNK_SIZE % 4 = 0
  /\ \A b \in Bits, c \in Channels : CHUNK_SIZE % ((b \div 8) * c) = 0

VARIABLES
  life,         \* "none", "new", "opening", "open"
  remote,       \* data.remote
  fd,           \* data.fd; 0: none
  hfd,          \* hg.fd of the http request under way; 0: none
  opened,         \* the owner of each descriptor
  step,         \* what open_remote or open_file does next
  redirections, \* of the request under way
  lines,        \* entries of the remote playlist left; -1: not in a playlist
  rc,           \* the result so far
  eof, bits, channels,
  scale,        \* pcmConvertScale; 0: not set up
  h,            \* bytes in the chunk that is filled
  ret           \* how the last ip_read went

ivars == <<life, remote, fd, hfd, opened, step, redirections, lines, rc, eof, bits, channels,
           scale, h, ret>>
http  == <<hfd, step, redirections, lines, rc>>
sound == <<eof, bits, channels, scale, h, ret>>

Free == {d \in Fds : opened[d] = "none"}
Lowest == CHOOSE d \in Free : \A e \in Free : d <= e
Close(d, w) == IF d = 0 THEN w ELSE [w EXCEPT ![d] = "none"]

InputInit ==
  /\ life = "none" /\ remote = FALSE /\ fd = 0 /\ hfd = 0
  /\ opened = [d \in Fds |-> "none"]
  /\ step = "none" /\ redirections = 0 /\ lines = -1 /\ rc = 0
  /\ eof = FALSE /\ bits = 0 /\ channels = 0 /\ scale = 0 /\ h = 0 /\ ret = "none"

-----------------------------------------------------------------------------
(* ip_init *)
Cleared == /\ eof' = FALSE /\ bits' = 0 /\ channels' = 0 /\ scale' = 0 /\ h' = 0
           /\ ret' = "none"

(* open_remote's variables go out of scope. *)
Left == hfd' = 0 /\ redirections' = 0 /\ lines' = -1 /\ rc' = 0

ip_new(r) ==
  /\ life = "none"
  /\ life' = "new" /\ remote' = r /\ fd' = 0
  /\ Cleared
  /\ UNCHANGED <<http, opened>>

ip_open ==
  /\ life = "new"
  /\ life' = "opening"
  /\ step' = IF remote THEN "get" ELSE "file"
  /\ redirections' = 0 /\ lines' = -1 /\ rc' = 0 /\ hfd' = 0
  /\ UNCHANGED <<remote, fd, opened, sound>>

(* http_open, once for each redirection.  hg.fd keeps the number of a      *)
(* socket that http_open had to close again.                               *)
http_open ==
  /\ life = "opening" /\ step = "get"
  /\ \/ (* not a uri, no such host, no socket *)
        /\ hfd' = 0 /\ rc' = -1 /\ step' = "got" /\ UNCHANGED opened
     \/ (* cannot connect: a timeout or an error *)
        /\ Free # {} /\ hfd' = Lowest /\ rc' = -1 /\ step' = "got" /\ UNCHANGED opened
     \/ (* connected *)
        /\ Free # {} /\ hfd' = Lowest /\ opened' = [opened EXCEPT ![hfd'] = "ip"]
        /\ rc' = 0 /\ step' = "connected"
  /\ UNCHANGED <<life, remote, fd, redirections, lines, sound>>

(* What each part of http_get may come to: -1 is an error or a timeout,    *)
(* -2 an answer that is not HTTP, 0 success; then the code of the answer.  *)
http_write == {0, -1}
http_read_response == {0, -1, -2}
http_parse_response == {-2, 200, 302, 404}
http_get == {r \in http_write \cup http_read_response : r # 0} \cup http_parse_response

(* do_http_get with the answer; 302 stands for 301, 302, 303 and 307. *)
do_http_get ==
  /\ life = "opening" /\ step = "connected"
  /\ \E answer \in http_get, located \in BOOLEAN :
       IF answer = 302 /\ located
       THEN /\ redirections' = redirections + 1
            /\ IF redirections' > 2 THEN rc' = -1 /\ step' = "got"
               ELSE step' = "moved" /\ UNCHANGED rc
       ELSE /\ rc' = (IF answer = 200 THEN 0 ELSE -1) /\ step' = "got"
            /\ UNCHANGED redirections
  /\ UNCHANGED <<life, remote, fd, hfd, opened, lines, sound>>

Redirect ==
  /\ life = "opening" /\ step = "moved"
  /\ opened' = Close(hfd, opened) /\ hfd' = 0 /\ step' = "get"
  /\ UNCHANGED <<life, remote, fd, redirections, lines, rc, sound>>

Fault_SetupKeepsSocket ==
  \/ rc' = 0 /\ fd' = hfd /\ step' = "plugin" /\ opened' = Close(hfd, opened)
  \/ rc' = -1 /\ step' = "failed" /\ opened' = Close(hfd, opened) /\ UNCHANGED fd

(* setup_remote: the plugin for the content type, if there is one. *)
setup_remote ==
  \/ rc' = 0 /\ fd' = hfd /\ step' = "plugin" /\ UNCHANGED opened
  \/ rc' = -1 /\ step' = "failed" /\ opened' = Close(hfd, opened) /\ UNCHANGED fd

(* http_read_body may fail; an empty playlist is an error too. *)
read_playlist ==
  /\ lines' \in 0 .. MaxLines
  /\ opened' = Close(hfd, opened)
  /\ IF lines' = 0 THEN rc' = -1 /\ step' = "failed" ELSE step' = "line" /\ rc' = 0
  /\ UNCHANGED fd

(* open_remote goes on with the response. *)
open_remote ==
  /\ life = "opening" /\ step = "got" /\ lines = -1
  /\ IF rc # 0 THEN step' = "failed" /\ UNCHANGED <<rc, fd, opened, lines>>
     ELSE \/ setup_remote /\ UNCHANGED lines
          \/ read_playlist
  /\ UNCHANGED <<life, remote, hfd, redirections, sound>>

(* handle_line, for each entry until one can be opened. *)
NextLine ==
  /\ life = "opening" /\ step = "line"
  /\ IF lines = 0 THEN step' = "failed" /\ UNCHANGED <<lines, redirections, hfd>>
     ELSE step' = "get" /\ lines' = lines - 1 /\ redirections' = 0 /\ hfd' = 0
  /\ UNCHANGED <<life, remote, fd, opened, rc, sound>>

handle_line ==
  /\ life = "opening" /\ step = "got" /\ lines >= 0
  /\ IF rc # 0
     THEN opened' = Close(hfd, opened) /\ step' = "line" /\ UNCHANGED <<rc, fd>>
     ELSE setup_remote
  /\ UNCHANGED <<life, remote, hfd, redirections, lines, sound>>

open_file ==
  /\ life = "opening" /\ step = "file"
  /\ \/ rc' = -1 /\ step' = "failed" /\ UNCHANGED <<fd, opened>>
     \/ /\ Free # {}
        /\ fd' = Lowest /\ opened' = [opened EXCEPT ![fd'] = "ip"]
        /\ rc' = 0 /\ step' = "plugin"
  /\ UNCHANGED <<life, remote, hfd, redirections, lines, sound>>

(* ops->Open.  A file the plugin does not support is tried again, with     *)
(* the plugin that is registered for its extension: the same.              *)
plugin_open ==
  /\ life = "opening" /\ step = "plugin"
  /\ \/ /\ life' = "open" /\ step' = "none"
        /\ bits' \in Bits /\ channels' \in Channels
        /\ UNCHANGED <<eof, scale, h, ret>>
     \/ /\ step' = "failed" /\ UNCHANGED <<life, sound>>
     \/ /\ ~remote /\ step' = "unsupported" /\ UNCHANGED <<life, sound>>
  /\ Left
  /\ UNCHANGED <<remote, fd, opened>>

Fallback ==
  /\ life = "opening" /\ step = "unsupported"
  /\ step' = "plugin"
  /\ UNCHANGED <<life, remote, fd, hfd, opened, redirections, lines, rc, sound>>

(* ip_open fails: ip_reset(ip, 1) *)
ip_reset ==
  /\ life = "opening" /\ step = "failed"
  /\ life' = "new" /\ step' = "none"
  /\ opened' = Close(fd, opened) /\ fd' = 0
  /\ Cleared /\ Left
  /\ UNCHANGED remote

-----------------------------------------------------------------------------
(* ip_setup: 8 and 16 bit mono and stereo become 16 bit stereo. *)
ip_setup ==
  /\ life = "open" /\ scale = 0
  /\ scale' = IF bits <= 16 /\ channels <= 2 THEN (3 - channels) * (3 - bits \div 8) ELSE 1
  /\ UNCHANGED <<life, remote, fd, opened, http, eof, bits, channels, h, ret>>

(* PcmConvert, which reads from tmp, is set for these formats. *)
Converts == bits <= 16 /\ channels <= 2 /\ ~(bits = 16 /\ channels = 2)
FrameSize == (bits \div 8) * channels
TmpSize == 8 * 1024

Fault_AskedUncapped(count) == count \div scale

(* What the plugin is asked for. *)
Asked(count) ==
  LET n == count \div scale
  IN IF scale > 1 /\ n > TmpSize THEN TmpSize ELSE n

(* ip_read into the free part of the chunk, then buffer_fill.  A plugin    *)
(* hands out what it has: in the model about half, or all it is asked, or  *)
(* first of all a single frame.                                            *)
ip_read ==
  /\ life = "open" /\ scale > 0 /\ ~eof
  /\ LET count == CHUNK_SIZE - h
         n == Asked(count)
         half == ((n \div 2) \div FrameSize) * FrameSize
     IN \E got \in ({half, n} \cup IF h = 0 THEN {FrameSize} ELSE {}) \ {0} :
          h' = IF CHUNK_SIZE - (h + got * scale) < 1024 THEN 0 ELSE h + got * scale
  /\ ret' = "data"
  /\ UNCHANGED <<life, remote, fd, opened, http, eof, bits, channels, scale>>

(* Nothing to read: select() times out, is interrupted, or the plugin says *)
(* EAGAIN.  End of file and errors of the plugin set eof; an error of      *)
(* select() does not.                                                      *)
ip_read_nothing(err) ==
  /\ life = "open" /\ scale > 0 /\ ~eof
  /\ ret' = err
  /\ eof' = (err \in {"eof", "plugin"})
  /\ h' = IF err # "again" /\ h > 0 THEN 0 ELSE h
  /\ UNCHANGED <<life, remote, fd, opened, http, bits, channels, scale>>

(* ip_seek *)
ip_seek ==
  /\ life = "open" /\ scale > 0 /\ ~remote
  /\ eof' = FALSE /\ h' = 0 /\ ret' = "none"
  /\ UNCHANGED <<life, remote, fd, opened, http, bits, channels, scale>>

ip_close ==
  /\ life = "open"
  /\ life' = "new"
  /\ opened' = Close(fd, opened) /\ fd' = 0
  /\ Cleared
  /\ UNCHANGED <<remote, http>>

ip_delete ==
  /\ life \in {"new", "open"}
  /\ life' = "none"
  /\ opened' = Close(fd, opened) /\ fd' = 0
  /\ Cleared
  /\ UNCHANGED <<remote, http>>

(* Another thread opens and closes files. *)
Other ==
  /\ \/ Free # {} /\ opened' = [opened EXCEPT ![Lowest] = "other"]
     \/ \E d \in Fds : opened[d] = "other" /\ opened' = [opened EXCEPT ![d] = "none"]
  /\ UNCHANGED <<life, remote, fd, http, sound>>

Opening ==
  \/ http_open \/ do_http_get \/ Redirect \/ open_remote \/ NextLine \/ handle_line \/ open_file
  \/ plugin_open \/ Fallback \/ ip_reset

InputNext ==
  \/ (\E r \in BOOLEAN : ip_new(r)) \/ ip_open \/ Opening
  \/ ip_setup \/ ip_read \/ (\E err \in {"again", "eof", "plugin", "select"} : ip_read_nothing(err))
  \/ ip_seek \/ ip_close \/ ip_delete \/ Other

InputSpec == InputInit /\ [][InputNext]_ivars

-----------------------------------------------------------------------------
(* Whatever redirections, playlist entries and failures came before, an    *)
(* input that is open has a descriptor of its own, and one that is closed  *)
(* has none.                                                               *)
OpenHasSource ==
  /\ life = "open" => fd # 0 /\ opened[fd] = "ip"
  /\ life \in {"none", "new"} => fd = 0

(* buffer.h:5 "must be a multiple of any supported frame size": the        *)
(* decoder is only asked for whole frames, in any format, however the      *)
(* chunk was filled so far (BUG_ON of ip_read), and what comes back after  *)
(* the conversion to 16 bit stereo fits both buffers.                      *)
WholeFrames ==
  life = "open" /\ scale > 0 =>
    /\ Asked(CHUNK_SIZE - h) % FrameSize = 0
    /\ Asked(CHUNK_SIZE - h) * scale <= CHUNK_SIZE - h
    /\ Converts => scale > 1 /\ Asked(CHUNK_SIZE - h) <= TmpSize

(* The way from ip_open to the decoder's Read: the input owns what it     *)
(* reads from, and asks for whole frames that fit.                         *)
InputSound == OpenHasSource /\ WholeFrames

(* An attempt to open comes to an end: every fallback "try next plugin"    *)
(* (input.c:438) leaves one plugin less to try.                            *)
OpenEnds == life = "opening" ~> life # "opening"
=============================================================================
