# graceful-music: a TLA+ verification project

graceful-music is a terminal music player in C, descended from cmus. Its core is
a player with three threads that share a decoder, a ring buffer of decoded
samples and an output device; around it stand a library with playlists and a play
queue, a worker thread that reads tags, a cache of track objects, and a curses
interface that can also be driven through a socket and D-Bus. This directory
models the parts whose correctness depends on the order of events, checks the
models with TLC on small instances and proves the central facts with TLAPS.

All source paths below are relative to `src/app/`.

## 1. Inventory

| part | state | operations | interacts with |
|---|---|---|---|
| ring buffer (`buffer.c`) | chunks with `l`, `h`, `filled`; `buffer_ridx`, `buffer_widx` | get/fill by the producer, get/consume by the consumer, reset, resize | the two player threads, which use the returned pointers without a lock |
| player (`player.c`) | producer and consumer status, `ip`, buffer format, published `player_info_priv` | play, pause, stop, seek, set file, set device, set buffer size, exit; two thread loops | input and output layers, main thread, `track_info` references |
| handshake (`cmus.c`) | request pipe, `cmus_next_file`, condition variable | request by the consumer, answer by the main loop | player, library, playlists |
| event loop (`ui_curses.c`) | select set, snapshot of the player's state | one turn: snapshot, select, clients, keys, D-Bus, job results, next track | everything |
| input layer (`input.c`) | open plugin, `eof`, remote stream, cached metadata | new, open with fallback over plugins, read, seek, close, delete | decoders, http |
| output layer (`output.c`, `plugins/output/alsa.c`) | selected plugin, device handle | open, write, pause, drop, close, select | player |
| worker and jobs (`worker.c`, `job.c`) | job list, current job, cancel state; result list and pipe | add, remove by callback and type, run, push result, handle results | main thread, cache, library |
| cache and track objects (`cache.c`, `track_info.c`) | hash table of tracks, reference counts | get, lookup, remove, refresh, save | worker, library, playlists, player |
| library, playlists, queue (`lib.c`, `tree.c`, `pl.c`, `play_queue.c`, `editable.c`) | sorted track lists, shuffle trees, marks, current track | add, remove, mark, move, sort, next/previous track | handshake, worker |
| windows, search, browser | selection, scroll position, search text | move, page, search next | interface |
| command line, history, keys, commands, options, filters, expressions | text and cursor, history list, bindings, filter list | editing, lookup, parsing, evaluation | interface, library |
| remote control (`server.c`, `mpris.c`) | clients, partially read lines | accept, serve, authenticate | command layer |
| streams (`http.c`, `read_wrapper.c`), tags, cue sheets, text | parsers | | input layer |
| containers (`rbtree.c`, `mergesort.c`, `locking.c`) | tree, list, fifo mutex | insert, erase, sort, lock | library, cache, worker |

What makes the system hard: three threads and two mutexes with calls that hold both
while they wait for another thread; pointers that are used after the lock that
granted them was released; status variables that every path, failing or not,
must leave consistent; condition variables with sleepers to wake; state
copied by the main thread and compared after it went stale; references handed
from thread to thread. The hazards are listed with their lines in
`PROJECT.json`.

What makes the parts correct:

* ring buffer: one owner per chunk, bytes delivered once and in order, nothing
  left behind at end of file, no assertion fails;
* player: statuses, device, input, buffer and published state agree whenever
  nobody is inside; no reference is leaked or dropped twice; nobody sleeps who has
  work; requests, end of file and exit are dealt with in the end;
* worker and jobs: every job runs once or is removed, results are applied once and
  in order; the cache and reference counts agree with who holds a track;
* library and playlists: sorted and shuffled orders hold the same tracks, the
  next track is one of them, marks and the current track survive edits;
* windows, command line, history: selection and cursor stay inside their bounds;
* input, decoders, output: descriptors have one owner, samples are delivered once and
  scaled once, the device's state follows the player's;
* options, bindings, filters: what is shown is what applies, and it survives a restart;
* parsers (expressions, patterns, cue sheets, command arguments): they mean what the
  grammar says.

## 2. Modules

| module | models | role |
|---|---|---|
| `ChunkQueue` | what `buffer.c` promises | abstract specification: a bounded queue of chunks |
| `Buffer` | `buffer.c` and how the two threads use it | detailed specification, refines `ChunkQueue` |
| `Buffer_proofs` | | the proofs about `Buffer` |
| `Selection`, `Selection_proofs` | | filtering and folding a sequence in a form that can be proved about, and the lemmas on it, on least elements and on induction |
| `Player` | `player.c`, the handshake of `cmus.c`, the event loop's order, the parts of `input.c`, `output.c`, `track_info.c` and `job.c` the player meets | written against the chunk queue |
| `Player_proofs` | | the proofs about `Player` |
| `Output` | `plugins/output/alsa.c`, software volume and replay gain of `player.c` | the device behind the player |
| `Input` | `input.c`, the requests of `http.c`, the sizes of `pcm.c` | opening, reading and closing of one input |
| `Decoder` | `plugins/input/ffmpeg.c`, `flac.c`, `aac.c`, `read_wrapper.c` | what a plugin keeps between two reads |
| `Cue` | `cue.c` | pure: a sheet read line by line |
| `FifoLock` | what the fifo mutex of `locking.c` promises | abstract specification: a lock granted in the order of the requests |
| `FifoMutex` | the fifo mutex | detailed specification, refines `FifoLock` |
| `FifoMutex_proofs` | | the proofs about `FifoMutex` |
| `Jobs` | `worker.c`, `job.c` and the commands that queue, remove and ask for jobs | main thread against worker thread |
| `Jobs_proofs` | | the proofs about `Jobs` |
| `Cache` | `cache.c`, `track_info.c`, the cache update job, `resume` of `options.c` | reference counts under two threads and a restart |
| `Services_proofs` | | the proofs about `Input`, `Decoder`, `Output` and `Cache` |
| `Window` | `window.c` | pure operators: what each function does to the selection and the top row |
| `Editable` | `editable.c`, the sorted lists of `track.c`, `play_queue.c`, the window commands | one track list with its window, on top of `Window` |
| `Editable_proofs` | | the proofs about `Window` and `Editable` |
| `LibTree` | `tree.c` | operators on the library: artists, albums, tracks and the two windows |
| `Library` | `lib.c` with its filters | the library's state machine, on top of `LibTree` |
| `TrackOrder` | the list and shuffle steps of `track.c` | operators shared by the next two |
| `PlayOrder` | the choice of the next track in `lib.c`, `cmd_win_activate` | operators on a library of `LibTree` |
| `Playlists` | `pl.c` | which playlist is visible, marked, playing |
| `Playlists_proofs` | | the proofs about `Playlists` |
| `Browser` | `browser.c`, `load_dir.c`, `search.c` | over a file system that others change |
| `CommandLine` | `cmdline.c`, `history.c`, `tabexp.c`, the keys of `command_mode.c` and `search_mode.c` | the line that is edited |
| `Commands` | the commands of `command_mode.c` with an algorithm of their own | `lqueue`, `tqueue`, `vol`, `mute`, `run` |
| `Bindings` | `keys.c`, `help.c` | bindings and the help window |
| `Filters` | `filters.c` | the filters view |
| `Expr`, `Glob` | `expr.c`, `glob.c` | parsers and evaluation against reference definitions |
| `Options` | `options.c`, the option calls of `mpris.c` | setters, getters, autosave |
| `Server` | `server.c` and its loop in `ui_curses.c` | remote clients |
| `MCBuffer`, `MCPlayer`, `MCFifoMutex`, `MCJobs`, `MCEditable`, `MCCommands` | | instances for TLC |
| `MCCollections` | extends `Playlists`, instantiates `Library` and `PlayOrder` | one instance, a part at a time |
| `MCServices` | extends `Input`, `Decoder`, `Output`, `Cache`, instantiates the remaining modules | one instance, a part at a time |

### Buffer

Each `buffer_*` function but `buffer_init` locks `buffer_mutex` for its whole body and is
one action. A resize is three: the new `buffer_nr_chunks` with the `free` of
`buffer_init` (`set_buffer_chunks`), its `xnew`, and its `buffer_reset`; `mem` says
what the chunks' memory is meanwhile, and what is read from it may be anything. Between `buffer_get_wpos` and `buffer_fill` the decoder writes memory
(`ip_read`), between `buffer_get_rpos` and `buffer_consume` the device reads it;
the pointers held meanwhile are the variables `wpos` and `rpos`. Bytes are
numbered in the order of decoding and `data` holds those numbers, so a byte that
is lost, repeated or overwritten shows. Resets and resizes need both of the
player's mutexes, hence happen while no pointer is held (`NoPointers`); module
`Player` is where those mutexes are modelled. What the threads do under a player mutex
finds the memory `live`; the one count that the producer takes without any
(player.c:1007) does not, so what `RingSound` says of the count it says outside
of a resize. `MaxBytes` bounds the bytes
delivered; it is a bound of the model only.

### Player

The state that `consumer_mutex` and `producer_mutex` protect is one record, `p`,
and each static function of `player.c` is an operator from records to records
with the same name (less the leading underscore). The commands compose them as the
C code does, with the environment's answers (does opening the input or device
succeed, does the seek, which track does the playlist hand out) in the
record `e`. A step of a thread is what happens between two points where it gives
way: taking a mutex (`player_lock` takes them in two steps), a condition wait,
the wait for the next track, one turn of a read or write loop. A reopen of the device
(player.c:866-877, 923-934) is two steps, `Reopening` inside the action that met the failure
and `C_reopen`, because it holds only the consumer's mutex. The history variable
`overtaken` is set when the producer publishes an error between them (section 4). The main thread
goes around `main_loop`: snapshot and `select`, any number of commands, then
`cmus_provide_next_track` if `select` had seen a request, then the top of the loop
or, after quit, `player_exit`.

`player_pause` and `player_pause_playback` read the status and `*ip` before they
lock, as in the code; a dangling `ip` may yield anything. The sample format and
channel map are one value, the 250 ms of `_prebuffer` are given as chunks per
track (`LimitOf`), the albums' names and the continue options a free choice.
Cache updates replace a `track_info` by a new one of the same file; both count as
the same track. Left out: bitrates, stream metadata, error texts; positions, software volume and replay
gain are in `Output`.

### FifoMutex

Every atomic operation on the tail, every use of the pthread mutex and of a
condition variable is a step of its own; a thread's queue record is named after
the thread, and is live until the thread returns from `fifo_mutex_lock`. `asked`
is a history variable: the threads in the order of their exchanges. The pthread
mutex goes to any thread that wants it, and waits may end without a signal.

### Jobs

The worker's loop is cut where it holds no lock and where the job itself looks at
the cancel flag: taking a job, one file of an add job, pushing a batch, writing
the pipe, the end of a job. The tracks of a cue sheet or CD share the place of
their entry and come forwards, in every job, without a look at the cancel flag
(`W_add_track`); entries of a directory or playlist come backwards when the job
prepends. The main thread queues jobs (`cmus_add`,
`cmus_update_lib`, the deletion of a playlist), removes them and waits for the
running one to be cancelled, asks whether there is one before a save, applies
results after the pipe wakes its loop, and quits. The queue and the playlists without sort
keys are sequences (`coll`), the library and the sorted playlists sets (`bags`), since a
sorted list puts a track where its keys belong. What `worker_has_job_by_cb` finds behind the list head is undefined and
a free choice. The cache update job is in `Cache` (and its result an action of
`Player`); the contents of saved files are left out.

### Window and Editable

Rows are positions in a ring with a head that is no row (position 0), as the
iterators of `iter.h` see them; each function of `window.c` is an operator from
windows to windows, with its loops replaced by the arithmetic they do. All rows are
selectable, which holds for the windows of track lists.

The state of `Editable` is the record `e`: the list, the tracks in its red-black
tree in order, the tracks whose tree node looks used (`RB_EMPTY_NODE` is false), the marks, the two
counters and the window. Every function of `editable.c` is one action with all
it calls; the main thread alone runs them. The shape of the tree is left out: a
search ends at any place where the neighbours compare as they must, and these all
lie on its path. A track's info is a number, its place in the order of the sort keys; `keys` is
that order or the empty one. A window shared by playlists
is left and taken back. Two things end the program in the model: the use of a node that is
not in the tree (`ub`) and a failed assertion (`win.bug`). `tidy` and `overshot` are
history variables, for what is said only of lists that were not shuffled or
changed since the last sort, and of windows without a page command past the
last row. Left out: `total_time`, filter expressions (a filter is the set of infos
that pass it), the text of a search (it may find any row).

### Output

The device is an ALSA state with the units it holds; a unit stands for a number of
frames. `snd_pcm_*` calls and the hardware (which plays, underruns and suspends) are
external and marked so in the map. Every call of the player to the device is followed
through the plugin: open, write with recovery, pause with and without hardware pause,
drop, close. Beside it stand `consumer_pos` and `scale_pos` and, for every unit in the
player's buffer, how often it was scaled; `scale_samples`, the partial write, the
resets and the switching of `softvol` and `replaygain` move them as in the code.

### Input

An input goes from `ip_new` through opening to reading and back. Opening is cut at
every call that may fail or give way to another thread's `open`: the request, its
answer, a redirection, the lines of a remote playlist, the plugin. `opened` says who
owns each descriptor, so that a descriptor closed twice, which may by then be another
thread's, or never shows. `ip_setup` and `ip_read` keep the arithmetic of sample
sizes and channels: what the plugin is asked for and what the conversion to 16
bit stereo makes of it, in the byte sizes of the code.

### Decoder

Samples carry numbers, and bytes of the output the numbers of their samples. A fill takes
a frame of any size from the library; a read hands out as many bytes as are asked for. `ffmpeg`
has outputs of 1, 2 or 4 bytes a sample, and counts what a fill added for 2; `made` tells
what was converted from what lies behind it in the memory. `ffmpeg` and `flac` keep the rest
of a frame, `aac` two buffers over a stream from which `read_wrapper` cuts the metadata
blocks of a radio server. Reads may be short, decoding may fail, seeks may fail.

### Cache

`infos[n]` is a track object with its reference count, and everything that holds
one is a variable: the table, the library, playlists and queue, the player, jobs and
results, the refresh's own list. The worker's refresh is cut where it yields the fifo
mutex. The tracks of a job, of a result and of the refresh are sets, taken one at a time in any order:
the code's order, by file name, is one of them. The program may end in order, writing the cache file and the resume file, or
crash with the old ones; files change, and the next start reads both back.
`resume_load` drops its reference twice (options.c:1784 and 1786); `debt` names the
track that lacks one, so the invariant says that no other reference is wrong.

### Library, LibTree, PlayOrder, Playlists

A library is one record: the table of all tracks, the sorted list, the tree of
artists and albums, the orders of tracks and albums for shuffle, the current track,
the two windows and what is selected in them. Operators of `LibTree` map libraries to
libraries, or to sets of them where `rand()` or the shape of a tree decides. Names and
sort keys are numbers in collation order; a filter is the set of tracks that pass
it, and a live filter what the user types. The history `grown` of the filter is set by
a live filter whose beginning meant another year before (`Regrown`, section 4).

`PlayOrder` has every combination of `shuffle`, `play_sorted`, `aaa_mode`, `repeat` and
`auto_reshuffle`; its property follows each mode through whole rounds from every
state of the orders. `Playlists` keeps the list, marks, shuffled order and name of
each playlist; `ub` is set when a freed playing track is used.

### CommandLine, Bindings, Filters, Options, Commands, Server

A line is a sequence of bytes with a character of two bytes among them; `cl` holds
the byte and character counts and positions that `cmdline.c` keeps side by side. An
entry of the history that `search_pos` points to may be freed. `Bindings` keeps the
lists of each context, the count of keys of each command and the rows of the help
window. In `Filters` an expression is the sequence of its leaves, names of filters and tests; what
the library gets is its expansion, in which the tests stand for the names. `Long` are the names
that do not fit into the 64 bytes of `for_each_name`, and the history variable `touched` the filters
set or deleted since the last activation.

`Options` has a reader and a writer for each kind of option, the two with a fixed width
(sort keys in 128 bytes, six digits of `replaygain_preamp`) included, and the setters that
change others; `silent` is set when a client changes the loop status, which is announced to nobody. The last step of a run writes all options and reads them
back in the order of their names. `Commands` has `rand_array` step by step, because it
reads and writes one array; the volumes, and the splitting of `run`'s line.
`Server` has the loop over clients with removal in the middle of it, input in whole or
broken lines, and the two address families with their rights.

### Expr, Glob, Cue, Browser

`Expr` parses every sequence of up to five tokens, and every short expression of up to four
parts, and compares the result of `expr_eval` with a direct definition of what the
text means. `Glob` compiles, simplifies and matches every pattern of up to four
characters against every text of up to three and compares with the definition of a
pattern; one letter carries an accent and has two bytes, and matches the plain one. `Cue` reads sheets line by line, wrong ones included. `Browser` walks
a directory tree in which paths vanish and lose their permissions between two keys.

## 3. Runs

| run | config | result |
|---|---|---|
| `buffer` | `MCBuffer.cfg` | passes: room, assertions and counting (`RingSound`), exclusivity, order, end of file, refinement of `ChunkQueue`, over rings of 1 to 3 chunks |
| `player` | `MCPlayer.cfg` | passes, with the exceptions that `Consistent` and `BugOnsHold` state (section 4): statuses, device, input and published state agree (`Consistent`), no stale bytes, references, wakeups, assertions, with every command and outcome, cache updates included |
| `player_live` | `PlayerLive.cfg` | passes: requests answered, end of file handled, exit terminates |
| `player_handshake` | `PlayerHandshake.cfg` | violated: a command and an end of file block each other for ever |
| `fifo` | `MCFifoMutex.cfg` | passes: order of arrival (refinement of `FifoLock`), no dangling record and no lost signal (`RecordsSound`), nobody starves, with spurious wakeups |
| `jobs` | `MCJobs.cfg` | passes: no freed playlist referred to and no lost signal (`JobsSound`), removed jobs gone, nothing found lost or repeated, entries in order in the queue and unsorted playlists (`ArriveInOrder`); removals return, results are applied, quitting ends |
| `jobs_save` | `JobsSave.cfg` | violated: a save goes ahead while tracks are being added |
| `editable` | `MCEditable.cfg` | passes: counters and tree agree with the list (`ListSound`), order changes only where it should, the selected row is on the screen |
| `editable_stale` | `EditableStale.cfg` | violated: after a sort a track is removed through a tree node it no longer has |
| `collections` | `MCCollections.cfg` | passes: list, tree and shuffled orders show the same tracks, those that pass the filters (`ViewsAgree`, with one exception, section 4), what is selected exists, the current track survives filters (`CurrentKept`), playing on reaches everything and, without repeat, ends (`OrderComplete`), the pointers of the playlists lead to what exists and a row that is played comes right behind what played (`PlaylistsSound`) |
| `services` | `MCServices.cfg` | passes, a part of the system at a time, see below |
| `random_queue` | `RandomQueue.cfg` | violated: `rand_array` queues an album or track that it drew as unwanted |

The properties of `services`: `TrackRefsBalanced` (the count of every track object is
the number of its owners, through refreshes, removals, changed files and a restart);
`InputSound` (an open input owns its descriptor whatever failed on the way, and its
plugin is asked for whole frames that fit); `SamplesInOrder` (every sample once, in
order, no metadata among them, with what 8 and 32 bits lose or add stated); `OutputSound` (the device is in a state that the
consumer's status allows, every unit was scaled exactly once);
`CommandsSound` (line, cursor and history agree; every line of a client is answered once
and only what that client may run is run; random picks are different ones; the volume is one
of the table);
`WindowsTrue` (the help window shows what is bound, the mark of a filter that it is applied, and as what);
`OptionsCoupled`; `SettingsSurvive` (autosave and the next start give back what there
was); `MatchesMean` (expressions, patterns, cue sheets and `run`'s words mean
what they say); `BrowserSound` (what is selected is shown, a search finds the nearest
match). These parts have no variable in common in the models, so checking one at a time loses no
interleaving. The same holds of the three parts of `collections`.

Bounds. A ring of one chunk makes full and empty coincide with both indices equal,
two wraps at once, three has an inner chunk that neither thread holds; nine bytes
in chunks of four fill the largest ring and wrap it. Resizes go between all pairs of the sizes. For the player, two local
tracks of different formats, of which the second needs one chunk of prebuffer more than the
smaller buffer has, and one remote stream of the first's format cover
every pair of tracks the code distinguishes; buffers of two and three chunks cover
empty, partly filled, full and a resize in both directions. The liveness runs have one size and two local tracks that fit,
because the assertion that fails for others ends the program, and leave out the commands that go the
same ways as others (`play_file`, `pause_playback`, `set_op`). Three threads give the fifo mutex
a waiting thread with one before and one behind it. Two jobs of two files with a batch size of one make every batch a full one,
with an empty one at the end, from one entry or from two, walked or not; of two tracks both may be of one sheet. The library sorts, the
queue and both playlists do not; two playlists let a job for one run while the other is
deleted. Three tracks with two infos have ties and distinct keys in every
arrangement, a marked block with a neighbour on either side, and lists shorter, as
long as and longer than windows of one to three rows; tracks are
interchangeable, so the run uses their symmetry.

In `collections` two files, one of which changes its tags, give an artist with
two albums or two artists with an album each, one of them with a name that sorts under its
second word; the shuffled orders are drawn by a fixed rule there and freely in the
order part, whose four tracks make an album of two, an artist with two albums and a
second artist. The three live filters are a word, a year, and the year typed on with a title behind it,
which is the refinement that lets other tracks through. Two playlists of two tracks, one name that is tried when a file is imported.

In `services` three track objects let an entry be replaced twice while it is held, and
three descriptors let another thread take one between a close and its repetition; the
decoders' file of six samples has frames of up to three, so that frames are split, joined and
left over, in all three widths of output; sample sizes and channels of the input are those the conversion tells apart, in
real bytes. The device holds two of a track's four units: full, half full and empty. Lines
of two bytes with a buffer of two have every edit at a boundary and one growth. Two
contexts, two keys and two commands let a key move between commands and contexts. One free change
besides the coupled options, then a restart; a client's silent change of the loop status is explored on its own.
Two filters, one with a name that is too long, with every expression of one test or one filter:
one that uses the other, itself, or both each other. Patterns and texts over two plain letters and one with an accent. `INT_MAX` is 7, with `int` arithmetic wrapping at it.
Two clients with two lines between them let one be removed while the loop stands at
the other. In `random_queue` five albums are the fewest for which the inner loop of
`rand_array` overtakes what it reads.

Deadlock is not checked where
the system may stop: after quit (`Jobs`), after the two errors (`Editable`), where a
bound on commands or texts is reached (`collections`, `services`, `random_queue`), and in
the runs of `Player`, because after exit all threads have ended and because the
deadlock of the handshake, which has a run of its own, is reachable in all of them.

Fairness (`Player!Fairness`). Strong fairness of each thread: one that waits for a
mutex which is free again and again gets it, since the consumer sleeps with both mutexes
free whenever the device is full and the producer whenever the buffer is. Strong
fairness of emptying a chunk and of finding the buffer empty: the device has space
again and again. Strong fairness of the end of one turn of the event loop, which
handles finitely many descriptors. `FifoMutex` assumes weak fairness of each thread
only: a running thread goes on, and the lock is held for a finite time; and that
waits do not end spuriously for ever. The pthread
mutex underneath need not be fair. `Jobs` assumes weak fairness of the worker and of the
main thread's waiting steps, and that the event loop looks at the pipe again and again. Nothing is assumed about reads and seeks
succeeding or about the user. The other modules state safety only.

`Fault_*` definitions are faulty variants of the definition after them, used to
show that the property named in `PROJECT.json` can fail.

## 4. What the models show beside the runs

Properties that the models define and that do not hold, without a run of their own:

* `TopIsRow` (`Editable`): `window_goto_pos` does not test whether `get_next` reached the
  end, so win-page-bottom in a list one row shorter than the window selects the head; the
  next `window_changed` walks the top to the head too (window.c:214-219), and
  `sorted_sel_current` then fails `BUG_ON(iter_is_empty(&win->top))` (window.c:334).
* `PlayingInPlaylist` (`Playlists`): removing marked tracks, or tracks whose file is
  gone, frees the playing track, though pl.c:33-36 says it is in the playing playlist.
* `OpenEnds` (`Input`): when a plugin refuses a file, `open_file_locked` asks for
  the plugin of the extension again and gets the same one (input.c:426-438).

Exceptions that a property of a passing run states, each a behaviour of the code that the run
reaches; without the exception TLC finds the property violated:

* The assertion of `ip_read` (`BugOnsHold` of `Player`): `_prebuffer` computes `limit_chunks` from 250 ms
  of the track's format and never compares it with the buffer (player.c:590). With
  `buffer_seconds=1` there are 3 chunks, a local file of 192 kHz in 24 bit needs 4, and once the buffer is full
  `ip_read` is called with size 0 (`BUG_ON`, input.c:656).
* An overtaken status (`Consistent`): when the device fails, the consumer closes it, publishes nothing, and
  sets its own status to stopped and, in `_consumer_play`, to playing again, with `consumer_mutex` only
  (player.c:866-877, 923-934). A read error in the producer publishes the status meanwhile (player.c:446-461, from 980): STOPPED
  stays published though the consumer plays on, until the next command or track.
* The count during a resize (`FilledInRingOrder` in `RingSound`): `player_set_buffer_chunks` sets `buffer_nr_chunks`
  and `buffer_init` frees and allocates the chunks with the player's mutexes but not `buffer_mutex`
  (player.c:1360, buffer.c:35-40). At the end of each turn of its loop the producer counts the filled chunks with no
  player mutex (player.c:1007): it may read freed or new memory and publish any `buffer_fill`.
* Cue sheets and CDs (`InOrder` in `ArriveInOrder`): what prepends goes through directories and playlists
  backwards, but through the tracks of a sheet forwards (job.c:184-188, 206-223), so that these are reversed at the
  front of the queue; nor does a cancellation end these loops.
* Live filters (`ViewsAgree`): `do_clear_before` fills the views anew unless the new text contains the old one and the
  expression is harmless, of which `expr_is_harmless` looks at the right side only (lib.c:716-730, expr.c:848-872).
  From `~y1` to `~y12~tb` the year changes its meaning, and tracks of year 12 that were filtered out stay so.
* Other widths (`SamplesInOrder`): `ffmpeg_fill_buffer` counts what it put into its buffer in 16-bit samples
  (ffmpeg.c:371) although the output may have 8 or 32 bits (ffmpeg.c:241-249). With 32 bits half of
  each frame is dropped, with 8 bits as many bytes of older memory follow each frame.
* Filters that use others (`MarksTrue` in `WindowsTrue`): the expansion that is applied is that of the activation
  (filters.c:177). After `fset` or deletion of a used filter the mark of the one that uses it stays, and the library as it was.
* Long filter names (`FiltersSurvive` in `SettingsSurvive`): `for_each_name` has 64 bytes (filters.c:197, 218). A filter with a longer
  name can be defined and activated in the view; its `factivate` line fails at the next start, and no filter is active then.
* Long lists of sort keys (`OptionsSurvive` in `SettingsSurvive`): `sort_str` has 128 bytes (editable.h:20); keys behind these are
  in force but not saved. `replaygain_preamp` is saved with six digits of the fraction.
* The loop status of MPRIS (`OptionsCoupled`): when a client sets it, nothing is announced to the others
  (mpris.c:200-218), which keep the old one until an option changes it.
* Accents in patterns (`GlobMeans` in `MatchesMean`): characters match whatever their accents, but the text is advanced by the
  bytes of the pattern (glob.c:180, 214). `cafe` does not match `Café`; a pattern of more bytes than the
  text has goes on behind the text's end.
* A line of `{}` alone (`WordsMeant` in `MatchesMean`): `parse_cmd` ends an array that was never allocated (command_mode.c:948).

Behaviours to know of, by part:

* Player: `player_pause` reads the status and `*ip` before it locks (player.c:1116), so
  a remote stream that the consumer loads in between gets paused. With
  `repeat_current`, when the seek back to the start fails (player.c:810), the consumer
  meets the same end of file again and again; `player_live` therefore leaves repeating
  out. A finished cache update is compared with the snapshot of the top of the
  main loop (job.c:537): if the consumer has gone on meanwhile, the track it left is
  published again. `_prebuffer` spins on EAGAIN with both mutexes held (player.c:597) for as
  long as a stream stalls. `metadata_changed` frees comments that a snapshot may point
  to (player.c:437). A failing `select()` in `ip_read` leaves `eof` unset.
* Output: `op_select`, `op_select_any`, `mixer_open` and `mixer_close` have their bodies
  commented out, so the mixer is never open: its volumes stay at -1, and a second `mute`
  with `softvol` does not unmute (command_mode.c:1193). Without hardware pause, pausing
  drops what the device holds. Switching `softvol` while scaled units wait may
  scale them twice (left out of the property by `calm`). `scale_sample` can overflow
  16 bits when the replay gain is above 1 and the limit is off.
* Input: `handle_line` closes the request's descriptor again after `http_open` closed it,
  and `open_remote` leaks its socket on failure; `ip_reset` wipes the http code that the
  error message then asks for. `ffmpeg` is registered last and takes the
  extensions of `flac` and `aac`; `bass.c` is not registered.
* Cache and jobs: `add_file` looks up the table without the cache lock (job.c:153). The
  table can hold two entries of one file. `lib_remove` of a track that
  the filter hides returns 0, so a changed file keeps its old info in the library
  (job.c:533). Clearing a view does not clear results already listed.
* Library: `lib_goto_next_album` with `play_sorted` and no shuffle starts from no track and
  reaches the first of the list, `lib_goto_prev_album` the last (lib.c:509-541). Clearing a filtered
  view removes what it shows only. `tree_sort_artists` searches a tree whose order it is
  changing. `cmd_win_activate` with shuffled albums in an empty library reads
  `lib_cur_track->album` of NULL (the model's library is not empty there).
* Playlists: `pl_mark` inverts marks (`pl.c:772-788`).
* Filters and expressions: `expr_is_harmless` looks at the right side of AND only
  (expr.c:848-872). A filter used twice is reported as recursion; deleting or replacing an
  active filter leaves the library filtered by the old one; `&` and `|` have one
  precedence, left to right. `EXPR_ID` with one unset string is false even for `!=`.
  An integer is accepted where a key stands (expr.c:253) and matches no track's tag.
* Options: `set_attr` recognises the first attribute of a combination only
  (options.c:1301-1339), so a combination cannot be set. `set_shuffle` announces the
  change before it is made, `toggle_shuffle` not at all. A boolean among the coupled ones that
  is given a wrong value is set to false. `mpris_volume` without
  `softvol` returns an uninitialized value.
* Command line: the growth check leaves no room for the final NUL when the line is as long as its
  buffer. A mouse click out of a mode adds to the history without resetting the search (`clicked`), and
  escapes and mouse do not end an expansion (`stray`): both are left out of the
  properties. ESC with only "/" typed leaves the line uncleared.
* Commands: `run` writes one place past its array when 8, 16, ... tracks are
  selected (command_mode.c:1012).
* Server: of a line that comes in two pieces with an empty socket between them the first is dropped and
  the second handled as a line; a line of more than 1024 bytes
  ends the connection. Two programs that start at once beside a dead socket may each remove the
  other's (server.c:380-410).
* Browser: `do_browser_load` frees the list before `chdir` can fail (browser.c:141-190),
  and `browser_up` may leave the path at a directory that is gone.
* Cue sheets: a track may get a negative length when its first index lies behind the
  next track's; `cue_meta_free` does not free `discnumber` (cue.c:429).

## 5. Proofs

`Buffer_proofs` holds for every set of ring sizes, every chunk size, every threshold up to the
chunk size and every length of input:

* `TypeCorrect`, `ChunksAreExclusive`, `WposHasRoom`, `BugOnsNeverFire` and
  `FilledCountIsRight`, with the types and the last three joined in `RingIsSound`: from the
  inductive invariant `SInv`. `ChunkExclusive` is
  not inductive: that the two pointers differ rests on the chunk at `widx` being unfilled
  while the producer has a pointer and the one at `ridx` filled while the consumer
  has one (`GrantInv`), which survives the other thread's step only because the
  filled chunks are exactly those from `ridx` up to `widx` around the ring (`RingInv`),
  and because chunks that are not filled, other than the producer's, are empty
  (`ShapeInv`). During a resize all that holds is that no pointer is held and that the
  indices are 0 (`Resizing`): the invariant of the whole is `RingIInv`, either this or `SInv` and `DInv`
  with live memory, and what is said of the count it says of live memory.
* `DeliveredInOrder`: adds `DInv`. The bytes of each chunk are consecutive numbers
  (`RunInv`), each chunk continues the one before it around the ring (`ChainInv`),
  the first starts at `consumed` (`HeadInv`), the producer's ends at `written`
  (`TailInv`), and what the decoder stored but has not reported follows it
  (`FreshInv`).
* `EofStrandsNothing`: an action property from the same invariants.
* `BufferRefinesQueue`: initial states map to initial states, every step to a step of
  `ChunkQueue` or a stutter.

`FifoMutex_proofs` holds for every set of threads, finite or not, with or without
spurious wakeups:

* `TypeCorrect` and `RecordsLive`, from the inductive invariant `IInv`: the history
  `asked` is the linked list that the records form. It holds the threads with live records,
  once each, and ends at the tail (`QueueInv`); each record knows its predecessor, and
  its successor unless that is between its exchange and its link (`LinkInv`); the
  first is the head, unless it found the queue empty (`HeadInv`); only the first gets past the
  wait (`TurnInv`). That no pointer dangles is not inductive by itself: the record
  a thread links itself to is live because its predecessor cannot leave before it
  sees the link.
* `SignalNotLost`: inductive with the types. `RecordsAreSound` joins the three.
* `FifoOrder`: an exchange maps to a request, the step out of `fifo_mutex_lock` to the grant
  to the first of the queue (by `TurnInv`), unlock and yield to a release.

`Player_proofs` holds for any set of tracks with any formats and prebuffering limits, any set
of buffer sizes, and any choice of commands and read outcomes:

* `PlayerInvariant`: the inductive invariant `PlayerInv`. None of the properties is inductive
  by itself, because each thread relies on what the others may do only where they stand. `LockInv`
  ties each mutex to the places in the code where it is held, so that at most one thread is inside;
  `StateInv` says what holds of the record `p` at every such place: the producer's side
  (`ProducerOK`: the input is allocated and open according to the status, bytes only while
  active, a sleeping producer has nothing to read), the consumer's (`ConsumerOK`: the device is open
  and paused with the status) and that both agree (`Linked`) except between the end of a
  track and the start of the next; `ToldInv` what the user interface has been told, in the middle of a reopen
  too: there the published status is PLAYING, the consumer's own STOPPED, and only a producer's error may replace it; `HandshakeInv` that one request at a time is under way and
  its answer is not overtaken; `RefInv` that the references not owned by the published state
  are those of the command, the answer and the consumer's new track.
* The argument goes operator by operator: each function of `player.c` has a lemma that says
  which parts of the record it leaves alone and that it keeps the two sides, from `ip_close` and
  `op_pause` up to `player_set_file`; then each action keeps each part.
* `PlayerConsistent`, `PlayerNoStaleBytes`, `PlayerRefsBalanced`, `PlayerNoLostWakeup` follow
  from `PlayerInv`. `PlayerBugOnsHold` assumes nothing of limits and buffer sizes: by `BugInv`, whoever called
  `ip_read` without room keeps both mutexes, and the track, which is local and needs more chunks than the buffer has, stays.
  Section 4 has the format and buffer for which this happens.

`Jobs_proofs` holds for any playlists, any number of jobs and of files of a job, and any batch size:

* `JobsInvariant`: the inductive invariant `JobsInv`, of the types, `SignalInv` (who sleeps on
  the one condition variable, and that a cancellation has its waiter), `RemovalInv` (what was
  removed stays out of list and worker until the command goes on), `FreeInv` (once a playlist's deletion is
  scheduled no other job refers to it, once its result is listed neither a job nor a later
  result does: this is where both lists being first in, first out is used), `IdInv` (ids are fresh, and
  what the running job has found is numbered up to their count and comes from no entry behind the one it is at, which is `DepthInv`), `PlaceInv` (every file
  found is in the batch, a result or delivered) and `OrderInv` (files travel through the three in the order in which they
  were found, `Before`: of entries forwards or backwards, of the tracks of one entry always forwards; which of that
  an unsorted collection keeps is `FoundOrderKept`). `NoUseAfterFree` and `ArriveInOrder` say nothing of jobs
  that still wait, so neither is inductive without the rest.
* `JobsAreSound`, `JobsRemovedForGood` and `JobsArriveInOrder` follow.
* Jobs are taken out of the list by a filter. What `SelectSeq` computes cannot be proved, so
  `Jobs` uses `Selection!Select`, a recursive function with the same values; `Selection_proofs` shows
  what it keeps and drops, by induction over the natural numbers stated for
  sets (`NatSetInduction`, from the well-foundedness of `<`).

`Services_proofs` takes the sound from the file to the device, and proves the cache:

* `InputIsSound`, for any descriptors, playlist lengths and supported formats. `SourceInv` says at
  every step of opening who owns `data.fd` and the request's descriptor: the request's may by
  then be someone else's after a failure, `data.fd` never. `FramesInv` says that the chunk holds a multiple
  of the player's frame, which makes the next request a multiple of the decoder's. It
  rests on the chunk size being a multiple of every frame size (buffer.h:5).
* `DecoderInOrder`, for any file, frame, buffer and metadata sizes and the widths that `ffmpeg` chooses. `KeptInv`: what a
  plugin keeps starts with the byte that is due and ends with the last one converted, where the library goes on;
  with 32-bit output it ends before and with 8-bit output behind that. `Farther` is the arithmetic of it: frames laid end to
  end in bytes are in the order of their samples, whatever the width. `MetaDataInv`: the reader's count is the server's.
* `OutputIsSound`, for any device and track. `DeviceInv` says which device states go with each consumer
  status, that a paused device has room (hence unpausing returns); `ScaleInv` counts, for every
  unit around `consumer_pos` and `scale_pos`, how often it was scaled.
* `TrackRefsStayBalanced`, for any files, times and jobs, from the inductive invariant `CacheInv`
  (`CacheInvariant`): each object is entered in the table once, and the library's object of a file has that
  file; `WorkSound`: what the refresh replaced or found gone was taken out of the table, is not visited again,
  waits in one place only and links to another object or to none; `Balanced`: the references that the
  table does not own (`Excess`) are those of the other owners; `KeptSound` types what a restart reads. The
  counts alone are not inductive. When the main thread exchanges an old object for its new one, the old
  object's link loses its reader just then only if the object waits nowhere else, and the count of the new one is right
  only if it is not the old one. Each step of `cache.c`, a lookup, an entry, a removal, a refreshed entry, has a lemma
  on how it changes `Excess`; the actions of the two threads compose them.

`Playlists_proofs` holds for any tracks and any finite set of names that is not empty:

* `PlaylistsInvariant`: the inductive invariant `PlaylistsInv`. `PointersSound`: the visible, marked and playing playlists
  are in `pl_head`, whose names differ, and a track plays out of a playlist. `ListSound`: each list and
  its shuffled order hold the same tracks, once each, and marks are of its tracks. `Apart`: no
  track object is in two playlists, without which removing one from a list could leave it in another's
  shuffled order. `Selects`: the selected track is a visible one, as long as no freed track was
  read (section 4). That the visible list is in `pl_head` after a deletion rests on the
  list never being emptied and on every pointer being moved off the deleted one (pl.c:405-443).
* `PointersStaySound` and `RowComesNext` follow, and joined `PlaylistsStaySound`, the property of the run. The
  loops that remove several tracks are `Selection!Fold`; the choice of a free name is a least
  number, for which `Selection_proofs` has `LeastOf`.

`Editable_proofs` holds for any tracks and sort keys, window heights and scroll offsets:

* `EditableInvariant`: the inductive invariant `EInv`, of `Whole` (list, counts, marks, tree and window
  of one record agree) and `SelectionVisible`. The tree is seen through the places `P` of its nodes in
  the list: `Shape` says that they increase from the first row to one past the last, and `Runs`, for a
  list whose order nothing disturbed, that from each place to the next all keys are equal and
  that they increase from node to node. `ListSound` alone is not inductive: it does not say where the
  runs end, nor that only tracks with a node are in the tree, which decides what
  `sorted_list_remove_track` does. With no sort keys all tracks are one run, which `reset_tree` counts on.
* First each function of `window.c`: what moves the selection keeps it on the screen (`Moves`), what
  follows a change brings it there (`Changes`, `Resized`, `SetContents`), and a row that goes
  away leaves top and selection on rows. Then the four ways in which a track enters or leaves the tree
  (`NewNode`, `JoinsRun`, `LeavesRun`, `LeavesTree`), and the loops over several tracks:
  removals, rebuilding and `move_sel` are `Selection!Fold`, whose induction `Selection_proofs` provides.
* `ListIsSound` and `SelectionIsVisible` follow. After a node was used that is not in the tree
  (section 4) the first says nothing of the tree any more; the counts stay right.

The assumptions are those the modules state: `None` is no thread (`FifoMutex`); ring sizes positive,
`0 < MinFree <= ChunkSize` (`Buffer`); no track is called `NoTrack`, buffer sizes are positive (`Player`); no
playlist is called like the library or the queue, the library sorts, batches are not empty (`Jobs`); infos are numbers, heights are positive and
scroll offsets are not negative (`Editable`); times are numbers (`Cache`); playlists have names, tracks and names are numbers, 0 is none
(`ConstantsSound` of `Playlists`, which `MCCollections` assumes); those of the paragraph on sound, with output of 1, 2 or 4 bytes a sample (`Decoder`). TLC evaluates all of them in the runs.

What stays with TLC, and why:

* liveness: `RequestServed`, `EofHandled`, `ExitTerminates`, `RemovalReturns`,
  `ResultsApplied`, `QuitTerminates`, `EveryoneEnters` (the proof system has no rules for fairness);
* `MatchesMean`, `BrowserSound`, `CommandsSound`: `Expr`, `Glob`, `Browser` and `Commands` are
  recursive operators, and what a recursive definition computes for every input cannot be proved;
* `OptionsCoupled`, `SettingsSurvive`, `WindowsTrue`, `ViewsAgree`, `OrderComplete`: the models fold over
  sequences of options, bindings and tracks, and each would need its folds restated as in `Selection`;
  `OrderComplete` moreover follows whole rounds of playing, whose number of steps depends on the library;
* `SelectionExists`, `CurrentKept`, `OrderKept`: within reach, see below.

## 6. Not modelled, and the plan

Not modelled, with the reasons in `PROJECT.json`: drawing, layout and text conversion (no
state of their own); the parsers of tag formats (pure functions of a file's bytes); byte
formats of the cache file and of saved playlists; the arithmetic on single samples;
the shape of the red-black tree and the passes of the merge sort, which the models use as
what they promise; `ip/` and `op/`, which are not built, and code of the build that nothing
reaches (the mixer, plugin options and priorities).

What would add most next:

1. `OrderKept`: that putting a track into a list with `Fold` keeps the order of the others; then the
   orders of `TrackOrder`.
2. `Library`: the tree and list restated with `Selection`, for `SelectionExists` and then `ViewsAgree`.
3. The merge sort and the red-black tree as modules that refine the orders used here.
4. Stream metadata in `Player`, for the comments that are freed under a snapshot.
