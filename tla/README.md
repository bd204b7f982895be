# The Amlogic player: a TLA+ development

The repository is the device tree of a tablet. Most of it is configuration,
binaries and vendored code (ALSA, libusb, mtd-utils, wifi drivers, FFmpeg). The
program it develops itself is `src/packages/LibPlayer`, the media player:
`amplayer/player` (threads, a command pool, a state machine), the audio decoder
engine `amadec`, and, inside its copy of FFmpeg, the network input: a rewritten
http stream and a loop buffer over it. That is what these modules are about.
Paths below are relative to `src/packages/LibPlayer/amplayer/player`; files of
`amadec` and of `amffmpeg/libavformat` are named without their directory.

## Inventory

| Component | State | Operations | Correct when |
|---|---|---|---|
| Control interface, `player_ctrl.c` | the `play_control_t` of each player | `player_start`, `_stop`, `_stop_async`, `_exit`, and one function per command | stop stops, waits end, ids and blocks are not leaked or used after they are freed |
| Player ids, `player_id.c` | a bit set, a pointer and a use count per id, the static `last` | request, release, init, open, close | an id leads to its player or nowhere; ids do not run out |
| Message pool, `message.c` | a ring of `MESSAGE_MAX` pointers, two indexes, a count | alloc, send, get, peek, clear, free | first in first out, one owner per block, no block lost |
| Player thread, `player.c` | `player_state`, the flags of `playctrl_info`, the packet | start-up, `check_msg`, `check_flag`, read, write, the wait for the end, reset, release | STOP ends it, the status tells the truth, EXIT is the last word |
| Decoder reset, `player_para.c` | the time point, the trick flags | `player_dec_reset`, `ff_reach_end`, `fb_reach_head` | fast forward and backward end where they should |
| Playing state, `player_update.c` | levels, times, `end_flag`, status | `update_playing_info`, `update_player_states` | the end of the stream is noticed, and only then |
| Mate, `player_mate.c` | four integers, a semaphore, a heap block | init, wake, sleep, release; the thread's loop | it works for the player thread only while that one is in a read; nobody waits for ever |
| Input interruption, `player_ffmpeg_ctrl.c`, `player_itemlist.c` | the list of threads to interrupt | add, delete, match | an interrupted thread leaves its blocking call; no other one does |
| Reading and writing, `player_av.c` and the stream types | packets, headers, codec handles | read, write, search, audio switch | data reaches the decoder in order |
| Cache file, `player_cache_*.c` | the block map of a cached file | open, read, write, seek | what is read is what was written |
| Sysfs, `player_set_sys.c`, `amutils_msg.c` | none | device settings, commands by sysfs | — |
| Subtitles, thumbnails, profiles, logs | parser data | formats | — |
| Audio decoder engine, `src/packages/LibPlayer/amadec` | the `aml_audio_dec_t`: a message pool, `state`, `need_stop`, `auto_mute`; statics of the decode thread; the track | `audio_decode_init`, `_start`, `_pause`, `_resume`, `_automute`, mute and volume, `_stop`, `_release`; message loop, decode thread, output callback | the output never runs without a source, nothing outlives the engine, pause is silent, release returns |
| Network input, `http.c` and `aviolpbuf.c` in `src/packages/LibPlayer/amffmpeg/libavformat` | the connection, its offset, what is to be skipped; the ring with its read and write pointers, what it has taken, the offset of the next byte | read, seek, reconnect; fill, read, seek in the ring, by reading on or below; reading ahead | the demuxer gets the file's bytes in order, unread data is not overwritten, an interrupt ends every call |
| Control process, codec library, DVB and stream players, JNI | little | thin layers | — |
| Hardware modules (`src/libaudio`, `hwcomposer`, `lights`, ...) | device handles | Android HAL calls | — |

How they interact. An application thread calls `player_start`: it takes an id,
allocates the `play_para_t`, publishes it under the id, initialises the pool and
creates the player thread. Every other call opens the id, allocates a command,
puts it in the pool and closes the id. The player thread takes one command per
round of its loop (`check_flag`); while it is in a read that may block, its mate
takes the commands it can handle, and both write the same flags without a lock.
`player_stop` adds the thread to the list of those whose input is interrupted,
sends STOP, joins the thread and empties the pool. For the audio the player thread
calls into the audio decoder engine (through `amcodec/audio_ctl`), which has a message
pool and a thread of its own; with a decoder library there is one more thread, which
decodes, and Android's AudioTrack calls back on its own thread. The player thread reads
and seeks through the demuxer and, on a slow medium, through the loop buffer, which it
also fills in advance while it buffers; the interruption by `player_stop` reaches the
input as `url_interrupt_cb`.

What is hard: the pool overflows by design, discarding commands that may matter
(STOP); two threads write `playctrl_info`; the status is set in passing and read
by other threads; interruption and STOP are two steps; the mate's handshake is
four plain integers; the flags that keep the playback loop going are set in many
places and cleared in few. In the audio engine a plain integer is the lock between
the message loop and the decode thread, the output functions read a pointer before
they take their lock, and a release joins a thread that only a message in a pool of 4
can end. In the network input three loops of retries are nested, a connection is opened
anew in the middle of a read, and the ring keeps what was read to seek back in, with
counts that do not say what is still there. `PROJECT.json` lists the hazards line by line.

## Modules

`CommandQueue` is the abstract specification of the pool: a bounded queue whose
`Put` never fails and discards the oldest command when it is full.

`MessagePool` is `message.c`. What a function does under `msg_mutex` is one action
(for `send_message` there are two: with a free slot, and without). Two of them leave a
pointer that is read after the unlock: `send_message` logs the command it has sent, and
`player_thread` looks at what `peek_message` has returned. `viewing` keeps these pointers,
`SendReturns` and `PeekRead` are the reads, which may find the command freed. `stage` is how
far the player thread has come: it peeks before it plays, its mate is up only while it
plays, and `clear_all_message` comes when it has exited. The other
variables are the fields of `message_pool_t`, plus the heap and what each thread
has in its hands, because the questions are about ownership; `overrun` is history. `Queued`
is the refinement mapping to `CommandQueue`.

`PidPool` is `player_id.c`, one action per function. Its environment is
`player_ctrl.c`: only `player_start` requests an id and gives it data; every
other call may come with any id at any time.

`PlayerMate` is the handshake of `player_mate.c`. The four integers are read and
written with no lock, so each access is an action of its own. What the two
threads do besides is one step each: "own" work, a read, a pass of the mate (its inside is
in `PlayerThread`).

`PlayerThread` composes the player thread, its mate and the application, with the pool taken
as the queue of `CommandQueue` (what `MessagePool` shows it to be). The mate is given by the
place it has come to: between its passes it is asleep, "called" (a wake it has not noticed)
or awake, and in a pass each test and each write of the status or a flag is a step, so that
`pause_flag` and the status that follow each other in `player_mate_thread_cmd_proxy` can be
seen apart. `player_mate_sleep` waits for a mate in a pass, and so does the release. `late`
is history: the last `check_flag` met the mate at its writes. The record `p` has the status
and the flags of `playctrl_info` with shortened names: `end` is `end_flag`, `request_end`
`request_end_flag`, `step` whether `f_step` is 0, `init` `init_ff_fr`, `at` is `time_point`
reduced to the head, the end and the middle. The variable `pc` names the places of
`player_thread` between which another thread's step can matter; a handler of the player
thread with all its calls is one step. Functions of the source that work on the flags are
operators with their names (`check_msg` is `CheckMsg`, `update_playing_info` `UpdateInfo`);
one with several outcomes is a set.

`PlayerControl` composes the calls of several application threads with the table of ids (an
instance of `PidPool`: every step of a call that touches the table is an action of that
module), the heap, the creation and join of player threads and the list of interrupted
threads. A call is a record: the function (`api`), the place it has come to (`at`), the id
and the block it works on. It is broken up where another thread may come in between, at each
locked section and each access to the `play_para_t`: `itemlist_add_tail_data` is two steps,
because it matches and adds under separate locks, and the second may have no memory for its
item. Values of `pthread_t` and addresses are used again as soon as a join or a free allows
it. Of the player threads only what the calls see is left, a status that may show an end in
passing. Its environment is the rule of `player_ctrl.c:341` ("must with pairs of
player_play"), as `control/controler.c` and `libamplayerjni` follow it: a thread calls for
the players it has started, any call at any time, and `player_exit` once for each.

`AudioEngine` composes the calls into the audio decoder engine, its message loop
(`adec_message_loop` and `adec_armdec_loop` are one state machine here, `kind` tells
them apart where they differ), the decode thread and the AudioTrack's callback.
`loop` and `decode` are the places of the two threads. An output function
(`android_start` and its like) reads the track from `private_data` and then takes the
lock, so a call of one is two steps: `Enter` notes what was read, `Return` has the
effect, and a pointer becomes "stale" if the other thread deletes the track in
between; what a call does with a stale pointer is undefined, and any outcome is
allowed. Each access to `aout_stop_mutex` is a step. An event for the clock of the
picture may not reach it (`Tell`: `adec_pts_start` and the others fail when they cannot open
a file, and nobody looks); `heard` is whether the last one did. The pool is an instance of
`CommandQueue`: `adec_send_message` has the same overflow as the player's. The source
is the dsp's descriptor or the decoder with its PCM buffer: "stale" is a descriptor
that was closed and remembered (`audiodsp_init` after a failed firmware), "stuck" one
whose dsp refused to stop. `lost` and `met` are history: they note what the known
races have done, so that the properties can say what holds without them.

`ByteStream` is the abstract specification of an input: from where a seek has left it,
reads deliver the bytes of the file one after the other; after a failure the place may
be unknown until the next seek.

`HttpStream` is `http_read` and what `http_open_cnx` and `http_reopen_cnx` may come to.
A byte is its offset in the file. `hd` and `conn` are the connection and the next byte it
brings, `left` what the header's buffer has taken of the body, and `pc` the labels of
`http_read`. The answers of a request are definitions of their own: `Honoured`, `Ignored`
(the whole file comes, and `do_readseek_size` bytes are to be skipped), `Refused`,
`Rejected`; `Reopens` and `Breaks` say what a reopening may do.

`LoopBuffer` extends it with `aviolpbuf.c` and its callers. `rp` and `wp` are indexes of
`ring` instead of pointers; `Forward`, `Back` and `Room` are `valid_data_can_seek_forward`,
`valid_data_can_seek_back` and `ssread`. A call is `call`, and each turn of the loop of
`url_lpread` is a step or two; a seek is `SeekInBuffer`, `ReadSeek` (which reads, and drops,
what is in between) or `LowSeek`. `Buffering` is the player's reading ahead. The bytes
arrive in the ring before the pointers move, so a step sees them half taken. `at` is what
the caller believes its offset to be, `Unknown` once a seek has failed, whether it was told
or not. `astray` is history: it is set when a request was refused or rejected, or the
server has ignored the range, and the offset the connection delivers is then no longer the
one the ring counts; only a seek that opens a straight connection clears it. `StreamSpec`
therefore promises nothing about the bytes in between: what goes wrong there is under
"More disagreements".

The MC modules instantiate these for TLC; the Proofs modules hold the theorems.
Definitions that are a wrong version of the one that follows them say so in their
comment. They are not used by any specification: put in the place of the right
one, each makes the property it is listed with in `PROJECT.json` fail.

### What the models leave out

- Media data: what a read, a write, the decoder or the buffer levels answer is a
  choice. In `PlayerThread` the stream has a video and a known duration and the
  decoder is the hardware one; no DRM, no karaoke, no subtitles.
- One message or one flag test of the player thread is one step in `PlayerThread`, and
  its peek before it plays is not parted from the look at what it has found
  (`MessagePool` has them apart). The mate's pass is taken step by step. It falls into the
  player thread's read unless `player_mate_sleep` misses it (see "More disagreements"):
  `PlayerThread` has that as the trouble "late_mate".
- The mate of `PlayerThread` starts no pass while it is being released. A wake it has not
  noticed is kept through a read that misses it, and only one of them: `PlayerMate` has them
  all.
- `player_offset_init` succeeds. Its failure is ignored by `player_thread`, which
  goes on with a closed file: what the media library does then is not in the source.
- Two application threads that work on one player, and a call with an id that the
  application does not own: in `PidPool` such calls exist, in `PlayerControl` not.
- The status `BUFFER_OK`, which is set and overwritten in two successive
  assignments; settings of the automatic buffering.
- `player_send_message` looks for EXIT before it sends. The player may exit in
  between, so `Send` is not guarded by it.
- Allocation failure of a command in a client: the call returns, nothing changes.
- A join by two threads at once (undefined): the runs have one synchronous caller.
- In `AudioEngine`: samples, PCM levels and time stamps. Whether a time stamp or the
  picture comes, a device opens, the format changes, is a choice. `Mute` stands for all
  messages that only touch the output's volume. A failed `pthread_create` of the message
  loop, and `malloc` failures, are left out; that of the decode thread is modelled. A
  track or dsp an engine leaves behind (`lost`, `met`) does not disturb the next one: only
  a decode thread left behind would, through the statics, and then no engine is made.

- In the network input: the demuxer's own buffer (`aviobuf.c`), the cache file and
  `url_lpexseek`, a seek from the end or for the size, redirections, authentication, chunked
  and posted data, `max_connects` over 1 (`MAX_CONNECT_LINKS` is 1), a file of unknown size,
  the time a wait takes (a wait ends with data, with `EAGAIN` or as a failure).
  `valid_data_size` is an `int` that grows until the next seek below the ring, and
  `url_lpfillbuffer` compares the input's answer to its own seek in an `int`: files over 2
  GB are out of the model. The mate looks at `pos` under the lock and changes nothing. What
  a read has copied when it is interrupted is dropped by its caller; nothing is read after
  that.
- After a seek below the ring its slots still hold old bytes; the model marks them
  `NoByte`, so that a read of one would show.

## Runs

| Run | Instance | What it shows |
|---|---|---|
| `message_pool` | 2 clients, 2 slots, 5 blocks of which 2 the mate may handle | the ring is a bounded queue (`QueueSpec`), its indexes agree (`RingShape`), one owner per block (`Ownership`), what was peeked at is still the oldest when it is read (`PeekedIsOldest`), no leak, only the oldest is discarded, every command leaves |
| `pid_pool` | 4 ids, 1 block, 2 nested uses | stale ids lead nowhere (`FreeIdIsClean`); an exhausted search stays so (`ExhaustionIsForever`) |
| `player_mate` | 3 unnoticed wakes | what the handshake guarantees: see below |
| `player_thread` | every command, 2 sends, pool of 2, one sysfs command, all troubles | status and flags stay consistent whatever fails: `PauseAgrees`, `StopedOnRequest`, `ExitIsFinal` |
| `player_control` | 2 application threads, 2 blocks, 2 threads, 3 ids, symmetric | ids, blocks, threads and interruptions stay accounted for over any number of lives: nobody uses a freed block (`NoUseAfterFree`), an id leads to its player (`IdLeadsToPlayer`), is closed as often as opened (`ReleasedUnused`), no block is lost (`NoBlockLost`), every interruption is owed to a stop and taken back by the exit (`ListAccounted`) |
| `audio_engine` | all decoders, pool of 3, 2 pauses, resumes or mutes and 1 change of format per engine, engines without end | a track is always fed (`OutputIsFed`), the decode thread never outlives its buffer (`DecodesIntoBuffer`), nothing is left of an engine that has ended (`NothingLeftBehind`), the clock agrees with the state once an event has reached it (`ClockFollowsState`), a dsp left with a descriptor stays unusable (`RetryIsFutile`), `audio_stop` returns unless STOP or RELEASE was discarded, a start code never comes or a write to sysfs never succeeds (`ReleaseReturns`) |
| `loop_buffer` | a ring of 4, a file of 5, fills and reads of 2, three targets of a seek, every trouble of server and network, one failed request | reads deliver the file in order (`StreamSpec`), what is unread is not overwritten (`KeepsUnread`), an interrupt ends every call (`InterruptEnds`) |
| `player_stop` | a pool of 4, 2 sends, one synchronous and one asynchronous stop, no trouble | STOP ends the player (`NoPlayAfterStop`) and `player_stop` returns (`StopReturns`) |

Runs that TLC must find violated, each a finding in `PROJECT.json`:

| Run | Property | The shortest story |
|---|---|---|
| `stop_reset` | `NoPlayAfterStop` | a decoder reset that was due when STOP was taken starts the player over |
| `control_interrupt` | `NoForeignInterrupt` | a thread was joined and its entry is still in the list; a new player gets its `pthread_t` and is interrupted |
| `audio_paused` | `PauseHolds` | `auto_mute` is set while paused: `adec_flag_check` resumes the output, the state stays PAUSED |
| `http_resume` | `ContinuesInPlace` | a seek's request is refused and the seek reported as done; the next read opens at 0 and the file's head is taken for the bytes sought |

More disagreements were met on the way and have no run of their own.

In the player: in loop play `check_flag` shows PLAYEND in passing (`player.c:420`), and a
`player_stop` that looks just then (`player_ctrl.c:248`) takes the player for ended and
returns while it plays on. A mate that is past `sem_wait` but has not set `mate_isrunng`
(`player_mate.c:228`) is missed by `player_mate_sleep` and works on beside the player
thread, against the comment at `player_mate.c:227`; what the handshake does guarantee is
`SleepExcludesWork`. Such a mate writes `pause_flag` and then the status
(`player_mate.c:158`, `:171`) while `check_flag` may come in between: a resume may then
leave the status PAUSE with the flag already cleared, or the reverse, and while the next
read goes on the mate drops a resume as no news. `PauseAgrees` names this as its exception,
and shows that it lasts no longer than to the next `check_flag` that does not meet the mate at
its writes. `send_message` reads the command after
the unlock (`message.c:67`), when the player thread may have freed it already; so may a send
over a full pool have freed the one `peek_message` has returned (`player.c:702`).
`MESSAGE_MAX` later commands push a STOP out of a full pool (`message.c:60`), and
`player_stop` waits for a thread nobody has told to end: the run `player_stop`, with a pool
of 4, leaves that out. `player_stop` joins the thread and `player_exit` joins it again
(`player_ctrl.c:358`), when the `pthread_t` may be that of another player. Ids run out for
good once the last one was issued while the search started there (`player_id.c:52`):
`ExhaustionIsForever` is the theorem about it. `player_stop` interrupts before it sends
STOP; a read that fails in between ends the player with PLAYER_ERROR, which `player.c:1096`
means to avoid. `player_start` without memory keeps its id (`player_ctrl.c:145`). A mate
that works late and takes LOOP after STOP also makes `NoPlayAfterStop` fail. At the end of
fast forward with a packet at hand the search that was asked for waits for the next end of
the loop (`player.c:866`).

In the audio engine: `aout_stop_mutex` (`adec-ffmpeg-mgt.c:1002`) is tested and set in two
steps, so the message loop and the decode thread may both find it free and stop and start
the output beside each other; `met` in `AudioEngine` notes it. `audio_codec_init` tries its
first write to sysfs until it succeeds (`adec-ffmpeg-mgt.c:370`) and does not look at
`need_stop`: without that file `audio_decode_release` never returns. `adec_pts_start`,
`_pause` and `_resume` may fail (`adec-pts-mgt.c:86`, `:102`, `:166`, `:191`) and are not
looked at: the engine is then ACTIVE with the clock of the picture standing, or PAUSED with
the clock running, until the next event gets through.

In the network input: `http_seek` answers the offset whatever the reopening said
(`http.c:717`), so `url_lpseek` never learns that it has failed. When a seek fails at once,
`url_lpseek` seeks the input back to `pos` and returns the result of that, which `avio_seek`
takes for success (`aviolpbuf.c:406`). `url_lpread` without a buffer returns 0 (`tbuf -
buf`) when it has read all it was asked for, and 0 as well when there is nothing more: a
seek by reading that is cut short looks like one that is complete. While a server's whole
file is being skipped, `s->off` counts on from the target (`http.c:588`), so a reconnection
then resumes as many bytes too far as were skipped, and a failure's negative `len` is
subtracted from `do_readseek_size` (`http.c:630`) and adds to what is to be skipped. The
body of an error page that came with its header stays in the buffer and is delivered as
data. All of these are in the model, behind `astray` and `Unknown`.

Bounds, and why they are enough. `MESSAGE_MAX` of 2 fills, wraps and overflows with 5
blocks, enough for both slots, both clients and one in hand, and lets the command that is
looked at be freed; the theorems hold for every size. Four ids let the search skip, wrap and
run out. Three unnoticed wakes are more than the mate can consume in one pass (one), and the
proofs are for every bound. `MaxSends` of 2 lets any two commands meet in any state, besides
the STOPs; three would take `player_thread` over five minutes. The pool of `player_thread`
is 2 so that it overflows, that of `player_stop` 4, the source's own, so that the two sends
and two STOPs always fit.

In `player_control` two application threads with two blocks and two `pthread_t` values
are the least with which one call's block or thread becomes another's; three ids are
one more than the players, and let the search skip one. A third client only adds
calls that do not meet the two on any resource but the table, whose theorems hold for
any number of callers.

In `audio_engine` START, two messages, STOP and RELEASE overflow a pool of 3 from every
position, as one more would the pool of 4; the invariants are proved for every size.
One change of format per engine lets the decode thread meet the message loop once at
every place; engines follow each other without end, so a flag that is not reset shows.

In `loop_buffer` a ring of 4 before a file of 5, with one slot in reserve and blocks of 2,
is filled over its end in both orders of the two pointers, fills up, and loses part of
what could be sought back to; the three targets reach every kind of seek. One request may
fail in a history, connections may be lost without limit; what a second failed request
does is in `http_resume`. The safety properties are proved for every bound.

Deadlock is checked where the system should go on. A player may wait for START
for ever, and a thread that has exited does nothing, so the runs of
`PlayerThread` do not check it.

Fairness. `MessagePool`: the player thread comes to play and keeps polling (`check_flag` in
every round of its loop); when it leaves is its own affair, and then `player_stop` empties
the pool, or nobody does. `PlayerMate`: both threads are scheduled inside wake, sleep and
release; that a read returns is not assumed. `PlayerThread`: the player thread is scheduled
and the devices answer; a read may block for ever, except in an interrupted thread, which is
what the interruption is for (`ffmpeg_interrupt_callback`); a caller inside `player_stop`
goes on; a pass of the mate comes to its end. That is weak fairness, of a whole thread at a
time. Strong fairness is assumed of one kind of step, those of the player thread that wait
for a mate in its pass (`player_mate_sleep` after an interrupted read or a pause): between
two passes the mate can be put to sleep, and it is, because `player_mate_sleep` sets
`mate_should_sleep` and waits, which is `SleepReturns` of `PlayerMate`, checked there under
weak fairness, its wait bounded by `WaitBounds`. None is assumed of the application.
`AudioEngine`: the message loop and the decode thread are scheduled, and a player that has
called `audio_stop` goes on in it. The waits for a first time stamp or for the picture are
bounded only by `need_stop`, so they are fair only once that is set; that a start code comes
in the stream is not assumed, nor that the write to sysfs in `audio_codec_init` ever
succeeds, which is why `ReleaseReturns` names both. The decode thread can take the output
`MaxChanges` times per engine: in the source it could take it again and again under the
message loop's nose, though only if the format changed in each frame. `LoopBuffer`: the
player thread goes on inside a call; a wait for data is a number of polls that looks at the
interrupt (`avio.c:309`, `tcp.c:116`), and the lock is never kept by anyone who waits. No
fairness is assumed of the demuxer, the server or the application.

## Proofs

Checked by TLAPS for every value of the constants that the assumptions allow.

`MessagePoolProofs`: `IInv` is the conjunction of `TypeOK`, `RingShape`,
`Ownership` and `NoLeak`, and is inductive as a whole: a send over the oldest
command frees what is in the slot at `message_in_index`, which `RingShape` shows
to be the oldest command, and `Ownership` shows nobody else has it. It is about the pointers
in the ring and in the hands that will free them, not about those in `viewing`. For the one
that matters, the peeked command, `Looking` adds that the player thread looks at it only
before the mate and the clients take commands, so that it stays where it is unless a send
finds the ring full (`PeekCorrect`). Lemmas on the
wrap-around (`WrapAround`, `SlotsDiffer`) carry the arithmetic. The refinement
of `CommandQueue` has one lemma per action (`...IsPut`, `GetMessageIsTake`). Behind
`EveryCommandLeaves` is that nobody overtakes a command: whoever takes one brings all the
others a place nearer to the head, and so does a send into a full ring
(`NobodyOvertakes`).

`PidPoolProofs`: `TypeOK` with `FreeIdIsClean` is inductive. `last` never lies
above the table size because `NextLast` only reaches it from the last index.

`PlayerMateProofs`: the invariant adds what makes the handshake work. While the
mate is running, `mate_isrunng` is 1, so a sleep that sees it 0 has found the
mate outside its pass; then `mate_should_sleep` is read before any further work.
A wake sets the delay and clears the flag before it posts, so a positive
semaphore means a delay that was set. The last section bounds the wait of the player
thread, in `player_mate_sleep` once it has asked and in the `pthread_join` of the release:
`StepsLeft` counts the steps the mate may still take, seven for each wake it has not
noticed and those up to its semaphore; each of its steps lowers it and nothing raises it
(`WaitBounds`). At zero the wait is over, and the mate that is joined is not left at the
semaphore (`WaitIsServed`): the release tells it to go before it posts, and the mate
looks for that before it waits again (`Told`).

`PlayerThreadProofs`: `Follows(s, t)` says that a handler keeps a record a record, asks for
no end (`request_end`), and shows STOPED only if one was asked for; it is reflexive and
transitive, and each operator on `p` has a lemma that its outcomes follow its input. The
invariant says that either a caller has sent STOP (`Asked`), or the pool, the flags and the
status show no trace of one (`Unasked`), and that the mate is gone once the thread is past
its release (`MateGone`, for `ExitIsFinal`).

That the two pause flags agree (`PauseCorrect`) needs, beside the property, what the mate
relies on between its look at the flags and its writes (`MateKnows`): that a mate about to
write PAUSE has set the flag, one about to write RUNNING after a resume has cleared it, and
one that buffers or ends the playback has not found the player paused. `check_flag` makes
the flags agree whatever they were (`CheckFlagAgrees`); if it has not met the mate at its
writes, `MateKnows` holds as well when the read begins, and every step of the mate keeps
both (`MateAgrees`). That a stopped player stays stopped (`NoPlayAfterStopCorrect`) has two
hypotheses, each of which is needed. The decoder must not ask for a reset (`"decoder"` not
in `Trouble`): the run `stop_reset` shows what happens if it does. And there must be no late
mate, or no LOOP sent: the mate, which takes commands too, would set the loop after the
STOP. What remains is every other command and failure. The invariant `SInv` says that a
reset is pending only on its way to `player_reset`, and never alone (`ResetOnItsWay`), that
a thread with `request_end` is on its way out and has nothing left to turn it around
(`StopTaken`, `Rests`), and that, if it is never missed, the mate works only while the
thread reads (`MateInRead`). From it follows how long a stop may take: at most five steps of
the thread, which neither the mate nor any caller can add to (`StopBounds`), and then it has
exited (`StopEnds`).

`PlayerControlProofs`: no conjunct about blocks or ids is inductive alone, so the invariant
(`Held`) says who holds what. Each id in use by a client or its call is that client's alone,
and is open as often as the place of the call says (`Opens`); each block is that of one id
(`BlocksHeld`), or of the one call that has not published it yet (`NewBlocks`), and none is
forgotten (`BlocksKept`); a thread that was not joined is on an allocated block that knows
the thread, or on that of the call that is about to store its `pthread_id` (`ThreadsHeld`).
That is why a joined player can be freed: `pthread_join` of the id in the block leaves no
thread on it (`Joined`). `Same` is what a step of one client leaves of the view of another;
`QuietHeld`, `MoveHeld`, `ExitMove`, `FreedHeld` and `FilledHeld` treat the steps that
change the same kind of thing together, and `StepHeld` goes through the actions.
`ListAccounted` is not inductive, for a thread may be in the kill list twice: a second stop
of a player adds a `pthread_t` that another player has by then. `ListInv` therefore asks for
a witness, a map `w` that owes each entry to a block of its own (`Owed`); each step changes
the witness as it changes the list. The table of ids is `PidPool`'s: no call comes to it in
vain (`TableServesCalls`), all calls together are steps of its specification
(`TableRefined`), so what `PidPoolProofs` shows holds for the interleaved calls
(`FreeIdsClean`, `ExhaustedForAll`). The assumption is the application's discipline: an id
is used by the thread that got it, and not after its `player_exit`.

`AudioEngineProofs`: what an engine holds is a function of its state and of the place of its
message loop. `Held` says so of the source, `Threads` of the decode thread, `Sound` of the
track, `Clock` of the clock as long as it has heard the last event; `Calls` and `States` tie
the places together. None is inductive alone: that a decode thread never sees the buffer
freed (`Threads`) needs that it was joined in the one place that frees it, and that there is
a track only while the source is open needs the order in `stop_adec`. That the loop ends
with nothing left (`NothingLeftBehind`) is a fact about messages: STOP precedes RELEASE in
the pool until one is discarded (`Order`, with lemmas on appending and taking), so RELEASE
is handled by an engine that was stopped. `met` separates what the locking guarantees from
the race at `aout_stop_mutex`: as long as the threads have not met at the output, a pointer
that was read is not stale. The last section is about `audio_decode_release`, which joins
the loop, while the loop may join the decode thread and wait for `aout_stop_mutex`.
`LoopLeft` counts what the loop still has to do, fourteen steps at most for each message in
the pool or yet to be sent; with RELEASE sent and not lost, each step of the loop lowers it
and no other actor raises it (`ReleaseBounds`). This counts steps: the loop that tries for
ever to write to sysfs takes none. A decode thread that was asked to exit has at most twelve
steps left (`DecodeBounds`), of which the search for a start code is the one that need not
come. Neither waits for the other (`NobodyWaitsInVain`): there is a message for the loop to
take, the thread it joins was asked to exit, and whoever has set the mutex is at the output,
from where it resets it (`MutexIsHeld`).

`LoopBufferProofs`: that reads deliver the file in order is a fact about where each byte of
the ring is. `Behind(i)` is how far the slot `i` lies behind `wp`, in bytes of the file;
`RingHolds` says that each slot that counts (that is read ahead, or may be sought back to)
holds the byte `pos - Behind(i)`, except for those a read in progress is writing over, and
that behind `wp` lies what has arrived. It needs that a fill in progress has room for all
it may read, short of the reader (`HasRoom`, from the reserve in front of `rp`), that the
connection goes on where the ring does (`InStep`), and that the reader is where the caller
believes (`AtReader`). `Geometry`, `Advance` and `Consume` carry the arithmetic of the
wrap-around once; each action then moves at most one of the pointers. `KeepsUnread`
follows from `HasRoom`, the refinement of `ByteStream` (`StreamStep`) from `RingHolds`
for the bytes a copy delivers (`CopyDelivers`).

`ServedInPlace` says when a connection does not go astray at all: if the server can be
reached, rejects no request and keeps to the range (`Serves`). Connections may still break
while their bytes come in, close too early and be slow. So the loss the run `http_resume`
shows is due to requests that fail, which `http_seek` takes for "continue on old
connection", and not to the retries. With such a server the refinement of `ByteStream` has
no exception (`ServedStream`). `InterruptBounds` gives the three nested loops of retries one
measure: nine steps for each byte that was asked for and the `Stage` of the call; once
interrupted, every step of the system is the thread's and lowers it.

Only model-checked: the liveness properties (`EveryCommandLeaves`, `SleepReturns`, both
`ReleaseReturns`, `StopReturns`, `InterruptEnds`); fairness and ENABLED are out of the
prover's reach. The safety half of each is proved, a bounded measure that each
step of the thread that is waited for lowers (`NobodyOvertakes`, `WaitBounds`, `StopBounds`,
`InterruptBounds`, `ReleaseBounds` with `DecodeBounds`); what is left to TLC is that the
threads take these steps. `NoPlayAfterStop` is proved under the hypotheses
given above and refuted without the first (`stop_reset`).

## Plan

1. Done: the pool, the ids, the mate, the player thread with stop, the life of
   players under several application threads with the list of interrupted threads.
2. Done: that no freed block is used, no block lost, and every id leads to its player
   (`PlayerControlProofs`).
   Done there too: `ListAccounted`, and the refinement of `PidPool`.
3. Done: `AudioEngine`, the audio decoder engine, with its invariants proved.
4. Done: `HttpStream` and `LoopBuffer`, the network input, with its refinement of
   `ByteStream` proved.
5. `Buffering`: the thresholds of `update_buffering_states` and the counts of
   `check_force_end` as functions over bounded levels, checked against what the
   settings promise; the static retry counts of `player_av.c`, shared by all players.
6. The block map of the cache file (`player_cache_file.c`).
7. Done: `PauseAgrees`, `NoPlayAfterStop` under assumptions on `Trouble`, and the
   measures behind the liveness properties.
