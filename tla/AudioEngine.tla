------------------------------ MODULE AudioEngine ------------------------------
(***************************************************************************)
(* The audio decoder engine (amadec): the calls a player makes into it     *)
(* (adec-external-ctrl.c), its message loop (adec-internal-mgt.c for the   *)
(* decoder in the audio dsp, "ARC", and adec-ffmpeg-mgt.c for the decoder  *)
(* libraries, "ARM"), the decode thread of the latter, and the output they *)
(* share (android-out.cpp).                                                *)
(*                                                                         *)
(* An output function reads the track from private_data and only then      *)
(* takes the lock of the output, so a call of it is two steps.  Media data *)
(* is left out: what a device answers, and when, is a choice.              *)
(***************************************************************************)
EXTENDS Integers, Sequences

CONSTANTS Decoders,         \* what set_audio_decoder chooses: ARC or ARM, which is
                            \* ARM_CODED if the frames start with a code (APE, ALAC)
          MESSAGE_NUM_MAX,  \* size of the message pool
          MaxSends,         \* bound on the pauses, resumes and mutes of an engine
          MaxChanges        \* bound on the changes of format of a stream

ASSUME EngineAssumption ==
  /\ Decoders \subseteq {"ARC", "ARM", "ARM_CODED"}
  /\ MESSAGE_NUM_MAX \in Nat \ {0}
  /\ MaxSends \in Nat
  /\ MaxChanges \in Nat

Command == {"START", "PAUSE", "RESUME", "MUTE", "STOP", "RELEASE"}

VARIABLES player,              \* where the player is in the calls it makes
          kind,                \* audio_decoder
          need_stop,
          auto_mute,
          state,               \* adec_state_t
          queue,               \* the messages in the pool
          loop, decode,        \* where each thread is,
          loop_call,           \* ... and the output function it is in
          decode_call,
          track,               \* the AudioTrack of private_data
          source,              \* the dsp, or the decoder with its PCM buffer
          clock,               \* the clock of the audio events (tsync)
          heard,               \* history: it got the last event of this engine
          exit_decode_thread,
          aout_stop_mutex,
          sent, changes,       \* counts for MaxSends and MaxChanges
          lost,                \* history: what a full pool has discarded
          met                  \* history: both threads were at the output at once

audec   == << need_stop, auto_mute, state, queue >>
statics == << exit_decode_thread, aout_stop_mutex >>
counts  == << sent, changes >>
threads == << loop, loop_call, decode, decode_call >>
tsync   == << clock, heard >>
vars    == << player, kind, audec, threads, track, source, tsync, statics, counts, lost,
              met >>

Pool == INSTANCE CommandQueue WITH Capacity <- MESSAGE_NUM_MAX

NoCall == [op |-> "none", ptr |-> "null", next |-> "none"]

Init ==
  /\ player = "idle" /\ kind \in Decoders
  /\ need_stop = FALSE /\ auto_mute = FALSE /\ state = "IDLE" /\ queue = << >>
  /\ loop = "none" /\ loop_call = NoCall /\ decode = "none" /\ decode_call = NoCall
  /\ track = "none" /\ source = "closed" /\ clock = "off" /\ heard = TRUE
  /\ exit_decode_thread = FALSE /\ aout_stop_mutex = FALSE
  /\ sent = 0 /\ changes = 0 /\ lost = {} /\ met = FALSE

\* The player or a thread goes on, from one place to another.
Go(here, from, to) == here = from /\ here' = to

\* Where a thread is, or will be when its output function returns.
Place(here, call) == IF here = "call" THEN call.next ELSE here
-----------------------------------------------------------------------------
(* The output.  A pointer that was read is "live" until the track is       *)
(* deleted by the other thread, and "stale" from then on.                  *)

\* An output function up to its lock: the caller will go on at next.
Enter(here, call, from, op, next) ==
  /\ Go(here, from, "call")
  /\ call' = [op |-> op, ptr |-> IF track = "none" THEN "null" ELSE "live", next |-> next]

\* What an output function does to the track; start deletes one that fails initCheck.
Effect(op) ==
  CASE op = "start"                        -> {"playing", "none"}
    [] op = "resume"                       -> {"playing"}
    [] op = "pause" /\ track = "playing"   -> {"paused"}
    [] op = "stop"                         -> {"none"}
    [] OTHER                               -> {track}

\* ... and from its lock to its return.  On a track that was deleted anything
\* may come of it.
Return(here, call, other) ==
  /\ Go(here, "call", call.next)
  /\ track' \in CASE call.ptr = "null"  -> {track}
                  [] call.ptr = "live"  -> Effect(call.op)
                  [] call.ptr = "stale" -> {track, "none"}
  /\ call' = NoCall
  /\ other' = IF other.ptr = "live" /\ track' = "none"
              THEN [other EXCEPT !.ptr = "stale"] ELSE other
  /\ met' = (met \/ call.ptr = "stale")
  /\ UNCHANGED << player, kind, audec, source, tsync, statics, counts, lost >>

LoopReturns   == Return(loop, loop_call, decode_call) /\ UNCHANGED decode
DecodeReturns == Return(decode, decode_call, loop_call) /\ UNCHANGED loop

\* The AudioTrack's own thread asks for data and finds the time stamps jump.
Callback ==
  /\ player # "idle" /\ track = "playing"
  /\ auto_mute' = TRUE
  /\ UNCHANGED << player, kind, need_stop, state, queue, threads, track, source, tsync,
                  statics, counts, lost, met >>
-----------------------------------------------------------------------------
(* The player and the application.                                         *)

\* A wrong send: a full pool is not looked for.
SendUnbounded(c) ==
  /\ queue' = Append(queue, c)
  /\ UNCHANGED << kind, auto_mute, state, threads, track, source, tsync, statics, changes,
                  lost, met >>

\* adec_send_message
Send(c) ==
  /\ Pool!Put(c)
  /\ lost' = lost \cup (IF Len(queue) < MESSAGE_NUM_MAX
                        THEN {} ELSE {Head(queue)} \cap {"STOP", "RELEASE"})
  /\ UNCHANGED << kind, auto_mute, state, threads, track, source, tsync, statics, changes,
                  met >>

\* audio_decode_init.  The track and the dsp that an earlier engine has left
\* behind are out of reach; with a decode thread left the program is undefined.
Create ==
  /\ Go(player, "idle", "created") /\ decode \in {"none", "exited"}
  /\ kind' \in Decoders
  /\ need_stop' = FALSE /\ auto_mute' = FALSE /\ state' = "IDLE" /\ queue' = << >>
  /\ loop' = "init" /\ decode' = "none"
  /\ track' = "none" /\ source' = "closed"
  /\ sent' = 0 /\ changes' = 0 /\ lost' = {} /\ met' = FALSE /\ heard' = TRUE
  /\ UNCHANGED << loop_call, decode_call, clock, statics >>

Start ==
  /\ Go(player, "created", "playing")
  /\ Send("START")
  /\ UNCHANGED << need_stop, sent >>

\* codec_pause and codec_resume.
PauseOrResume ==
  /\ player = "playing" /\ sent < MaxSends
  /\ \E c \in {"PAUSE", "RESUME"} : Send(c)
  /\ sent' = sent + 1
  /\ UNCHANGED << player, need_stop >>

\* audio_decode_automute, which mutes whatever it is asked.
Automute ==
  /\ player = "playing"
  /\ auto_mute' = TRUE
  /\ UNCHANGED << player, kind, need_stop, state, queue, threads, track, source, tsync,
                  statics, counts, lost, met >>

\* Mute, volume and channels: the application's, at any time.
Mute ==
  /\ player # "idle" /\ sent < MaxSends
  /\ Send("MUTE")
  /\ sent' = sent + 1
  /\ UNCHANGED << player, need_stop >>

\* audio_stop: audio_decode_stop, in two steps,
\* (a wrong one: only the message is sent)
StopFlagForgotten ==
  /\ Go(player, "playing", "stopping")
  /\ UNCHANGED << kind, audec, threads, track, source, tsync, statics, counts, lost, met >>

StopFlag ==
  /\ Go(player, "playing", "stopping")
  /\ need_stop' = TRUE
  /\ UNCHANGED << kind, auto_mute, state, queue, threads, track, source, tsync, statics,
                  counts, lost, met >>

StopSend ==
  /\ Go(player, "stopping", "releasing")
  /\ Send("STOP")
  /\ UNCHANGED << need_stop, sent >>

\* ... then audio_decode_release, which waits for the message loop.
ReleaseSend ==
  /\ Go(player, "releasing", "joining")
  /\ Send("RELEASE")
  /\ UNCHANGED << need_stop, sent >>

Join ==
  /\ Go(player, "joining", "idle")
  /\ Go(loop, "exit", "none")
  /\ UNCHANGED << kind, audec, loop_call, decode, decode_call, track, source, tsync, statics,
                  counts, lost, met >>

PlayerFair == StopSend \/ ReleaseSend \/ Join
PlayerNext == Create \/ Start \/ PauseOrResume \/ Automute \/ Mute \/ StopFlag \/ PlayerFair
-----------------------------------------------------------------------------
(* The message loop, first part: until the decoder and the output are      *)
(* there, or the player has asked for the end.                             *)

\* What the loop leaves alone, and what it mostly does.
LoopNever  == << player, kind, need_stop, counts, lost, decode_call >>
LoopLeaves == << LoopNever, decode >>

InitTest ==
  /\ loop = "init"
  /\ loop' = IF need_stop THEN "check" ELSE "open"
  /\ state' = IF need_stop THEN state ELSE "INITING"
  /\ UNCHANGED << LoopLeaves, auto_mute, queue, loop_call, track, source, tsync, statics, met >>

\* A wrong audiodsp_init: a descriptor that is left over is no obstacle.
OpenDspAnyway ==
  /\ kind = "ARC" /\ loop = "open"
  /\ source' = "open"
  /\ loop' = "format"
  /\ UNCHANGED << LoopLeaves, auto_mute, state, queue, loop_call, track, tsync, statics, met >>

\* feeder_init up to audiodsp_start.  The dsp is opened only if there is no
\* descriptor; one whose last firmware fails is closed but remembered.
OpenDsp ==
  /\ kind = "ARC" /\ loop = "open"
  /\ \E new \in {source} \cup (IF source = "closed" THEN {"stale", "open"} ELSE {}) :
       /\ source' = new
       /\ loop' = IF new = "open" THEN "format" ELSE "init"
  /\ UNCHANGED << LoopLeaves, auto_mute, state, queue, loop_call, track, tsync, statics, met >>

\* audiodsp_start, which waits for the format some time or until need_stop.
StartDsp ==
  /\ \/ Go(loop, "format", "aout") /\ source' = source
     \/ Go(loop, "format", "init") /\ source' = "closed"
  /\ UNCHANGED << LoopLeaves, auto_mute, state, queue, loop_call, track, tsync, statics, met >>

\* audio_codec_init up to its first write to sysfs ...
ResetCodec ==
  /\ kind # "ARC" /\ Go(loop, "open", "set_err")
  /\ exit_decode_thread' = FALSE /\ aout_stop_mutex' = FALSE
  /\ UNCHANGED << LoopLeaves, auto_mute, state, queue, loop_call, track, source, tsync, met >>

\* ... which it tries again until it succeeds, whatever the player asks for; then
\* the decoder, the PCM buffer, the input.
OpenCodec ==
  /\ loop = "set_err"
  /\ \E new \in {"open", "closed"} :
       /\ source' = new
       /\ loop' = IF new = "open" THEN "aout" ELSE "init"
  /\ UNCHANGED << LoopLeaves, auto_mute, state, queue, loop_call, track, tsync, statics, met >>

\* android_init; a failure takes the decoder back.
OpenOutput ==
  /\ \/ Go(loop, "aout", "check") /\ track' = "ready" /\ state' = "INITTED"
     \/ Go(loop, "aout", "undo") /\ UNCHANGED << track, state >>
  /\ UNCHANGED << LoopLeaves, auto_mute, queue, loop_call, source, tsync, statics, met >>

\* feeder_release: a dsp that refuses to stop stays open.
CloseDsp(from, to) ==
  /\ kind = "ARC" /\ Go(loop, from, to)
  /\ source' \in {"closed", "stuck"}
  /\ UNCHANGED << LoopLeaves, auto_mute, state, queue, loop_call, track, tsync, statics, met >>

\* audio_codec_release: stop_decode_thread up to its join ...
AskDecodeExit(from, to) ==
  /\ kind # "ARC" /\ Go(loop, from, to)
  /\ exit_decode_thread' = TRUE
  /\ UNCHANGED << LoopLeaves, auto_mute, state, queue, loop_call, track, source, tsync,
                  aout_stop_mutex, met >>

\* (a wrong rest: the thread is not joined)
CloseCodecUnjoined(from, to) ==
  /\ Go(loop, from, to)
  /\ exit_decode_thread' = FALSE
  /\ source' = "closed"
  /\ UNCHANGED << LoopLeaves, auto_mute, state, queue, loop_call, track, tsync,
                  aout_stop_mutex, met >>

\* ... and, with no decode thread left, all the rest of it.
CloseCodec(from, to) ==
  /\ loop = from /\ decode \in {"none", "exited"}
  /\ loop' = to /\ decode' = "none"
  /\ exit_decode_thread' = FALSE
  /\ source' = "closed"
  /\ UNCHANGED << LoopNever, auto_mute, state, queue, loop_call, track, tsync,
                  aout_stop_mutex, met >>

Undo == \/ CloseDsp("undo", "init")
        \/ AskDecodeExit("undo", "undo_join")
        \/ CloseCodec("undo_join", "init")
-----------------------------------------------------------------------------
(* The message loop, second part.  adec_flag_check comes before every look *)
(* at the pool.                                                            *)

LoopGoes(from, to) ==
  /\ Go(loop, from, to)
  /\ UNCHANGED << LoopLeaves, auto_mute, state, queue, loop_call, track, source, tsync, statics,
                  met >>

FlagCheck ==
  /\ IF auto_mute /\ state \in {"ACTIVE", "PAUSED"}
     THEN Enter(loop, loop_call, "check", "pause", "flag_wait")
     ELSE Go(loop, "check", "get") /\ loop_call' = loop_call
  /\ UNCHANGED << LoopLeaves, auto_mute, state, queue, track, source, tsync, statics, met >>

\* track_switch_pts lets the audio go on, or the player asks for the end.
FlagWaitEnds ==
  /\ Enter(loop, loop_call, "flag_wait", "resume", "flag_clear")
  /\ UNCHANGED << LoopLeaves, auto_mute, state, queue, track, source, tsync, statics, met >>

FlagClear ==
  /\ Go(loop, "flag_clear", "get")
  /\ auto_mute' = FALSE
  /\ UNCHANGED << LoopLeaves, state, queue, loop_call, track, source, tsync, statics, met >>

NoMessage ==
  /\ queue = << >>
  /\ LoopGoes("get", "check")

\* adec_get_message gives c.
Get(c) == loop = "get" /\ Pool!Take /\ Head(queue) = c

\* A message the state of the engine does not call for.
Ignored ==
  /\ \/ Get("START")  /\ state # "INITTED"
     \/ Get("PAUSE")  /\ state # "ACTIVE"
     \/ Get("RESUME") /\ state # "PAUSED"
     \/ Get("STOP")   /\ state \notin {"INITTED", "ACTIVE", "PAUSED"} /\ kind = "ARC"
  /\ loop' = "check"
  /\ UNCHANGED << LoopLeaves, auto_mute, state, loop_call, track, source, tsync, statics, met >>

\* start_decode_thread, which may fail, and start_adec up to its first wait.
DoStart ==
  /\ Get("START") /\ state = "INITTED"
  /\ state' = "ACTIVE"
  /\ \E thread \in IF kind # "ARC" THEN {"test", decode} ELSE {decode} :
       loop' = "first_pts" /\ decode' = thread
  /\ UNCHANGED << LoopNever, auto_mute, loop_call, track, source, tsync, statics, met >>

\* adec_pts_start, adec_pts_pause and adec_pts_resume: an event for the clock,
\* which may not reach it.  Nobody looks at what they return.
Tell(new) ==
  /\ heard' \in BOOLEAN
  /\ clock' = IF heard' THEN new ELSE clock

\* The first time stamp, or need_stop, then adec_pts_start; an auto mute
\* pauses the clock, started or not, and waits for the picture.
FirstPts ==
  /\ IF auto_mute
     THEN /\ Go(loop, "first_pts", "start_wait")
          /\ \/ Tell("paused")
             \/ clock' = "run" /\ heard' = FALSE
     ELSE Go(loop, "first_pts", "start_output") /\ Tell("run")
  /\ UNCHANGED << LoopLeaves, auto_mute, state, queue, loop_call, track, source, statics, met >>

\* (wrongly: the clock is told nothing)
StartWaitUnpaired ==
  /\ Go(loop, "start_wait", "start_output")
  /\ auto_mute' = FALSE
  /\ UNCHANGED << LoopLeaves, state, queue, loop_call, track, source, tsync, statics, met >>

StartWaitEnds ==
  /\ Go(loop, "start_wait", "start_output")
  /\ Tell("run") /\ auto_mute' = FALSE
  /\ UNCHANGED << LoopLeaves, state, queue, loop_call, track, source, statics, met >>

StartOutput ==
  /\ Enter(loop, loop_call, "start_output", "start", "check")
  /\ UNCHANGED << LoopLeaves, auto_mute, state, queue, track, source, tsync, statics, met >>

DoPause ==
  /\ Get("PAUSE") /\ state = "ACTIVE"
  /\ state' = "PAUSED" /\ Tell("paused")
  /\ Enter(loop, loop_call, "get", "pause", "check")
  /\ UNCHANGED << LoopLeaves, auto_mute, track, source, statics, met >>

DoResume ==
  /\ Get("RESUME") /\ state = "PAUSED"
  /\ state' = "ACTIVE"
  /\ Enter(loop, loop_call, "get", "resume", "resume_clock")
  /\ UNCHANGED << LoopLeaves, auto_mute, track, source, tsync, statics, met >>

ResumeClock ==
  /\ Go(loop, "resume_clock", "check")
  /\ Tell("run")
  /\ UNCHANGED << LoopLeaves, auto_mute, state, queue, loop_call, track, source, statics, met >>

DoMute ==
  /\ Get("MUTE")
  /\ Enter(loop, loop_call, "get", "mute", "check")
  /\ UNCHANGED << LoopLeaves, auto_mute, state, track, source, tsync, statics, met >>

DoRelease ==
  /\ Get("RELEASE")
  /\ state' = "TERMINATED"
  /\ loop' = "exit"
  /\ UNCHANGED << LoopLeaves, auto_mute, loop_call, track, source, tsync, statics, met >>
-----------------------------------------------------------------------------
(* STOP.  With a decode thread it is handled under aout_stop_mutex, which  *)
(* is a plain integer: looked at in one step and set in another.           *)

LoopAtOutput   == Place(loop, loop_call) \in {"stop_output", "release", "join", "unlock"}
                  /\ kind # "ARC"
DecodeAtOutput == Place(decode, decode_call) \in {"reinit", "restart", "done"}

\* stop_adec up to the mute.
StopAdec(from) ==
  /\ state' = "STOPPED"
  /\ Enter(loop, loop_call, from, "mute", "stop_output")

DoStop ==
  /\ Get("STOP") /\ kind = "ARC" /\ state \in {"INITTED", "ACTIVE", "PAUSED"}
  /\ StopAdec("get")
  /\ UNCHANGED << LoopLeaves, auto_mute, track, source, tsync, statics, met >>

DoStopLocked ==
  /\ Get("STOP") /\ kind # "ARC"
  /\ loop' = "lock"
  /\ UNCHANGED << LoopLeaves, auto_mute, state, loop_call, track, source, tsync, statics, met >>

LockTest ==
  /\ ~ aout_stop_mutex
  /\ LoopGoes("lock", "grab")

\* A wrong stop_adec: nothing is done for an engine that is paused.
GrabUnlessPaused ==
  /\ aout_stop_mutex' = TRUE
  /\ met' = (met \/ DecodeAtOutput)
  /\ IF state \in {"INITTED", "ACTIVE"}
     THEN StopAdec("grab")
     ELSE Go(loop, "grab", "unlock") /\ UNCHANGED << state, loop_call >>
  /\ UNCHANGED << LoopLeaves, auto_mute, queue, track, source, tsync, exit_decode_thread >>

Grab ==
  /\ aout_stop_mutex' = TRUE
  /\ met' = (met \/ DecodeAtOutput)
  /\ IF state \in {"INITTED", "ACTIVE", "PAUSED"}
     THEN StopAdec("grab")
     ELSE Go(loop, "grab", "unlock") /\ UNCHANGED << state, loop_call >>
  /\ UNCHANGED << LoopLeaves, auto_mute, queue, track, source, tsync, exit_decode_thread >>

\* A wrong stop_adec: the track goes on without its source.
StopOutputForgotten == LoopGoes("stop_output", "release")

StopOutput ==
  /\ Enter(loop, loop_call, "stop_output", "stop", "release")
  /\ UNCHANGED << LoopLeaves, auto_mute, state, queue, track, source, tsync, statics, met >>

StopSource == \/ CloseDsp("release", "check")
              \/ AskDecodeExit("release", "join")
              \/ CloseCodec("join", "unlock")

Unlock ==
  /\ Go(loop, "unlock", "check")
  /\ aout_stop_mutex' = FALSE
  /\ UNCHANGED << LoopLeaves, auto_mute, state, queue, loop_call, track, source, tsync,
                  exit_decode_thread, met >>

\* The steps the loop takes by itself, and the ends of its waits for a device.
LoopFair == \/ InitTest \/ OpenDsp \/ StartDsp \/ ResetCodec \/ OpenOutput \/ Undo
            \/ FlagCheck \/ FlagClear \/ NoMessage \/ Ignored \/ DoStart \/ StartOutput
            \/ DoPause \/ DoResume \/ ResumeClock \/ DoMute \/ DoRelease
            \/ DoStop \/ DoStopLocked \/ LockTest \/ Grab \/ StopOutput \/ StopSource
            \/ Unlock \/ LoopReturns
LoopWaitEnds == FlagWaitEnds \/ FirstPts \/ StartWaitEnds
LoopNext == LoopFair \/ LoopWaitEnds \/ OpenCodec
-----------------------------------------------------------------------------
(* The decode thread (audio_decode_loop).                                  *)

DecodeLeaves == << player, kind, audec, source, tsync, sent, lost, exit_decode_thread,
                   loop, loop_call >>

DecodeTest ==
  /\ Go(decode, "test", IF exit_decode_thread THEN "exited" ELSE "info")
  /\ UNCHANGED << DecodeLeaves, decode_call, track, changes, aout_stop_mutex, met >>

\* The next frame: where the stream has codes, that of the next frame is
\* looked for byte by byte, without a look at exit_decode_thread.
Input == IF kind = "ARM_CODED" THEN "scan" ELSE "read"

\* No change of format, or one that finds the output taken.
SameInfo ==
  /\ Go(decode, "info", Input)
  /\ UNCHANGED << DecodeLeaves, decode_call, track, changes, aout_stop_mutex, met >>

NewInfo ==
  /\ changes < MaxChanges /\ ~ aout_stop_mutex
  /\ Go(decode, "info", "take")
  /\ changes' = changes + 1
  /\ UNCHANGED << DecodeLeaves, decode_call, track, aout_stop_mutex, met >>

Take ==
  /\ aout_stop_mutex' = TRUE
  /\ met' = (met \/ LoopAtOutput)
  /\ Enter(decode, decode_call, "take", "stop", "reinit")
  /\ UNCHANGED << DecodeLeaves, track, changes >>

\* Whether android_init succeeds is not looked at.
Reinit ==
  /\ Go(decode, "reinit", "restart")
  /\ track' \in {track, "ready"}
  /\ UNCHANGED << DecodeLeaves, decode_call, changes, aout_stop_mutex, met >>

Restart ==
  /\ Enter(decode, decode_call, "restart", "start", "done")
  /\ UNCHANGED << DecodeLeaves, track, changes, aout_stop_mutex, met >>

Done ==
  /\ Go(decode, "done", Input)
  /\ aout_stop_mutex' = FALSE
  /\ UNCHANGED << DecodeLeaves, decode_call, track, changes, met >>

\* read_buffer, asked to exit, returns a length that nothing has set.
Scan ==
  /\ Go(decode, "scan", "test") \/ Go(decode, "scan", "search")
  /\ UNCHANGED << DecodeLeaves, decode_call, track, changes, aout_stop_mutex, met >>

CodeFound ==
  /\ \/ Go(decode, "search", "read")
     \/ Go(decode, "search", "exited")   \* a frame size of 0
  /\ UNCHANGED << DecodeLeaves, decode_call, track, changes, aout_stop_mutex, met >>

\* A frame is read, decoded and put into the PCM buffer, or none is.
Decode ==
  /\ Go(decode, "read", "test")
  /\ UNCHANGED << DecodeLeaves, decode_call, track, changes, aout_stop_mutex, met >>

DecodeFair == \/ DecodeTest \/ SameInfo \/ NewInfo \/ Take \/ Reinit \/ Restart \/ Done
              \/ Scan \/ Decode \/ DecodeReturns
DecodeNext == DecodeFair \/ CodeFound
-----------------------------------------------------------------------------
Next == PlayerNext \/ Callback \/ LoopNext \/ DecodeNext

Spec == Init /\ [][Next]_vars

\* The threads are scheduled, and audio_stop goes on once it was called.  The
\* waits for a time stamp or for the picture end for sure only by need_stop;
\* no start code has to come, and no write to sysfs has to succeed.
FairSpec == Spec /\ WF_vars(PlayerFair) /\ WF_vars(LoopFair) /\ WF_vars(DecodeFair)
                 /\ WF_vars(need_stop /\ LoopWaitEnds)
-----------------------------------------------------------------------------
LoopPlace   == {"none", "init", "open", "set_err", "format", "aout", "undo", "undo_join", "check",
                "flag_wait", "flag_clear", "get", "first_pts", "start_wait",
                "start_output", "resume_clock", "stop_output", "release", "lock", "grab",
                "join", "unlock", "exit", "call"}
DecodePlace == {"none", "test", "info", "take", "reinit", "restart", "done", "scan",
                "search", "read", "exited", "call"}
CallTo(places) ==
  {NoCall} \cup [op   : {"start", "pause", "resume", "mute", "stop"},
                 ptr  : {"null", "live", "stale"},
                 next : places]

TypeOK ==
  /\ player \in {"idle", "created", "playing", "stopping", "releasing", "joining"}
  /\ kind \in Decoders
  /\ need_stop \in BOOLEAN /\ auto_mute \in BOOLEAN
  /\ state \in {"IDLE", "TERMINATED", "STOPPED", "INITING", "INITTED", "ACTIVE", "PAUSED"}
  /\ queue \in Seq(Command) /\ Len(queue) <= MESSAGE_NUM_MAX
  /\ loop \in LoopPlace /\ loop_call \in CallTo({"flag_wait", "flag_clear", "check",
                                   "resume_clock", "stop_output", "release"})
  /\ decode \in DecodePlace /\ decode_call \in CallTo({"reinit", "done"})
  /\ track \in {"none", "ready", "playing", "paused"}
  /\ source \in {"closed", "open", "stale", "stuck"}
  /\ clock \in {"off", "run", "paused"} /\ heard \in BOOLEAN
  /\ exit_decode_thread \in BOOLEAN /\ aout_stop_mutex \in BOOLEAN
  /\ sent \in 0 .. MaxSends /\ changes \in 0 .. MaxChanges
  /\ lost \subseteq {"STOP", "RELEASE"}
  /\ met \in BOOLEAN

\* No STOP or RELEASE was discarded, and the output was never shared.
Undisturbed == lost = {} /\ ~ met

\* While there is a track its callback can come, and reads from the dsp or the
\* PCM buffer: the output is taken down before its source (stop_adec) and set
\* up after it, also when the decode thread changes it.
OutputIsFed == Undisturbed /\ track # "none" => source = "open"

Decoding == decode \notin {"none", "exited"}

\* The decode thread works on the PCM buffer and on the audec:
\* stop_decode_thread joins it before either is freed.
DecodesIntoBuffer ==
  Decoding => source = "open" /\ (lost = {} => player # "idle")

\* audio_decode_release frees the audec once the message loop has ended: by
\* then nothing plays, nothing decodes, and the decoder was released.
NothingLeftBehind ==
  Undisturbed /\ loop \in {"none", "exit"}
    => track = "none" /\ source # "open" /\ decode = "none"

\* Between two messages the clock the picture follows runs if the engine is
\* active and stands if it is paused, whatever was muted in between and whatever
\* event was lost before, unless the last event did not reach the clock.
ClockFollowsState ==
  loop \in {"check", "get"} /\ heard =>
    /\ state = "ACTIVE" => clock = "run"
    /\ state = "PAUSED" => clock = "paused"

\* A dsp that was left with a descriptor is never opened again: the engine
\* goes on trying (adec_message_loop), and none of its tries can succeed.
RetryIsFutile ==
  [][(source \in {"stale", "stuck"} /\ player # "idle")
       => (source' = source /\ (state' = "INITTED" => state = "INITTED"))]_vars

\* audio_decode_release returns, unless the pool has discarded its message, the
\* decode thread it waits for looks for a start code that never comes, or the
\* loop tries for ever to write to sysfs (audio_codec_init).
ReleaseReturns ==
  player = "stopping" ~> \/ player = "idle" \/ lost # {}
                         \/ [](decode = "search") \/ [](loop = "set_err")

\* adec-internal-mgt.c:154 has pause_adec "pause audio dec when receive PAUSE
\* command": nothing plays until the next one.
PauseHolds == state = "PAUSED" /\ loop \in {"check", "get"} => track # "playing"
=============================================================================
