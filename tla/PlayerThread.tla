---------------------------- MODULE PlayerThread ----------------------------
(***************************************************************************)
(* The player thread (player_thread of player/player.c) with the threads   *)
(* that act on it while it plays: its mate, which handles commands and     *)
(* updates the state in its place while a read may block, and the threads  *)
(* of the application, which send commands, or stop it with player_stop    *)
(* (they wait for its exit) or player_stop_async (they do not).            *)
(*                                                                         *)
(* The message pool is the bounded queue that CommandQueue specifies and   *)
(* MessagePool implements; the mate is woken and put to sleep as in        *)
(* PlayerMate, and each of its passes is a sequence of steps: it holds no  *)
(* lock on the play_para_t.  A step of the thread is all it does between   *)
(* two points where another thread matters to it.  Media data is left out: *)
(* what a read, a write, the decoder or the buffer levels may answer is a  *)
(* choice.  The stream has a video and a known duration; times are at its  *)
(* head, at its end or in between.                                         *)
(***************************************************************************)
EXTENDS Integers, Sequences

CONSTANTS Sync, Async,   \* the callers of player_stop and of player_stop_async
          Sent,          \* the other commands the application sends
          Amutils,       \* the commands that come in by sysfs (amutils_msg.c)
          Trouble,       \* what goes wrong: see TroubleKind
          MESSAGE_MAX,   \* size of the message pool
          MaxSends       \* bound on the commands of Sent and Amutils

Cmd == {"STOP", "START", "PAUSE", "RESUME", "SEARCH_head", "SEARCH_mid", "SEARCH_end",
        "SEARCH_over", "FF", "FB", "FF_0", "SWITCH_AID", "LOOP", "NOLOOP"}

\* io: reading, seeking or a device fails; decoder: it stalls and asks for a
\* reset; late_mate: the mate notices its wake so late that the sleep misses it, and
\* works when the read is over (see PlayerMate).
TroubleKind == {"io", "decoder", "late_mate"}

Caller == Sync \cup Async

ASSUME ThreadAssumption ==
  /\ Sync \cap Async = {}
  /\ Sent \subseteq Cmd \ {"STOP"}
  /\ Amutils \subseteq {"SWITCH_AID", "FF", "FB", "FF_0"}
  /\ Trouble \subseteq TroubleKind
  /\ MESSAGE_MAX \in Nat \ {0}
  /\ MaxSends \in Nat

VARIABLES pc,           \* where the player thread is
          p,            \* the play_para_t: its status and its playctrl_info
          pkt,          \* avpkt_isvalid: a packet is read and not yet written
          queue,        \* the messages in the pool
          mate,         \* where the mate is
          task,         \* the command the mate has in hand, or "none"
          late,         \* 1 if the thread has last gone to its read while the mate was
                        \* about to write the status or pause_flag (history)
          interrupted,  \* the thread is in the kill_item_list
          caller,       \* where each caller of a stop function is
          sent          \* commands sent so far

vars == << pc, p, pkt, queue, mate, task, late, interrupted, caller, sent >>

Init ==
  /\ pc = "created"
  /\ \E loop \in IF "LOOP" \in Sent THEN {0, 1} ELSE {0} :
       p = [status |-> "NONE", end |-> 0, request_end |-> 0, search |-> 0,
            loop |-> loop, reset |-> 0, ff |-> 0, fb |-> 0, init |-> 0, step |-> 0,
            pause |-> 0, read_end |-> 0, seek_audio |-> 0, at |-> "head"]
  /\ pkt = 0
  /\ queue = << >>
  /\ mate = "none" /\ task = "none" /\ late = 0
  /\ interrupted = 0
  /\ caller = [c \in Caller |-> "idle"]
  /\ sent = 0

\* PLAYER_THREAD_IS_STOPPED
Stopped(status) == status \in {"ERROR", "PLAYEND", "STOPED", "EXIT"}

Broken == "io" \in Trouble \/ interrupted = 1

Goto(from, to) == pc = from /\ pc' = to

\* What a step of the player thread leaves alone.
Aside == << interrupted, caller, task, late >>
-----------------------------------------------------------------------------
(* Operators on the play_para_t.  One with several outcomes is a set.      *)

\* check_avbuf_end and check_force_end, when they find both buffers run dry:
\* only the second one drops a search.
PlayedOut(s) ==
  IF s.loop = 1
  THEN {[s EXCEPT !.end = 1], [s EXCEPT !.end = 1, !.search = 0]}
  ELSE {[s EXCEPT !.end = 1, !.status = "PLAYEND", !.ff = 0, !.fb = 0,
                  !.search = 0, !.reset = 0, !.step = 0]}

\* update_buffering_states; the levels that decide are a choice.
Buffered(s) ==
  CASE s.status = "RUNNING" /\ s.read_end = 0 -> {s, [s EXCEPT !.status = "BUFFERING"]}
    [] s.status = "BUFFERING"                 -> {s, [s EXCEPT !.status = "RUNNING"]}
    [] OTHER                                  -> {s}

\* update_playing_info.  It may fail at its first device call, or change nothing.
UpdateInfo(s) ==
  Buffered(s) \cup
  IF s.read_end = 1 /\ s.end = 0 /\ s.status # "PAUSE"
  THEN UNION {PlayedOut(b) : b \in Buffered(s)}
  ELSE {}

\* A search that arrives while the player searches ends fast forward and backward.
Calm(s) == IF s.status = "SEARCHING"
           THEN [s EXCEPT !.ff = 0, !.fb = 0, !.step = 0] ELSE s

\* Two ways to take STOP wrongly: a fast forward stays on; the loop stays on.
StopKeepsTrick(s) == [s EXCEPT !.end = 1, !.loop = 0, !.search = 0, !.request_end = 1,
                               !.pause = 0]
StopKeepsLoop(s)  == [s EXCEPT !.end = 1, !.search = 0, !.request_end = 1,
                               !.pause = 0, !.ff = 0, !.fb = 0]

\* A STOP (or EXIT) as check_msg takes it; f_step keeps its value.
StopMsg(s) == [s EXCEPT !.end = 1, !.loop = 0, !.search = 0, !.request_end = 1,
                        !.pause = 0, !.ff = 0, !.fb = 0]

\* check_msg.  A search to the end calls update_playing_info, which has nothing
\* left to do; commands check_msg has no branch for, START among them, are lost.
CheckMsg(s, cmd) ==
  CASE cmd = "STOP" -> StopMsg(s)
    [] cmd = "SEARCH_head" -> [Calm(s) EXCEPT !.search = 1, !.end = 1, !.at = "head"]
    [] cmd = "SEARCH_mid"  -> [Calm(s) EXCEPT !.search = 1, !.end = 1, !.at = "mid"]
    [] cmd = "SEARCH_end"  ->
         [Calm(s) EXCEPT !.search = 0, !.end = 1, !.status = "PLAYEND"]
    [] cmd = "SEARCH_over" -> Calm(s)
    [] cmd = "PAUSE"  -> [s EXCEPT !.pause = 1]
    [] cmd = "RESUME" -> [s EXCEPT !.pause = 0]
    [] cmd = "FF" -> [s EXCEPT !.init = 0, !.step = 1, !.ff = 1, !.fb = 0,
                               !.pause = 0, !.status = "RUNNING"]
    [] cmd = "FB" -> [s EXCEPT !.init = 0, !.step = 1, !.ff = 0, !.fb = 1,
                               !.pause = 0, !.status = "RUNNING"]
    [] cmd = "FF_0" -> [s EXCEPT !.init = 0, !.step = 0]
    [] cmd = "SWITCH_AID" -> [s EXCEPT !.seek_audio = 1]
    [] cmd = "LOOP"   -> [s EXCEPT !.loop = 1]
    [] cmd = "NOLOOP" -> [s EXCEPT !.loop = 0]
    [] OTHER -> s

Trick(s) == s.ff = 1 \/ s.fb = 1

\* The wrong flag: any end is taken for a stop.
EndStatusByEnd(s) == IF s.end = 1 THEN "STOPED" ELSE "PLAYEND"

EndStatus(s) == IF s.request_end = 1 THEN "STOPED" ELSE "PLAYEND"

\* The status of a player that comes to its end, and not to a search.
ShowEnd(s) == IF s.search = 0 /\ ~ Trick(s)
              THEN [s EXCEPT !.status = EndStatus(s)] ELSE s

\* player_switch_audio, when one was asked for: past the end of the file it has
\* the decoder reset.
SwitchAudio(s) ==
  CASE s.seek_audio = 0 -> {s}
    [] s.seek_audio = 1 /\ s.read_end = 0 -> {[s EXCEPT !.seek_audio = 0]}
    [] OTHER -> {[s EXCEPT !.seek_audio = 0],
                 [s EXCEPT !.seek_audio = 0, !.reset = 1, !.end = 1]}

\* The rest of check_flag, after its message: what it returns and leaves behind.
CheckFlag(s) ==
  CASE s.end = 1 ->
         {[ret |-> "BREAK", s |-> ShowEnd(s)]}
    [] s.end = 0 /\ Trick(s) /\ s.init = 0 /\ s.step = 1 ->
         {[ret |-> "BREAK", s |-> [s EXCEPT !.init = 1, !.at = t]] :
            t \in {"head", "mid", "end"}}
    [] s.end = 0 /\ Trick(s) /\ s.init = 0 /\ s.step = 0 ->
         {[ret |-> "BREAK", s |-> [s EXCEPT !.ff = 0, !.fb = 0, !.search = 1]]}
    [] s.end = 0 /\ ~ (Trick(s) /\ s.init = 0) /\ s.pause = 1 ->
         {[ret |-> "CONTINUE", s |-> [s EXCEPT !.status = "PAUSE"]]}
    [] OTHER ->
         {[ret |-> "NONO", s |-> q] :
            q \in UNION {SwitchAudio(r) :
                           r \in IF s.status = "PAUSE"
                                 THEN UpdateInfo([s EXCEPT !.status = "RUNNING"])
                                 ELSE {s}}}

\* check_decoder_worksta: a stalled decoder or a dead audio DSP (which also
\* has the audio switched) is to be reset.
DecoderCheck(s) ==
  {s} \cup IF "decoder" \in Trouble /\ s.status # "PAUSE"
           THEN {[s EXCEPT !.reset = 1, !.end = 1, !.at = "mid", !.seek_audio = a] :
                   a \in {s.seek_audio, 1}}
           ELSE {}

FfReachEnd(s) ==
  [s EXCEPT !.status = "FF_END", !.step = 0,
            !.at   = IF s.loop = 1 THEN "head" ELSE "end",
            !.init = IF s.loop = 1 THEN 0 ELSE s.init]

FbReachHead(s) == [s EXCEPT !.status = "FB_END", !.at = "head"]

\* Where fast forward or backward goes next, one step on from s.at.
TrickStep(s) ==
  CASE s.ff = 1 -> {[s EXCEPT !.at = "mid"], FfReachEnd(s)}
    [] s.ff = 0 /\ s.at = "head" -> {FbReachHead([s EXCEPT !.init = 0, !.step = 0])}
    [] OTHER -> {[s EXCEPT !.at = "mid"], [s EXCEPT !.at = "head"], FbReachHead(s)}

\* player_para_reset
ParaReset(s) == [s EXCEPT !.end = 0, !.read_end = 0]

\* time_search, which finds its point, takes over a pending switch of the audio.
TimeSearch(s) == [s EXCEPT !.seek_audio = 0]

\* player_dec_reset when no call in it fails, after player_para_reset.
DecReset(s) ==
  CASE s.ff = 1 /\ s.at = "end" -> {[s EXCEPT !.end = 1]}
    [] Trick(s) /\ ~ (s.ff = 1 /\ s.at = "end") ->
         {TimeSearch(r) : r \in IF s.step = 0 /\ ~ (s.ff = 0 /\ s.at = "head") THEN {s}
                                ELSE TrickStep(s)}
    [] OTHER ->
         {TimeSearch([s EXCEPT !.at = IF s.search = 0 /\ s.loop = 1 THEN "head" ELSE @])}
-----------------------------------------------------------------------------
(* The player thread, from its creation to the playback loop.              *)

Create ==
  /\ Goto("created", "opening")
  /\ p' = [p EXCEPT !.status = "INITING"]
  /\ UNCHANGED << pkt, queue, mate, Aside, sent >>

\* ffmpeg_open_file and ffmpeg_parse_file_type
OpenFile ==
  /\ \/ Goto("opening", "parsed") /\ p' = [p EXCEPT !.status = "TYPE_REDY"]
     \/ Goto("opening", "release") /\ Broken /\ p' = [p EXCEPT !.status = "ERROR"]
  /\ UNCHANGED << pkt, queue, mate, Aside, sent >>

\* With is_type_parser a STOP at the head of the queue ends the thread here: it
\* is only peeked at, and the status stays what it is.
ParseType ==
  /\ \/ Goto("parsed", "dec_init")
     \/ Goto("parsed", "release") /\ queue # << >> /\ Head(queue) = "STOP"
  /\ UNCHANGED << p, pkt, queue, mate, Aside, sent >>

\* player_dec_init and set_media_info; need_start decides where it goes on.
DecInit ==
  /\ \/ /\ pc = "dec_init" /\ pc' \in {"wait_start", "starting"}
        /\ p' = [p EXCEPT !.status = "INITOK"]
     \/ Goto("dec_init", "dec_failed") /\ Broken /\ p' = p
     \/ Goto("dec_init", "release") /\ "io" \in Trouble /\ p' = [p EXCEPT !.status = "ERROR"]
  /\ UNCHANGED << pkt, queue, mate, Aside, sent >>

\* One round of check_stop_cmd, at pc = from; status is what becomes of the player
\* when there is no STOP in the pool.
CheckStopCmd(from, to, status) ==
  /\ pc = from
  /\ UNCHANGED << pkt, mate, Aside, sent >>
  /\ \/ /\ queue = << >> /\ UNCHANGED queue
        /\ pc' = to /\ p' = [p EXCEPT !.status = status]
     \/ /\ queue # << >> /\ queue' = Tail(queue)
        /\ IF Head(queue) = "STOP"
           THEN pc' = to /\ p' = [p EXCEPT !.status = "STOPED"]
           ELSE pc' = pc /\ p' = p

DecFailed == CheckStopCmd("dec_failed", "release", "ERROR")

\* check_start_cmd: before the start a search only moves the point to start from.
CheckStartCmd(s, cmd) ==
  CASE cmd = "SEARCH_head" -> [s EXCEPT !.at = "head"]
    [] cmd = "SEARCH_mid"  -> [s EXCEPT !.at = "mid"]
    [] OTHER -> CheckMsg(s, cmd)

\* One round of the loop around check_start_cmd that finds a message.
WaitStart ==
  /\ pc = "wait_start"
  /\ queue # << >> /\ queue' = Tail(queue)
  /\ LET cmd == Head(queue)
         s   == CheckStartCmd(p, cmd)
     IN  CASE cmd = "START" -> pc' = "starting" /\ p' = s
           [] cmd # "START" /\ s.end = 1 /\ s.search = 0 ->
                pc' = "release" /\ p' = [s EXCEPT !.status = EndStatus(s)]
           [] OTHER -> pc' = pc /\ p' = s
  /\ UNCHANGED << pkt, mate, Aside, sent >>

\* player_decoder_init and player_mate_init
StartPlaying ==
  /\ \/ Goto("starting", "check") /\ p' = [p EXCEPT !.status = "START"] /\ mate' = "asleep"
     \/ /\ Goto("starting", "release") /\ "io" \in Trouble
        /\ p' = [p EXCEPT !.status = "ERROR"] /\ mate' = mate
  /\ UNCHANGED << pkt, queue, Aside, sent >>
-----------------------------------------------------------------------------
(* The playback loop.                                                      *)

\* The message check_flag handles first; with none in the pool, one by sysfs.
TakeMessage(s) ==
  \/ queue # << >> /\ queue' = Tail(queue) /\ p' = CheckMsg(s, Head(queue)) /\ sent' = sent
  \/ queue = << >> /\ queue' = queue /\ p' = s /\ sent' = sent
  \/ /\ queue = << >> /\ queue' = queue
     /\ sent < MaxSends /\ sent' = sent + 1
     /\ \E cmd \in Amutils : p' = CheckMsg(s, cmd)

PlayCheck ==
  /\ Goto("check", "flags")
  /\ TakeMessage(p)
  /\ UNCHANGED << pkt, mate, Aside >>

\* The mate between two passes, and where it is about to write the status or the
\* pause_flag as it has made up its mind to.
Resting == {"none", "asleep", "called", "awake"}
Decided == {"pause_flag", "pause_status", "resume_flag", "resume_status", "buffering",
            "running", "end_flag", "loop_test", "playend"}

\* The read, or with a packet at hand the buffering, wakes the mate.
Wake == mate' = IF mate = "asleep" THEN "called" ELSE mate

\* A mate that is at work is waited for; one that has not yet noticed its wake may be
\* missed.
Sleep == /\ mate \in Resting
         /\ \/ mate' = "asleep"
            \/ mate = "called" /\ mate' = mate /\ "late_mate" \in Trouble

PlayFlags ==
  /\ pc = "flags"
  /\ late' = IF mate \in Decided THEN 1 ELSE 0
  /\ \E r \in CheckFlag(p) :
       \/ /\ r.ret = "BREAK" /\ r.s.end = 0 /\ pkt = 1
          /\ pc' = "write" /\ p' = r.s /\ UNCHANGED mate
       \/ /\ r.ret = "BREAK" /\ ~ (r.s.end = 0 /\ pkt = 1)
          /\ pc' = "ended" /\ p' = [r.s EXCEPT !.end = 1] /\ UNCHANGED mate
       \/ r.ret = "CONTINUE" /\ pc' \in {"idle", "read"} /\ p' = r.s /\ Wake
       \/ r.ret = "NONO" /\ pc' = "read" /\ p' = r.s /\ Wake
  /\ UNCHANGED << pkt, queue, interrupted, caller, task, sent >>

\* The buffering of a paused player with enable_rw_on_pause: with nothing more to
\* buffer the loop starts over.
PausedBuffering ==
  /\ pc = "idle"
  /\ \/ pc' = (IF p.end = 1 THEN "ended" ELSE "check") /\ Sleep
     \/ pc' = "read" /\ mate \in Resting /\ mate' = "called"   \* asleep and woken again
  /\ UNCHANGED << p, pkt, queue, Aside, sent >>

\* What follows a read that went well: the player is running, if it was not.
NowRunning(s) ==
  IF s.step = 0 /\ s.status \notin {"RUNNING", "BUFFERING", "PAUSE"}
  THEN UpdateInfo([s EXCEPT !.status = "RUNNING"]) ELSE {s}

\* read_av_packet that does not fail: nothing yet, the end of the file, or a packet.
ReadAvPacket(s) ==
  {[got |-> 0, s |-> s], [got |-> 0, s |-> [s EXCEPT !.read_end = 1]]}
  \cup IF s.read_end = 0 THEN {[got |-> 1, s |-> s]} ELSE {}

\* With no packet at hand one is read; set_header_info turns "nothing yet" into success.
Read ==
  /\ pc = "read"
  /\ \/ /\ pc' = "write"
        /\ \/ pkt = 1 /\ pkt' = 1 /\ p' \in NowRunning(p)
           \/ /\ pkt = 0
              /\ \E r \in ReadAvPacket(p) : pkt' = r.got /\ p' \in NowRunning(r.s)
     \/ /\ pc' = "release" /\ Broken
        /\ pkt = 0 /\ pkt' = 0 /\ p' = [p EXCEPT !.status = "ERROR"]
  /\ Sleep
  /\ UNCHANGED << queue, Aside, sent >>

\* write_av_packet that does not fail, with a packet at hand or none: all is written, or
\* something is left.  A write that was blocked too often asks for a reset.
WriteAvPacket(s, valid) ==
  {[left |-> l, s |-> s] : l \in {0, valid}}
  \cup IF "decoder" \in Trouble /\ valid = 1
       THEN {[left |-> 1, s |-> [s EXCEPT !.reset = 1, !.end = 1, !.at = "mid"]]}
       ELSE {}

\* A trick mode has shown its picture (get_cntl_state), or needs more data.
Shown(s) ==
  IF Trick(s) THEN {s} \cup UpdateInfo([s EXCEPT !.end = 1]) ELSE {s}

\* write_av_packet, then the checks at the end of the loop.
Write ==
  /\ pc = "write"
  /\ \/ /\ pkt = 0 /\ pkt' = 0 /\ p.read_end = 1 /\ p.step = 0  \* PLAYER_WR_FINISH
        /\ pc' = (IF p.end = 1 THEN "ended" ELSE "wait_check") /\ p' = p
     \/ /\ \E w \in WriteAvPacket(p, pkt) :
             /\ pkt' = w.left
             /\ \E q \in UpdateInfo(w.s) : \E d \in DecoderCheck(q) : p' \in Shown(d)
        /\ pc' = IF p'.end = 1 THEN "ended" ELSE "check"
     \/ /\ "io" \in Trouble /\ pkt' \in {0, pkt}
        /\ pc' = "release"
        /\ p' \in {[q EXCEPT !.status = "ERROR"] : q \in UpdateInfo(p)}
  /\ UNCHANGED << queue, mate, Aside, sent >>

\* Waiting for the end of the playback, after the last packet.
WaitCheck ==
  /\ Goto("wait_check", "wait_flags")
  /\ \E d \in DecoderCheck(p) : TakeMessage(d)
  /\ UNCHANGED << pkt, mate, Aside >>

WaitFlags ==
  /\ pc = "wait_flags"
  /\ \E r \in CheckFlag(p) :
       \/ /\ r.ret = "BREAK" /\ pc' = "ended"
          /\ p' = IF r.s.search = 1 \/ Trick(r.s) THEN [r.s EXCEPT !.read_end = 0] ELSE r.s
       \/ r.ret = "CONTINUE" /\ pc' = "wait_check" /\ p' = r.s
       \/ /\ r.ret = "NONO" /\ p' \in UpdateInfo(r.s)
          /\ pc' = IF p'.end = 1 THEN "ended" ELSE "wait_check"
       \/ r.ret = "NONO" /\ "io" \in Trouble /\ p' = r.s /\ pc' = "ended"
  /\ UNCHANGED << pkt, queue, mate, Aside, sent >>

\* exit_flag: is the player done, or does it start over somewhere else?
ExitFlag ==
  /\ pc = "ended"
  /\ IF p.loop = 0 /\ p.search = 0 /\ ~ Trick(p) /\ p.reset = 0
     THEN pc' = "release" /\ p' = p
     ELSE /\ pc' = "reset"
          /\ p' \in IF p.status = "SEARCHING" THEN {p}
                    ELSE UpdateInfo([p EXCEPT !.status = "SEARCHING"])
  /\ UNCHANGED << pkt, queue, mate, Aside, sent >>

\* player_reset, and the rest of the loop after it
Reset ==
  /\ pc = "reset"
  /\ pkt' = 0
  /\ LET s == ParaReset(p)
     IN  \/ /\ Broken /\ pc' = "release"
            /\ p' = [s EXCEPT !.status = "ERROR"]
         \/ \E r \in DecReset(s) :
              IF r.end = 1
              THEN pc' = "release" /\ p' = [r EXCEPT !.status = "PLAYEND"]
              ELSE /\ pc' = "check"
                   /\ p' = [r EXCEPT !.search = 0, !.reset = 0,
                              !.status = IF r.search = 1 THEN "SEARCHOK" ELSE @]
  /\ UNCHANGED << queue, mate, Aside, sent >>
-----------------------------------------------------------------------------
(* The end of the thread.                                                  *)

\* The mate is left alone.
ReleaseNoMate ==
  /\ pc = "release"
  /\ mate' = mate
  /\ IF p.status = "ERROR"
     THEN IF p.request_end = 1
          THEN pc' = "final" /\ p' = [p EXCEPT !.status = "STOPED"]
          ELSE pc' = "error" /\ p' = p
     ELSE pc' = "final" /\ p' = p
  /\ UNCHANGED << pkt, queue, Aside, sent >>

\* player_mate_release joins the mate; an error is looked at again.
Release ==
  /\ pc = "release"
  /\ mate \in Resting /\ mate' = "none"
  /\ IF p.status = "ERROR"
     THEN IF p.request_end = 1
          THEN pc' = "final" /\ p' = [p EXCEPT !.status = "STOPED"]
          ELSE pc' = "error" /\ p' = p
     ELSE pc' = "final" /\ p' = p
  /\ UNCHANGED << pkt, queue, Aside, sent >>

\* ... because a STOP may be on its way.
ErrorOrStop == CheckStopCmd("error", "final", "ERROR")

\* The last update_playing_info; update_player_states shows the result.
FinalState ==
  /\ Goto("final", "shown")
  /\ p' \in UpdateInfo(p)
  /\ UNCHANGED << pkt, queue, mate, Aside, sent >>

Exit ==
  /\ Goto("shown", "exited")
  /\ p' = [p EXCEPT !.status = "EXIT"]
  /\ UNCHANGED << pkt, queue, mate, Aside, sent >>

Start     == Create \/ OpenFile \/ ParseType \/ DecInit \/ DecFailed \/ WaitStart
             \/ StartPlaying
PlayLoop  == PlayCheck \/ PlayFlags \/ Write \/ WaitCheck \/ WaitFlags
             \/ ExitFlag \/ Reset
Finish    == Release \/ ErrorOrStop \/ FinalState \/ Exit
-----------------------------------------------------------------------------
(* The mate: player_mate_thread_run_ll, pass after pass, one access to     *)
(* what it shares with the thread at a time.                               *)

MateCmd == {"START", "PAUSE", "RESUME", "SWITCH_AID", "LOOP", "NOLOOP"}

MateGoes(from, to) == mate = from /\ mate' = to

\* What a step of the mate in the middle of a pass leaves alone.
MateAside == << pc, pkt, queue, late, interrupted, caller, sent >>

\* A pass begins; a mate that is being released begins none.
MateTakes ==
  /\ mate \in {"called", "awake"} /\ pc # "release"
  /\ IF queue # << >> /\ Head(queue) \in MateCmd
     THEN mate' = "handle" /\ task' = Head(queue) /\ queue' = Tail(queue)
     ELSE mate' = "update" /\ task' = task /\ queue' = queue
  /\ UNCHANGED << pc, p, pkt, late, interrupted, caller, sent >>

\* player_mate_thread_cmd_proxy looks at the status first: pausing a paused player is
\* no news to it, nor is resuming one that is not paused.
MateHandles ==
  /\ mate = "handle"
  /\ \/ task = "PAUSE" /\ p.status # "PAUSE"
        /\ mate' = "pause_flag" /\ UNCHANGED << p, task >>
     \/ task \in {"RESUME", "START"} /\ p.status = "PAUSE"
        /\ mate' = "resume_flag" /\ UNCHANGED << p, task >>
     \/ task \in {"SWITCH_AID", "LOOP", "NOLOOP"}
        /\ mate' = "update" /\ task' = "none" /\ p' = CheckMsg(p, task)
     \/ /\ task \in {"PAUSE", "RESUME", "START"} /\ (task = "PAUSE" <=> p.status = "PAUSE")
        /\ mate' = "update" /\ task' = "none" /\ p' = p
  /\ UNCHANGED MateAside

\* A pause writes its flag, then the status.
MatePauses ==
  /\ \/ MateGoes("pause_flag", "pause_status") /\ p' = [p EXCEPT !.pause = 1]
     \/ MateGoes("pause_status", "update") /\ p' = [p EXCEPT !.status = "PAUSE"]
  /\ UNCHANGED << MateAside, task >>

\* A resume that leaves the flag to the player thread.
MateResumesStatus ==
  /\ \/ MateGoes("resume_flag", "resume_status") /\ p' = p
     \/ MateGoes("resume_status", "update") /\ p' = [p EXCEPT !.status = "RUNNING"]
  /\ UNCHANGED << MateAside, task >>

MateResumes ==
  /\ \/ MateGoes("resume_flag", "resume_status") /\ p' = [p EXCEPT !.pause = 0]
     \/ MateGoes("resume_status", "update") /\ p' = [p EXCEPT !.status = "RUNNING"]
  /\ UNCHANGED << MateAside, task >>

\* The update after a pause or a resume is followed by that of every pass.
Updated ==
  /\ mate' = IF task = "none" THEN "awake" ELSE "update"
  /\ task' = "none"

\* update_playing_info fails at its first device call, or goes on to
\* update_buffering_states; the levels that decide are a choice.
MateUpdates ==
  /\ mate = "update" /\ p' = p
  /\ \/ Updated
     \/ mate' = "ended" /\ task' = task
     \/ p.status = "RUNNING" /\ p.read_end = 0 /\ mate' = "buffering" /\ task' = task
     \/ p.status = "BUFFERING" /\ mate' = "running" /\ task' = task
  /\ UNCHANGED MateAside

MateBuffers ==
  /\ \/ MateGoes("buffering", "ended") /\ p' = [p EXCEPT !.status = "BUFFERING"]
     \/ MateGoes("running", "ended") /\ p' = [p EXCEPT !.status = "RUNNING"]
  /\ UNCHANGED << MateAside, task >>

\* Has the player played out?
MateEndTest ==
  /\ mate = "ended" /\ p' = p
  /\ \/ Updated
     \/ /\ p.read_end = 1 /\ p.status # "PAUSE" /\ p.end = 0
        /\ mate' = "end_flag" /\ task' = task
  /\ UNCHANGED MateAside

\* check_avbuf_end and check_force_end, as in PlayedOut.
MateEnds ==
  /\ \/ /\ MateGoes("end_flag", "loop_test") /\ task' = task
        /\ p' \in {[p EXCEPT !.end = 1], [p EXCEPT !.end = 1, !.search = 0]}
     \/ mate = "loop_test" /\ p.loop = 1 /\ Updated /\ p' = p
     \/ MateGoes("loop_test", "playend") /\ p.loop = 0 /\ p' = p /\ task' = task
     \/ /\ MateGoes("playend", "clear") /\ task' = task
        /\ p' = [p EXCEPT !.status = "PLAYEND"]
     \/ /\ mate = "clear" /\ Updated
        /\ p' = [p EXCEPT !.ff = 0, !.fb = 0, !.search = 0, !.reset = 0, !.step = 0]
  /\ UNCHANGED MateAside

MatePass == \/ MateHandles \/ MatePauses \/ MateResumes \/ MateUpdates \/ MateBuffers
            \/ MateEndTest \/ MateEnds
-----------------------------------------------------------------------------
(* The application.                                                        *)

ThreadSide == << pc, p, pkt, mate, task, late >>

\* Sends with no bound.
PushUnbounded(cmd) == queue' = Append(queue, cmd)

\* send_message: a full pool discards its oldest message.
Push(cmd) == queue' = IF Len(queue) < MESSAGE_MAX
                      THEN Append(queue, cmd) ELSE Append(Tail(queue), cmd)

\* player_send_message.  It looks for PLAYER_EXIT before it sends, but the player may
\* well have exited in between.
Send(cmd) ==
  /\ sent < MaxSends /\ sent' = sent + 1
  /\ Push(cmd)
  /\ UNCHANGED << ThreadSide, Aside >>

Call(c, from, to) == caller[c] = from /\ caller' = [caller EXCEPT ![c] = to]

\* player_stop and player_stop_async look at the status first.
StopCalled(c) ==
  /\ Call(c, "idle", IF Stopped(p.status) THEN "already" ELSE "interrupt")
  /\ UNCHANGED << ThreadSide, queue, interrupted, sent >>

\* ffmpeg_interrupt makes the blocking calls of the thread fail from here on.
Interrupt(c) ==
  /\ Call(c, "interrupt", "send")
  /\ interrupted' = 1
  /\ UNCHANGED << ThreadSide, queue, sent >>

SendStop(c) ==
  /\ Call(c, "send", IF c \in Sync THEN "join" ELSE "returned")
  /\ Push("STOP")
  /\ UNCHANGED << ThreadSide, interrupted, sent >>

\* player_thread_wait_exit
Join(c) ==
  /\ Call(c, "join", "clear")
  /\ pc = "exited"
  /\ UNCHANGED << ThreadSide, queue, interrupted, sent >>

\* clear_all_message, one message at a time, and ffmpeg_uninterrupt
ClearMessage(c) ==
  /\ caller[c] = "clear"
  /\ queue # << >> /\ queue' = Tail(queue)
  /\ UNCHANGED << ThreadSide, Aside, sent >>

StopReturn(c) ==
  /\ Call(c, "clear", "returned")
  /\ queue = << >>
  /\ interrupted' = 0
  /\ UNCHANGED << ThreadSide, queue, sent >>

StopCall(c) == \/ StopCalled(c) \/ Interrupt(c) \/ SendStop(c) \/ Join(c)
              \/ ClearMessage(c) \/ StopReturn(c)
-----------------------------------------------------------------------------
Next == \/ Start \/ PlayLoop \/ Read \/ PausedBuffering \/ Finish \/ MateTakes \/ MatePass
        \/ \E cmd \in Sent : Send(cmd)
        \/ \E c \in Caller : StopCall(c)

Spec == Init /\ [][Next]_vars

\* The player thread is scheduled and a device answers; a read may wait for its
\* data for ever, but not in an interrupted thread.  A pass of the mate comes to its
\* end.  A thread whose read is over asks its mate to sleep and is not overtaken by pass
\* after pass (SleepReturns of PlayerMate): strong fairness, where its step waits for the
\* mate.  A caller inside a stop function goes on; nobody has to call one.
FairSpec ==
  /\ Spec
  /\ WF_vars(Start \/ PlayLoop \/ Finish)
  /\ WF_vars(MatePass)
  /\ SF_vars(PausedBuffering \/ (interrupted = 1 /\ Read))
  /\ \A c \in Caller :
       WF_vars(Interrupt(c) \/ SendStop(c) \/ Join(c) \/ ClearMessage(c) \/ StopReturn(c))
-----------------------------------------------------------------------------
PlayPC  == {"check", "flags", "idle", "read", "write", "wait_check", "wait_flags",
            "ended", "reset"}
PC == PlayPC \cup {"created", "opening", "parsed", "dec_init", "dec_failed", "wait_start",
                   "starting", "release", "error", "final", "shown", "exited"}

Status == {"NONE", "INITING", "TYPE_REDY", "INITOK", "START", "RUNNING", "BUFFERING",
           "PAUSE", "SEARCHING", "SEARCHOK", "FF_END", "FB_END", "ERROR", "PLAYEND",
           "STOPED", "EXIT"}

Para == [status : Status, end : {0, 1}, request_end : {0, 1}, search : {0, 1},
         loop : {0, 1}, reset : {0, 1}, ff : {0, 1}, fb : {0, 1}, init : {0, 1},
         step : {0, 1}, pause : {0, 1}, read_end : {0, 1}, seek_audio : {0, 1},
         at : {"head", "mid", "end"}]

MatePC == Resting \cup Decided \cup {"handle", "update", "ended", "clear"}

CallerPC == {"idle", "already", "interrupt", "send", "join", "clear", "returned"}

TypeOK ==
  /\ pc \in PC
  /\ p \in Para
  /\ pkt \in {0, 1}
  /\ queue \in Seq(Cmd) /\ Len(queue) <= MESSAGE_MAX
  /\ mate \in MatePC /\ task \in MateCmd \cup {"none"} /\ late \in {0, 1}
  /\ interrupted \in {0, 1}
  /\ caller \in [Caller -> CallerPC]
  /\ sent \in 0 .. MaxSends

\* Two flags say that a player is paused, the status and pause_flag, and both the
\* thread and its mate write them, each at a time and with no lock.  While data is read
\* they agree, but for the moment between the mate's two writes; where they did not, the
\* mate would drop a resume (or a pause) the application sent.  A late mate can part
\* them: caught at its writes by the thread's check_flag it undoes one of two.  That is
\* as far as it goes: the next check_flag that finds the mate at rest, or at anything
\* else, has them agree again.
PauseAgrees ==
  pc \in {"idle", "read"} /\ late = 0 /\ mate \notin {"pause_status", "resume_status"}
    => (p.status = "PAUSE" <=> p.pause = 1)

\* Nobody is told that the player was stopped unless someone has stopped it: the
\* end of the stream, an error and a decoder reset are never taken for it.
StopedOnRequest ==
  p.status = "STOPED" => \E c \in Caller : caller[c] \in {"join", "clear", "returned"}

\* The status EXIT is the last word: no mate that is still at work, and no message
\* that comes in later, changes the player any more.
ExitIsFinal == [][pc = "exited" => UNCHANGED << pc, p >>]_vars

\* Playing on: the thread is back at the top of the playback loop.
Restart == pc = "reset" /\ pc' = "check"

\* player_ctrl.c:220: player_stop stops the player.  A thread that has taken STOP
\* does not start over.
NoPlayAfterStop == [][p.request_end = 1 => ~ Restart]_vars

\* player_ctrl.c:229: "wait thread exit after send stop command": the wait ends.
StopReturns == \A c \in Sync : caller[c] = "join" ~> caller[c] = "returned"
=============================================================================
