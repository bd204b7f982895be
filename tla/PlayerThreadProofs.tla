-------------------------- MODULE PlayerThreadProofs --------------------------
(***************************************************************************)
(* Proofs about PlayerThread: its types, that nobody is told the player    *)
(* was stopped unless someone has stopped it, that PLAYER_EXIT is the last *)
(* word of a player, that its two pause flags agree where data is read,    *)
(* and that a stopped player does not start over.                          *)
(***************************************************************************)
EXTENDS PlayerThread, TLAPS

\* What every operator on the play_para_t but StopMsg keeps: t, made from s, is a
\* play_para_t, and is stopped on request only if s already was.
Follows(s, t) ==
  /\ t \in Para
  /\ t.request_end = s.request_end
  /\ t.status = "STOPED" => s.status = "STOPED" \/ s.request_end = 1

LEMMA StatusValues ==
  /\ "INITING" \in Status /\ "TYPE_REDY" \in Status /\ "INITOK" \in Status
  /\ "START" \in Status /\ "RUNNING" \in Status /\ "BUFFERING" \in Status
  /\ "PAUSE" \in Status /\ "SEARCHING" \in Status /\ "SEARCHOK" \in Status
  /\ "FF_END" \in Status /\ "FB_END" \in Status /\ "ERROR" \in Status
  /\ "PLAYEND" \in Status /\ "STOPED" \in Status /\ "EXIT" \in Status
BY DEF Status

LEMMA FollowsSelf == ASSUME NEW s \in Para PROVE Follows(s, s)
BY DEF Follows

LEMMA FollowsTrans ==
  ASSUME NEW s, NEW t, NEW u, Follows(s, t), Follows(t, u) PROVE Follows(s, u)
BY DEF Follows

\* A change of the status alone.
LEMMA FollowsStatus ==
  ASSUME NEW s \in Para, NEW v \in Status, v = "STOPED" => s.request_end = 1
  PROVE  Follows(s, [s EXCEPT !.status = v])
BY DEF Follows, Para

-----------------------------------------------------------------------------
(* The operators, bottom up.                                               *)

LEMMA BufferedFollows == ASSUME NEW s \in Para, NEW t \in Buffered(s) PROVE Follows(s, t)
<1>1. /\ Follows(s, s)
      /\ Follows(s, [s EXCEPT !.status = "BUFFERING"])
      /\ Follows(s, [s EXCEPT !.status = "RUNNING"])
  BY FollowsSelf, FollowsStatus, StatusValues
<1> QED
  BY <1>1 DEF Buffered

LEMMA PlayedOutFollows == ASSUME NEW s \in Para, NEW t \in PlayedOut(s) PROVE Follows(s, t)
<1>1. Follows(s, [s EXCEPT !.end = 1])
  BY DEF Follows, Para
<1>2. Follows(s, [s EXCEPT !.end = 1, !.search = 0])
  BY DEF Follows, Para
<1>3. Follows(s, [s EXCEPT !.end = 1, !.status = "PLAYEND", !.ff = 0, !.fb = 0,
                            !.search = 0, !.reset = 0, !.step = 0])
  BY StatusValues DEF Follows, Para
<1> QED
  BY <1>1, <1>2, <1>3 DEF PlayedOut

LEMMA UpdateInfoFollows ==
  ASSUME NEW s \in Para, NEW t \in UpdateInfo(s) PROVE Follows(s, t)
<1>1. CASE t \in Buffered(s)
  BY <1>1, BufferedFollows
<1>2. CASE \E b \in Buffered(s) : t \in PlayedOut(b)
  <2>1. PICK b \in Buffered(s) : t \in PlayedOut(b)
    BY <1>2
  <2>2. Follows(s, b) /\ b \in Para
    BY BufferedFollows DEF Follows
  <2> QED
    BY <2>1, <2>2, PlayedOutFollows, FollowsTrans
<1> QED
  BY <1>1, <1>2 DEF UpdateInfo

LEMMA CalmFollows == ASSUME NEW s \in Para PROVE Follows(s, Calm(s))
<1>1. Follows(s, [s EXCEPT !.ff = 0, !.fb = 0, !.step = 0])
  BY DEF Follows, Para
<1> QED
  BY <1>1, FollowsSelf DEF Calm

LEMMA StopMsgType == ASSUME NEW s \in Para PROVE StopMsg(s) \in Para
BY DEF StopMsg, Para

LEMMA CheckMsgFollows ==
  ASSUME NEW s \in Para, NEW cmd \in Cmd, cmd # "STOP" PROVE Follows(s, CheckMsg(s, cmd))
<1> DEFINE q == Calm(s)
<1>1. q \in Para /\ Follows(s, q)
  BY CalmFollows DEF Follows
<1>2. /\ Follows(s, [q EXCEPT !.search = 1, !.end = 1, !.at = "head"])
      /\ Follows(s, [q EXCEPT !.search = 1, !.end = 1, !.at = "mid"])
      /\ Follows(s, [q EXCEPT !.search = 0, !.end = 1, !.status = "PLAYEND"])
  <2> HIDE DEF q
  <2>1. Follows(q, [q EXCEPT !.search = 1, !.end = 1, !.at = "head"])
    BY <1>1 DEF Follows, Para
  <2>2. Follows(q, [q EXCEPT !.search = 1, !.end = 1, !.at = "mid"])
    BY <1>1 DEF Follows, Para
  <2>3. Follows(q, [q EXCEPT !.search = 0, !.end = 1, !.status = "PLAYEND"])
    BY <1>1, StatusValues DEF Follows, Para
  <2> QED
    BY <1>1, <2>1, <2>2, <2>3, FollowsTrans
<1>3. /\ Follows(s, [s EXCEPT !.pause = 1])
      /\ Follows(s, [s EXCEPT !.pause = 0])
      /\ Follows(s, [s EXCEPT !.init = 0, !.step = 0])
      /\ Follows(s, [s EXCEPT !.seek_audio = 1])
      /\ Follows(s, [s EXCEPT !.loop = 1])
      /\ Follows(s, [s EXCEPT !.loop = 0])
  BY DEF Follows, Para
<1>4. /\ Follows(s, [s EXCEPT !.init = 0, !.step = 1, !.ff = 1, !.fb = 0,
                              !.pause = 0, !.status = "RUNNING"])
      /\ Follows(s, [s EXCEPT !.init = 0, !.step = 1, !.ff = 0, !.fb = 1,
                              !.pause = 0, !.status = "RUNNING"])
  BY StatusValues DEF Follows, Para
<1>5. Follows(s, s)
  BY FollowsSelf
<1> QED
  BY <1>1, <1>2, <1>3, <1>4, <1>5 DEF CheckMsg, Cmd

LEMMA CheckMsgType ==
  ASSUME NEW s \in Para, NEW cmd \in Cmd PROVE CheckMsg(s, cmd) \in Para
<1>1. CASE cmd = "STOP"
  BY <1>1, StopMsgType DEF CheckMsg
<1>2. CASE cmd # "STOP"
  BY <1>2, CheckMsgFollows DEF Follows
<1> QED
  BY <1>1, <1>2

LEMMA ShowEndFollows == ASSUME NEW s \in Para PROVE Follows(s, ShowEnd(s))
<1>1. EndStatus(s) \in Status /\ (EndStatus(s) = "STOPED" => s.request_end = 1)
  BY StatusValues DEF EndStatus
<1>2. Follows(s, [s EXCEPT !.status = EndStatus(s)])
  BY <1>1, FollowsStatus
<1> QED
  BY <1>2, FollowsSelf DEF ShowEnd

LEMMA SwitchAudioFollows ==
  ASSUME NEW s \in Para, NEW t \in SwitchAudio(s) PROVE Follows(s, t)
<1>1. /\ Follows(s, [s EXCEPT !.seek_audio = 0])
      /\ Follows(s, [s EXCEPT !.seek_audio = 0, !.reset = 1, !.end = 1])
  BY DEF Follows, Para
<1> QED
  BY <1>1, FollowsSelf DEF SwitchAudio

LEMMA CheckFlagFollows ==
  ASSUME NEW s \in Para, NEW r \in CheckFlag(s)
  PROVE  Follows(s, r.s) /\ r.ret \in {"BREAK", "CONTINUE", "NONO"}
<1> DEFINE Trick0   == Trick(s) /\ s.init = 0
           Resumed  == IF s.status = "PAUSE"
                       THEN UpdateInfo([s EXCEPT !.status = "RUNNING"]) ELSE {s}
<1>1. CASE s.end = 1
  BY <1>1, ShowEndFollows DEF CheckFlag
<1>2. CASE s.end = 0 /\ Trick(s) /\ s.init = 0 /\ s.step = 1
  <2>1. PICK t \in {"head", "mid", "end"} :
          r = [ret |-> "BREAK", s |-> [s EXCEPT !.init = 1, !.at = t]]
    BY <1>2 DEF CheckFlag
  <2>2. Follows(s, [s EXCEPT !.init = 1, !.at = t])
    BY DEF Follows, Para
  <2> QED
    BY <2>1, <2>2
<1>3. CASE s.end = 0 /\ Trick(s) /\ s.init = 0 /\ s.step = 0
  <2>1. r = [ret |-> "BREAK", s |-> [s EXCEPT !.ff = 0, !.fb = 0, !.search = 1]]
    BY <1>3 DEF CheckFlag
  <2>2. Follows(s, [s EXCEPT !.ff = 0, !.fb = 0, !.search = 1])
    BY DEF Follows, Para
  <2> QED
    BY <2>1, <2>2
<1>4. CASE s.end = 0 /\ ~ Trick0 /\ s.pause = 1
  <2>1. r = [ret |-> "CONTINUE", s |-> [s EXCEPT !.status = "PAUSE"]]
    BY <1>4 DEF CheckFlag
  <2>2. Follows(s, [s EXCEPT !.status = "PAUSE"])
    BY FollowsStatus, StatusValues
  <2> QED
    BY <2>1, <2>2
<1>5. CASE s.end = 0 /\ ~ Trick0 /\ s.pause = 0
  <2>1. PICK x \in Resumed : \E q \in SwitchAudio(x) : r = [ret |-> "NONO", s |-> q]
    BY <1>5 DEF CheckFlag
  <2>2. PICK q \in SwitchAudio(x) : r = [ret |-> "NONO", s |-> q]
    BY <2>1
  <2>3. Follows(s, x) /\ x \in Para
    <3>1. Follows(s, [s EXCEPT !.status = "RUNNING"])
      BY FollowsStatus, StatusValues
    <3> DEFINE run == [s EXCEPT !.status = "RUNNING"]
    <3>2. run \in Para
      BY <3>1 DEF Follows
    <3>3. \A t \in UpdateInfo(run) : Follows(run, t)
      BY <3>2, UpdateInfoFollows
    <3>4. x \in UpdateInfo(run) \/ x = s
      BY <2>1
    <3>5. Follows(s, x)
      BY <3>1, <3>3, <3>4, FollowsTrans, FollowsSelf
    <3> QED
      BY <3>5 DEF Follows
  <2>4. Follows(x, q)
    BY <2>2, <2>3, SwitchAudioFollows
  <2>5. Follows(s, q)
    BY <2>3, <2>4, FollowsTrans
  <2> QED
    BY <2>2, <2>5
<1>6. s.end \in {0, 1} /\ s.step \in {0, 1} /\ s.pause \in {0, 1}
  BY DEF Para
<1> QED
  BY <1>1, <1>2, <1>3, <1>4, <1>5, <1>6

LEMMA DecoderCheckFollows ==
  ASSUME NEW s \in Para, NEW t \in DecoderCheck(s) PROVE Follows(s, t)
<1>1. CASE t = s
  BY <1>1, FollowsSelf
<1>2. CASE \E a \in {s.seek_audio, 1} :
             t = [s EXCEPT !.reset = 1, !.end = 1, !.at = "mid", !.seek_audio = a]
  <2>1. s.seek_audio \in {0, 1}
    BY DEF Para
  <2>2. \A a \in {0, 1} :
          Follows(s, [s EXCEPT !.reset = 1, !.end = 1, !.at = "mid", !.seek_audio = a])
    BY DEF Follows, Para
  <2> QED
    BY <1>2, <2>1, <2>2
<1> QED
  BY <1>1, <1>2 DEF DecoderCheck

LEMMA TrickStepFollows ==
  ASSUME NEW s \in Para, NEW t \in TrickStep(s) PROVE Follows(s, t)
<1>1. /\ Follows(s, [s EXCEPT !.at = "mid"])
      /\ Follows(s, [s EXCEPT !.at = "head"])
  BY DEF Follows, Para
<1>2. Follows(s, FfReachEnd(s))
  <2> DEFINE a == IF s.loop = 1 THEN "head" ELSE "end"
             i == IF s.loop = 1 THEN 0 ELSE s.init
  <2>1. a \in {"head", "mid", "end"} /\ i \in {0, 1}
    BY DEF Para
  <2>2. \A x \in {"head", "mid", "end"}, y \in {0, 1} :
          Follows(s, [s EXCEPT !.status = "FF_END", !.step = 0, !.at = x, !.init = y])
    BY StatusValues DEF Follows, Para
  <2> QED
    BY <2>1, <2>2 DEF FfReachEnd
<1>3. Follows(s, FbReachHead(s))
  BY StatusValues DEF FbReachHead, Follows, Para
<1>4. Follows(s, FbReachHead([s EXCEPT !.init = 0, !.step = 0]))
  BY StatusValues DEF FbReachHead, Follows, Para
<1> QED
  BY <1>1, <1>2, <1>3, <1>4 DEF TrickStep

LEMMA DecResetFollows ==
  ASSUME NEW s \in Para, NEW t \in DecReset(s) PROVE Follows(s, t)
<1>1. Follows(s, [s EXCEPT !.end = 1])
  BY DEF Follows, Para
<1>2. \A a \in {"head", "mid", "end"} : Follows(s, [s EXCEPT !.at = a])
  BY DEF Follows, Para
<1>3. ASSUME NEW r \in Para PROVE Follows(r, TimeSearch(r))
  BY DEF Follows, Para, TimeSearch
<1>4. CASE s.ff = 1 /\ s.at = "end"
  BY <1>1, <1>4 DEF DecReset
<1>5. CASE Trick(s) /\ ~ (s.ff = 1 /\ s.at = "end")
  <2>1. PICK r \in (IF s.step = 0 /\ ~ (s.ff = 0 /\ s.at = "head") THEN {s}
                    ELSE TrickStep(s)) : t = TimeSearch(r)
    BY <1>5 DEF DecReset
  <2>2. r = s \/ r \in TrickStep(s)
    BY <2>1
  <2>3. Follows(s, r)
    BY <2>2, FollowsSelf, TrickStepFollows
  <2> QED
    BY <2>1, <2>3, <1>3, FollowsTrans DEF Follows
<1>6. CASE ~ Trick(s)
  <2> DEFINE a == IF s.search = 0 /\ s.loop = 1 THEN "head" ELSE s.at
  <2>1. a \in {"head", "mid", "end"}
    BY DEF Para
  <2> DEFINE r == [s EXCEPT !.at = a]
  <2>2. t = TimeSearch(r)
    BY <1>6 DEF DecReset, Trick
  <2>3. Follows(s, r) /\ r \in Para
    BY <2>1, <1>2 DEF Follows
  <2> HIDE DEF r
  <2> QED
    BY <2>2, <2>3, <1>3, FollowsTrans
<1> QED
  BY <1>4, <1>5, <1>6

LEMMA NowRunningFollows ==
  ASSUME NEW s \in Para, NEW t \in NowRunning(s) PROVE Follows(s, t)
<1> DEFINE run == [s EXCEPT !.status = "RUNNING"]
<1>1. Follows(s, run) /\ run \in Para
  BY FollowsStatus, StatusValues DEF Follows
<1>2. t = s \/ t \in UpdateInfo(run)
  BY DEF NowRunning
<1> HIDE DEF run
<1> QED
  BY <1>1, <1>2, FollowsSelf, UpdateInfoFollows, FollowsTrans

LEMMA ShownFollows == ASSUME NEW s \in Para, NEW t \in Shown(s) PROVE Follows(s, t)
<1> DEFINE over == [s EXCEPT !.end = 1]
<1>1. Follows(s, over) /\ over \in Para
  BY DEF Follows, Para
<1>2. t = s \/ t \in UpdateInfo(over)
  BY DEF Shown
<1> HIDE DEF over
<1> QED
  BY <1>1, <1>2, FollowsSelf, UpdateInfoFollows, FollowsTrans

\* Neither a read nor a write says more about the player than it may.
LEMMA PacketFollows ==
  ASSUME NEW s \in Para, NEW valid \in {0, 1}
  PROVE  /\ \A r \in ReadAvPacket(s) : r.got \in {0, 1} /\ Follows(s, r.s)
         /\ \A w \in WriteAvPacket(s, valid) : w.left \in {0, 1} /\ Follows(s, w.s)
<1>1. Follows(s, s)
  BY FollowsSelf
<1>2. Follows(s, [s EXCEPT !.read_end = 1])
  BY DEF Follows, Para
<1>3. Follows(s, [s EXCEPT !.reset = 1, !.end = 1, !.at = "mid"])
  BY DEF Follows, Para
<1> QED
  BY <1>1, <1>2, <1>3 DEF ReadAvPacket, WriteAvPacket

\* What a step of the mate does to the play_para_t.
LEMMA MateFollows ==
  ASSUME p \in Para, MatePass PROVE Follows(p, p')
<1>1. Follows(p, p)
  BY FollowsSelf
<1>2. CASE MateHandles
  <2>1. p' = p \/ (task \in MateCmd /\ p' = CheckMsg(p, task))
    BY <1>2 DEF MateHandles, MateCmd
  <2>2. task \in MateCmd => task \in Cmd /\ task # "STOP"
    BY DEF MateCmd, Cmd
  <2> QED
    BY <1>1, <2>1, <2>2, CheckMsgFollows
<1>3. Follows(p, [p EXCEPT !.pause = 0]) /\ Follows(p, [p EXCEPT !.pause = 1])
  BY DEF Follows, Para
<1>4. \A v \in {"PAUSE", "RUNNING", "BUFFERING", "PLAYEND"} :
        Follows(p, [p EXCEPT !.status = v])
  BY FollowsStatus, StatusValues
<1>5. CASE MatePauses \/ MateResumes \/ MateBuffers
  BY <1>3, <1>4, <1>5 DEF MatePauses, MateResumes, MateBuffers
<1>6. CASE MateUpdates \/ MateEndTest
  BY <1>1, <1>6 DEF MateUpdates, MateEndTest
<1>7. CASE MateEnds
  <2>1. /\ Follows(p, [p EXCEPT !.end = 1])
        /\ Follows(p, [p EXCEPT !.end = 1, !.search = 0])
        /\ Follows(p, [p EXCEPT !.ff = 0, !.fb = 0, !.search = 0, !.reset = 0, !.step = 0])
    BY DEF Follows, Para
  <2> QED
    BY <1>1, <1>4, <1>7, <2>1 DEF MateEnds
<1> QED
  BY <1>2, <1>5, <1>6, <1>7 DEF MatePass

LEMMA MateValues ==
  /\ Resting \subseteq MatePC
  /\ "none" \in MatePC /\ "asleep" \in MatePC /\ "called" \in MatePC /\ "awake" \in MatePC
  /\ "handle" \in MatePC /\ "update" \in MatePC /\ "ended" \in MatePC /\ "clear" \in MatePC
  /\ "pause_flag" \in MatePC /\ "pause_status" \in MatePC
  /\ "resume_flag" \in MatePC /\ "resume_status" \in MatePC
  /\ "buffering" \in MatePC /\ "running" \in MatePC
  /\ "end_flag" \in MatePC /\ "loop_test" \in MatePC /\ "playend" \in MatePC
BY DEF MatePC, Resting, Decided

LEMMA SleepValues == ASSUME Sleep PROVE mate' \in MatePC
BY MateValues DEF Sleep

-----------------------------------------------------------------------------
(* The invariant.  As long as nobody has sent STOP there is none in the    *)
(* pool, request_end_flag is clear and the status is not STOPED; once      *)
(* someone has, their caller is past its send for good.                    *)

Asked == \E c \in Caller : caller[c] \in {"join", "clear", "returned"}

Unasked ==
  /\ p.request_end = 0 /\ p.status # "STOPED"
  /\ \A i \in 1 .. Len(queue) : queue[i] # "STOP"

IInv == TypeOK /\ (Asked \/ Unasked)

\* The pool loses its first message, or none.
Taken == queue' = queue \/ (queue # << >> /\ queue' = Tail(queue))

LEMMA TailFacts ==
  ASSUME NEW q \in Seq(Cmd), q # << >>
  PROVE  /\ Head(q) \in Cmd /\ Head(q) = q[1] /\ 1 \in 1 .. Len(q)
         /\ Tail(q) \in Seq(Cmd) /\ Len(Tail(q)) = Len(q) - 1
         /\ \A i \in 1 .. Len(Tail(q)) : Tail(q)[i] = q[i + 1] /\ i + 1 \in 1 .. Len(q)
OBVIOUS

LEMMA TakenFacts ==
  ASSUME queue \in Seq(Cmd), Taken, \A i \in 1 .. Len(queue) : queue[i] # "STOP"
  PROVE  \A i \in 1 .. Len(queue') : queue'[i] # "STOP"
BY TailFacts DEF Taken

\* A step of the player thread or of its mate keeps the invariant when the operators
\* made it, or when it takes a STOP: then there was one in the pool.
LEMMA EitherStep ==
  ASSUME IInv, Taken, UNCHANGED << interrupted, caller >>,
         pc' \in PC, pkt' \in {0, 1}, mate' \in MatePC,
         task' \in MateCmd \cup {"none"}, late' \in {0, 1},
         sent' \in 0 .. MaxSends, p' \in Para,
         Follows(p, p') \/ (queue # << >> /\ Head(queue) = "STOP")
  PROVE  IInv'
<1>1. queue \in Seq(Cmd) /\ Len(queue) <= MESSAGE_MAX /\ MESSAGE_MAX \in Nat
  BY ThreadAssumption DEF IInv, TypeOK
<1>2. queue' \in Seq(Cmd) /\ Len(queue)' <= MESSAGE_MAX
  BY <1>1, TailFacts DEF Taken
<1>3. TypeOK'
  BY <1>2 DEF IInv, TypeOK
<1>4. Asked => Asked'
  BY DEF Asked
<1>5. ASSUME Unasked PROVE Unasked'
  <2>1. queue = << >> \/ Head(queue) # "STOP"
    BY <1>1, <1>5, TailFacts DEF Unasked
  <2>2. Follows(p, p')
    BY <2>1
  <2>3. \A i \in 1 .. Len(queue') : queue'[i] # "STOP"
    BY <1>1, <1>5, TakenFacts DEF Unasked
  <2> QED
    BY <1>5, <2>2, <2>3 DEF Unasked, Follows
<1> QED
  BY <1>3, <1>4, <1>5 DEF IInv

LEMMA ThreadStep ==
  ASSUME IInv, Taken, UNCHANGED Aside,
         pc' \in PC, pkt' \in {0, 1}, mate' \in MatePC,
         sent' \in 0 .. MaxSends, p' \in Para,
         Follows(p, p') \/ (queue # << >> /\ Head(queue) = "STOP")
  PROVE  IInv'
<1>1. /\ UNCHANGED << interrupted, caller >>
      /\ task' \in MateCmd \cup {"none"} /\ late' \in {0, 1}
  BY DEF IInv, TypeOK, Aside
<1> QED
  BY <1>1, EitherStep

LEMMA PushFacts ==
  ASSUME NEW cmd \in Cmd, queue \in Seq(Cmd), Len(queue) <= MESSAGE_MAX, Push(cmd)
  PROVE  /\ queue' \in Seq(Cmd) /\ Len(queue') <= MESSAGE_MAX
         /\ \A i \in 1 .. Len(queue') :
              queue'[i] = cmd \/ \E j \in 1 .. Len(queue) : queue'[i] = queue[j]
<1>1. MESSAGE_MAX \in Nat \ {0}
  BY ThreadAssumption
<1>2. CASE Len(queue) < MESSAGE_MAX
  BY <1>1, <1>2 DEF Push
<1>3. CASE ~ (Len(queue) < MESSAGE_MAX)
  <2>1. queue # << >> /\ queue' = Append(Tail(queue), cmd)
    BY <1>1, <1>3 DEF Push
  <2>2. Tail(queue) \in Seq(Cmd) /\ Len(Tail(queue)) = Len(queue) - 1
    BY <2>1
  <2>3. queue' \in Seq(Cmd) /\ Len(queue') = Len(queue)
    BY <2>1, <2>2
  <2>4. ASSUME NEW i \in 1 .. Len(queue')
        PROVE  queue'[i] = cmd \/ \E j \in 1 .. Len(queue) : queue'[i] = queue[j]
    <3>1. CASE i = Len(queue)
      BY <2>1, <2>2, <2>3, <3>1
    <3>2. CASE i # Len(queue)
      <4>1. i \in 1 .. Len(Tail(queue)) /\ i + 1 \in 1 .. Len(queue)
        <5>1. Len(queue) \in Nat /\ i \in 1 .. Len(queue)
          BY <2>3
        <5>2. \A n \in Nat : \A k \in 1 .. n : k # n => k \in 1 .. (n - 1) /\ k + 1 \in 1 .. n
          OBVIOUS
        <5>3. i \in 1 .. (Len(queue) - 1) /\ i + 1 \in 1 .. Len(queue)
          BY <3>2, <5>1, <5>2
        <5> QED
          BY <2>2, <5>3
      <4>2. queue'[i] = queue[i + 1]
        BY <2>1, <2>2, <4>1
      <4> QED
        BY <4>1, <4>2
    <3> QED
      BY <3>1, <3>2
  <2> QED
    BY <2>3, <2>4
<1> QED
  BY <1>2, <1>3

\* The commands a message can be are commands; none sent on its own is STOP.
LEMMA SentFacts ==
  /\ \A cmd \in Sent : cmd \in Cmd /\ cmd # "STOP"
  /\ \A cmd \in Amutils : cmd \in Cmd /\ cmd # "STOP"
BY ThreadAssumption DEF Cmd

LEMMA TakeMessageFacts ==
  ASSUME IInv, NEW s \in Para, Follows(p, s), TakeMessage(s)
  PROVE  /\ Taken /\ p' \in Para /\ sent' \in 0 .. MaxSends
         /\ Follows(p, p') \/ (queue # << >> /\ Head(queue) = "STOP")
<1>1. queue \in Seq(Cmd) /\ sent \in 0 .. MaxSends /\ MaxSends \in Nat
  BY ThreadAssumption DEF IInv, TypeOK
<1>2. CASE queue # << >> /\ queue' = Tail(queue) /\ p' = CheckMsg(s, Head(queue)) /\ sent' = sent
  <2>1. Head(queue) \in Cmd
    BY <1>1, <1>2, TailFacts
  <2>2. CASE Head(queue) = "STOP"
    BY <1>1, <1>2, <2>1, <2>2, CheckMsgType DEF Taken
  <2>3. CASE Head(queue) # "STOP"
    <3>1. Follows(s, p')
      BY <1>2, <2>1, <2>3, CheckMsgFollows
    <3> QED
      BY <1>1, <1>2, <3>1, FollowsTrans DEF Taken, Follows
  <2> QED
    BY <2>2, <2>3
<1>3. CASE queue' = queue /\ p' = s /\ sent' = sent
  BY <1>1, <1>3 DEF Taken
<1>4. CASE queue' = queue /\ sent < MaxSends /\ sent' = sent + 1
           /\ \E cmd \in Amutils : p' = CheckMsg(s, cmd)
  <2>1. PICK cmd \in Amutils : p' = CheckMsg(s, cmd)
    BY <1>4
  <2>2. Follows(s, p')
    BY <2>1, SentFacts, CheckMsgFollows
  <2> QED
    BY <1>1, <1>4, <2>2, FollowsTrans DEF Taken, Follows
<1> QED
  BY <1>2, <1>3, <1>4 DEF TakeMessage

-----------------------------------------------------------------------------
(* One step per action.                                                    *)

LEMMA InitHolds == Init => IInv
<1> SUFFICES ASSUME Init PROVE IInv
  OBVIOUS
<1>1. PICK loop \in {0, 1} :
        p = [status |-> "NONE", end |-> 0, request_end |-> 0, search |-> 0,
             loop |-> loop, reset |-> 0, ff |-> 0, fb |-> 0, init |-> 0, step |-> 0,
             pause |-> 0, read_end |-> 0, seek_audio |-> 0, at |-> "head"]
  BY DEF Init
<1>2. p \in Para
  BY <1>1 DEF Para, Status
<1>3. TypeOK
  BY <1>2, ThreadAssumption, MateValues DEF Init, TypeOK, PC, CallerPC
<1>4. Unasked
  BY <1>1 DEF Init, Unasked
<1> QED
  BY <1>3, <1>4 DEF IInv

LEMMA CheckStopCmdHolds ==
  ASSUME IInv, NEW from \in PC, NEW to \in PC, NEW status \in Status \ {"STOPED"},
         CheckStopCmd(from, to, status)
  PROVE  IInv'
<1>1. p \in Para /\ Follows(p, p)
  BY FollowsSelf DEF IInv, TypeOK
<1>2. Follows(p, [p EXCEPT !.status = status])
  BY <1>1, FollowsStatus
<1>3. [p EXCEPT !.status = "STOPED"] \in Para
  BY <1>1, StatusValues DEF Para
<1>4. /\ Taken /\ UNCHANGED Aside
      /\ pc' \in PC /\ pkt' \in {0, 1} /\ mate' \in MatePC
      /\ sent' \in 0 .. MaxSends /\ p' \in Para
      /\ Follows(p, p') \/ (queue # << >> /\ Head(queue) = "STOP")
  BY <1>1, <1>2, <1>3 DEF CheckStopCmd, Taken, IInv, TypeOK, Follows
<1> QED
  BY <1>4, ThreadStep

LEMMA StartHolds == ASSUME IInv, Start PROVE IInv'
<1> DEFINE Now(v) == [p EXCEPT !.status = v]
<1>1. p \in Para /\ Follows(p, p) /\ queue \in Seq(Cmd)
  BY FollowsSelf DEF IInv, TypeOK
<1>2. ASSUME NEW v \in Status, v # "STOPED" PROVE Follows(p, Now(v)) /\ Now(v) \in Para
  BY <1>1, <1>2, FollowsStatus DEF Follows
<1>3. /\ pkt \in {0, 1} /\ mate \in MatePC
      /\ sent \in 0 .. MaxSends
  BY DEF IInv, TypeOK
<1>4. CASE Create
  <2>1. Follows(p, p') /\ p' \in Para
    BY <1>2, <1>4, StatusValues DEF Create
  <2> QED
    BY <1>3, <1>4, <2>1, ThreadStep DEF Create, Goto, PC, Taken
<1>5. CASE OpenFile
  <2>1. Follows(p, p') /\ p' \in Para
    BY <1>2, <1>5, StatusValues DEF OpenFile
  <2> QED
    BY <1>3, <1>5, <2>1, ThreadStep DEF OpenFile, Goto, PC, Taken
<1>6. CASE ParseType
  <2>1. Follows(p, p') /\ p' \in Para
    BY <1>1, <1>6 DEF ParseType
  <2> QED
    BY <1>3, <1>6, <2>1, ThreadStep DEF ParseType, Goto, PC, Taken
<1>7. CASE DecInit
  <2>1. Follows(p, p') /\ p' \in Para
    BY <1>1, <1>2, <1>7, StatusValues DEF DecInit
  <2>2. pc' \in PC
    BY <1>7 DEF DecInit, Goto, PC
  <2> QED
    BY <1>3, <1>7, <2>1, <2>2, ThreadStep DEF DecInit, Taken
<1>8. CASE DecFailed
  BY <1>8, CheckStopCmdHolds, StatusValues DEF DecFailed, PC
<1>9. CASE WaitStart
  <2> DEFINE cmd == Head(queue)
             s   == CheckStartCmd(p, cmd)
  <2>1. queue # << >> /\ cmd \in Cmd
    BY <1>1, <1>9, TailFacts DEF WaitStart
  <2>2. \A t \in {"head", "mid"} : Follows(p, [p EXCEPT !.at = t])
    BY <1>1 DEF Follows, Para
  <2>3. s \in Para /\ (Follows(p, s) \/ cmd = "STOP")
    BY <1>1, <2>1, <2>2, CheckMsgFollows, CheckMsgType DEF Follows, CheckStartCmd
  <2>4. /\ pc' \in PC
        /\ p' = s \/ p' = [s EXCEPT !.status = EndStatus(s)]
    BY <1>9 DEF WaitStart, PC
  <2> HIDE DEF s
  <2>5. Follows(s, s) /\ Follows(s, [s EXCEPT !.status = EndStatus(s)])
    BY <2>3, FollowsSelf, FollowsStatus, StatusValues DEF EndStatus
  <2>6. p' \in Para /\ (Follows(p, p') \/ cmd = "STOP")
    BY <2>3, <2>4, <2>5, FollowsTrans DEF Follows
  <2> QED
    BY <1>3, <1>9, <2>1, <2>4, <2>6, ThreadStep DEF WaitStart, Taken
<1>10. CASE StartPlaying
  <2>1. Follows(p, p') /\ p' \in Para
    BY <1>2, <1>10, StatusValues DEF StartPlaying
  <2> QED
    BY <1>3, <1>10, <2>1, MateValues, ThreadStep DEF StartPlaying, Goto, PC, PlayPC, Taken
<1> QED
  BY <1>4, <1>5, <1>6, <1>7, <1>8, <1>9, <1>10 DEF Start

LEMMA PlayLoopHolds == ASSUME IInv, PlayLoop \/ Read \/ PausedBuffering PROVE IInv'
<1>1. p \in Para /\ Follows(p, p)
  BY FollowsSelf DEF IInv, TypeOK
<1>2. /\ pkt \in {0, 1} /\ mate \in MatePC
      /\ sent \in 0 .. MaxSends
  BY DEF IInv, TypeOK
<1>3. CASE PlayCheck
  <2>1. TakeMessage(p) /\ pc' \in PC /\ UNCHANGED << pkt, mate, Aside >>
    BY <1>3 DEF PlayCheck, Goto, PC, PlayPC
  <2> QED
    BY <1>1, <1>2, <2>1, TakeMessageFacts, ThreadStep
<1>4. CASE PlayFlags
  <2>1. PICK r \in CheckFlag(p) :
          /\ p' = r.s \/ p' = [r.s EXCEPT !.end = 1]
          /\ pc' \in PC /\ mate' \in MatePC
    BY <1>2, <1>4, MateValues DEF PlayFlags, Wake, PC, PlayPC
  <2>2. Follows(p, r.s) /\ r.s \in Para
    BY <1>1, CheckFlagFollows DEF Follows
  <2>3. Follows(r.s, [r.s EXCEPT !.end = 1])
    BY <2>2 DEF Follows, Para
  <2>4. Follows(p, p') /\ p' \in Para
    BY <2>1, <2>2, <2>3, FollowsTrans DEF Follows
  <2> QED
    BY <1>2, <1>4, <2>1, <2>4, EitherStep DEF PlayFlags, Taken, IInv, TypeOK
<1>5. CASE PausedBuffering
  <2>1. pc' \in PC /\ mate' \in MatePC
    BY <1>5, SleepValues, MateValues DEF PausedBuffering, PC, PlayPC
  <2> QED
    BY <1>1, <1>2, <1>5, <2>1, ThreadStep DEF PausedBuffering, Taken
<1>6. CASE Read
  <2>1. \A r \in ReadAvPacket(p) : r.got \in {0, 1} /\ Follows(p, r.s) /\ r.s \in Para
    BY <1>1, PacketFollows DEF Follows
  <2>2. Follows(p, [p EXCEPT !.status = "ERROR"])
    BY <1>1, FollowsStatus, StatusValues
  <2>3. \/ p' \in NowRunning(p) \/ p' = p
        \/ \E r \in ReadAvPacket(p) : p' \in NowRunning(r.s)
        \/ p' = [p EXCEPT !.status = "ERROR"]
    BY <1>6 DEF Read
  <2>4. Follows(p, p') /\ p' \in Para
    BY <1>1, <2>1, <2>2, <2>3, NowRunningFollows, FollowsTrans DEF Follows
  <2>5. pc' \in PC /\ pkt' \in {0, 1} /\ mate' \in MatePC
    BY <1>2, <1>6, <2>1, SleepValues DEF Read, PC, PlayPC
  <2> QED
    BY <1>2, <1>6, <2>4, <2>5, ThreadStep DEF Read, Taken
<1>7. CASE Write
  <2>1. ASSUME NEW q \in UpdateInfo(p) PROVE Follows(p, [q EXCEPT !.status = "ERROR"])
    <3>1. Follows(p, q) /\ q \in Para
      BY <1>1, UpdateInfoFollows DEF Follows
    <3>2. Follows(q, [q EXCEPT !.status = "ERROR"])
      BY <3>1, FollowsStatus, StatusValues
    <3> QED
      BY <3>1, <3>2, FollowsTrans
  <2>2. \/ p' = p
        \/ \E q \in UpdateInfo(p) : p' = [q EXCEPT !.status = "ERROR"]
        \/ \E w \in WriteAvPacket(p, pkt) : \E q \in UpdateInfo(w.s) :
             \E d \in DecoderCheck(q) : p' \in Shown(d)
    BY <1>7 DEF Write
  <2>3. ASSUME NEW w \in WriteAvPacket(p, pkt), NEW q \in UpdateInfo(w.s),
               NEW d \in DecoderCheck(q), p' \in Shown(d)
        PROVE  Follows(p, p')
    <3>0. Follows(p, w.s) /\ w.s \in Para
      BY <1>1, <1>2, PacketFollows DEF Follows
    <3>1. Follows(p, q) /\ q \in Para
      BY <3>0, UpdateInfoFollows, FollowsTrans DEF Follows
    <3>2. Follows(q, d) /\ d \in Para
      BY <3>1, DecoderCheckFollows DEF Follows
    <3>3. Follows(d, p')
      BY <2>3, <3>2, ShownFollows
    <3> QED
      BY <3>1, <3>2, <3>3, FollowsTrans
  <2>4. Follows(p, p')
    BY <1>1, <2>1, <2>2, <2>3
  <2>5. pc' \in PC /\ pkt' \in {0, 1} /\ p' \in Para
    BY <1>1, <1>2, <1>7, <2>4, PacketFollows DEF Write, PC, PlayPC, Follows
  <2> QED
    BY <1>2, <1>7, <2>4, <2>5, ThreadStep DEF Write, Taken
<1>8. CASE WaitCheck
  <2>1. PICK d \in DecoderCheck(p) : TakeMessage(d)
    BY <1>8 DEF WaitCheck
  <2>2. Follows(p, d) /\ d \in Para
    BY <1>1, DecoderCheckFollows DEF Follows
  <2>3. pc' \in PC /\ UNCHANGED << pkt, mate, Aside >>
    BY <1>8 DEF WaitCheck, Goto, PC, PlayPC
  <2> QED
    BY <1>2, <2>1, <2>2, <2>3, TakeMessageFacts, ThreadStep
<1>9. CASE WaitFlags
  <2>1. PICK r \in CheckFlag(p) :
          /\ pc' \in PC
          /\ p' = r.s \/ p' = [r.s EXCEPT !.read_end = 0] \/ p' \in UpdateInfo(r.s)
    BY <1>9 DEF WaitFlags, PC, PlayPC
  <2>2. Follows(p, r.s) /\ r.s \in Para
    BY <1>1, CheckFlagFollows DEF Follows
  <2>3. Follows(r.s, [r.s EXCEPT !.read_end = 0])
    BY <2>2 DEF Follows, Para
  <2>4. Follows(p, p') /\ p' \in Para
    BY <2>1, <2>2, <2>3, UpdateInfoFollows, FollowsTrans DEF Follows
  <2> QED
    BY <1>2, <1>9, <2>1, <2>4, ThreadStep DEF WaitFlags, Taken
<1>10. CASE ExitFlag
  <2> DEFINE on == [p EXCEPT !.status = "SEARCHING"]
  <2>1. Follows(p, on) /\ on \in Para
    BY <1>1, FollowsStatus, StatusValues DEF Follows
  <2>2. (p' = p \/ p' \in UpdateInfo(on)) /\ pc' \in PC
    BY <1>10 DEF ExitFlag, PC, PlayPC
  <2> HIDE DEF on
  <2>3. Follows(p, p') /\ p' \in Para
    BY <1>1, <2>1, <2>2, UpdateInfoFollows, FollowsTrans DEF Follows
  <2> QED
    BY <1>2, <1>10, <2>2, <2>3, ThreadStep DEF ExitFlag, Taken
<1>11. CASE Reset
  <2> DEFINE s == ParaReset(p)
             On(r) == [r EXCEPT !.search = 0, !.reset = 0,
                         !.status = IF r.search = 1 THEN "SEARCHOK" ELSE @]
  <2>1. Follows(p, s) /\ s \in Para
    BY <1>1 DEF Follows, Para, ParaReset
  <2>2. /\ pc' \in PC
        /\ \/ p' = [s EXCEPT !.status = "ERROR"]
           \/ \E r \in DecReset(s) : p' = [r EXCEPT !.status = "PLAYEND"] \/ p' = On(r)
    BY <1>11 DEF Reset, PC, PlayPC
  <2> HIDE DEF s
  <2>3. Follows(s, [s EXCEPT !.status = "ERROR"])
    BY <2>1, FollowsStatus, StatusValues
  <2>4. ASSUME NEW r \in DecReset(s) PROVE /\ Follows(s, [r EXCEPT !.status = "PLAYEND"])
                                           /\ Follows(s, On(r))
    <3>1. Follows(s, r) /\ r \in Para
      BY <2>1, DecResetFollows DEF Follows
    <3>2. Follows(r, [r EXCEPT !.status = "PLAYEND"])
      BY <3>1, FollowsStatus, StatusValues
    <3> DEFINE st == IF r.search = 1 THEN "SEARCHOK" ELSE r.status
    <3>3. st \in Status /\ (st = "STOPED" => r.status = "STOPED")
      BY <3>1, StatusValues DEF Para
    <3>4. \A v \in Status : (v = "STOPED" => r.status = "STOPED") =>
            Follows(r, [r EXCEPT !.search = 0, !.reset = 0, !.status = v])
      BY <3>1 DEF Follows, Para
    <3>5. Follows(r, On(r))
      BY <3>3, <3>4
    <3> QED
      BY <3>1, <3>2, <3>5, FollowsTrans
  <2> HIDE DEF On
  <2>5. Follows(p, p')
    BY <2>1, <2>2, <2>3, <2>4, FollowsTrans
  <2>6. p' \in Para
    BY <2>5 DEF Follows
  <2> QED
    BY <1>2, <1>11, <2>2, <2>5, <2>6, ThreadStep DEF Reset, Taken
<1> QED
  BY <1>3, <1>4, <1>5, <1>6, <1>7, <1>8, <1>9, <1>10, <1>11 DEF PlayLoop

LEMMA FinishHolds == ASSUME IInv, Finish PROVE IInv'
<1>1. p \in Para /\ Follows(p, p)
  BY FollowsSelf DEF IInv, TypeOK
<1>2. /\ pkt \in {0, 1} /\ mate \in MatePC
      /\ sent \in 0 .. MaxSends
  BY DEF IInv, TypeOK
<1>3. CASE Release
  <2>1. p.request_end = 1 => Follows(p, [p EXCEPT !.status = "STOPED"])
    BY <1>1, FollowsStatus, StatusValues
  <2>2. Follows(p, p') /\ p' \in Para
    BY <1>1, <1>3, <2>1 DEF Release, Follows
  <2>3. pc' \in PC
    BY <1>3 DEF Release, PC
  <2> QED
    BY <1>2, <1>3, <2>2, <2>3, MateValues, ThreadStep DEF Release, Taken
<1>4. CASE ErrorOrStop
  BY <1>4, CheckStopCmdHolds, StatusValues DEF ErrorOrStop, PC
<1>5. CASE FinalState
  <2>1. Follows(p, p') /\ p' \in Para
    BY <1>1, <1>5, UpdateInfoFollows DEF FinalState, Follows
  <2> QED
    BY <1>2, <1>5, <2>1, ThreadStep DEF FinalState, Goto, PC, Taken
<1>6. CASE Exit
  <2>1. Follows(p, p') /\ p' \in Para
    BY <1>1, <1>6, FollowsStatus, StatusValues DEF Exit, Follows
  <2> QED
    BY <1>2, <1>6, <2>1, ThreadStep DEF Exit, Goto, PC, Taken
<1> QED
  BY <1>3, <1>4, <1>5, <1>6 DEF Finish

LEMMA MateHolds == ASSUME IInv, MateTakes \/ MatePass PROVE IInv'
<1>1. /\ p \in Para /\ pc \in PC /\ pkt \in {0, 1} /\ sent \in 0 .. MaxSends
      /\ mate \in MatePC /\ task \in MateCmd \cup {"none"} /\ late \in {0, 1}
  BY DEF IInv, TypeOK
<1>2. CASE MateTakes
  <2>1. /\ Taken /\ UNCHANGED << pc, p, pkt, late, interrupted, caller, sent >>
        /\ mate' \in MatePC /\ task' \in MateCmd \cup {"none"}
    BY <1>1, <1>2, MateValues DEF MateTakes, Taken
  <2> QED
    BY <1>1, <2>1, FollowsSelf, EitherStep
<1>3. CASE MatePass
  <2>1. /\ UNCHANGED MateAside
        /\ mate' \in MatePC /\ task' \in {task, "none"}
    <3>1. CASE MateHandles \/ MateUpdates \/ MateEndTest
      BY <1>1, <3>1, MateValues DEF MateHandles, MateUpdates, MateEndTest, Updated
    <3>2. CASE MatePauses \/ MateResumes \/ MateBuffers
      BY <1>1, <3>2, MateValues DEF MatePauses, MateResumes, MateBuffers, MateGoes
    <3>3. CASE MateEnds
      BY <1>1, <3>3, MateValues DEF MateEnds, MateGoes, Updated
    <3> QED
      BY <1>3, <3>1, <3>2, <3>3 DEF MatePass
  <2>2. Follows(p, p') /\ p' \in Para
    BY <1>1, <1>3, MateFollows DEF Follows
  <2> QED
    BY <1>1, <2>1, <2>2, EitherStep DEF MateAside, Taken
<1> QED
  BY <1>2, <1>3

\* The application's own steps: sending anything but STOP changes nothing that the
\* invariant is about, and who sends STOP is past the send from then on.
LEMMA SendHolds == ASSUME IInv, NEW cmd \in Sent, Send(cmd) PROVE IInv'
<1>1. cmd \in Cmd /\ cmd # "STOP"
  BY SentFacts
<1>2. /\ queue \in Seq(Cmd) /\ Len(queue) <= MESSAGE_MAX /\ Push(cmd)
      /\ UNCHANGED << ThreadSide, Aside >>
  BY DEF IInv, TypeOK, Send
<1>3. sent' \in 0 .. MaxSends
  BY ThreadAssumption DEF IInv, TypeOK, Send
<1>4. /\ queue' \in Seq(Cmd) /\ Len(queue') <= MESSAGE_MAX
      /\ \A i \in 1 .. Len(queue') :
           queue'[i] = cmd \/ \E j \in 1 .. Len(queue) : queue'[i] = queue[j]
  BY <1>1, <1>2, PushFacts
<1>5. TypeOK'
  BY <1>2, <1>3, <1>4 DEF IInv, TypeOK, ThreadSide, Aside
<1>6. Asked => Asked'
  BY <1>2 DEF Asked, Aside
<1>7. Unasked => Unasked'
  BY <1>1, <1>2, <1>4 DEF Unasked, ThreadSide
<1> QED
  BY <1>5, <1>6, <1>7 DEF IInv

LEMMA StopCallHolds == ASSUME IInv, NEW c \in Caller, StopCall(c) PROVE IInv'
<1>1. /\ queue \in Seq(Cmd) /\ Len(queue) <= MESSAGE_MAX
      /\ caller \in [Caller -> CallerPC] /\ interrupted \in {0, 1}
  BY DEF IInv, TypeOK
<1>2. UNCHANGED << ThreadSide, sent >>
  BY DEF StopCall, StopCalled, Interrupt, SendStop, Join, ClearMessage, StopReturn
<1>3. /\ interrupted' \in {0, 1} /\ caller' \in [Caller -> CallerPC]
      /\ caller' = caller \/ \E x \in CallerPC : caller' = [caller EXCEPT ![c] = x]
  BY <1>1 DEF StopCall, StopCalled, Interrupt, SendStop, Join, ClearMessage, StopReturn,
              Call, Aside, CallerPC
<1>4. queue' \in Seq(Cmd) /\ Len(queue') <= MESSAGE_MAX
  <2>1. "STOP" \in Cmd
    BY DEF Cmd
  <2>2. Push("STOP") \/ Taken
    BY DEF StopCall, StopCalled, Interrupt, SendStop, Join, ClearMessage, StopReturn, Taken
  <2>3. MESSAGE_MAX \in Nat
    BY ThreadAssumption
  <2> QED
    <3>1. CASE Push("STOP")
      BY <1>1, <2>1, <3>1, PushFacts
    <3>2. CASE Taken
      BY <1>1, <2>3, <3>2, TailFacts DEF Taken
    <3> QED
      BY <2>2, <3>1, <3>2
<1>5. TypeOK'
  BY <1>2, <1>3, <1>4 DEF IInv, TypeOK, ThreadSide
<1>6. Asked => Asked'
  <2>1. \/ caller' = caller
        \/ \E x \in CallerPC : /\ caller' = [caller EXCEPT ![c] = x]
                               /\ caller[c] \in {"join", "clear", "returned"} =>
                                    x \in {"join", "clear", "returned"}
    BY <1>1 DEF StopCall, StopCalled, Interrupt, SendStop, Join, ClearMessage, StopReturn,
                Call, Aside, CallerPC
  <2> QED
    BY <1>1, <2>1 DEF Asked
<1>7. SendStop(c) => Asked'
  BY <1>1 DEF Asked, SendStop, Call
<1>8. ASSUME Unasked, ~ SendStop(c) PROVE Unasked'
  <2>1. Taken
    BY <1>8 DEF StopCall, StopCalled, Interrupt, Join, ClearMessage, StopReturn, Taken
  <2>2. \A i \in 1 .. Len(queue') : queue'[i] # "STOP"
    BY <1>1, <1>8, <2>1, TakenFacts DEF Unasked
  <2> QED
    BY <1>2, <1>8, <2>2 DEF Unasked, ThreadSide
<1> QED
  BY <1>5, <1>6, <1>7, <1>8 DEF IInv

-----------------------------------------------------------------------------
(* The theorems.                                                           *)

\* The player thread, its mate and the application keep the invariant together.
THEOREM Invariance == Spec => []IInv
<1>1. Init => IInv
  BY InitHolds
<1>2. ASSUME IInv, [Next]_vars PROVE IInv'
  <2>1. CASE UNCHANGED vars
    BY <1>2, <2>1 DEF vars, Aside, IInv, TypeOK, Asked, Unasked
  <2>2. CASE Next
    BY <1>2, <2>2, StartHolds, PlayLoopHolds, FinishHolds, MateHolds, SendHolds,
       StopCallHolds DEF Next
  <2> QED
    BY <1>2, <2>1, <2>2
<1>3. IInv /\ [Next]_vars => IInv'
  BY <1>2
<1> QED
  BY <1>1, <1>3, PTL DEF Spec

\* The flags of the play_para_t, the pool and the callers stay what their types say.
THEOREM TypeCorrect == Spec => []TypeOK
<1>1. IInv => TypeOK
  BY DEF IInv
<1> QED
  BY <1>1, Invariance, PTL

\* The status STOPED, which the application takes for the answer to player_stop, is
\* never shown to it unless one of its threads has sent STOP: whatever fails, and
\* whatever else was sent.
THEOREM StopedCorrect == Spec => []StopedOnRequest
<1>1. IInv => StopedOnRequest
  BY DEF IInv, Asked, Unasked, StopedOnRequest
<1> QED
  BY <1>1, Invariance, PTL

\* What the callers and the application put into the pool.
Sendable == Sent \cup {"STOP"}

\* No thread does more to the pool than take its first message or send one.
LEMMA PoolStep == ASSUME [Next]_vars PROVE Taken \/ \E cmd \in Sendable : Push(cmd)
<1>1. Create \/ OpenFile \/ ParseType \/ DecInit \/ StartPlaying => Taken
  BY DEF Create, OpenFile, ParseType, DecInit, StartPlaying, Taken
<1>2. DecFailed \/ WaitStart => Taken
  BY DEF DecFailed, CheckStopCmd, WaitStart, Taken
<1>3. PlayCheck \/ WaitCheck => Taken
  BY DEF PlayCheck, WaitCheck, TakeMessage, Taken
<1>4. PlayFlags \/ WaitFlags => Taken
  BY DEF PlayFlags, WaitFlags, Taken
<1>5. PausedBuffering \/ Read \/ Write => Taken
  BY DEF PausedBuffering, Read, Write, Taken
<1>6. ExitFlag \/ Reset => Taken
  BY DEF ExitFlag, Reset, Taken
<1>7. Release \/ ErrorOrStop => Taken
  BY DEF Release, ErrorOrStop, CheckStopCmd, Taken
<1>8. FinalState \/ Exit => Taken
  BY DEF FinalState, Exit, Taken
<1>9. MateTakes \/ MatePass => Taken
  BY DEF MateTakes, MatePass, MateHandles, MatePauses, MateResumes, MateUpdates,
     MateBuffers,
         MateEndTest, MateEnds, MateAside, Taken
<1>10. ASSUME NEW cmd \in Sent, Send(cmd) PROVE Push(cmd) /\ cmd \in Sendable
  BY <1>10 DEF Send, Sendable
<1>11. ASSUME NEW c \in Caller, StopCall(c)
       PROVE  Taken \/ \E cmd \in Sendable : Push(cmd)
  <2>1. Push("STOP") \/ Taken
    BY <1>11 DEF StopCall, StopCalled, Interrupt, SendStop, Join, ClearMessage, StopReturn,
                 Taken
  <2> QED
    BY <2>1 DEF Sendable
<1>12. UNCHANGED vars => Taken
  BY DEF vars, Taken
<1> QED
  BY <1>1, <1>2, <1>3, <1>4, <1>5, <1>6, <1>7, <1>8, <1>9, <1>10, <1>11, <1>12
     DEF Next, Start, PlayLoop, Finish

-----------------------------------------------------------------------------
(* The end of the thread: a mate that is joined before the last status is  *)
(* shown cannot change it.                                                 *)

Ending == {"error", "final", "shown", "exited"}

MateGone == pc \in Ending => mate = "none"

\* The mate takes no step of the thread's, and none when there is no mate.
LEMMA MateSteps ==
  ASSUME MateTakes \/ MatePass PROVE pc' = pc /\ mate # "none"
BY DEF MateTakes, MatePass, MateHandles, MatePauses, MateResumes, MateUpdates, MateBuffers,
       MateEndTest, MateEnds, MateGoes, MateAside

LEMMA MateGoneStep == ASSUME MateGone, [Next]_vars PROVE MateGone'
<1>1. ASSUME Start PROVE pc' \notin Ending
  BY <1>1 DEF Start, Create, OpenFile, ParseType, DecInit, DecFailed, CheckStopCmd,
              WaitStart, StartPlaying, Goto, Ending
<1>2. ASSUME PlayLoop \/ Read \/ PausedBuffering PROVE pc' \notin Ending
  <2>1. PlayCheck \/ PlayFlags \/ PausedBuffering \/ Read => pc' \notin Ending
    BY DEF PlayCheck, PlayFlags, PausedBuffering, Read, Goto, Ending
  <2>2. Write \/ WaitCheck \/ WaitFlags \/ ExitFlag \/ Reset => pc' \notin Ending
    BY DEF Write, WaitCheck, WaitFlags, ExitFlag, Reset, Goto, Ending
  <2> QED
    BY <1>2, <2>1, <2>2 DEF PlayLoop
<1>3. CASE Finish
  BY <1>3 DEF Finish, Release, ErrorOrStop, CheckStopCmd, FinalState, Exit, Goto, MateGone,
              Ending
<1>4. CASE MateTakes \/ MatePass
  <2>1. pc' = pc /\ mate # "none"
    BY <1>4, MateSteps
  <2> QED
    BY <2>1 DEF MateGone
<1>5. ASSUME NEW cmd \in Sent, Send(cmd) PROVE MateGone'
  BY <1>5 DEF Send, ThreadSide, MateGone
<1>6. ASSUME NEW c \in Caller, StopCall(c) PROVE MateGone'
  BY <1>6 DEF StopCall, StopCalled, Interrupt, SendStop, Join, ClearMessage, StopReturn,
              ThreadSide, MateGone
<1>7. CASE UNCHANGED vars
  BY <1>7 DEF vars, MateGone
<1> QED
  BY <1>1, <1>2, <1>3, <1>4, <1>5, <1>6, <1>7 DEF Next, MateGone

\* PLAYER_EXIT is the last word of a player: its mate is gone by then, and whatever
\* the application sends afterwards changes nothing it shows.
THEOREM ExitCorrect == Spec => ExitIsFinal
<1>1. Init => MateGone
  BY DEF Init, MateGone, Ending
<1>2. MateGone /\ [Next]_vars => MateGone'
  BY MateGoneStep
<1>3. ASSUME MateGone, [Next]_vars, pc = "exited" PROVE UNCHANGED << pc, p >>
  <2>1. ~ Start
    BY <1>3 DEF Start, Create, OpenFile, ParseType, DecInit, DecFailed, CheckStopCmd,
                WaitStart, StartPlaying, Goto
  <2>2. ~ (PlayCheck \/ PlayFlags \/ PausedBuffering \/ Read \/ Write)
    BY <1>3 DEF PlayCheck, PlayFlags, PausedBuffering, Read, Write, Goto
  <2>3. ~ (WaitCheck \/ WaitFlags \/ ExitFlag \/ Reset)
    BY <1>3 DEF WaitCheck, WaitFlags, ExitFlag, Reset, Goto
  <2>4. ~ Finish
    BY <1>3 DEF Finish, Release, ErrorOrStop, CheckStopCmd, FinalState, Exit, Goto
  <2>5. ~ (MateTakes \/ MatePass)
    BY <1>3, MateSteps DEF MateGone, Ending
  <2>6. ASSUME NEW cmd \in Sent, Send(cmd) PROVE UNCHANGED << pc, p >>
    BY <2>6 DEF Send, ThreadSide
  <2>7. ASSUME NEW c \in Caller, StopCall(c) PROVE UNCHANGED << pc, p >>
    BY <2>7 DEF StopCall, StopCalled, Interrupt, SendStop, Join, ClearMessage, StopReturn,
                ThreadSide
  <2>8. CASE UNCHANGED vars
    BY <2>8 DEF vars
  <2> QED
    BY <1>3, <2>1, <2>2, <2>3, <2>4, <2>5, <2>6, <2>7, <2>8 DEF Next, PlayLoop
<1>4. MateGone /\ [Next]_vars => [pc = "exited" => UNCHANGED << pc, p >>]_vars
  BY <1>3
<1> QED
  BY <1>1, <1>2, <1>4, PTL DEF Spec, ExitIsFinal
-----------------------------------------------------------------------------
(* The two flags of a paused player.  Whatever they said before, check_flag *)
(* has them agree; while data is read only the mate writes them, and what  *)
(* it is about to write fits what it last looked at.                       *)

\* s and t are paused alike, by the flag and by the status.
SamePause(s, t) == t.pause = s.pause /\ (t.status = "PAUSE" <=> s.status = "PAUSE")

Agree(s) == s.status = "PAUSE" <=> s.pause = 1

LEMMA SameAgrees == ASSUME NEW s, NEW t, SamePause(s, t) PROVE Agree(s) <=> Agree(t)
BY DEF SamePause, Agree

\* update_playing_info does not pause a player, nor end its pause.
LEMMA UpdateInfoPause ==
  ASSUME NEW s \in Para, NEW t \in UpdateInfo(s) PROVE SamePause(s, t)
<1>1. ASSUME NEW b \in Buffered(s) PROVE SamePause(s, b) /\ b \in Para
  <2>1. SamePause(s, b)
    BY DEF Buffered, SamePause, Para
  <2>2. b \in Para
    BY BufferedFollows DEF Follows
  <2> QED
    BY <2>1, <2>2
<1>2. ASSUME s.status # "PAUSE", NEW b \in Buffered(s), t \in PlayedOut(b)
      PROVE  SamePause(s, t)
  <2>1. b \in Para /\ SamePause(s, b)
    BY <1>1
  <2>2. t.pause = b.pause /\ (t.status = b.status \/ t.status = "PLAYEND")
    BY <1>2, <2>1 DEF PlayedOut, Para
  <2> QED
    BY <1>2, <2>1, <2>2 DEF SamePause
<1> QED
  BY <1>1, <1>2 DEF UpdateInfo

\* When check_flag lets the thread go on to the read, the flags agree, whatever they
\* said before.
LEMMA CheckFlagAgrees ==
  ASSUME NEW s \in Para, NEW r \in CheckFlag(s), r.ret # "BREAK" PROVE Agree(r.s)
<1> DEFINE Resumed == IF s.status = "PAUSE"
                      THEN UpdateInfo([s EXCEPT !.status = "RUNNING"]) ELSE {s}
<1>1. CASE r.ret = "CONTINUE"
  <2>1. s.pause = 1 /\ r.s = [s EXCEPT !.status = "PAUSE"]
    BY <1>1 DEF CheckFlag
  <2> QED
    BY <2>1 DEF Agree, Para
<1>2. CASE s.pause = 0 /\ \E x \in Resumed : r.s \in SwitchAudio(x)
  <2>1. PICK x \in Resumed : r.s \in SwitchAudio(x)
    BY <1>2
  <2>2. x \in Para /\ x.pause = 0 /\ x.status # "PAUSE"
    <3> DEFINE run == [s EXCEPT !.status = "RUNNING"]
    <3>1. run \in Para /\ run.pause = 0 /\ run.status # "PAUSE"
      BY <1>2, StatusValues DEF Para
    <3> HIDE DEF run
    <3>2. \A t \in UpdateInfo(run) : t \in Para /\ t.pause = 0 /\ t.status # "PAUSE"
      BY <3>1, UpdateInfoPause, UpdateInfoFollows DEF SamePause, Follows
    <3>3. (s.status # "PAUSE" /\ x = s) \/ x \in UpdateInfo(run)
      BY <2>1 DEF run
    <3> QED
      BY <1>2, <3>2, <3>3
  <2>3. SamePause(x, r.s)
    BY <2>1, <2>2 DEF SwitchAudio, SamePause, Para
  <2> QED
    BY <2>2, <2>3 DEF SamePause, Agree
<1>3. \/ r.ret = "CONTINUE"
      \/ s.pause = 0 /\ \E x \in Resumed : r.s \in SwitchAudio(x)
  <2>1. s.end \in {0, 1} /\ s.step \in {0, 1} /\ s.pause \in {0, 1}
    BY DEF Para
  <2>2. CASE s.end = 0 /\ ~ (Trick(s) /\ s.init = 0) /\ s.pause = 1
    BY <2>2 DEF CheckFlag
  <2>3. CASE s.end = 0 /\ ~ (Trick(s) /\ s.init = 0) /\ s.pause = 0
    BY <2>3 DEF CheckFlag
  <2>4. CASE s.end = 1 \/ (Trick(s) /\ s.init = 0)
    BY <2>1, <2>4 DEF CheckFlag
  <2> QED
    BY <2>1, <2>2, <2>3, <2>4
<1> QED
  BY <1>1, <1>2, <1>3

Reading == {"idle", "read"}

\* What the mate relies on in the middle of a pass, as long as no check_flag has come
\* between its look at the flags and its writes.
MateKnows ==
  /\ mate = "pause_status" => p.pause = 1
  /\ mate = "resume_status" => p.pause = 0
  /\ mate \in {"buffering", "running", "end_flag", "loop_test", "playend"} =>
       p.status # "PAUSE"

PauseInv == pc \in Reading /\ late = 0 => MateKnows

LEMMA MateAgrees ==
  ASSUME p \in Para, mate \notin {"pause_status", "resume_status"} => Agree(p), MateKnows,
         MatePass
  PROVE  /\ mate' \notin {"pause_status", "resume_status"} => Agree(p')
         /\ MateKnows'
<1>1. CASE MateHandles
  <2>1. p' = p \/ (task \in {"SWITCH_AID", "LOOP", "NOLOOP"} /\ p' = CheckMsg(p, task))
    BY <1>1 DEF MateHandles
  <2>2. SamePause(p, p')
    BY <2>1 DEF CheckMsg, SamePause, Para
  <2>3. mate = "handle" /\ mate' \in {"pause_flag", "resume_flag", "update"}
    BY <1>1 DEF MateHandles
  <2> QED
    BY <2>2, <2>3, SameAgrees DEF MateKnows
<1>2. CASE MatePauses
  <2>1. CASE MateGoes("pause_flag", "pause_status") /\ p' = [p EXCEPT !.pause = 1]
    BY <2>1 DEF MateGoes, MateKnows, Para
  <2>2. CASE MateGoes("pause_status", "update") /\ p' = [p EXCEPT !.status = "PAUSE"]
    BY <2>2 DEF MateGoes, MateKnows, Agree, Para
  <2> QED
    BY <1>2, <2>1, <2>2 DEF MatePauses
<1>3. CASE MateResumes
  <2>1. CASE MateGoes("resume_flag", "resume_status") /\ p' = [p EXCEPT !.pause = 0]
    BY <2>1 DEF MateGoes, MateKnows, Para
  <2>2. CASE MateGoes("resume_status", "update") /\ p' = [p EXCEPT !.status = "RUNNING"]
    BY <2>2 DEF MateGoes, MateKnows, Agree, Para
  <2> QED
    BY <1>3, <2>1, <2>2 DEF MateResumes
<1>4. CASE MateUpdates
  BY <1>4 DEF MateUpdates, Updated, MateKnows, Agree
<1>5. CASE MateBuffers
  <2>1. /\ mate \in {"buffering", "running"} /\ mate' = "ended"
        /\ \E v \in {"BUFFERING", "RUNNING"} : p' = [p EXCEPT !.status = v]
    BY <1>5 DEF MateBuffers, MateGoes
  <2>2. SamePause(p, p')
    BY <2>1 DEF MateKnows, SamePause, Para
  <2> QED
    BY <2>1, <2>2, SameAgrees DEF MateKnows
<1>6. CASE MateEndTest
  BY <1>6 DEF MateEndTest, Updated, MateKnows, Agree
<1>7. CASE MateEnds
  <2>1. /\ mate \in {"end_flag", "loop_test", "playend", "clear"}
        /\ mate' \notin {"pause_status", "resume_status", "buffering", "running", "end_flag"}
        /\ mate' \in {"loop_test", "playend"} => mate \in {"end_flag", "loop_test"}
    BY <1>7 DEF MateEnds, MateGoes, Updated
  <2>2. SamePause(p, p')
    <3>1. CASE mate = "playend"
      BY <1>7, <3>1 DEF MateEnds, MateGoes, MateKnows, SamePause, Para
    <3>2. CASE mate # "playend"
      BY <1>7, <3>2 DEF MateEnds, MateGoes, SamePause, Para
    <3> QED
      BY <3>1, <3>2
  <2>3. Agree(p')
    BY <2>1, <2>2, SameAgrees
  <2>4. mate' \in {"loop_test", "playend"} => p'.status # "PAUSE"
    BY <2>1, <2>2 DEF MateKnows, SamePause
  <2> QED
    BY <2>1, <2>3, <2>4 DEF MateKnows
<1> QED
  BY <1>1, <1>2, <1>3, <1>4, <1>5, <1>6, <1>7 DEF MatePass

LEMMA PauseStep ==
  ASSUME TypeOK, PauseAgrees, PauseInv, [Next]_vars PROVE PauseAgrees' /\ PauseInv'
<1>1. p \in Para
  BY DEF TypeOK
<1>2. ASSUME Start PROVE pc' \notin Reading
  BY <1>2 DEF Start, Create, OpenFile, ParseType, DecInit, DecFailed, CheckStopCmd,
              WaitStart, StartPlaying, Goto, Reading
<1>3. ASSUME Finish PROVE pc' \notin Reading
  BY <1>3 DEF Finish, Release, ErrorOrStop, CheckStopCmd, FinalState, Exit, Goto, Reading
<1>4. ASSUME Read \/ PlayCheck PROVE pc' \notin Reading
  BY <1>4 DEF Read, PlayCheck, Goto, Reading
<1>5. ASSUME Write \/ WaitCheck \/ WaitFlags \/ ExitFlag \/ Reset PROVE pc' \notin Reading
  BY <1>5 DEF Write, WaitCheck, WaitFlags, ExitFlag, Reset, Goto, Reading
<1>6. CASE PlayFlags
  <2>1. ASSUME NEW r \in CheckFlag(p), r.ret # "BREAK" PROVE Agree(r.s)
    BY <1>1, <2>1, CheckFlagAgrees
  <2>2. pc' \in Reading => Agree(p')
    BY <1>6, <2>1 DEF PlayFlags, Reading
  <2>3. late' = 0 => mate \notin Decided
    BY <1>6 DEF PlayFlags
  <2>4. mate' = mate \/ mate' = "called"
    BY <1>6 DEF PlayFlags, Wake
  <2>5. late' = 0 => MateKnows'
    BY <2>3, <2>4 DEF MateKnows, Decided
  <2> QED
    BY <2>2, <2>5 DEF PauseAgrees, PauseInv, Agree, Reading
<1>7. CASE PausedBuffering
  <2>1. CASE pc' \in {"ended", "check"}
    BY <2>1 DEF PauseAgrees, PauseInv, Reading
  <2>2. CASE pc' = "read" /\ mate \in Resting /\ mate' = "called"
    <3>1. UNCHANGED << p, late >> /\ pc = "idle"
      BY <1>7 DEF PausedBuffering, Aside
    <3> QED
      BY <2>2, <3>1 DEF PauseAgrees, PauseInv, MateKnows, Reading, Resting
  <2> QED
    BY <1>7, <2>1, <2>2 DEF PausedBuffering
<1>8. CASE MateTakes
  <2>1. /\ mate \in {"called", "awake"} /\ mate' \in {"handle", "update"}
        /\ UNCHANGED << pc, p, late >>
    BY <1>8 DEF MateTakes
  <2> QED
    BY <2>1 DEF PauseAgrees, PauseInv, MateKnows
<1>9. CASE MatePass
  <2>1. UNCHANGED << pc, late >>
    BY <1>9 DEF MatePass, MateHandles, MatePauses, MateResumes, MateUpdates, MateBuffers,
                MateEndTest, MateEnds, MateAside
  <2>2. CASE pc \in Reading /\ late = 0
    <3>1. mate \notin {"pause_status", "resume_status"} => Agree(p)
      BY <2>2 DEF PauseAgrees, Agree, Reading
    <3>2. MateKnows
      BY <2>2 DEF PauseInv
    <3> QED
      BY <1>1, <1>9, <2>1, <3>1, <3>2, MateAgrees DEF PauseAgrees, PauseInv, Agree, Reading
  <2>3. CASE ~ (pc \in Reading /\ late = 0)
    BY <2>1, <2>3 DEF PauseAgrees, PauseInv, Reading
  <2> QED
    BY <2>2, <2>3
<1>10. ASSUME UNCHANGED ThreadSide PROVE PauseAgrees' /\ PauseInv'
  BY <1>10 DEF ThreadSide, PauseAgrees, PauseInv, MateKnows
<1>11. ASSUME NEW cmd \in Sent, Send(cmd) PROVE UNCHANGED ThreadSide
  BY <1>11 DEF Send
<1>12. ASSUME NEW c \in Caller, StopCall(c) PROVE UNCHANGED ThreadSide
  BY <1>12 DEF StopCall, StopCalled, Interrupt, SendStop, Join, ClearMessage, StopReturn
<1>13. CASE UNCHANGED vars
  BY <1>13 DEF vars, PauseAgrees, PauseInv, MateKnows
<1>14. ASSUME pc' \notin Reading PROVE PauseAgrees' /\ PauseInv'
  BY <1>14 DEF PauseAgrees, PauseInv, Reading
<1> QED
  BY <1>2, <1>3, <1>4, <1>5, <1>6, <1>7, <1>8, <1>9, <1>10, <1>11, <1>12, <1>13, <1>14
     DEF Next, PlayLoop

\* While data is read, the status and pause_flag agree that the player is paused or
\* agree that it is not, but for the moment between two writes of the mate: whatever a
\* late mate has done to them before, one check_flag that does not catch it at its
\* writes is enough, and no pause and no resume that comes in during the read is dropped
\* as no news.
THEOREM PauseCorrect == Spec => []PauseAgrees
<1>1. Init => PauseAgrees /\ PauseInv
  BY DEF Init, PauseAgrees, PauseInv, Reading
<1>2. TypeOK /\ (PauseAgrees /\ PauseInv) /\ [Next]_vars => (PauseAgrees /\ PauseInv)'
  BY PauseStep
<1> QED
  BY <1>1, <1>2, TypeCorrect, PTL DEF Spec
-----------------------------------------------------------------------------
(* A stopped player does not start over.  A thread that has taken STOP is  *)
(* at rest: nothing is left in its flags that would have exit_flag go on.  *)
(* Only a decoder that asks for a reset in the very round that takes the   *)
(* STOP, and a mate that works on after its read and takes LOOP there, can *)
(* put something back; the theorem is about a player with neither.         *)

Settled == "decoder" \notin Trouble /\ ("late_mate" \notin Trouble \/ "LOOP" \notin Sent)

\* exit_flag has nothing to go on for.
Rests(s) == s.end = 1 /\ s.loop = 0 /\ s.search = 0 /\ s.reset = 0 /\ ~ Trick(s)

\* t, made from s, asks for no reset that s did not, and ends if s did.
NoNewReset(s, t) == (t.reset = 1 => s.reset = 1) /\ (s.end = 1 => t.end = 1)

Over == Ending \cup {"release"}

\* A reset is pending only on the way from the read, where it comes with the end of the
\* round, to player_reset.
ResetOnItsWay ==
  /\ pc \notin Over \cup {"read", "write", "ended", "reset"} => p.reset = 0
  /\ pc \in {"read", "write"} /\ p.reset = 1 => p.end = 1

StopTaken ==
  p.request_end = 1 => pc \in Over \/ (pc \in {"flags", "wait_flags", "ended"} /\ Rests(p))

MateInRead ==
  /\ "late_mate" \in Trouble \/ (mate \notin {"none", "asleep"} => pc \in {"idle", "read"})
  /\ task \in Sendable \cup {"none"}

SInv == ResetOnItsWay /\ StopTaken /\ MateInRead /\ queue \in Seq(Sendable)

LEMMA UpdateInfoRests ==
  ASSUME NEW s \in Para, NEW t \in UpdateInfo(s)
  PROVE  NoNewReset(s, t) /\ (Rests(s) => Rests(t))
<1>1. ASSUME NEW b \in Buffered(s)
      PROVE  /\ b \in Para /\ b.end = s.end /\ b.loop = s.loop /\ b.search = s.search
             /\ b.reset = s.reset /\ b.ff = s.ff /\ b.fb = s.fb
  <2>1. b = s \/ \E v \in Status : b = [s EXCEPT !.status = v]
    BY StatusValues DEF Buffered
  <2> QED
    BY <2>1 DEF Para
<1>2. CASE t \in Buffered(s)
  BY <1>1, <1>2 DEF NoNewReset, Rests, Trick
<1>3. ASSUME s.end = 0, NEW b \in Buffered(s), t \in PlayedOut(b)
      PROVE  NoNewReset(s, t) /\ ~ Rests(s)
  <2>1. t.reset = b.reset \/ t.reset = 0
    BY <1>1, <1>3 DEF PlayedOut, Para
  <2> QED
    BY <1>1, <1>3, <2>1 DEF NoNewReset, Rests
<1> QED
  BY <1>2, <1>3 DEF UpdateInfo

LEMMA NowRunningReset ==
  ASSUME NEW s \in Para, NEW t \in NowRunning(s) PROVE NoNewReset(s, t)
<1> DEFINE run == [s EXCEPT !.status = "RUNNING"]
<1>1. run \in Para /\ run.reset = s.reset /\ run.end = s.end
  BY StatusValues DEF Para
<1>2. t = s \/ t \in UpdateInfo(run)
  BY DEF NowRunning
<1> HIDE DEF run
<1> QED
  BY <1>1, <1>2, UpdateInfoRests DEF NoNewReset

\* check_msg asks for no reset; a STOP that it takes puts the player at rest.
LEMMA CheckMsgRests ==
  ASSUME NEW s \in Para, NEW cmd \in Cmd
  PROVE  /\ CheckMsg(s, cmd).reset = s.reset
         /\ s.request_end = 0 /\ s.reset = 0 /\ CheckMsg(s, cmd).request_end = 1 =>
              cmd = "STOP" /\ Rests(CheckMsg(s, cmd))
<1>1. CASE cmd = "STOP"
  <2>1. CheckMsg(s, cmd) = StopMsg(s)
    BY <1>1 DEF CheckMsg
  <2>2. StopMsg(s).reset = s.reset
    BY DEF StopMsg, Para
  <2>3. s.reset = 0 => Rests(StopMsg(s))
    BY DEF StopMsg, Rests, Trick, Para
  <2> QED
    BY <1>1, <2>1, <2>2, <2>3
<1>2. CASE cmd # "STOP"
  <2> DEFINE q == Calm(s)
  <2>1. q \in Para
    BY CalmFollows DEF Follows
  <2>2. q.reset = s.reset
    BY DEF Calm, Para
  <2> HIDE DEF q
  <2>3. /\ [q EXCEPT !.search = 1, !.end = 1, !.at = "head"].reset = s.reset
        /\ [q EXCEPT !.search = 1, !.end = 1, !.at = "mid"].reset = s.reset
        /\ [q EXCEPT !.search = 0, !.end = 1, !.status = "PLAYEND"].reset = s.reset
    BY <2>1, <2>2 DEF Para
  <2>4. cmd \notin {"SEARCH_head", "SEARCH_mid", "SEARCH_end", "SEARCH_over"} =>
          CheckMsg(s, cmd).reset = s.reset
    BY <1>2 DEF CheckMsg, Cmd, Para
  <2>5. cmd \in {"SEARCH_head", "SEARCH_mid", "SEARCH_end", "SEARCH_over"} =>
          CheckMsg(s, cmd).reset = s.reset
    BY <2>2, <2>3 DEF CheckMsg, q
  <2>6. CheckMsg(s, cmd).request_end = s.request_end
    BY <1>2, CheckMsgFollows DEF Follows
  <2> QED
    BY <2>4, <2>5, <2>6
<1> QED
  BY <1>1, <1>2

LEMMA CheckFlagRests ==
  ASSUME NEW s \in Para, s.reset = 0, NEW r \in CheckFlag(s)
  PROVE  /\ r.s.reset = 1 => r.ret = "NONO" /\ r.s.end = 1
         /\ Rests(s) => r.ret = "BREAK" /\ Rests(r.s)
<1> DEFINE Resumed == IF s.status = "PAUSE"
                      THEN UpdateInfo([s EXCEPT !.status = "RUNNING"]) ELSE {s}
<1>1. CASE s.end = 1
  <2>1. r.ret = "BREAK" /\ r.s = ShowEnd(s)
    BY <1>1 DEF CheckFlag
  <2> QED
    BY <2>1 DEF ShowEnd, Rests, Trick, Para
<1>2. CASE s.end = 0 /\ r.ret # "NONO"
  <2>1. \/ \E t \in {"head", "mid", "end"} : r.s = [s EXCEPT !.init = 1, !.at = t]
        \/ r.s = [s EXCEPT !.ff = 0, !.fb = 0, !.search = 1]
        \/ r.s = [s EXCEPT !.status = "PAUSE"]
    BY <1>2 DEF CheckFlag
  <2>2. r.s.reset = s.reset
    BY <2>1 DEF Para
  <2> QED
    BY <1>2, <2>2 DEF Rests
<1>3. CASE s.end = 0 /\ r.ret = "NONO"
  <2>1. PICK x \in Resumed : r.s \in SwitchAudio(x)
    BY <1>3 DEF CheckFlag
  <2>2. x \in Para /\ x.reset # 1
    <3> DEFINE run == [s EXCEPT !.status = "RUNNING"]
    <3>1. run \in Para /\ run.reset = 0
      BY StatusValues DEF Para
    <3> HIDE DEF run
    <3>2. \A t \in UpdateInfo(run) : t \in Para /\ t.reset # 1
      BY <3>1, UpdateInfoRests, UpdateInfoFollows DEF NoNewReset, Follows
    <3>3. x = s \/ x \in UpdateInfo(run)
      BY <2>1 DEF run
    <3> QED
      BY <3>2, <3>3
  <2>3. r.s.reset = 1 => r.s.end = 1
    BY <2>1, <2>2 DEF SwitchAudio, Para
  <2> QED
    BY <1>3, <2>3 DEF Rests
<1>4. s.end \in {0, 1}
  BY DEF Para
<1> QED
  BY <1>1, <1>2, <1>3, <1>4

\* No step of the mate asks for a reset, and only a LOOP gives a player at rest something
\* to go on for.
LEMMA MateRests ==
  ASSUME p \in Para, MatePass
  PROVE  NoNewReset(p, p') /\ (Rests(p) /\ task # "LOOP" => Rests(p'))
<1>1. CASE MateHandles
  <2>1. p' = p \/ (task \in {"SWITCH_AID", "LOOP", "NOLOOP"} /\ p' = CheckMsg(p, task))
    BY <1>1 DEF MateHandles
  <2> QED
    BY <2>1 DEF CheckMsg, NoNewReset, Rests, Trick, Para
<1>2. CASE MatePauses \/ MateResumes \/ MateBuffers
  <2>1. \/ p' = [p EXCEPT !.pause = 0] \/ p' = [p EXCEPT !.pause = 1]
        \/ \E v \in {"PAUSE", "RUNNING", "BUFFERING"} : p' = [p EXCEPT !.status = v]
    BY <1>2 DEF MatePauses, MateResumes, MateBuffers
  <2> QED
    BY <2>1 DEF NoNewReset, Rests, Trick, Para
<1>3. CASE MateUpdates \/ MateEndTest
  BY <1>3 DEF MateUpdates, MateEndTest, NoNewReset
<1>4. CASE MateEnds
  BY <1>4 DEF MateEnds, NoNewReset, Rests, Trick, Para
<1> QED
  BY <1>1, <1>2, <1>3, <1>4 DEF MatePass

LEMMA PushType ==
  ASSUME NEW S, NEW cmd \in S, queue \in Seq(S), Push(cmd) PROVE queue' \in Seq(S)
<1>1. MESSAGE_MAX \in Nat \ {0} /\ Len(queue) \in Nat
  BY ThreadAssumption
<1>2. CASE Len(queue) < MESSAGE_MAX
  BY <1>1, <1>2 DEF Push
<1>3. CASE ~ (Len(queue) < MESSAGE_MAX)
  <2>1. queue # << >> /\ queue' = Append(Tail(queue), cmd)
    BY <1>1, <1>3 DEF Push
  <2> QED
    BY <2>1
<1> QED
  BY <1>2, <1>3

\* Where a message is taken, only a STOP sets request_end_flag, and leaves the player
\* at rest.
LEMMA TakeMessageRests ==
  ASSUME p \in Para, queue \in Seq(Cmd), p.reset = 0, p.request_end = 0, TakeMessage(p)
  PROVE  p'.reset = 0 /\ (p'.request_end = 1 => Rests(p'))
<1>1. p' = p \/ \E cmd \in Cmd : p' = CheckMsg(p, cmd)
  <2>1. Amutils \subseteq Cmd
    BY ThreadAssumption DEF Cmd
  <2>2. queue # << >> => Head(queue) \in Cmd
    OBVIOUS
  <2> QED
    BY <2>1, <2>2 DEF TakeMessage
<1> QED
  BY <1>1, CheckMsgRests

LEMMA StartSettles == ASSUME TypeOK, SInv, Start PROVE ResetOnItsWay' /\ StopTaken'
<1>1. p \in Para /\ queue \in Seq(Cmd)
  BY DEF TypeOK
<1>2. pc \in {"created", "opening", "parsed", "dec_init", "dec_failed", "wait_start",
              "starting"}
  BY DEF Start, Create, OpenFile, ParseType, DecInit, DecFailed, CheckStopCmd, WaitStart,
         StartPlaying, Goto
<1>3. p.reset = 0 /\ p.request_end = 0
  <2>1. p.request_end \in {0, 1}
    BY <1>1 DEF Para
  <2> QED
    BY <1>2, <2>1 DEF SInv, ResetOnItsWay, StopTaken, Over, Ending
<1>4. ASSUME Create \/ OpenFile \/ ParseType \/ DecInit \/ StartPlaying \/ DecFailed
      PROVE  /\ p'.reset = 0 /\ p'.request_end = 0
             /\ pc' \notin {"read", "write"}
  <2>1. p' = p \/ \E v \in Status : p' = [p EXCEPT !.status = v]
    BY <1>4, StatusValues DEF Create, OpenFile, ParseType, DecInit, StartPlaying, DecFailed,
                              CheckStopCmd
  <2>2. pc' \notin {"read", "write"}
    BY <1>4 DEF Create, OpenFile, ParseType, DecInit, StartPlaying, DecFailed, CheckStopCmd,
                Goto
  <2> QED
    BY <1>1, <1>3, <2>1, <2>2 DEF Para
<1>5. CASE WaitStart
  <2> DEFINE cmd == Head(queue)
             s   == CheckStartCmd(p, cmd)
  <2>1. cmd \in Cmd
    BY <1>1, <1>5 DEF WaitStart
  <2>2. /\ s.reset = 0
        /\ s.request_end = 1 => cmd = "STOP" /\ Rests(s)
    <3>1. CASE cmd \in {"SEARCH_head", "SEARCH_mid"}
      BY <1>1, <1>3, <3>1 DEF CheckStartCmd, Para
    <3>2. CASE cmd \notin {"SEARCH_head", "SEARCH_mid"}
      <4>1. s = CheckMsg(p, cmd)
        BY <3>2 DEF CheckStartCmd
      <4> HIDE DEF cmd, s
      <4> QED
        BY <1>1, <1>3, <2>1, <4>1, CheckMsgRests
    <3> QED
      BY <3>1, <3>2
  <2>3. s \in Para
    <3>1. CheckMsg(p, cmd) \in Para
      BY <1>1, <2>1, CheckMsgType
    <3> QED
      BY <1>1, <3>1 DEF CheckStartCmd, Para
  <2>4. /\ pc' \in {"starting", "release", "wait_start"}
        /\ p' = s \/ p' = [s EXCEPT !.status = EndStatus(s)]
        /\ cmd = "STOP" /\ Rests(s) => pc' = "release"
    BY <1>5 DEF WaitStart, Rests
  <2> HIDE DEF cmd, s
  <2>5. p'.reset = 0 /\ (p'.request_end = 1 => pc' = "release")
    BY <2>2, <2>3, <2>4 DEF Para
  <2> QED
    BY <2>4, <2>5 DEF ResetOnItsWay, StopTaken, Over
<1> QED
  BY <1>4, <1>5 DEF Start, ResetOnItsWay, StopTaken

LEMMA PlayLoopSettles ==
  ASSUME Settled, TypeOK, SInv, PlayLoop \/ Read \/ PausedBuffering PROVE ResetOnItsWay' /\ StopTaken'
<1>1. /\ p \in Para /\ queue \in Seq(Cmd) /\ pkt \in {0, 1}
      /\ p.reset \in {0, 1} /\ p.request_end \in {0, 1} /\ p.end \in {0, 1}
  BY DEF TypeOK, Para
<1> DEFINE Plain == {"check", "idle", "read", "write", "wait_check", "reset"}
<1>2. pc \in Plain => p.request_end = 0
  BY <1>1 DEF SInv, StopTaken, Over, Ending
<1>3. pc \in {"check", "flags", "idle", "wait_check", "wait_flags"} => p.reset = 0
  BY DEF SInv, ResetOnItsWay, Over, Ending
<1>4. pc \in {"read", "write"} /\ p.reset = 1 => p.end = 1
  BY DEF SInv, ResetOnItsWay
<1>5. pc \in {"flags", "wait_flags", "ended"} /\ p.request_end = 1 => Rests(p)
  BY DEF SInv, StopTaken, Over, Ending
<1>6. DecoderCheck(p) = {p} /\ \A s, v : \A w \in WriteAvPacket(s, v) : w.s = s
  BY DEF Settled, DecoderCheck, WriteAvPacket
<1>7. CASE PlayCheck \/ WaitCheck
  <2>1. pc \in {"check", "wait_check"} /\ pc' \in {"flags", "wait_flags"} /\ TakeMessage(p)
    BY <1>6, <1>7 DEF PlayCheck, WaitCheck, Goto
  <2>2. p'.reset = 0 /\ (p'.request_end = 1 => Rests(p'))
    BY <1>1, <1>2, <1>3, <2>1, TakeMessageRests
  <2> QED
    BY <2>1, <2>2 DEF ResetOnItsWay, StopTaken
<1>8. CASE PlayFlags
  <2>1. PICK r \in CheckFlag(p) :
          /\ \/ r.ret = "BREAK" /\ r.s.end = 0 /\ pc' = "write" /\ p' = r.s
             \/ r.ret = "BREAK" /\ pc' = "ended" /\ p' = [r.s EXCEPT !.end = 1]
             \/ r.ret = "CONTINUE" /\ pc' \in {"idle", "read"} /\ p' = r.s
             \/ r.ret = "NONO" /\ pc' = "read" /\ p' = r.s
          /\ pc = "flags"
    BY <1>8 DEF PlayFlags
  <2>2. /\ r.s \in Para /\ r.s.request_end = p.request_end
        /\ r.s.reset = 1 => r.ret = "NONO" /\ r.s.end = 1
        /\ Rests(p) => r.ret = "BREAK" /\ Rests(r.s)
    BY <1>1, <1>3, <2>1, CheckFlagFollows, CheckFlagRests DEF Follows
  <2>3. r.s.reset \in {0, 1} /\ [r.s EXCEPT !.end = 1].request_end = r.s.request_end
        /\ (Rests(r.s) => r.s.end = 1 /\ Rests([r.s EXCEPT !.end = 1]))
    BY <2>2 DEF Rests, Trick, Para
  <2>4. CASE p.request_end = 1
    <3>1. pc' = "ended" /\ p' = [r.s EXCEPT !.end = 1] /\ Rests(p')
      BY <1>5, <2>1, <2>2, <2>3, <2>4
    <3> QED
      BY <3>1 DEF ResetOnItsWay, StopTaken
  <2>5. CASE p.request_end = 0
    <3>1. p'.request_end = 0
      BY <2>1, <2>2, <2>3, <2>5
    <3>2. ResetOnItsWay'
      BY <2>1, <2>2, <2>3 DEF ResetOnItsWay
    <3> QED
      BY <3>1, <3>2 DEF StopTaken
  <2> QED
    BY <1>1, <2>4, <2>5
<1>9. CASE PausedBuffering
  BY <1>2, <1>3, <1>9 DEF PausedBuffering, ResetOnItsWay, StopTaken
<1>10. CASE Read
  <2>1. pc = "read" /\ (pc' = "release" \/ pc' = "write")
    BY <1>10 DEF Read
  <2>2. ASSUME pc' = "write" PROVE \E s \in Para : /\ s.request_end = 0 /\ NoNewReset(p, s)
                                                   /\ p' \in NowRunning(s)
    <3>1. CASE p' \in NowRunning(p)
      BY <1>1, <1>2, <2>1, <3>1 DEF NoNewReset
    <3>2. CASE \E r \in ReadAvPacket(p) : p' \in NowRunning(r.s)
      <4>1. PICK r \in ReadAvPacket(p) : p' \in NowRunning(r.s)
        BY <3>2
      <4>2. r.s \in Para /\ r.s.request_end = 0 /\ NoNewReset(p, r.s)
        BY <1>1, <1>2, <2>1 DEF ReadAvPacket, NoNewReset, Para
      <4> QED
        BY <4>1, <4>2
    <3> QED
      BY <1>10, <2>2, <3>1, <3>2 DEF Read
  <2>3. CASE pc' = "write"
    <3>1. PICK s \in Para : s.request_end = 0 /\ NoNewReset(p, s) /\ p' \in NowRunning(s)
      BY <2>2, <2>3
    <3>2. p'.request_end = 0 /\ NoNewReset(s, p')
      BY <3>1, NowRunningFollows, NowRunningReset DEF Follows
    <3>3. p'.reset = 1 => p'.end = 1
      BY <1>4, <2>1, <3>1, <3>2 DEF NoNewReset
    <3> QED
      BY <2>3, <3>2, <3>3 DEF ResetOnItsWay, StopTaken
  <2>4. CASE pc' = "release"
    BY <2>4 DEF ResetOnItsWay, StopTaken, Over
  <2> QED
    BY <2>1, <2>3, <2>4
<1>11. CASE Write
  <2>1. CASE pc' = "release"
    BY <2>1 DEF ResetOnItsWay, StopTaken, Over
  <2>2. CASE p' = p /\ pc' = (IF p.end = 1 THEN "ended" ELSE "wait_check")
    BY <1>1, <1>2, <1>4, <1>11, <2>2 DEF Write, ResetOnItsWay, StopTaken
  <2>3. CASE /\ \E q \in UpdateInfo(p) : p' \in Shown(q)
             /\ pc' = IF p'.end = 1 THEN "ended" ELSE "check"
    <3>1. PICK q \in UpdateInfo(p) : p' \in Shown(q)
      BY <2>3
    <3>2. q \in Para /\ q.request_end = p.request_end /\ NoNewReset(p, q)
      BY <1>1, UpdateInfoFollows, UpdateInfoRests DEF Follows
    <3>3. p'.request_end = q.request_end /\ p' \in Para
      BY <3>1, <3>2, ShownFollows DEF Follows
    <3>4. NoNewReset(q, p')
      <4> DEFINE over == [q EXCEPT !.end = 1]
      <4>1. over \in Para /\ over.reset = q.reset /\ over.end = 1
        BY <3>2 DEF Para
      <4>2. p' = q \/ p' \in UpdateInfo(over)
        BY <3>1 DEF Shown
      <4> HIDE DEF over
      <4> QED
        BY <4>1, <4>2, UpdateInfoRests DEF NoNewReset
    <3>5. p'.reset = 1 => p'.end = 1
      BY <1>4, <1>11, <3>2, <3>4 DEF NoNewReset, Write
    <3>6. p'.request_end = 0 /\ p'.reset \in {0, 1}
      BY <1>2, <1>11, <3>2, <3>3 DEF Write, Para
    <3> QED
      BY <2>3, <3>5, <3>6 DEF ResetOnItsWay, StopTaken
  <2>4. ASSUME pc' # "release", NEW w \in WriteAvPacket(p, pkt), NEW q \in UpdateInfo(w.s),
               NEW d \in DecoderCheck(q), p' \in Shown(d)
        PROVE  q \in UpdateInfo(p) /\ p' \in Shown(q)
    BY <1>6, <2>4 DEF Settled, DecoderCheck
  <2> QED
    BY <1>11, <2>1, <2>2, <2>3, <2>4 DEF Write
<1>12. CASE WaitFlags
  <2>1. PICK r \in CheckFlag(p) :
          \/ /\ r.ret = "BREAK" /\ pc' = "ended"
             /\ p' = IF r.s.search = 1 \/ Trick(r.s) THEN [r.s EXCEPT !.read_end = 0]
                     ELSE r.s
          \/ r.ret = "CONTINUE" /\ pc' = "wait_check" /\ p' = r.s
          \/ /\ r.ret = "NONO" /\ p' \in UpdateInfo(r.s)
             /\ pc' = IF p'.end = 1 THEN "ended" ELSE "wait_check"
          \/ r.ret = "NONO" /\ p' = r.s /\ pc' = "ended"
    BY <1>12 DEF WaitFlags
  <2>2. pc = "wait_flags"
    BY <1>12 DEF WaitFlags
  <2>3. /\ r.s \in Para /\ r.s.request_end = p.request_end
        /\ r.s.reset = 1 => r.ret = "NONO" /\ r.s.end = 1
        /\ Rests(p) => r.ret = "BREAK" /\ Rests(r.s)
    BY <1>1, <1>3, <2>2, CheckFlagFollows, CheckFlagRests DEF Follows
  <2>4. [r.s EXCEPT !.read_end = 0].request_end = r.s.request_end
    BY <2>3 DEF Para
  <2>5. ASSUME p' \in UpdateInfo(r.s)
        PROVE  p' \in Para /\ p'.request_end = r.s.request_end /\ NoNewReset(r.s, p')
    BY <2>3, <2>5, UpdateInfoFollows, UpdateInfoRests DEF Follows
  <2>6. CASE p.request_end = 1
    <3>1. pc' = "ended" /\ p' = r.s /\ Rests(p')
      BY <1>5, <2>1, <2>2, <2>3, <2>6 DEF Rests
    <3> QED
      BY <3>1 DEF ResetOnItsWay, StopTaken
  <2>7. CASE p.request_end = 0
    <3>1. p'.request_end = 0
      BY <2>1, <2>3, <2>4, <2>5, <2>7
    <3>2. pc' = "ended" \/ (pc' = "wait_check" /\ p'.reset = 0)
      <4>1. r.s.reset \in {0, 1} /\ (p' \in UpdateInfo(r.s) => p'.reset \in {0, 1})
        BY <2>3, <2>5 DEF Para
      <4> QED
        BY <2>1, <2>3, <2>5, <4>1 DEF NoNewReset
    <3> QED
      BY <3>1, <3>2 DEF ResetOnItsWay, StopTaken
  <2> QED
    BY <1>1, <2>6, <2>7
<1>13. CASE ExitFlag
  <2>1. CASE p.request_end = 1
    <3>1. pc' = "release"
      BY <1>5, <1>13, <2>1 DEF ExitFlag, Rests
    <3> QED
      BY <3>1 DEF ResetOnItsWay, StopTaken, Over
  <2>2. CASE p.request_end = 0
    <3> DEFINE on == [p EXCEPT !.status = "SEARCHING"]
    <3>1. on \in Para /\ on.request_end = 0
      BY <1>1, <2>2, StatusValues DEF Para
    <3>2. p' = p \/ p' \in UpdateInfo(on)
      BY <1>13 DEF ExitFlag
    <3> HIDE DEF on
    <3>3. p'.request_end = 0
      BY <2>2, <3>1, <3>2, UpdateInfoFollows DEF Follows
    <3>4. pc' \in {"release", "reset"}
      BY <1>13 DEF ExitFlag
    <3> QED
      BY <3>3, <3>4 DEF ResetOnItsWay, StopTaken, Over
  <2> QED
    BY <1>1, <2>1, <2>2
<1>14. CASE Reset
  <2>1. CASE pc' = "release"
    BY <2>1 DEF ResetOnItsWay, StopTaken, Over
  <2>2. CASE pc' = "check"
    <3> DEFINE s == ParaReset(p)
    <3>1. s \in Para /\ s.request_end = 0
      BY <1>1, <1>2, <1>14 DEF Reset, ParaReset, Para
    <3>2. PICK r \in DecReset(s) :
            p' = [r EXCEPT !.search = 0, !.reset = 0,
                           !.status = IF r.search = 1 THEN "SEARCHOK" ELSE @]
      BY <1>14, <2>2 DEF Reset
    <3> HIDE DEF s
    <3>3. r \in Para /\ r.request_end = 0
      BY <3>1, DecResetFollows DEF Follows
    <3>4. p'.reset = 0 /\ p'.request_end = 0
      BY <3>2, <3>3 DEF Para
    <3> QED
      BY <2>2, <3>4 DEF ResetOnItsWay, StopTaken
  <2> QED
    BY <1>14, <2>1, <2>2 DEF Reset
<1> QED
  BY <1>7, <1>8, <1>9, <1>10, <1>11, <1>12, <1>13, <1>14 DEF PlayLoop

LEMMA MateSettles ==
  ASSUME Settled, TypeOK, SInv, MateTakes \/ MatePass PROVE ResetOnItsWay' /\ StopTaken'
<1>1. p \in Para /\ pc' = pc /\ p.reset \in {0, 1} /\ mate # "none"
  BY MateSteps DEF TypeOK, Para
<1>2. CASE MateTakes
  BY <1>2 DEF MateTakes, SInv, ResetOnItsWay, StopTaken, Rests, Trick
<1>3. CASE MatePass
  <2>1. NoNewReset(p, p') /\ (Rests(p) /\ task # "LOOP" => Rests(p'))
    BY <1>1, <1>3, MateRests
  <2>2. p' \in Para /\ p'.request_end = p.request_end
    BY <1>1, <1>3, MateFollows DEF Follows
  <2>3. p'.reset \in {0, 1}
    BY <2>2 DEF Para
  <2>4. pc \in {"flags", "wait_flags", "ended"} => task # "LOOP"
    <3>1. mate # "asleep"
      BY <1>3 DEF MatePass, MateHandles, MatePauses, MateResumes, MateUpdates, MateBuffers,
                  MateEndTest, MateEnds, MateGoes
    <3> QED
      BY <1>1, <3>1 DEF SInv, MateInRead, Settled, Sendable
  <2> QED
    BY <1>1, <2>1, <2>2, <2>3, <2>4 DEF SInv, ResetOnItsWay, StopTaken, NoNewReset
<1> QED
  BY <1>2, <1>3

LEMMA StopSettles == ASSUME Settled, TypeOK, SInv, [Next]_vars PROVE SInv'
<1>1. CASE UNCHANGED vars
  BY <1>1 DEF vars, SInv, ResetOnItsWay, StopTaken, MateInRead, Rests, Trick
<1>2. queue' \in Seq(Sendable)
  <2>1. CASE Taken
    BY <2>1 DEF SInv, Taken
  <2>2. ASSUME NEW cmd \in Sendable, Push(cmd) PROVE queue' \in Seq(Sendable)
    BY <2>2, PushType DEF SInv
  <2> QED
    BY <2>1, <2>2, PoolStep
<1>3. CASE Finish
  <2>1. pc' \in Over /\ mate' \in {mate, "none"} /\ pc \in Over
    BY <1>3 DEF Finish, Release, ErrorOrStop, CheckStopCmd, FinalState, Exit, Goto, Over,
                Ending
  <2>2. task' = task
    BY <1>3 DEF Finish, Release, ErrorOrStop, CheckStopCmd, FinalState, Exit, Aside
  <2> QED
    BY <1>2, <2>1, <2>2 DEF SInv, ResetOnItsWay, StopTaken, MateInRead, Over, Ending
<1>4. CASE Start
  <2>1. pc \notin {"idle", "read"} /\ mate' \in {mate, "asleep"}
    BY <1>4 DEF Start, Create, OpenFile, ParseType, DecInit, DecFailed, CheckStopCmd,
                WaitStart, StartPlaying, Goto
  <2>2. task' = task
    BY <1>4 DEF Start, Create, OpenFile, ParseType, DecInit, DecFailed, CheckStopCmd,
                WaitStart, StartPlaying, Aside
  <2> QED
    BY <1>2, <1>4, <2>1, <2>2, StartSettles DEF SInv, MateInRead
<1>5. CASE PlayLoop \/ Read \/ PausedBuffering
  <2>1. task' = task
    BY <1>5 DEF PlayLoop, PlayCheck, PlayFlags, Write, WaitCheck, WaitFlags, ExitFlag,
       Reset,
                Read, PausedBuffering, Aside
  <2>2. MateInRead'
    <3>1. ASSUME PlayCheck \/ Write \/ WaitCheck \/ WaitFlags \/ ExitFlag \/ Reset
          PROVE  mate' = mate /\ pc \notin {"idle", "read"}
      BY <3>1 DEF PlayCheck, Write, WaitCheck, WaitFlags, ExitFlag, Reset, Goto
    <3>2. CASE PlayFlags
      BY <2>1, <3>2 DEF PlayFlags, Wake, SInv, MateInRead
    <3>3. CASE PausedBuffering \/ Read
      BY <2>1, <3>3 DEF PausedBuffering, Read, Sleep, SInv, MateInRead
    <3> QED
      BY <1>5, <2>1, <3>1, <3>2, <3>3 DEF PlayLoop, SInv, MateInRead
  <2> QED
    BY <1>2, <1>5, <2>2, PlayLoopSettles DEF SInv
<1>6. CASE MateTakes \/ MatePass
  <2>1. pc' = pc
    BY <1>6, MateSteps
  <2>2. task' \in Sendable \cup {"none"}
    <3>1. CASE MateTakes
      <4>1. task' = task \/ (queue # << >> /\ task' = Head(queue))
        BY <3>1 DEF MateTakes
      <4> QED
        BY <4>1 DEF SInv, MateInRead
    <3>2. CASE MatePass
      <4>1. task' \in {task, "none"}
        BY <3>2 DEF MatePass, MateHandles, MatePauses, MateResumes, MateUpdates,
           MateBuffers,
                    MateEndTest, MateEnds, Updated
      <4> QED
        BY <4>1 DEF SInv, MateInRead
    <3> QED
      BY <1>6, <3>1, <3>2
  <2>3. mate \notin {"none", "asleep"}
    BY <1>6 DEF MateTakes, MatePass, MateHandles, MatePauses, MateResumes, MateUpdates,
                MateBuffers, MateEndTest, MateEnds, MateGoes
  <2> QED
    BY <1>2, <1>6, <2>1, <2>2, <2>3, MateSettles DEF SInv, MateInRead
<1>7. ASSUME UNCHANGED ThreadSide PROVE SInv'
  BY <1>2, <1>7 DEF ThreadSide, SInv, ResetOnItsWay, StopTaken, MateInRead, Rests, Trick
<1>8. ASSUME NEW cmd \in Sent, Send(cmd) PROVE UNCHANGED ThreadSide
  BY <1>8 DEF Send
<1>9. ASSUME NEW c \in Caller, StopCall(c) PROVE UNCHANGED ThreadSide
  BY <1>9 DEF StopCall, StopCalled, Interrupt, SendStop, Join, ClearMessage, StopReturn
<1> QED
  BY <1>1, <1>3, <1>4, <1>5, <1>6, <1>7, <1>8, <1>9 DEF Next

\* player_stop stops the player: a thread that has taken STOP never comes back to the
\* top of the playback loop, whatever is sent to it before or after, whatever fails,
\* and even where the loop was on or a search was under way.  The two that could turn
\* it around are excluded: a decoder that asks for a reset (it does, see the findings),
\* and a late mate that is sent LOOP.
THEOREM NoPlayAfterStopCorrect ==
  ASSUME "decoder" \notin Trouble, "late_mate" \notin Trouble \/ "LOOP" \notin Sent
  PROVE  Spec => NoPlayAfterStop
<1>1. Init => SInv
  BY DEF Init, SInv, ResetOnItsWay, StopTaken, MateInRead, Sendable
<1>2. TypeOK /\ SInv /\ [Next]_vars => SInv'
  BY StopSettles DEF Settled
<1>3. SInv /\ [Next]_vars => [p.request_end = 1 => ~ Restart]_vars
  BY DEF SInv, StopTaken, Restart, Over, Ending
<1> QED
  BY <1>1, <1>2, <1>3, TypeCorrect, PTL DEF Spec, NoPlayAfterStop
-----------------------------------------------------------------------------
(* Such a player does come to its end.                                     *)

\* The steps of a thread that has taken STOP up to its exit.
StepsToExit ==
  CASE pc \in {"flags", "wait_flags"} -> 5
    [] pc = "ended"                   -> 4
    [] pc = "release"                 -> 3
    [] pc = "final"                   -> 2
    [] pc = "shown"                   -> 1
    [] OTHER                          -> 0   \* exited

ThreadGoes == Start \/ PlayLoop \/ Read \/ PausedBuffering \/ Finish

ExitNears ==
  p.request_end = 1 =>
    IF ThreadGoes THEN StepsToExit' < StepsToExit ELSE StepsToExit' = StepsToExit

\* An error that comes with the STOP is not looked at again.
NoSecondLook == p.request_end = 1 => pc # "error"

LEMMA SecondLookStep == ASSUME TypeOK, NoSecondLook, [Next]_vars PROVE NoSecondLook'
<1> SUFFICES ASSUME pc' = "error", p'.request_end = 1 PROVE FALSE
  BY DEF NoSecondLook
<1>1. p \in Para
  BY DEF TypeOK
<1>2. CASE Release \/ ErrorOrStop
  BY <1>2 DEF NoSecondLook, Release, ErrorOrStop, CheckStopCmd
<1>3. ~ Start /\ ~ PlayLoop /\ ~ Read /\ ~ PausedBuffering /\ ~ FinalState /\ ~ Exit
  BY DEF Start, Create, OpenFile, ParseType, DecInit, DecFailed, CheckStopCmd, WaitStart,
         StartPlaying, PlayLoop, PlayCheck, PlayFlags, PausedBuffering, Write, WaitCheck, WaitFlags,
         ExitFlag, Reset, Read, FinalState, Exit, Goto
<1>4. CASE MateTakes \/ MatePass
  <2>1. p'.request_end = p.request_end
    BY <1>1, <1>4, MateFollows DEF Follows, MateTakes
  <2>2. pc' = pc
    BY <1>4, MateSteps
  <2> QED
    BY <2>1, <2>2 DEF NoSecondLook
<1>5. ASSUME UNCHANGED << pc, p >> PROVE FALSE
  BY <1>5 DEF NoSecondLook
<1> QED
  BY <1>2, <1>3, <1>4, <1>5
     DEF Next, Finish, Send, StopCall, StopCalled, Interrupt, SendStop, Join, ClearMessage,
         StopReturn, ThreadSide, vars

LEMMA ThreadNears ==
  ASSUME TypeOK, StopTaken, NoSecondLook, p.request_end = 1, ThreadGoes
  PROVE  StepsToExit' < StepsToExit
<1>1. p \in Para
  BY DEF TypeOK
<1>2. /\ pc \in {"flags", "wait_flags", "ended", "release", "final", "shown", "exited"}
      /\ pc \in {"flags", "wait_flags", "ended"} => Rests(p)
  BY DEF StopTaken, NoSecondLook, Over, Ending
<1>3. ~ Start /\ ~ Read /\ ~ ErrorOrStop
      /\ ~ PlayCheck /\ ~ PausedBuffering /\ ~ Write /\ ~ WaitCheck /\ ~ Reset
  BY <1>2 DEF Start, Create, OpenFile, ParseType, DecInit, DecFailed, CheckStopCmd,
     WaitStart,
              StartPlaying, Read, ErrorOrStop, PlayCheck, PausedBuffering, Write, WaitCheck, Reset,
              Goto
<1>4. CASE PlayFlags \/ WaitFlags
  <2>1. pc \in {"flags", "wait_flags"}
        /\ \A r \in CheckFlag(p) : r.ret = "BREAK" /\ Rests(r.s)
    <3>1. pc \in {"flags", "wait_flags"}
      BY <1>4 DEF PlayFlags, WaitFlags
    <3>2. Rests(p) /\ p.reset = 0
      BY <1>2, <3>1 DEF Rests
    <3> QED
      BY <1>1, <3>1, <3>2, CheckFlagRests
  <2>2. pc' = "ended"
    BY <1>4, <2>1 DEF PlayFlags, WaitFlags, Rests
  <2> QED
    BY <2>1, <2>2 DEF StepsToExit
<1>5. CASE ExitFlag
  <2>1. pc = "ended" /\ pc' = "release"
    BY <1>2, <1>5 DEF ExitFlag, Rests
  <2> QED
    BY <2>1 DEF StepsToExit
<1>6. CASE Release \/ FinalState \/ Exit
  <2>1. \/ pc = "release" /\ pc' = "final"
        \/ pc = "final" /\ pc' = "shown"
        \/ pc = "shown" /\ pc' = "exited"
    BY <1>6 DEF Release, FinalState, Exit, Goto
  <2> QED
    BY <2>1 DEF StepsToExit
<1> QED
  BY <1>3, <1>4, <1>5, <1>6 DEF ThreadGoes, PlayLoop, Finish

\* player_stop's wait is for a thread that is on its way: once it has taken STOP it
\* exits after at most five more of its steps, and nothing the mate, the application
\* or another stop does in between brings it back or makes it longer.
THEOREM StopBounds ==
  ASSUME "decoder" \notin Trouble, "late_mate" \notin Trouble \/ "LOOP" \notin Sent
  PROVE  Spec => [][ExitNears]_vars
<1>1. Init => SInv /\ NoSecondLook
  BY DEF Init, SInv, ResetOnItsWay, StopTaken, MateInRead, Sendable, NoSecondLook
<1>2. TypeOK /\ SInv /\ NoSecondLook /\ [Next]_vars => SInv' /\ NoSecondLook'
  BY StopSettles, SecondLookStep DEF Settled
<1>3. TypeOK /\ SInv /\ NoSecondLook /\ [Next]_vars => [ExitNears]_vars
  <2> SUFFICES ASSUME TypeOK, SInv, NoSecondLook, Next, p.request_end = 1
               PROVE  IF ThreadGoes THEN StepsToExit' < StepsToExit
                      ELSE StepsToExit' = StepsToExit
    BY DEF ExitNears
  <2>1. CASE ThreadGoes
    BY <2>1, ThreadNears DEF SInv
  <2>2. CASE ~ ThreadGoes
    <3>1. pc' = pc
      BY <2>2, MateSteps DEF ThreadGoes, Next, Send, StopCall, StopCalled, Interrupt,
         SendStop, Join,
                  ClearMessage, StopReturn, ThreadSide
    <3> QED
      BY <2>2, <3>1 DEF StepsToExit
  <2> QED
    BY <2>1, <2>2
<1> QED
  BY <1>1, <1>2, <1>3, TypeCorrect, PTL DEF Spec

\* With no step left it has exited, and player_thread_wait_exit returns.
THEOREM StopEnds ==
  ASSUME "decoder" \notin Trouble, "late_mate" \notin Trouble \/ "LOOP" \notin Sent
  PROVE  Spec => [](StepsToExit \in 0 .. 5
                    /\ (p.request_end = 1 /\ StepsToExit = 0 => pc = "exited"))
<1>1. Init => SInv /\ NoSecondLook
  BY DEF Init, SInv, ResetOnItsWay, StopTaken, MateInRead, Sendable, NoSecondLook
<1>2. TypeOK /\ SInv /\ NoSecondLook /\ [Next]_vars => SInv' /\ NoSecondLook'
  BY StopSettles, SecondLookStep DEF Settled
<1>3. SInv /\ NoSecondLook => /\ StepsToExit \in 0 .. 5
                              /\ p.request_end = 1 /\ StepsToExit = 0 => pc = "exited"
  BY DEF SInv, StopTaken, NoSecondLook, Over, Ending, StepsToExit
<1> QED
  BY <1>1, <1>2, <1>3, TypeCorrect, PTL DEF Spec
=============================================================================
