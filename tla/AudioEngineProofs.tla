--------------------------- MODULE AudioEngineProofs ---------------------------
(***************************************************************************)
(* Proofs about AudioEngine, for every pool, any number of messages and    *)
(* changes of format, and whatever the devices answer.                     *)
(*                                                                         *)
(* What an engine holds follows from its state and from the place of the   *)
(* message loop: Held says of the source, Threads of the decode thread,    *)
(* Sound of the track.  That the loop ends with none of them follows from  *)
(* the order of STOP and RELEASE in the pool (Order), as long as the pool  *)
(* has not discarded one of the two; about the track, as long as the two   *)
(* threads were not at the output at once.                                 *)
(*                                                                         *)
(* The last section bounds what audio_decode_release waits for, but for the *)
(* devices.                                                                *)
(***************************************************************************)
EXTENDS AudioEngine, TLAPS

Up      == state \in {"INITTED", "ACTIVE", "PAUSED"}
Opening == {"init", "open", "set_err", "format", "aout", "undo", "undo_join"}
Closing == {"stop_output", "release", "join"}
Ended   == {"none", "exit"}
P       == Place(loop, loop_call)

\* A call is on record while its thread is in it, and only then; what it has
\* read is live while there is a track.
Calls ==
  /\ loop = "call" <=> loop_call.next # "none"
  /\ decode = "call" <=> decode_call.next # "none"
  /\ loop_call.next = "none" => loop_call.ptr = "null"
  /\ decode_call.next = "none" => decode_call.ptr = "null"
  /\ "live" \in {loop_call.ptr, decode_call.ptr} => track # "none"
  /\ loop_call.next = "release" => loop_call.op = "stop"

\* Where the loop is tells the state.
States ==
  /\ P = "none" <=> player = "idle"
  /\ P \in Opening => state \in {"IDLE", "INITING"}
  /\ P \in {"first_pts", "start_wait", "start_output", "resume_clock"} => state = "ACTIVE"
  /\ P \in Closing => state = "STOPPED"
  /\ P \in Ended => state \in {"IDLE", "TERMINATED"}
  /\ P \in {"set_err", "undo_join", "join", "lock", "grab", "unlock"} => kind # "ARC"

\* The clock that got the last event is what the state says, but on the way into
\* ACTIVE.
Clock ==
  P \notin {"first_pts", "start_wait", "resume_clock"} /\ heard =>
    /\ state = "ACTIVE" => clock = "run"
    /\ state = "PAUSED" => clock = "paused"

\* When the source is open.
Held ==
  /\ P \notin Ended =>
       (source = "open" <=> Up \/ P \in (Opening \ {"init", "open", "set_err"}) \cup Closing)
  /\ P \in Ended /\ lost = {} => source # "open"
  /\ kind # "ARC" => source \in {"closed", "open"}

\* When there is a decode thread.
Threads ==
  /\ Decoding => source = "open"
  /\ decode # "none" =>
       /\ kind # "ARC"
       /\ \/ state \in {"ACTIVE", "PAUSED"}
          \/ P \in Closing
          \/ P \in Ended /\ lost # {}

\* Unless they have met, one thread at most is at the output, and there is a
\* track only for an engine that is up or is being stopped.
Sound ==
  ~ met =>
    /\ ~ (LoopAtOutput /\ DecodeAtOutput)
    /\ track # "none" => \/ Up
                         \/ P = "stop_output"
                         \/ P = "release" /\ loop = "call"
                         \/ P \in Ended /\ lost # {}
    /\ P = "release" /\ loop = "call" /\ loop_call.ptr = "null"
         => track = "none"

\* A STOP will be taken from the pool before any RELEASE.
StopFirst(q) ==
  \E i \in 1 .. Len(q) : q[i] = "STOP" /\ \A j \in 1 .. i : q[j] # "RELEASE"

NoRelease(q) == \A i \in 1 .. Len(q) : q[i] # "RELEASE"

Order ==
  /\ player \notin {"idle", "joining"} => NoRelease(queue) /\ P \notin Ended
  /\ player \in {"releasing", "joining"} /\ lost = {} /\ (Up \/ P \in Opening)
       => P \in {"lock", "grab"} \/ StopFirst(queue)

QueueOK == queue \in Seq(Command) /\ Len(queue) <= MESSAGE_NUM_MAX

Shape == Calls /\ States /\ Clock /\ Held /\ Threads /\ Sound
IInv  == TypeOK /\ Shape /\ Order
-----------------------------------------------------------------------------
\* A send keeps the pool within its size.
LEMMA PutType ==
  ASSUME QueueOK, NEW c \in Command, Pool!Put(c)
  PROVE  QueueOK'
<1>1. MESSAGE_NUM_MAX \in Nat \ {0}
  BY EngineAssumption
<1>2. CASE Len(queue) < MESSAGE_NUM_MAX
  BY <1>1, <1>2 DEF QueueOK, Pool!Put
<1>3. CASE Len(queue) >= MESSAGE_NUM_MAX
  BY <1>1, <1>3 DEF QueueOK, Pool!Put
<1> QED
  BY <1>1, <1>2, <1>3 DEF QueueOK

\* So does adec_get_message.
LEMMA TakeType == QueueOK /\ Pool!Take => QueueOK'
  BY EngineAssumption DEF QueueOK, Pool!Take

\* Every step of the player, the callback and the threads keeps the types.
LEMMA TypeNext == TypeOK /\ [Next]_vars => TypeOK'
<1> SUFFICES ASSUME TypeOK, [Next]_vars PROVE TypeOK'
  OBVIOUS
<1> USE DEF TypeOK, audec, threads, tsync, statics, counts, LoopNever, LoopLeaves,
     DecodeLeaves,
            Go, LoopPlace, DecodePlace, CallTo, NoCall
<1>1. CASE Create
  <2>1. /\ need_stop' \in BOOLEAN /\ auto_mute' \in BOOLEAN /\ met' \in BOOLEAN
        /\ exit_decode_thread' \in BOOLEAN /\ aout_stop_mutex' \in BOOLEAN
    BY <1>1, Zenon DEF Create
  <2>2. QueueOK'
    BY <1>1, EngineAssumption DEF Create, QueueOK
  <2>3. sent' \in 0 .. MaxSends /\ changes' \in 0 .. MaxChanges
    BY <1>1, EngineAssumption DEF Create
  <2> QED
    BY <1>1, <2>1, <2>2, <2>3 DEF Create, QueueOK
<1>2. CASE Start
  <2>1. QueueOK'
    BY <1>2, PutType DEF Start, Send, QueueOK, Command
  <2>2. lost' \subseteq {"STOP", "RELEASE"}
    BY <1>2 DEF Start, Send
  <2> QED
    BY <1>2, <2>1, <2>2 DEF Start, Send, QueueOK
<1>3. CASE PauseOrResume
  <2>1. QueueOK'
    BY <1>3, PutType DEF PauseOrResume, Send, QueueOK, Command
  <2>2. lost' \subseteq {"STOP", "RELEASE"}
    BY <1>3 DEF PauseOrResume, Send
  <2>3. sent' \in 0 .. MaxSends
    BY <1>3, EngineAssumption DEF PauseOrResume
  <2> QED
    BY <1>3, <2>1, <2>2, <2>3 DEF PauseOrResume, Send, QueueOK
<1>4. CASE Automute
  BY <1>4 DEF Automute
<1>5. CASE Mute
  <2>1. QueueOK'
    BY <1>5, PutType DEF Mute, Send, QueueOK, Command
  <2>2. lost' \subseteq {"STOP", "RELEASE"}
    BY <1>5 DEF Mute, Send
  <2>3. sent' \in 0 .. MaxSends
    BY <1>5, EngineAssumption DEF Mute
  <2> QED
    BY <1>5, <2>1, <2>2, <2>3 DEF Mute, Send, QueueOK
<1>6. CASE StopFlag
  BY <1>6 DEF StopFlag
<1>7. CASE StopSend
  <2>1. QueueOK'
    BY <1>7, PutType DEF StopSend, Send, QueueOK, Command
  <2>2. lost' \subseteq {"STOP", "RELEASE"}
    BY <1>7 DEF StopSend, Send
  <2> QED
    BY <1>7, <2>1, <2>2 DEF StopSend, Send, QueueOK
<1>8. CASE ReleaseSend
  <2>1. QueueOK'
    BY <1>8, PutType DEF ReleaseSend, Send, QueueOK, Command
  <2>2. lost' \subseteq {"STOP", "RELEASE"}
    BY <1>8 DEF ReleaseSend, Send
  <2> QED
    BY <1>8, <2>1, <2>2 DEF ReleaseSend, Send, QueueOK
<1>9. CASE Join
  BY <1>9 DEF Join
<1>10. CASE Callback
  BY <1>10 DEF Callback
<1>11. CASE InitTest
  BY <1>11 DEF InitTest
<1>12. CASE OpenDsp
  BY <1>12 DEF OpenDsp
<1>13. CASE StartDsp
  BY <1>13 DEF StartDsp
<1>14. CASE ResetCodec \/ OpenCodec
  <2>1. CASE ResetCodec
    <3>1. exit_decode_thread' \in BOOLEAN /\ aout_stop_mutex' \in BOOLEAN
      BY <2>1, Zenon DEF ResetCodec
    <3> QED
      BY <2>1, <3>1 DEF ResetCodec
  <2>2. CASE OpenCodec
    BY <2>2 DEF OpenCodec
  <2> QED
    BY <1>14, <2>1, <2>2
<1>15. CASE OpenOutput
  BY <1>15 DEF OpenOutput
<1>16. CASE Undo
  <2>1. CASE CloseDsp("undo", "init")
    BY <1>16, <2>1 DEF CloseDsp
  <2>2. CASE AskDecodeExit("undo", "undo_join")
    <3>1. exit_decode_thread' \in BOOLEAN
      BY <2>2, Zenon DEF AskDecodeExit
    <3> QED
      BY <2>2, <3>1 DEF AskDecodeExit
  <2>3. CASE CloseCodec("undo_join", "init")
    <3>1. exit_decode_thread' \in BOOLEAN
      BY <2>3, Zenon DEF CloseCodec
    <3> QED
      BY <2>3, <3>1 DEF CloseCodec
  <2> QED
    BY <1>16, <2>1, <2>2, <2>3 DEF Undo
<1>17. CASE FlagCheck
  BY <1>17 DEF FlagCheck, Enter
<1>18. CASE FlagWaitEnds
  BY <1>18 DEF FlagWaitEnds, Enter
<1>19. CASE FlagClear
  <2>1. auto_mute' \in BOOLEAN
    BY <1>19, Zenon DEF FlagClear
  <2> QED
    BY <1>19, <2>1 DEF FlagClear
<1>20. CASE NoMessage
  BY <1>20 DEF NoMessage, LoopGoes
<1>21. CASE Ignored
  <2>1. QueueOK'
    BY <1>21, TakeType DEF Ignored, Get, QueueOK
  <2> QED
    BY <1>21, <2>1 DEF Ignored, QueueOK
<1>22. CASE DoStart
  <2>1. QueueOK'
    BY <1>22, TakeType DEF DoStart, Get, QueueOK
  <2> QED
    BY <1>22, <2>1 DEF DoStart, QueueOK
<1>23. CASE FirstPts
  <2>1. heard' \in BOOLEAN
    BY <1>23, Zenon DEF FirstPts, Tell
  <2>2. clock' \in {"off", "run", "paused"}
    BY <1>23 DEF FirstPts, Tell
  <2>3. loop' \in LoopPlace
    BY <1>23 DEF FirstPts
  <2> QED
    BY <1>23, <2>1, <2>2, <2>3 DEF FirstPts
<1>24. CASE StartWaitEnds
  <2>1. auto_mute' \in BOOLEAN
    BY <1>24, Zenon DEF StartWaitEnds
  <2> QED
    BY <1>24, <2>1 DEF StartWaitEnds, Tell
<1>25. CASE StartOutput
  BY <1>25 DEF StartOutput, Enter
<1>26. CASE DoPause
  <2>1. QueueOK'
    BY <1>26, TakeType DEF DoPause, Get, QueueOK
  <2> QED
    BY <1>26, <2>1 DEF DoPause, QueueOK, Enter, Tell
<1>27. CASE DoResume
  <2>1. QueueOK'
    BY <1>27, TakeType DEF DoResume, Get, QueueOK
  <2> QED
    BY <1>27, <2>1 DEF DoResume, QueueOK, Enter
<1>28. CASE ResumeClock
  BY <1>28 DEF ResumeClock, Tell
<1>29. CASE DoMute
  <2>1. QueueOK'
    BY <1>29, TakeType DEF DoMute, Get, QueueOK
  <2> QED
    BY <1>29, <2>1 DEF DoMute, QueueOK, Enter
<1>30. CASE DoRelease
  <2>1. QueueOK'
    BY <1>30, TakeType DEF DoRelease, Get, QueueOK
  <2> QED
    BY <1>30, <2>1 DEF DoRelease, QueueOK
<1>31. CASE DoStop
  <2>1. QueueOK'
    BY <1>31, TakeType DEF DoStop, Get, QueueOK
  <2> QED
    BY <1>31, <2>1 DEF DoStop, QueueOK, StopAdec, Enter
<1>32. CASE DoStopLocked
  <2>1. QueueOK'
    BY <1>32, TakeType DEF DoStopLocked, Get, QueueOK
  <2> QED
    BY <1>32, <2>1 DEF DoStopLocked, QueueOK
<1>33. CASE LockTest
  BY <1>33 DEF LockTest, LoopGoes
<1>34. CASE Grab
  BY <1>34 DEF Grab, StopAdec, Enter
<1>35. CASE StopOutput
  BY <1>35 DEF StopOutput, Enter
<1>36. CASE StopSource
  <2>1. CASE CloseDsp("release", "check")
    BY <1>36, <2>1 DEF CloseDsp
  <2>2. CASE AskDecodeExit("release", "join")
    <3>1. exit_decode_thread' \in BOOLEAN
      BY <2>2, Zenon DEF AskDecodeExit
    <3> QED
      BY <2>2, <3>1 DEF AskDecodeExit
  <2>3. CASE CloseCodec("join", "unlock")
    <3>1. exit_decode_thread' \in BOOLEAN
      BY <2>3, Zenon DEF CloseCodec
    <3> QED
      BY <2>3, <3>1 DEF CloseCodec
  <2> QED
    BY <1>36, <2>1, <2>2, <2>3 DEF StopSource
<1>37. CASE Unlock
  <2>1. aout_stop_mutex' \in BOOLEAN
    BY <1>37, Zenon DEF Unlock
  <2> QED
    BY <1>37, <2>1 DEF Unlock
<1>38. CASE DecodeTest
  BY <1>38 DEF DecodeTest
<1>39. CASE SameInfo
  BY <1>39 DEF SameInfo, Input
<1>40. CASE NewInfo
  <2>1. changes' \in 0 .. MaxChanges
    BY <1>40, EngineAssumption DEF NewInfo
  <2> QED
    BY <1>40, <2>1 DEF NewInfo
<1>41. CASE Take
  BY <1>41 DEF Take, Enter
<1>42. CASE Reinit
  BY <1>42 DEF Reinit
<1>43. CASE Restart
  BY <1>43 DEF Restart, Enter
<1>44. CASE Done
  <2>1. aout_stop_mutex' \in BOOLEAN
    BY <1>44, Zenon DEF Done
  <2> QED
    BY <1>44, <2>1 DEF Done, Input
<1>45. CASE Scan
  BY <1>45 DEF Scan
<1>46. CASE CodeFound
  BY <1>46 DEF CodeFound
<1>47. CASE Decode
  BY <1>47 DEF Decode
<1>48. CASE LoopReturns
  BY <1>48 DEF LoopReturns, Return, Effect
<1>49. CASE DecodeReturns
  BY <1>49 DEF DecodeReturns, Return, Effect
<1>50. CASE UNCHANGED vars
  BY <1>50 DEF vars
<1> QED
  BY <1>1, <1>2, <1>3, <1>4, <1>5, <1>6, <1>7, <1>8, <1>9, <1>10, <1>11, <1>12, <1>13,
     <1>14, <1>15, <1>16, <1>17, <1>18, <1>19, <1>20, <1>21, <1>22, <1>23, <1>24, <1>25,
     <1>26, <1>27, <1>28, <1>29, <1>30, <1>31, <1>32, <1>33, <1>34, <1>35, <1>36, <1>37,
     <1>38, <1>39, <1>40, <1>41, <1>42, <1>43, <1>44, <1>45, <1>46, <1>47, <1>48, <1>49,
     <1>50 DEF Next, PlayerNext, PlayerFair, LoopNext,
     LoopFair, LoopWaitEnds, DecodeNext, DecodeFair
-----------------------------------------------------------------------------
\* ... and the agreement of state, track, source, clock and places (Shape).
LEMMA ShapeNext == IInv /\ [Next]_vars => Shape'
<1> SUFFICES ASSUME IInv, [Next]_vars PROVE Shape'
  OBVIOUS
<1> USE DEF IInv, Shape, TypeOK, Calls, States, Clock, Held, Threads, Sound, Up, Opening,
            Closing, Ended, P, Place, Decoding, LoopAtOutput, DecodeAtOutput,
            audec, threads, tsync, statics, counts, LoopNever, LoopLeaves, DecodeLeaves, Go,
            LoopPlace, DecodePlace, CallTo, NoCall
<1>1. CASE Create
  BY <1>1 DEF Create
<1>2. CASE Start
  BY <1>2 DEF Start, Send
<1>3. CASE PauseOrResume
  BY <1>3 DEF PauseOrResume, Send
<1>4. CASE Automute
  BY <1>4 DEF Automute
<1>5. CASE Mute
  BY <1>5 DEF Mute, Send
<1>6. CASE StopFlag
  BY <1>6 DEF StopFlag
<1>7. CASE StopSend
  BY <1>7 DEF StopSend, Send
<1>8. CASE ReleaseSend
  BY <1>8 DEF ReleaseSend, Send
<1>9. CASE Join
  BY <1>9 DEF Join
<1>10. CASE Callback
  BY <1>10 DEF Callback
<1>11. CASE InitTest
  BY <1>11 DEF InitTest
<1>12. CASE OpenDsp
  BY <1>12 DEF OpenDsp
<1>13. CASE StartDsp
  BY <1>13 DEF StartDsp
<1>14. CASE ResetCodec \/ OpenCodec
  BY <1>14 DEF ResetCodec, OpenCodec
<1>15. CASE OpenOutput
  BY <1>15 DEF OpenOutput
<1>16. CASE Undo
  BY <1>16 DEF Undo, CloseDsp, AskDecodeExit, CloseCodec
<1>17. CASE FlagCheck
  BY <1>17 DEF FlagCheck, Enter
<1>18. CASE FlagWaitEnds
  BY <1>18 DEF FlagWaitEnds, Enter
<1>19. CASE FlagClear
  BY <1>19 DEF FlagClear
<1>20. CASE NoMessage
  BY <1>20 DEF NoMessage, LoopGoes
<1>21. CASE Ignored
  BY <1>21 DEF Ignored, Get
<1>22. CASE DoStart
  BY <1>22 DEF DoStart, Get
<1>23. CASE FirstPts
  BY <1>23 DEF FirstPts, Tell
<1>24. CASE StartWaitEnds
  BY <1>24 DEF StartWaitEnds, Tell
<1>25. CASE StartOutput
  BY <1>25 DEF StartOutput, Enter
<1>26. CASE DoPause
  BY <1>26 DEF DoPause, Get, Enter, Tell
<1>27. CASE DoResume
  BY <1>27 DEF DoResume, Get, Enter
<1>28. CASE ResumeClock
  BY <1>28 DEF ResumeClock, Tell
<1>29. CASE DoMute
  BY <1>29 DEF DoMute, Get, Enter
<1>30. CASE DoRelease
  <2>1. queue # << >> /\ queue[1] = "RELEASE" /\ 1 \in 1 .. Len(queue) /\ loop = "get"
    BY <1>30 DEF DoRelease, Get, Pool!Take
  <2>2. player = "joining"
    BY <2>1 DEF Order, NoRelease
  <2>3. ~ StopFirst(queue)
    BY <2>1 DEF StopFirst
  <2>4. lost = {} => ~ Up
    BY <2>1, <2>2, <2>3 DEF Order
  <2> QED
    BY <1>30, <2>1, <2>2, <2>4 DEF DoRelease, Get
<1>31. CASE DoStop
  BY <1>31 DEF DoStop, Get, StopAdec, Enter
<1>32. CASE DoStopLocked
  BY <1>32 DEF DoStopLocked, Get
<1>33. CASE LockTest
  BY <1>33 DEF LockTest, LoopGoes
<1>34. CASE Grab
  <2>1. Calls'
    BY <1>34 DEF Grab, StopAdec, Enter
  <2>2. States'
    BY <1>34 DEF Grab, StopAdec, Enter
  <2>3. Clock'
    BY <1>34 DEF Grab, StopAdec, Enter
  <2>4. Held'
    BY <1>34 DEF Grab, StopAdec, Enter
  <2>5. Threads'
    BY <1>34 DEF Grab, StopAdec, Enter
  <2>6. Sound'
    <3> SUFFICES ASSUME ~ met' PROVE Sound'
      BY DEF Sound
    <3>1. ~ met /\ ~ DecodeAtOutput
      BY <1>34, Zenon DEF Grab
    <3>2. ~ DecodeAtOutput'
      BY <1>34, <3>1 DEF Grab
    <3>3. CASE Up
      BY <1>34, <3>1, <3>2, <3>3 DEF Grab, StopAdec, Enter
    <3>4. CASE ~ Up
      BY <1>34, <3>1, <3>2, <3>4 DEF Grab
    <3> QED
      BY <3>3, <3>4
  <2> QED
    BY <2>1, <2>2, <2>3, <2>4, <2>5, <2>6
<1>35. CASE StopOutput
  BY <1>35 DEF StopOutput, Enter
<1>36. CASE StopSource
  BY <1>36 DEF StopSource, CloseDsp, AskDecodeExit, CloseCodec
<1>37. CASE Unlock
  BY <1>37 DEF Unlock
<1>38. CASE DecodeTest
  BY <1>38 DEF DecodeTest
<1>39. CASE SameInfo
  BY <1>39 DEF SameInfo, Input
<1>40. CASE NewInfo
  BY <1>40 DEF NewInfo
<1>41. CASE Take
  <2>1. Calls'
    BY <1>41 DEF Take, Enter
  <2>2. States'
    BY <1>41 DEF Take, Enter
  <2>3. Clock'
    BY <1>41 DEF Take, Enter
  <2>4. Held'
    BY <1>41 DEF Take, Enter
  <2>5. Threads'
    BY <1>41 DEF Take, Enter
  <2>6. Sound'
    <3>1. met' = (met \/ LoopAtOutput)
      BY <1>41, Zenon DEF Take
    <3>2. UNCHANGED << loop, loop_call, kind, state, track, lost >>
      BY <1>41 DEF Take, Enter
    <3>3. ~ met' => ~ met /\ ~ LoopAtOutput /\ ~ LoopAtOutput'
      BY <3>1, <3>2
    <3> QED
      BY <3>2, <3>3
  <2> QED
    BY <2>1, <2>2, <2>3, <2>4, <2>5, <2>6
<1>42. CASE Reinit
  BY <1>42 DEF Reinit
<1>43. CASE Restart
  BY <1>43 DEF Restart, Enter
<1>44. CASE Done
  BY <1>44 DEF Done, Input
<1>45. CASE Scan
  BY <1>45 DEF Scan
<1>46. CASE CodeFound
  BY <1>46 DEF CodeFound
<1>47. CASE Decode
  BY <1>47 DEF Decode
<1>48. CASE LoopReturns
  <2>1. Calls'
    BY <1>48 DEF LoopReturns, Return, Effect
  <2>2. States'
    BY <1>48 DEF LoopReturns, Return, Effect
  <2>3. Clock'
    BY <1>48 DEF LoopReturns, Return, Effect
  <2>4. Held'
    BY <1>48 DEF LoopReturns, Return, Effect
  <2>5. Threads'
    BY <1>48 DEF LoopReturns, Return, Effect
  <2>6. Sound'
    <3> SUFFICES ASSUME ~ met' PROVE Sound'
      BY DEF Sound
    <3>1. ~ met /\ loop_call.ptr # "stale"
      BY <1>48, Zenon DEF LoopReturns, Return
    <3>2. /\ loop = "call" /\ loop' = loop_call.next /\ loop' # "call"
          /\ state' = state /\ kind' = kind /\ lost' = lost
          /\ decode' = decode /\ decode_call'.next = decode_call.next
      BY <1>48 DEF LoopReturns, Return
    <3>3. P' = P /\ DecodeAtOutput' = DecodeAtOutput
      BY <3>2
    <3>4. track' # "none" => track # "none" /\ P # "release"
      BY <1>48, <3>1, <3>2 DEF LoopReturns, Return, Effect
    <3> QED
      BY <3>1, <3>2, <3>3, <3>4
  <2> QED
    BY <2>1, <2>2, <2>3, <2>4, <2>5, <2>6
<1>49. CASE DecodeReturns
  BY <1>49 DEF DecodeReturns, Return, Effect
<1>50. CASE UNCHANGED vars
  BY <1>50 DEF vars
<1> QED
  BY <1>1, <1>2, <1>3, <1>4, <1>5, <1>6, <1>7, <1>8, <1>9, <1>10, <1>11, <1>12, <1>13,
     <1>14, <1>15, <1>16, <1>17, <1>18, <1>19, <1>20, <1>21, <1>22, <1>23, <1>24, <1>25,
     <1>26, <1>27, <1>28, <1>29, <1>30, <1>31, <1>32, <1>33, <1>34, <1>35, <1>36, <1>37,
     <1>38, <1>39, <1>40, <1>41, <1>42, <1>43, <1>44, <1>45, <1>46, <1>47, <1>48, <1>49,
     <1>50 DEF Next, PlayerNext, PlayerFair, LoopNext,
     LoopFair, LoopWaitEnds, DecodeNext, DecodeFair
-----------------------------------------------------------------------------
(* STOP stays before any RELEASE while commands come and go.               *)

\* A message other than RELEASE adds none.
LEMMA AppendNoRelease ==
  ASSUME NEW q \in Seq(Command), NEW c \in Command, c # "RELEASE", NoRelease(q)
  PROVE  NoRelease(Append(q, c))
  BY DEF NoRelease

\* STOP is sent into a pool with no RELEASE yet.
LEMMA AppendStop ==
  ASSUME NEW q \in Seq(Command), NoRelease(q)
  PROVE  StopFirst(Append(q, "STOP"))
<1> DEFINE i == Len(q) + 1
           r == Append(q, "STOP")
<1>1. i \in 1 .. Len(r) /\ r[i] = "STOP"
  OBVIOUS
<1>2. \A j \in 1 .. i : r[j] # "RELEASE"
  BY DEF NoRelease
<1> QED
  BY <1>1, <1>2 DEF StopFirst

\* What is sent behind a STOP leaves it before any RELEASE.
LEMMA AppendKeeps ==
  ASSUME NEW q \in Seq(Command), NEW c \in Command, StopFirst(q)
  PROVE  StopFirst(Append(q, c))
<1>1. PICK i \in 1 .. Len(q) : q[i] = "STOP" /\ \A j \in 1 .. i : q[j] # "RELEASE"
  BY DEF StopFirst
<1> DEFINE r == Append(q, c)
<1>2. i \in 1 .. Len(r) /\ \A j \in 1 .. i : r[j] = q[j]
  OBVIOUS
<1>3. r[i] = "STOP" /\ \A j \in 1 .. i : r[j] # "RELEASE"
  BY <1>1, <1>2
<1> QED
  BY <1>2, <1>3 DEF StopFirst

\* The oldest message may go: no RELEASE appears ...
LEMMA TailNoRelease ==
  ASSUME NEW q \in Seq(Command), q # << >>, NoRelease(q)
  PROVE  NoRelease(Tail(q))
  BY DEF NoRelease

\* ... and, if it was not STOP, STOP stays before any RELEASE.
LEMMA TailKeeps ==
  ASSUME NEW q \in Seq(Command), q # << >>, Head(q) # "STOP", StopFirst(q)
  PROVE  StopFirst(Tail(q))
<1>1. PICK i \in 1 .. Len(q) : q[i] = "STOP" /\ \A j \in 1 .. i : q[j] # "RELEASE"
  BY DEF StopFirst
<1> DEFINE r == Tail(q)
<1>2. i # 1
  BY <1>1
<1>3. i - 1 \in 1 .. Len(r) /\ \A j \in 1 .. i - 1 : r[j] = q[j + 1]
  BY <1>2
<1>4. r[i - 1] = "STOP" /\ \A j \in 1 .. i - 1 : r[j] # "RELEASE"
  BY <1>1, <1>3
<1> QED
  BY <1>3, <1>4 DEF StopFirst

\* What a send does to the queue, and what a look at the pool does.
LEMMA SendOrder ==
  ASSUME QueueOK, NEW c \in Command, Send(c)
  PROVE  /\ c # "RELEASE" /\ NoRelease(queue) => NoRelease(queue')
         /\ c = "STOP" /\ NoRelease(queue) => StopFirst(queue')
         /\ lost' = {} => lost = {}
         /\ lost' = {} /\ StopFirst(queue) => StopFirst(queue')
<1>1. CASE Len(queue) < MESSAGE_NUM_MAX
  <2>1. queue' = Append(queue, c) /\ lost' = lost
    BY <1>1 DEF Send, Pool!Put
  <2> QED
    BY <2>1, AppendNoRelease, AppendStop, AppendKeeps DEF QueueOK
<1>2. CASE ~ (Len(queue) < MESSAGE_NUM_MAX)
  <2>1. /\ queue # << >> /\ Tail(queue) \in Seq(Command)
        /\ queue' = Append(Tail(queue), c)
        /\ lost' = lost \cup ({Head(queue)} \cap {"STOP", "RELEASE"})
    BY <1>2, EngineAssumption DEF Send, Pool!Put, QueueOK
  <2>2. lost' = {} => lost = {} /\ Head(queue) # "STOP"
    BY <2>1
  <2> QED
    BY <2>1, <2>2, TailNoRelease, TailKeeps, AppendNoRelease, AppendStop, AppendKeeps
       DEF QueueOK
<1> QED
  BY <1>1, <1>2

\* The same for adec_get_message.
LEMMA TakeOrder ==
  ASSUME QueueOK, Pool!Take
  PROVE  /\ NoRelease(queue) => NoRelease(queue')
         /\ Head(queue) # "STOP" /\ StopFirst(queue) => StopFirst(queue')
  BY TailNoRelease, TailKeeps DEF QueueOK, Pool!Take

\* Every step keeps the order of STOP and RELEASE, and with it that RELEASE
\* is handled by an engine that was stopped.
LEMMA OrderNext == IInv /\ [Next]_vars => Order'
<1> SUFFICES ASSUME IInv, [Next]_vars PROVE Order'
  OBVIOUS
<1>0. QueueOK
  BY DEF IInv, TypeOK, QueueOK
<1> USE DEF Order, Shape, States, Up, Opening, Ended, P, Place, IInv,
            audec, threads, tsync, statics, counts, LoopNever, LoopLeaves, DecodeLeaves, Go,
            NoCall
<1>1. CASE Create
  BY <1>1 DEF Create, NoRelease, StopFirst
<1>2. CASE Start
  BY <1>2, <1>0, SendOrder DEF Start, Send, Command
<1>3. CASE PauseOrResume
  BY <1>3, <1>0, SendOrder DEF PauseOrResume, Send, Command
<1>4. CASE Automute
  BY <1>4 DEF Automute
<1>5. CASE Mute
  BY <1>5, <1>0, SendOrder DEF Mute, Send, Command
<1>6. CASE StopFlag
  BY <1>6 DEF StopFlag
<1>7. CASE StopSend
  BY <1>7, <1>0, SendOrder DEF StopSend, Send, Command
<1>8. CASE ReleaseSend
  BY <1>8, <1>0, SendOrder DEF ReleaseSend, Send, Command
<1>9. CASE Join
  BY <1>9 DEF Join
<1>10. CASE Callback
  BY <1>10 DEF Callback
<1>11. CASE InitTest
  BY <1>11 DEF InitTest
<1>12. CASE OpenDsp
  BY <1>12 DEF OpenDsp
<1>13. CASE StartDsp
  BY <1>13 DEF StartDsp
<1>14. CASE ResetCodec \/ OpenCodec
  BY <1>14 DEF ResetCodec, OpenCodec
<1>15. CASE OpenOutput
  BY <1>15 DEF OpenOutput
<1>16. CASE Undo
  BY <1>16 DEF Undo, CloseDsp, AskDecodeExit, CloseCodec
<1>17. CASE FlagCheck
  BY <1>17 DEF FlagCheck, Enter
<1>18. CASE FlagWaitEnds
  BY <1>18 DEF FlagWaitEnds, Enter
<1>19. CASE FlagClear
  BY <1>19 DEF FlagClear
<1>20. CASE NoMessage
  BY <1>20 DEF NoMessage, LoopGoes
<1>21. CASE Ignored
  BY <1>21, <1>0, TakeOrder DEF Ignored, Get
<1>22. CASE DoStart
  BY <1>22, <1>0, TakeOrder DEF DoStart, Get
<1>23. CASE FirstPts
  BY <1>23 DEF FirstPts, Tell
<1>24. CASE StartWaitEnds
  BY <1>24 DEF StartWaitEnds, Tell
<1>25. CASE StartOutput
  BY <1>25 DEF StartOutput, Enter
<1>26. CASE DoPause
  BY <1>26, <1>0, TakeOrder DEF DoPause, Get, Enter, Tell
<1>27. CASE DoResume
  BY <1>27, <1>0, TakeOrder DEF DoResume, Get, Enter
<1>28. CASE ResumeClock
  BY <1>28 DEF ResumeClock, Tell
<1>29. CASE DoMute
  BY <1>29, <1>0, TakeOrder DEF DoMute, Get, Enter
<1>30. CASE DoRelease
  <2>1. queue[1] = "RELEASE" /\ 1 \in 1 .. Len(queue) /\ loop = "get"
    BY <1>30, <1>0 DEF DoRelease, Get, Pool!Take, QueueOK
  <2>2. player = "joining"
    BY <2>1 DEF NoRelease
  <2> QED
    BY <1>30, <2>2 DEF DoRelease, Get
<1>31. CASE DoStop
  BY <1>31, <1>0, TakeOrder DEF DoStop, Get, StopAdec, Enter
<1>32. CASE DoStopLocked
  BY <1>32, <1>0, TakeOrder DEF DoStopLocked, Get
<1>33. CASE LockTest
  BY <1>33 DEF LockTest, LoopGoes
<1>34. CASE Grab
  BY <1>34 DEF Grab, StopAdec, Enter
<1>35. CASE StopOutput
  BY <1>35 DEF StopOutput, Enter
<1>36. CASE StopSource
  BY <1>36 DEF StopSource, CloseDsp, AskDecodeExit, CloseCodec
<1>37. CASE Unlock
  BY <1>37 DEF Unlock
<1>38. CASE DecodeTest
  BY <1>38 DEF DecodeTest
<1>39. CASE SameInfo
  BY <1>39 DEF SameInfo, Input
<1>40. CASE NewInfo
  BY <1>40 DEF NewInfo
<1>41. CASE Take
  BY <1>41 DEF Take, Enter
<1>42. CASE Reinit
  BY <1>42 DEF Reinit
<1>43. CASE Restart
  BY <1>43 DEF Restart, Enter
<1>44. CASE Done
  BY <1>44 DEF Done, Input
<1>45. CASE Scan
  BY <1>45 DEF Scan
<1>46. CASE CodeFound
  BY <1>46 DEF CodeFound
<1>47. CASE Decode
  BY <1>47 DEF Decode
<1>48. CASE LoopReturns
  <2>1. loop = "call" /\ loop' = loop_call.next /\ loop' # "call"
    BY <1>48 DEF LoopReturns, Return, TypeOK, CallTo
  <2> QED
    BY <1>48, <2>1 DEF LoopReturns, Return
<1>49. CASE DecodeReturns
  BY <1>49 DEF DecodeReturns, Return
<1>50. CASE UNCHANGED vars
  BY <1>50 DEF vars
<1> QED
  BY <1>1, <1>2, <1>3, <1>4, <1>5, <1>6, <1>7, <1>8, <1>9, <1>10, <1>11, <1>12, <1>13,
     <1>14, <1>15, <1>16, <1>17, <1>18, <1>19, <1>20, <1>21, <1>22, <1>23, <1>24, <1>25,
     <1>26, <1>27, <1>28, <1>29, <1>30, <1>31, <1>32, <1>33, <1>34, <1>35, <1>36, <1>37,
     <1>38, <1>39, <1>40, <1>41, <1>42, <1>43, <1>44, <1>45, <1>46, <1>47, <1>48, <1>49,
     <1>50 DEF Next, PlayerNext, PlayerFair, LoopNext,
     LoopFair, LoopWaitEnds, DecodeNext, DecodeFair
-----------------------------------------------------------------------------
\* The inductive invariant holds of every engine.
THEOREM Invariance == Spec => []IInv
<1>1. Init => IInv
  <2> SUFFICES ASSUME Init PROVE IInv
    OBVIOUS
  <2>1. TypeOK
    <3>1. /\ need_stop \in BOOLEAN /\ auto_mute \in BOOLEAN /\ met \in BOOLEAN
          /\ exit_decode_thread \in BOOLEAN /\ aout_stop_mutex \in BOOLEAN
      BY Zenon DEF Init
    <3>2. sent \in 0 .. MaxSends /\ changes \in 0 .. MaxChanges
      BY EngineAssumption DEF Init
    <3>3. queue \in Seq(Command) /\ Len(queue) <= MESSAGE_NUM_MAX
      BY EngineAssumption DEF Init
    <3> QED
      BY <3>1, <3>2, <3>3 DEF Init, TypeOK, LoopPlace, DecodePlace, CallTo, NoCall
  <2>2. Shape /\ Order
    BY DEF Init, Shape, Order, Calls, States, Clock, Held, Threads, Sound, Up, Opening,
           Closing, Ended, P, Place, Decoding, LoopAtOutput, DecodeAtOutput, NoCall
  <2> QED
    BY <2>1, <2>2 DEF IInv
<1>2. IInv /\ [Next]_vars => IInv'
  BY TypeNext, ShapeNext, OrderNext DEF IInv
<1> QED
  BY <1>1, <1>2, PTL DEF Spec

-----------------------------------------------------------------------------
\* The engine, its pool and its threads keep their types; the pool holds at
\* most MESSAGE_NUM_MAX messages.
THEOREM TypeCorrect == Spec => []TypeOK
  BY Invariance, PTL DEF IInv

\* The output's callback never asks a source that was released (stop_adec).
THEOREM OutputCorrect == Spec => []OutputIsFed
<1>1. IInv => OutputIsFed
  BY DEF IInv, Shape, States, Held, Sound, OutputIsFed, Undisturbed, Up, Ended, Opening,
         Closing
<1> QED
  BY <1>1, Invariance, PTL

\* stop_decode_thread is called before the PCM buffer and the audec are freed.
THEOREM DecodeCorrect == Spec => []DecodesIntoBuffer
<1>1. IInv => DecodesIntoBuffer
  BY DEF IInv, Shape, States, Threads, DecodesIntoBuffer, Decoding, Up, Ended, Opening,
         Closing
<1> QED
  BY <1>1, Invariance, PTL

\* Nothing of an engine goes on when its message loop has ended.
THEOREM EndCorrect == Spec => []NothingLeftBehind
<1>1. IInv => NothingLeftBehind
  <2> SUFFICES ASSUME IInv, Undisturbed, loop \in {"none", "exit"}
               PROVE  track = "none" /\ source # "open" /\ decode = "none"
    BY DEF NothingLeftBehind
  <2>1. P \in Ended /\ lost = {} /\ ~ met /\ ~ Up
    BY DEF IInv, Shape, States, P, Place, Ended, Undisturbed, Up
  <2> QED
    BY <2>1 DEF IInv, Shape, States, Held, Threads, Sound, Ended, Closing, Up
<1> QED
  BY <1>1, Invariance, PTL

\* Pauses, resumes and mutes leave the clock of the picture with the state whenever
\* the last event has reached it, whichever were lost before (adec_pts_start and the
\* others may return -1, and nobody looks).
THEOREM ClockCorrect == Spec => []ClockFollowsState
<1>1. IInv => ClockFollowsState
  BY DEF IInv, Shape, Clock, ClockFollowsState, P, Place
<1> QED
  BY <1>1, Invariance, PTL
\* A dsp that was left with a descriptor is not opened again, and no state of
\* the engine says otherwise: its tries are in vain.
THEOREM RetryCorrect == Spec => RetryIsFutile
<1> DEFINE Left   == source \in {"stale", "stuck"} /\ player # "idle"
           Futile == source' = source /\ (state' = "INITTED" => state = "INITTED")
<1>1. ASSUME IInv, [Next]_vars, Left PROVE Futile
  <2> USE DEF audec, threads, tsync, statics, counts, LoopNever, LoopLeaves, DecodeLeaves,
       Go
  <2>1. /\ kind = "ARC"
        /\ loop \notin {"set_err", "format", "aout", "undo", "undo_join", "release", "join"}
    BY <1>1 DEF IInv, TypeOK, Shape, States, Held, P, Place, Opening, Closing, Ended
  <2>2. CASE PlayerNext
    BY <1>1, <2>2 DEF PlayerNext, PlayerFair, Create, Start, PauseOrResume, Automute, Mute,
       StopFlag, StopSend, ReleaseSend, Join, Send
  <2>3. CASE Callback
    BY <2>3 DEF Callback
  <2>4. CASE InitTest \/ OpenDsp \/ StartDsp \/ ResetCodec \/ OpenCodec \/ OpenOutput \/ Undo
    BY <1>1, <2>1, <2>4 DEF InitTest, OpenDsp, StartDsp, ResetCodec, OpenCodec,
       OpenOutput, Undo,
       CloseDsp, AskDecodeExit, CloseCodec
  <2>5. CASE FlagCheck \/ FlagClear \/ NoMessage \/ Ignored \/ DoStart \/ StartOutput
             \/ DoPause \/ DoResume \/ ResumeClock \/ DoMute \/ DoRelease
    BY <2>5 DEF FlagCheck, FlagClear, NoMessage, LoopGoes, Ignored, DoStart, StartOutput,
       DoPause, DoResume, ResumeClock, DoMute, DoRelease
  <2>6. CASE DoStop \/ DoStopLocked \/ LockTest \/ Grab \/ StopOutput \/ StopSource \/ Unlock
    BY <2>1, <2>6 DEF DoStop, DoStopLocked, LockTest, LoopGoes, Grab, StopAdec, StopOutput,
       StopSource, CloseDsp, AskDecodeExit, CloseCodec, Unlock
  <2>7. CASE LoopReturns \/ DecodeReturns \/ LoopWaitEnds
    BY <2>7 DEF LoopReturns, DecodeReturns, Return, LoopWaitEnds, FlagWaitEnds, FirstPts,
       StartWaitEnds
  <2>8. CASE DecodeNext
    BY <2>7, <2>8 DEF DecodeNext, DecodeFair, DecodeTest, SameInfo, NewInfo, Take, Reinit,
       Restart, Done, Scan, CodeFound, Decode
  <2>9. CASE UNCHANGED vars
    BY <2>9 DEF vars
  <2> QED
    BY <1>1, <2>2, <2>3, <2>4, <2>5, <2>6, <2>7, <2>8, <2>9 DEF Next, LoopNext, LoopFair
<1>2. IInv /\ [Next]_vars => [Left => Futile]_vars
  BY <1>1
<1> QED
  BY <1>2, Invariance, PTL DEF Spec, RetryIsFutile
-----------------------------------------------------------------------------
(* How long audio_decode_release can be made to wait.                      *)

\* The steps the loop has before it until it looks for the next message, need_stop
\* being set,
ToMessage ==
  (CASE P \in {"get", "exit", "none"}                -> 0
     [] P = "flag_clear"                             -> 1
     [] P = "flag_wait"                              -> 3
     [] P = "check"                                  -> 5
     [] P \in {"init", "resume_clock", "unlock"}     -> 6
     [] P \in {"undo_join", "start_output", "join"}  -> 7
     [] P \in {"undo", "start_wait", "release"}      -> 8
     [] P \in {"aout", "first_pts"}                  -> 9
     [] P \in {"set_err", "format", "stop_output"}   -> 10
     [] P = "open"                                   -> 11
     [] P = "grab"                                   -> 12
     [] OTHER                                        -> 13)  \* lock
  + (IF loop = "call" THEN 1 ELSE 0)

\* and what is in the pool, or may still be sent, may cost it that way once more.
LoopLeft == 14 * (Len(queue) + MaxSends - sent) + ToMessage

\* The steps the decode thread has before it once it is asked to exit.
DecodeLeft ==
  LET p == Place(decode, decode_call)
  IN  (CASE p \in {"none", "exited"} -> 0
         [] p = "test"               -> 1
         [] p = "read"               -> 2
         [] p = "search"             -> 3
         [] p = "scan"               -> 4
         [] p = "done"               -> 5
         [] p = "restart"            -> 7
         [] p = "reinit"             -> 8
         [] p = "take"               -> 10
         [] OTHER                    -> 11)  \* info
      + (IF decode = "call" THEN 1 ELSE 0)

\* RELEASE is on its way to the loop.
ToBeReleased == player = "joining" /\ "RELEASE" \notin lost /\ loop # "exit"

\* Each step of the loop brings its end nearer; what the player's application and the
\* decode thread do makes it no longer.
LoopNears ==
  ToBeReleased => IF LoopNext THEN LoopLeft' < LoopLeft ELSE LoopLeft' <= LoopLeft

\* While it is joined, so does each step of the decode thread.
DecodeNears ==
  loop \in {"undo_join", "join"} =>
    IF DecodeNext THEN DecodeLeft' < DecodeLeft ELSE DecodeLeft' = DecodeLeft

Stopping == {"stopping", "releasing", "joining"}

\* The player has asked for the end before it sends, and what it has sent is there.
Releasing ==
  /\ player \in Stopping => need_stop
  /\ ToBeReleased => ~ NoRelease(queue)

\* The decode thread that is joined was asked to exit.
ExitIsAsked == loop \in {"undo_join", "join"} => exit_decode_thread

\* Whoever has set aout_stop_mutex is on its way to reset it.
MutexIsHeld ==
  aout_stop_mutex => DecodeAtOutput \/ LoopAtOutput

\* What the loop waits for from the program itself comes: there is a message when it
\* looks for one, the decode thread it joins knows, and the mutex it waits for is held
\* by the decode thread, at the output.  (The devices are another matter: "set_err".)
LoopIsServed ==
  /\ ToBeReleased => queue # << >>
  /\ loop \in {"undo_join", "join"} => exit_decode_thread
  /\ loop = "lock" /\ aout_stop_mutex => DecodeAtOutput
  /\ LoopLeft \in Nat /\ DecodeLeft \in 0 .. 12

LEMMA ToMessageType == TypeOK /\ Calls => ToMessage \in 0 .. 13
<1> SUFFICES ASSUME TypeOK, Calls PROVE ToMessage \in 0 .. 13
  OBVIOUS
<1>1. CASE loop = "call"
  BY <1>1 DEF TypeOK, Calls, CallTo, NoCall, P, Place, ToMessage
<1>2. CASE loop # "call"
  BY <1>2 DEF P, Place, ToMessage
<1> QED
  BY <1>1, <1>2

LEMMA DecodeLeftType == TypeOK /\ Calls => DecodeLeft \in 0 .. 12
<1> SUFFICES ASSUME TypeOK, Calls PROVE DecodeLeft \in 0 .. 12
  OBVIOUS
<1>1. CASE decode = "call"
  BY <1>1 DEF Place, DecodeLeft
<1>2. CASE decode # "call"
  BY <1>2 DEF Place, DecodeLeft
<1> QED
  BY <1>1, <1>2

\* A send costs no more than it was counted for.
LEMMA SendCosts ==
  ASSUME TypeOK, TypeOK', NEW c \in Command, Send(c), sent' = sent + 1, UNCHANGED threads
  PROVE  LoopLeft' <= LoopLeft
<1>1. Len(queue') <= Len(queue) + 1
  BY DEF TypeOK, Send, Pool!Put, Command
<1>2. ToMessage' = ToMessage
  BY DEF threads, ToMessage, P, Place
<1>3. ToMessage \in Int
  BY DEF ToMessage
<1>4. /\ Len(queue) \in Nat /\ Len(queue') \in Nat /\ sent \in Int /\ MaxSends \in Int
  BY EngineAssumption DEF TypeOK
<1> QED
  BY <1>1, <1>2, <1>3, <1>4 DEF LoopLeft

\* Each step of the loop up to its look at the pool leaves it one less to go.
LEMMA OwnStepNears ==
  ASSUME TypeOK, Calls, need_stop, LoopNext, UNCHANGED queue, ~ (NoMessage /\ queue = << >>),
         \A c \in Command : ~ Get(c)
  PROVE  ToMessage' < ToMessage
<1> USE DEF Go, P, Place, ToMessage
<1>1. CASE InitTest
  BY <1>1 DEF InitTest
<1>2. CASE OpenDsp
  BY <1>2 DEF OpenDsp
<1>3. CASE StartDsp
  BY <1>3 DEF StartDsp
<1>4. CASE ResetCodec \/ OpenCodec
  BY <1>4 DEF ResetCodec, OpenCodec
<1>5. CASE OpenOutput
  BY <1>5 DEF OpenOutput
<1>6. CASE Undo
  BY <1>6 DEF Undo, CloseDsp, AskDecodeExit, CloseCodec
<1>7. CASE FlagCheck
  BY <1>7 DEF FlagCheck, Enter
<1>8. CASE FlagWaitEnds
  BY <1>8 DEF FlagWaitEnds, Enter
<1>9. CASE FlagClear
  BY <1>9 DEF FlagClear
<1>10. CASE FirstPts
  BY <1>10 DEF FirstPts, Tell
<1>11. CASE StartWaitEnds
  BY <1>11 DEF StartWaitEnds, Tell
<1>12. CASE StartOutput
  BY <1>12 DEF StartOutput, Enter
<1>13. CASE ResumeClock
  BY <1>13 DEF ResumeClock, Tell
<1>14. CASE LockTest
  BY <1>14 DEF LockTest, LoopGoes
<1>15. CASE Grab
  BY <1>15 DEF Grab, StopAdec, Enter
<1>16. CASE StopOutput
  BY <1>16 DEF StopOutput, Enter
<1>17. CASE StopSource
  BY <1>17 DEF StopSource, CloseDsp, AskDecodeExit, CloseCodec
<1>18. CASE Unlock
  BY <1>18 DEF Unlock
<1>19. CASE LoopReturns
  BY <1>19 DEF LoopReturns, Return, NoCall, TypeOK, CallTo, Calls
<1>20. CASE NoMessage
  BY <1>20 DEF NoMessage
<1>21. CASE Ignored \/ DoStart \/ DoPause \/ DoResume \/ DoMute \/ DoRelease \/ DoStop \/ DoStopLocked
  BY <1>21 DEF Ignored, DoStart, DoPause, DoResume, DoMute, DoRelease, DoStop,
     DoStopLocked, Command
<1> QED
  BY <1>1, <1>2, <1>3, <1>4, <1>5, <1>6, <1>7, <1>8, <1>9, <1>10, <1>11, <1>12, <1>13,
     <1>14, <1>15, <1>16, <1>17, <1>18, <1>19, <1>20, <1>21
     DEF LoopNext, LoopFair, LoopWaitEnds

\* The loop takes from the pool only where it looks for a message.
LEMMA LoopKeepsQueue ==
  ASSUME LoopNext, \A c \in Command : ~ Get(c)
  PROVE  queue' = queue
BY DEF LoopNext, LoopFair, LoopWaitEnds, InitTest, OpenDsp, StartDsp, ResetCodec,
   OpenCodec, OpenOutput,
       Undo, CloseDsp, AskDecodeExit, CloseCodec, FlagCheck, FlagClear, NoMessage, Ignored, DoStart,
       StartOutput, DoPause, DoResume, ResumeClock, DoMute, DoRelease, DoStop, DoStopLocked,
       LockTest, Grab, StopOutput, StopSource, Unlock, LoopReturns, Return, FlagWaitEnds, FirstPts,
       StartWaitEnds, LoopGoes, LoopLeaves, LoopNever, audec, Command

LEMMA TailFindsRelease ==
  ASSUME NEW q \in Seq(Command), q # << >>, Head(q) # "RELEASE", ~ NoRelease(q)
  PROVE  ~ NoRelease(Tail(q))
<1>1. PICK i \in 1 .. Len(q) : q[i] = "RELEASE"
  BY DEF NoRelease
<1>2. i - 1 \in 1 .. Len(Tail(q)) /\ Tail(q)[i - 1] = "RELEASE"
  BY <1>1
<1> QED
  BY <1>2 DEF NoRelease

LEMMA LoopStepNears ==
  ASSUME IInv, IInv', Releasing, ToBeReleased, LoopNext
  PROVE  LoopLeft' < LoopLeft
<1>1. /\ TypeOK /\ TypeOK' /\ Calls /\ Calls' /\ need_stop /\ queue # << >>
  BY DEF IInv, Shape, Releasing, ToBeReleased, Stopping, NoRelease
<1>2. /\ Len(queue) \in Nat /\ sent \in Int /\ MaxSends \in Int
      /\ ToMessage \in 0 .. 13 /\ ToMessage' \in 0 .. 13
  <2>1. ToMessage \in 0 .. 13 /\ ToMessage' \in 0 .. 13
    <3>1. (TypeOK /\ Calls => ToMessage \in 0 .. 13)'
      BY ToMessageType, PTL
    <3> QED
      BY <1>1, <3>1, ToMessageType
  <2> QED
    BY <1>1, <2>1, EngineAssumption DEF TypeOK
<1>3. sent' = sent
  BY DEF LoopNext, LoopFair, LoopWaitEnds, InitTest, OpenDsp, StartDsp, ResetCodec,
     OpenCodec, OpenOutput, Undo,
         CloseDsp, AskDecodeExit, CloseCodec, FlagCheck, FlagClear, NoMessage, Ignored, DoStart,
         StartOutput, DoPause, DoResume, ResumeClock, DoMute, DoRelease, DoStop, DoStopLocked,
         LockTest, Grab, StopOutput, StopSource, Unlock, LoopReturns, Return, FlagWaitEnds, FirstPts,
         StartWaitEnds, LoopGoes, LoopLeaves, LoopNever, counts
<1>4. CASE \E c \in Command : Get(c)
  <2>1. Len(queue') = Len(queue) - 1 /\ ToMessage = 0
    BY <1>1, <1>4 DEF Get, Pool!Take, ToMessage, P, Place, TypeOK
  <2> QED
    BY <1>2, <1>3, <2>1 DEF LoopLeft
<1>5. CASE \A c \in Command : ~ Get(c)
  <2>1. queue' = queue
    BY <1>5, LoopKeepsQueue
  <2>2. ToMessage' < ToMessage
    BY <1>1, <1>5, <2>1, OwnStepNears
  <2> QED
    BY <1>2, <1>3, <2>1, <2>2 DEF LoopLeft
<1> QED
  BY <1>4, <1>5

\* What the others do brings no more work for it.
LEMMA OthersCostNothing ==
  ASSUME IInv, IInv', ToBeReleased, Next, ~ LoopNext
  PROVE  LoopLeft' <= LoopLeft
<1>1. /\ TypeOK /\ TypeOK' /\ LoopLeft \in Int
  BY ToMessageType, EngineAssumption DEF IInv, Shape, TypeOK, LoopLeft
<1>2. CASE Mute
  BY <1>1, <1>2, SendCosts DEF Mute, Send, Command
<1>3. CASE Callback
  BY <1>1, <1>3 DEF Callback, threads, counts, LoopLeft, ToMessage, P, Place
<1>4. CASE DecodeNext
  <2>1. CASE DecodeReturns
    <3>1. UNCHANGED << queue, sent, loop >> /\ loop_call'.next = loop_call.next
      BY <1>1, <2>1 DEF DecodeReturns, Return, audec, counts, TypeOK, CallTo, NoCall
    <3> QED
      BY <1>1, <3>1 DEF LoopLeft, ToMessage, P, Place
  <2>2. CASE ~ DecodeReturns
    <3>1. UNCHANGED << queue, sent, loop, loop_call >>
      BY <1>4, <2>2 DEF DecodeNext, DecodeFair, DecodeTest, SameInfo, NewInfo, Take,
         Reinit, Restart,
              Done, Scan, Decode, CodeFound, DecodeLeaves, audec
    <3> QED
      BY <1>1, <3>1 DEF LoopLeft, ToMessage, P, Place
  <2> QED
    BY <2>1, <2>2
<1>5. CASE PlayerNext /\ ~ Mute
  BY <1>5 DEF PlayerNext, Create, Start, PauseOrResume, Automute, StopFlag, PlayerFair,
     StopSend,
              ReleaseSend, Join, Go, ToBeReleased
<1> QED
  BY <1>2, <1>3, <1>4, <1>5 DEF Next

\* A RELEASE that was sent is in the pool until it is taken or discarded.
LEMMA SendFindsRelease ==
  ASSUME QueueOK, NEW c \in Command, Send(c), "RELEASE" \notin lost',
         c = "RELEASE" \/ ~ NoRelease(queue)
  PROVE  ~ NoRelease(queue') /\ "RELEASE" \notin lost
<1> SUFFICES ~ NoRelease(queue')
  BY DEF Send
<1>1. ASSUME NEW q \in Seq(Command), c = "RELEASE" \/ ~ NoRelease(q), queue' = Append(q, c)
      PROVE  ~ NoRelease(queue')
  <2>1. CASE c = "RELEASE"
    <3>1. Len(q) + 1 \in 1 .. Len(queue') /\ queue'[Len(q) + 1] = "RELEASE"
      BY <1>1, <2>1
    <3> QED
      BY <3>1 DEF NoRelease
  <2>2. CASE ~ NoRelease(q)
    <3>1. PICK i \in 1 .. Len(q) : q[i] = "RELEASE"
      BY <2>2 DEF NoRelease
    <3>2. i \in 1 .. Len(queue') /\ queue'[i] = "RELEASE"
      BY <1>1, <3>1
    <3> QED
      BY <3>2 DEF NoRelease
  <2> QED
    BY <1>1, <2>1, <2>2
<1>2. CASE Len(queue) < MESSAGE_NUM_MAX
  BY <1>1, <1>2 DEF Send, Pool!Put, QueueOK
<1>3. CASE ~ (Len(queue) < MESSAGE_NUM_MAX)
  <2>1. /\ queue # << >> /\ Tail(queue) \in Seq(Command) /\ queue' = Append(Tail(queue), c)
        /\ lost' = lost \cup ({Head(queue)} \cap {"STOP", "RELEASE"})
    BY <1>3, EngineAssumption DEF Send, Pool!Put, QueueOK
  <2>2. ~ NoRelease(queue) => ~ NoRelease(Tail(queue))
    BY <2>1, TailFindsRelease DEF QueueOK
  <2> QED
    BY <1>1, <2>1, <2>2
<1> QED
  BY <1>2, <1>3

LEMMA ReleasingStep == IInv /\ Releasing /\ [Next]_vars => Releasing'
<1> SUFFICES ASSUME IInv, Releasing, [Next]_vars PROVE Releasing'
  OBVIOUS
<1>0. QueueOK
  BY DEF IInv, TypeOK, QueueOK
<1> USE DEF Releasing, ToBeReleased, Stopping, Go
<1>1. CASE PlayerNext
  <2>1. CASE Create \/ Start \/ PauseOrResume \/ Automute \/ StopFlag \/ StopSend \/ Join
    BY <2>1 DEF Create, Start, PauseOrResume, Automute, StopFlag, StopSend, Join, Send
  <2>2. CASE ReleaseSend
    BY <1>0, <2>2, SendFindsRelease DEF ReleaseSend, Command
  <2>3. CASE Mute
    <3>1. UNCHANGED << player, need_stop, loop >> /\ Send("MUTE")
      BY <2>3 DEF Mute, Send, threads
    <3>2. "RELEASE" \notin lost' => "RELEASE" \notin lost
      BY <3>1 DEF Send
    <3> QED
      BY <1>0, <3>1, <3>2, SendFindsRelease DEF Command
  <2> QED
    BY <1>1, <2>1, <2>2, <2>3 DEF PlayerNext, PlayerFair
<1>2. CASE LoopNext
  <2>1. UNCHANGED << player, need_stop, lost >> /\ loop # "exit"
    <3>1. LoopReturns => UNCHANGED << player, need_stop, lost >> /\ loop # "exit"
      BY DEF LoopReturns, Return, audec, IInv, Shape, States, P, Place, Calls
    <3>2. ~ LoopReturns => UNCHANGED << player, need_stop, lost >>
      BY <1>2 DEF LoopNext, LoopFair, LoopWaitEnds, InitTest, OpenDsp, StartDsp,
         ResetCodec, OpenCodec, OpenOutput,
           Undo, CloseDsp, AskDecodeExit, CloseCodec, FlagCheck, FlagClear, NoMessage, Ignored,
           DoStart, StartOutput, DoPause, DoResume, ResumeClock, DoMute, DoRelease, DoStop,
           DoStopLocked, LockTest, Grab, StopOutput, StopSource, Unlock, FlagWaitEnds, FirstPts,
           StartWaitEnds, LoopGoes, LoopLeaves, LoopNever
    <3>3. ASSUME ~ LoopReturns, loop = "exit" PROVE FALSE
      <4>1. ~ (InitTest \/ OpenDsp \/ StartDsp \/ ResetCodec \/ OpenCodec \/ OpenOutput \/ Undo)
        BY <3>3 DEF InitTest, OpenDsp, StartDsp, ResetCodec, OpenCodec, OpenOutput, Undo,
           CloseDsp,
                    AskDecodeExit, CloseCodec
      <4>2. ~ (FlagCheck \/ FlagClear \/ NoMessage \/ StartOutput \/ ResumeClock \/ LoopWaitEnds)
        BY <3>3 DEF FlagCheck, FlagClear, NoMessage, StartOutput, ResumeClock, LoopWaitEnds,
                    FlagWaitEnds, FirstPts, StartWaitEnds, LoopGoes, Enter
      <4>3. ~ (Ignored \/ DoStart \/ DoPause \/ DoResume \/ DoMute \/ DoRelease \/ DoStop \/ DoStopLocked)
        BY <3>3 DEF Ignored, DoStart, DoPause, DoResume, DoMute, DoRelease, DoStop,
           DoStopLocked, Get
      <4>4. ~ (LockTest \/ Grab \/ StopOutput \/ StopSource \/ Unlock)
        BY <3>3 DEF LockTest, Grab, StopAdec, StopOutput, StopSource, CloseDsp,
           AskDecodeExit,
                    CloseCodec, Unlock, LoopGoes, Enter
      <4> QED
        BY <1>2, <3>3, <4>1, <4>2, <4>3, <4>4 DEF LoopNext, LoopFair
    <3> QED
      BY <3>1, <3>2, <3>3
  <2>2. CASE \E c \in Command : Get(c)
    <3>1. queue # << >> /\ queue' = Tail(queue) /\ (Head(queue) = "RELEASE" => loop' = "exit")
      BY <1>2, <2>2 DEF Get, Pool!Take, LoopNext, LoopFair, LoopWaitEnds, InitTest,
         OpenDsp, StartDsp,
           ResetCodec, OpenCodec, OpenOutput, Undo, CloseDsp, AskDecodeExit, CloseCodec, FlagCheck, FlagClear,
           NoMessage, Ignored, DoStart, StartOutput, DoPause, DoResume, ResumeClock, DoMute,
           DoRelease, DoStop, DoStopLocked, LockTest, Grab, StopOutput, StopSource, Unlock,
           LoopReturns, Return, FlagWaitEnds, FirstPts, StartWaitEnds, LoopGoes, Enter
    <3> QED
      BY <1>0, <2>1, <3>1, TailFindsRelease DEF QueueOK
  <2>3. CASE \A c \in Command : ~ Get(c)
    BY <1>2, <2>1, <2>3, LoopKeepsQueue
  <2> QED
    BY <2>2, <2>3
<1>3. CASE Callback
  BY <1>3 DEF Callback, threads
<1>4. CASE DecodeNext
  BY <1>4 DEF DecodeNext, DecodeFair, DecodeTest, SameInfo, NewInfo, Take, Reinit,
     Restart, Done, Scan,
              Decode, DecodeReturns, Return, CodeFound, DecodeLeaves, audec
<1>5. CASE UNCHANGED vars
  BY <1>5 DEF vars, audec, threads
<1> QED
  BY <1>1, <1>2, <1>3, <1>4, <1>5 DEF Next

\* The thread that is joined was asked to exit, and the mutex has a holder.
Served == Releasing /\ ExitIsAsked /\ MutexIsHeld

LEMMA HolderStep ==
  IInv /\ ExitIsAsked /\ MutexIsHeld /\ [Next]_vars => ExitIsAsked' /\ MutexIsHeld'
<1> SUFFICES ASSUME IInv, ExitIsAsked, MutexIsHeld, [Next]_vars PROVE ExitIsAsked' /\ MutexIsHeld'
  OBVIOUS
<1> USE DEF ExitIsAsked, MutexIsHeld, LoopAtOutput, DecodeAtOutput, P, Place, Go
<1>1. CASE PlayerNext \/ Callback
  <2>1. CASE Create
    BY <2>1 DEF Create, statics, IInv, Shape, States, Calls, Opening
  <2>2. CASE Join
    BY <2>2 DEF Join, statics, IInv, Shape, Calls
  <2>3. CASE ~ Create /\ ~ Join
    <3>1. UNCHANGED << kind, loop, loop_call, decode, decode_call, exit_decode_thread,
                      aout_stop_mutex >>
      BY <1>1, <2>3 DEF PlayerNext, PlayerFair, Callback, Start, PauseOrResume, Automute,
         Mute, StopFlag,
                        StopSend, ReleaseSend, Send, threads, statics
    <3> QED
      BY <3>1
  <2> QED
    BY <2>1, <2>2, <2>3
<1>2. CASE InitTest \/ OpenDsp \/ StartDsp \/ OpenOutput \/ LoopWaitEnds
  BY <1>2 DEF InitTest, OpenDsp, StartDsp, OpenOutput, LoopWaitEnds, FlagWaitEnds, FirstPts,
              StartWaitEnds, Enter, LoopLeaves, LoopNever, statics
<1>3. CASE ResetCodec \/ OpenCodec
  BY <1>3 DEF ResetCodec, OpenCodec, LoopLeaves, LoopNever, statics
<1>4. CASE Undo \/ StopSource
  <2>1. CASE CloseDsp("undo", "init") \/ CloseDsp("release", "check")
    BY <2>1 DEF CloseDsp, LoopLeaves, LoopNever, statics, IInv, Shape, Sound
  <2>2. CASE AskDecodeExit("undo", "undo_join") \/ AskDecodeExit("release", "join")
    BY <2>2 DEF AskDecodeExit, LoopLeaves, LoopNever
  <2>3. CASE CloseCodec("undo_join", "init") \/ CloseCodec("join", "unlock")
    BY <2>3 DEF CloseCodec, LoopNever
  <2> QED
    BY <1>4, <2>1, <2>2, <2>3 DEF Undo, StopSource
<1>5. CASE FlagCheck \/ FlagClear \/ NoMessage \/ StartOutput \/ ResumeClock
  BY <1>5 DEF FlagCheck, FlagClear, NoMessage, StartOutput, ResumeClock, Enter, LoopGoes,
     LoopLeaves,
              LoopNever, statics
<1>6. CASE Ignored \/ DoPause \/ DoResume \/ DoMute \/ DoRelease \/ DoStop \/ DoStopLocked
  BY <1>6 DEF Ignored, DoPause, DoResume, DoMute, DoRelease, DoStop, DoStopLocked, Get,
     StopAdec,
              Enter, LoopLeaves, LoopNever, statics
<1>7. CASE DoStart
  BY <1>7 DEF DoStart, Get, LoopNever, statics, IInv, Shape, Threads, Up, Ended, Calls,
              Closing
<1>8. CASE LockTest \/ StopOutput \/ Unlock
  BY <1>8 DEF LockTest, StopOutput, Unlock, Enter, LoopGoes, LoopLeaves, LoopNever, statics
<1>9. CASE Grab
  BY <1>9 DEF Grab, StopAdec, Enter, LoopLeaves, LoopNever, IInv, Shape, States
<1>10. CASE LoopReturns
  BY <1>10 DEF LoopReturns, Return, NoCall, IInv, TypeOK, CallTo, statics
<1>11. CASE DecodeReturns
  BY <1>11 DEF DecodeReturns, Return, NoCall, IInv, TypeOK, CallTo, statics
<1>12. CASE DecodeTest \/ SameInfo \/ NewInfo \/ Scan \/ CodeFound \/ Decode
  BY <1>12 DEF DecodeTest, SameInfo, Input, NewInfo, Scan, CodeFound, Decode, DecodeLeaves
<1>13. CASE Take \/ Reinit \/ Restart \/ Done
  BY <1>13 DEF Take, Reinit, Restart, Done, Input, Enter, DecodeLeaves
<1>14. CASE UNCHANGED vars
  BY <1>14 DEF vars, threads, statics
<1> QED
  BY <1>1, <1>2, <1>3, <1>4, <1>5, <1>6, <1>7, <1>8, <1>9, <1>10, <1>11, <1>12, <1>13, <1>14
     DEF Next, LoopNext, LoopFair, DecodeNext, DecodeFair

LEMMA ServedAlways == Spec => []Served
<1>1. Init => Served
  BY DEF Init, Served, Releasing, ToBeReleased, Stopping, ExitIsAsked, MutexIsHeld
<1>2. IInv /\ Served /\ [Next]_vars => Served'
  BY ReleasingStep, HolderStep DEF Served
<1> QED
  BY <1>1, <1>2, Invariance, PTL DEF Spec

\* Each step of a decode thread that is asked to exit leaves it one less to go.
LEMMA DecodeStepNears ==
  ASSUME TypeOK, exit_decode_thread, DecodeNext
  PROVE  DecodeLeft' < DecodeLeft
<1> USE DEF DecodeLeft, Place, Go
<1>1. CASE DecodeTest
  BY <1>1 DEF DecodeTest
<1>2. CASE SameInfo
  BY <1>2 DEF SameInfo, Input
<1>3. CASE NewInfo
  BY <1>3 DEF NewInfo
<1>4. CASE Take
  BY <1>4 DEF Take, Enter
<1>5. CASE Reinit
  BY <1>5 DEF Reinit
<1>6. CASE Restart
  BY <1>6 DEF Restart, Enter
<1>7. CASE Done
  BY <1>7 DEF Done, Input
<1>8. CASE Scan
  BY <1>8 DEF Scan
<1>9. CASE CodeFound
  BY <1>9 DEF CodeFound
<1>10. CASE Decode
  BY <1>10 DEF Decode
<1>11. CASE DecodeReturns
  BY <1>11 DEF DecodeReturns, Return, NoCall, TypeOK, CallTo
<1> QED
  BY <1>1, <1>2, <1>3, <1>4, <1>5, <1>6, <1>7, <1>8, <1>9, <1>10, <1>11 DEF DecodeNext,
     DecodeFair

\* Nobody else moves it.
LEMMA DecodeStays ==
  ASSUME IInv, loop \in {"undo_join", "join"}, [Next]_vars, ~ DecodeNext
  PROVE  DecodeLeft' = DecodeLeft
<1>1. CASE CloseCodec("undo_join", "init") \/ CloseCodec("join", "unlock")
  BY <1>1 DEF CloseCodec, LoopNever, DecodeLeft, Place, IInv, Shape, Calls
<1>2. CASE ~ (CloseCodec("undo_join", "init") \/ CloseCodec("join", "unlock"))
  <2>1. ~ LoopNext
    <3>1. ~ (InitTest \/ OpenDsp \/ StartDsp \/ ResetCodec \/ OpenCodec \/ OpenOutput \/ Undo)
      BY <1>2 DEF InitTest, OpenDsp, StartDsp, ResetCodec, OpenCodec, OpenOutput, Undo,
         CloseDsp, AskDecodeExit, Go
    <3>2. ~ (FlagCheck \/ FlagClear \/ NoMessage \/ StartOutput \/ ResumeClock \/ LoopWaitEnds)
      BY DEF FlagCheck, FlagClear, NoMessage, StartOutput, ResumeClock, LoopWaitEnds,
             FlagWaitEnds, FirstPts, StartWaitEnds, LoopGoes, Enter, Go
    <3>3. ~ (Ignored \/ DoStart \/ DoPause \/ DoResume \/ DoMute \/ DoRelease \/ DoStop \/ DoStopLocked)
      BY DEF Ignored, DoStart, DoPause, DoResume, DoMute, DoRelease, DoStop, DoStopLocked,
         Get
    <3>4. ~ (LockTest \/ Grab \/ StopOutput \/ StopSource \/ Unlock \/ LoopReturns)
      BY <1>2 DEF LockTest, Grab, StopAdec, StopOutput, StopSource, CloseDsp, AskDecodeExit,
                  Unlock, LoopGoes, Enter, Go, LoopReturns, Return
    <3> QED
      BY <3>1, <3>2, <3>3, <3>4 DEF LoopNext, LoopFair
  <2>2. ~ Create
    BY DEF Create, Go, IInv, Shape, States, P, Place
  <2>3. UNCHANGED << decode, decode_call >>
    BY <2>1, <2>2 DEF Next, PlayerNext, PlayerFair, Callback, Start, PauseOrResume,
       Automute, Mute, StopFlag,
                      StopSend, ReleaseSend, Join, Send, threads, vars
  <2> QED
    BY <2>3 DEF DecodeLeft, Place
<1> QED
  BY <1>1, <1>2

\* audio_decode_release's wait is for a loop that goes towards its end: once RELEASE is
\* sent and not lost, every step of the message loop decreases what it has left, fourteen
\* steps at most for each message, and no message, callback or change of format adds
\* to it.  This counts steps, not tries: audio_codec_init tries its write to sysfs until
\* it succeeds, and a loop that stays there takes no further step (ReleaseReturns).
THEOREM ReleaseBounds == Spec => [][LoopNears]_vars
<1>1. IInv /\ IInv' /\ Served /\ [Next]_vars => [LoopNears]_vars
  <2> SUFFICES ASSUME IInv, IInv', Served, Next
               PROVE  LoopNears
    OBVIOUS
  <2> QED
    BY LoopStepNears, OthersCostNothing DEF LoopNears, Served
<1> QED
  BY <1>1, Invariance, ServedAlways, PTL DEF Spec

\* stop_decode_thread's join is for a thread that is on its way too, wherever in its
\* loop it was asked to exit: at most twelve steps.
THEOREM DecodeBounds == Spec => [][DecodeNears]_vars
<1>1. IInv /\ Served /\ [Next]_vars => [DecodeNears]_vars
  BY DecodeStepNears, DecodeStays DEF DecodeNears, Served, ExitIsAsked, IInv
<1> QED
  BY <1>1, Invariance, ServedAlways, PTL DEF Spec

\* No two of them wait for each other: the loop finds a message as long as RELEASE is to
\* come, the thread it joins was told, and the aout_stop_mutex it waits for is held by
\* the decode thread, which waits for nobody there.
THEOREM NobodyWaitsInVain == Spec => []LoopIsServed
<1>1. IInv /\ Served => LoopIsServed
  <2> SUFFICES ASSUME IInv, Served PROVE LoopIsServed
    OBVIOUS
  <2>1. ToMessage \in 0 .. 13 /\ DecodeLeft \in 0 .. 12
    BY ToMessageType, DecodeLeftType DEF IInv, Shape
  <2>2. Len(queue) \in Nat /\ sent \in 0 .. MaxSends /\ MaxSends \in Nat
    BY EngineAssumption DEF IInv, TypeOK
  <2>3. LoopLeft \in Nat
    BY <2>1, <2>2 DEF LoopLeft
  <2>4. ToBeReleased => queue # << >>
    BY DEF Served, Releasing, NoRelease
  <2>5. loop = "lock" /\ aout_stop_mutex => DecodeAtOutput
    BY DEF Served, MutexIsHeld, LoopAtOutput, Place
  <2> QED
    BY <2>1, <2>3, <2>4, <2>5 DEF LoopIsServed, Served, ExitIsAsked
<1> QED
  BY <1>1, Invariance, ServedAlways, PTL
=============================================================================
