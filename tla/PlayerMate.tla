------------------------------ MODULE PlayerMate ------------------------------
(***************************************************************************)
(* The handshake of a player thread with its mate (player/player_mate.c).  *)
(* The player thread wakes its mate before a read or a buffering call that *)
(* may block and puts it to sleep after it (player_av.c, player_ffmpeg_    *)
(* ctrl.c); in between the mate handles commands and updates the state on  *)
(* the player's behalf, without any lock on them.  What keeps the two      *)
(* apart are four plain integers and a semaphore, read and written here    *)
(* one access at a time.  The condition variables only cut timed waits     *)
(* short: a wait is a step that may come at any moment.                    *)
(***************************************************************************)
EXTENDS Integers

CONSTANT MaxSem   \* bound on the wakes the mate has not yet noticed

ASSUME MateAssumption == MaxSem \in Nat \ {0}

VARIABLES player,             \* where the player thread is
          mate,               \* where the mate thread is
          mate_sem,
          mate_isrunng,
          mate_should_sleep,
          mate_should_exit,
          wake_delay,         \* "unset", "zero" or "some" microseconds
          heap                \* holds the struct player_mate, or not

flags == << mate_isrunng, mate_should_sleep, mate_should_exit, wake_delay >>
vars  == << player, mate, mate_sem, flags, heap >>

\* player_thread before player_mate_init; the struct comes from MALLOC, and
\* player_mate_init leaves wake_delay unset.
Init ==
  /\ player = "starting" /\ mate = "none"
  /\ mate_sem = 0
  /\ mate_isrunng = 0 /\ mate_should_sleep = 0 /\ mate_should_exit = 0
  /\ wake_delay = "unset"
  /\ heap = {}

Player(from, to) == player = from /\ player' = to
Mate(from, to)   == mate = from /\ mate' = to
-----------------------------------------------------------------------------
(* The player thread.  "own" is all it does between two reads: it handles  *)
(* commands, changes the player state, resets the decoder.                 *)

\* player_mate_init
MateInit ==
  /\ Player("starting", "own") /\ Mate("none", "exit_test")
  /\ heap' = {"mate"}
  /\ UNCHANGED << mate_sem, flags >>

\* player_mate_wake; every caller passes a delay of 100 ms.
WakeSetDelay ==
  /\ Player("own", "wake_delay")
  /\ mate_sem < MaxSem
  /\ wake_delay' = "some"
  /\ UNCHANGED << mate, mate_sem, mate_isrunng, mate_should_sleep, mate_should_exit,
                  heap >>

WakeClearSleep ==
  /\ Player("wake_delay", "wake_post")
  /\ mate_should_sleep' = 0
  /\ UNCHANGED << mate, mate_sem, mate_isrunng, mate_should_exit, wake_delay, heap >>

\* A wake that counts twice.
WakePostTwice ==
  /\ Player("wake_post", "reading")
  /\ mate_sem' = mate_sem + 2
  /\ UNCHANGED << mate, flags, heap >>

WakePost ==
  /\ Player("wake_post", "reading")
  /\ mate_sem' = mate_sem + 1
  /\ UNCHANGED << mate, flags, heap >>

\* The read or the buffering call returns.
ReadReturns ==
  /\ Player("reading", "sleep_test")
  /\ UNCHANGED << mate, mate_sem, flags, heap >>

\* player_mate_sleep, the test of its loop.
SleepTest ==
  /\ player = "sleep_test"
  /\ player' = IF mate_isrunng = 1 THEN "sleep_ask" ELSE "own"
  /\ UNCHANGED << mate, mate_sem, flags, heap >>

\* A sleep that asks once and returns.
SleepAskOnce ==
  /\ Player("sleep_ask", "own")
  /\ mate_should_sleep' = 1
  /\ UNCHANGED << mate, mate_sem, mate_isrunng, mate_should_exit, wake_delay, heap >>

\* ... and its body; the 1 ms wait at the end of it changes nothing.
SleepAsk ==
  /\ Player("sleep_ask", "sleep_test")
  /\ mate_should_sleep' = 1
  /\ UNCHANGED << mate, mate_sem, mate_isrunng, mate_should_exit, wake_delay, heap >>

\* player_mate_release
ReleaseSetSleep ==
  /\ Player("own", "release_exit")
  /\ mate_should_sleep' = 1
  /\ UNCHANGED << mate, mate_sem, mate_isrunng, mate_should_exit, wake_delay, heap >>

ReleaseSetExit ==
  /\ Player("release_exit", "release_delay")
  /\ mate_should_exit' = 1
  /\ UNCHANGED << mate, mate_sem, mate_isrunng, mate_should_sleep, wake_delay, heap >>

\* A release that leaves the delay to the last wake.
ReleaseKeepsDelay ==
  /\ Player("release_delay", "release_post")
  /\ UNCHANGED << mate, mate_sem, flags, heap >>

ReleaseClearDelay ==
  /\ Player("release_delay", "release_post")
  /\ wake_delay' = "zero"
  /\ UNCHANGED << mate, mate_sem, mate_isrunng, mate_should_sleep, mate_should_exit,
                  heap >>

\* A release that only sets the flags.
ReleaseNoPost ==
  /\ Player("release_post", "release_join")
  /\ UNCHANGED << mate, mate_sem, flags, heap >>

\* The three posts: the mate consumes at most one of them.
ReleasePost ==
  /\ Player("release_post", "release_join")
  /\ mate_sem' = mate_sem + 3
  /\ UNCHANGED << mate, flags, heap >>

\* A release that does not wait for the thread.
ReleaseNoJoin ==
  /\ Player("release_join", "release_free")
  /\ UNCHANGED << mate, mate_sem, flags, heap >>

ReleaseJoin ==
  /\ Player("release_join", "release_free")
  /\ mate = "exited"
  /\ UNCHANGED << mate, mate_sem, flags, heap >>

ReleaseFree ==
  /\ Player("release_free", "released")
  /\ heap' = {}
  /\ UNCHANGED << mate, mate_sem, flags >>

Wake    == WakeSetDelay \/ WakeClearSleep \/ WakePost
Sleep   == SleepTest \/ SleepAsk
Release == ReleaseSetExit \/ ReleaseClearDelay \/ ReleasePost \/ ReleaseJoin \/ ReleaseFree

PlayerNext == MateInit \/ Wake \/ ReadReturns \/ Sleep \/ ReleaseSetSleep \/ Release
-----------------------------------------------------------------------------
(* The mate thread: player_mate_thread_run and, inside it, _run_l.         *)

ExitTest ==
  /\ mate = "exit_test"
  /\ mate' = IF mate_should_exit = 1 THEN "exited" ELSE "sem_wait"
  /\ UNCHANGED << player, mate_sem, flags, heap >>

SemWait ==
  /\ Mate("sem_wait", "run")
  /\ mate_sem > 0
  /\ mate_sem' = mate_sem - 1
  /\ UNCHANGED << player, flags, heap >>

SetRunning ==
  /\ Mate("run", "delay")
  /\ mate_isrunng' = 1
  /\ UNCHANGED << player, mate_sem, mate_should_sleep, mate_should_exit, wake_delay,
                  heap >>

\* Reads wake_delay and, when there is some, waits: the wait may end at once.
DelayWait ==
  /\ Mate("delay", "delayed")
  /\ UNCHANGED << player, mate_sem, flags, heap >>

ClearDelay ==
  /\ Mate("delayed", "asleep_test")
  /\ wake_delay' = "zero"
  /\ UNCHANGED << player, mate_sem, mate_isrunng, mate_should_sleep, mate_should_exit,
                  heap >>

AsleepTest ==
  /\ mate = "asleep_test"
  /\ mate' = IF mate_should_sleep = 1 THEN "wakeup" ELSE "work_test"
  /\ UNCHANGED << player, mate_sem, flags, heap >>

\* A mate that, once at work, looks only for its end.
WorkTestExit ==
  /\ mate = "work_test"
  /\ mate' = IF mate_should_exit = 1 THEN "wakeup" ELSE "work"
  /\ UNCHANGED << player, mate_sem, flags, heap >>

WorkTest ==
  /\ mate = "work_test"
  /\ mate' = IF mate_should_sleep = 1 \/ mate_should_exit = 1 THEN "wakeup" ELSE "work"
  /\ UNCHANGED << player, mate_sem, flags, heap >>

\* player_mate_thread_run_ll: commands, playing info, player states.
Work ==
  /\ Mate("work", "interval")
  /\ UNCHANGED << player, mate_sem, flags, heap >>

IntervalWait ==
  /\ Mate("interval", "work_test")
  /\ UNCHANGED << player, mate_sem, flags, heap >>

\* wakeup_player_thread, then the pass is over.
ClearRunning ==
  /\ Mate("wakeup", "exit_test")
  /\ mate_isrunng' = 0
  /\ UNCHANGED << player, mate_sem, mate_should_sleep, mate_should_exit, wake_delay,
                  heap >>

MateNext == \/ ExitTest \/ SemWait \/ SetRunning \/ DelayWait \/ ClearDelay
            \/ AsleepTest \/ WorkTest \/ Work \/ IntervalWait \/ ClearRunning
-----------------------------------------------------------------------------
\* The player's last step is the end of its thread.
Done == player = "released" /\ UNCHANGED vars

Next == PlayerNext \/ MateNext \/ Done

Spec == Init /\ [][Next]_vars

\* Both threads are scheduled.  Nothing says that a read returns, or that the
\* player thread ever comes to its end, so those steps are not assumed.
FairSpec == Spec /\ WF_vars(MateNext) /\ WF_vars(Wake) /\ WF_vars(Sleep)
                 /\ WF_vars(Release)
-----------------------------------------------------------------------------
PlayerPC == {"starting", "own", "wake_delay", "wake_post", "reading", "sleep_test",
             "sleep_ask", "release_exit", "release_delay", "release_post",
             "release_join", "release_free", "released"}
Running  == {"delay", "delayed", "asleep_test", "work_test", "work", "interval", "wakeup"}
MatePC   == Running \cup {"none", "exit_test", "sem_wait", "run", "exited"}

TypeOK ==
  /\ player \in PlayerPC /\ mate \in MatePC
  /\ mate_sem \in 0 .. (MaxSem + 3)
  /\ mate_isrunng \in {0, 1}
  /\ mate_should_sleep \in {0, 1}
  /\ mate_should_exit \in {0, 1}
  /\ wake_delay \in {"unset", "zero", "some"}
  /\ heap \in {{}, {"mate"}}

\* The mate is in, or about to begin, a day's work.
Working == mate \in {"work_test", "work", "interval"}

\* The part of the handshake that does work: once player_mate_sleep has found
\* the mate running and asked it to sleep, it does not return before the mate
\* has left its work, and no wake it had not yet noticed brings it back.
SleepExcludesWork ==
  player = "own" /\ mate_should_sleep = 1 => ~ Working

\* player_mate_init does not set wake_delay: a pass of the mate that reads it
\* must come after a wake that has set it.
DelayIsSetBeforeUse == mate = "delay" => wake_delay # "unset"

\* The mate struct outlives the mate thread.
NoUseAfterFree == mate \notin {"none", "exited"} => heap = {"mate"}

\* player_mate_sleep returns, even with wakes pending that the mate has yet
\* to notice.
SleepReturns == player \in {"sleep_test", "sleep_ask"} ~> player = "own"

\* player_mate_release ends the mate, wherever it is, and returns.
ReleaseReturns == player = "release_exit" ~> player = "released"
=============================================================================
