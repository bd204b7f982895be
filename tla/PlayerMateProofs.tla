--------------------------- MODULE PlayerMateProofs ---------------------------
(***************************************************************************)
(* Proofs about the player / mate handshake, for any number of wakes that  *)
(* the mate has not yet noticed.                                           *)
(***************************************************************************)
EXTENDS PlayerMate, TLAPS

USE MateAssumption

\* mate_isrunng is up exactly while the mate is between its two assignments.
RunningFlag == mate_isrunng = 1 <=> mate \in Running

\* Where the player thread is when the mate exists, and when it has ended.
Lifetimes ==
  /\ player = "starting" <=> mate = "none"
  /\ heap = {"mate"} <=> player \notin {"starting", "released"}
  /\ player \in {"release_free", "released"} => mate = "exited"

\* Until the first wake, or the release, nothing lets the mate through.
UnsetDelay ==
  wake_delay = "unset" =>
    /\ mate_sem = 0
    /\ mate \in {"none", "exit_test", "sem_wait", "exited"}
    /\ player \in {"starting", "own", "release_exit", "release_delay"}

\* The posts that can be pending at each place of the player thread.
Posts ==
  /\ player \in {"wake_delay", "wake_post"} => mate_sem < MaxSem
  /\ player \notin {"release_join", "release_free", "released"} => mate_sem <= MaxSem

IInv == /\ TypeOK /\ RunningFlag /\ Lifetimes /\ UnsetDelay /\ Posts
        /\ SleepExcludesWork

LEMMA InitInv == ASSUME Init PROVE IInv
  BY SMT DEF Init, IInv, TypeOK, RunningFlag, Lifetimes, UnsetDelay, Posts,
             SleepExcludesWork, PlayerPC, MatePC, Running, Working

\* The player thread's steps, one by one.
LEMMA PlayerStepInv == ASSUME IInv, PlayerNext PROVE IInv'
  <1>. USE DEF IInv, TypeOK, RunningFlag, Lifetimes, UnsetDelay, Posts,
               SleepExcludesWork, PlayerPC, MatePC, Running, Working, Player, flags
  <1>1. CASE MateInit           BY <1>1, SMT DEF MateInit, Mate
  <1>2. CASE WakeSetDelay       BY <1>2, SMT DEF WakeSetDelay
  <1>3. CASE WakeClearSleep     BY <1>3, SMT DEF WakeClearSleep
  <1>4. CASE WakePost           BY <1>4, SMT DEF WakePost
  <1>5. CASE ReadReturns        BY <1>5, SMT DEF ReadReturns
  <1>6. CASE SleepTest          BY <1>6, SMT DEF SleepTest
  <1>7. CASE SleepAsk           BY <1>7, SMT DEF SleepAsk
  <1>8. CASE ReleaseSetSleep    BY <1>8, SMT DEF ReleaseSetSleep
  <1>9. CASE ReleaseSetExit     BY <1>9, SMT DEF ReleaseSetExit
  <1>10. CASE ReleaseClearDelay BY <1>10, SMT DEF ReleaseClearDelay
  <1>11. CASE ReleasePost       BY <1>11, SMT DEF ReleasePost
  <1>12. CASE ReleaseJoin       BY <1>12, SMT DEF ReleaseJoin
  <1>13. CASE ReleaseFree       BY <1>13, SMT DEF ReleaseFree
  <1>. QED  BY <1>1, <1>2, <1>3, <1>4, <1>5, <1>6, <1>7, <1>8, <1>9, <1>10, <1>11,
               <1>12, <1>13 DEF PlayerNext, Wake, Sleep, Release

\* The mate thread's steps, one by one.
LEMMA MateStepInv == ASSUME IInv, MateNext PROVE IInv'
  <1>. USE DEF IInv, TypeOK, RunningFlag, Lifetimes, UnsetDelay, Posts,
               SleepExcludesWork, PlayerPC, MatePC, Running, Working, Mate, flags
  <1>1. CASE ExitTest      BY <1>1, SMT DEF ExitTest
  <1>2. CASE SemWait       BY <1>2, SMT DEF SemWait
  <1>3. CASE SetRunning    BY <1>3, SMT DEF SetRunning
  <1>4. CASE DelayWait     BY <1>4, SMT DEF DelayWait
  <1>5. CASE ClearDelay    BY <1>5, SMT DEF ClearDelay
  <1>6. CASE AsleepTest    BY <1>6, SMT DEF AsleepTest
  <1>7. CASE WorkTest      BY <1>7, SMT DEF WorkTest
  <1>8. CASE Work          BY <1>8, SMT DEF Work
  <1>9. CASE IntervalWait  BY <1>9, SMT DEF IntervalWait
  <1>10. CASE ClearRunning BY <1>10, SMT DEF ClearRunning
  <1>. QED  BY <1>1, <1>2, <1>3, <1>4, <1>5, <1>6, <1>7, <1>8, <1>9, <1>10
            DEF MateNext

LEMMA StepInv == ASSUME IInv, [Next]_vars PROVE IInv'
  <1>1. CASE UNCHANGED vars
    BY <1>1 DEF vars, flags, IInv, TypeOK, RunningFlag, Lifetimes, UnsetDelay, Posts,
                SleepExcludesWork, Working
  <1>. QED  BY <1>1, PlayerStepInv, MateStepInv DEF Next, Done

\* The inductive invariant holds in every reachable state of the handshake.
THEOREM Invariance == Spec => []IInv
  BY InitInv, StepInv, PTL DEF Spec

\* player_mate.c: both threads stay in their programs and the flags in range.
THEOREM TypeCorrect == Spec => []TypeOK
  <1>1. IInv => TypeOK  BY DEF IInv
  <1>. QED  BY <1>1, Invariance, PTL

\* player_mate_sleep: a sleep that was asked for is over before the player
\* thread goes on, and lasts until it wakes its mate again.
THEOREM SleepCorrect == Spec => []SleepExcludesWork
  <1>1. IInv => SleepExcludesWork  BY DEF IInv
  <1>. QED  BY <1>1, Invariance, PTL

\* player_mate_init and player_mate_thread_run: wake_delay is never read unset.
THEOREM DelayCorrect == Spec => []DelayIsSetBeforeUse
  <1>1. IInv => DelayIsSetBeforeUse  BY DEF IInv, UnsetDelay, DelayIsSetBeforeUse
  <1>. QED  BY <1>1, Invariance, PTL

\* player_mate_release: the mate has exited when its struct is freed.
THEOREM ReleaseCorrect == Spec => []NoUseAfterFree
  <1>1. IInv => NoUseAfterFree  BY DEF IInv, Lifetimes, NoUseAfterFree
  <1>. QED  BY <1>1, Invariance, PTL
-----------------------------------------------------------------------------
(* How long the player thread can be made to wait.                         *)

\* The places at which the player thread waits for its mate.
Waiting == {"sleep_test", "sleep_ask", "release_join"}

\* The steps a mate that is told to sleep has before it, up to the semaphore,
ToSemaphore ==
  CASE mate \in {"sem_wait", "exited", "none"}   -> 0
    [] mate = "exit_test"                        -> 1
    [] mate = "wakeup"                           -> 2
    [] mate \in {"asleep_test", "work_test"}     -> 3
    [] mate \in {"delayed", "interval"}          -> 4
    [] mate \in {"delay", "work"}                -> 5
    [] OTHER                                     -> 6   \* run

\* and behind it: a wake it has not noticed yet lets it through once more.
StepsLeft == 7 * mate_sem + ToSemaphore

\* A mate that is told to sleep while the player thread waits comes nearer to its
\* end with each of its steps, and nothing brings it back.
WaitShortens ==
  player \in Waiting /\ mate_should_sleep = 1 =>
    IF MateNext THEN StepsLeft' < StepsLeft ELSE StepsLeft' = StepsLeft

\* The mate does not wait for a wake when the player thread waits for its end.
ReleaseIsNoticed ==
  player = "release_join" => mate # "sem_wait" \/ mate_sem > 0

\* A release has told the mate to go before it posts, and the mate looks for that
\* before it comes to the semaphore again.
Told ==
  /\ player \in {"release_exit", "release_delay", "release_post", "release_join"}
       => mate_should_sleep = 1
  /\ player \in {"release_delay", "release_post", "release_join"} => mate_should_exit = 1
  /\ ReleaseIsNoticed

\* When no step is left, the wait is over: the mate is not running, or has exited.
WaitEnds ==
  /\ StepsLeft \in Nat
  /\ StepsLeft = 0 => mate_isrunng = 0 /\ (player = "release_join" => mate = "exited")

LEMMA ToldStep == ASSUME IInv, Told, [Next]_vars PROVE Told'
  <1>. USE DEF Told, ReleaseIsNoticed, flags
  <1>1. mate_sem \in Nat
    BY SMT DEF IInv, TypeOK
  <1>2. CASE MateInit \/ Wake \/ ReadReturns \/ Sleep
    BY <1>2, SMT DEF MateInit, Wake, WakeSetDelay, WakeClearSleep, WakePost, ReadReturns, Sleep,
                     SleepTest, SleepAsk, Player
  <1>3. CASE ReleaseSetSleep \/ Release
    BY <1>1, <1>3, SMT DEF ReleaseSetSleep, Release, ReleaseSetExit, ReleaseClearDelay, ReleasePost,
                           ReleaseJoin, ReleaseFree, Player
  <1>4. CASE MateNext
    BY <1>4, SMT DEF MateNext, ExitTest, SemWait, SetRunning, DelayWait, ClearDelay, AsleepTest,
                     WorkTest, Work, IntervalWait, ClearRunning, Mate
  <1>5. CASE UNCHANGED vars
    BY <1>5 DEF vars
  <1>. QED  BY <1>2, <1>3, <1>4, <1>5 DEF Next, PlayerNext, Done

LEMMA ToldAlways == Spec => []Told
  <1>1. Init => Told
    BY DEF Init, Told, ReleaseIsNoticed
  <1>2. IInv /\ Told /\ [Next]_vars => Told'
    BY ToldStep
  <1>. QED  BY <1>1, <1>2, Invariance, PTL DEF Spec

\* player_mate_thread_run_l: told to sleep, the mate does not begin another day's work.
LEMMA MateNears ==
  ASSUME IInv, mate_should_sleep = 1, MateNext PROVE StepsLeft' < StepsLeft
  <1>. USE DEF StepsLeft, ToSemaphore, flags
  <1>1. mate_sem \in Nat
    BY SMT DEF IInv, TypeOK
  <1>2. CASE ExitTest      BY <1>1, <1>2, SMT DEF ExitTest
  <1>3. CASE SemWait       BY <1>1, <1>3, SMT DEF SemWait, Mate
  <1>4. CASE SetRunning \/ DelayWait \/ ClearDelay
    BY <1>1, <1>4, SMT DEF SetRunning, DelayWait, ClearDelay, Mate
  <1>5. CASE AsleepTest    BY <1>1, <1>5, SMT DEF AsleepTest
  <1>6. CASE WorkTest      BY <1>1, <1>6, SMT DEF WorkTest
  <1>7. CASE Work \/ IntervalWait \/ ClearRunning
    BY <1>1, <1>7, SMT DEF Work, IntervalWait, ClearRunning, Mate
  <1>. QED  BY <1>2, <1>3, <1>4, <1>5, <1>6, <1>7 DEF MateNext

\* While the player thread waits for its mate, in player_mate_sleep once it has asked or
\* in pthread_join, each step of the mate brings the end of the wait nearer: at most
\* seven for each wake the mate has not noticed yet and six more.
THEOREM WaitBounds == Spec => [][WaitShortens]_vars
  <1>1. IInv /\ [Next]_vars => [WaitShortens]_vars
    <2>. SUFFICES ASSUME IInv, Next, player \in Waiting, mate_should_sleep = 1
                  PROVE  IF MateNext THEN StepsLeft' < StepsLeft ELSE StepsLeft' = StepsLeft
      BY DEF WaitShortens
    <2>1. CASE MateNext
      BY <2>1, MateNears
    <2>2. CASE ~ MateNext
      <3>1. UNCHANGED << mate, mate_sem >>
        BY <2>2 DEF Next, PlayerNext, Done, MateInit, Wake, WakeSetDelay, WakeClearSleep, WakePost,
                    ReadReturns, Sleep, SleepTest, SleepAsk, ReleaseSetSleep, Release,
                    ReleaseSetExit, ReleaseClearDelay, ReleasePost, ReleaseJoin, ReleaseFree,
                    Player, Waiting, vars
      <3>. QED  BY <2>2, <3>1 DEF StepsLeft, ToSemaphore
    <2>. QED  BY <2>1, <2>2
  <1>. QED  BY <1>1, Invariance, PTL DEF Spec

\* player_mate_release's three posts: the mate it joins is not left at its semaphore,
\* and when none of its steps is left the player thread can go on.
THEOREM WaitIsServed == Spec => [](ReleaseIsNoticed /\ WaitEnds)
  <1>1. IInv /\ Told => ReleaseIsNoticed /\ WaitEnds
    <2>. SUFFICES ASSUME IInv, Told PROVE WaitEnds
      BY DEF Told
    <2>1. mate_sem \in Nat /\ mate \in MatePC /\ mate_isrunng \in {0, 1}
      BY SMT DEF IInv, TypeOK
    <2>2. ToSemaphore \in 0 .. 6
          /\ (ToSemaphore = 0 => mate \in {"sem_wait", "exited", "none"})
      BY <2>1, SMT DEF ToSemaphore, MatePC, Running
    <2>3. StepsLeft \in Nat /\ (StepsLeft = 0 => mate_sem = 0 /\ ToSemaphore = 0)
      BY <2>1, <2>2, SMT DEF StepsLeft
    <2>4. mate \in {"sem_wait", "exited", "none"} => mate_isrunng = 0
      BY <2>1, SMT DEF IInv, RunningFlag, Running
    <2>5. mate = "none" => player = "starting"
      BY DEF IInv, Lifetimes
    <2>. QED  BY <2>2, <2>3, <2>4, <2>5 DEF WaitEnds, Told, ReleaseIsNoticed
  <1>. QED  BY <1>1, Invariance, ToldAlways, PTL
=============================================================================
