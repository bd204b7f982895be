---------------------------- MODULE PidPoolProofs ----------------------------
(***************************************************************************)
(* Proofs about the table of player ids, for any size of the table.        *)
(***************************************************************************)
EXTENDS PidPool, TLAPS

USE PidAssumption

\* Both are needed together: an issue and a release reset the slot only of an
\* id of the table, and a use is counted only for an id that is in use.
IInv == TypeOK /\ FreeIdIsClean

LEMMA InitInv == ASSUME Init PROVE IInv
  BY SMT DEF Init, IInv, TypeOK, FreeIdIsClean, Pid

\* The wrap-around keeps the start of the search in 0 .. MAX_PLAYER_THREADS.
LEMMA NextLastRange ==
  ASSUME NEW p \in Pid PROVE NextLast(p) \in 0 .. MAX_PLAYER_THREADS
  BY SMT DEF Pid, NextLast

LEMMA StepInv == ASSUME IInv, [Next]_vars PROVE IInv'
  <1>. USE DEF IInv, TypeOK, FreeIdIsClean
  <1>1. ASSUME NEW p \in Pid, RequestPid(p) PROVE IInv'
    <2>1. last' \in 0 .. MAX_PLAYER_THREADS
      BY <1>1, NextLastRange DEF RequestPid
    <2>. QED  BY <1>1, <2>1, SMT DEF RequestPid
  <1>2. ASSUME NEW p \in Pid, StartNoMem(p) PROVE IInv'
    BY <1>2 DEF StartNoMem
  <1>3. ASSUME NEW p \in Pid, ReleasePid(p) PROVE IInv'
    BY <1>3, SMT DEF ReleasePid
  <1>4. ASSUME NEW p \in Pid, OpenPidData(p) PROVE IInv'
    BY <1>4, SMT DEF OpenPidData
  <1>5. ASSUME NEW p \in Pid, ClosePidData(p) PROVE IInv'
    BY <1>5, SMT DEF ClosePidData
  <1>6. ASSUME NEW p \in Pid, NEW d \in Para, InitPidData(p, d) PROVE IInv'
    BY <1>6, SMT DEF InitPidData
  <1>7. CASE RequestFails \/ UNCHANGED vars
    BY <1>7 DEF RequestFails, vars
  <1>. QED  BY <1>1, <1>2, <1>3, <1>4, <1>5, <1>6, <1>7 DEF Next

\* The inductive invariant holds in every reachable state of the table.
THEOREM Invariance == Spec => []IInv
  BY InitInv, StepInv, PTL DEF Spec

\* player_id.c: ids, uses and the start of the search stay in range.
THEOREM TypeCorrect == Spec => []TypeOK
  <1>1. IInv => TypeOK  BY DEF IInv
  <1>. QED  BY <1>1, Invariance, PTL

\* player_request_pid and player_release_pid: a free id leads to no player.
THEOREM FreeIdCorrect == Spec => []FreeIdIsClean
  <1>1. IInv => FreeIdIsClean  BY DEF IInv
  <1>. QED  BY <1>1, Invariance, PTL

\* player_request_pid: once the start of the search has passed the end of the
\* table it stays there and no id is ever issued again.
THEOREM ExhaustionCorrect == Spec => ExhaustionIsForever
  <1>1. ASSUME Next, last = MAX_PLAYER_THREADS
        PROVE  last' = MAX_PLAYER_THREADS /\ priv_pid_pool' \subseteq priv_pid_pool
    <2>1. Candidate = {}
      BY <1>1, SMT DEF Candidate, Pid
    <2>2. \A p \in Pid : ~ RequestPid(p)
      BY <2>1 DEF RequestPid
    <2>. QED  BY <1>1, <2>2 DEF Next, RequestFails, StartNoMem, ReleasePid,
                                OpenPidData, ClosePidData, InitPidData, vars
  <1>2. [Next]_vars => [last = MAX_PLAYER_THREADS =>
                          /\ last' = MAX_PLAYER_THREADS
                          /\ priv_pid_pool' \subseteq priv_pid_pool]_vars
    BY <1>1 DEF vars
  <1>. QED  BY <1>2, PTL DEF Spec, ExhaustionIsForever
=============================================================================
