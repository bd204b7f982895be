------------------------------- MODULE PidPool -------------------------------
(***************************************************************************)
(* The table of player ids (player/player_id.c).  Every function holds     *)
(* priv_pid_mutex from its first line to its last and is one step here.    *)
(* The callers are those of player_ctrl.c: player_start requests an id and *)
(* either gives it its play_para_t, or returns without memory, or releases *)
(* it when the thread cannot be created; every other call is handed an id  *)
(* by the application, which may pass one that is no longer valid.         *)
(***************************************************************************)
EXTENDS Integers

CONSTANTS MAX_PLAYER_THREADS,  \* player_type.h: 32
          Para,                \* the play_para_t blocks an id can lead to
          NULL,
          MaxUse               \* bound on nested opens of one id

ASSUME PidAssumption ==
  /\ MAX_PLAYER_THREADS \in Nat \ {0, 1}
  /\ NULL \notin Para
  /\ MaxUse \in Nat

VARIABLES priv_pid_pool,   \* the ids in use (the bits of the word)
          priv_pid_data,   \* the play_para_t of each id
          priv_pid_used,   \* how many callers have each id open
          last,            \* the static of player_request_pid
          starting         \* ids player_start has requested, not yet given data

vars == << priv_pid_pool, priv_pid_data, priv_pid_used, last, starting >>

Pid == 0 .. (MAX_PLAYER_THREADS - 1)

\* player_id_pool_init
Init ==
  /\ priv_pid_pool = {}
  /\ priv_pid_data = [p \in Pid |-> NULL]
  /\ priv_pid_used = [p \in Pid |-> 0]
  /\ last = 0
  /\ starting = {}
-----------------------------------------------------------------------------
\* A search that starts from the first id whenever nothing is found from last on.
CandidateAnywhere == {p \in Pid : p \notin priv_pid_pool}

\* A search that does not look at the ids in use.
CandidateInUse == {p \in Pid : p >= last}

\* The ids the search of player_request_pid can find: it never looks below last.
Candidate == {p \in Pid : p >= last /\ p \notin priv_pid_pool}

\* The start of the next search, after id p was issued.
NextLast(p) == IF p + 1 = MAX_PLAYER_THREADS - 1 THEN 0 ELSE p + 1

\* player_request_pid finds the first free id from last on.
RequestPid(p) ==
  /\ p \in Candidate
  /\ \A q \in Candidate : p <= q
  /\ priv_pid_pool' = priv_pid_pool \cup {p}
  /\ priv_pid_data' = [priv_pid_data EXCEPT ![p] = NULL]
  /\ priv_pid_used' = [priv_pid_used EXCEPT ![p] = 0]
  /\ last' = NextLast(p)
  /\ starting' = starting \cup {p}

\* player_request_pid returns -1, and player_start PLAYER_NOT_VALID_PID.
RequestFails ==
  /\ Candidate = {}
  /\ UNCHANGED vars

\* player_start, MALLOC failed: it returns PLAYER_NOMEM and keeps the id.
StartNoMem(p) ==
  /\ p \in starting
  /\ starting' = starting \ {p}
  /\ UNCHANGED << priv_pid_pool, priv_pid_data, priv_pid_used, last >>

\* player_init_pid_data, called by player_start only.
InitPidData(p, d) ==
  /\ p \in starting
  /\ starting' = starting \ {p}
  /\ priv_pid_data' = IF p \in priv_pid_pool
                      THEN [priv_pid_data EXCEPT ![p] = d] ELSE priv_pid_data
  /\ UNCHANGED << priv_pid_pool, priv_pid_used, last >>

\* A release that forgets the data.
ReleaseKeepsData(p) ==
  /\ p \in priv_pid_pool
  /\ priv_pid_used' = [priv_pid_used EXCEPT ![p] = 0]
  /\ priv_pid_pool' = priv_pid_pool \ {p}
  /\ UNCHANGED << priv_pid_data, last, starting >>

\* player_release_pid: an id still open only costs a warning.
ReleasePid(p) ==
  /\ p \in priv_pid_pool
  /\ priv_pid_used' = [priv_pid_used EXCEPT ![p] = 0]
  /\ priv_pid_data' = [priv_pid_data EXCEPT ![p] = NULL]
  /\ priv_pid_pool' = priv_pid_pool \ {p}
  /\ UNCHANGED << last, starting >>

\* player_open_pid_data: counts the use even when the data is still NULL.
OpenPidData(p) ==
  /\ p \in priv_pid_pool
  /\ priv_pid_used[p] < MaxUse
  /\ priv_pid_used' = [priv_pid_used EXCEPT ![p] = @ + 1]
  /\ UNCHANGED << priv_pid_pool, priv_pid_data, last, starting >>

\* A close that does not look whether the id is open.
CloseUntested(p) ==
  /\ p \in priv_pid_pool
  /\ priv_pid_used' = [priv_pid_used EXCEPT ![p] = @ - 1]
  /\ UNCHANGED << priv_pid_pool, priv_pid_data, last, starting >>

\* player_close_pid_data: closing an id that is not open changes nothing.
ClosePidData(p) ==
  /\ p \in priv_pid_pool
  /\ priv_pid_used[p] > 0
  /\ priv_pid_used' = [priv_pid_used EXCEPT ![p] = @ - 1]
  /\ UNCHANGED << priv_pid_pool, priv_pid_data, last, starting >>

Next ==
  \/ RequestFails
  \/ \E p \in Pid :
       \/ RequestPid(p) \/ StartNoMem(p) \/ ReleasePid(p)
       \/ OpenPidData(p) \/ ClosePidData(p)
       \/ \E d \in Para : InitPidData(p, d)

Spec == Init /\ [][Next]_vars
-----------------------------------------------------------------------------
TypeOK ==
  /\ priv_pid_pool \subseteq Pid
  /\ priv_pid_data \in [Pid -> Para \cup {NULL}]
  /\ priv_pid_used \in [Pid -> 0 .. MaxUse]
  /\ last \in 0 .. MAX_PLAYER_THREADS
  /\ starting \subseteq Pid

\* An id that is not in use leads to no player and is open for nobody, whatever
\* its callers did and in whatever order: a stale id can only be refused.
FreeIdIsClean ==
  \A p \in Pid \ priv_pid_pool : priv_pid_data[p] = NULL /\ priv_pid_used[p] = 0

\* The wrap-around of last is one short of the table: issuing the last id of
\* the table leaves the search nowhere to start, and from then on no id is
\* ever issued, though every one may have been released.
ExhaustionIsForever ==
  [][last = MAX_PLAYER_THREADS =>
       last' = MAX_PLAYER_THREADS /\ priv_pid_pool' \subseteq priv_pid_pool]_vars
=============================================================================
