-------------------------- MODULE PlayerControlProofs --------------------------
(***************************************************************************)
(* Proofs about the life of players, for any number of application         *)
(* threads, blocks, pthread_t values and ids.  The invariant says who      *)
(* holds what: each id in use by a call or by a client is that of one      *)
(* client, each allocated block that of one id, and each thread not yet    *)
(* joined that of one block.  On top of it the kill list is shown to hold  *)
(* one entry at most for each block, and the table of ids to be used as    *)
(* PidPool specifies it, so that its theorems hold for the whole.          *)
(***************************************************************************)
EXTENDS PlayerControl, SequenceTheorems, WellFoundedInduction, TLAPS

USE ControlAssumption

StartAt == {"malloc", "publish", "pool", "create", "store", "undo"}
OpenAt  == {"stop_status", "match", "add", "send", "join", "uninterrupt", "msg_status",
            "msg_send", "query", "close"}
ExitAt  == {"exit_status", "exit_join", "exit_uninterrupt", "free", "exit_close", "release"}

\* The id a call works with, as a set.
Busy(c) == IF At(c, "idle") THEN {} ELSE {call[c].pid}

\* The ids client c has requested and not released; and those of them that lead to
\* the block of a player.
Holds(c)   == own[c] \cup Busy(c)
Players(c) == own[c] \cup IF call[c].at \in Working \ {"publish"} THEN {call[c].pid} ELSE {}

\* How often a call has its id open.
Opens(c) == CASE call[c].at \in {"idle", "release"} \cup StartAt -> 0
              [] call[c].at \in OpenAt /\ call[c].api = "exit" -> 2
              [] OTHER -> 1

TableTypes ==
  /\ priv_pid_pool \subseteq Table!Pid
  /\ priv_pid_data \in [Table!Pid -> Block \cup {NULL}]
  /\ priv_pid_used \in [Table!Pid -> 0 .. 2]

\* Where a call can be, by its function, and whether its id is one of its client's.
CallShape ==
  \A c \in Client : ~ At(c, "idle") =>
    /\ call[c].api = "start" <=> call[c].at \in StartAt
    /\ call[c].at \in ExitAt => call[c].api = "exit"
    /\ call[c].api \in {"start", "exit"} <=> call[c].pid \notin own[c]
    /\ call[c].at \in StartAt => (call[c].at = "store" <=> call[c].t # NULL)

\* Every id held is in use, by one client, and open as often as its call says.
IdsHeld ==
  \A c \in Client : \A p \in Holds(c) :
    /\ p \in priv_pid_pool
    /\ priv_pid_used[p] = IF p \in Busy(c) THEN Opens(c) ELSE 0
    /\ \A d \in Client : p \in Holds(d) => c = d

\* The block of a player that is not yet published is nobody else's.
NewBlocks ==
  \A c \in Client : At(c, "publish") =>
    /\ b(c) \in heap
    /\ \A d \in Client :
         /\ \A q \in Players(d) : priv_pid_data[q] # b(c)
         /\ At(d, "publish") /\ b(d) = b(c) => c = d

\* Every other one is found by its id, and by no other id.
BlocksHeld ==
  /\ \A c \in Client : \A p \in Players(c) :
       /\ priv_pid_data[p] \in heap
       /\ \A d \in Client : \A q \in Players(d) : priv_pid_data[p] = priv_pid_data[q] => p = q
  /\ \A c \in Client : call[c].at \in Working \ {"publish"} => b(c) = priv_pid_data[call[c].pid]

\* All allocated blocks are accounted for.
BlocksKept ==
  \A x \in heap : \E c \in Client :
    \/ At(c, "publish") /\ b(c) = x
    \/ \E p \in Players(c) : priv_pid_data[p] = x

\* A block is ready, and knows its thread, once player_start has come that far.
BlocksReady ==
  \A c \in Client :
    /\ call[c].at \in {"publish", "pool", "create", "store"} => para[b(c)].pthread_id = NULL
    /\ call[c].at \in {"create", "store"} => para[b(c)].pool = "ready"
    /\ \A p \in Players(c) :
         \/ p \in Busy(c) /\ call[c].at \in StartAt
         \/ para[priv_pid_data[p]].pool = "ready" /\ para[priv_pid_data[p]].pthread_id \in Tid

\* A thread not yet joined has a block, which knows the thread, or is about to.
ThreadsHeld ==
  \A t \in Tid : on[t] # NULL =>
    /\ on[t] \in heap /\ para[on[t]].pool = "ready"
    /\ \/ para[on[t]].pthread_id = t
       \/ \E c \in Client : At(c, "store") /\ b(c) = on[t] /\ call[c].t = t

\* Nothing runs on a block that is about to be freed.
Joined ==
  \A c \in Client : call[c].at \in {"exit_uninterrupt", "free"} => \A t \in Tid : on[t] # b(c)

Held == /\ TableTypes /\ CallShape /\ IdsHeld /\ NewBlocks /\ BlocksHeld
        /\ BlocksKept /\ BlocksReady /\ ThreadsHeld /\ Joined

IInv == TypeOK /\ Held
-----------------------------------------------------------------------------
(* Facts about the types.                                                  *)

\* Moving a call on, or back to idle, keeps it a call.
LEMMA MoveTypes ==
  ASSUME TypeOK, NEW c \in Client
  PROVE  /\ Idle \in Call
         /\ \A to \in CallAt : [call EXCEPT ![c].at = to] \in [Client -> Call]
         /\ [call EXCEPT ![c] = Idle] \in [Client -> Call]
         /\ \A x \in Block : [call EXCEPT ![c].at = "publish", ![c].b = x] \in [Client -> Call]
         /\ \A t \in Tid : [call EXCEPT ![c].at = "store", ![c].t = t] \in [Client -> Call]
<1>1. Idle \in Call
  BY DEF Idle, Call, CallAt, Table!Pid
<1>2. \A to \in CallAt : [call[c] EXCEPT !.at = to] \in Call
  BY DEF TypeOK, Call
<1>3. \A r \in Call, x \in Block, to \in CallAt : [r EXCEPT !.at = to, !.b = x] \in Call
  BY DEF Call
<1>4. \A r \in Call, t \in Tid, to \in CallAt : [r EXCEPT !.at = to, !.t = t] \in Call
  BY DEF Call
<1>7. call[c] \in Call /\ "publish" \in CallAt /\ "store" \in CallAt
  BY DEF TypeOK, CallAt
<1>5. \A r \in Call : [call EXCEPT ![c] = r] \in [Client -> Call]
  BY DEF TypeOK
<1>6. /\ \A to : [call EXCEPT ![c].at = to] = [call EXCEPT ![c] = [call[c] EXCEPT !.at = to]]
      /\ \A x : [call EXCEPT ![c].at = "publish", ![c].b = x]
                = [call EXCEPT ![c] = [call[c] EXCEPT !.at = "publish", !.b = x]]
      /\ \A t : [call EXCEPT ![c].at = "store", ![c].t = t]
                = [call EXCEPT ![c] = [call[c] EXCEPT !.at = "store", !.t = t]]
  BY DEF TypeOK
<1> QED
  BY <1>1, <1>2, <1>3, <1>4, <1>5, <1>6, <1>7

\* A step that only moves a call on keeps all types.
LEMMA QuietTypes ==
  ASSUME TypeOK, NEW c \in Client, Return(c) \/ \E to \in CallAt : Goto(c, to),
         UNCHANGED << heap, para, threadVars, kill_item_list, own >>
  PROVE  TypeOK'
<1>1. call' \in [Client -> Call]
  <2>1. CASE Return(c)
    BY <2>1, MoveTypes DEF Return
  <2>2. CASE \E to \in CallAt : Goto(c, to)
    <3>1. PICK to \in CallAt : call' = [call EXCEPT ![c].at = to]
      BY <2>2 DEF Goto
    <3>2. [call EXCEPT ![c].at = to] \in [Client -> Call]
      BY MoveTypes
    <3> QED
      BY <3>1, <3>2, Zenon
  <2> QED
    BY <2>1, <2>2
<1> QED
  BY <1>1 DEF TypeOK, threadVars

\* So does setting one field of a block for the block.
LEMMA FieldTypes ==
  ASSUME TypeOK, NEW x, NEW t \in Tid \cup {NULL}, NEW s \in {"playing", "ended", "exit"}
  PROVE  /\ [para EXCEPT ![x] = Fresh] \in [Block -> Fields]
         /\ [para EXCEPT ![x].pool = "ready"] \in [Block -> Fields]
         /\ [para EXCEPT ![x].stop = 1] \in [Block -> Fields]
         /\ [para EXCEPT ![x].pthread_id = t] \in [Block -> Fields]
         /\ [para EXCEPT ![x].status = s] \in [Block -> Fields]
<1>1. Fresh \in Fields
  BY DEF Fresh, Fields
<1>2. \A f \in Fields : /\ [f EXCEPT !.pool = "ready"] \in Fields
                        /\ [f EXCEPT !.stop = 1] \in Fields
                        /\ [f EXCEPT !.pthread_id = t] \in Fields
                        /\ [f EXCEPT !.status = s] \in Fields
  BY DEF Fields
<1> QED
  BY <1>1, <1>2 DEF TypeOK

\* r is s without one entry e, or s itself when e is not in it.
Cut(s, e, r) ==
  \/ r = s /\ \A i \in 1 .. Len(s) : s[i] # e
  \/ \E m \in 1 .. Len(s) :
       /\ s[m] = e
       /\ Len(r) = Len(s) - 1
       /\ \A i \in 1 .. Len(s) - 1 : r[i] = s[IF i < m THEN i ELSE i + 1]

LEMMA RemoveFirstCuts ==
  ASSUME NEW S, NEW s \in Seq(S), NEW e
  PROVE  RemoveFirst(s, e) \in Seq(S) /\ Cut(s, e, RemoveFirst(s, e))
<1> DEFINE I == {i \in 1 .. Len(s) : s[i] = e}
<1>1. CASE I = {}
  BY <1>1 DEF RemoveFirst, Cut
<1>2. CASE I # {}
  <2> DEFINE R == OpToRel(<, Nat)
  <2>1. IsWellFoundedOn(R, Nat)
    BY NatLessThanWellFounded
  <2>2. I \subseteq Nat
    OBVIOUS
  <2>3. \A i, j \in Nat : <<j, i>> \in R <=> j < i
    BY DEF OpToRel
  <2> HIDE DEF R, I
  <2>4. PICK least \in I : \A j \in I : ~ (<<j, least>> \in R)
    BY <1>2, <2>1, <2>2, WFMin
  <2>5. \A j \in I : least =< j
    <3>1. \A j \in I : ~ (j < least)
      BY <2>2, <2>3, <2>4, Zenon
    <3>2. \A j \in Nat : ~ (j < least) => least =< j
      BY <2>2
    <3> QED
      BY <2>2, <3>1, <3>2
  <2>6. Min(I) \in I
    BY <2>5 DEF Min
  <2> USE DEF I
  <2>7. Min(I) \in 1 .. Len(s) /\ s[Min(I)] = e
    BY <2>6
  <2>8. RemoveFirst(s, e) = RemoveAt(s, Min(I))
    BY <1>2, <2>7 DEF RemoveFirst, SelectInSeq
  <2> HIDE DEF I
  <2> DEFINE m == Min(I)
             s1 == SubSeq(s, 1, m - 1)
             s2 == SubSeq(s, m + 1, Len(s))
  <2>9. m \in 1 .. Len(s) /\ Len(s) \in Nat /\ \A k \in 1 .. Len(s) : s[k] \in S
    BY <2>7
  <2> HIDE DEF m
  <2>10. s1 \in Seq(S) /\ Len(s1) = m - 1 /\ \A k \in 1 .. m - 1 : s1[k] = s[k]
    BY <2>9, SubSeqProperties
  <2>11. /\ s2 \in Seq(S) /\ Len(s2) = Len(s) - m
         /\ \A k \in 1 .. Len(s) - m : s2[k] = s[m + k]
    <3>1. s2 \in Seq(S) /\ Len(s2) = Len(s) - m
      BY <2>9, SubSeqProperties
    <3>2. ASSUME NEW k \in 1 .. Len(s) - m PROVE s2[k] = s[m + k]
      <4>1. s2[k] = s[m + 1 + k - 1]
        BY <2>9, <3>1, SubSeqProperties
      <4>2. m + 1 + k - 1 = m + k
        BY <2>9
      <4> QED
        BY <4>1, <4>2
    <3> QED
      BY <3>1, <3>2
  <2> HIDE DEF s1, s2
  <2>12. /\ s1 \o s2 \in Seq(S) /\ Len(s1 \o s2) = Len(s) - 1
         /\ \A i \in 1 .. Len(s) - 1 : (s1 \o s2)[i] = s[IF i < m THEN i ELSE i + 1]
    <3>1. /\ s1 \o s2 \in Seq(S) /\ Len(s1 \o s2) = Len(s1) + Len(s2)
          /\ \A i \in 1 .. Len(s1) + Len(s2) :
               (s1 \o s2)[i] = IF i <= Len(s1) THEN s1[i] ELSE s2[i - Len(s1)]
      BY <2>10, <2>11, ConcatProperties, Zenon
    <3>2. Len(s1) + Len(s2) = Len(s) - 1
      BY <2>9, <2>10, <2>11
    <3>3. ASSUME NEW i \in 1 .. Len(s) - 1, i < m PROVE (s1 \o s2)[i] = s[i]
      BY <2>9, <2>10, <3>1, <3>2, <3>3
    <3>4. ASSUME NEW i \in 1 .. Len(s) - 1, ~ (i < m) PROVE (s1 \o s2)[i] = s[i + 1]
      <4>1. (s1 \o s2)[i] = s2[i - Len(s1)]
        BY <2>9, <2>10, <3>1, <3>2, <3>4
      <4>2. i - Len(s1) \in 1 .. Len(s) - m /\ m + (i - Len(s1)) = i + 1
        BY <2>9, <2>10, <3>4
      <4> QED
        BY <2>11, <4>1, <4>2
    <3> QED
      BY <3>1, <3>2, <3>3, <3>4
  <2>13. RemoveFirst(s, e) = s1 \o s2
    BY <2>8 DEF RemoveAt, m, s1, s2
  <2>14. s[m] = e
    BY <2>7 DEF m
  <2> QED
    BY <2>9, <2>12, <2>13, <2>14 DEF Cut
<1> QED BY <1>1, <1>2

LEMMA RemoveFirstType ==
  ASSUME NEW S, NEW s \in Seq(S), NEW e
  PROVE  RemoveFirst(s, e) \in Seq(S) /\ Len(RemoveFirst(s, e)) <= Len(s)
<1> DEFINE r == RemoveFirst(s, e)
<1>1. r \in Seq(S) /\ Cut(s, e, r)
  BY RemoveFirstCuts
<1> HIDE DEF r
<1>2. Len(r) = Len(s) \/ Len(r) = Len(s) - 1
  BY <1>1 DEF Cut
<1> QED
  BY <1>1, <1>2 DEF r

LEMMA UninterruptTypes ==
  ASSUME TypeOK, NEW c, Uninterrupt(c)
  PROVE  kill_item_list' \in Seq(Tid) /\ Len(kill_item_list') <= MAX_PLAYER_THREADS
<1>1. kill_item_list \in Seq(Tid) /\ Len(kill_item_list) <= MAX_PLAYER_THREADS
  BY DEF TypeOK
<1>2. kill_item_list' \in Seq(Tid) /\ Len(kill_item_list') <= Len(kill_item_list)
  BY <1>1, RemoveFirstType DEF Uninterrupt
<1> QED
  BY <1>1, <1>2
-----------------------------------------------------------------------------
(* What a call knows of its id and its block.                              *)

LEMMA AtWork ==
  ASSUME IInv, NEW c \in Client, call[c].at \in Working \ {"publish"}
  PROVE  /\ call[c].pid \in Players(c) /\ call[c].pid \in Table!Pid
         /\ b(c) = priv_pid_data[call[c].pid] /\ b(c) \in heap /\ b(c) \in Block
         /\ call[c].at \notin StartAt => tid(c) \in Tid /\ para[b(c)].pool = "ready"
<1>1. call[c].pid \in Players(c)
  BY DEF Players
<1>2. b(c) = priv_pid_data[call[c].pid]
  BY DEF IInv, Held, BlocksHeld
<1>3. b(c) \in heap /\ b(c) \in Block
  BY <1>1, <1>2 DEF IInv, Held, BlocksHeld, TypeOK
<1>4. call[c].at \notin StartAt => tid(c) \in Tid /\ para[b(c)].pool = "ready"
  BY <1>1, <1>2 DEF IInv, Held, BlocksReady, tid
<1>5. call[c].pid \in Table!Pid
  BY DEF IInv, TypeOK, Call
<1> QED
  BY <1>1, <1>2, <1>3, <1>4, <1>5

LEMMA TypeHolds == ASSUME IInv, [Next]_vars PROVE TypeOK'
<1>1. TypeOK /\ TableTypes
  BY DEF IInv, Held
<1>2. ASSUME NEW c \in Client, Start(c) PROVE TypeOK'
  <2>1. CASE StartRequestPid(c)
    <3>1. PICK p \in Table!Pid :
            call' = [call EXCEPT ![c] = [Idle EXCEPT !.at = "malloc", !.api = "start", !.pid = p]]
      BY <2>1 DEF StartRequestPid
    <3>2. [Idle EXCEPT !.at = "malloc", !.api = "start", !.pid = p] \in Call
      BY <1>1, MoveTypes DEF Call, CallAt
    <3> QED
      BY <1>1, <2>1, <3>1, <3>2 DEF TypeOK, StartRequestPid, threadVars
  <2>2. CASE StartRefused(c)
    BY <1>1, <2>2 DEF TypeOK, StartRefused, threadVars
  <2>3. CASE StartMalloc(c)
    <3>1. CASE \E new \in Block \ heap :
                 /\ heap' = heap \cup {new}
                 /\ para' = [para EXCEPT ![new] = Fresh]
                 /\ call' = [call EXCEPT ![c].at = "publish", ![c].b = new]
      <4>1. PICK new \in Block \ heap :
                 /\ heap' = heap \cup {new}
                 /\ para' = [para EXCEPT ![new] = Fresh]
                 /\ call' = [call EXCEPT ![c].at = "publish", ![c].b = new]
        BY <3>1
      <4>2. call' \in [Client -> Call]
        BY <1>1, <4>1, MoveTypes
      <4>3. para' \in [Block -> Fields]
        BY <1>1, <4>1, FieldTypes
      <4> QED
        BY <1>1, <2>3, <4>1, <4>2, <4>3 DEF TypeOK, StartMalloc, threadVars
    <3>2. CASE Return(c) /\ UNCHANGED << heap, para >>
      BY <1>1, <2>3, <3>2, MoveTypes DEF TypeOK, StartMalloc, Return, threadVars
    <3> QED
      BY <2>3, <3>1, <3>2 DEF StartMalloc
  <2>4. CASE StartPublish(c)
    BY <1>1, <2>4, MoveTypes DEF TypeOK, StartPublish, Step, Goto, CallAt, threadVars
  <2>5. CASE StartPool(c)
    BY <1>1, <2>5, MoveTypes, FieldTypes DEF TypeOK, StartPool, Step, Goto, CallAt, threadVars
  <2>6. CASE StartCreate(c)
    <3>1. CASE \E t \in Tid : /\ on' = [on EXCEPT ![t] = b(c)] /\ running' = running \cup {t}
                              /\ call' = [call EXCEPT ![c].at = "store", ![c].t = t]
                              /\ heap' = heap
      <4>1. PICK t \in Tid : /\ on' = [on EXCEPT ![t] = b(c)] /\ running' = running \cup {t}
                             /\ call' = [call EXCEPT ![c].at = "store", ![c].t = t]
                             /\ heap' = heap
        BY <3>1
      <4>2. call' \in [Client -> Call]
        BY <1>1, <4>1, MoveTypes
      <4>3. b(c) \in Block
        BY <2>6, AtWork DEF StartCreate, At, Working, CallAt
      <4> QED
        BY <1>1, <2>6, <4>1, <4>2, <4>3 DEF TypeOK, StartCreate
    <3>2. CASE heap' = heap \ {b(c)} /\ Goto(c, "undo") /\ UNCHANGED threadVars
      BY <1>1, <2>6, <3>2, MoveTypes DEF TypeOK, StartCreate, Goto, CallAt, threadVars
    <3> QED
      BY <2>6, <3>1, <3>2 DEF StartCreate
  <2>7. CASE StartStoreTid(c)
    <3>1. call[c].t \in Tid \cup {NULL} /\ call[c].pid \in Table!Pid
      BY <1>1 DEF TypeOK, Call
    <3>2. para' \in [Block -> Fields]
      BY <1>1, <2>7, <3>1, FieldTypes DEF StartStoreTid
    <3> QED
      BY <1>1, <2>7, <3>1, <3>2, MoveTypes DEF TypeOK, StartStoreTid, Return, threadVars
  <2>8. CASE StartUndo(c)
    BY <1>1, <2>8, MoveTypes DEF TypeOK, StartUndo, Return, threadVars
  <2> QED
    BY <1>2, <2>1, <2>2, <2>3, <2>4, <2>5, <2>6, <2>7, <2>8 DEF Start
<1>3. ASSUME NEW c \in Client, Stop(c) PROVE TypeOK'
  <2>1. CASE Open(c)
    <3>1. PICK p \in own[c], api \in DOMAIN Entry :
            /\ call' = [call EXCEPT ![c] = [Idle EXCEPT !.at = Entry[api], !.api = api,
                                                !.pid = p, !.b = priv_pid_data[p]]]
            /\ own' = IF api = "exit" THEN [own EXCEPT ![c] = @ \ {p}] ELSE own
      BY <2>1 DEF Open
    <3>2. p \in Table!Pid /\ priv_pid_data[p] \in Block \cup {NULL}
      BY <1>1 DEF TypeOK, TableTypes
    <3>3. Entry[api] \in CallAt
      BY DEF Entry, CallAt
    <3>4. [Idle EXCEPT !.at = Entry[api], !.api = api, !.pid = p, !.b = priv_pid_data[p]] \in Call
      BY <1>1, <3>2, <3>3, MoveTypes DEF Call
    <3>5. own' \in [Client -> SUBSET Table!Pid]
      BY <1>1, <3>1 DEF TypeOK
    <3> QED
      BY <1>1, <2>1, <3>1, <3>4, <3>5 DEF TypeOK, Open, threadVars
  <2>2. CASE StopStatus(c) \/ InterruptMatch(c)
    <3>1. \E to \in CallAt : Goto(c, to)
      BY <2>2 DEF StopStatus, InterruptMatch, CallAt
    <3> QED
      BY <1>1, <2>2, <3>1, QuietTypes DEF StopStatus, InterruptMatch
  <2>3. CASE InterruptAdd(c)
    <3>1. tid(c) \in Tid
      BY <2>3, AtWork DEF InterruptAdd, Step, At, Working, CallAt, StartAt
    <3>2. kill_item_list' \in Seq(Tid) /\ Len(kill_item_list') <= MAX_PLAYER_THREADS
      BY <1>1, <2>3, <3>1 DEF TypeOK, InterruptAdd
    <3> QED
      BY <1>1, <2>3, <3>2, MoveTypes DEF TypeOK, InterruptAdd, Step, Goto, CallAt, threadVars
  <2>4. CASE StopSend(c)
    BY <1>1, <2>4, MoveTypes, FieldTypes DEF TypeOK, StopSend, Step, Goto, CallAt, threadVars
  <2>5. CASE StopJoin(c)
    BY <1>1, <2>5, MoveTypes DEF TypeOK, StopJoin, Join, Step, Goto, CallAt
  <2>6. CASE StopUninterrupt(c)
    <3>1. call' \in [Client -> Call]
      BY <1>1, <2>6, MoveTypes DEF StopUninterrupt, Step, Goto, CallAt
    <3>2. kill_item_list' \in Seq(Tid) /\ Len(kill_item_list') <= MAX_PLAYER_THREADS
      BY <1>1, <2>6, UninterruptTypes DEF StopUninterrupt
    <3> QED
      BY <1>1, <2>6, <3>1, <3>2 DEF TypeOK, StopUninterrupt, threadVars
  <2>7. CASE Close(c)
    <3>1. Return(c) \/ \E to \in CallAt : Goto(c, to)
      BY <2>7 DEF Close, CallAt
    <3> QED
      BY <1>1, <2>7, <3>1, QuietTypes DEF Close
  <2> QED
    BY <1>3, <2>1, <2>2, <2>3, <2>4, <2>5, <2>6, <2>7 DEF Stop
<1>4. ASSUME NEW c \in Client, Message(c) PROVE TypeOK'
  <2>1. \E to \in CallAt : Goto(c, to)
    BY <1>4 DEF Message, MessageStatus, MessageSend, Query, Step, CallAt
  <2>2. UNCHANGED << heap, para, threadVars, kill_item_list, own >>
    BY <1>4 DEF Message, MessageStatus, MessageSend, Query
  <2> QED
    BY <1>1, <2>1, <2>2, QuietTypes
<1>5. ASSUME NEW c \in Client, Exit(c) PROVE TypeOK'
  <2>1. CASE ExitStatus(c) \/ ExitClose(c)
    <3>1. \E to \in CallAt : Goto(c, to)
      BY <2>1 DEF ExitStatus, ExitClose, Step, CallAt
    <3> QED
      BY <1>1, <2>1, <3>1, QuietTypes DEF ExitStatus, ExitClose
  <2>2. CASE ExitJoin(c)
    BY <1>1, <2>2, MoveTypes DEF TypeOK, ExitJoin, Join, Step, Goto, CallAt
  <2>3. CASE ExitUninterrupt(c)
    <3>1. call' \in [Client -> Call]
      BY <1>1, <2>3, MoveTypes DEF ExitUninterrupt, Step, Goto, CallAt
    <3>2. kill_item_list' \in Seq(Tid) /\ Len(kill_item_list') <= MAX_PLAYER_THREADS
      BY <1>1, <2>3, UninterruptTypes DEF ExitUninterrupt
    <3> QED
      BY <1>1, <2>3, <3>1, <3>2 DEF TypeOK, ExitUninterrupt, threadVars
  <2>4. CASE ExitFree(c)
    BY <1>1, <2>4, MoveTypes DEF TypeOK, ExitFree, Step, Goto, CallAt, threadVars
  <2>5. CASE ExitRelease(c)
    BY <1>1, <2>5, MoveTypes DEF TypeOK, ExitRelease, Return, threadVars
  <2> QED
    BY <1>5, <2>1, <2>2, <2>3, <2>4, <2>5 DEF Exit
<1>6. ASSUME NEW t \in Tid, Thread(t) PROVE TypeOK'
  <2>1. CASE ThreadExit(t)
    BY <1>1, <2>1 DEF TypeOK, ThreadExit
  <2>2. CASE ShowEnded(t) \/ ShowPlaying(t) \/ ShowExit(t)
    <3>1. para' \in [Block -> Fields]
      <4>1. PICK s \in {"playing", "ended", "exit"} : para' = [para EXCEPT ![on[t]].status = s]
        BY <2>2 DEF ShowEnded, ShowPlaying, ShowExit, Show
      <4>2. [para EXCEPT ![on[t]].status = s] \in [Block -> Fields]
        BY <1>1, FieldTypes
      <4> QED
        BY <4>1, <4>2, Zenon
    <3>2. UNCHANGED << heap, threadVars, kill_item_list, call, own >>
      BY <2>2 DEF ShowEnded, ShowPlaying, ShowExit, Show
    <3> QED
      BY <1>1, <3>1, <3>2 DEF TypeOK, threadVars
  <2> QED
    BY <1>6, <2>1, <2>2 DEF Thread
<1>7. CASE UNCHANGED vars
  BY <1>1, <1>7 DEF TypeOK, vars, threadVars
<1> QED
  BY <1>2, <1>3, <1>4, <1>5, <1>6, <1>7 DEF Next
-----------------------------------------------------------------------------
(* Steps that leave ids and blocks where they are.                         *)

\* What others see of a client whose call is not moved.
LEMMA SameCall ==
  ASSUME NEW d \in Client, call'[d] = call[d], own'[d] = own[d]
  PROVE  /\ Holds(d)' = Holds(d) /\ Busy(d)' = Busy(d) /\ Players(d)' = Players(d)
         /\ Opens(d)' = Opens(d) /\ b(d)' = b(d) /\ \A s : At(d, s)' <=> At(d, s)
BY DEF Holds, Busy, Players, Opens, b, At

\* And of one whose call goes on inside its open of the id.
LEMMA SameOpen ==
  ASSUME NEW d \in Client, own'[d] = own[d], call[d].at \in OpenAt, NEW to \in OpenAt,
         call'[d] = [call[d] EXCEPT !.at = to], call[d] \in Call
  PROVE  /\ Holds(d)' = Holds(d) /\ Busy(d)' = Busy(d) /\ Players(d)' = Players(d)
         /\ Opens(d)' = Opens(d) /\ b(d)' = b(d)
         /\ call'[d].at = to /\ call'[d].api = call[d].api /\ call'[d].pid = call[d].pid
         /\ call'[d].t = call[d].t
<1>1. /\ call'[d].at = to /\ call'[d].api = call[d].api /\ call'[d].pid = call[d].pid
      /\ call'[d].b = call[d].b /\ call'[d].t = call[d].t
  BY DEF Call
<1>2. OpenAt \subseteq Working \ {"publish"} /\ OpenAt \cap ({"idle", "release"} \cup StartAt) = {}
  BY DEF OpenAt, Working, CallAt, StartAt
<1>3. Busy(d)' = Busy(d) /\ b(d)' = b(d)
  BY <1>1 DEF Busy, At, OpenAt, b
<1>4. Players(d)' = Players(d)
  BY <1>1, <1>2 DEF Players
<1>5. Opens(d)' = Opens(d)
  BY <1>1, <1>2 DEF Opens
<1> QED
  BY <1>1, <1>3, <1>4, <1>5 DEF Holds

\* Nothing of Held is lost where calls move inside their opens, threads are joined,
\* and neither the pool nor the thread's id of a block changes.
LEMMA QuietHeld ==
  ASSUME IInv, UNCHANGED << tableVars, heap, own >>,
         \A d \in Client : \/ call'[d] = call[d]
                           \/ /\ call[d].at \in OpenAt
                              /\ \E to \in OpenAt : call'[d] = [call[d] EXCEPT !.at = to],
         \A x \in Block : para'[x].pool = para[x].pool /\ para'[x].pthread_id = para[x].pthread_id,
         \A t \in Tid : on'[t] = on[t] \/ on'[t] = NULL
  PROVE  Held'
<1>1. ASSUME NEW d \in Client
      PROVE  /\ Holds(d)' = Holds(d) /\ Busy(d)' = Busy(d) /\ Players(d)' = Players(d)
             /\ Opens(d)' = Opens(d) /\ b(d)' = b(d)
             /\ call'[d].api = call[d].api /\ call'[d].pid = call[d].pid
             /\ call'[d].t = call[d].t
             /\ \/ call'[d].at = call[d].at
                \/ call[d].at \in OpenAt /\ call'[d].at \in OpenAt
  <2>1. call[d] \in Call /\ own'[d] = own[d]
    BY DEF IInv, TypeOK
  <2>2. CASE call'[d] = call[d]
    BY <2>1, <2>2, SameCall
  <2>3. CASE call[d].at \in OpenAt /\ \E to \in OpenAt : call'[d] = [call[d] EXCEPT !.at = to]
    <3>1. PICK to \in OpenAt : call'[d] = [call[d] EXCEPT !.at = to]
      BY <2>3
    <3> QED
      BY <2>1, <2>3, <3>1, SameOpen
  <2> QED
    BY <2>2, <2>3
<1>2. OpenAt \cap ({"idle", "publish", "pool", "create", "store"} \cup StartAt \cup ExitAt) = {}
      /\ OpenAt \subseteq Working
  BY DEF OpenAt, StartAt, ExitAt, Working, CallAt
<1>3. Held
  BY DEF IInv
<1>4. TableTypes'
  BY <1>3 DEF Held, TableTypes, tableVars
<1>5. CallShape'
  BY <1>1, <1>2, <1>3 DEF Held, CallShape, At
<1>6. IdsHeld'
  BY <1>1, <1>3 DEF Held, IdsHeld, tableVars
<1>7. NewBlocks'
  BY <1>1, <1>2, <1>3 DEF Held, NewBlocks, At, tableVars
<1>8. BlocksHeld'
  BY <1>1, <1>2, <1>3 DEF Held, BlocksHeld, tableVars
<1>9. BlocksKept'
  BY <1>1, <1>2, <1>3 DEF Held, BlocksKept, At, tableVars
<1>10. BlocksReady'
  <2>1. ASSUME NEW d \in Client PROVE \A p \in Players(d) : priv_pid_data[p] \in Block
    BY <1>3 DEF Held, BlocksHeld, IInv, TypeOK
  <2>2. ASSUME NEW d \in Client, call[d].at \in {"publish", "pool", "create", "store"}
        PROVE  b(d) \in Block
    <3>1. call[d].at = "publish" => b(d) \in heap
      BY <1>3 DEF Held, NewBlocks, At
    <3>2. call[d].at # "publish" => b(d) \in heap
      BY <2>2, AtWork DEF Working, CallAt
    <3> QED
      BY <3>1, <3>2 DEF IInv, TypeOK
  <2>3. \A p : priv_pid_data'[p] = priv_pid_data[p]
    BY DEF tableVars
  <2> QED
    BY <1>1, <1>2, <1>3, <2>1, <2>2, <2>3 DEF Held, BlocksReady
<1>11. ThreadsHeld'
  <2>1. ASSUME NEW t \in Tid, on'[t] # NULL
        PROVE  /\ on'[t] = on[t] /\ on[t] \in heap /\ on[t] \in Block
               /\ para'[on[t]].pool = "ready"
               /\ \/ para'[on[t]].pthread_id = t
                  \/ \E c \in Client : At(c, "store") /\ b(c) = on[t] /\ call[c].t = t
    BY <1>3, <2>1 DEF Held, ThreadsHeld, IInv, TypeOK
  <2>2. \A c \in Client : At(c, "store") => At(c, "store")'
    BY <1>1, <1>2 DEF At
  <2> QED
    BY <1>1, <2>1, <2>2 DEF ThreadsHeld
<1>12. Joined'
  <2>1. ASSUME NEW d \in Client, call'[d].at \in {"exit_uninterrupt", "free"}
        PROVE  call[d].at = call'[d].at /\ b(d)' = b(d) /\ b(d) # NULL
    <3>1. call[d].at = call'[d].at /\ b(d)' = b(d)
      BY <1>1, <2>1 DEF OpenAt
    <3>2. b(d) \in Block
      BY <2>1, <3>1, AtWork DEF Working, CallAt
    <3> QED
      BY <3>1, <3>2
  <2> QED
    BY <1>3, <2>1 DEF Held, Joined
<1> QED
  BY <1>4, <1>5, <1>6, <1>7, <1>8, <1>9, <1>10, <1>11, <1>12 DEF Held
-----------------------------------------------------------------------------
(* The other steps.  What client d holds and works on is its view, which   *)
(* the call of another client leaves as it is.                             *)

Same(d) == /\ Holds(d)' = Holds(d) /\ Busy(d)' = Busy(d) /\ Players(d)' = Players(d)
           /\ Opens(d)' = Opens(d) /\ b(d)' = b(d)
           /\ call'[d] = call[d] /\ own'[d] = own[d]

LEMMA Others ==
  ASSUME TypeOK, NEW c \in Client, NEW r, call' = [call EXCEPT ![c] = r],
         own' = own \/ \E o : own' = [own EXCEPT ![c] = o]
  PROVE  /\ \A d \in Client \ {c} : Same(d)
         /\ call'[c] = r
<1>1. \A d \in Client \ {c} : call'[d] = call[d] /\ own'[d] = own[d]
  BY DEF TypeOK
<1>2. \A d \in Client \ {c} : Same(d)
  BY <1>1, SameCall DEF Same
<1>3. call'[c] = r
  BY DEF TypeOK
<1> QED
  BY <1>2, <1>3

LEMMA Owned ==
  ASSUME IInv
  PROVE  \A d \in Client :
           /\ Players(d) \subseteq Holds(d) /\ Holds(d) \subseteq priv_pid_pool
           /\ priv_pid_pool \subseteq Table!Pid
           /\ \A p \in Players(d) : priv_pid_data[p] \in heap /\ priv_pid_data[p] \in Block
           /\ call[d] \in Call
<1>1. \A d \in Client : Players(d) \subseteq Holds(d)
  BY DEF Players, Holds, Busy, At, Working
<1>2. \A d \in Client : Holds(d) \subseteq priv_pid_pool
  BY DEF IInv, Held, IdsHeld
<1>3. \A d \in Client : \A p \in Players(d) : priv_pid_data[p] \in heap
  BY DEF IInv, Held, BlocksHeld
<1>4. heap \subseteq Block /\ priv_pid_pool \subseteq Table!Pid /\ \A d \in Client : call[d] \in Call
  BY DEF IInv, TypeOK, Held, TableTypes
<1> QED
  BY <1>1, <1>2, <1>3, <1>4

LEMMA RequestHeld == ASSUME IInv, NEW c \in Client, StartRequestPid(c) PROVE Held'
<1>1. PICK p \in Table!Pid :
        /\ Table!RequestPid(p)
        /\ call' = [call EXCEPT ![c] = [Idle EXCEPT !.at = "malloc", !.api = "start", !.pid = p]]
  BY DEF StartRequestPid
<1>2. UNCHANGED << heap, para, running, on, own >> /\ At(c, "idle")
  BY DEF StartRequestPid, threadVars
<1>3. \A d \in Client \ {c} : Same(d)
  BY <1>1, <1>2, Others DEF IInv
<1>4. /\ call'[c].at = "malloc" /\ call'[c].api = "start" /\ call'[c].pid = p
      /\ call'[c].b = NULL /\ call'[c].t = NULL
  <2>1. call'[c] = [Idle EXCEPT !.at = "malloc", !.api = "start", !.pid = p]
    BY <1>1 DEF IInv, TypeOK
  <2> QED
    BY <2>1 DEF Idle
<1>5. /\ p \notin priv_pid_pool /\ priv_pid_pool' = priv_pid_pool \cup {p}
      /\ priv_pid_data' \in [Table!Pid -> Block \cup {NULL}]
      /\ priv_pid_used' \in [Table!Pid -> 0 .. 2]
      /\ priv_pid_used'[p] = 0
      /\ \A q \in Table!Pid \ {p} : /\ priv_pid_data'[q] = priv_pid_data[q]
                                    /\ priv_pid_used'[q] = priv_pid_used[q]
  BY <1>1 DEF Table!RequestPid, Table!Candidate, IInv, Held, TableTypes
<1>6. /\ Holds(c)' = own[c] \cup {p} /\ Busy(c)' = {p} /\ Players(c)' = own[c] /\ Opens(c)' = 0
      /\ Holds(c) = own[c] /\ Busy(c) = {} /\ Players(c) = own[c]
  BY <1>2, <1>4 DEF Holds, Busy, Players, Opens, Working, CallAt, At, StartAt
<1>7. \A d \in Client : /\ Players(d)' = Players(d)
                        /\ p \notin Holds(d)
                        /\ Holds(d) \subseteq Table!Pid
                        /\ \A q \in Holds(d) : /\ priv_pid_data'[q] = priv_pid_data[q]
                                               /\ priv_pid_used'[q] = priv_pid_used[q]
                        /\ Players(d) \subseteq Holds(d)
  <2>1. \A d \in Client : p \notin Holds(d) /\ Holds(d) \subseteq Table!Pid /\ Players(d) \subseteq Holds(d)
    BY <1>5, Owned
  <2>2. \A d \in Client : Players(d)' = Players(d)
    BY <1>3, <1>6 DEF Same
  <2> QED
    BY <1>5, <2>1, <2>2
<1>8. TableTypes'
  BY <1>1, <1>5 DEF TableTypes, IInv, Held
<1>9. CallShape'
  BY <1>2, <1>3, <1>4, <1>6, <1>7 DEF CallShape, IInv, Held, Same, At, StartAt, ExitAt
<1>10. IdsHeld'
  BY <1>3, <1>5, <1>6, <1>7 DEF IdsHeld, IInv, Held, Same
<1>11. NewBlocks'
  BY <1>2, <1>3, <1>4, <1>7 DEF NewBlocks, IInv, Held, Same, At
<1>12. BlocksHeld'
  <2>1. \A d \in Client : \A q \in Players(d)' :
          /\ priv_pid_data'[q] = priv_pid_data[q] /\ q \in Players(d)
    BY <1>7
  <2>2. ASSUME NEW d \in Client, call'[d].at \in Working \ {"publish"}
        PROVE  b(d)' = priv_pid_data'[call'[d].pid]
    <3>1. d # c
      BY <1>4, <2>2 DEF Working
    <3>2. call[d].pid \in Players(d) /\ b(d) = priv_pid_data[call[d].pid]
      BY <1>3, <2>2, <3>1, AtWork DEF Same
    <3> QED
      BY <1>3, <1>7, <3>1, <3>2 DEF Same
  <2> QED
    BY <1>2, <2>1, <2>2 DEF BlocksHeld, IInv, Held
<1>13. BlocksKept'
  <2>1. \A d \in Client : At(d, "publish") => d # c /\ At(d, "publish")' /\ b(d)' = b(d)
    BY <1>2, <1>3 DEF Same, At
  <2> QED
    BY <1>2, <1>7, <2>1 DEF BlocksKept, IInv, Held
<1>14. BlocksReady'
  <2>1. ASSUME NEW d \in Client, call'[d].at \in {"publish", "pool", "create", "store"}
        PROVE  d # c /\ call[d] = call'[d] /\ b(d)' = b(d)
    BY <1>3, <1>4, <2>1 DEF Same
  <2>2. ASSUME NEW d \in Client, NEW q \in Players(d)'
        PROVE  /\ priv_pid_data'[q] = priv_pid_data[q] /\ q \in Players(d)
               /\ q \in Busy(d) /\ call[d].at \in StartAt
                    => q \in Busy(d)' /\ call'[d].at \in StartAt
    <3>1. priv_pid_data'[q] = priv_pid_data[q] /\ q \in Players(d)
      BY <1>7, <2>2
    <3>2. d # c => Busy(d)' = Busy(d) /\ call'[d] = call[d]
      BY <1>3 DEF Same
    <3> QED
      BY <1>6, <3>1, <3>2
  <2> QED
    BY <1>2, <2>1, <2>2 DEF BlocksReady, IInv, Held
<1>15. ThreadsHeld'
  <2>1. \A d \in Client : At(d, "store") => At(d, "store")' /\ b(d)' = b(d) /\ call'[d] = call[d]
    BY <1>2, <1>3 DEF Same, At
  <2> QED
    BY <1>2, <2>1 DEF ThreadsHeld, IInv, Held
<1>16. Joined'
  BY <1>2, <1>3, <1>4 DEF Joined, IInv, Held, Same
<1> QED
  BY <1>8, <1>9, <1>10, <1>11, <1>12, <1>13, <1>14, <1>15, <1>16 DEF Held

\* The block of a call at work is that of no other call, and of no other id.
LEMMA OneOwner ==
  ASSUME IInv, NEW c \in Client, call[c].at \in Working \ {"publish"}
  PROVE  /\ \A d \in Client : call[d].at \in Working /\ b(d) = b(c) => c = d
         /\ \A d \in Client : \A q \in Players(d) :
              priv_pid_data[q] = b(c) => q = call[c].pid /\ c = d
<1>1. call[c].pid \in Players(c) /\ b(c) = priv_pid_data[call[c].pid]
  BY AtWork
<1>2. \A d \in Client : \A q \in Players(d) :
        priv_pid_data[q] = b(c) => q = call[c].pid /\ c = d
  <2>1. ASSUME NEW d \in Client, NEW q \in Players(d), priv_pid_data[q] = b(c)
        PROVE  q = call[c].pid /\ c = d
    <3>1. q = call[c].pid
      BY <1>1, <2>1 DEF IInv, Held, BlocksHeld
    <3>2. q \in Holds(d) /\ call[c].pid \in Holds(c)
      BY <1>1, Owned
    <3> QED
      BY <3>1, <3>2 DEF IInv, Held, IdsHeld
  <2> QED
    BY <2>1
<1>3. ASSUME NEW d \in Client, call[d].at \in Working, b(d) = b(c) PROVE c = d
  <2>1. CASE call[d].at = "publish"
    BY <1>1, <1>3, <2>1 DEF IInv, Held, NewBlocks, At
  <2>2. CASE call[d].at # "publish"
    <3>1. call[d].pid \in Players(d) /\ b(d) = priv_pid_data[call[d].pid]
      BY <1>3, <2>2, AtWork
    <3> QED
      BY <1>2, <1>3, <3>1
  <2> QED
    BY <2>1, <2>2
<1> QED
  BY <1>2, <1>3

\* A call at work in player_start or after it is at work on an allocated block.
LEMMA WorkingBlock ==
  ASSUME IInv, NEW d \in Client, call[d].at \in Working
  PROVE  b(d) \in heap /\ b(d) \in Block
<1>1. CASE call[d].at = "publish"
  BY <1>1 DEF IInv, Held, NewBlocks, At, TypeOK
<1>2. CASE call[d].at # "publish"
  BY <1>2, AtWork
<1> QED
  BY <1>1, <1>2
\* Most steps move a call on, and leave every id of a player with its block.
LEMMA MoveHeld ==
  ASSUME IInv, NEW c \in Client, NEW r, call' = [call EXCEPT ![c] = r],
         own' = own \/ \E o : own' = [own EXCEPT ![c] = o],
         heap' = heap,
         \A x \in Block : para'[x].pool = para[x].pool /\ para'[x].pthread_id = para[x].pthread_id,
         \A t \in Tid : on'[t] = on[t] \/ on'[t] = NULL,
         \A d \in Client : \A q \in Players(d) : priv_pid_data'[q] = priv_pid_data[q],
         Players(c)' = Players(c),
         call[c].at \notin {"publish", "pool", "create", "store"},
         r.at \notin {"publish", "pool", "create", "store"},
         r.at \in Working => r.b = priv_pid_data[r.pid] /\ r.pid \in Players(c),
         TableTypes', CallShape', IdsHeld', Joined'
  PROVE  Held'
<1>1. (\A d \in Client \ {c} : Same(d)) /\ call'[c] = r
  BY Others DEF IInv
<1>2. \A d \in Client : Players(d)' = Players(d)
  BY <1>1 DEF Same
<1>3. \A d \in Client : (d # c \/ call'[d].at \in {"publish", "pool", "create", "store"}
                               \/ call[d].at \in {"publish", "pool", "create", "store"})
                        => d # c /\ Same(d)
  BY <1>1
<1>4. NewBlocks'
  <2>1. \A d \in Client : At(d, "publish")' => At(d, "publish") /\ b(d)' = b(d)
    BY <1>3 DEF Same, At
  <2> QED
    BY <1>2, <2>1 DEF NewBlocks, IInv, Held
<1>5. BlocksHeld'
  <2>1. ASSUME NEW d \in Client, call'[d].at \in Working \ {"publish"}
        PROVE  b(d)' = priv_pid_data'[call'[d].pid]
    <3>1. CASE d = c
      BY <1>1, <2>1, <3>1 DEF b
    <3>2. CASE d # c
      BY <1>1, <2>1, <3>2, AtWork DEF Same
    <3> QED
      BY <3>1, <3>2
  <2> QED
    BY <1>2, <2>1 DEF BlocksHeld, IInv, Held
<1>6. BlocksKept'
  <2>1. \A d \in Client : At(d, "publish") => At(d, "publish")' /\ b(d)' = b(d)
    BY <1>3 DEF Same, At
  <2> QED
    BY <1>2, <2>1 DEF BlocksKept, IInv, Held
<1>7. BlocksReady'
  <2>1. ASSUME NEW d \in Client, call'[d].at \in {"publish", "pool", "create", "store"}
        PROVE  /\ call[d] = call'[d] /\ b(d)' = b(d)
               /\ para'[b(d)].pool = para[b(d)].pool
               /\ para'[b(d)].pthread_id = para[b(d)].pthread_id
    <3>1. call[d] = call'[d] /\ b(d)' = b(d)
      BY <1>3, <2>1 DEF Same
    <3> QED
      BY <2>1, <3>1, WorkingBlock DEF Working, CallAt
  <2>2. ASSUME NEW d \in Client, NEW q \in Players(d)
        PROVE  /\ priv_pid_data'[q] = priv_pid_data[q]
               /\ para'[priv_pid_data[q]].pool = para[priv_pid_data[q]].pool
               /\ para'[priv_pid_data[q]].pthread_id = para[priv_pid_data[q]].pthread_id
    BY Owned
  <2>3. \A d \in Client \ {c} : Busy(d)' = Busy(d) /\ call'[d] = call[d]
    BY <1>1 DEF Same
  <2>4. ASSUME NEW q \in Players(c) PROVE ~ (q \in Busy(c) /\ call[c].at \in StartAt)
    <3>1. SUFFICES ASSUME call[c].at \in {"malloc", "undo"} PROVE q \notin Busy(c)
      BY DEF StartAt
    <3>2. Players(c) = own[c] /\ call[c].pid \notin own[c] /\ Busy(c) = {call[c].pid}
      BY <3>1 DEF Players, Working, CallAt, StartAt, IInv, Held, CallShape, At, Busy
    <3> QED
      BY <3>2
  <2> QED
    BY <1>1, <1>2, <2>1, <2>2, <2>3, <2>4 DEF BlocksReady, IInv, Held
<1>8. ThreadsHeld'
  <2>1. ASSUME NEW t \in Tid, on'[t] # NULL
        PROVE  /\ on'[t] = on[t] /\ on[t] \in heap
               /\ para'[on[t]].pool = "ready"
               /\ \/ para'[on[t]].pthread_id = t
                  \/ \E d \in Client : At(d, "store") /\ b(d) = on[t] /\ call[d].t = t
    BY <2>1 DEF Held, ThreadsHeld, IInv, TypeOK
  <2>2. \A d \in Client : At(d, "store") => At(d, "store")' /\ b(d)' = b(d) /\ call'[d] = call[d]
    BY <1>3 DEF Same, At
  <2> QED
    BY <2>1, <2>2 DEF ThreadsHeld
<1> QED
  BY <1>4, <1>5, <1>6, <1>7, <1>8 DEF Held

LEMMA MallocHeld == ASSUME IInv, NEW c \in Client, StartMalloc(c) PROVE Held'
<1>1. UNCHANGED << running, on, own >> /\ call[c].at = "malloc" /\ call[c] \in Call
  BY DEF StartMalloc, threadVars, At, IInv, TypeOK
<1>2. call[c].api = "start" /\ call[c].pid \notin own[c] /\ call[c].t = NULL
  BY <1>1 DEF IInv, Held, CallShape, At, StartAt
<1>3. /\ Holds(c) = own[c] \cup {call[c].pid} /\ Busy(c) = {call[c].pid}
      /\ Players(c) = own[c] /\ Opens(c) = 0
  <2>1. Busy(c) = {call[c].pid} /\ Players(c) = own[c]
    BY <1>1 DEF Busy, Players, Working, At
  <2>2. Opens(c) = 0
    BY <1>1 DEF Opens, StartAt, OpenAt
  <2> QED
    BY <2>1, <2>2 DEF Holds
<1>4. CASE \E new \in Block \ heap :
             /\ heap' = heap \cup {new}
             /\ para' = [para EXCEPT ![new] = Fresh]
             /\ call' = [call EXCEPT ![c].at = "publish", ![c].b = new]
             /\ UNCHANGED tableVars
  <2>1. PICK new \in Block \ heap :
             /\ heap' = heap \cup {new}
             /\ para' = [para EXCEPT ![new] = Fresh]
             /\ call' = [call EXCEPT ![c].at = "publish", ![c].b = new]
             /\ UNCHANGED tableVars
    BY <1>4
  <2>2. \A d \in Client \ {c} : Same(d)
    <3>1. call' = [call EXCEPT ![c] = [call[c] EXCEPT !.at = "publish", !.b = new]]
      BY <2>1 DEF IInv, TypeOK
    <3> QED
      BY <1>1, <3>1, Others DEF IInv
  <2>3. /\ call'[c].at = "publish" /\ call'[c].api = "start" /\ call'[c].pid = call[c].pid
        /\ call'[c].b = new /\ call'[c].t = NULL
    BY <1>1, <1>2, <2>1 DEF IInv, TypeOK, Call
  <2>4. /\ Holds(c)' = Holds(c) /\ Busy(c)' = Busy(c) /\ Players(c)' = Players(c)
        /\ Opens(c)' = Opens(c) /\ b(c)' = new
    BY <1>1, <1>3, <2>3 DEF Holds, Busy, Players, Opens, Working, CallAt, At, StartAt, b
  <2>5. /\ para'[new] = Fresh /\ \A x \in heap : para'[x] = para[x]
        /\ \A x \in heap : x \in heap' /\ x # new
    BY <2>1 DEF IInv, TypeOK
  <2>6. UNCHANGED << priv_pid_pool, priv_pid_data, priv_pid_used >>
    BY <2>1 DEF tableVars
  <2>7. \A d \in Client : Holds(d)' = Holds(d) /\ Busy(d)' = Busy(d) /\ Opens(d)' = Opens(d)
                          /\ Players(d)' = Players(d)
    BY <2>2, <2>4 DEF Same
  <2>8. TableTypes'
    BY <2>6 DEF TableTypes, IInv, Held
  <2>9. CallShape'
    BY <1>1, <1>2, <2>2, <2>3 DEF CallShape, IInv, Held, Same, At, StartAt, ExitAt
  <2>10. IdsHeld'
    BY <2>6, <2>7 DEF IdsHeld, IInv, Held
  <2>11. NewBlocks'
    <3>1. \A d \in Client \ {c} : At(d, "publish")' => At(d, "publish") /\ b(d)' = b(d) /\ b(d) \in heap
      BY <2>2, WorkingBlock DEF Same, At, Working, CallAt
    <3>2. \A d \in Client : \A q \in Players(d) : priv_pid_data[q] \in heap
      BY Owned
    <3> QED
      BY <2>1, <2>3, <2>4, <2>5, <2>6, <2>7, <3>1, <3>2 DEF NewBlocks, IInv, Held
  <2>12. BlocksHeld'
    <3>1. ASSUME NEW d \in Client, call'[d].at \in Working \ {"publish"}
          PROVE  b(d)' = priv_pid_data'[call'[d].pid]
      BY <2>2, <2>3, <2>6, <3>1, AtWork DEF Same
    <3> QED
      BY <2>5, <2>6, <2>7, <3>1 DEF BlocksHeld, IInv, Held
  <2>13. BlocksKept'
    <3>1. \A d \in Client : At(d, "publish") => d # c /\ At(d, "publish")' /\ b(d)' = b(d)
      BY <1>1, <2>2 DEF Same, At
    <3>2. At(c, "publish")' /\ b(c)' = new
      BY <2>3, <2>4 DEF At
    <3> QED
      BY <2>1, <2>6, <2>7, <3>1, <3>2 DEF BlocksKept, IInv, Held
  <2>14. BlocksReady'
    <3>1. ASSUME NEW d \in Client \ {c}, call'[d].at \in {"publish", "pool", "create", "store"}
          PROVE  call[d] = call'[d] /\ b(d)' = b(d) /\ para'[b(d)] = para[b(d)]
      BY <2>2, <2>5, <3>1, WorkingBlock DEF Same, Working, CallAt
    <3>2. ASSUME NEW d \in Client, NEW q \in Players(d)
          PROVE  /\ priv_pid_data'[q] = priv_pid_data[q]
                 /\ para'[priv_pid_data[q]] = para[priv_pid_data[q]]
                 /\ q \in Busy(d) /\ call[d].at \in StartAt
                      => q \in Busy(d)' /\ call'[d].at \in StartAt
      <4>1. para'[priv_pid_data[q]] = para[priv_pid_data[q]] /\ priv_pid_data'[q] = priv_pid_data[q]
        BY <2>5, <2>6, Owned
      <4>2. d # c => call'[d] = call[d]
        BY <2>2 DEF Same
      <4> QED
        BY <2>3, <2>7, <4>1, <4>2 DEF StartAt
    <3>3. para'[b(c)'].pthread_id = NULL
      BY <2>4, <2>5 DEF Fresh
    <3> QED
      BY <2>3, <2>7, <3>1, <3>2, <3>3 DEF BlocksReady, IInv, Held
  <2>15. ThreadsHeld'
    <3>1. \A d \in Client : At(d, "store") => At(d, "store")' /\ b(d)' = b(d) /\ call'[d] = call[d]
      BY <1>1, <2>2 DEF Same, At
    <3> QED
      BY <1>1, <2>5, <3>1 DEF ThreadsHeld, IInv, Held
  <2>16. Joined'
    BY <1>1, <2>2, <2>3 DEF Joined, IInv, Held, Same
  <2> QED
    BY <2>8, <2>9, <2>10, <2>11, <2>12, <2>13, <2>14, <2>15, <2>16 DEF Held
<1>5. CASE Table!StartNoMem(call[c].pid) /\ Return(c) /\ UNCHANGED << heap, para >>
  <2>1. call' = [call EXCEPT ![c] = Idle] /\ own' = own /\ heap' = heap /\ para' = para
    BY <1>1, <1>5 DEF Return
  <2>2. UNCHANGED << priv_pid_pool, priv_pid_data, priv_pid_used >>
    BY <1>5 DEF Table!StartNoMem
  <2>3. (\A d \in Client \ {c} : Same(d)) /\ call'[c] = Idle
    BY <2>1, Others DEF IInv
  <2>4. Holds(c)' = own[c] /\ Busy(c)' = {} /\ Players(c)' = own[c]
    BY <1>1, <2>3 DEF Holds, Busy, Players, Working, CallAt, At, Idle
  <2>5. TableTypes'
    BY <2>2 DEF TableTypes, IInv, Held
  <2>6. CallShape'
    BY <2>3 DEF CallShape, IInv, Held, Same, At, Idle
  <2>7. IdsHeld'
    BY <1>3, <2>2, <2>3, <2>4 DEF IdsHeld, IInv, Held, Same
  <2>8. Joined'
    BY <1>1, <2>3 DEF Joined, IInv, Held, Same, Idle
  <2>9. Idle.at = "idle" /\ call[c].at = "malloc" /\ Players(c)' = Players(c) /\ on' = on
    BY <1>1, <1>3, <2>4 DEF Idle
  <2>10. \A d \in Client : \A q \in Players(d) : priv_pid_data'[q] = priv_pid_data[q]
    BY <2>2
  <2> QED
    BY <2>1, <2>5, <2>6, <2>7, <2>8, <2>9, <2>10, MoveHeld DEF Working
<1> QED
  BY <1>4, <1>5 DEF StartMalloc

\* Opening and closing an id counts it up and down, and nothing else.
LEMMA OpenTable ==
  ASSUME IInv, NEW p \in Table!Pid, Table!OpenPidData(p) \/ Table!ClosePidData(p)
  PROVE  /\ UNCHANGED << priv_pid_pool, priv_pid_data >> /\ TableTypes'
         /\ \A q \in Table!Pid \ {p} : priv_pid_used'[q] = priv_pid_used[q]
         /\ Table!OpenPidData(p) => priv_pid_used'[p] = priv_pid_used[p] + 1
         /\ Table!ClosePidData(p) => priv_pid_used'[p] = priv_pid_used[p] - 1
<1>1. /\ priv_pid_pool \subseteq Table!Pid /\ priv_pid_data \in [Table!Pid -> Block \cup {NULL}]
      /\ priv_pid_used \in [Table!Pid -> 0 .. 2]
  BY DEF IInv, Held, TableTypes
<1>2. Table!OpenPidData(p) =>
        /\ UNCHANGED << priv_pid_pool, priv_pid_data >>
        /\ priv_pid_used[p] < 2 /\ priv_pid_used' = [priv_pid_used EXCEPT ![p] = @ + 1]
  BY DEF Table!OpenPidData
<1>3. Table!ClosePidData(p) =>
        /\ UNCHANGED << priv_pid_pool, priv_pid_data >>
        /\ priv_pid_used[p] > 0 /\ priv_pid_used' = [priv_pid_used EXCEPT ![p] = @ - 1]
  BY DEF Table!ClosePidData
<1>4. \A n \in 0 .. 2 : (n < 2 => n + 1 \in 0 .. 2) /\ (n > 0 => n - 1 \in 0 .. 2)
  OBVIOUS
<1>5. UNCHANGED << priv_pid_pool, priv_pid_data >> /\ priv_pid_used' \in [Table!Pid -> 0 .. 2]
  BY <1>1, <1>2, <1>3, <1>4
<1>6. /\ \A q \in Table!Pid \ {p} : priv_pid_used'[q] = priv_pid_used[q]
      /\ Table!OpenPidData(p) => priv_pid_used'[p] = priv_pid_used[p] + 1
      /\ Table!ClosePidData(p) => priv_pid_used'[p] = priv_pid_used[p] - 1
  BY <1>1, <1>2, <1>3
<1> QED
  BY <1>1, <1>5, <1>6 DEF TableTypes

\* IdsHeld, where only the id of one call is opened or closed.
LEMMA IdsMove ==
  ASSUME IInv, NEW c \in Client, NEW p \in Holds(c), \A d \in Client \ {c} : Same(d),
         UNCHANGED priv_pid_pool,
         \A q \in Table!Pid \ {p} : priv_pid_used'[q] = priv_pid_used[q],
         Busy(c) \subseteq {p}, Busy(c)' \subseteq {p}, Holds(c)' = Holds(c),
         priv_pid_used'[p] = IF p \in Busy(c)' THEN Opens(c)' ELSE 0
  PROVE  IdsHeld'
<1>1. \A d \in Client : Holds(d)' = Holds(d) /\ Holds(d) \subseteq Table!Pid
  BY Owned DEF Same
<1>2. \A d \in Client \ {c} : p \notin Holds(d)
  BY DEF IInv, Held, IdsHeld
<1>3. ASSUME NEW d \in Client \ {c}, NEW q \in Holds(d)
      PROVE  priv_pid_used'[q] = IF q \in Busy(d)' THEN Opens(d)' ELSE 0
  BY <1>1, <1>2 DEF IInv, Held, IdsHeld, Same
<1>4. ASSUME NEW q \in Holds(c)
      PROVE  priv_pid_used'[q] = IF q \in Busy(c)' THEN Opens(c)' ELSE 0
  BY <1>1 DEF IInv, Held, IdsHeld
<1> QED
  BY <1>1, <1>3, <1>4 DEF IInv, Held, IdsHeld

LEMMA OpenHeld == ASSUME IInv, NEW c \in Client, Open(c) PROVE Held'
<1>1. PICK p \in own[c], api \in DOMAIN Entry :
        /\ Table!OpenPidData(p)
        /\ call' = [call EXCEPT ![c] = [Idle EXCEPT !.at = Entry[api], !.api = api, !.pid = p,
                                                 !.b = priv_pid_data[p]]]
        /\ own' = IF api = "exit" THEN [own EXCEPT ![c] = @ \ {p}] ELSE own
  BY DEF Open
<1>2. UNCHANGED << heap, para, running, on >> /\ call[c].at = "idle"
  BY DEF Open, threadVars, At
<1>3. \A d \in Client \ {c} : Same(d)
  BY <1>1, Others DEF IInv
<1>4. /\ call'[c].at = Entry[api] /\ call'[c].api = api /\ call'[c].pid = p
      /\ call'[c].b = priv_pid_data[p] /\ call'[c].t = NULL
  <2>1. call'[c] = [Idle EXCEPT !.at = Entry[api], !.api = api, !.pid = p, !.b = priv_pid_data[p]]
    BY <1>1 DEF IInv, TypeOK
  <2> QED
    BY <2>1 DEF Idle
<1>5. own'[c] = IF api = "exit" THEN own[c] \ {p} ELSE own[c]
  BY <1>1 DEF IInv, TypeOK
<1>6. /\ api # "start"
      /\ IF api = "exit" THEN Entry[api] = "exit_status"
                         ELSE Entry[api] \in {"stop_status", "msg_status", "query"}
  BY DEF Entry
<1>7. /\ Holds(c) = own[c] /\ Busy(c) = {} /\ Players(c) = own[c]
      /\ Holds(c)' = own[c] /\ Busy(c)' = {p} /\ Players(c)' = own[c]
  BY <1>2, <1>4, <1>5, <1>6 DEF Holds, Busy, Players, At, Working, CallAt
<1>8. Opens(c)' = 1
  BY <1>4, <1>6 DEF Opens, StartAt, OpenAt
<1>9. p \in Table!Pid /\ priv_pid_used[p] = 0
  BY <1>7, Owned DEF IInv, Held, IdsHeld
<1>10. TableTypes' /\ UNCHANGED << priv_pid_pool, priv_pid_data >>
  BY <1>1, <1>9, OpenTable
<1>11. CallShape'
  BY <1>3, <1>4, <1>5, <1>6 DEF CallShape, IInv, Held, Same, At, StartAt, ExitAt
<1>12. IdsHeld'
  <2>1. /\ priv_pid_used'[p] = 1
        /\ \A q \in Table!Pid \ {p} : priv_pid_used'[q] = priv_pid_used[q]
    BY <1>1, <1>9, OpenTable
  <2> QED
    BY <1>3, <1>7, <1>8, <1>10, <2>1, IdsMove
<1>13. Joined'
  BY <1>2, <1>3, <1>4, <1>6 DEF Joined, IInv, Held, Same
<1> QED
  <2> DEFINE r == [Idle EXCEPT !.at = Entry[api], !.api = api, !.pid = p, !.b = priv_pid_data[p]]
  <2>1. call' = [call EXCEPT ![c] = r] /\ (own' = own \/ \E o : own' = [own EXCEPT ![c] = o])
    BY <1>1
  <2>2. r.at = Entry[api] /\ r.pid = p /\ r.b = priv_pid_data[p]
    BY DEF Idle
  <2> HIDE DEF r
  <2>3. r.at \notin {"publish", "pool", "create", "store"}
    BY <1>6, <2>2
  <2>4. heap' = heap /\ para' = para /\ on' = on /\ Players(c)' = Players(c)
    BY <1>2, <1>7
  <2> QED
    BY <1>2, <1>7, <1>10, <1>11, <1>12, <1>13, <2>1, <2>2, <2>3, <2>4, MoveHeld

\* The steps of a call that has its id open.
LEMMA Moved ==
  ASSUME IInv, NEW c \in Client, NEW to, call' = [call EXCEPT ![c].at = to], UNCHANGED own
  PROVE  /\ call' = [call EXCEPT ![c] = [call[c] EXCEPT !.at = to]]
         /\ \A d \in Client \ {c} : Same(d)
         /\ call'[c].at = to /\ call'[c].api = call[c].api /\ call'[c].pid = call[c].pid
         /\ call'[c].b = call[c].b /\ call'[c].t = call[c].t /\ b(c)' = b(c)
<1>1. call' = [call EXCEPT ![c] = [call[c] EXCEPT !.at = to]]
  BY DEF IInv, TypeOK
<1>2. \A d \in Client \ {c} : Same(d)
  BY <1>1, Others DEF IInv
<1>3. call[c] \in Call /\ call'[c] = [call[c] EXCEPT !.at = to]
  BY <1>1 DEF IInv, TypeOK
<1>4. /\ call'[c].at = to /\ call'[c].api = call[c].api /\ call'[c].pid = call[c].pid
      /\ call'[c].b = call[c].b /\ call'[c].t = call[c].t
  BY <1>3 DEF Call
<1> QED
  BY <1>1, <1>2, <1>4 DEF b

\* A call of player_exit that keeps its id and its block.
LEMMA ExitMove ==
  ASSUME IInv, NEW c \in Client, call[c].api = "exit", call[c].at \in OpenAt \cup ExitAt,
         NEW to \in OpenAt \cup ExitAt, call' = [call EXCEPT ![c].at = to],
         call[c].at \in Working <=> to \in Working,
         UNCHANGED << own, heap, para, priv_pid_data >>,
         \A t \in Tid : on'[t] = on[t] \/ on'[t] = NULL,
         TableTypes', IdsHeld', Joined'
  PROVE  Held'
<1>1. \A d \in Client \ {c} : Same(d)
  BY Moved
<1>2. /\ call'[c].at = to /\ call'[c].api = call[c].api /\ call'[c].pid = call[c].pid
      /\ call'[c].b = call[c].b /\ call'[c].t = call[c].t
  BY Moved
<1>3. \A s \in OpenAt \cup ExitAt :
         s \notin StartAt /\ s \notin {"idle", "publish", "pool", "create", "store"}
  BY DEF OpenAt, ExitAt, StartAt
<1>4. Players(c)' = Players(c)
  BY <1>2, <1>3 DEF Players
<1>5. CallShape'
  BY <1>1, <1>2, <1>3 DEF CallShape, IInv, Held, Same, At
<1> DEFINE r == [call[c] EXCEPT !.at = to]
<1>6. call' = [call EXCEPT ![c] = r]
  BY Moved
<1>7. r.at = to /\ r.pid = call[c].pid /\ r.b = b(c)
  BY DEF IInv, TypeOK, Call, b
<1> HIDE DEF r
<1>8. r.at \in Working => r.b = priv_pid_data[r.pid] /\ r.pid \in Players(c)
  BY <1>3, <1>7, AtWork
<1>9. heap' = heap /\ own' = own /\ para' = para /\ priv_pid_data' = priv_pid_data
  OBVIOUS
<1>10. call[c].at \notin {"publish", "pool", "create", "store"}
       /\ r.at \notin {"publish", "pool", "create", "store"}
  BY <1>3, <1>7
<1> QED
  BY <1>4, <1>5, <1>6, <1>8, <1>9, <1>10, MoveHeld

LEMMA CloseHeld == ASSUME IInv, NEW c \in Client, Close(c) PROVE Held'
<1>1. /\ UNCHANGED << heap, para, running, on, own >> /\ call[c].at = "close"
      /\ Table!ClosePidData(call[c].pid) /\ call[c].pid \in Table!Pid /\ call[c] \in Call
      /\ IF call[c].api = "exit" THEN Goto(c, "exit_join") ELSE Return(c)
  BY DEF Close, threadVars, At, IInv, TypeOK, Call
<1>2. /\ UNCHANGED << priv_pid_pool, priv_pid_data >> /\ TableTypes'
      /\ \A q \in Table!Pid \ {call[c].pid} : priv_pid_used'[q] = priv_pid_used[q]
      /\ priv_pid_used'[call[c].pid] = priv_pid_used[call[c].pid] - 1
  BY <1>1, OpenTable
<1>3. Busy(c) = {call[c].pid} /\ Holds(c) = own[c] \cup {call[c].pid}
  BY <1>1 DEF Holds, Busy, At
<1>4. Players(c) = own[c] \cup {call[c].pid}
  BY <1>1 DEF Players, Working, CallAt
<1>5. priv_pid_used[call[c].pid] = Opens(c)
  BY <1>3 DEF IInv, Held, IdsHeld
<1>6. CASE call[c].api = "exit"
  <2>1. call' = [call EXCEPT ![c].at = "exit_join"]
    BY <1>1, <1>6 DEF Goto
  <2>2. (\A d \in Client \ {c} : Same(d)) /\ call'[c].at = "exit_join" /\ call'[c].pid = call[c].pid
    BY <1>1, <2>1, Moved
  <2>3. Opens(c) = 2 /\ Opens(c)' = 1
    BY <1>1, <1>6, <2>2 DEF Opens, OpenAt, StartAt
  <2>4. Busy(c)' = Busy(c) /\ Holds(c)' = Holds(c)
    BY <1>1, <1>3, <2>2 DEF Holds, Busy, At
  <2>5. IdsHeld'
    <3>1. priv_pid_used'[call[c].pid] = IF call[c].pid \in Busy(c)' THEN Opens(c)' ELSE 0
      BY <1>2, <1>3, <1>5, <2>3, <2>4
    <3>2. call[c].pid \in Holds(c) /\ Busy(c) \subseteq {call[c].pid} /\ Busy(c)' \subseteq {call[c].pid}
      BY <1>3, <2>4
    <3> QED
      BY <1>2, <2>2, <2>4, <3>1, <3>2, IdsMove
  <2>6. Joined'
    BY <1>1, <2>2 DEF Joined, IInv, Held, Same
  <2>7. {call[c].at, "exit_join"} \subseteq OpenAt \cup ExitAt /\ {call[c].at, "exit_join"} \subseteq Working
    BY <1>1 DEF OpenAt, ExitAt, Working, CallAt
  <2>8. UNCHANGED << own, heap, para, priv_pid_data >> /\ on' = on
    BY <1>1, <1>2
  <2> QED
    BY <1>2, <1>6, <2>1, <2>5, <2>6, <2>7, <2>8, ExitMove
<1>7. CASE call[c].api # "exit"
  <2>1. call' = [call EXCEPT ![c] = Idle] /\ own' = own
    BY <1>1, <1>7 DEF Return
  <2>2. (\A d \in Client \ {c} : Same(d)) /\ call'[c] = Idle
    BY <2>1, Others DEF IInv
  <2>3. call[c].pid \in own[c]
    BY <1>1, <1>7 DEF IInv, Held, CallShape, At, StartAt
  <2>4. Busy(c)' = {} /\ Holds(c)' = Holds(c) /\ Players(c)' = Players(c)
    BY <1>1, <1>3, <1>4, <2>2, <2>3 DEF Holds, Busy, Players, At, Idle, Working
  <2>5. Opens(c) = 1
    BY <1>1, <1>7 DEF Opens, OpenAt, StartAt
  <2>6. CallShape'
    BY <1>1, <2>2 DEF CallShape, IInv, Held, Same, At, Idle
  <2>7. IdsHeld'
    <3>1. priv_pid_used'[call[c].pid] = IF call[c].pid \in Busy(c)' THEN Opens(c)' ELSE 0
      BY <1>2, <1>3, <1>5, <2>4, <2>5
    <3>2. call[c].pid \in Holds(c) /\ Busy(c) \subseteq {call[c].pid} /\ Busy(c)' \subseteq {call[c].pid}
      BY <1>3, <2>4
    <3> QED
      BY <1>2, <2>2, <2>4, <3>1, <3>2, IdsMove
  <2>8. Joined'
    BY <1>1, <2>2 DEF Joined, IInv, Held, Same, Idle
  <2>9. /\ Idle.at = "idle" /\ "idle" \notin Working
        /\ heap' = heap /\ para' = para /\ on' = on /\ priv_pid_data' = priv_pid_data
    BY <1>1, <1>2 DEF Idle, Working
  <2> QED
    BY <1>1, <1>2, <2>1, <2>4, <2>6, <2>7, <2>8, <2>9, MoveHeld
<1> QED
  BY <1>6, <1>7

LEMMA ExitStatusHeld == ASSUME IInv, NEW c \in Client, ExitStatus(c) PROVE Held'
<1>1. /\ UNCHANGED << heap, para, running, on, own >> /\ call[c].at = "exit_status"
      /\ call[c].pid \in Table!Pid /\ call[c].api = "exit"
      /\ \/ Goto(c, "exit_join") /\ UNCHANGED tableVars
         \/ Table!OpenPidData(call[c].pid) /\ Goto(c, "stop_status")
  BY DEF ExitStatus, threadVars, At, IInv, TypeOK, Call, Held, CallShape, ExitAt
<1>2. /\ UNCHANGED << priv_pid_pool, priv_pid_data >> /\ TableTypes'
      /\ \A q \in Table!Pid \ {call[c].pid} : priv_pid_used'[q] = priv_pid_used[q]
  BY <1>1, OpenTable DEF tableVars, TableTypes, IInv, Held
<1>3. PICK to \in {"exit_join", "stop_status"} : call' = [call EXCEPT ![c].at = to]
  BY <1>1 DEF Goto
<1>4. (\A d \in Client \ {c} : Same(d)) /\ call'[c].at = to /\ call'[c].pid = call[c].pid
      /\ call'[c].api = call[c].api
  BY <1>1, <1>3, Moved
<1>5. /\ Busy(c) = {call[c].pid} /\ Holds(c) = own[c] \cup {call[c].pid}
      /\ Busy(c)' = Busy(c) /\ Holds(c)' = Holds(c)
  BY <1>1, <1>4 DEF Holds, Busy, At
<1>6. priv_pid_used[call[c].pid] = Opens(c) /\ Opens(c) = 1
  <2>1. priv_pid_used[call[c].pid] = Opens(c)
    BY <1>5 DEF IInv, Held, IdsHeld
  <2>2. Opens(c) = 1
    BY <1>1 DEF Opens, OpenAt, StartAt
  <2> QED
    BY <2>1, <2>2
<1>7. priv_pid_used'[call[c].pid] = Opens(c)'
  <2>1. CASE Goto(c, "exit_join") /\ UNCHANGED tableVars
    <3>1. call'[c].at = "exit_join"
      BY <1>1, <2>1, Moved DEF Goto
    <3>2. Opens(c)' = 1
      BY <3>1 DEF Opens, OpenAt, StartAt
    <3> QED
      BY <1>6, <2>1, <3>2 DEF tableVars
  <2>2. CASE Table!OpenPidData(call[c].pid) /\ Goto(c, "stop_status")
    <3>1. call'[c].at = "stop_status"
      BY <1>1, <2>2, Moved DEF Goto
    <3>2. Opens(c)' = 2
      BY <1>1, <1>4, <3>1 DEF Opens, OpenAt, StartAt
    <3> QED
      BY <1>1, <1>6, <2>2, <3>2, OpenTable
  <2> QED
    BY <1>1, <2>1, <2>2
<1>8. IdsHeld'
  BY <1>2, <1>4, <1>5, <1>7, IdsMove
<1>9. Joined'
  BY <1>1, <1>4 DEF Joined, IInv, Held, Same
<1>10. {call[c].at, to} \subseteq OpenAt \cup ExitAt /\ {call[c].at, to} \subseteq Working
  BY <1>1 DEF OpenAt, ExitAt, Working, CallAt
<1>11. UNCHANGED << own, heap, para, priv_pid_data >> /\ on' = on
  BY <1>1, <1>2
<1> QED
  BY <1>1, <1>2, <1>3, <1>8, <1>9, <1>10, <1>11, ExitMove

\* Once its thread is joined, no thread is left on the block of a player to exit.
LEMMA JoinHeld == ASSUME IInv, NEW c \in Client, ExitJoin(c) PROVE Held'
<1>1. /\ UNCHANGED << tableVars, heap, para, own >> /\ call[c].at = "exit_join"
      /\ call' = [call EXCEPT ![c].at = "exit_uninterrupt"]
      /\ on' = [on EXCEPT ![tid(c)] = NULL] /\ call[c].api = "exit"
  BY DEF ExitJoin, Step, Goto, At, Join, IInv, Held, CallShape, ExitAt
<1>2. (\A d \in Client \ {c} : Same(d)) /\ call'[c].at = "exit_uninterrupt"
      /\ call'[c].pid = call[c].pid /\ b(c)' = b(c)
  BY <1>1, Moved
<1>3. /\ Busy(c) = {call[c].pid} /\ Holds(c) = own[c] \cup {call[c].pid}
      /\ Busy(c)' = Busy(c) /\ Holds(c)' = Holds(c)
  BY <1>1, <1>2 DEF Holds, Busy, At
<1>4. Opens(c) = 1 /\ Opens(c)' = 1
  BY <1>1, <1>2 DEF Opens, OpenAt, StartAt
<1>5. UNCHANGED << priv_pid_pool, priv_pid_data, priv_pid_used >> /\ TableTypes'
  BY <1>1 DEF tableVars, TableTypes, IInv, Held
<1>6. IdsHeld'
  BY <1>2, <1>3, <1>4, <1>5 DEF IdsHeld, IInv, Held, Same
<1>7. b(c) \in Block /\ \A d \in Client : call[d].at \in Working /\ b(d) = b(c) => c = d
  BY <1>1, AtWork, OneOwner DEF Working, CallAt
<1>8. \A t \in Tid : on'[t] = IF t = tid(c) THEN NULL ELSE on[t]
  BY <1>1 DEF IInv, TypeOK
<1>9. ASSUME NEW t \in Tid PROVE on'[t] # b(c)
  <2>1. SUFFICES ASSUME on[t] = b(c) PROVE t = tid(c)
    BY <1>7, <1>8
  <2>2. \A d \in Client : ~ (At(d, "store") /\ b(d) = on[t])
    BY <1>1, <1>7, <2>1 DEF At, Working, CallAt
  <2> QED
    BY <1>7, <2>1, <2>2 DEF IInv, Held, ThreadsHeld, tid
<1>10. Joined'
  <2>1. ASSUME NEW d \in Client \ {c}, call'[d].at \in {"exit_uninterrupt", "free"}, NEW t \in Tid
        PROVE  on'[t] # b(d)'
    <3>1. call[d] = call'[d] /\ b(d)' = b(d)
      BY <1>2 DEF Same
    <3>2. on[t] # b(d) /\ b(d) \in Block
      BY <2>1, <3>1, AtWork DEF Joined, IInv, Held, Working, CallAt
    <3> QED
      BY <1>8, <3>1, <3>2
  <2> QED
    BY <1>2, <1>9, <2>1 DEF Joined
<1>11. /\ {call[c].at, "exit_uninterrupt"} \subseteq OpenAt \cup ExitAt
       /\ {call[c].at, "exit_uninterrupt"} \subseteq Working
  BY <1>1 DEF OpenAt, ExitAt, Working, CallAt
<1> QED
  BY <1>1, <1>5, <1>6, <1>8, <1>10, <1>11, ExitMove

LEMMA UninterruptHeld == ASSUME IInv, NEW c \in Client, ExitUninterrupt(c) PROVE Held'
<1>1. /\ UNCHANGED << tableVars, heap, para, own, on >> /\ call[c].at = "exit_uninterrupt"
      /\ call' = [call EXCEPT ![c].at = "free"] /\ call[c].api = "exit"
  BY DEF ExitUninterrupt, Step, Goto, At, IInv, Held, CallShape, ExitAt, threadVars
<1>2. (\A d \in Client \ {c} : Same(d)) /\ call'[c].at = "free"
      /\ call'[c].pid = call[c].pid /\ b(c)' = b(c)
  BY <1>1, Moved
<1>3. /\ Busy(c) = {call[c].pid} /\ Holds(c) = own[c] \cup {call[c].pid}
      /\ Busy(c)' = Busy(c) /\ Holds(c)' = Holds(c)
  BY <1>1, <1>2 DEF Holds, Busy, At
<1>4. Opens(c) = 1 /\ Opens(c)' = 1
  BY <1>1, <1>2 DEF Opens, OpenAt, StartAt
<1>5. UNCHANGED << priv_pid_pool, priv_pid_data, priv_pid_used >> /\ TableTypes'
  BY <1>1 DEF tableVars, TableTypes, IInv, Held
<1>6. IdsHeld'
  BY <1>2, <1>3, <1>4, <1>5 DEF IdsHeld, IInv, Held, Same
<1>7. Joined'
  BY <1>1, <1>2 DEF Joined, IInv, Held, Same
<1>8. {call[c].at, "free"} \subseteq OpenAt \cup ExitAt /\ {call[c].at, "free"} \subseteq Working
  BY <1>1 DEF OpenAt, ExitAt, Working, CallAt
<1> QED
  BY <1>1, <1>5, <1>6, <1>7, <1>8, ExitMove

LEMMA ExitCloseHeld == ASSUME IInv, NEW c \in Client, ExitClose(c) PROVE Held'
<1>1. /\ UNCHANGED << heap, para, running, on, own >> /\ call[c].at = "exit_close"
      /\ call' = [call EXCEPT ![c].at = "release"] /\ call[c].api = "exit"
      /\ Table!ClosePidData(call[c].pid) /\ call[c].pid \in Table!Pid
  BY DEF ExitClose, Step, Goto, threadVars, At, IInv, TypeOK, Call, Held, CallShape, ExitAt
<1>2. /\ UNCHANGED << priv_pid_pool, priv_pid_data >> /\ TableTypes'
      /\ \A q \in Table!Pid \ {call[c].pid} : priv_pid_used'[q] = priv_pid_used[q]
      /\ priv_pid_used'[call[c].pid] = priv_pid_used[call[c].pid] - 1
  BY <1>1, OpenTable
<1>3. (\A d \in Client \ {c} : Same(d)) /\ call'[c].at = "release"
      /\ call'[c].pid = call[c].pid
  BY <1>1, Moved
<1>4. /\ Busy(c) = {call[c].pid} /\ Holds(c) = own[c] \cup {call[c].pid}
      /\ Busy(c)' = Busy(c) /\ Holds(c)' = Holds(c)
  BY <1>1, <1>3 DEF Holds, Busy, At
<1>5. Opens(c) = 1 /\ Opens(c)' = 0
  BY <1>1, <1>3 DEF Opens, OpenAt, StartAt
<1>6. priv_pid_used'[call[c].pid] = IF call[c].pid \in Busy(c)' THEN Opens(c)' ELSE 0
  <2>1. priv_pid_used[call[c].pid] = Opens(c)
    BY <1>4 DEF IInv, Held, IdsHeld
  <2> QED
    BY <1>2, <1>5, <2>1
<1>7. IdsHeld'
  BY <1>2, <1>3, <1>4, <1>6, IdsMove
<1>8. Joined'
  BY <1>1, <1>3 DEF Joined, IInv, Held, Same
<1>9. /\ {call[c].at, "release"} \subseteq OpenAt \cup ExitAt
      /\ call[c].at \notin Working /\ "release" \notin Working
  BY <1>1 DEF OpenAt, ExitAt, Working
<1>10. UNCHANGED << own, heap, para, priv_pid_data >> /\ on' = on
  BY <1>1, <1>2
<1> QED
  BY <1>1, <1>2, <1>7, <1>8, <1>9, <1>10, ExitMove

\* The release of an id that leads to no player any more, or to none yet.
LEMMA ReleaseHeld ==
  ASSUME IInv, NEW c \in Client, call[c].at \in {"undo", "release"},
         Table!ReleasePid(call[c].pid), Return(c),
         UNCHANGED << heap, para, threadVars, own >>
  PROVE  Held'
<1>1. /\ priv_pid_pool' = priv_pid_pool \ {call[c].pid} /\ TableTypes'
      /\ \A q \in Table!Pid \ {call[c].pid} :
           /\ priv_pid_data'[q] = priv_pid_data[q] /\ priv_pid_used'[q] = priv_pid_used[q]
  BY DEF Table!ReleasePid, TableTypes, IInv, Held
<1>2. call' = [call EXCEPT ![c] = Idle] /\ own' = own /\ on' = on /\ para' = para /\ heap' = heap
  BY DEF Return, threadVars
<1>3. (\A d \in Client \ {c} : Same(d)) /\ call'[c] = Idle
  BY <1>2, Others DEF IInv
<1>4. call[c].pid \notin own[c]
  BY DEF IInv, Held, CallShape, At, StartAt, ExitAt
<1>5. /\ Busy(c) = {call[c].pid} /\ Holds(c) = own[c] \cup {call[c].pid} /\ Players(c) = own[c]
      /\ Busy(c)' = {} /\ Holds(c)' = own[c] /\ Players(c)' = own[c]
  BY <1>2, <1>3 DEF Holds, Busy, Players, At, Working, Idle
<1>6. \A d \in Client : Holds(d) \subseteq Table!Pid /\ Players(d) \subseteq Holds(d)
  BY Owned
<1>7. \A d \in Client \ {c} : call[c].pid \notin Holds(d)
  BY <1>5 DEF IInv, Held, IdsHeld
<1>8. \A d \in Client : \A q \in Players(d) : priv_pid_data'[q] = priv_pid_data[q]
  BY <1>1, <1>4, <1>5, <1>6, <1>7
<1>9. CallShape'
  BY <1>2, <1>3 DEF CallShape, IInv, Held, Same, At, Idle
<1>10. IdsHeld'
  <2>1. ASSUME NEW d \in Client \ {c}, NEW q \in Holds(d)
        PROVE  /\ q \in priv_pid_pool' /\ priv_pid_used'[q] = IF q \in Busy(d)' THEN Opens(d)' ELSE 0
    BY <1>1, <1>3, <1>6, <1>7 DEF IInv, Held, IdsHeld, Same
  <2>2. ASSUME NEW q \in own[c] PROVE q \in priv_pid_pool' /\ priv_pid_used'[q] = 0
    BY <1>1, <1>4, <1>5, <1>6 DEF IInv, Held, IdsHeld
  <2>3. \A d \in Client : Holds(d)' \subseteq Holds(d)
    BY <1>3, <1>5 DEF Same
  <2>4. \A d \in Client \ {c} : Holds(d)' = Holds(d)
    BY <1>3 DEF Same
  <2> QED
    BY <1>5, <2>1, <2>2, <2>3, <2>4 DEF IInv, Held, IdsHeld
<1>11. Joined'
  BY <1>2, <1>3 DEF Joined, IInv, Held, Same, Idle
<1>12. Idle.at = "idle" /\ "idle" \notin Working /\ Players(c)' = Players(c)
  BY <1>5 DEF Idle, Working
<1> QED
  BY <1>1, <1>2, <1>8, <1>9, <1>10, <1>11, <1>12, MoveHeld

\* The end of a block, of a player or of a player_start that fails.
LEMMA FreedHeld ==
  ASSUME IInv, NEW c \in Client, NEW to,
         \/ call[c].at = "create" /\ to = "undo"
         \/ call[c].at = "free" /\ to = "exit_close",
         call' = [call EXCEPT ![c].at = to], heap' = heap \ {b(c)},
         UNCHANGED << tableVars, para, threadVars, own >>,
         \A t \in Tid : on[t] # b(c)
  PROVE  Held'
<1>1. /\ UNCHANGED << priv_pid_pool, priv_pid_data, priv_pid_used, own, on, para >> /\ TableTypes'
  BY DEF tableVars, threadVars, TableTypes, IInv, Held
<1>2. (\A d \in Client \ {c} : Same(d)) /\ call'[c].at = to /\ b(c)' = b(c) /\ call'[c].t = call[c].t
      /\ call'[c].pid = call[c].pid /\ call'[c].api = call[c].api
  BY <1>1, Moved
<1>3. call[c].at \in Working \ {"publish"} /\ to \notin Working /\ to # "idle" /\ to # "store"
  BY DEF Working, CallAt
<1>4. call[c].pid \notin own[c]
  BY DEF IInv, Held, CallShape, At, StartAt, ExitAt
<1>5. /\ Busy(c)' = Busy(c) /\ Holds(c)' = Holds(c) /\ Busy(c) = {call[c].pid}
      /\ Players(c) = own[c] \cup {call[c].pid} /\ Players(c)' = own[c]
  BY <1>1, <1>2, <1>3 DEF Holds, Busy, Players, At, Working
<1>6. Opens(c)' = Opens(c)
  BY <1>2 DEF Opens, OpenAt, StartAt
<1>7. CallShape'
  BY <1>1, <1>2 DEF CallShape, IInv, Held, Same, At, StartAt, ExitAt
<1>8. IdsHeld'
  BY <1>1, <1>2, <1>5, <1>6 DEF IdsHeld, IInv, Held, Same
<1>9. /\ \A d \in Client : call[d].at \in Working /\ b(d) = b(c) => c = d
      /\ \A d \in Client : \A q \in Players(d) :
           priv_pid_data[q] = b(c) => q = call[c].pid /\ c = d
  BY <1>3, OneOwner
<1>10. \A d \in Client : Players(d)' \subseteq Players(d)
                         /\ \A q \in Players(d)' : priv_pid_data[q] # b(c)
  BY <1>2, <1>4, <1>5, <1>9 DEF Same
<1>11. NewBlocks'
  <2>1. \A d \in Client : At(d, "publish")' =>
          At(d, "publish") /\ b(d)' = b(d) /\ b(d) # b(c)
    <3>1. \A d \in Client : At(d, "publish")' => d # c
      BY <1>2, <1>3 DEF At
    <3> QED
      BY <1>2, <1>9, <3>1 DEF Same, At, Working, CallAt
  <2> QED
    BY <1>1, <1>10, <2>1 DEF NewBlocks, IInv, Held
<1>12. BlocksHeld'
  <2>1. ASSUME NEW d \in Client, call'[d].at \in Working \ {"publish"}
        PROVE  b(d)' = priv_pid_data'[call'[d].pid]
    BY <1>1, <1>2, <1>3, <2>1, AtWork DEF Same
  <2> QED
    BY <1>1, <1>10, <2>1 DEF BlocksHeld, IInv, Held
<1>13. BlocksKept'
  <2>1. ASSUME NEW x \in heap' PROVE \E d \in Client : \/ At(d, "publish")' /\ b(d)' = x
                                                       \/ \E q \in Players(d)' : priv_pid_data'[q] = x
    <3>1. x \in heap /\ x # b(c)
      OBVIOUS
    <3>2. PICK d \in Client : (At(d, "publish") /\ b(d) = x) \/ \E q \in Players(d) : priv_pid_data[q] = x
      BY <3>1 DEF BlocksKept, IInv, Held
    <3>3. CASE d = c
      <4>1. PICK q \in Players(c) : priv_pid_data[q] = x
        BY <1>3, <3>2, <3>3 DEF At
      <4>2. q \in Players(c)'
        BY <1>3, <1>5, <3>1, <4>1, AtWork
      <4> QED
        BY <1>1, <4>1, <4>2
    <3>4. CASE d # c
      BY <1>1, <1>2, <3>2, <3>4 DEF Same, At
    <3> QED
      BY <3>3, <3>4
  <2> QED
    BY <2>1 DEF BlocksKept
<1>14. BlocksReady'
  <2>1. ASSUME NEW d \in Client, call'[d].at \in {"publish", "pool", "create", "store"}
        PROVE  call[d] = call'[d] /\ b(d)' = b(d)
    BY <1>2, <2>1 DEF Same
  <2>2. ASSUME NEW d \in Client, NEW q \in Players(d)'
        PROVE  q \in Busy(d) /\ call[d].at \in StartAt => q \in Busy(d)' /\ call'[d].at \in StartAt
    <3>1. CASE d = c
      BY <1>4, <1>5, <2>2, <3>1
    <3>2. CASE d # c
      BY <1>2, <3>2 DEF Same
    <3> QED
      BY <3>1, <3>2
  <2> QED
    BY <1>1, <1>10, <2>1, <2>2 DEF BlocksReady, IInv, Held
<1>15. ThreadsHeld'
  <2>1. \A d \in Client : At(d, "store") => At(d, "store")' /\ b(d)' = b(d) /\ call'[d] = call[d]
    BY <1>2 DEF Same, At
  <2> QED
    BY <1>1, <2>1 DEF ThreadsHeld, IInv, Held
<1>16. Joined'
  BY <1>1, <1>2 DEF Joined, IInv, Held, Same
<1> QED
  BY <1>1, <1>7, <1>8, <1>11, <1>12, <1>13, <1>14, <1>15, <1>16 DEF Held

LEMMA CreateHeld == ASSUME IInv, NEW c \in Client, StartCreate(c) PROVE Held'
<1>1. /\ UNCHANGED << tableVars, para, own >> /\ call[c].at = "create"
      /\ UNCHANGED << priv_pid_pool, priv_pid_data, priv_pid_used >>
  BY DEF StartCreate, At, tableVars
<1>2. /\ call[c].at \in Working \ {"publish"}
      /\ b(c) \in heap /\ b(c) \in Block /\ tid(c) = NULL /\ para[b(c)].pool = "ready"
  <2>1. call[c].at \in Working \ {"publish"}
    BY <1>1 DEF Working, CallAt
  <2> QED
    BY <1>1, <2>1, AtWork DEF IInv, Held, BlocksReady, tid
<1>3. \A d \in Client : call[d].at \in Working /\ b(d) = b(c) => c = d
  BY <1>2, OneOwner
<1>4. CASE heap' = heap \ {b(c)} /\ Goto(c, "undo") /\ UNCHANGED threadVars
  <2>1. ASSUME NEW t \in Tid, on[t] = b(c) PROVE FALSE
    <3>1. \A d \in Client : ~ (At(d, "store") /\ b(d) = on[t])
      BY <1>1, <1>3, <2>1 DEF At, Working, CallAt
    <3> QED
      BY <1>2, <2>1, <3>1 DEF IInv, Held, ThreadsHeld, tid
  <2> QED
    BY <1>1, <1>4, <2>1, FreedHeld DEF Goto
<1>5. CASE \E t \in Tid : /\ on[t] = NULL
                          /\ on' = [on EXCEPT ![t] = b(c)] /\ running' = running \cup {t}
                          /\ call' = [call EXCEPT ![c].at = "store", ![c].t = t]
                          /\ UNCHANGED heap
  <2>1. PICK t \in Tid : /\ on[t] = NULL /\ on' = [on EXCEPT ![t] = b(c)]
                         /\ call' = [call EXCEPT ![c].at = "store", ![c].t = t]
                         /\ heap' = heap
    BY <1>5
  <2>2. \A d \in Client \ {c} : Same(d)
    <3>1. call' = [call EXCEPT ![c] = [call[c] EXCEPT !.at = "store", !.t = t]]
      BY <2>1 DEF IInv, TypeOK
    <3> QED
      BY <1>1, <3>1, Others DEF IInv
  <2>3. /\ call'[c].at = "store" /\ call'[c].api = call[c].api /\ call'[c].pid = call[c].pid
        /\ b(c)' = b(c) /\ call'[c].t = t
    BY <2>1 DEF IInv, TypeOK, Call, b
  <2>4. /\ Holds(c)' = Holds(c) /\ Busy(c)' = Busy(c) /\ Players(c)' = Players(c)
    BY <1>1, <2>3 DEF Holds, Busy, Players, Working, CallAt, At
  <2>5. Opens(c)' = Opens(c)
    BY <1>1, <2>3 DEF Opens, StartAt, OpenAt
  <2>6. \A d \in Client : Holds(d)' = Holds(d) /\ Busy(d)' = Busy(d) /\ Opens(d)' = Opens(d)
                          /\ Players(d)' = Players(d) /\ b(d)' = b(d)
    BY <2>2, <2>3, <2>4, <2>5 DEF Same
  <2>7. TableTypes'
    BY <1>1 DEF TableTypes, IInv, Held
  <2>8. CallShape'
    <3>1. call[c].api = "start" /\ call[c].pid \notin own[c] /\ t # NULL
      BY <1>1 DEF CallShape, IInv, Held, At, StartAt
    <3>2. \A d \in Client \ {c} : call'[d] = call[d]
      BY <2>2 DEF Same
    <3> QED
      BY <1>1, <2>3, <3>1, <3>2 DEF CallShape, IInv, Held, At, StartAt, ExitAt
  <2>9. IdsHeld'
    BY <1>1, <2>6 DEF IdsHeld, IInv, Held
  <2>10. \A d \in Client : At(d, "publish")' <=> At(d, "publish")
    BY <1>1, <2>2, <2>3 DEF Same, At
  <2>11. NewBlocks'
    BY <1>1, <2>1, <2>6, <2>10 DEF NewBlocks, IInv, Held
  <2>12. BlocksHeld'
    <3>1. ASSUME NEW d \in Client, call'[d].at \in Working \ {"publish"}
          PROVE  b(d)' = priv_pid_data'[call'[d].pid]
      BY <1>1, <1>2, <2>2, <2>3, <3>1, AtWork DEF Same
    <3>2. \A d \in Client : Players(d)' = Players(d)
      BY <2>6
    <3>3. priv_pid_data' = priv_pid_data /\ heap' = heap
      BY <1>1, <2>1
    <3>4. \A d \in Client : \A q \in Players(d)' :
            /\ priv_pid_data'[q] \in heap'
            /\ \A e \in Client : \A p \in Players(e)' :
                 priv_pid_data'[q] = priv_pid_data'[p] => q = p
      BY <3>2, <3>3 DEF BlocksHeld, IInv, Held
    <3> QED
      BY <3>1, <3>4 DEF BlocksHeld
  <2>13. BlocksKept'
    BY <1>1, <2>1, <2>6, <2>10 DEF BlocksKept, IInv, Held
  <2>14. BlocksReady'
    BY <1>1, <2>2, <2>3, <2>6 DEF BlocksReady, IInv, Held, Same, StartAt
  <2>15. ThreadsHeld'
    <3>1. \A d \in Client : At(d, "store") => At(d, "store")' /\ b(d)' = b(d) /\ call'[d] = call[d]
      BY <1>1, <2>2 DEF Same, At
    <3>2. \A u \in Tid : on'[u] = IF u = t THEN b(c) ELSE on[u]
      BY <2>1 DEF IInv, TypeOK
    <3>3. At(c, "store")' /\ b(c)' = b(c) /\ call'[c].t = t
      BY <2>3 DEF At
    <3>4. ASSUME NEW u \in Tid \ {t}, on'[u] # NULL
          PROVE  /\ on'[u] \in heap' /\ para'[on'[u]].pool = "ready"
                 /\ \/ para'[on'[u]].pthread_id = u
                    \/ \E d \in Client : At(d, "store")' /\ b(d)' = on'[u] /\ call'[d].t = u
      <4>1. on'[u] = on[u] /\ heap' = heap /\ para' = para
        BY <1>1, <2>1, <3>2, <3>4
      <4>2. /\ on[u] \in heap /\ para[on[u]].pool = "ready"
            /\ \/ para[on[u]].pthread_id = u
               \/ \E d \in Client : At(d, "store") /\ b(d) = on[u] /\ call[d].t = u
        BY <3>4, <4>1 DEF ThreadsHeld, IInv, Held
      <4> QED
        BY <3>1, <4>1, <4>2
    <3>5. /\ on'[t] \in heap' /\ para'[on'[t]].pool = "ready"
          /\ At(c, "store")' /\ b(c)' = on'[t] /\ call'[c].t = t
      BY <1>1, <1>2, <2>1, <3>2, <3>3
    <3> QED
      BY <3>4, <3>5 DEF ThreadsHeld
  <2>16. Joined'
    <3>1. ASSUME NEW d \in Client, call'[d].at \in {"exit_uninterrupt", "free"}
          PROVE  call[d] = call'[d] /\ b(d)' = b(d) /\ b(d) # b(c)
      <4>1. call[d] = call'[d] /\ b(d)' = b(d)
        BY <2>2, <2>3, <3>1 DEF Same
      <4> QED
        BY <1>1, <1>3, <3>1, <4>1 DEF Working, CallAt
    <3>2. \A u \in Tid : on'[u] = IF u = t THEN b(c) ELSE on[u]
      BY <2>1 DEF IInv, TypeOK
    <3> QED
      BY <3>1, <3>2 DEF Joined, IInv, Held
  <2> QED
    BY <2>7, <2>8, <2>9, <2>11, <2>12, <2>13, <2>14, <2>15, <2>16 DEF Held
<1> QED
  BY <1>4, <1>5 DEF StartCreate

\* From here on the block is found by its id.
LEMMA PublishHeld == ASSUME IInv, NEW c \in Client, StartPublish(c) PROVE Held'
<1>1. /\ heap' = heap /\ para' = para /\ on' = on /\ own' = own /\ call[c].at = "publish"
      /\ call' = [call EXCEPT ![c].at = "pool"] /\ call[c].api = "start"
      /\ call[c].pid \in Table!Pid /\ call[c].pid \notin own[c] /\ call[c].t = NULL
  BY DEF StartPublish, Step, Goto, At, threadVars, IInv, Held, CallShape, TypeOK, Call, StartAt
<1>2. b(c) \in heap /\ b(c) \in Block
  BY <1>1, WorkingBlock DEF Working, CallAt
<1>3. (\A d \in Client \ {c} : Same(d)) /\ call'[c].at = "pool" /\ b(c)' = b(c)
      /\ call'[c].pid = call[c].pid /\ call'[c].api = call[c].api /\ call'[c].t = call[c].t
  BY <1>1, Moved
<1>4. /\ Busy(c)' = Busy(c) /\ Holds(c)' = Holds(c) /\ Busy(c) = {call[c].pid}
      /\ Players(c) = own[c] /\ Players(c)' = own[c] \cup {call[c].pid}
  BY <1>1, <1>3 DEF Holds, Busy, Players, At, Working, CallAt
<1>5. Opens(c)' = Opens(c)
  BY <1>1, <1>3 DEF Opens, OpenAt, StartAt
<1>6. call[c].pid \in Holds(c) /\ call[c].pid \in priv_pid_pool
  BY <1>4, Owned DEF Holds
<1>7. /\ UNCHANGED << priv_pid_pool, priv_pid_used >> /\ TableTypes'
      /\ priv_pid_data' = [priv_pid_data EXCEPT ![call[c].pid] = b(c)]
  BY <1>2, <1>6 DEF StartPublish, Table!InitPidData, TableTypes, IInv, Held
<1>8. /\ priv_pid_data'[call[c].pid] = b(c)
      /\ \A q \in Table!Pid \ {call[c].pid} : priv_pid_data'[q] = priv_pid_data[q]
  BY <1>1, <1>7 DEF TableTypes, IInv, Held
<1>9. ASSUME NEW d \in Client, NEW q \in Players(d)
      PROVE  /\ q # call[c].pid /\ priv_pid_data'[q] = priv_pid_data[q]
             /\ priv_pid_data[q] \in heap /\ priv_pid_data[q] # b(c)
  <2>1. q \in Holds(d) /\ q \in Table!Pid /\ priv_pid_data[q] \in heap
    BY Owned
  <2>2. q # call[c].pid
    BY <1>1, <1>4, <1>6, <2>1 DEF IInv, Held, IdsHeld
  <2>3. priv_pid_data[q] # b(c)
    BY <1>1 DEF IInv, Held, NewBlocks, At
  <2> QED
    BY <1>8, <2>1, <2>2, <2>3
<1>10. \A d \in Client : Players(d)' = IF d = c THEN Players(c) \cup {call[c].pid} ELSE Players(d)
  BY <1>3, <1>4 DEF Same
<1>11. CallShape'
  BY <1>1, <1>3 DEF CallShape, IInv, Held, Same, At, StartAt, ExitAt
<1>12. IdsHeld'
  BY <1>3, <1>4, <1>5, <1>7 DEF IdsHeld, IInv, Held, Same
<1>13. NewBlocks'
  <2>1. ASSUME NEW d \in Client, At(d, "publish")'
        PROVE  d # c /\ At(d, "publish") /\ b(d)' = b(d) /\ b(d) \in heap /\ b(d) # b(c)
    <3>1. d # c /\ At(d, "publish") /\ b(d)' = b(d)
      BY <1>3, <2>1 DEF Same, At
    <3>2. At(c, "publish")
      BY <1>1 DEF At
    <3> QED
      BY <3>1, <3>2 DEF NewBlocks, IInv, Held
  <2>2. ASSUME NEW d \in Client, At(d, "publish")', NEW e \in Client, NEW q \in Players(e)'
        PROVE  priv_pid_data'[q] # b(d)'
    <3>1. CASE q \in Players(e)
      BY <1>9, <2>1, <2>2, <3>1 DEF NewBlocks, IInv, Held
    <3>2. CASE q = call[c].pid
      BY <1>8, <2>1, <2>2, <3>2
    <3> QED
      BY <1>10, <2>2, <3>1, <3>2
  <2> QED
    BY <1>1, <2>1, <2>2 DEF NewBlocks, IInv, Held
<1>14. BlocksHeld'
  <2>1. ASSUME NEW d \in Client, call'[d].at \in Working \ {"publish"}
        PROVE  b(d)' = priv_pid_data'[call'[d].pid]
    <3>1. CASE d = c
      BY <1>3, <1>8, <3>1
    <3>2. CASE d # c
      <4>1. call'[d] = call[d] /\ b(d)' = b(d)
        BY <1>3, <3>2 DEF Same
      <4>2. call[d].pid \in Players(d) /\ b(d) = priv_pid_data[call[d].pid]
        BY <2>1, <4>1, AtWork
      <4> QED
        BY <1>9, <4>1, <4>2
    <3> QED
      BY <3>1, <3>2
  <2>2. ASSUME NEW d \in Client, NEW p \in Players(d)'
        PROVE  /\ priv_pid_data'[p] \in heap'
               /\ \A e \in Client : \A q \in Players(e)' : priv_pid_data'[p] = priv_pid_data'[q] => p = q
    <3>1. \A e \in Client : \A q \in Players(e)' : q # call[c].pid => q \in Players(e)
      BY <1>10
    <3>2. priv_pid_data'[p] \in heap'
      BY <1>1, <1>2, <1>8, <1>9, <2>2, <3>1
    <3>3. ASSUME NEW e \in Client, NEW q \in Players(e)', priv_pid_data'[p] = priv_pid_data'[q]
          PROVE  p = q
      <4>1. CASE p = call[c].pid \/ q = call[c].pid
        BY <1>8, <1>9, <2>2, <3>1, <3>3, <4>1
      <4>2. CASE p # call[c].pid /\ q # call[c].pid
        BY <1>9, <2>2, <3>1, <3>3, <4>2 DEF BlocksHeld, IInv, Held
      <4> QED
        BY <4>1, <4>2
    <3> QED
      BY <3>2, <3>3
  <2> QED
    BY <2>1, <2>2 DEF BlocksHeld
<1>15. BlocksKept'
  <2>1. ASSUME NEW x \in heap'
        PROVE  \E d \in Client : \/ At(d, "publish")' /\ b(d)' = x
                                 \/ \E q \in Players(d)' : priv_pid_data'[q] = x
    <3>1. PICK d \in Client : (At(d, "publish") /\ b(d) = x) \/ \E q \in Players(d) : priv_pid_data[q] = x
      BY <1>1 DEF BlocksKept, IInv, Held
    <3>2. CASE \E q \in Players(d) : priv_pid_data[q] = x
      BY <1>9, <1>10, <3>2
    <3>3. CASE At(d, "publish") /\ b(d) = x
      <4>1. CASE d = c
        BY <1>4, <1>8, <3>3, <4>1
      <4>2. CASE d # c
        BY <1>3, <3>3, <4>2 DEF Same, At
      <4> QED
        BY <4>1, <4>2
    <3> QED
      BY <3>1, <3>2, <3>3
  <2> QED
    BY <2>1 DEF BlocksKept
<1>16. BlocksReady'
  <2>1. ASSUME NEW d \in Client, NEW q \in Players(d)'
        PROVE  \/ q \in Busy(d)' /\ call'[d].at \in StartAt
               \/ /\ para'[priv_pid_data'[q]].pool = "ready"
                  /\ para'[priv_pid_data'[q]].pthread_id \in Tid
    <3>1. CASE q \in Players(d)
      <4>1. q \in Busy(d) /\ call[d].at \in StartAt => q \in Busy(d)' /\ call'[d].at \in StartAt
        BY <1>3, <1>4 DEF Same, StartAt
      <4> QED
        BY <1>1, <1>9, <3>1, <4>1 DEF BlocksReady, IInv, Held
    <3>2. CASE d = c /\ q = call[c].pid
      BY <1>3, <1>4, <3>2 DEF StartAt
    <3> QED
      BY <1>10, <2>1, <3>1, <3>2
  <2>2. ASSUME NEW d \in Client \ {c}, call'[d].at \in {"publish", "pool", "create", "store"}
        PROVE  call[d] = call'[d] /\ b(d)' = b(d)
    BY <1>3, <2>2 DEF Same
  <2>3. para'[b(c)'].pthread_id = NULL
    BY <1>1, <1>3 DEF BlocksReady, IInv, Held
  <2> QED
    BY <1>1, <1>3, <2>1, <2>2, <2>3 DEF BlocksReady, IInv, Held
<1>17. ThreadsHeld'
  <2>1. \A d \in Client : At(d, "store") => At(d, "store")' /\ b(d)' = b(d) /\ call'[d] = call[d]
    BY <1>1, <1>3 DEF Same, At
  <2> QED
    BY <1>1, <2>1 DEF ThreadsHeld, IInv, Held
<1>18. Joined'
  BY <1>1, <1>3 DEF Joined, IInv, Held, Same
<1> QED
  BY <1>7, <1>11, <1>12, <1>13, <1>14, <1>15, <1>16, <1>17, <1>18 DEF Held

\* player_start fills in the block: its pool, and at last its thread.
LEMMA FilledHeld ==
  ASSUME IInv, NEW c \in Client, NEW r, NEW f,
         call' = [call EXCEPT ![c] = r], own' = own \/ \E o : own' = [own EXCEPT ![c] = o],
         para' = [para EXCEPT ![b(c)] = f], f.pool = "ready",
         UNCHANGED << tableVars, heap, threadVars >>,
         Players(c)' = Players(c),
         \/ /\ call[c].at = "pool" /\ r.at = "create" /\ r.b = b(c) /\ r.pid = call[c].pid
            /\ f.pthread_id = NULL
         \/ /\ call[c].at = "store" /\ r.at = "idle"
            /\ f.pthread_id = call[c].t /\ call[c].t \in Tid,
         CallShape', IdsHeld'
  PROVE  Held'
<1>1. /\ UNCHANGED << priv_pid_pool, priv_pid_data, priv_pid_used, heap, on >> /\ TableTypes'
  BY DEF tableVars, threadVars, TableTypes, IInv, Held
<1>2. (\A d \in Client \ {c} : Same(d)) /\ call'[c] = r /\ b(c)' = r.b
  <2>1. (\A d \in Client \ {c} : Same(d)) /\ call'[c] = r
    BY Others DEF IInv
  <2> QED
    BY <2>1 DEF b
<1>3. \A d \in Client : Players(d)' = Players(d)
  BY <1>2 DEF Same
<1>4. call[c].at \in Working \ {"publish"} /\ call[c].pid \in Players(c) /\ b(c) \in Block
      /\ b(c) = priv_pid_data[call[c].pid]
  <2>1. call[c].at \in Working \ {"publish"}
    BY DEF Working, CallAt
  <2> QED
    BY <2>1, AtWork
<1>5. /\ \A d \in Client : call[d].at \in Working /\ b(d) = b(c) => c = d
      /\ \A d \in Client : \A q \in Players(d) :
           priv_pid_data[q] = b(c) => q = call[c].pid /\ c = d
  BY <1>4, OneOwner
<1>6. para'[b(c)] = f /\ \A x \in Block : x # b(c) => para'[x] = para[x]
  BY <1>4 DEF IInv, TypeOK
<1>7. \A d \in Client \ {c} : \A s : (At(d, s) <=> At(d, s)') /\ b(d)' = b(d) /\ call'[d] = call[d]
  BY <1>2 DEF Same, At
<1>8. \A d \in Client : At(d, "publish")' => d # c
  BY <1>2 DEF At
<1>9. NewBlocks'
  BY <1>1, <1>3, <1>7, <1>8 DEF NewBlocks, IInv, Held
<1>10. BlocksHeld'
  <2>1. ASSUME NEW d \in Client, call'[d].at \in Working \ {"publish"}
        PROVE  b(d)' = priv_pid_data'[call'[d].pid]
    <3>1. CASE d = c
      BY <1>1, <1>2, <1>4, <2>1, <3>1 DEF Working
    <3>2. CASE d # c
      BY <1>1, <1>7, <2>1, <3>2, AtWork
    <3> QED
      BY <3>1, <3>2
  <2> QED
    BY <1>1, <1>3, <2>1 DEF BlocksHeld, IInv, Held
<1>11. BlocksKept'
  <2>1. \A d \in Client : At(d, "publish") => At(d, "publish")' /\ b(d)' = b(d)
    BY <1>7 DEF At
  <2> QED
    BY <1>1, <1>3, <2>1 DEF BlocksKept, IInv, Held
<1>12. BlocksReady'
  <2>1. ASSUME NEW d \in Client \ {c}, call'[d].at \in {"publish", "pool", "create", "store"}
        PROVE  call[d] = call'[d] /\ b(d)' = b(d) /\ para'[b(d)] = para[b(d)]
    <3>1. call[d] = call'[d] /\ b(d)' = b(d)
      BY <1>7
    <3>2. call[d].at \in Working
      BY <2>1, <3>1 DEF Working, CallAt
    <3>3. b(d) # b(c) /\ b(d) \in Block
      BY <1>5, <3>2, WorkingBlock
    <3> QED
      BY <1>6, <3>1, <3>3
  <2>2. call'[c].at \in {"publish", "pool", "create", "store"} =>
          call'[c].at = "create" /\ para'[b(c)'].pool = "ready" /\ para'[b(c)'].pthread_id = NULL
    BY <1>2, <1>6
  <2>3. ASSUME NEW d \in Client, NEW q \in Players(d)
        PROVE  \/ q \in Busy(d)' /\ call'[d].at \in StartAt
               \/ /\ para'[priv_pid_data[q]].pool = "ready"
                  /\ para'[priv_pid_data[q]].pthread_id \in Tid
    <3>1. CASE d = c /\ q = call[c].pid
      <4>1. CASE r.at = "create"
        BY <1>2, <3>1, <4>1 DEF Busy, At, StartAt
      <4>2. CASE r.at # "create"
        BY <1>4, <1>6, <3>1, <4>2
      <4> QED
        BY <4>1, <4>2
    <3>2. CASE ~ (d = c /\ q = call[c].pid)
      <4>1. para'[priv_pid_data[q]] = para[priv_pid_data[q]]
        BY <1>5, <1>6, <2>3, <3>2, Owned
      <4>2. ~ (d = c /\ q \in Busy(c))
        BY <3>2 DEF Busy
      <4>3. d # c => call'[d] = call[d] /\ Busy(d)' = Busy(d)
        BY <1>2 DEF Same
      <4> QED
        BY <2>3, <4>1, <4>2, <4>3 DEF BlocksReady, IInv, Held
    <3> QED
      BY <3>1, <3>2
  <2> QED
    BY <1>1, <1>3, <2>1, <2>2, <2>3 DEF BlocksReady, IInv, Held
<1>13. ThreadsHeld'
  <2>1. ASSUME NEW t \in Tid, on[t] # NULL
        PROVE  /\ para'[on[t]].pool = "ready"
               /\ \/ para'[on[t]].pthread_id = t
                  \/ \E d \in Client : At(d, "store")' /\ b(d)' = on[t] /\ call'[d].t = t
    <3>1. /\ on[t] \in Block /\ para[on[t]].pool = "ready"
          /\ \/ para[on[t]].pthread_id = t
             \/ \E d \in Client : At(d, "store") /\ b(d) = on[t] /\ call[d].t = t
      BY <2>1 DEF ThreadsHeld, IInv, Held, TypeOK
    <3>2. CASE on[t] # b(c)
      <4>1. \A d \in Client : At(d, "store") /\ b(d) = on[t] => d # c
        BY <3>2
      <4> QED
        BY <1>6, <1>7, <3>1, <3>2, <4>1
    <3>3. CASE on[t] = b(c)
      <4>1. para[on[t]].pthread_id = NULL
        BY <3>3 DEF BlocksReady, IInv, Held
      <4>2. PICK d \in Client : At(d, "store") /\ b(d) = on[t] /\ call[d].t = t
        BY <3>1, <4>1
      <4>3. d = c
        BY <1>5, <3>3, <4>2 DEF At, Working, CallAt
      <4> QED
        BY <1>6, <3>3, <4>2, <4>3 DEF At
    <3> QED
      BY <3>2, <3>3
  <2>2. heap' = heap /\ on' = on
    BY <1>1
  <2> QED
    BY <2>1, <2>2 DEF ThreadsHeld, IInv, Held
<1>14. Joined'
  BY <1>1, <1>2, <1>7 DEF Joined, IInv, Held
<1> QED
  BY <1>1, <1>9, <1>10, <1>11, <1>12, <1>13, <1>14 DEF Held

LEMMA PoolHeld == ASSUME IInv, NEW c \in Client, StartPool(c) PROVE Held'
<1>1. /\ UNCHANGED << tableVars, heap, threadVars, own >> /\ call[c].at = "pool"
      /\ call' = [call EXCEPT ![c].at = "create"]
      /\ para' = [para EXCEPT ![b(c)].pool = "ready"]
      /\ UNCHANGED << priv_pid_pool, priv_pid_used >>
  BY DEF StartPool, Step, Goto, At, tableVars
<1>2. (\A d \in Client \ {c} : Same(d)) /\ call'[c].at = "create" /\ b(c)' = b(c)
      /\ call'[c].pid = call[c].pid /\ call'[c].api = call[c].api /\ call'[c].t = call[c].t
      /\ call' = [call EXCEPT ![c] = [call[c] EXCEPT !.at = "create"]]
  BY <1>1, Moved
<1>3. /\ Busy(c)' = Busy(c) /\ Holds(c)' = Holds(c) /\ Players(c)' = Players(c)
  BY <1>1, <1>2 DEF Holds, Busy, Players, At, Working, CallAt
<1>4. Opens(c)' = Opens(c)
  BY <1>1, <1>2 DEF Opens, OpenAt, StartAt
<1>5. CallShape'
  BY <1>1, <1>2 DEF CallShape, IInv, Held, Same, At, StartAt, ExitAt
<1>6. IdsHeld'
  BY <1>1, <1>2, <1>3, <1>4 DEF IdsHeld, IInv, Held, Same
<1> DEFINE f == [para[b(c)] EXCEPT !.pool = "ready"]
           r == [call[c] EXCEPT !.at = "create"]
<1>7. b(c) \in Block /\ tid(c) = NULL
  BY <1>1, AtWork DEF Working, CallAt, BlocksReady, IInv, Held, tid
<1>8. para' = [para EXCEPT ![b(c)] = f] /\ f.pool = "ready" /\ f.pthread_id = NULL
  BY <1>1, <1>7 DEF IInv, TypeOK, Fields, tid
<1>9. call' = [call EXCEPT ![c] = r] /\ r.at = "create" /\ r.b = b(c) /\ r.pid = call[c].pid
  BY <1>2 DEF IInv, TypeOK, Call, b
<1> HIDE DEF f, r
<1> QED
  BY <1>1, <1>3, <1>5, <1>6, <1>8, <1>9, FilledHeld

LEMMA StoreHeld == ASSUME IInv, NEW c \in Client, StartStoreTid(c) PROVE Held'
<1>1. /\ UNCHANGED << tableVars, heap, threadVars >> /\ call[c].at = "store"
      /\ call' = [call EXCEPT ![c] = Idle]
      /\ own' = [own EXCEPT ![c] = @ \cup {call[c].pid}]
      /\ para' = [para EXCEPT ![b(c)].pthread_id = call[c].t]
      /\ UNCHANGED << priv_pid_pool, priv_pid_used >>
  BY DEF StartStoreTid, Return, At, tableVars
<1>2. own'[c] = own[c] \cup {call[c].pid} /\ call[c].pid \in Table!Pid /\ call[c].t \in Tid
  <2>1. call[c] \in Call /\ call[c].t # NULL
    BY <1>1 DEF IInv, TypeOK, Held, CallShape, StartAt, At
  <2> QED
    BY <1>1, <2>1 DEF IInv, TypeOK, Call
<1>3. (\A d \in Client \ {c} : Same(d)) /\ call'[c] = Idle
  BY <1>1, Others DEF IInv
<1>4. /\ Busy(c) = {call[c].pid} /\ Busy(c)' = {} /\ Holds(c)' = Holds(c)
      /\ Holds(c) = own[c] \cup {call[c].pid} /\ Players(c)' = Players(c)
  BY <1>1, <1>2, <1>3 DEF Holds, Busy, Players, At, Working, CallAt, Idle
<1>5. Opens(c) = 0
  BY <1>1 DEF Opens, OpenAt, StartAt
<1>6. CallShape'
  BY <1>3 DEF CallShape, IInv, Held, Same, At, Idle
<1>7. IdsHeld'
  BY <1>1, <1>3, <1>4, <1>5 DEF IdsHeld, IInv, Held, Same
<1> DEFINE f == [para[b(c)] EXCEPT !.pthread_id = call[c].t]
<1>8. b(c) \in Block /\ para[b(c)].pool = "ready"
  BY <1>1, AtWork DEF Working, CallAt, BlocksReady, IInv, Held
<1>9. para' = [para EXCEPT ![b(c)] = f] /\ f.pool = "ready" /\ f.pthread_id = call[c].t
  BY <1>1, <1>8 DEF IInv, TypeOK, Fields
<1>10. Idle.at = "idle" /\ \E o : own' = [own EXCEPT ![c] = o]
  BY <1>1 DEF Idle
<1> HIDE DEF f
<1> QED
  BY <1>1, <1>2, <1>4, <1>6, <1>7, <1>9, <1>10, FilledHeld
-----------------------------------------------------------------------------
(* The invariant.                                                          *)

LEMMA InitHeld == ASSUME Init PROVE IInv
<1>1. /\ priv_pid_pool = {} /\ priv_pid_data = [p \in Table!Pid |-> NULL]
      /\ priv_pid_used = [p \in Table!Pid |-> 0]
      /\ heap = {} /\ para = [x \in Block |-> Fresh] /\ running = {} /\ on = [t \in Tid |-> NULL]
      /\ kill_item_list = << >> /\ call = [c \in Client |-> Idle] /\ own = [c \in Client |-> {}]
  BY DEF Init, Table!Init
<1>2. TypeOK
  <2>1. Fresh \in Fields /\ Idle \in Call
    BY DEF Fresh, Fields, Idle, Call, CallAt, Table!Pid
  <2>2. Len(kill_item_list) <= MAX_PLAYER_THREADS /\ kill_item_list \in Seq(Tid)
    BY <1>1
  <2> QED
    BY <1>1, <2>1, <2>2 DEF TypeOK
<1>3. ASSUME NEW c \in Client
      PROVE  call[c].at = "idle" /\ own[c] = {} /\ Holds(c) = {} /\ Players(c) = {}
  BY <1>1 DEF Holds, Busy, Players, At, Idle, Working
<1>4. TableTypes /\ CallShape /\ IdsHeld
  BY <1>1, <1>3 DEF TableTypes, CallShape, IdsHeld, At
<1>5. NewBlocks /\ BlocksHeld /\ BlocksKept
  BY <1>1, <1>3 DEF NewBlocks, BlocksHeld, BlocksKept, At, Working
<1>6. BlocksReady /\ ThreadsHeld /\ Joined
  BY <1>1, <1>3 DEF BlocksReady, ThreadsHeld, Joined
<1> QED
  BY <1>2, <1>4, <1>5, <1>6 DEF IInv, Held

\* The steps between player_stop's open and its close, and those of the messages.
LEMMA OpenSteps ==
  ASSUME IInv, NEW c \in Client,
         \/ StopStatus(c) \/ InterruptMatch(c) \/ InterruptAdd(c) \/ StopSend(c)
         \/ StopJoin(c) \/ StopUninterrupt(c) \/ Message(c)
  PROVE  Held'
<1>1. UNCHANGED << tableVars, heap, own >>
  BY DEF StopStatus, InterruptMatch, InterruptAdd, StopSend, StopJoin, StopUninterrupt,
         Message, MessageStatus, MessageSend, Query
<1>2. call[c].at \in OpenAt /\ \E to \in OpenAt : call' = [call EXCEPT ![c].at = to]
  BY DEF StopStatus, InterruptMatch, InterruptAdd, StopSend, StopJoin, StopUninterrupt,
         Message, MessageStatus, MessageSend, Query, Step, Goto, At, OpenAt
<1>3. PICK to \in OpenAt : call' = [call EXCEPT ![c].at = to]
  BY <1>2
<1>4. \A d \in Client : \/ call'[d] = call[d]
                        \/ /\ call[d].at \in OpenAt
                           /\ \E s \in OpenAt : call'[d] = [call[d] EXCEPT !.at = s]
  BY <1>2, <1>3 DEF IInv, TypeOK
<1>5. \A x \in Block : para'[x].pool = para[x].pool /\ para'[x].pthread_id = para[x].pthread_id
  <2>1. para' = para \/ para' = [para EXCEPT ![b(c)].stop = 1]
    BY DEF StopStatus, InterruptMatch, InterruptAdd, StopSend, StopJoin, StopUninterrupt,
           Message, MessageStatus, MessageSend, Query
  <2> QED
    BY <2>1 DEF IInv, TypeOK, Fields
<1>6. \A t \in Tid : on'[t] = on[t] \/ on'[t] = NULL
  <2>1. on' = on \/ on' = [on EXCEPT ![tid(c)] = NULL]
    BY DEF StopStatus, InterruptMatch, InterruptAdd, StopSend, StopJoin, Join, StopUninterrupt,
           Message, MessageStatus, MessageSend, Query, threadVars
  <2> QED
    BY <2>1 DEF IInv, TypeOK
<1> QED
  BY <1>1, <1>4, <1>5, <1>6, QuietHeld

LEMMA ThreadHeld == ASSUME IInv, NEW t \in Tid, Thread(t) PROVE Held'
<1>1. UNCHANGED << tableVars, heap, own, call, on >>
  BY DEF Thread, ShowEnded, ShowPlaying, ShowExit, Show, ThreadExit, threadVars
<1>2. \A x \in Block : para'[x].pool = para[x].pool /\ para'[x].pthread_id = para[x].pthread_id
  <2>1. para' = para \/ \E s : para' = [para EXCEPT ![on[t]].status = s]
    BY DEF Thread, ShowEnded, ShowPlaying, ShowExit, Show, ThreadExit
  <2> QED
    BY <2>1 DEF IInv, TypeOK, Fields
<1> QED
  BY <1>1, <1>2, QuietHeld

LEMMA StepHeld == ASSUME IInv, [Next]_vars PROVE Held'
<1>1. ASSUME NEW c \in Client, Start(c) PROVE Held'
  <2>1. CASE StartRefused(c)
    <3>1. UNCHANGED << tableVars, heap, own, call, on, para >>
      BY <2>1 DEF StartRefused, Table!RequestFails, Table!vars, tableVars, threadVars
    <3> QED
      BY <3>1, QuietHeld
  <2>2. CASE StartUndo(c)
    BY <2>2, ReleaseHeld DEF StartUndo, At
  <2> QED
    BY <1>1, <2>1, <2>2, RequestHeld, MallocHeld, PublishHeld, PoolHeld, CreateHeld, StoreHeld DEF Start
<1>2. ASSUME NEW c \in Client, Stop(c) PROVE Held'
  BY <1>2, OpenHeld, CloseHeld, OpenSteps DEF Stop
<1>3. ASSUME NEW c \in Client, Message(c) PROVE Held'
  BY <1>3, OpenSteps
<1>4. ASSUME NEW c \in Client, Exit(c) PROVE Held'
  <2>1. CASE ExitFree(c)
    <3>1. /\ call[c].at = "free" /\ call' = [call EXCEPT ![c].at = "exit_close"]
          /\ heap' = heap \ {b(c)} /\ UNCHANGED << tableVars, para, threadVars, own >>
      BY <2>1 DEF ExitFree, Step, At, Goto
    <3>2. \A t \in Tid : on[t] # b(c)
      BY <3>1 DEF IInv, Held, Joined
    <3> QED
      BY <3>1, <3>2, FreedHeld
  <2>2. CASE ExitRelease(c)
    BY <2>2, ReleaseHeld DEF ExitRelease, At
  <2> QED
    BY <1>4, <2>1, <2>2, ExitStatusHeld, JoinHeld, UninterruptHeld, ExitCloseHeld DEF Exit
<1>5. ASSUME NEW t \in Tid, Thread(t) PROVE Held'
  BY <1>5, ThreadHeld
<1>6. CASE UNCHANGED vars
  BY <1>6, QuietHeld DEF vars, threadVars
<1> QED
  BY <1>1, <1>2, <1>3, <1>4, <1>5, <1>6 DEF Next

LEMMA Invariance == Spec => []IInv
<1>1. IInv /\ [Next]_vars => IInv'
  BY TypeHolds, StepHeld DEF IInv
<1> QED
  BY <1>1, InitHeld, PTL DEF Spec
-----------------------------------------------------------------------------
(* What the invariant says of the code.                                    *)

\* player_ctrl.c: the types of a run of player_start, player_stop and player_exit.
THEOREM TypeCorrect == Spec => []TypeOK
<1>1. IInv => TypeOK
  BY DEF IInv
<1> QED
  BY <1>1, Invariance, PTL

\* Neither a call nor a player thread works on a block that player_exit or a failing
\* player_start has freed, and a player thread finds its pool of messages initialised.
THEOREM UseAfterFreeCorrect == Spec => []NoUseAfterFree
<1>1. IInv => NoUseAfterFree
  <2>1. SUFFICES ASSUME IInv PROVE NoUseAfterFree
    OBVIOUS
  <2>2. \A c \in Client : call[c].at \in Working => b(c) \in heap
    BY <2>1, WorkingBlock
  <2>3. \A t \in Tid : on[t] # NULL => on[t] \in heap /\ para[on[t]].pool = "ready"
    BY <2>1 DEF IInv, Held, ThreadsHeld
  <2> QED
    BY <2>2, <2>3 DEF NoUseAfterFree
<1> QED
  BY <1>1, Invariance, PTL

\* From player_start to player_exit the id leads to the player's block, and to no
\* other player's.
THEOREM IdCorrect == Spec => []IdLeadsToPlayer
<1>1. IInv => IdLeadsToPlayer
  <2>1. SUFFICES ASSUME IInv, NEW c \in Client, NEW p \in own[c]
                 PROVE  /\ p \in priv_pid_pool /\ priv_pid_data[p] \in heap
                        /\ \A d \in Client : \A q \in own[d] :
                             priv_pid_data[p] = priv_pid_data[q] => c = d /\ p = q
    BY DEF IdLeadsToPlayer
  <2>2. \A d \in Client : own[d] \subseteq Players(d) /\ own[d] \subseteq Holds(d)
    BY DEF Players, Holds
  <2>3. p \in priv_pid_pool /\ priv_pid_data[p] \in heap
    BY <2>1, <2>2, Owned
  <2>4. ASSUME NEW d \in Client, NEW q \in own[d], priv_pid_data[p] = priv_pid_data[q]
        PROVE  c = d /\ p = q
    <3>1. p = q
      BY <2>1, <2>2, <2>4 DEF IInv, Held, BlocksHeld
    <3>2. c = d
      BY <2>1, <2>2, <3>1 DEF IInv, Held, IdsHeld
    <3> QED
      BY <3>1, <3>2
  <2> QED
    BY <2>3, <2>4
<1> QED
  BY <1>1, Invariance, PTL

\* player_exit releases the id when nobody has it open: player_release_pid never
\* warns of it.
THEOREM ReleasedCorrect == Spec => []ReleasedUnused
<1>1. IInv => ReleasedUnused
  <2>1. SUFFICES ASSUME IInv, NEW c \in Client, call[c].at = "release"
                 PROVE  priv_pid_used[call[c].pid] = 0
    BY DEF ReleasedUnused, At
  <2>2. call[c].pid \in Busy(c) /\ call[c].pid \in Holds(c)
    BY <2>1 DEF Busy, Holds, At
  <2>3. Opens(c) = 0
    BY <2>1 DEF Opens, OpenAt, StartAt
  <2> QED
    BY <2>1, <2>2, <2>3 DEF IInv, Held, IdsHeld
<1> QED
  BY <1>1, Invariance, PTL

\* A block that MALLOC returned to player_start is freed, or somebody can still free it.
THEOREM BlockCorrect == Spec => []NoBlockLost
<1>1. IInv => NoBlockLost
  <2>1. SUFFICES ASSUME IInv, NEW x \in heap
                 PROVE  \/ \E c \in Client : b(c) = x /\ call[c].at \in Working
                        \/ \E c \in Client : \E p \in own[c] : p \in priv_pid_pool /\ priv_pid_data[p] = x
    BY DEF NoBlockLost
  <2>2. PICK c \in Client : (At(c, "publish") /\ b(c) = x) \/ \E p \in Players(c) : priv_pid_data[p] = x
    BY <2>1 DEF IInv, Held, BlocksKept
  <2>3. CASE At(c, "publish") /\ b(c) = x
    BY <2>3 DEF At, Working, CallAt
  <2>4. CASE \E p \in Players(c) : priv_pid_data[p] = x
    <3>1. PICK p \in Players(c) : priv_pid_data[p] = x
      BY <2>4
    <3>2. CASE p \in own[c]
      <4>1. p \in priv_pid_pool
        BY <2>1, <3>1, Owned
      <4> QED
        BY <3>1, <3>2, <4>1
    <3>3. CASE p \notin own[c]
      <4>1. call[c].at \in Working \ {"publish"} /\ p = call[c].pid
        BY <3>1, <3>3 DEF Players
      <4>2. b(c) = x
        BY <2>1, <3>1, <4>1, AtWork
      <4> QED
        BY <4>1, <4>2
    <3> QED
      BY <3>2, <3>3
  <2> QED
    BY <2>2, <2>3, <2>4
<1> QED
  BY <1>1, Invariance, PTL
-----------------------------------------------------------------------------
(* The kill list.  A thread may be in it twice: a second player_stop of a  *)
(* player joins a thread that is gone, whose pthread_t another player may  *)
(* have by then.  So each entry is owed to a block of its own: w leads     *)
(* from the entries to the blocks.                                         *)

Owed(w) ==
  /\ \A i, j \in DOMAIN kill_item_list : w[i] = w[j] => i = j
  /\ \A i \in DOMAIN kill_item_list :
       /\ para[w[i]].pthread_id = kill_item_list[i]
       /\ Asked(w[i])
       /\ \A c \in Client : b(c) = w[i] => call[c].at \notin {"add", "free"}

ListInv == \E w \in [DOMAIN kill_item_list -> heap] : Owed(w)

\* The blocks that a step must leave as they are: those that know their thread.
Stays(x) == /\ x \in heap' /\ para'[x].pthread_id = para[x].pthread_id
            /\ para[x].stop = 1 => para'[x].stop = 1

LEMMA ListDomain ==
  ASSUME TypeOK PROVE /\ DOMAIN kill_item_list = 1 .. Len(kill_item_list)
                      /\ Len(kill_item_list) \in Nat
                      /\ \A i \in DOMAIN kill_item_list : kill_item_list[i] \in Tid
BY DEF TypeOK

\* A block that is owed an entry stays so: what it takes to lose it.
LEMMA OwedBlock ==
  ASSUME TypeOK, NEW w \in [DOMAIN kill_item_list -> heap], Owed(w),
         NEW i \in DOMAIN kill_item_list
  PROVE  w[i] \in heap /\ para[w[i]].pthread_id \in Tid
BY ListDomain DEF Owed

\* An entry of the list is taken out of the witness, or none is.
LEMMA OwedKept ==
  ASSUME TypeOK, NEW w \in [DOMAIN kill_item_list -> heap], Owed(w),
         NEW K, DOMAIN kill_item_list' = K,
         NEW f \in [K -> DOMAIN kill_item_list],
         \A i, j \in K : f[i] = f[j] => i = j,
         \A i \in K : kill_item_list'[i] = kill_item_list[f[i]],
         \A i \in K : Stays(w[f[i]]),
         \A i \in K : Asked(w[f[i]])',
         \A i \in K : \A c \in Client : b(c)' = w[f[i]] => call'[c].at \notin {"add", "free"}
  PROVE  ListInv'
<1> DEFINE v == [i \in K |-> w[f[i]]]
<1>1. v \in [DOMAIN kill_item_list' -> heap']
  BY DEF Stays
<1>2. \A i, j \in K : v[i] = v[j] => i = j
  BY DEF Owed
<1>3. ASSUME NEW i \in K PROVE para'[v[i]].pthread_id = kill_item_list'[i]
  BY <1>3 DEF Owed, Stays
<1>4. ASSUME NEW i \in K PROVE /\ Asked(v[i])'
                               /\ \A c \in Client : b(c)' = v[i] =>
                                    call'[c].at \notin {"add", "free"}
  <2>1. v[i] = w[f[i]]
    OBVIOUS
  <2>2. Asked(v[i])'
    BY <2>1 DEF Asked
  <2> QED
    BY <2>1, <2>2
<1> HIDE DEF v
<1>5. Owed(v)'
  BY <1>2, <1>3, <1>4 DEF Owed
<1> QED
  BY <1>1, <1>5 DEF ListInv

\* Where the other calls stay what they are, a block stays asked to stop and owed.
LEMMA OwedOthers ==
  ASSUME TypeOK, NEW c \in Client, NEW w \in [DOMAIN kill_item_list -> heap], Owed(w),
         \A d \in Client \ {c} : call'[d] = call[d],
         NEW i \in DOMAIN kill_item_list, Stays(w[i]),
         call[c].at # "send" \/ para'[b(c)].stop = 1
  PROVE  /\ Asked(w[i])'
         /\ \A d \in Client \ {c} : b(d)' = w[i] => call'[d].at \notin {"add", "free"}
<1>1. \A d \in Client \ {c} : b(d)' = b(d) /\ call'[d] = call[d]
  BY DEF b
<1>2. Asked(w[i])'
  <2>1. Asked(w[i])
    BY DEF Owed
  <2>2. CASE para[w[i]].stop = 1
    BY <2>2 DEF Asked, Stays
  <2>3. ASSUME NEW d \in Client, b(d) = w[i], At(d, "send") PROVE Asked(w[i])'
    <3>1. CASE d = c
      BY <2>3, <3>1 DEF At, Asked
    <3>2. CASE d # c
      BY <1>1, <2>3, <3>2 DEF At, Asked
    <3> QED
      BY <3>1, <3>2
  <2> QED
    BY <2>1, <2>2, <2>3 DEF Asked
<1>3. \A d \in Client \ {c} : b(d)' = w[i] => call'[d].at \notin {"add", "free"}
  BY <1>1 DEF Owed
<1> QED
  BY <1>2, <1>3

\* A step of a call that leaves the list, and every block that knows its thread.
LEMMA MoveOwed ==
  ASSUME TypeOK, ListInv, NEW c \in Client,
         \A d \in Client \ {c} : call'[d] = call[d],
         kill_item_list' = kill_item_list,
         \A x \in heap : para[x].pthread_id \in Tid => Stays(x),
         call[c].at # "send" \/ para'[b(c)].stop = 1,
         call'[c].at \notin {"add", "free"}
  PROVE  ListInv'
<1>1. PICK w \in [DOMAIN kill_item_list -> heap] : Owed(w)
  BY DEF ListInv
<1> DEFINE K == DOMAIN kill_item_list
<1>2. PICK f \in [K -> K] : \A i \in K : f[i] = i
  <2>1. [i \in K |-> i] \in [K -> K]
    OBVIOUS
  <2> QED
    BY <2>1
<1>3. ASSUME NEW i \in K
      PROVE  /\ f[i] = i /\ Stays(w[f[i]]) /\ Asked(w[f[i]])'
             /\ \A d \in Client : b(d)' = w[f[i]] => call'[d].at \notin {"add", "free"}
  <2>1. f[i] = i
    BY <1>2
  <2>2. Stays(w[i])
    BY <1>1, OwedBlock
  <2>3. /\ Asked(w[i])'
        /\ \A d \in Client \ {c} : b(d)' = w[i] => call'[d].at \notin {"add", "free"}
    BY <1>1, <2>2, OwedOthers
  <2>4. Asked(w[f[i]])'
    BY <2>1, <2>3 DEF Asked
  <2> QED
    BY <2>1, <2>2, <2>3, <2>4
<1>4. DOMAIN kill_item_list' = K
  OBVIOUS
<1>5. /\ \A i, j \in K : f[i] = f[j] => i = j
      /\ \A i \in K : kill_item_list'[i] = kill_item_list[f[i]]
  BY <1>2
<1>6. /\ \A i \in K : Stays(w[f[i]])
      /\ \A i \in K : Asked(w[f[i]])'
      /\ \A i \in K : \A d \in Client : b(d)' = w[f[i]] => call'[d].at \notin {"add", "free"}
  BY <1>3
<1> QED
  BY <1>1, <1>2, <1>4, <1>5, <1>6, OwedKept

\* Two entries of one thread may change blocks.
LEMMA SwapOwed ==
  ASSUME NEW w \in [DOMAIN kill_item_list -> heap], Owed(w),
         NEW k \in DOMAIN kill_item_list, NEW m \in DOMAIN kill_item_list,
         kill_item_list[k] = kill_item_list[m]
  PROVE  \E v \in [DOMAIN kill_item_list -> heap] : Owed(v) /\ v[m] = w[k]
<1> DEFINE K == DOMAIN kill_item_list
           sw(i) == IF i = k THEN m ELSE IF i = m THEN k ELSE i
           v == [i \in K |-> w[sw(i)]]
<1>1. \A i \in K : sw(i) \in K /\ kill_item_list[sw(i)] = kill_item_list[i]
  OBVIOUS
<1>2. \A i, j \in K : sw(i) = sw(j) => i = j
  OBVIOUS
<1>3. v \in [K -> heap] /\ v[m] = w[k]
  OBVIOUS
<1>4. \A i \in K : v[i] = w[sw(i)]
  OBVIOUS
<1> HIDE DEF v, sw
<1>5. \A i, j \in K : v[i] = v[j] => i = j
  BY <1>1, <1>2, <1>4 DEF Owed
<1>6. \A i \in K : /\ para[v[i]].pthread_id = kill_item_list[i]
                   /\ Asked(v[i])
                   /\ \A c \in Client : b(c) = v[i] => call[c].at \notin {"add", "free"}
  BY <1>1, <1>4 DEF Owed
<1>7. Owed(v)
  BY <1>5, <1>6 DEF Owed
<1> QED
  BY <1>3, <1>7

\* One step of ffmpeg_uninterrupt by a call that moves on to `to'.  Only a call that is
\* about to free its block must not leave an entry to it.
LEMMA UninterruptOwed ==
  ASSUME IInv, ListInv, NEW c \in Client, Uninterrupt(c),
         call[c].at \in {"uninterrupt", "exit_uninterrupt"},
         NEW to \in {"close", "free"}, Goto(c, to), UNCHANGED << heap, para >>
  PROVE  ListInv'
<1> DEFINE K == DOMAIN kill_item_list
<1>1. TypeOK
  BY DEF IInv
<1>2. /\ K = 1 .. Len(kill_item_list) /\ Len(kill_item_list) \in Nat
      /\ kill_item_list \in Seq(Tid)
  BY <1>1, ListDomain DEF TypeOK
<1>3. b(c) \in heap
  BY WorkingBlock DEF Working, CallAt
<1>4. /\ \A d \in Client \ {c} : call'[d] = call[d]
      /\ call'[c].at = to /\ b(c)' = b(c)
  BY <1>1 DEF Goto, TypeOK, Call, b
<1>5. \A x \in heap : Stays(x)
  BY DEF Stays
<1>6. ASSUME NEW w \in [K -> heap], Owed(w), NEW i \in K, w[i] # b(c)
      PROVE  /\ Stays(w[i]) /\ Asked(w[i])'
             /\ \A d \in Client : b(d)' = w[i] => call'[d].at \notin {"add", "free"}
  <2>1. Stays(w[i])
    BY <1>5
  <2>2. /\ Asked(w[i])'
        /\ \A d \in Client \ {c} : b(d)' = w[i] => call'[d].at \notin {"add", "free"}
    BY <1>1, <1>4, <1>6, <2>1, OwedOthers
  <2> QED
    BY <1>4, <1>6, <2>1, <2>2
<1>7. PICK w \in [K -> heap] : Owed(w)
  BY DEF ListInv
<1>8. CASE kill_item_list' = kill_item_list /\ \A i \in K : kill_item_list[i] # tid(c)
  <2>1. \A i \in K : w[i] # b(c)
    BY <1>7, <1>8 DEF Owed, tid
  <2>2. PICK f \in [K -> K] : \A i \in K : f[i] = i
    <3>1. [i \in K |-> i] \in [K -> K]
      OBVIOUS
    <3> QED
      BY <3>1
  <2>3. DOMAIN kill_item_list' = K
    BY <1>8
  <2>4. /\ \A i, j \in K : f[i] = f[j] => i = j
        /\ \A i \in K : kill_item_list'[i] = kill_item_list[f[i]]
        /\ \A i \in K : w[f[i]] # b(c)
    BY <1>8, <2>1, <2>2
  <2>5. /\ \A i \in K : Stays(w[f[i]])
        /\ \A i \in K : Asked(w[f[i]])'
        /\ \A i \in K : \A d \in Client :
             b(d)' = w[f[i]] => call'[d].at \notin {"add", "free"}
    BY <1>6, <1>7, <2>2, <2>4
  <2> QED
    BY <1>1, <1>7, <2>2, <2>3, <2>4, <2>5, OwedKept
<1>9. ASSUME NEW m \in K, kill_item_list[m] = tid(c),
             kill_item_list' \in Seq(Tid), Len(kill_item_list') = Len(kill_item_list) - 1,
             \A i \in 1 .. Len(kill_item_list) - 1 :
               kill_item_list'[i] = kill_item_list[IF i < m THEN i ELSE i + 1]
      PROVE  ListInv'
  <2>1. PICK v \in [K -> heap] : Owed(v) /\ \A i \in K : v[i] = b(c) => i = m
    <3>1. CASE \E k \in K : w[k] = b(c)
      <4>1. PICK k \in K : w[k] = b(c)
        BY <3>1
      <4>2. kill_item_list[k] = kill_item_list[m]
        BY <1>7, <1>9, <4>1 DEF Owed, tid
      <4>3. PICK v \in [K -> heap] : Owed(v) /\ v[m] = b(c)
        BY <1>7, <4>1, <4>2, SwapOwed
      <4> QED
        BY <4>3 DEF Owed
    <3>2. CASE \A k \in K : w[k] # b(c)
      BY <1>7, <3>2
    <3> QED
      BY <3>1, <3>2
  <2> DEFINE J == 1 .. Len(kill_item_list) - 1
  <2>2. DOMAIN kill_item_list' = J
    BY <1>9
  <2>3. m \in 1 .. Len(kill_item_list)
    BY <1>2
  <2>4. \A i \in J : (IF i < m THEN i ELSE i + 1) \in K /\ (IF i < m THEN i ELSE i + 1) # m
    BY <1>2, <2>3
  <2>5. PICK f \in [J -> K] : \A i \in J : f[i] = IF i < m THEN i ELSE i + 1
    <3>1. [i \in J |-> IF i < m THEN i ELSE i + 1] \in [J -> K]
      BY <2>4
    <3> QED
      BY <3>1
  <2>6. ASSUME NEW i \in J, NEW j \in J, f[i] = f[j] PROVE i = j
    <3>1. i \in Nat /\ j \in Nat /\ m \in Nat
      BY <1>2, <2>3
    <3>2. (IF i < m THEN i ELSE i + 1) = (IF j < m THEN j ELSE j + 1)
      BY <2>5, <2>6
    <3> QED
      BY <3>1, <3>2
  <2>7. /\ \A i \in J : kill_item_list'[i] = kill_item_list[f[i]]
        /\ \A i \in J : f[i] \in K /\ v[f[i]] # b(c)
    BY <1>9, <2>1, <2>4, <2>5
  <2>8. /\ \A i \in J : Stays(v[f[i]])
        /\ \A i \in J : Asked(v[f[i]])'
        /\ \A i \in J : \A d \in Client :
             b(d)' = v[f[i]] => call'[d].at \notin {"add", "free"}
    BY <1>6, <2>1, <2>7
  <2>9. \A i, j \in J : f[i] = f[j] => i = j
    BY <2>6
  <2> HIDE DEF J
  <2> QED
    BY <1>1, <2>1, <2>2, <2>5, <2>7, <2>8, <2>9, OwedKept
<1>10. \/ kill_item_list' = kill_item_list /\ \A i \in K : kill_item_list[i] # tid(c)
       \/ \E m \in K :
            /\ kill_item_list[m] = tid(c)
            /\ kill_item_list' \in Seq(Tid) /\ Len(kill_item_list') = Len(kill_item_list) - 1
            /\ \A i \in 1 .. Len(kill_item_list) - 1 :
                 kill_item_list'[i] = kill_item_list[IF i < m THEN i ELSE i + 1]
  <2>1. kill_item_list' \in Seq(Tid) /\ Cut(kill_item_list, tid(c), kill_item_list')
    BY <1>2, RemoveFirstCuts DEF Uninterrupt
  <2> QED
    BY <1>2, <2>1 DEF Cut
<1> QED
  BY <1>8, <1>9, <1>10

\* A step that leaves the list alone, and what is owed to each of its entries.
LEMMA StillOwed ==
  ASSUME TypeOK, NEW w \in [DOMAIN kill_item_list -> heap], Owed(w),
         kill_item_list' = kill_item_list,
         \A i \in DOMAIN kill_item_list :
           /\ Stays(w[i]) /\ Asked(w[i])'
           /\ \A d \in Client : b(d)' = w[i] => call'[d].at \notin {"add", "free"}
  PROVE  ListInv'
<1>1. w \in [DOMAIN kill_item_list' -> heap']
  BY DEF Stays
<1>2. Owed(w)'
  BY DEF Owed, Stays
<1> QED
  BY <1>1, <1>2 DEF ListInv

\* What ffmpeg_interrupt has looked for in vain is owed to no entry.
LEMMA MatchOwed ==
  ASSUME IInv, ListInv, NEW c \in Client, InterruptMatch(c) PROVE ListInv'
<1> DEFINE K == DOMAIN kill_item_list
<1>1. TypeOK
  BY DEF IInv
<1>2. /\ \A d \in Client \ {c} : call'[d] = call[d]
      /\ call[c].at = "match" /\ call'[c].at \in {"send", "add"} /\ b(c)' = b(c)
      /\ kill_item_list' = kill_item_list /\ heap' = heap /\ para' = para
  BY <1>1 DEF InterruptMatch, At, Goto, TypeOK, Call, b
<1>3. \A x \in heap : Stays(x)
  BY <1>2 DEF Stays
<1>4. CASE call'[c].at = "send"
  BY <1>1, <1>2, <1>3, <1>4, MoveOwed
<1>5. CASE call'[c].at = "add"
  <2>1. PICK w \in [K -> heap] : Owed(w)
    BY DEF ListInv
  <2>2. \A i \in K : kill_item_list[i] # tid(c)
    <3>1. ~ Contains(kill_item_list, tid(c))
      BY <1>1, <1>2, <1>5 DEF InterruptMatch, Goto, TypeOK, Call
    <3> QED
      BY <1>1, <3>1, ListDomain DEF Contains
  <2>3. ASSUME NEW i \in K
        PROVE  /\ Stays(w[i]) /\ Asked(w[i])'
               /\ \A d \in Client : b(d)' = w[i] => call'[d].at \notin {"add", "free"}
    <3>1. Stays(w[i])
      BY <1>3, <2>1
    <3>2. w[i] # b(c)
      BY <2>1, <2>2 DEF Owed, tid
    <3>3. /\ Asked(w[i])'
          /\ \A d \in Client \ {c} : b(d)' = w[i] => call'[d].at \notin {"add", "free"}
      BY <1>1, <1>2, <2>1, <3>1, OwedOthers
    <3> QED
      BY <1>2, <3>1, <3>2, <3>3
  <2> QED
    BY <1>1, <1>2, <2>1, <2>3, StillOwed
<1> QED
  BY <1>2, <1>4, <1>5

\* The new entry is owed to the block of the call that adds it; no other is, for a call
\* that is about to add finds no entry to its block.
LEMMA AddOwed ==
  ASSUME IInv, ListInv, NEW c \in Client, InterruptAdd(c) PROVE ListInv'
<1> DEFINE K == DOMAIN kill_item_list
<1>1. TypeOK
  BY DEF IInv
<1>2. /\ \A d \in Client \ {c} : call'[d] = call[d]
      /\ call[c].at = "add" /\ call'[c].at = "send" /\ b(c)' = b(c)
      /\ heap' = heap /\ para' = para
  BY <1>1 DEF InterruptAdd, Step, At, Goto, TypeOK, Call, b
<1>3. \A x \in heap : Stays(x)
  BY <1>2 DEF Stays
<1>4. CASE kill_item_list' = kill_item_list
  BY <1>1, <1>2, <1>3, <1>4, MoveOwed
<1>5. CASE kill_item_list' = Append(kill_item_list, tid(c))
  <2>1. PICK w \in [K -> heap] : Owed(w)
    BY DEF ListInv
  <2>2. b(c) \in heap /\ para[b(c)].pthread_id = tid(c)
    BY <1>2, WorkingBlock DEF Working, CallAt, tid
  <2>3. PICK n : n = Len(kill_item_list)
    OBVIOUS
  <2>4. K = 1 .. n /\ n \in Nat /\ kill_item_list \in Seq(Tid) /\ tid(c) \in Tid
    BY <1>1, <1>2, <2>3, ListDomain, AtWork DEF TypeOK, Working, CallAt, StartAt
  <2>5. /\ DOMAIN kill_item_list' = K \cup {n + 1} /\ n + 1 \notin K
        /\ \A i \in K : kill_item_list'[i] = kill_item_list[i]
        /\ kill_item_list'[n + 1] = tid(c)
    BY <1>5, <2>4, <2>3
  <2> HIDE DEF K
  <2>6. PICK v \in [K \cup {n + 1} -> heap] : v[n + 1] = b(c) /\ \A i \in K : v[i] = w[i]
    <3> DEFINE u == [i \in K \cup {n + 1} |-> IF i = n + 1 THEN b(c) ELSE w[i]]
    <3>1. u \in [K \cup {n + 1} -> heap]
      BY <2>1, <2>2 DEF K
    <3>2. u[n + 1] = b(c) /\ \A i \in K : u[i] = w[i]
      BY <2>5
    <3> QED
      BY <3>1, <3>2
  <2>7. ASSUME NEW i \in K
        PROVE  /\ v[i] # b(c)
               /\ para'[v[i]].pthread_id = kill_item_list'[i] /\ Asked(v[i])'
               /\ \A d \in Client : b(d)' = v[i] => call'[d].at \notin {"add", "free"}
    <3>1. v[i] = w[i] /\ w[i] \in heap /\ Stays(w[i])
      BY <1>3, <2>1, <2>6, <2>7 DEF K
    <3>2. w[i] # b(c)
      BY <1>2, <2>1 DEF Owed, K
    <3>3. /\ Asked(w[i])'
          /\ \A d \in Client \ {c} : b(d)' = w[i] => call'[d].at \notin {"add", "free"}
      BY <1>1, <1>2, <2>1, <3>1, OwedOthers DEF K
    <3>4. para'[w[i]].pthread_id = kill_item_list[i]
      BY <1>2, <2>1 DEF Owed, K
    <3>5. Asked(v[i])'
      BY <3>1, <3>3 DEF Asked
    <3> QED
      BY <1>2, <2>5, <3>1, <3>2, <3>3, <3>4, <3>5
  <2>8. /\ para'[v[n + 1]].pthread_id = kill_item_list'[n + 1] /\ Asked(v[n + 1])'
        /\ \A d \in Client : b(d)' = v[n + 1] => call'[d].at \notin {"add", "free"}
    <3>1. Asked(b(c))'
      BY <1>2 DEF Asked, At
    <3>2. ASSUME NEW d \in Client, d # c, b(d)' = b(c) PROVE call'[d].at \notin {"add", "free"}
      <4>1. call'[d] = call[d] /\ b(d)' = b(d)
        BY <1>2, <3>2 DEF b
      <4> QED
        BY <1>2, <3>2, <4>1, OneOwner DEF Working, CallAt
    <3>3. Asked(v[n + 1])'
      BY <1>2, <2>6, <3>1 DEF Asked
    <3> QED
      BY <1>2, <2>2, <2>5, <2>6, <3>2, <3>3
  <2>9. \A i, j \in K \cup {n + 1} : v[i] = v[j] => i = j
    BY <2>1, <2>6, <2>7 DEF Owed, K
  <2>10. \A i \in K \cup {n + 1} :
          /\ para'[v[i]].pthread_id = kill_item_list'[i] /\ Asked(v[i])'
          /\ \A d \in Client : b(d)' = v[i] => call'[d].at \notin {"add", "free"}
    BY <2>7, <2>8
  <2>11. Owed(v)'
    BY <2>5, <2>9, <2>10 DEF Owed
  <2>12. v \in [DOMAIN kill_item_list' -> heap']
    BY <1>2, <2>5
  <2> QED
    BY <2>11, <2>12 DEF ListInv
<1> QED
  BY <1>4, <1>5 DEF InterruptAdd

\* The block that is freed is owed nothing.
LEMMA FreeOwed ==
  ASSUME IInv, ListInv, NEW c \in Client, ExitFree(c) PROVE ListInv'
<1>1. TypeOK
  BY DEF IInv
<1>2. /\ \A d \in Client \ {c} : call'[d] = call[d]
      /\ call[c].at = "free" /\ call'[c].at = "exit_close"
      /\ heap' = heap \ {b(c)} /\ para' = para /\ kill_item_list' = kill_item_list
  BY <1>1 DEF ExitFree, Step, At, Goto, TypeOK, Call
<1>3. PICK w \in [DOMAIN kill_item_list -> heap] : Owed(w)
  BY DEF ListInv
<1>4. ASSUME NEW i \in DOMAIN kill_item_list
      PROVE  /\ Stays(w[i]) /\ Asked(w[i])'
             /\ \A d \in Client : b(d)' = w[i] => call'[d].at \notin {"add", "free"}
  <2>1. w[i] # b(c)
    BY <1>2, <1>3 DEF Owed
  <2>2. Stays(w[i])
    BY <1>2, <1>3, <2>1 DEF Stays
  <2>3. /\ Asked(w[i])'
        /\ \A d \in Client \ {c} : b(d)' = w[i] => call'[d].at \notin {"add", "free"}
    BY <1>1, <1>2, <1>3, <2>2, OwedOthers
  <2> QED
    BY <1>2, <2>2, <2>3
<1> QED
  BY <1>1, <1>2, <1>3, <1>4, StillOwed

\* player_start touches no block that knows its thread.
LEMMA StartOwed ==
  ASSUME IInv, ListInv, NEW c \in Client, Start(c) PROVE ListInv'
<1>1. TypeOK /\ para \in [Block -> Fields] /\ heap \subseteq Block
  BY DEF IInv, TypeOK
<1>2. /\ \A d \in Client \ {c} : call'[d] = call[d]
      /\ kill_item_list' = kill_item_list
      /\ call[c].at \notin {"add", "free", "send"} /\ call'[c].at \notin {"add", "free"}
  <2>1. call \in [Client -> Call]
    BY <1>1 DEF TypeOK
  <2>2. CASE StartRequestPid(c) \/ StartRefused(c)
    BY <2>1, <2>2 DEF StartRequestPid, StartRefused, At, Idle
  <2>3. CASE StartMalloc(c)
    BY <2>1, <2>3 DEF StartMalloc, Return, At, Idle, Call
  <2>4. CASE StartCreate(c)
    BY <2>1, <2>4 DEF StartCreate, Goto, At, Call
  <2>5. CASE StartPublish(c) \/ StartPool(c)
    BY <2>1, <2>5 DEF StartPublish, StartPool, Step, Goto, At, Call
  <2>6. CASE StartStoreTid(c) \/ StartUndo(c)
    BY <2>1, <2>6 DEF StartStoreTid, StartUndo, Return, At, Idle
  <2> QED
    BY <2>2, <2>3, <2>4, <2>5, <2>6 DEF Start
<1>3. ASSUME NEW x \in heap, para[x].pthread_id \in Tid PROVE Stays(x)
  <2>1. x \in Block /\ NULL \notin Tid
    BY <1>1
  <2>2. CASE StartRequestPid(c) \/ StartRefused(c) \/ StartPublish(c) \/ StartUndo(c)
    BY <2>2 DEF StartRequestPid, StartRefused, StartPublish, StartUndo, Stays
  <2>3. CASE StartMalloc(c)
    BY <1>1, <2>1, <2>3 DEF StartMalloc, Stays
  <2>4. CASE StartPool(c)
    BY <1>1, <2>1, <2>4 DEF StartPool, Stays, Fields
  <2>5. CASE StartCreate(c) \/ StartStoreTid(c)
    <3>1. x # b(c)
      BY <1>3, <2>1, <2>5 DEF IInv, Held, BlocksReady, StartCreate, StartStoreTid, At
    <3> QED
      BY <1>1, <2>1, <2>5, <3>1 DEF StartCreate, StartStoreTid, Stays
  <2> QED
    BY <2>2, <2>3, <2>4, <2>5 DEF Start
<1> QED
  BY <1>1, <1>2, <1>3, MoveOwed

\* Nor do the other steps of the calls, but for those on the list and StopSend, which
\* leaves the request that it is about in the pool of its block.
LEMMA CallOwed ==
  ASSUME IInv, ListInv, NEW c \in Client, Stop(c) \/ Message(c) \/ Exit(c) PROVE ListInv'
<1>1. TypeOK /\ call \in [Client -> Call] /\ para \in [Block -> Fields] /\ heap \subseteq Block
  BY DEF IInv, TypeOK
<1> DEFINE Moves == /\ \A d \in Client \ {c} : call'[d] = call[d]
                    /\ kill_item_list' = kill_item_list
                    /\ call[c].at \notin {"add", "free", "send"}
                    /\ call'[c].at \notin {"add", "free"}
                    /\ heap' = heap /\ para' = para
<1>2. ASSUME Open(c) PROVE Moves
  <2>1. PICK p \in own[c], api \in DOMAIN Entry :
          call' = [call EXCEPT ![c] = [Idle EXCEPT !.at = Entry[api], !.api = api, !.pid = p,
                                                   !.b = priv_pid_data[p]]]
    BY <1>2 DEF Open
  <2>2. Entry[api] \notin {"add", "free"}
    BY <2>1 DEF Entry
  <2>3. call'[c].at = Entry[api]
    BY <1>1, <2>1 DEF Idle
  <2> QED
    BY <1>1, <1>2, <2>1, <2>2, <2>3 DEF Open, At
<1>3. ASSUME StopStatus(c) \/ StopJoin(c) PROVE Moves
  BY <1>1, <1>3 DEF StopStatus, StopJoin, Step, Goto, At, Call
<1>4. ASSUME Message(c) PROVE Moves
  BY <1>1, <1>4 DEF Message, MessageStatus, MessageSend, Query, Step, Goto, At, Call
<1>5. ASSUME Close(c) \/ ExitRelease(c) PROVE Moves
  BY <1>1, <1>5 DEF Close, ExitRelease, Goto, Return, At, Call, Idle
<1>6. ASSUME ExitStatus(c) \/ ExitJoin(c) \/ ExitClose(c) PROVE Moves
  BY <1>1, <1>6 DEF ExitStatus, ExitJoin, ExitClose, Step, Goto, At, Call
<1>7. CASE StopSend(c)
  <2>1. /\ \A d \in Client \ {c} : call'[d] = call[d]
        /\ call'[c].at \notin {"add", "free"} /\ kill_item_list' = kill_item_list
    BY <1>1, <1>7 DEF StopSend, Step, Goto, At, Call
  <2>2. b(c) \in Block
    BY <1>7, WorkingBlock DEF StopSend, Step, At, Working, CallAt
  <2>3. para'[b(c)].stop = 1
    BY <1>1, <1>7, <2>2 DEF StopSend, Fields
  <2>4. \A x \in heap : Stays(x)
    BY <1>1, <1>7, <2>2 DEF StopSend, Stays, Fields
  <2> QED
    BY <1>1, <2>1, <2>3, <2>4, MoveOwed
<1>8. CASE StopUninterrupt(c) \/ ExitUninterrupt(c)
  <2>1. /\ call[c].at \in {"uninterrupt", "exit_uninterrupt"} /\ Uninterrupt(c)
        /\ Goto(c, "close") \/ Goto(c, "free")
        /\ UNCHANGED << heap, para >>
    BY <1>8 DEF StopUninterrupt, ExitUninterrupt, Step, At
  <2> QED
    BY <2>1, UninterruptOwed
<1>9. ASSUME Moves PROVE ListInv'
  <2>1. \A x \in heap : Stays(x)
    BY <1>9 DEF Stays
  <2> QED
    BY <1>1, <1>9, <2>1, MoveOwed
<1>10. Moves \/ ListInv'
  BY <1>2, <1>3, <1>4, <1>5, <1>6, <1>7, <1>8, MatchOwed, AddOwed, FreeOwed DEF Stop, Exit
<1> QED
  BY <1>9, <1>10

\* A player thread only changes its status.
LEMMA ThreadOwed == ASSUME IInv, ListInv, NEW t \in Tid, Thread(t) PROVE ListInv'
<1>1. TypeOK /\ para \in [Block -> Fields] /\ heap \subseteq Block
  BY DEF IInv, TypeOK
<1>2. /\ kill_item_list' = kill_item_list /\ heap' = heap /\ call' = call
      /\ para' = para \/ \E to : para' = [para EXCEPT ![on[t]].status = to]
  BY DEF Thread, ShowEnded, ShowPlaying, ShowExit, ThreadExit, Show
<1>3. \A x \in heap : Stays(x) /\ para'[x].stop = para[x].stop
  <2>1. SUFFICES ASSUME NEW x \in heap PROVE Stays(x) /\ para'[x].stop = para[x].stop
    OBVIOUS
  <2>2. para[x] \in Fields
    BY <1>1
  <2>3. para'[x] = para[x] \/ \E to : para'[x] = [para[x] EXCEPT !.status = to]
    BY <1>1, <1>2
  <2>4. para'[x].stop = para[x].stop /\ para'[x].pthread_id = para[x].pthread_id
    BY <2>2, <2>3 DEF Fields
  <2> QED
    BY <1>2, <2>4 DEF Stays
<1>4. PICK w \in [DOMAIN kill_item_list -> heap] : Owed(w)
  BY DEF ListInv
<1>5. \A x \in heap : Asked(x) => Asked(x)'
  BY <1>2, <1>3 DEF Asked, At, b
<1>6. \A i \in DOMAIN kill_item_list :
        /\ Stays(w[i]) /\ Asked(w[i])'
        /\ \A d \in Client : b(d)' = w[i] => call'[d].at \notin {"add", "free"}
  BY <1>2, <1>3, <1>4, <1>5 DEF Owed, b
<1> QED
  BY <1>1, <1>2, <1>4, <1>6, StillOwed

LEMMA ListStep == ASSUME IInv, ListInv, [Next]_vars PROVE ListInv'
<1>1. CASE UNCHANGED vars
  BY <1>1 DEF vars, ListInv, Owed, Asked, At, b
<1> QED
  BY <1>1, StartOwed, CallOwed, ThreadOwed DEF Next

\* player_ctrl.c, ffmpeg_interrupt and ffmpeg_uninterrupt: whatever several calls do at
\* once, each thread in the kill list is that of a player which was asked to stop and
\* still has its block.  When the last player is gone the list is empty, so no thread
\* to come, of the same pthread_t, finds its input interrupted from the start.
THEOREM ListCorrect == Spec => []ListAccounted
<1>1. ASSUME Init PROVE ListInv
  <2> DEFINE w == [i \in {} |-> NULL]
  <2>1. DOMAIN kill_item_list = {}
    BY <1>1 DEF Init
  <2>2. w \in [DOMAIN kill_item_list -> heap]
    BY <2>1
  <2>3. Owed(w)
    BY <2>1 DEF Owed
  <2> QED
    BY <2>2, <2>3 DEF ListInv
<1>2. IInv /\ ListInv /\ [Next]_vars => ListInv'
  BY ListStep
<1>3. IInv /\ ListInv => ListAccounted
  BY DEF ListInv, Owed, ListAccounted
<1> QED
  BY <1>1, <1>2, <1>3, Invariance, PTL DEF Spec
-----------------------------------------------------------------------------
(* The id table.  All calls together use it as PidPool says, and none of   *)
(* them is ever turned away by it half-way.                                *)

\* An id that player_start is at work on is one that it has requested.
StartingKnown ==
  \A c \in Client : call[c].at \in {"malloc", "publish"} => call[c].pid \in starting

\* What each call finds when it comes to the table: the id it closes is open, the id
\* it releases or opens is in use, and room for one more open is left.
TableServes ==
  \A c \in Client :
    /\ call[c].at \in {"malloc", "publish"} => call[c].pid \in starting
    /\ call[c].at \in {"undo", "release"} => call[c].pid \in priv_pid_pool
    /\ call[c].at \in {"close", "exit_close"} =>
         call[c].pid \in priv_pid_pool /\ priv_pid_used[call[c].pid] > 0
    /\ call[c].at = "exit_status" =>
         call[c].pid \in priv_pid_pool /\ priv_pid_used[call[c].pid] < 2
    /\ At(c, "idle") =>
         \A p \in own[c] : p \in priv_pid_pool /\ priv_pid_used[p] < 2

LEMMA StartingStep == ASSUME IInv, StartingKnown, [Next]_vars PROVE StartingKnown'
<1>1. TypeOK /\ call \in [Client -> Call]
  BY DEF IInv, TypeOK
<1>2. ASSUME NEW c \in Client, \A d \in Client \ {c} : call'[d] = call[d],
             starting' = starting, call'[c].at \notin {"malloc", "publish"}
      PROVE  StartingKnown'
  BY <1>2 DEF StartingKnown
<1>3. ASSUME NEW c \in Client, Stop(c) \/ Message(c) \/ Exit(c) PROVE StartingKnown'
  <2> DEFINE Moves == /\ \A d \in Client \ {c} : call'[d] = call[d]
                      /\ starting' = starting /\ call'[c].at \notin {"malloc", "publish"}
  <2> USE DEF Step, Goto, At, tableVars
  <2>1. ASSUME Open(c) PROVE Moves
    <3>1. PICK p \in own[c], api \in DOMAIN Entry :
            /\ Table!OpenPidData(p)
            /\ call' = [call EXCEPT ![c] = [Idle EXCEPT !.at = Entry[api], !.api = api,
                                              !.pid = p, !.b = priv_pid_data[p]]]
      BY <2>1 DEF Open
    <3>2. Entry[api] \notin {"malloc", "publish"}
      BY <3>1 DEF Entry
    <3>3. call'[c].at = Entry[api]
      BY <1>1, <3>1 DEF Idle
    <3> QED
      BY <1>1, <3>1, <3>2, <3>3 DEF Table!OpenPidData
  <2>2. ASSUME StopStatus(c) \/ InterruptMatch(c) PROVE Moves
    BY <1>1, <2>2 DEF StopStatus, InterruptMatch, Call
  <2>3. ASSUME InterruptAdd(c) \/ StopSend(c) PROVE Moves
    BY <1>1, <2>3 DEF InterruptAdd, StopSend, Call
  <2>4. ASSUME StopJoin(c) \/ StopUninterrupt(c) PROVE Moves
    BY <1>1, <2>4 DEF StopJoin, StopUninterrupt, Call
  <2>5. ASSUME Close(c) \/ ExitRelease(c) PROVE Moves
    BY <1>1, <2>5 DEF Close, ExitRelease, Return, Idle, Call, Table!ClosePidData,
                      Table!ReleasePid
  <2>6. ASSUME Message(c) PROVE Moves
    BY <1>1, <2>6 DEF Message, MessageStatus, MessageSend, Query, Call
  <2>7. ASSUME ExitStatus(c) \/ ExitClose(c) PROVE Moves
    BY <1>1, <2>7 DEF ExitStatus, ExitClose, Call, Table!OpenPidData, Table!ClosePidData
  <2>8. ASSUME ExitJoin(c) \/ ExitUninterrupt(c) \/ ExitFree(c) PROVE Moves
    BY <1>1, <2>8 DEF ExitJoin, ExitUninterrupt, ExitFree, Call
  <2> QED
    BY <1>2, <1>3, <2>1, <2>2, <2>3, <2>4, <2>5, <2>6, <2>7, <2>8 DEF Stop, Exit
<1>4. ASSUME NEW c \in Client, Start(c) PROVE StartingKnown'
  <2>1. \A d \in Client \ {c} :
          ~ At(c, "idle") /\ ~ At(d, "idle") => call[d].pid # call[c].pid
    BY DEF IInv, Held, IdsHeld, Holds, Busy
  <2>2. CASE StartRequestPid(c)
    <3>1. PICK p \in Table!Pid :
            /\ Table!RequestPid(p)
            /\ call' = [call EXCEPT ![c] = [Idle EXCEPT !.at = "malloc", !.api = "start",
                                                        !.pid = p]]
      BY <2>2 DEF StartRequestPid
    <3>2. starting' = starting \cup {p} /\ call'[c].pid = p
      BY <1>1, <3>1 DEF Table!RequestPid, Idle
    <3> QED
      BY <1>1, <3>1, <3>2 DEF StartingKnown
  <2>3. CASE StartRefused(c)
    BY <2>3 DEF StartRefused, Table!RequestFails, Table!vars, StartingKnown
  <2>4. CASE StartMalloc(c)
    <3>1. CASE starting' = starting
      <4>1. \A d \in Client : call'[d].at \in {"malloc", "publish"} =>
              call'[d].pid = call[d].pid /\ call[d].at \in {"malloc", "publish"}
        BY <1>1, <2>4 DEF StartMalloc, At, Return, Idle, Call
      <4> QED
        BY <3>1, <4>1 DEF StartingKnown
    <3>2. CASE Table!StartNoMem(call[c].pid) /\ Return(c)
      <4>1. starting' = starting \ {call[c].pid} /\ call'[c].at = "idle"
            /\ \A d \in Client \ {c} : call'[d] = call[d]
        BY <1>1, <3>2 DEF Table!StartNoMem, Return, Idle
      <4> QED
        BY <2>1, <2>4, <4>1 DEF StartMalloc, StartingKnown, At
    <3> QED
      BY <2>4, <3>1, <3>2 DEF StartMalloc, tableVars
  <2>5. CASE StartPublish(c)
    <3>1. starting' = starting \ {call[c].pid} /\ call'[c].at = "pool"
          /\ \A d \in Client \ {c} : call'[d] = call[d]
      BY <1>1, <2>5 DEF StartPublish, Step, Goto, Table!InitPidData, Call
    <3> QED
      BY <2>1, <2>5, <3>1 DEF StartPublish, StartingKnown, Step, At
  <2>6. CASE StartPool(c) \/ StartCreate(c)
    BY <1>1, <1>2, <2>6 DEF StartPool, StartCreate, Step, Goto, Call, tableVars
  <2>7. CASE StartStoreTid(c) \/ StartUndo(c)
    BY <1>1, <1>2, <2>7 DEF StartStoreTid, StartUndo, Return, Idle, tableVars,
                            Table!ReleasePid
  <2> QED
    BY <1>4, <2>2, <2>3, <2>4, <2>5, <2>6, <2>7 DEF Start
<1>5. ASSUME NEW t \in Tid, Thread(t) PROVE StartingKnown'
  BY <1>5 DEF Thread, ShowEnded, ShowPlaying, ShowExit, ThreadExit, Show, tableVars,
              StartingKnown
<1>6. CASE UNCHANGED vars
  BY <1>6 DEF vars, tableVars, StartingKnown
<1> QED
  BY <1>3, <1>4, <1>5, <1>6 DEF Next

\* player_id.c: no call comes to the table in vain, whatever the others do: a close
\* finds the id open, a release finds it in use, and an open finds the player.  Two
\* nested opens, the bound of the table here, are all that any call needs.
THEOREM TableServesCalls == Spec => []TableServes
<1>1. Init => StartingKnown
  BY DEF Init, StartingKnown, Idle
<1>2. IInv /\ StartingKnown /\ [Next]_vars => StartingKnown'
  BY StartingStep
<1>3. ASSUME IInv, StartingKnown PROVE TableServes
  <2>1. SUFFICES ASSUME NEW c \in Client
                 PROVE  /\ call[c].at \in {"undo", "release"} => call[c].pid \in priv_pid_pool
                        /\ call[c].at \in {"close", "exit_close"} =>
                             call[c].pid \in priv_pid_pool /\ priv_pid_used[call[c].pid] > 0
                        /\ call[c].at = "exit_status" =>
                             call[c].pid \in priv_pid_pool /\ priv_pid_used[call[c].pid] < 2
                        /\ At(c, "idle") =>
                             \A p \in own[c] : p \in priv_pid_pool /\ priv_pid_used[p] < 2
    BY <1>3 DEF StartingKnown, TableServes
  <2>2. \A p \in Holds(c) : /\ p \in priv_pid_pool
                            /\ priv_pid_used[p] = IF p \in Busy(c) THEN Opens(c) ELSE 0
    BY <1>3 DEF IInv, Held, IdsHeld
  <2>3. At(c, "idle") => \A p \in own[c] : p \in priv_pid_pool /\ priv_pid_used[p] = 0
    BY <2>2 DEF Holds, Busy
  <2>4. ~ At(c, "idle") => /\ call[c].pid \in priv_pid_pool
                           /\ priv_pid_used[call[c].pid] = Opens(c)
    BY <2>2 DEF Holds, Busy
  <2>5. /\ call[c].at \in {"close", "exit_close"} => Opens(c) \in {1, 2}
        /\ call[c].at = "exit_status" => Opens(c) = 1
    BY DEF Opens, OpenAt, StartAt
  <2> QED
    BY <2>3, <2>4, <2>5 DEF At
<1> QED
  BY <1>1, <1>2, <1>3, Invariance, PTL DEF Spec

\* The table of ids, as the calls use it, is the table that PidPool specifies: what is
\* proved of that one, that an id not in use leads nowhere, holds here.
THEOREM TableRefined == Spec => Table!Spec
<1>1. Init => Table!Init
  BY DEF Init
<1>2. ASSUME IInv, [Next]_vars PROVE [Table!Next]_(Table!vars)
  <2> USE DEF Table!Next
  <2>1. \A c \in Client : call[c].pid \in Table!Pid /\ own[c] \subseteq Table!Pid
    BY <1>2 DEF IInv, TypeOK, Call
  <2>2. UNCHANGED tableVars => UNCHANGED Table!vars
    BY DEF tableVars, Table!vars
  <2>3. ASSUME NEW c \in Client, Start(c) PROVE Table!Next \/ UNCHANGED tableVars
    <3>1. StartRequestPid(c) \/ StartRefused(c) \/ StartMalloc(c) \/ StartUndo(c)
            => Table!Next \/ UNCHANGED tableVars
      BY <2>1 DEF StartRequestPid, StartRefused, StartMalloc, StartUndo
    <3>2. CASE StartPublish(c)
      <4>1. b(c) \in Block
        BY <1>2, <3>2, WorkingBlock DEF StartPublish, Step, At, Working, CallAt
      <4> QED
        BY <2>1, <3>2, <4>1 DEF StartPublish
    <3>3. StartPool(c) \/ StartCreate(c) \/ StartStoreTid(c) => UNCHANGED tableVars
      BY DEF StartPool, StartCreate, StartStoreTid
    <3> QED
      BY <2>3, <3>1, <3>2, <3>3 DEF Start
  <2>4. ASSUME NEW c \in Client, Stop(c) \/ Message(c)
        PROVE  Table!Next \/ UNCHANGED tableVars
    <3>1. Open(c) \/ Close(c) => Table!Next
      BY <2>1 DEF Open, Close
    <3>2. StopStatus(c) \/ InterruptMatch(c) \/ InterruptAdd(c) => UNCHANGED tableVars
      BY DEF StopStatus, InterruptMatch, InterruptAdd
    <3>3. StopSend(c) \/ StopJoin(c) \/ StopUninterrupt(c) => UNCHANGED tableVars
      BY DEF StopSend, StopJoin, StopUninterrupt
    <3>4. Message(c) => UNCHANGED tableVars
      BY DEF Message, MessageStatus, MessageSend, Query
    <3> QED
      BY <2>4, <3>1, <3>2, <3>3, <3>4 DEF Stop
  <2>5. ASSUME NEW c \in Client, Exit(c) PROVE Table!Next \/ UNCHANGED tableVars
    <3>1. ExitStatus(c) \/ ExitClose(c) \/ ExitRelease(c) => Table!Next \/ UNCHANGED tableVars
      BY <2>1 DEF ExitStatus, ExitClose, ExitRelease
    <3>2. ExitJoin(c) \/ ExitUninterrupt(c) \/ ExitFree(c) => UNCHANGED tableVars
      BY DEF ExitJoin, ExitUninterrupt, ExitFree
    <3> QED
      BY <2>5, <3>1, <3>2 DEF Exit
  <2>6. ASSUME NEW t \in Tid, Thread(t) PROVE UNCHANGED tableVars
    BY <2>6 DEF Thread, ShowEnded, ShowPlaying, ShowExit, ThreadExit, Show
  <2>7. CASE UNCHANGED vars
    BY <2>2, <2>7 DEF vars, tableVars
  <2>8. CASE Next
    BY <2>2, <2>3, <2>4, <2>5, <2>6, <2>8 DEF Next
  <2> QED
    BY <1>2, <2>7, <2>8
<1>3. IInv /\ [Next]_vars => [Table!Next]_(Table!vars)
  BY <1>2
<1> QED
  BY <1>1, <1>3, Invariance, PTL DEF Spec, Table!Spec

-----------------------------------------------------------------------------
(* So the theorems about PidPool are about the table of the players.       *)

Ids == INSTANCE PidPoolProofs WITH Para <- Block, MaxUse <- 2

LEMMA SameTable ==
  /\ Table!Init => Ids!Init
  /\ [Table!Next]_(Table!vars) => [Ids!Next]_(Ids!vars)
  /\ Ids!FreeIdIsClean => Table!FreeIdIsClean
  /\ Ids!PidAssumption
<1>1. Table!Init => Ids!Init
  BY DEF Table!Init, Ids!Init, Table!Pid, Ids!Pid
<1>2. Ids!FreeIdIsClean => Table!FreeIdIsClean
  BY DEF Table!FreeIdIsClean, Ids!FreeIdIsClean, Table!Pid, Ids!Pid
<1>3. Ids!PidAssumption
  BY DEF Ids!PidAssumption
<1>4. Table!Candidate = Ids!Candidate /\ Table!Pid = Ids!Pid
  BY DEF Table!Candidate, Ids!Candidate, Table!Pid, Ids!Pid
<1>5. Table!Next => Ids!Next
  BY <1>4 DEF Table!Next, Ids!Next, Table!RequestFails, Ids!RequestFails,
     Table!RequestPid, Ids!RequestPid, Table!NextLast, Ids!NextLast,
     Table!StartNoMem, Ids!StartNoMem, Table!ReleasePid, Ids!ReleasePid,
     Table!OpenPidData, Ids!OpenPidData, Table!ClosePidData, Ids!ClosePidData,
     Table!InitPidData, Ids!InitPidData, Table!vars, Ids!vars
<1>6. UNCHANGED Table!vars => UNCHANGED Ids!vars
  BY DEF Table!vars, Ids!vars
<1> QED
  BY <1>1, <1>2, <1>3, <1>5, <1>6

\* An id that was released leads to no player and is open for nobody, whatever the
\* application's threads do at once: a call with a stale id can only be refused.
THEOREM FreeIdsClean == Spec => []Table!FreeIdIsClean
<1>1. Ids!Spec => []Ids!FreeIdIsClean
  BY SameTable, Ids!FreeIdCorrect
<1> QED
  BY <1>1, SameTable, TableRefined, PTL DEF Ids!Spec, Table!Spec

\* Once the last id of the table was issued, player_start fails for every application
\* thread from then on, however many players exit.
THEOREM ExhaustedForAll == Spec => Table!ExhaustionIsForever
<1>1. Ids!Spec => Ids!ExhaustionIsForever
  BY SameTable, Ids!ExhaustionCorrect
<1> DEFINE A == last = MAX_PLAYER_THREADS =>
                  last' = MAX_PLAYER_THREADS /\ priv_pid_pool' \subseteq priv_pid_pool
<1>2. [A]_(Ids!vars) => [A]_(Table!vars)
  BY DEF Table!vars, Ids!vars
<1> QED
  BY <1>1, <1>2, SameTable, TableRefined, PTL
     DEF Ids!Spec, Table!Spec, Ids!ExhaustionIsForever, Table!ExhaustionIsForever
=============================================================================
