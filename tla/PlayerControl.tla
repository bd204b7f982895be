----------------------------- MODULE PlayerControl -----------------------------
(***************************************************************************)
(* The life of players: player_start, player_stop, player_stop_async,      *)
(* player_exit and player_send_message of player/player_ctrl.c, called by  *)
(* several application threads, on the table of ids (PidPool), the heap,   *)
(* the threads (thread_mgt.c) and the list of the threads whose input is   *)
(* interrupted (player_ffmpeg_ctrl.c and player_itemlist.c).               *)
(*                                                                         *)
(* A call is broken up where another thread can come in between: at each   *)
(* locked section and at each access to the play_para_t.  An application   *)
(* thread calls for the players it has started, any number at a time, and  *)
(* calls player_exit once for each.  What a player thread plays is left    *)
(* out (see PlayerThread): it shows that it plays, or has ended, possibly  *)
(* in passing, and exits.  A pthread_t is given out again once its thread  *)
(* was joined, and so is a block once it was freed.                        *)
(***************************************************************************)
EXTENDS Integers, Sequences, SequencesExt

CONSTANTS Client,              \* the application's threads
          Block,               \* where the allocator may place a play_para_t
          Tid,                 \* the pthread_t values
          NULL,
          MAX_PLAYER_THREADS   \* the size of the id table and of the kill list

ASSUME ControlAssumption ==
  /\ NULL \notin Block \cup Tid
  /\ MAX_PLAYER_THREADS \in Nat \ {0, 1}

VARIABLES priv_pid_pool, priv_pid_data, priv_pid_used, last, starting,   \* see PidPool
          heap,             \* the blocks that are allocated
          para,             \* their fields
          running,          \* the threads that run
          on,               \* what a thread works on, until it is joined
          kill_item_list,   \* the threads to interrupt
          call,             \* what each client is doing
          own               \* the players each client has started and not exited

tableVars  == << priv_pid_pool, priv_pid_data, priv_pid_used, last, starting >>
threadVars == << running, on >>
vars == << tableVars, heap, para, threadVars, kill_item_list, call, own >>

\* A call nests two opens of an id: player_exit and, in it, player_stop.
Table == INSTANCE PidPool WITH Para <- Block, MaxUse <- 2

Fresh == [status |-> "playing", pool |-> "raw", stop |-> 0, pthread_id |-> NULL]
Idle  == [at |-> "idle", api |-> "none", pid |-> 0, b |-> NULL, t |-> NULL]

Init ==
  /\ Table!Init
  /\ heap = {}
  /\ para = [b \in Block |-> Fresh]
  /\ running = {}
  /\ on = [t \in Tid |-> NULL]
  /\ kill_item_list = << >>
  /\ call = [c \in Client |-> Idle]
  /\ own = [c \in Client |-> {}]
-----------------------------------------------------------------------------
At(c, from)       == call[c].at = from
Goto(c, to)       == call' = [call EXCEPT ![c].at = to]
Step(c, from, to) == At(c, from) /\ Goto(c, to)
Return(c)         == call' = [call EXCEPT ![c] = Idle]

\* The block a call works on, and its thread.
b(c)   == call[c].b
tid(c) == para[b(c)].pthread_id
-----------------------------------------------------------------------------
(* player_start *)

StartRequestPid(c) ==
  /\ At(c, "idle")
  /\ \E p \in Table!Pid :
       /\ Table!RequestPid(p)
       /\ call' = [call EXCEPT ![c] = [Idle EXCEPT !.at = "malloc", !.api = "start", !.pid = p]]
  /\ UNCHANGED << heap, para, threadVars, kill_item_list, own >>

StartRefused(c) ==
  /\ At(c, "idle") /\ Table!RequestFails
  /\ UNCHANGED << heap, para, threadVars, kill_item_list, call, own >>

\* MALLOC and MEMSET; without memory the id stays taken.
StartMalloc(c) ==
  /\ At(c, "malloc")
  /\ \/ \E new \in Block \ heap :
          /\ heap' = heap \cup {new}
          /\ para' = [para EXCEPT ![new] = Fresh]
          /\ call' = [call EXCEPT ![c].at = "publish", ![c].b = new]
          /\ UNCHANGED tableVars
     \/ Table!StartNoMem(call[c].pid) /\ Return(c) /\ UNCHANGED << heap, para >>
  /\ UNCHANGED << threadVars, kill_item_list, own >>

StartPublish(c) ==
  /\ Step(c, "publish", "pool")
  /\ Table!InitPidData(call[c].pid, b(c))
  /\ UNCHANGED << heap, para, threadVars, kill_item_list, own >>

StartPool(c) ==
  /\ Step(c, "pool", "create")
  /\ para' = [para EXCEPT ![b(c)].pool = "ready"]
  /\ UNCHANGED << tableVars, heap, threadVars, kill_item_list, own >>

\* Without a thread the block is forgotten.
StartCreateLosesBlock(c) ==
  /\ At(c, "create")
  /\ \/ /\ \E t \in Tid :
             /\ on[t] = NULL
             /\ on' = [on EXCEPT ![t] = b(c)] /\ running' = running \cup {t}
             /\ call' = [call EXCEPT ![c].at = "store", ![c].t = t]
     \/ Goto(c, "undo") /\ UNCHANGED threadVars
  /\ UNCHANGED << tableVars, heap, para, kill_item_list, own >>

\* player_thread_create: pthread_create starts the thread, its id is stored later.
StartCreate(c) ==
  /\ At(c, "create")
  /\ \/ /\ \E t \in Tid :
             /\ on[t] = NULL
             /\ on' = [on EXCEPT ![t] = b(c)] /\ running' = running \cup {t}
             /\ call' = [call EXCEPT ![c].at = "store", ![c].t = t]
        /\ UNCHANGED heap
     \/ heap' = heap \ {b(c)} /\ Goto(c, "undo") /\ UNCHANGED threadVars
  /\ UNCHANGED << tableVars, para, kill_item_list, own >>

\* The thread's id is not kept.
StartStoreNothing(c) ==
  /\ At(c, "store")
  /\ own' = [own EXCEPT ![c] = @ \cup {call[c].pid}]
  /\ Return(c)
  /\ UNCHANGED << tableVars, heap, para, threadVars, kill_item_list >>

StartStoreTid(c) ==
  /\ At(c, "store")
  /\ para' = [para EXCEPT ![b(c)].pthread_id = call[c].t]
  /\ own' = [own EXCEPT ![c] = @ \cup {call[c].pid}]
  /\ Return(c)
  /\ UNCHANGED << tableVars, heap, threadVars, kill_item_list >>

StartUndo(c) ==
  /\ At(c, "undo")
  /\ Table!ReleasePid(call[c].pid)
  /\ Return(c)
  /\ UNCHANGED << heap, para, threadVars, kill_item_list, own >>
-----------------------------------------------------------------------------
(* player_stop, player_stop_async, player_send_message and the queries *)

\* Where a call goes on, from its first look at the play_para_t.
Entry == [stop |-> "stop_status", stop_async |-> "stop_status",
          exit |-> "exit_status", message |-> "msg_status", query |-> "query"]

Open(c) ==
  /\ At(c, "idle")
  /\ \E p \in own[c], api \in DOMAIN Entry :
       /\ Table!OpenPidData(p)
       /\ call' = [call EXCEPT ![c] = [Idle EXCEPT !.at = Entry[api], !.api = api, !.pid = p,
                                                !.b = priv_pid_data[p]]]
       /\ own' = IF api = "exit" THEN [own EXCEPT ![c] = @ \ {p}] ELSE own
  /\ UNCHANGED << heap, para, threadVars, kill_item_list >>

\* A return that leaves the id open.
StopStatusKeepsOpen(c) ==
  /\ At(c, "stop_status")
  /\ IF para[b(c)].status = "playing" THEN Goto(c, "match") \/ Goto(c, "close")
     ELSE IF call[c].api = "exit" THEN Goto(c, "exit_join") ELSE Return(c)
  /\ UNCHANGED << tableVars, heap, para, threadVars, kill_item_list, own >>

\* PLAYER_THREAD_IS_STOPPED: nothing to do.  Nor is there without memory for the STOP.
StopStatus(c) ==
  /\ At(c, "stop_status")
  /\ \/ Goto(c, "match") /\ para[b(c)].status = "playing"
     \/ Goto(c, "close")
  /\ UNCHANGED << tableVars, heap, para, threadVars, kill_item_list, own >>

\* ffmpeg_interrupt: itemlist_add_tail_data looks for the thread, and then adds it.
InterruptMatch(c) ==
  /\ At(c, "match")
  /\ Goto(c, IF Contains(kill_item_list, tid(c)) THEN "send" ELSE "add")
  /\ UNCHANGED << tableVars, heap, para, threadVars, kill_item_list, own >>

\* item_alloc may get no memory, and a full list takes no item: ffmpeg_interrupt
\* looks at neither, and the thread is then not interrupted.
InterruptAdd(c) ==
  /\ Step(c, "add", "send")
  /\ \/ kill_item_list' = kill_item_list
     \/ /\ Len(kill_item_list) < MAX_PLAYER_THREADS
        /\ kill_item_list' = Append(kill_item_list, tid(c))
  /\ UNCHANGED << tableVars, heap, para, threadVars, own >>

\* send_message, of the STOP
StopSend(c) ==
  /\ Step(c, "send", IF call[c].api = "stop_async" THEN "close" ELSE "join")
  /\ para' = [para EXCEPT ![b(c)].stop = 1]
  /\ UNCHANGED << tableVars, heap, threadVars, kill_item_list, own >>

\* pthread_join: a thread that was joined already is no thread any more, and its
\* pthread_t may be that of another one.
Join(c) ==
  /\ tid(c) \notin running
  /\ on' = [on EXCEPT ![tid(c)] = NULL]
  /\ UNCHANGED running

\* itemlist_del_match_data_item
Uninterrupt(c) == kill_item_list' = RemoveFirst(kill_item_list, tid(c))

\* player_thread_wait_exit and clear_all_message
StopJoin(c) ==
  /\ Step(c, "join", "uninterrupt")
  /\ Join(c)
  /\ UNCHANGED << tableVars, heap, para, kill_item_list, own >>

StopUninterrupt(c) ==
  /\ Step(c, "uninterrupt", "close")
  /\ Uninterrupt(c)
  /\ UNCHANGED << tableVars, heap, para, threadVars, own >>

\* player_send_message: it looks for PLAYER_EXIT and for memory, then sends.  The
\* nested opens of player_get_state and send_message_by_pid are closed at once.
MessageStatus(c) ==
  /\ At(c, "msg_status")
  /\ \/ Goto(c, "msg_send") /\ para[b(c)].status # "exit"
     \/ Goto(c, "close")
  /\ UNCHANGED << tableVars, heap, para, threadVars, kill_item_list, own >>

MessageSend(c) ==
  /\ Step(c, "msg_send", "close")
  /\ UNCHANGED << tableVars, heap, para, threadVars, kill_item_list, own >>

\* player_get_state, player_get_play_info, player_get_media_info and their like
Query(c) ==
  /\ Step(c, "query", "close")
  /\ UNCHANGED << tableVars, heap, para, threadVars, kill_item_list, own >>

Close(c) ==
  /\ At(c, "close")
  /\ Table!ClosePidData(call[c].pid)
  /\ IF call[c].api = "exit" THEN Goto(c, "exit_join") ELSE Return(c)
  /\ UNCHANGED << heap, para, threadVars, kill_item_list, own >>
-----------------------------------------------------------------------------
(* player_exit *)

\* It stops the player, which opens the id again, if it has not exited.
ExitStatus(c) ==
  /\ At(c, "exit_status")
  /\ IF para[b(c)].status = "exit"
     THEN Goto(c, "exit_join") /\ UNCHANGED tableVars
     ELSE Table!OpenPidData(call[c].pid) /\ Goto(c, "stop_status")
  /\ UNCHANGED << heap, para, threadVars, kill_item_list, own >>

\* An exit that trusts the status, or player_stop, and does not join.
ExitNoJoin(c) ==
  /\ Step(c, "exit_join", "exit_uninterrupt")
  /\ UNCHANGED << tableVars, heap, para, threadVars, kill_item_list, own >>

\* The thread may have been joined before, by player_stop.
ExitJoin(c) ==
  /\ Step(c, "exit_join", "exit_uninterrupt")
  /\ Join(c)
  /\ UNCHANGED << tableVars, heap, para, kill_item_list, own >>

\* The thread is left in the list.
ExitKeepsItem(c) ==
  /\ Step(c, "exit_uninterrupt", "free")
  /\ UNCHANGED << tableVars, heap, para, threadVars, kill_item_list, own >>

ExitUninterrupt(c) ==
  /\ Step(c, "exit_uninterrupt", "free")
  /\ Uninterrupt(c)
  /\ UNCHANGED << tableVars, heap, para, threadVars, own >>

ExitFree(c) ==
  /\ Step(c, "free", "exit_close")
  /\ heap' = heap \ {b(c)}
  /\ UNCHANGED << tableVars, para, threadVars, kill_item_list, own >>

ExitClose(c) ==
  /\ Step(c, "exit_close", "release")
  /\ Table!ClosePidData(call[c].pid)
  /\ UNCHANGED << heap, para, threadVars, kill_item_list, own >>

ExitRelease(c) ==
  /\ At(c, "release")
  /\ Table!ReleasePid(call[c].pid)
  /\ Return(c)
  /\ UNCHANGED << heap, para, threadVars, kill_item_list, own >>
-----------------------------------------------------------------------------
(* The player threads *)

Show(t, from, to) ==
  /\ t \in running
  /\ para[on[t]].status \in from
  /\ para' = [para EXCEPT ![on[t]].status = to]
  /\ UNCHANGED << tableVars, heap, threadVars, kill_item_list, call, own >>

\* The end (PLAYEND, ERROR, STOPED) may be shown in passing.
ShowEnded(t)   == Show(t, {"playing"}, "ended")
ShowPlaying(t) == Show(t, {"ended"}, "playing")
ShowExit(t)    == Show(t, {"ended"}, "exit")

ThreadExit(t) ==
  /\ t \in running
  /\ para[on[t]].status = "exit"
  /\ running' = running \ {t}
  /\ UNCHANGED << tableVars, heap, para, on, kill_item_list, call, own >>

Start(c) == \/ StartRequestPid(c) \/ StartRefused(c) \/ StartMalloc(c) \/ StartPublish(c)
            \/ StartPool(c) \/ StartCreate(c) \/ StartStoreTid(c) \/ StartUndo(c)
Stop(c)  == \/ Open(c) \/ StopStatus(c) \/ InterruptMatch(c) \/ InterruptAdd(c) \/ StopSend(c)
            \/ StopJoin(c) \/ StopUninterrupt(c) \/ Close(c)
Message(c) == MessageStatus(c) \/ MessageSend(c) \/ Query(c)
Exit(c)  == \/ ExitStatus(c) \/ ExitJoin(c) \/ ExitUninterrupt(c) \/ ExitFree(c)
            \/ ExitClose(c) \/ ExitRelease(c)
Thread(t) == ShowEnded(t) \/ ShowPlaying(t) \/ ShowExit(t) \/ ThreadExit(t)

Next == \/ \E c \in Client : Start(c) \/ Stop(c) \/ Message(c) \/ Exit(c)
        \/ \E t \in Tid : Thread(t)

Spec == Init /\ [][Next]_vars
-----------------------------------------------------------------------------
CallAt == {"idle", "malloc", "publish", "pool", "create", "store", "undo", "stop_status",
           "match", "add", "send", "join", "uninterrupt", "msg_status", "msg_send", "query", "close",
           "exit_status", "exit_join", "exit_uninterrupt", "free", "exit_close", "release"}

Fields == [status : {"playing", "ended", "exit"}, pool : {"raw", "ready"},
           stop : {0, 1}, pthread_id : Tid \cup {NULL}]

Call == [at : CallAt, pid : Table!Pid, b : Block \cup {NULL}, t : Tid \cup {NULL},
         api : {"none", "start"} \cup DOMAIN Entry]

TypeOK ==
  /\ heap \subseteq Block
  /\ para \in [Block -> Fields]
  /\ running \subseteq Tid
  /\ on \in [Tid -> Block \cup {NULL}]
  /\ kill_item_list \in Seq(Tid) /\ Len(kill_item_list) <= MAX_PLAYER_THREADS
  /\ call \in [Client -> Call]
  /\ own \in [Client -> SUBSET Table!Pid]

\* Where a call is at work on its block.
Working == CallAt \ {"idle", "malloc", "undo", "exit_close", "release"}

\* Whoever is at work on a play_para_t, a call or a player thread, up to the end
\* of the thread, is at work on a block that is allocated; and a player thread
\* finds its pool initialised.
NoUseAfterFree ==
  /\ \A c \in Client : call[c].at \in Working => b(c) \in heap
  /\ \A t \in Tid : on[t] # NULL => on[t] \in heap /\ para[on[t]].pool = "ready"

\* The id of a player leads to its block, from the return of player_start to the
\* call of player_exit, and no two players have one id or one block.
IdLeadsToPlayer ==
  \A c \in Client : \A p \in own[c] :
    /\ p \in priv_pid_pool /\ priv_pid_data[p] \in heap
    /\ \A d \in Client : \A q \in own[d] :
         priv_pid_data[p] = priv_pid_data[q] => c = d /\ p = q

\* player_id.c:66 warns of an id that is released while it is in use.  Every call,
\* on every path, closes the id as often as it has opened it.
ReleasedUnused ==
  \A c \in Client : At(c, "release") => priv_pid_used[call[c].pid] = 0

\* No block is lost: each one that is allocated is that of a player somebody can
\* still exit, or of a call under way.
NoBlockLost ==
  \A x \in heap :
    \/ \E c \in Client : b(c) = x /\ call[c].at \in Working
    \/ \E c \in Client : \E p \in own[c] : p \in priv_pid_pool /\ priv_pid_data[p] = x

Asked(x) == \/ para[x].stop = 1
            \/ \E c \in Client : b(c) = x /\ At(c, "send")

\* Each thread in the kill list is owed to a player that was asked to stop, and
\* whose exit is still to come: no entry is left behind for a thread to come.
ListAccounted ==
  \A i \in DOMAIN kill_item_list :
    \E x \in heap : para[x].pthread_id = kill_item_list[i] /\ Asked(x)

\* player_ctrl.c:1353: "support multiple player threads".  The input of a player
\* nobody has asked to stop is not interrupted for the stop of another.
NoForeignInterrupt ==
  \A t \in running : Contains(kill_item_list, t) => Asked(on[t])
=============================================================================
