----------------------------- MODULE MessagePool -----------------------------
(***************************************************************************)
(* The command ring of one player (player/message.c): a fixed array of     *)
(* MESSAGE_MAX pointers, two indexes and a count, all changed under        *)
(* msg_mutex, so that each locked section is one step.  Client threads     *)
(* allocate a command, send it and forget it; the player thread and its    *)
(* mate thread take commands out and free them; a client whose             *)
(* player_stop has waited for the player thread empties the ring.          *)
(*                                                                         *)
(* The pointers are kept as well as the ring, because what is hard to test *)
(* here is ownership: a send into a full ring frees a command that another *)
(* client allocated, and a slot keeps its pointer after the command it     *)
(* points to was taken and freed.  Two functions also read a command after *)
(* they have unlocked: send_message, to log what it sent, and the player   *)
(* thread, which peeks at the oldest command before it plays.  Those reads *)
(* are steps of their own, with the pointer kept in "viewing" until then.  *)
(***************************************************************************)
EXTENDS Integers, Sequences

CONSTANTS Cmd,          \* the heap blocks a player_cmd_t can occupy
          ProxyCmd,     \* those filled with a command the mate may handle
          Client,       \* threads that call the player_ctrl.c functions
          Player, Mate, \* the two threads of the player
          NULL,
          MESSAGE_MAX   \* message.h: 4

ASSUME PoolAssumption ==
  /\ MESSAGE_MAX \in Nat \ {0}
  /\ ProxyCmd \subseteq Cmd
  /\ NULL \notin Cmd
  /\ Player # Mate /\ Player \notin Client /\ Mate \notin Client

VARIABLES message_list,       \* the slots
          message_num,        \* how many of them are in use
          message_in_index,   \* the slot of the next send
          message_out_index,  \* the slot of the next get
          heap,               \* the blocks that are allocated
          made,               \* the command each client is about to send
          held,               \* the command each thread has taken to handle
          viewing,            \* the command each thread will read, unlocked
          stage,              \* how far the player thread has come
          overrun             \* history: a send found the ring full while the
                              \* player thread was looking at a command

ring  == << message_list, message_num, message_in_index, message_out_index >>
looks == << viewing, stage, overrun >>
vars  == << ring, heap, made, held, looks >>

Thread == Client \cup {Player, Mate}
Viewer == Client \cup {Player}
Slot   == 0 .. (MESSAGE_MAX - 1)

\* The index that follows i in the ring.
Succ(i) == (i + 1) % MESSAGE_MAX

\* message_pool_init, with a zeroed play_para_t around it.
Init ==
  /\ message_list = [i \in Slot |-> NULL]
  /\ message_num = 0
  /\ message_in_index = 0
  /\ message_out_index = 0
  /\ heap = {}
  /\ made = [t \in Client |-> NULL]
  /\ held = [t \in Thread |-> NULL]
  /\ viewing = [t \in Viewer |-> NULL]
  /\ stage = "parsing"
  /\ overrun = FALSE
-----------------------------------------------------------------------------
\* message_alloc: the client then fills the block, which nobody else sees.
\* (When MALLOC fails the caller returns PLAYER_NOMEM and nothing changes.)
Alloc(t) ==
  /\ made[t] = NULL
  /\ viewing[t] = NULL
  /\ \E c \in Cmd \ heap :
       /\ heap' = heap \cup {c}
       /\ made' = [made EXCEPT ![t] = c]
  /\ UNCHANGED << ring, held, looks >>

\* A wrong send: the client goes on using the command it has sent.
SendAndKeep(t) ==
  /\ made[t] # NULL
  /\ message_num < MESSAGE_MAX
  /\ message_list' = [message_list EXCEPT ![message_in_index] = made[t]]
  /\ message_in_index' = Succ(message_in_index)
  /\ message_num' = message_num + 1
  /\ UNCHANGED << message_out_index, heap, made, held, looks >>

\* The locked part of send_message, with a free slot.
SendToFreeSlot(t) ==
  /\ made[t] # NULL
  /\ message_num < MESSAGE_MAX
  /\ message_list' = [message_list EXCEPT ![message_in_index] = made[t]]
  /\ message_in_index' = Succ(message_in_index)
  /\ message_num' = message_num + 1
  /\ made' = [made EXCEPT ![t] = NULL]
  /\ viewing' = [viewing EXCEPT ![t] = made[t]]
  /\ UNCHANGED << message_out_index, heap, held, stage, overrun >>

\* Wrong sends over the oldest command: the out index stays where it was; the block
\* is not freed.
SendOverInPlace(t) ==
  /\ made[t] # NULL
  /\ message_num >= MESSAGE_MAX
  /\ heap' = heap \ {message_list[message_in_index]}
  /\ message_list' = [message_list EXCEPT ![message_in_index] = made[t]]
  /\ message_in_index' = Succ(message_in_index)
  /\ made' = [made EXCEPT ![t] = NULL]
  /\ viewing' = [viewing EXCEPT ![t] = made[t]]
  /\ overrun' = (stage = "peeked")
  /\ UNCHANGED << message_out_index, message_num, held, stage >>

SendOverLeak(t) ==
  /\ made[t] # NULL
  /\ message_num >= MESSAGE_MAX
  /\ message_out_index' = Succ(message_out_index)
  /\ message_list' = [message_list EXCEPT ![message_in_index] = made[t]]
  /\ message_in_index' = Succ(message_in_index)
  /\ made' = [made EXCEPT ![t] = NULL]
  /\ viewing' = [viewing EXCEPT ![t] = made[t]]
  /\ overrun' = (stage = "peeked")
  /\ UNCHANGED << heap, message_num, held, stage >>

\* The locked part of send_message, with no free slot: the command in the slot
\* is freed, the count stays, both indexes move.
SendOverOldest(t) ==
  /\ made[t] # NULL
  /\ message_num >= MESSAGE_MAX
  /\ heap' = heap \ {message_list[message_in_index]}
  /\ message_out_index' = Succ(message_out_index)
  /\ message_list' = [message_list EXCEPT ![message_in_index] = made[t]]
  /\ message_in_index' = Succ(message_in_index)
  /\ made' = [made EXCEPT ![t] = NULL]
  /\ viewing' = [viewing EXCEPT ![t] = made[t]]
  /\ overrun' = (stage = "peeked")
  /\ UNCHANGED << message_num, held, stage >>

\* send_message after its unlock: it reads the command it sent, for the log,
\* whoever has freed it by now, and returns.
SendReturns(t) ==
  /\ viewing[t] # NULL
  /\ viewing' = [viewing EXCEPT ![t] = NULL]
  /\ UNCHANGED << ring, heap, made, held, stage, overrun >>

\* Wrong gets: nobody looks whether there is a command; the last one is left behind.
GetUntested(t) ==
  /\ held[t] = NULL
  /\ held' = [held EXCEPT ![t] = message_list[message_out_index]]
  /\ message_out_index' = Succ(message_out_index)
  /\ message_num' = message_num - 1
  /\ UNCHANGED << message_list, message_in_index, heap, made, looks >>

GetButLast(t) == message_num > 1 /\ GetUntested(t)

\* get_message and get_message_locked: the pointer stays in its slot.
GetMessage(t) ==
  /\ held[t] = NULL
  /\ message_num > 0
  /\ held' = [held EXCEPT ![t] = message_list[message_out_index]]
  /\ message_out_index' = Succ(message_out_index)
  /\ message_num' = message_num - 1
  /\ UNCHANGED << message_list, message_in_index, heap, made, looks >>

\* A wrong mate: it is up and takes commands while the player thread still parses.
MateGetEarly ==
  /\ message_num > 0
  /\ message_list[message_out_index] \in ProxyCmd
  /\ GetMessage(Mate)

\* Another: it handles, and then frees, a command it has only peeked at.
MatePeek ==
  /\ stage = "playing"
  /\ held[Mate] = NULL
  /\ message_num > 0
  /\ message_list[message_out_index] \in ProxyCmd
  /\ held' = [held EXCEPT ![Mate] = message_list[message_out_index]]
  /\ UNCHANGED << ring, heap, made, looks >>

\* player_mate_thread_cmd_proxy: peek and get under one lock, and only a
\* command the mate knows how to handle.
MateGet ==
  /\ stage = "playing"
  /\ message_num > 0
  /\ message_list[message_out_index] \in ProxyCmd
  /\ GetMessage(Mate)

\* message_free, by the thread that took the command.
Free(t) ==
  /\ held[t] # NULL
  /\ heap' = heap \ {held[t]}
  /\ held' = [held EXCEPT ![t] = NULL]
  /\ UNCHANGED << ring, made, looks >>
-----------------------------------------------------------------------------
(* The player thread.  It takes commands only after it has opened and      *)
(* parsed the file; with is_type_parser set it peeks once before that, and *)
(* gives up when the oldest command is a stop or an exit.                  *)

\* peek_message: the pointer stays in the ring, and is read after the unlock.
PeekMessage ==
  /\ stage = "parsing"
  /\ viewing' = [viewing EXCEPT ![Player] = IF message_num > 0
                                            THEN message_list[message_out_index]
                                            ELSE NULL]
  /\ stage' = "peeked"
  /\ UNCHANGED << ring, heap, made, held, overrun >>

\* A file that is opened without is_type_parser, or not opened at all.
SkipPeek ==
  /\ stage = "parsing"
  /\ stage' \in {"playing", "exited"}
  /\ UNCHANGED << ring, heap, made, held, viewing, overrun >>

\* player_thread reads the command it has peeked at: a stop or an exit ends it.
PeekRead ==
  /\ stage = "peeked"
  /\ stage' \in IF viewing[Player] = NULL THEN {"playing"} ELSE {"playing", "exited"}
  /\ viewing' = [viewing EXCEPT ![Player] = NULL]
  /\ overrun' = FALSE
  /\ UNCHANGED << ring, heap, made, held >>

\* check_flag and the other places that take a command while a file plays.
PlayerGet == stage = "playing" /\ GetMessage(Player)

\* The player thread has joined its mate and leaves.
PlayerExits ==
  /\ stage = "playing"
  /\ held[Player] = NULL /\ held[Mate] = NULL
  /\ stage' = "exited"
  /\ UNCHANGED << ring, heap, made, held, viewing, overrun >>

\* clear_all_message, which player_stop calls when the thread has ended: it
\* takes the commands one by one and frees each at once.
ClearMessage(t) ==
  /\ stage = "exited"
  /\ viewing[t] = NULL
  /\ GetMessage(t)

ClientStep(t) ==
  Alloc(t) \/ SendToFreeSlot(t) \/ SendOverOldest(t) \/ SendReturns(t)
           \/ ClearMessage(t) \/ Free(t)

PlayerStep == PeekMessage \/ SkipPeek \/ PeekRead \/ PlayerGet \/ Free(Player)

MateStep == MateGet \/ Free(Mate)

Next == (\E t \in Client : ClientStep(t)) \/ PlayerStep \/ PlayerExits \/ MateStep

Spec == Init /\ [][Next]_vars

\* The player thread comes to play, then keeps polling the ring (check_flag) and
\* frees what it takes; nothing is assumed of the clients, of the mate, or of when
\* a thread that plays leaves.
FairSpec == Spec /\ WF_vars(PlayerStep)
-----------------------------------------------------------------------------
TypeOK ==
  /\ message_list \in [Slot -> Cmd \cup {NULL}]
  /\ message_num \in 0 .. MESSAGE_MAX
  /\ message_in_index \in Slot
  /\ message_out_index \in Slot
  /\ heap \subseteq Cmd
  /\ made \in [Client -> Cmd \cup {NULL}]
  /\ held \in [Thread -> Cmd \cup {NULL}]
  /\ viewing \in [Viewer -> Cmd \cup {NULL}]
  /\ stage \in {"parsing", "peeked", "playing", "exited"}
  /\ overrun \in BOOLEAN

\* The slot and the pointer of the k-th queued command, the oldest being 0.
SlotOf(k) == (message_out_index + k) % MESSAGE_MAX
At(k)     == message_list[SlotOf(k)]

\* The commands in the ring, oldest first, and as a set.
Queued     == [k \in 1 .. message_num |-> At(k - 1)]
QueuedCmds == {At(k) : k \in 0 .. (message_num - 1)}

\* The indexes and the count, which two branches of send_message and
\* get_message change separately, always agree: a send writes just behind the
\* newest command, and over the oldest exactly when the ring is full.
RingShape == message_in_index = SlotOf(message_num)

\* No slot in use holds a freed block, and no block is in two slots, or in a
\* slot and in the hands of a thread, or in the hands of two threads: each
\* command is freed once, and never before the thread that took it has handled
\* it.  This says nothing of the pointers in "viewing", which are read without
\* the lock: a sender's is freed whenever the player takes and frees the command
\* before send_message has logged it, and PeekedIsOldest is about the player's.
Ownership ==
  /\ QueuedCmds \subseteq heap
  /\ \A j, k \in 0 .. (message_num - 1) :
       At(j) = At(k) => j = k
  /\ \A t \in Client : made[t] # NULL =>
       /\ made[t] \in heap \ QueuedCmds
       /\ \A u \in Client : made[u] = made[t] => u = t
       /\ \A u \in Thread : held[u] # made[t]
  /\ \A t \in Thread : held[t] # NULL =>
       /\ held[t] \in heap \ QueuedCmds
       /\ \A u \in Thread : held[u] = held[t] => u = t

\* The command player_thread has peeked at stays the oldest of the ring until it
\* is read, so that it decides on a command that nobody has handled or freed; only
\* a send that finds the ring full in between may take it away.
PeekedIsOldest ==
  viewing[Player] # NULL /\ ~ overrun =>
    /\ viewing[Player] \in heap
    /\ message_num > 0 /\ viewing[Player] = At(0)

\* No allocated command is lost: it is in the ring or in a thread's hands.
NoLeak ==
  heap \subseteq QueuedCmds \cup {made[t] : t \in Client}
                            \cup {held[t] : t \in Thread}

\* The ring is the queue it is meant to be: first in, first out, and a send
\* into a full ring costs the oldest command and no other.
Queue == INSTANCE CommandQueue WITH Command <- Cmd, Capacity <- MESSAGE_MAX,
                                    queue <- Queued
QueueSpec == Queue!Spec

\* A command leaves the ring unhandled only when a send finds it full, and it
\* is then the oldest: no other step frees a command that is queued.
DiscardsOnlyOldest ==
  [][\A c \in QueuedCmds : c \notin heap' =>
       message_num = MESSAGE_MAX /\ c = Queued[1]]_vars

\* A command sent is handled or discarded in the end, unless the player thread
\* leaves first.
EveryCommandLeaves ==
  \A c \in Cmd : c \in QueuedCmds ~> c \notin QueuedCmds \/ stage = "exited"
=============================================================================
