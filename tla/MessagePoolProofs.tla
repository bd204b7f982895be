-------------------------- MODULE MessagePoolProofs --------------------------
(***************************************************************************)
(* Proofs about the message pool, for any number of slots, blocks and      *)
(* clients: its type invariant, the ownership discipline, what the player  *)
(* thread's look at the oldest command may assume, and that the ring       *)
(* implements the bounded queue CommandQueue.                              *)
(***************************************************************************)
EXTENDS MessagePool, SequenceTheorems, TLAPS

USE PoolAssumption

-----------------------------------------------------------------------------
\* The arithmetic of the ring: slots are numbered from any start o.
LEMMA WrapAround ==
  ASSUME NEW o \in Slot, NEW k \in 0 .. MESSAGE_MAX
  PROVE  (o + k) % MESSAGE_MAX = IF o + k < MESSAGE_MAX THEN o + k
                                                      ELSE o + k - MESSAGE_MAX
  BY SMT DEF Slot

\* The instances of it the proofs below use.
LEMMA WrapInstances ==
  ASSUME NEW o \in Slot
  PROVE  /\ Succ(o) \in Slot
         /\ Succ(o) = IF o + 1 < MESSAGE_MAX THEN o + 1 ELSE 0
         /\ (o + 0) % MESSAGE_MAX = o
         /\ (o + MESSAGE_MAX) % MESSAGE_MAX = o
  <1>1. \A k \in {0, 1, MESSAGE_MAX} :
          (o + k) % MESSAGE_MAX = IF o + k < MESSAGE_MAX
                                  THEN o + k ELSE o + k - MESSAGE_MAX
    BY WrapAround, SMT
  <1>. QED  BY <1>1, SMT DEF Slot, Succ

\* Different positions are different slots, and every position has a slot.
LEMMA SlotsDiffer ==
  ASSUME message_out_index \in Slot,
         NEW j \in 0 .. MESSAGE_MAX, NEW k \in 0 .. MESSAGE_MAX
  PROVE  /\ SlotOf(j) \in Slot
         /\ j < k /\ k < MESSAGE_MAX => SlotOf(j) # SlotOf(k)
  <1>1. /\ SlotOf(j) = IF message_out_index + j < MESSAGE_MAX
                       THEN message_out_index + j
                       ELSE message_out_index + j - MESSAGE_MAX
        /\ SlotOf(k) = IF message_out_index + k < MESSAGE_MAX
                       THEN message_out_index + k
                       ELSE message_out_index + k - MESSAGE_MAX
    BY WrapAround DEF SlotOf
  <1>. QED  BY <1>1, SMT DEF Slot

\* Moving the out index by one renumbers the positions by one.
LEMMA OutIndexMoves ==
  ASSUME message_out_index \in Slot, message_out_index' = Succ(message_out_index),
         NEW k \in 0 .. (MESSAGE_MAX - 1)
  PROVE  /\ message_out_index' \in Slot
         /\ SlotOf(k)' = SlotOf(k + 1)
  <1>1. message_out_index' = IF message_out_index + 1 < MESSAGE_MAX
                             THEN message_out_index + 1
                             ELSE message_out_index + 1 - MESSAGE_MAX
    BY WrapAround DEF Succ
  <1>2. message_out_index' \in Slot
    BY <1>1, SMT DEF Slot
  <1>3. SlotOf(k)' = IF message_out_index' + k < MESSAGE_MAX
                     THEN message_out_index' + k
                     ELSE message_out_index' + k - MESSAGE_MAX
    BY <1>2, WrapAround DEF SlotOf
  <1>4. SlotOf(k + 1) = IF message_out_index + (k + 1) < MESSAGE_MAX
                        THEN message_out_index + (k + 1)
                        ELSE message_out_index + (k + 1) - MESSAGE_MAX
    BY WrapAround DEF SlotOf
  <1>. QED  BY <1>1, <1>2, <1>3, <1>4, SMT DEF Slot

-----------------------------------------------------------------------------
(* What each function does to the contents of the ring, by position.       *)

Shape == TypeOK /\ RingShape

\* send_message with a free slot puts the command behind the newest one.
LEMMA SendToFreeSlotContents ==
  ASSUME Shape, NEW t \in Client, SendToFreeSlot(t)
  PROVE  /\ message_num' = message_num + 1
         /\ \A k \in 0 .. message_num :
              At(k)' = IF k = message_num THEN made[t] ELSE At(k)
         /\ Shape'
  <1>. USE DEF Shape, SendToFreeSlot
  <1>1. /\ message_num \in Nat /\ message_num < MESSAGE_MAX
        /\ message_out_index \in Slot /\ message_in_index \in Slot
        /\ message_out_index' = message_out_index
    BY SMT DEF TypeOK, Slot
  <1>2. \A k : SlotOf(k)' = SlotOf(k)
    BY <1>1 DEF SlotOf
  <1>3. ASSUME NEW k \in 0 .. message_num
        PROVE  At(k)' = IF k = message_num THEN made[t] ELSE At(k)
    <2>1. CASE k = message_num
      BY <1>1, <1>2, <2>1 DEF At, TypeOK, RingShape
    <2>2. CASE k # message_num
      <3>1. SlotOf(k) \in Slot /\ SlotOf(k) # message_in_index
        BY <1>1, <2>2, SlotsDiffer, SMT DEF RingShape
      <3>. QED  BY <1>2, <2>2, <3>1 DEF At, TypeOK
    <2>. QED  BY <2>1, <2>2
  <1>5. message_in_index' \in Slot
    BY <1>1, WrapInstances
  <1>6. TypeOK'
    BY <1>1, <1>5, SMT DEF TypeOK, Thread, Viewer
  <1>7. RingShape'
    <2>. message_num \in 0 .. MESSAGE_MAX
      BY <1>1, SMT
    <2>1. message_in_index = IF message_out_index + message_num < MESSAGE_MAX
                             THEN message_out_index + message_num
                             ELSE message_out_index + message_num - MESSAGE_MAX
      BY <1>1, WrapAround DEF RingShape, SlotOf
    <2>2. message_in_index' = IF message_in_index + 1 < MESSAGE_MAX
                              THEN message_in_index + 1
                              ELSE message_in_index + 1 - MESSAGE_MAX
      BY <1>1, WrapAround, SMT DEF Succ
    <2>3. (message_out_index + (message_num + 1)) % MESSAGE_MAX
            = IF message_out_index + (message_num + 1) < MESSAGE_MAX
              THEN message_out_index + (message_num + 1)
              ELSE message_out_index + (message_num + 1) - MESSAGE_MAX
      BY <1>1, WrapAround, SMT
    <2>. QED  BY <1>1, <2>1, <2>2, <2>3, SMT DEF RingShape, Slot, SlotOf
  <1>. QED  BY <1>1, <1>3, <1>6, <1>7

\* send_message with no free slot frees the oldest command, at position 0,
\* and the new one becomes the last.
LEMMA SendOverOldestContents ==
  ASSUME Shape, NEW t \in Client, SendOverOldest(t)
  PROVE  /\ message_num = MESSAGE_MAX /\ message_num' = message_num
         /\ message_list[message_in_index] = At(0)
         /\ \A k \in 0 .. (message_num - 1) :
              At(k)' = IF k = message_num - 1 THEN made[t] ELSE At(k + 1)
         /\ Shape'
  <1>. USE DEF Shape, SendOverOldest
  <1>1. /\ message_num \in Nat /\ message_num = MESSAGE_MAX
        /\ message_out_index \in Slot /\ message_in_index \in Slot
    BY SMT DEF TypeOK
  <1>2. message_in_index = message_out_index /\ SlotOf(0) = message_out_index
    BY <1>1, WrapInstances DEF RingShape, SlotOf
  <1>3. \A k \in 0 .. (message_num - 1) : SlotOf(k)' = SlotOf(k + 1)
    BY <1>1, OutIndexMoves
  <1>4. ASSUME NEW k \in 0 .. (message_num - 1)
        PROVE  At(k)' = IF k = message_num - 1 THEN made[t] ELSE At(k + 1)
    <2>1. CASE k = message_num - 1
      <3>1. SlotOf(k)' = message_in_index
        BY <1>1, <1>3, <2>1, SMT DEF RingShape
      <3>. QED  BY <1>1, <2>1, <3>1 DEF At, TypeOK
    <2>2. CASE k # message_num - 1
      <3>1. SlotOf(k + 1) \in Slot /\ SlotOf(k + 1) # message_in_index
        BY <1>1, <1>2, <2>2, SlotsDiffer, SMT
      <3>. QED  BY <1>3, <2>2, <3>1 DEF At, TypeOK
    <2>. QED  BY <2>1, <2>2
  <1>6. message_in_index' \in Slot /\ message_out_index' \in Slot
    BY <1>1, WrapInstances
  <1>7. TypeOK'
    BY <1>1, <1>6, SMT DEF TypeOK, Thread, Viewer
  <1>8. RingShape'
    <2>1. message_in_index' = message_out_index'
      BY <1>2
    <2>2. (message_out_index' + message_num) % MESSAGE_MAX = message_out_index'
      BY <1>1, <1>6, WrapInstances
    <2>. QED  BY <1>1, <2>1, <2>2 DEF RingShape, SlotOf
  <1>. QED  BY <1>1, <1>2, <1>4, <1>7, <1>8 DEF At

\* get_message hands out position 0 and the others move up.
LEMMA GetMessageContents ==
  ASSUME Shape, NEW t \in Thread, GetMessage(t)
  PROVE  /\ message_num > 0 /\ message_num' = message_num - 1
         /\ held' = [held EXCEPT ![t] = At(0)]
         /\ \A k \in 0 .. (message_num - 2) : At(k)' = At(k + 1)
         /\ At(0) \in Cmd \cup {NULL}
         /\ Shape'
  <1>. USE DEF Shape, GetMessage
  <1>1. /\ message_num \in Nat /\ message_num <= MESSAGE_MAX /\ message_num > 0
        /\ message_out_index \in Slot /\ message_in_index \in Slot
        /\ message_list' = message_list
    BY SMT DEF TypeOK
  <1>2. SlotOf(0) = message_out_index
    BY <1>1, WrapInstances DEF SlotOf
  <1>3. \A k \in 0 .. (message_num - 1) : SlotOf(k)' = SlotOf(k + 1)
    BY <1>1, OutIndexMoves, SMT
  <1>4. \A k \in 0 .. (message_num - 2) : At(k)' = At(k + 1)
    BY <1>1, <1>3, SMT DEF At
  <1>5. message_out_index' \in Slot
    BY <1>1, WrapInstances
  <1>6. At(0) \in Cmd \cup {NULL}
    BY <1>1, <1>2 DEF At, TypeOK
  <1>7. TypeOK'
    BY <1>1, <1>2, <1>5, <1>6, SMT DEF TypeOK, At, looks
  <1>8. RingShape'
    <2>1. (message_out_index' + (message_num - 1)) % MESSAGE_MAX
            = (message_out_index + message_num) % MESSAGE_MAX
      <3>1. PICK k \in 0 .. (message_num - 1) : k = message_num - 1
        BY <1>1, SMT
      <3>2. SlotOf(k)' = SlotOf(k + 1)
        BY <1>3
      <3>. QED  BY <1>1, <3>1, <3>2, SMT DEF SlotOf
    <2>. QED  BY <2>1 DEF RingShape, SlotOf
  <1>. QED  BY <1>1, <1>2, <1>4, <1>6, <1>7, <1>8 DEF At

-----------------------------------------------------------------------------
(* Ownership.  IInv is inductive: to know that a send frees nobody's        *)
(* command one needs that the ring is exactly the positions 0 .. num - 1.  *)

IInv == Shape /\ Ownership /\ NoLeak

Distinct == \A j, k \in 0 .. (message_num - 1) : At(j) = At(k) => j = k

\* The commands in the ring after a send into a free slot.
LEMMA SendToFreeSlotSet ==
  ASSUME Shape, Distinct, NEW t \in Client, SendToFreeSlot(t),
         made[t] \notin QueuedCmds
  PROVE  QueuedCmds' = QueuedCmds \cup {made[t]} /\ Distinct'
  <1>1. /\ message_num \in Nat /\ message_num' = message_num + 1
        /\ \A k \in 0 .. message_num :
              At(k)' = IF k = message_num THEN made[t] ELSE At(k)
    BY SendToFreeSlotContents, SMT DEF Shape, TypeOK
  <1>2. QueuedCmds' = {IF k = message_num THEN made[t] ELSE At(k) :
                          k \in 0 .. message_num}
    BY <1>1, SMT DEF QueuedCmds
  <1>3. QueuedCmds' = QueuedCmds \cup {made[t]}
    BY <1>1, <1>2, SMT DEF QueuedCmds
  <1>4. ASSUME NEW j \in 0 .. message_num, NEW k \in 0 .. message_num,
               At(j)' = At(k)'
        PROVE  j = k
    <2>1. \A i \in 0 .. (message_num - 1) : At(i) # made[t]
      BY DEF QueuedCmds
    <2>. QED  BY <1>1, <1>4, <2>1, SMT DEF Distinct
  <1>. QED  BY <1>1, <1>3, <1>4, SMT DEF Distinct

\* The commands in the ring after a send over the oldest one.
LEMMA SendOverOldestSet ==
  ASSUME Shape, Distinct, NEW t \in Client, SendOverOldest(t),
         made[t] \notin QueuedCmds
  PROVE  /\ QueuedCmds' = (QueuedCmds \ {At(0)}) \cup {made[t]}
         /\ heap' = heap \ {At(0)} /\ At(0) \in QueuedCmds
         /\ Distinct'
  <1>1. /\ message_num \in Nat /\ message_num > 0 /\ message_num' = message_num
        /\ message_list[message_in_index] = At(0)
        /\ \A k \in 0 .. (message_num - 1) :
              At(k)' = IF k = message_num - 1 THEN made[t] ELSE At(k + 1)
    BY SendOverOldestContents, SMT DEF Shape, TypeOK
  <1>2. QueuedCmds' = {IF k = message_num - 1 THEN made[t] ELSE At(k + 1) :
                          k \in 0 .. (message_num - 1)}
    BY <1>1, SMT DEF QueuedCmds
  <1>3. At(0) \in QueuedCmds
    BY <1>1, SMT DEF QueuedCmds
  <1>4. {At(k) : k \in 1 .. (message_num - 1)} = QueuedCmds \ {At(0)}
    BY <1>1, SMT DEF QueuedCmds, Distinct
  <1>5. {At(k + 1) : k \in 0 .. (message_num - 2)}
          = {At(k) : k \in 1 .. (message_num - 1)}
    <2>1. \A k \in 0 .. (message_num - 2) : k + 1 \in 1 .. (message_num - 1)
      BY <1>1, SMT
    <2>2. \A k \in 1 .. (message_num - 1) :
            k - 1 \in 0 .. (message_num - 2) /\ (k - 1) + 1 = k
      BY <1>1, SMT
    <2>. QED  BY <2>1, <2>2
  <1>6. QueuedCmds' = {At(k + 1) : k \in 0 .. (message_num - 2)} \cup {made[t]}
    BY <1>1, <1>2, SMT
  <1>7. ASSUME NEW j \in 0 .. (message_num - 1), NEW k \in 0 .. (message_num - 1),
               At(j)' = At(k)'
        PROVE  j = k
    <2>1. \A i \in 0 .. (message_num - 1) : At(i) # made[t]
      BY DEF QueuedCmds
    <2>. QED  BY <1>1, <1>7, <2>1, SMT DEF Distinct
  <1>. QED  BY <1>1, <1>3, <1>4, <1>5, <1>6, <1>7 DEF Distinct, SendOverOldest

\* The commands in the ring after a get.
LEMMA GetMessageSet ==
  ASSUME Shape, Distinct, NEW t \in Thread, GetMessage(t)
  PROVE  /\ QueuedCmds' = QueuedCmds \ {At(0)}
         /\ At(0) \in QueuedCmds
         /\ Distinct'
  <1>1. /\ message_num \in Nat /\ message_num > 0 /\ message_num' = message_num - 1
        /\ \A k \in 0 .. (message_num - 2) : At(k)' = At(k + 1)
    BY GetMessageContents, SMT DEF Shape, TypeOK
  <1>2. QueuedCmds' = {At(k + 1) : k \in 0 .. (message_num - 2)}
    BY <1>1, SMT DEF QueuedCmds
  <1>3. At(0) \in QueuedCmds
    BY <1>1, SMT DEF QueuedCmds
  <1>4. {At(k) : k \in 1 .. (message_num - 1)} = QueuedCmds \ {At(0)}
    BY <1>1, SMT DEF QueuedCmds, Distinct
  <1>5. {At(k + 1) : k \in 0 .. (message_num - 2)}
          = {At(k) : k \in 1 .. (message_num - 1)}
    <2>1. \A k \in 0 .. (message_num - 2) : k + 1 \in 1 .. (message_num - 1)
      BY <1>1, SMT
    <2>2. \A k \in 1 .. (message_num - 1) :
            k - 1 \in 0 .. (message_num - 2) /\ (k - 1) + 1 = k
      BY <1>1, SMT
    <2>. QED  BY <2>1, <2>2
  <1>6. ASSUME NEW j \in 0 .. (message_num - 2), NEW k \in 0 .. (message_num - 2),
               At(j)' = At(k)'
        PROVE  j = k
    BY <1>1, <1>6, SMT DEF Distinct
  <1>7. Distinct'
    BY <1>1, <1>6, SMT DEF Distinct
  <1>. QED  BY <1>1, <1>2, <1>3, <1>4, <1>5, <1>7

\* Initially the ring and all hands are empty.
LEMMA InitInv == ASSUME Init PROVE IInv
  <1>1. message_num = 0 /\ heap = {} /\ QueuedCmds = {}
    BY SMT DEF Init, QueuedCmds
  <1>2. TypeOK
    <2>1. message_num \in 0 .. MESSAGE_MAX /\ message_in_index \in Slot
          /\ message_out_index \in Slot
      BY SMT DEF Init, Slot
    <2>. QED  BY <2>1 DEF Init, TypeOK, Viewer
  <1>3. RingShape
    BY WrapInstances, SMT DEF Init, RingShape, SlotOf, Slot
  <1>4. Ownership /\ NoLeak
    BY <1>1, SMT DEF Init, Ownership, NoLeak
  <1>. QED  BY <1>1, <1>2, <1>3, <1>4 DEF IInv, Shape

\* A step that leaves the ring alone leaves its contents alone.
LEMMA RingUnchanged ==
  ASSUME UNCHANGED ring
  PROVE  /\ QueuedCmds' = QueuedCmds
         /\ \A k : At(k)' = At(k)
         /\ RingShape => RingShape'
         /\ Distinct => Distinct'
  <1>1. \A k : At(k)' = At(k) /\ SlotOf(k)' = SlotOf(k)
    BY DEF ring, At, SlotOf
  <1>. QED  BY <1>1 DEF ring, QueuedCmds, RingShape, Distinct, SlotOf

\* The steps of Next, one by one.
LEMMA AllocInv == ASSUME IInv, NEW t \in Client, Alloc(t) PROVE IInv'
  <1>1. PICK c \in Cmd \ heap : /\ heap' = heap \cup {c}
                                /\ made' = [made EXCEPT ![t] = c]
    BY DEF Alloc
  <1>2. QueuedCmds' = QueuedCmds /\ RingShape' /\ \A k : At(k)' = At(k)
    BY RingUnchanged DEF Alloc, IInv, Shape
  <1>3. TypeOK'
    BY <1>1, SMT DEF Alloc, IInv, Shape, TypeOK, ring, looks
  <1>4. Ownership'
    BY <1>1, <1>2 DEF Alloc, IInv, Shape, Ownership, TypeOK, ring
  <1>5. NoLeak'
    BY <1>1, <1>2 DEF Alloc, IInv, Shape, NoLeak, TypeOK
  <1>. QED  BY <1>1, <1>2, <1>3, <1>4, <1>5 DEF IInv, Shape

LEMMA SendToFreeSlotInv ==
  ASSUME IInv, NEW t \in Client, SendToFreeSlot(t) PROVE IInv'
  <1>1. Shape' /\ QueuedCmds' = QueuedCmds \cup {made[t]} /\ Distinct'
    BY SendToFreeSlotContents, SendToFreeSlotSet
       DEF IInv, Ownership, Distinct, SendToFreeSlot
  <1>2. /\ made' = [made EXCEPT ![t] = NULL] /\ heap' = heap /\ held' = held
        /\ made[t] # NULL
    BY DEF SendToFreeSlot
  <1>3. Ownership'
    BY <1>1, <1>2 DEF IInv, Shape, Ownership, Distinct, TypeOK
  <1>4. NoLeak'
    BY <1>1, <1>2 DEF IInv, Shape, NoLeak, TypeOK
  <1>. QED  BY <1>1, <1>3, <1>4 DEF IInv

LEMMA SendOverOldestInv ==
  ASSUME IInv, NEW t \in Client, SendOverOldest(t) PROVE IInv'
  <1>1. /\ Shape' /\ Distinct' /\ At(0) \in QueuedCmds
        /\ QueuedCmds' = (QueuedCmds \ {At(0)}) \cup {made[t]}
        /\ heap' = heap \ {At(0)}
    BY SendOverOldestContents, SendOverOldestSet
       DEF IInv, Ownership, Distinct, SendOverOldest
  <1>2. /\ made' = [made EXCEPT ![t] = NULL] /\ held' = held
        /\ made[t] # NULL
    BY DEF SendOverOldest
  <1>. USE DEF IInv, Shape, Ownership, TypeOK
  <1>3. ASSUME NEW u \in Thread, held'[u] # NULL
        PROVE  /\ held'[u] \in heap' \ QueuedCmds'
               /\ \A v \in Thread : held'[v] = held'[u] => v = u
    BY <1>1, <1>2, <1>3
  <1>4. ASSUME NEW u \in Client, made'[u] # NULL
        PROVE  /\ made'[u] \in heap' \ QueuedCmds'
               /\ \A v \in Client : made'[v] = made'[u] => v = u
               /\ \A v \in Thread : held'[v] # made'[u]
    BY <1>1, <1>2, <1>4
  <1>5. QueuedCmds' \subseteq heap'
    BY <1>1, <1>2
  <1>6. Ownership'
    BY <1>1, <1>3, <1>4, <1>5 DEF Distinct
  <1>7. NoLeak'
    BY <1>1, <1>2 DEF NoLeak
  <1>. QED  BY <1>1, <1>6, <1>7 DEF IInv

LEMMA GetMessageInv == ASSUME IInv, NEW t \in Thread, GetMessage(t) PROVE IInv'
  <1>1. /\ Shape' /\ Distinct' /\ At(0) \in QueuedCmds
        /\ QueuedCmds' = QueuedCmds \ {At(0)}
        /\ held' = [held EXCEPT ![t] = At(0)]
    BY GetMessageContents, GetMessageSet DEF IInv, Ownership, Distinct
  <1>2. heap' = heap /\ made' = made /\ held[t] = NULL
    BY DEF GetMessage
  <1>. USE DEF IInv, Shape, Ownership, TypeOK
  <1>3. ASSUME NEW u \in Thread, held'[u] # NULL
        PROVE  /\ held'[u] \in heap' \ QueuedCmds'
               /\ \A v \in Thread : held'[v] = held'[u] => v = u
               /\ \A v \in Client : made'[v] # held'[u]
    BY <1>1, <1>2, <1>3
  <1>4. ASSUME NEW u \in Client, made'[u] # NULL
        PROVE  /\ made'[u] \in heap' \ QueuedCmds'
               /\ \A v \in Client : made'[v] = made'[u] => v = u
               /\ \A v \in Thread : held'[v] # made'[u]
    BY <1>1, <1>2, <1>4
  <1>5. Ownership'
    BY <1>1, <1>2, <1>3, <1>4 DEF Distinct
  <1>6. NoLeak'
    BY <1>1, <1>2 DEF NoLeak
  <1>. QED  BY <1>1, <1>5, <1>6 DEF IInv

LEMMA FreeInv == ASSUME IInv, NEW t \in Thread, Free(t) PROVE IInv'
  <1>1. QueuedCmds' = QueuedCmds /\ RingShape' /\ \A k : At(k)' = At(k)
    BY RingUnchanged DEF Free, IInv, Shape
  <1>2. /\ heap' = heap \ {held[t]} /\ held' = [held EXCEPT ![t] = NULL]
        /\ made' = made /\ held[t] # NULL /\ message_num' = message_num
    BY DEF Free, ring
  <1>3. TypeOK'
    BY <1>2 DEF Free, IInv, Shape, TypeOK, ring, looks
  <1>4. Ownership'
    BY <1>1, <1>2 DEF IInv, Shape, Ownership, TypeOK
  <1>5. NoLeak'
    BY <1>1, <1>2 DEF IInv, Shape, NoLeak, TypeOK
  <1>. QED  BY <1>1, <1>3, <1>4, <1>5 DEF IInv, Shape

\* A step in which a thread only looks at a command, or the player thread goes on.
OnlyLooks ==
  /\ UNCHANGED << ring, heap, made, held >>
  /\ viewing' \in [Viewer -> Cmd \cup {NULL}]
  /\ stage' \in {"parsing", "peeked", "playing", "exited"}
  /\ overrun' \in BOOLEAN

LEMMA OnlyLooksInv == ASSUME IInv, OnlyLooks PROVE IInv'
  <1>1. QueuedCmds' = QueuedCmds /\ RingShape' /\ \A k : At(k)' = At(k)
    BY RingUnchanged DEF OnlyLooks, IInv, Shape
  <1>2. TypeOK'
    BY DEF OnlyLooks, ring, IInv, Shape, TypeOK
  <1>3. Ownership' /\ NoLeak'
    BY <1>1 DEF OnlyLooks, ring, IInv, Ownership, NoLeak
  <1>. QED  BY <1>1, <1>2, <1>3 DEF IInv, Shape

LEMMA LookingSteps ==
  ASSUME IInv
  PROVE  /\ \A t \in Client : SendReturns(t) => OnlyLooks
         /\ PeekMessage \/ SkipPeek \/ PeekRead \/ PlayerExits => OnlyLooks
  <1>1. /\ viewing \in [Viewer -> Cmd \cup {NULL}] /\ overrun \in BOOLEAN
        /\ stage \in {"parsing", "peeked", "playing", "exited"}
        /\ Player \in Viewer /\ \A t \in Client : t \in Viewer
    BY DEF IInv, Shape, TypeOK, Viewer
  <1>2. \A t \in Client : SendReturns(t) => OnlyLooks
    BY <1>1 DEF SendReturns, OnlyLooks
  <1>3. PeekMessage => OnlyLooks
    <2>1. message_list[message_out_index] \in Cmd \cup {NULL}
      BY DEF IInv, Shape, TypeOK
    <2>. QED  BY <1>1, <2>1 DEF PeekMessage, OnlyLooks
  <1>4. SkipPeek \/ PlayerExits => OnlyLooks
    BY <1>1 DEF SkipPeek, PlayerExits, OnlyLooks
  <1>5. PeekRead => OnlyLooks
    BY <1>1 DEF PeekRead, OnlyLooks
  <1>. QED  BY <1>2, <1>3, <1>4, <1>5

LEMMA StepInv == ASSUME IInv, [Next]_vars PROVE IInv'
  <1>1. ASSUME NEW t \in Client, ClientStep(t) PROVE IInv'
    BY <1>1, AllocInv, SendToFreeSlotInv, SendOverOldestInv, GetMessageInv, FreeInv,
       LookingSteps, OnlyLooksInv
       DEF ClientStep, ClearMessage, Thread
  <1>2. CASE PlayerStep \/ PlayerExits
    BY <1>2, GetMessageInv, FreeInv, LookingSteps, OnlyLooksInv
       DEF PlayerStep, PlayerGet, Thread
  <1>3. CASE MateStep
    BY <1>3, GetMessageInv, FreeInv DEF MateStep, MateGet, Thread
  <1>4. CASE UNCHANGED vars
    <2>1. QueuedCmds' = QueuedCmds /\ RingShape' /\ \A k : At(k)' = At(k)
      BY <1>4, RingUnchanged DEF vars, IInv, Shape
    <2>2. TypeOK'
      BY <1>4 DEF vars, ring, looks, IInv, Shape, TypeOK
    <2>3. Ownership' /\ NoLeak'
      BY <1>4, <2>1 DEF vars, ring, IInv, Ownership, NoLeak
    <2>. QED  BY <2>1, <2>2, <2>3 DEF IInv, Shape
  <1>. QED  BY <1>1, <1>2, <1>3, <1>4 DEF Next

\* The inductive invariant holds in every reachable state of the message pool.
THEOREM Invariance == Spec => []IInv
  BY InitInv, StepInv, PTL DEF Spec

\* message.c: the count and the indexes stay in the array, whatever is sent
\* and taken, and every pointer is a command or NULL.
THEOREM TypeCorrect == Spec => []TypeOK
  <1>1. IInv => TypeOK  BY DEF IInv, Shape
  <1>. QED  BY <1>1, Invariance, PTL

\* message.c, send_message and get_message: a command is in one slot of the ring
\* or in one thread's hands, so that whoever takes it is the only one to handle
\* and to free it.  The pointers that are read after the unlock are left out.
THEOREM OwnershipCorrect == Spec => []Ownership
  <1>1. IInv => Ownership  BY DEF IInv
  <1>. QED  BY <1>1, Invariance, PTL

\* While player_thread has a command to read that it peeked at, nobody but a send
\* over a full ring can have taken it out of the ring: the other threads that
\* take commands, the mate and a client that clears the pool, come later.
Looking ==
  viewing[Player] # NULL =>
    /\ stage = "peeked"
    /\ overrun \/ (message_num > 0 /\ viewing[Player] = At(0))

LEMMA LookingInit == ASSUME Init PROVE Looking
  BY DEF Init, Looking, Viewer

LEMMA LookingStep == ASSUME IInv, Looking, [Next]_vars PROVE Looking'
  <1>0. /\ message_num \in Nat /\ Player \in Viewer
        /\ viewing \in [Viewer -> Cmd \cup {NULL}]
        /\ At(0) = message_list[message_out_index]
    BY WrapInstances, SMT DEF IInv, Shape, TypeOK, Viewer, At, SlotOf
  <1>1. ASSUME UNCHANGED << ring, looks >> PROVE Looking'
    BY <1>1, RingUnchanged DEF Looking, ring, looks
  <1>2. ASSUME NEW t \in Thread, GetMessage(t), stage # "peeked" PROVE Looking'
    BY <1>2 DEF GetMessage, looks, Looking
  <1>3. ASSUME NEW t \in Client, SendToFreeSlot(t) PROVE Looking'
    <2>1. /\ viewing'[Player] = viewing[Player] /\ stage' = stage /\ overrun' = overrun
      BY <1>0, <1>3 DEF SendToFreeSlot
    <2>2. /\ message_num' = message_num + 1
          /\ \A k \in 0 .. message_num :
                At(k)' = IF k = message_num THEN made[t] ELSE At(k)
      BY <1>3, SendToFreeSlotContents DEF IInv
    <2>3. message_num > 0 => message_num' > 0 /\ At(0)' = At(0)
      BY <1>0, <2>2, SMT
    <2>. QED  BY <2>1, <2>3 DEF Looking
  <1>4. ASSUME NEW t \in Client, SendOverOldest(t) PROVE Looking'
    <2>1. /\ viewing'[Player] = viewing[Player] /\ stage' = stage
          /\ overrun' = (stage = "peeked")
      BY <1>0, <1>4 DEF SendOverOldest
    <2>. QED  BY <2>1 DEF Looking
  <1>5. ASSUME NEW t \in Client, SendReturns(t) PROVE Looking'
    <2>1. viewing'[Player] = viewing[Player] /\ UNCHANGED << ring, stage, overrun >>
      BY <1>0, <1>5 DEF SendReturns
    <2>. QED  BY <2>1, RingUnchanged DEF Looking, ring
  <1>6. ASSUME PeekMessage PROVE Looking'
    <2>1. /\ viewing'[Player] = IF message_num > 0 THEN At(0) ELSE NULL
          /\ stage' = "peeked" /\ UNCHANGED ring
      BY <1>0, <1>6 DEF PeekMessage
    <2>. QED  BY <2>1, RingUnchanged DEF Looking, ring
  <1>7. ASSUME PeekRead PROVE Looking'
    BY <1>0, <1>7 DEF PeekRead, Looking
  <1>8. ASSUME SkipPeek \/ PlayerExits PROVE Looking'
    BY <1>8 DEF SkipPeek, PlayerExits, Looking
  <1>9. ASSUME NEW t \in Client, ClientStep(t) PROVE Looking'
    BY <1>1, <1>2, <1>3, <1>4, <1>5, <1>9
       DEF ClientStep, ClearMessage, Alloc, Free, Thread
  <1>10. ASSUME PlayerStep \/ PlayerExits \/ MateStep PROVE Looking'
    BY <1>1, <1>2, <1>6, <1>7, <1>8, <1>10
       DEF PlayerStep, PlayerGet, MateStep, MateGet, Free, Thread
  <1>11. CASE UNCHANGED vars
    BY <1>1, <1>11 DEF vars
  <1>. QED  BY <1>9, <1>10, <1>11 DEF Next

\* player.c, player_thread: the command it peeks at before it plays is still in
\* the ring, and its oldest, when it is read, unless a send found the ring full
\* and freed it; no other thread takes commands at that time.
THEOREM PeekCorrect == Spec => []PeekedIsOldest
  <1>1. IInv /\ Looking => PeekedIsOldest
    <2>. SUFFICES ASSUME IInv, Looking, viewing[Player] # NULL, ~ overrun
                  PROVE  /\ viewing[Player] \in heap
                         /\ message_num > 0 /\ viewing[Player] = At(0)
      BY DEF PeekedIsOldest
    <2>1. message_num > 0 /\ viewing[Player] = At(0)
      BY DEF Looking
    <2>2. At(0) \in QueuedCmds
      BY <2>1, SMT DEF QueuedCmds, IInv, Shape, TypeOK
    <2>. QED  BY <2>1, <2>2 DEF IInv, Ownership
  <1>2. Init => Looking
    BY LookingInit
  <1>3. IInv /\ Looking /\ [Next]_vars => Looking'
    BY LookingStep
  <1>. QED  BY <1>1, <1>2, <1>3, Invariance, PTL DEF Spec

\* message.c, message_alloc to message_free: a command that was allocated is in
\* the ring or in the hands of a thread, until it is freed.
THEOREM NoLeakCorrect == Spec => []NoLeak
  <1>1. IInv => NoLeak  BY DEF IInv
  <1>. QED  BY <1>1, Invariance, PTL

\* message.c, send_message: the out index, the in index and the count agree.
THEOREM RingShapeCorrect == Spec => []RingShape
  <1>1. IInv => RingShape  BY DEF IInv, Shape
  <1>. QED  BY <1>1, Invariance, PTL

-----------------------------------------------------------------------------
(* The ring implements CommandQueue.                                       *)

\* Append and Tail on sequences given as functions.
LEMMA AppendForm ==
  ASSUME NEW n \in Nat, NEW f \in [1 .. n -> Cmd], NEW c \in Cmd,
         NEW g \in [1 .. (n + 1) -> Cmd],
         \A i \in 1 .. (n + 1) : g[i] = IF i = n + 1 THEN c ELSE f[i]
  PROVE  g = Append(f, c)
  <1>1. f \in Seq(Cmd) /\ g \in Seq(Cmd) /\ Len(f) = n /\ Len(g) = n + 1
    BY SeqDef, LenProperties, SMT
  <1>2. \A i \in 1 .. Len(g) : g[i] = Append(f, c)[i]
    BY <1>1, AppendProperties, SMT
  <1>. QED  BY <1>1, <1>2, AppendProperties, SeqEqual, SMT

LEMMA TailForm ==
  ASSUME NEW n \in Nat, n > 0, NEW f \in [1 .. n -> Cmd],
         NEW g \in [1 .. (n - 1) -> Cmd],
         \A i \in 1 .. (n - 1) : g[i] = f[i + 1]
  PROVE  f # << >> /\ g = Tail(f)
  <1>1. f \in Seq(Cmd) /\ g \in Seq(Cmd) /\ Len(f) = n /\ Len(g) = n - 1
    BY SeqDef, LenProperties, SMT
  <1>2. f # << >>
    BY <1>1, EmptySeq, SMT
  <1>3. \A i \in 1 .. Len(g) : g[i] = Tail(f)[i]
    BY <1>1, <1>2, HeadTailProperties, SMT
  <1>. QED  BY <1>1, <1>2, <1>3, HeadTailProperties, SeqEqual, SMT

\* The refinement mapping yields a sequence of commands.
LEMMA QueuedType ==
  IInv => Queued \in [1 .. message_num -> Cmd] /\ message_num \in Nat
  <1>. SUFFICES ASSUME IInv
                PROVE  Queued \in [1 .. message_num -> Cmd] /\ message_num \in Nat
    OBVIOUS
  <1>1. message_num \in Nat /\ heap \subseteq Cmd
    BY SMT DEF IInv, Shape, TypeOK
  <1>2. \A i \in 1 .. message_num : At(i - 1) \in Cmd
    BY <1>1, SMT DEF IInv, Ownership, QueuedCmds
  <1>. QED  BY <1>1, <1>2 DEF Queued

LEMMA QueuedTypeNext ==
  IInv' => Queued' \in [1 .. message_num' -> Cmd]
  <1>. SUFFICES ASSUME IInv' PROVE Queued' \in [1 .. message_num' -> Cmd]
    OBVIOUS
  <1>1. message_num' \in Nat /\ heap' \subseteq Cmd
    BY SMT DEF IInv, Shape, TypeOK
  <1>2. \A k \in 0 .. (message_num' - 1) : At(k)' \in Cmd
    BY <1>1 DEF IInv, Ownership, QueuedCmds
  <1>3. \A n \in Nat : \A i \in 1 .. n : i - 1 \in 0 .. (n - 1)
    BY SMT
  <1>4. Queued' = [i \in 1 .. message_num' |-> At(i - 1)']
    BY DEF Queued
  <1>. QED  BY <1>1, <1>2, <1>3, <1>4

LEMMA SendToFreeSlotIsPut ==
  ASSUME IInv, NEW t \in Client, SendToFreeSlot(t) PROVE Queue!Put(made[t])
  <1>1. /\ message_num' = message_num + 1 /\ message_num < MESSAGE_MAX
        /\ \A k \in 0 .. message_num :
              At(k)' = IF k = message_num THEN made[t] ELSE At(k)
    BY SendToFreeSlotContents DEF IInv, SendToFreeSlot
  <1>2. made[t] \in Cmd
    BY DEF IInv, Shape, TypeOK, SendToFreeSlot
  <1>3. Queued \in [1 .. message_num -> Cmd] /\ message_num \in Nat
    BY QueuedType
  <1>4. Queued' \in [1 .. (message_num + 1) -> Cmd]
    BY <1>1, SendToFreeSlotInv, QueuedTypeNext
  <1>5. \A i \in 1 .. (message_num + 1) :
          Queued'[i] = IF i = message_num + 1 THEN made[t] ELSE Queued[i]
    <2>. SUFFICES ASSUME NEW i \in 1 .. (message_num + 1)
                  PROVE  Queued'[i] = IF i = message_num + 1 THEN made[t]
                                                             ELSE Queued[i]
      OBVIOUS
    <2>1. PICK k \in 0 .. message_num : k = i - 1
      BY <1>3, SMT
    <2>2. Queued'[i] = At(k)'
      BY <1>1, <1>3, <2>1, SMT DEF Queued, At, SlotOf
    <2>3. i # message_num + 1 => Queued[i] = At(k)
      BY <1>3, <2>1, SMT DEF Queued
    <2>. QED  BY <1>1, <1>3, <2>1, <2>2, <2>3, SMT
  <1>6. Queued' = Append(Queued, made[t])
    BY <1>2, <1>3, <1>4, <1>5, AppendForm
  <1>7. Len(Queued) = message_num
    BY <1>3, SMT
  <1>. QED  BY <1>1, <1>6, <1>7 DEF Queue!Put

LEMMA GetMessageIsTake ==
  ASSUME IInv, NEW t \in Thread, GetMessage(t) PROVE Queue!Take
  <1>1. /\ message_num > 0 /\ message_num' = message_num - 1
        /\ \A k \in 0 .. (message_num - 2) : At(k)' = At(k + 1)
    BY GetMessageContents DEF IInv
  <1>2. Queued \in [1 .. message_num -> Cmd] /\ message_num \in Nat
    BY QueuedType
  <1>3. Queued' \in [1 .. (message_num - 1) -> Cmd]
    BY <1>1, GetMessageInv, QueuedTypeNext
  <1>4. \A i \in 1 .. (message_num - 1) : Queued'[i] = Queued[i + 1]
    <2>. SUFFICES ASSUME NEW i \in 1 .. (message_num - 1)
                  PROVE  Queued'[i] = Queued[i + 1]
      OBVIOUS
    <2>1. PICK k \in 0 .. (message_num - 2) : k = i - 1
      BY <1>2, SMT
    <2>2. Queued'[i] = At(k)'
      BY <1>1, <1>2, <2>1, SMT DEF Queued, At, SlotOf
    <2>3. Queued[i + 1] = At(k + 1)
      BY <1>2, <2>1, SMT DEF Queued
    <2>. QED  BY <1>1, <2>2, <2>3
  <1>. QED  BY <1>1, <1>2, <1>3, <1>4, TailForm DEF Queue!Take

LEMMA SendOverOldestIsPut ==
  ASSUME IInv, NEW t \in Client, SendOverOldest(t) PROVE Queue!Put(made[t])
  <1>1. /\ message_num = MESSAGE_MAX /\ message_num' = message_num
        /\ \A k \in 0 .. (message_num - 1) :
              At(k)' = IF k = message_num - 1 THEN made[t] ELSE At(k + 1)
    BY SendOverOldestContents DEF IInv
  <1>2. made[t] \in Cmd
    BY DEF IInv, Shape, TypeOK, SendOverOldest
  <1>3. Queued \in [1 .. message_num -> Cmd] /\ message_num \in Nat
    BY QueuedType
  <1>4. message_num > 0
    BY <1>1, SMT
  <1>5. Queued' \in [1 .. message_num -> Cmd]
    BY <1>1, SendOverOldestInv, QueuedTypeNext
  <1>. DEFINE rest == [i \in 1 .. (message_num - 1) |-> Queued[i + 1]]
  <1>6. rest \in [1 .. (message_num - 1) -> Cmd]
    <2>1. \A i \in 1 .. (message_num - 1) : i + 1 \in 1 .. message_num
      BY <1>3, SMT
    <2>. QED  BY <1>3, <2>1
  <1>7. Queued # << >> /\ rest = Tail(Queued)
    BY <1>3, <1>4, <1>6, TailForm
  <1>8. \A i \in 1 .. message_num :
          Queued'[i] = IF i = message_num THEN made[t] ELSE Queued[i + 1]
    <2>. SUFFICES ASSUME NEW i \in 1 .. message_num
                  PROVE  Queued'[i] = IF i = message_num THEN made[t]
                                                         ELSE Queued[i + 1]
      OBVIOUS
    <2>1. PICK k \in 0 .. (message_num - 1) : k = i - 1
      BY <1>3, SMT
    <2>2. Queued'[i] = At(k)'
      BY <1>1, <1>3, <2>1, SMT DEF Queued, At, SlotOf
    <2>3. i # message_num => Queued[i + 1] = At(k + 1)
      BY <1>3, <2>1, SMT DEF Queued
    <2>. QED  BY <1>1, <1>3, <2>1, <2>2, <2>3, SMT
  <1>9. Queued' = Append(rest, made[t])
    <2>1. PICK n \in Nat : n = message_num - 1 /\ n + 1 = message_num
      BY <1>3, <1>4, SMT
    <2>2. \A i \in 1 .. (n + 1) : Queued'[i] = IF i = n + 1 THEN made[t] ELSE rest[i]
      BY <1>8, <2>1, SMT
    <2>3. rest \in [1 .. n -> Cmd] /\ Queued' \in [1 .. (n + 1) -> Cmd]
      BY <1>5, <1>6, <2>1
    <2>. HIDE DEF rest
    <2>. QED  BY <1>2, <2>2, <2>3, AppendForm
  <1>10. ~ (Len(Queued) < MESSAGE_MAX)
    BY <1>1, <1>3, SMT
  <1>. QED  BY <1>7, <1>9, <1>10 DEF Queue!Put

\* Every step of the ring is a step of the queue or leaves it unchanged.
LEMMA QueueStep == ASSUME IInv, [Next]_vars PROVE [Queue!Next]_Queued
  <1>. USE DEF Queue!Next
  <1>1. ASSUME UNCHANGED ring PROVE UNCHANGED Queued
    BY <1>1 DEF ring, Queued, At, SlotOf
  <1>2. ASSUME NEW t \in Client, SendToFreeSlot(t) \/ SendOverOldest(t)
        PROVE  Queue!Next
    <2>1. made[t] \in Cmd
      BY <1>2 DEF SendToFreeSlot, SendOverOldest, IInv, Shape, TypeOK
    <2>. QED  BY <1>2, <2>1, SendToFreeSlotIsPut, SendOverOldestIsPut
  <1>3. ASSUME NEW t \in Thread, GetMessage(t) PROVE Queue!Next
    BY <1>3, GetMessageIsTake
  <1>4. CASE UNCHANGED vars
    BY <1>1, <1>4 DEF vars
  <1>5. ASSUME NEW t \in Client, ClientStep(t) PROVE [Queue!Next]_Queued
    BY <1>1, <1>2, <1>3, <1>5
       DEF ClientStep, Alloc, Free, SendReturns, ClearMessage, Thread
  <1>6. CASE PlayerStep \/ PlayerExits \/ MateStep
    BY <1>1, <1>3, <1>6 DEF PlayerStep, PeekMessage, SkipPeek, PeekRead, PlayerGet,
                            PlayerExits, MateStep, MateGet, Free, Thread
  <1>. QED  BY <1>4, <1>5, <1>6 DEF Next

\* message.c as a whole: a player's pool is a first-in first-out queue of
\* MESSAGE_MAX commands in which a send never fails and costs at most the
\* oldest command.
THEOREM Refinement == Spec => QueueSpec
  <1>1. Init => Queue!Init
    <2>. SUFFICES ASSUME Init PROVE Queued = << >>
      BY DEF Queue!Init
    <2>1. message_num = 0
      BY DEF Init
    <2>. QED  BY <2>1, SMT DEF Queued
  <1>2. IInv /\ [Next]_vars => [Queue!Next]_Queued
    BY QueueStep
  <1>. QED  BY <1>1, <1>2, Invariance, PTL DEF Spec, QueueSpec, Queue!Spec

-----------------------------------------------------------------------------
\* A step frees no queued command, except a send over the oldest one.
LEMMA DiscardStep ==
  ASSUME IInv, [Next]_vars
  PROVE  \A c \in QueuedCmds : c \notin heap' =>
           message_num = MESSAGE_MAX /\ c = Queued[1]
  <1>1. QueuedCmds \subseteq heap
    BY DEF IInv, Ownership
  <1>2. ASSUME NEW t \in Client, SendOverOldest(t), NEW c \in QueuedCmds, c \notin heap'
        PROVE  message_num = MESSAGE_MAX /\ c = Queued[1]
    <2>1. message_num = MESSAGE_MAX /\ heap' = heap \ {At(0)}
      BY <1>2, SendOverOldestContents DEF IInv, SendOverOldest
    <2>2. Queued[1] = At(0)
      BY <2>1, SMT DEF Queued
    <2>. QED  BY <1>1, <1>2, <2>1, <2>2
  <1>3. ASSUME NEW t \in Thread, Free(t) PROVE QueuedCmds \subseteq heap'
    BY <1>1, <1>3 DEF Free, IInv, Ownership
  <1>4. ASSUME NEW t \in Client, ClientStep(t), ~ SendOverOldest(t)
        PROVE  QueuedCmds \subseteq heap'
    BY <1>1, <1>3, <1>4 DEF ClientStep, Alloc, SendToFreeSlot, SendReturns,
                            ClearMessage, GetMessage, Thread
  <1>5. CASE PlayerStep \/ PlayerExits \/ MateStep
    BY <1>1, <1>3, <1>5 DEF PlayerStep, PeekMessage, SkipPeek, PeekRead, PlayerGet,
                            PlayerExits, MateStep, MateGet, GetMessage, Thread
  <1>6. CASE UNCHANGED vars
    BY <1>1, <1>6 DEF vars
  <1>. QED  BY <1>2, <1>4, <1>5, <1>6 DEF Next

\* send_message: only a send into a full ring discards a command, the oldest.
THEOREM DiscardsCorrect == Spec => DiscardsOnlyOldest
  <1>1. IInv /\ [Next]_vars =>
          [\A c \in QueuedCmds : c \notin heap' =>
             message_num = MESSAGE_MAX /\ c = Queued[1]]_vars
    BY DiscardStep
  <1>. QED  BY <1>1, Invariance, PTL DEF Spec, DiscardsOnlyOldest
-----------------------------------------------------------------------------
(* How long a command waits.                                               *)

\* A slot becomes free at the head of the ring.
Moves == (\E t \in Thread : GetMessage(t)) \/ (\E t \in Client : SendOverOldest(t))

\* Then each command but the oldest comes one place nearer to the head; otherwise each
\* keeps its place, and none leaves the ring.
ComesForward ==
  IF Moves
  THEN /\ message_num' >= message_num - 1
       /\ \A k \in 1 .. (message_num - 1) : At(k - 1)' = At(k)
  ELSE /\ message_num' >= message_num
       /\ \A k \in 0 .. (message_num - 1) : At(k)' = At(k)

LEMMA ForwardStep == ASSUME IInv, Next PROVE ComesForward
  <1>. DEFINE Near == /\ message_num' >= message_num - 1
                      /\ \A k \in 1 .. (message_num - 1) : At(k - 1)' = At(k)
              Same == /\ message_num' >= message_num
                      /\ \A k \in 0 .. (message_num - 1) : At(k)' = At(k)
  <1>0. message_num \in Nat /\ MESSAGE_MAX \in Nat
    BY PoolAssumption, SMT DEF IInv, Shape, TypeOK
  <1>1. ASSUME NEW t \in Thread, GetMessage(t) PROVE Near
    <2>1. /\ message_num > 0 /\ message_num' = message_num - 1
          /\ \A k \in 0 .. (message_num - 2) : At(k)' = At(k + 1)
      BY <1>1, GetMessageContents DEF IInv
    <2>2. ASSUME NEW k \in 1 .. (message_num - 1) PROVE At(k - 1)' = At(k)
      <3>1. PICK j \in 0 .. (message_num - 2) : j = k - 1 /\ j + 1 = k
        BY <1>0, SMT
      <3>. QED  BY <2>1, <3>1
    <2>. QED  BY <1>0, <2>1, <2>2, SMT
  <1>2. ASSUME NEW t \in Client, SendOverOldest(t) PROVE Near
    <2>1. /\ message_num = MESSAGE_MAX /\ message_num' = message_num
          /\ \A k \in 0 .. (message_num - 1) :
                At(k)' = IF k = message_num - 1 THEN made[t] ELSE At(k + 1)
      BY <1>2, SendOverOldestContents DEF IInv
    <2>2. ASSUME NEW k \in 1 .. (message_num - 1) PROVE At(k - 1)' = At(k)
      <3>1. PICK j \in 0 .. (message_num - 1) : j = k - 1 /\ j + 1 = k /\ j # message_num - 1
        BY <1>0, SMT
      <3>. QED  BY <2>1, <3>1
    <2>. QED  BY <1>0, <2>1, <2>2, SMT
  <1>3. ASSUME NEW t \in Client, SendToFreeSlot(t) PROVE Same
    <2>1. /\ message_num' = message_num + 1
          /\ \A k \in 0 .. message_num : At(k)' = IF k = message_num THEN made[t] ELSE At(k)
      BY <1>3, SendToFreeSlotContents DEF IInv, SendToFreeSlot
    <2>2. \A k \in 0 .. (message_num - 1) : k \in 0 .. message_num /\ k # message_num
      BY <1>0, SMT
    <2>. QED  BY <1>0, <2>1, <2>2, SMT
  <1>4. ASSUME UNCHANGED ring PROVE Same
    BY <1>0, <1>4, SMT DEF ring, At, SlotOf
  <1>5. CASE Moves
    BY <1>1, <1>2, <1>5 DEF Moves, ComesForward
  <1>6. CASE ~ Moves
    <2>1. (\E t \in Client : SendToFreeSlot(t)) \/ UNCHANGED ring
      BY <1>6 DEF Moves, Next, ClientStep, SendReturns, ClearMessage, PlayerStep,
                  PeekMessage, SkipPeek, PeekRead, PlayerGet, PlayerExits,
                  MateStep, MateGet, Alloc, Free, Thread
    <2>. QED  BY <1>3, <1>4, <1>6, <2>1 DEF ComesForward
  <1>. QED  BY <1>5, <1>6

\* A command waits for those before it and for nobody else: whoever takes one, player,
\* mate or a client that clears the pool, and whoever sends into a full ring, brings it
\* nearer, so MESSAGE_MAX gets at most come before it is taken.
THEOREM NobodyOvertakes == Spec => [][ComesForward]_vars
  <1>1. IInv /\ [Next]_vars => [ComesForward]_vars
    BY ForwardStep
  <1>. QED  BY <1>1, Invariance, PTL DEF Spec
=============================================================================
