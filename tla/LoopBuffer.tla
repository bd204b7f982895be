------------------------------ MODULE LoopBuffer ------------------------------
(***************************************************************************)
(* The loop buffer (amffmpeg/libavformat/aviolpbuf.c): a ring between the  *)
(* demuxer and the input of a slow medium, here HttpStream.  It keeps what *)
(* was read to seek back in, and reads ahead while the player is buffering.*)
(*                                                                         *)
(* The player's thread alone reads, seeks and fills; the lock only keeps   *)
(* out the mate, which looks at pos.  rp and wp are indexes into the ring. *)
(* The cache file is off (cache_enable = 0).                               *)
(***************************************************************************)
EXTENDS HttpStream

CONSTANTS buffer_size, block_read_size,
          Reserve,         \* 32: kept free in front of rp
          BackReserve,     \* 64: never sought back to
          Slack,           \* 1024: less than this free is full for buffering
          BackMax,         \* 3*1024*1024: more than this behind rp is given up
          MAX_READ_SEEK,
          ReadMax, Offsets, Unknown   \* what the demuxer asks for

ASSUME LoopAssumption ==
  /\ buffer_size \in Nat \ {0} /\ block_read_size \in Nat \ {0}
  /\ Reserve \in Nat \ {0} /\ BackReserve \in Nat \ {0}
  /\ Slack \in Nat /\ BackMax \in Nat /\ MAX_READ_SEEK \in Nat
  /\ ReadMax \in Nat \ {0} /\ Offsets \subseteq Nat /\ Unknown \notin Int

VARIABLES ring, rp, wp, valid_data_size, pos,   \* url_lpbuf_t
          call,         \* the call of the demuxer
          open_retry,   \* http_seek's
          at,           \* AVIOContext.pos, but Unknown once a seek has failed, be it told or not
          got           \* the bytes this step copies to the caller

loopbuf == << ring, rp, wp, valid_data_size, pos >>
vars    == << pc, link, http, read, interrupted, astray, loopbuf, call, open_retry, at, got >>

Slot   == 0 .. (buffer_size - 1)
NoCall == [op |-> "none", len |-> 0, to |-> 0, some |-> FALSE]

Init ==
  /\ HttpInit /\ pc = "idle"
  /\ ring = [i \in Slot |-> NoByte] /\ rp = 0 /\ wp = 0
  /\ valid_data_size = 0 /\ pos = 0
  /\ call = NoCall /\ open_retry = 0
  /\ at = 0 /\ got = << >>

Least(a, b) == IF a <= b THEN a ELSE b
\* A wrong wrap: one slot too late.
WrapLate(i) == IF i > buffer_size THEN i - buffer_size ELSE i
Wrap(i)     == IF i >= buffer_size THEN i - buffer_size ELSE i

\* valid_data_can_seek_forward
Forward == IF wp >= rp THEN wp - rp ELSE buffer_size - (rp - wp)

\* A wrong valid_data_can_seek_back: all that was ever filled.
BackAll == LET b == valid_data_size - Forward IN IF b < 0 THEN 0 ELSE b

\* valid_data_can_seek_back
Back == LET b == Least(valid_data_size - Forward, buffer_size - Forward - BackReserve)
        IN  IF b < 0 THEN 0 ELSE b

\* pos_on_read
Reader == pos - Forward

\* No byte is delivered.
Keeps == at' = at /\ got' = << >>

\* The locals of url_read and url_lpfillbuffer are gone.
FillEnds == size' = 0 /\ len' = 0 /\ err_retry' = 0

Idle(told) == /\ pc' = "idle" /\ call' = NoCall /\ at' = told
              /\ FillEnds /\ open_retry' = 0
-----------------------------------------------------------------------------
(* url_lpfillbuffer                                                        *)

\* A wrong ssread: rp may lie in front of wp.
RoomToEnd(n) == Least(n, buffer_size - wp - (IF rp = 0 THEN Reserve ELSE 0))

\* ssread
Room(n) == IF wp >= rp THEN Least(n, buffer_size - wp - (IF rp = 0 THEN Reserve ELSE 0))
                       ELSE Least(n, rp - wp - Reserve)

\* There is nothing to read, or url_read is called for.
Fill(n) == IF Room(n) <= 0 \/ pos >= FileSize
           THEN /\ pc' = "filled" /\ len' = 0
                /\ UNCHANGED << link, http, size, err_retry, astray >>
           ELSE StartRead(Room(n))

\* The bytes arrive in the ring itself.
Arrive(n, b) == ring' = [i \in Slot |-> IF i \in wp .. (wp + n - 1) THEN b[i - wp] ELSE ring[i]]

ReadIntoRing ==
  \/ HttpRead /\ UNCHANGED ring
  \/ FromHeader /\ Arrive(1, [i \in {0} |-> left])
  \/ \E n \in 1 .. buffer_size : Receive(n) /\ Arrive(n, [i \in 0 .. (n - 1) |-> conn + i])
  \/ SkipDone /\ Arrive(len', [i \in 0 .. (len' - 1) |-> ring[wp + do_readseek_size + i]])

UrlRead ==
  /\ ReadIntoRing
  /\ UNCHANGED << interrupted, rp, wp, valid_data_size, pos, call, open_retry >> /\ Keeps

\* Back in url_lpfillbuffer with bytes: the ring takes them.
Filled ==
  /\ pc = "filled" /\ len > 0
  /\ valid_data_size' = valid_data_size + len
  /\ pos' = pos + len
  /\ wp' = Wrap(wp + len)
  /\ IF call.op = "buffer"
     THEN Idle(at) /\ got' = << >>
     ELSE pc' = "lpread" /\ FillEnds /\ UNCHANGED << call, open_retry >> /\ Keeps
  /\ UNCHANGED << link, http, interrupted, astray, ring, rp >>

\* A wrong read seek: it goes on after every failure.
NotFilledRetries ==
  /\ pc = "filled" /\ len <= 0
  /\ IF call.op = "skip"
     THEN pc' = "lpread" /\ call' = [call EXCEPT !.some = FALSE]
          /\ FillEnds /\ UNCHANGED << open_retry, at >>
     ELSE Idle(at)
  /\ UNCHANGED << link, http, interrupted, astray, loopbuf >>
  /\ got' = << >>

\* Without any: url_lpread returns what it has copied so far, or the failure.
\* A read seek goes on after the former, and after EAGAIN.
NotFilled ==
  /\ pc = "filled" /\ len <= 0
  /\ IF call.op = "skip" /\ (call.some \/ len = EAGAIN)
     THEN pc' = "lpread" /\ call' = [call EXCEPT !.some = FALSE]
          /\ FillEnds /\ UNCHANGED << open_retry, at >>
     ELSE Idle(IF call.op = "skip" THEN Unknown ELSE at)
  /\ UNCHANGED << link, http, interrupted, astray, loopbuf >>
  /\ got' = << >>
-----------------------------------------------------------------------------
(* url_lpread.  With no buffer to copy to it is a read seek, "skip".       *)

\* valid_data_can_read
CanRead == Least(call.len, IF wp >= rp THEN wp - rp ELSE buffer_size - rp)

Read(n) ==
  /\ pc = "idle" /\ pc' = "lpread"
  /\ call' = [NoCall EXCEPT !.op = "read", !.len = n]
  /\ UNCHANGED << link, http, read, interrupted, astray, loopbuf, open_retry >> /\ Keeps

Copy ==
  /\ pc = "lpread" /\ CanRead > 0
  /\ rp' = Wrap(rp + CanRead)
  /\ got' = IF call.op = "read" THEN [i \in 1 .. CanRead |-> ring[rp + i - 1]] ELSE << >>
  /\ LET told == IF call.op = "skip" THEN call.to
                 ELSE IF at = Unknown THEN at ELSE at + CanRead
     IN  IF call.len = CanRead THEN Idle(told)
         ELSE /\ call' = [call EXCEPT !.len = @ - CanRead, !.some = TRUE]
              /\ at' = (IF call.op = "read" THEN told ELSE at)
              /\ UNCHANGED << pc, read, open_retry >>
  /\ UNCHANGED << link, http, interrupted, astray, ring, wp, valid_data_size, pos >>

LpFill ==
  /\ pc = "lpread" /\ CanRead = 0
  /\ Fill(block_read_size)
  /\ UNCHANGED << interrupted, loopbuf, call, open_retry >> /\ Keeps

\* url_lp_intelligent_buffering
Buffering ==
  /\ pc = "idle"
  /\ \/ Forward + Back < buffer_size - Slack
     \/ Back > (Forward \div 2) + 1
     \/ Back > BackMax
  /\ Fill(block_read_size)
  /\ call' = [NoCall EXCEPT !.op = "buffer"]
  /\ UNCHANGED << interrupted, loopbuf, open_retry >> /\ Keeps
-----------------------------------------------------------------------------
(* url_lpseek, to an offset.  avio_seek, which calls it, takes any result  *)
(* that is not negative for success and its pos for the offset.            *)

StartSeek == pc = "idle" /\ ~ interrupted

Gap(o) == o - Reader

SeekInBuffer(o) ==
  /\ StartSeek
  /\ \/ 0 <= Gap(o) /\ Gap(o) <= Forward /\ rp' = Wrap(rp + Gap(o))
     \/ Gap(o) < 0 /\ - Gap(o) <= Back
        /\ rp' = (IF rp + Gap(o) < 0 THEN rp + Gap(o) + buffer_size ELSE rp + Gap(o))
  /\ at' = o
  /\ UNCHANGED << pc, link, http, read, interrupted, astray, ring, wp, valid_data_size, pos,
                  call, open_retry >>
  /\ got' = << >>

OutOfBuffer(o) == Gap(o) > Forward \/ - Gap(o) > Back

ReadSeeks(o) == /\ Gap(o) > 0
                /\ \/ is_streamed
                   \/ /\ Gap(o) < buffer_size - block_read_size /\ Gap(o) < MAX_READ_SEEK
                      /\ Gap(o) < FileSize \div 2

\* Read what is in between.
ReadSeek(o) ==
  /\ StartSeek /\ OutOfBuffer(o) /\ ReadSeeks(o)
  /\ rp' = Wrap(rp + Forward)
  /\ pc' = "lpread"
  /\ call' = [op |-> "skip", len |-> Gap(o) - Forward, to |-> o, some |-> FALSE]
  /\ UNCHANGED << link, http, read, interrupted, astray, ring, wp, valid_data_size, pos,
                  open_retry >> /\ Keeps

HttpSeek(op, o) == pc' = "http_seek" /\ call' = [NoCall EXCEPT !.op = op, !.to = o]
                   /\ UNCHANGED << read, open_retry, at >>

\* Seek the input.  When that fails it is sought to pos, "clear the lowlevel
\* errors", and what comes of this is the result.
LowSeek(o) ==
  /\ StartSeek /\ OutOfBuffer(o) /\ ~ ReadSeeks(o)
  /\ IF ~ SeekFails(o) THEN HttpSeek("seek", o) /\ UNCHANGED valid_data_size
     ELSE /\ valid_data_size' = 0
          /\ IF SeekFails(pos) THEN Idle(Unknown) ELSE HttpSeek("reseek", pos)
  /\ UNCHANGED << link, http, interrupted, astray, ring, rp, wp, pos >>
  /\ got' = << >>

\* http_seek tries again when the connection fails, up to a limit.
TriesOn == /\ open_retry < READ_RETRY_MAX /\ ~ interrupted
           /\ ~ (filesize' > 0 /\ call.to >= filesize')

ReopenForSeek ==
  /\ pc = "http_seek" /\ Breaks(call.to) /\ TriesOn
  /\ open_retry' = open_retry + 1 /\ astray' = TRUE
  /\ UNCHANGED << pc, read, interrupted, loopbuf, call >> /\ Keeps

\* ... and returns the offset in any case.  The ring's bytes are given up: NoByte
\* marks them, so that a read of one of them would show.
SeekReturns ==
  /\ pc = "http_seek"
  /\ Reopens(call.to) \/ (Breaks(call.to) /\ ~ TriesOn)
  /\ IF call.op = "seek"
     THEN /\ rp' = 0 /\ wp' = 0 /\ valid_data_size' = 0 /\ pos' = call.to
          /\ ring' = [i \in Slot |-> NoByte]
          /\ Idle(call.to) /\ astray' = ~ Straight'
     ELSE /\ Idle(Unknown) /\ astray' = (astray \/ ~ Straight')
          /\ UNCHANGED loopbuf
  /\ UNCHANGED interrupted /\ got' = << >>
-----------------------------------------------------------------------------
\* player_stop interrupts the input.
Stop ==
  /\ ~ interrupted /\ interrupted' = TRUE
  /\ UNCHANGED << pc, link, http, read, astray, loopbuf, call, open_retry >> /\ Keeps

Thread == UrlRead \/ Filled \/ NotFilled \/ Copy \/ LpFill \/ ReopenForSeek \/ SeekReturns

Next ==
  \/ Thread \/ Buffering \/ Stop
  \/ \E n \in 1 .. ReadMax : Read(n)
  \/ \E o \in Offsets : SeekInBuffer(o) \/ ReadSeek(o) \/ LowSeek(o)

Spec == Init /\ [][Next]_vars

\* The thread goes on: none of its steps waits for a lock that is kept, and a wait
\* for data is a number of polls that looks at the interrupt (avio.c:309, tcp.c:116).
FairSpec == Spec /\ WF_vars(Thread)
-----------------------------------------------------------------------------
Stream == INSTANCE ByteStream WITH at <- IF astray THEN Unknown ELSE at, Longest <- ReadMax

TypeOK ==
  /\ pc \in {"idle", "lpread", "http_read", "http_errors", "filled", "http_seek"}
  /\ hd \in {"open", "dead", "none"} /\ conn \in 0 .. FileSize
  /\ left \in Byte \cup {NoByte, Junk}
  /\ off \in Nat /\ filesize \in {-1, FileSize} /\ do_readseek_size \in Nat
  /\ willclose \in BOOLEAN /\ is_streamed \in BOOLEAN
  /\ size \in 0 .. buffer_size /\ len \in Int /\ err_retry \in 0 .. READ_RETRY_MAX
  /\ failures \in 0 .. MaxFailures /\ interrupted \in BOOLEAN /\ astray \in BOOLEAN
  /\ ring \in [Slot -> Byte \cup {NoByte, Junk}] /\ rp \in Slot /\ wp \in Slot
  /\ valid_data_size \in Nat /\ pos \in Nat
  /\ call \in [op : {"none", "read", "skip", "buffer", "seek", "reseek"}, len : Nat,
               to : Nat, some : BOOLEAN]
  /\ open_retry \in 0 .. READ_RETRY_MAX
  /\ at \in Nat \cup {Unknown}

\* What a demuxer expects: as long as the connection has not gone astray, each
\* read delivers the bytes of the file from where the last seek has left it,
\* through fills, seeks in the buffer, read seeks and reconnections.
StreamSpec == Stream!Spec

\* The slots of what was filled and not yet read.
Unread == {i \in Slot : IF wp >= rp THEN rp <= i /\ i < wp ELSE rp <= i \/ i < wp}

\* What arrives is never written over data that is still to be read, whatever the
\* server and the network do (url_lpfillbuffer's ssread).
KeepsUnread == [][\A i \in Unread : i \in Unread' => ring'[i] = ring[i]]_vars

\* An interrupt ends the call in progress, out of every loop of retries.
InterruptEnds == (interrupted /\ pc # "idle") ~> (pc = "idle")

\* http.c:212, "if it fails, continue on old connection": the connection goes on
\* with the byte the ring is to take next.
ContinuesInPlace ==
  pc = "idle" /\ Straight => pos = (IF left # NoByte THEN left ELSE conn)
=============================================================================
