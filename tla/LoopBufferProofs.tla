--------------------------- MODULE LoopBufferProofs ---------------------------
(***************************************************************************)
(* Proofs about LoopBuffer, for every size of the file and of the ring and *)
(* whatever the server and the network do.                                 *)
(***************************************************************************)
EXTENDS LoopBuffer, TLAPS

N == buffer_size

\* The bytes that have arrived and that the ring has not taken yet.
InFlight == IF pc \in {"http_errors", "filled"} /\ len > 0 THEN len ELSE 0

\* How far a slot lies behind wp, in bytes of the file.
Behind(i) == IF i < wp THEN wp - i ELSE wp + N - i

\* What is read ahead or may be sought back to.
Counts(i) == Behind(i) <= Forward \/ Behind(i) <= valid_data_size

\* The ring holds the file's bytes in front of pos, but for those that are being
\* overwritten, and behind wp what arrives.
RingHolds ==
  ~ astray =>
    /\ \A i \in Slot : Counts(i) /\ Behind(i) <= N - InFlight => ring[i] = pos - Behind(i)
    /\ \A j \in 0 .. (InFlight - 1) : ring[wp + j] = pos + j

\* A fill in progress has room for all it may read.
HasRoom ==
  pc \in {"http_read", "http_errors"} \/ (pc = "filled" /\ len > 0) =>
    /\ size >= 1 /\ wp + size <= N /\ Forward + size < N
    /\ pc # "http_read" => len <= size

\* The connection stands where the ring goes on.
InStep ==
  ~ astray =>
    /\ do_readseek_size = 0 /\ hd # "none" /\ off = pos + InFlight
    /\ left = NoByte /\ hd = "open" => conn = off
    /\ left # NoByte => hd = "open" /\ left = off /\ conn = off + 1

\* The caller's position is the reader's, once a seek is over.
AtReader ==
  /\ Reader >= 0
  /\ pc # "http_seek" /\ call.op # "skip" => at \in {Unknown, Reader}

CallOK ==
  /\ pc = "idle" <=> call.op = "none"
  /\ pc = "http_seek" <=> call.op \in {"seek", "reseek"}
  /\ pc = "lpread" => call.op \in {"read", "skip"} /\ call.len > 0
  /\ call.op \in {"read", "skip"} => call.len > 0
  /\ call.op = "read" => call.len <= ReadMax
  /\ call.op = "skip" => call.to = Reader + call.len
  /\ call.op = "reseek" => call.to = pos

IInv == TypeOK /\ HasRoom /\ CallOK /\ AtReader /\ InStep /\ RingHolds
-----------------------------------------------------------------------------
\* The reader lies up to a ring behind pos, and what may be sought back to was kept.
LEMMA Geometry ==
  ASSUME TypeOK
  PROVE  /\ Forward \in 0 .. (N - 1) /\ Back \in Nat
         /\ Back > 0 => Back <= valid_data_size - Forward /\ Back < N - Forward
         /\ \A i \in Slot : Behind(i) \in 1 .. N
BY LoopAssumption DEF TypeOK, Forward, Back, Least, Behind, Slot, N

\* The pointers, the ring and what is known of them depend on nothing else.
LEMMA Unmoved ==
  ASSUME UNCHANGED << rp, wp, valid_data_size, pos >>
  PROVE  /\ Forward' = Forward /\ Reader' = Reader /\ Back' = Back
         /\ \A i \in Slot : Behind(i)' = Behind(i) /\ (Counts(i)' <=> Counts(i))
BY DEF Forward, Reader, Back, Least, Behind, Counts

\* The first state.
LEMMA InitInv == Init => IInv
<1> SUFFICES ASSUME Init PROVE IInv
  OBVIOUS
<1>1. TypeOK
  BY HttpAssumption, LoopAssumption
     DEF Init, HttpInit, TypeOK, Slot, NoCall, NoByte, Junk, Byte
<1>2. Forward = 0 /\ Reader = 0 /\ InFlight = 0
  BY DEF Init, HttpInit, Forward, Reader, InFlight
<1>3. HasRoom /\ CallOK /\ AtReader
  BY <1>2 DEF Init, HttpInit, HasRoom, CallOK, AtReader, NoCall
<1>4. InStep
  BY <1>2 DEF Init, HttpInit, InStep, NoByte
<1>5. RingHolds
  <2>1. \A i \in Slot : ~ Counts(i)
    BY <1>1, <1>2, Geometry DEF Init, Counts
  <2> QED
    BY <1>2, <2>1 DEF RingHolds
<1> QED
  BY <1>1, <1>3, <1>4, <1>5 DEF IInv

-----------------------------------------------------------------------------
(* A request for the connection.                                           *)

\* What comes of it has the types it should have.
LEMMA RequestTypes ==
  ASSUME TypeOK, NEW o \in Int, Reopens(o) \/ Breaks(o)
  PROVE  /\ hd' \in {"open", "dead", "none"} /\ conn' \in 0 .. FileSize
         /\ left' \in Byte \cup {NoByte, Junk} /\ off' \in Nat
         /\ filesize' \in {-1, FileSize} /\ do_readseek_size' \in Nat
         /\ willclose' \in BOOLEAN /\ is_streamed' \in BOOLEAN
         /\ failures' \in 0 .. MaxFailures
<1>1. Wanted(o) \in Nat
  BY DEF TypeOK, Wanted
<1>2. CASE Honoured(Wanted(o), o >= 0)
  BY <1>1, <1>2, HttpAssumption DEF TypeOK, Honoured, Body, NoByte, Byte
<1>3. CASE Ignored(Wanted(o))
  BY <1>1, <1>3, HttpAssumption DEF TypeOK, Ignored, Trips, Body, NoByte, Byte
<1>4. CASE Refused
  BY <1>4, HttpAssumption DEF TypeOK, Refused, Fails, Trips
<1>5. CASE Rejected(Wanted(o))
  BY <1>1, <1>5, HttpAssumption DEF TypeOK, Rejected, Fails, Trips, NoByte, Byte
<1> QED
  BY <1>2, <1>3, <1>4, <1>5 DEF Reopens, Breaks

\* If it goes straight on, it is with the byte asked for.
LEMMA StraightIsWanted ==
  ASSUME TypeOK, NEW o \in Int, Reopens(o) \/ Breaks(o), Straight'
  PROVE  /\ off' = Wanted(o) /\ do_readseek_size' = 0 /\ hd' = "open"
         /\ left' = NoByte => conn' = off'
         /\ left' # NoByte => left' = off' /\ conn' = off' + 1
BY HttpAssumption
   DEF TypeOK, Reopens, Breaks, Wanted, Honoured, Ignored, Refused, Rejected, Fails, Trips,
       Body, NoByte, Junk, Byte, Straight
-----------------------------------------------------------------------------
(* url_read.                                                               *)

\* What a step of http_read without bytes leaves alone: it may lose the connection
\* for good, but then the connection counts as astray.
LEMMA HttpReadStep ==
  ASSUME IInv, HttpRead, UNCHANGED << ring, interrupted, rp, wp, valid_data_size, pos, call,
                                      open_retry >>, Keeps
  PROVE  IInv'
<1>1. UNCHANGED << Forward, Reader >>
      /\ \A i \in Slot : Behind(i)' = Behind(i) /\ (Counts(i)' <=> Counts(i))
  BY Unmoved
<1>2. CASE Interrupted
  <2>1. TypeOK'
    BY <1>2, LoopAssumption DEF IInv, TypeOK, Interrupted, link, http, EIO, Keeps
  <2>2. InFlight' = 0 /\ InFlight = 0
    BY <1>2 DEF Interrupted, InFlight, EIO
  <2> QED
    BY <1>1, <1>2, <2>1, <2>2
       DEF IInv, HasRoom, CallOK, AtReader, InStep, RingHolds, Interrupted, link, http, EIO, Keeps
<1>3. CASE EndOfFile \/ Closed \/ Dropped \/ NoLink \/ NotYet
  <2>1. TypeOK'
    BY <1>3, HttpAssumption, LoopAssumption
       DEF IInv, TypeOK, EndOfFile, Closed, Dropped, NoLink, NotYet, ReadsLink, Reads, link, http,
           EOF, Failed, EAGAIN, Keeps
  <2>2. InFlight' = 0 /\ InFlight = 0 /\ len' <= 0
    BY <1>3 DEF EndOfFile, Closed, Dropped, NoLink, NotYet, ReadsLink, Reads, InFlight, EOF,
                Failed, EAGAIN
  <2>5. pc = "http_read" /\ pc' \in {"http_errors", "filled"} /\ size' = size
    BY <1>3 DEF EndOfFile, Closed, Dropped, NoLink, NotYet, ReadsLink, Reads
  <2>6. HasRoom'
    BY <1>1, <2>1, <2>2, <2>5 DEF IInv, TypeOK, HasRoom
  <2>3. HasRoom' /\ CallOK' /\ AtReader'
    BY <1>1, <2>5, <2>6 DEF IInv, CallOK, AtReader, Keeps
  <2>4. InStep'
    BY <1>3, <2>2
       DEF IInv, InStep, EndOfFile, Closed, Dropped, NoLink, NotYet, ReadsLink, Reads, link, http
  <2>7. RingHolds'
    BY <1>1, <1>3, <2>2
       DEF IInv, RingHolds, EndOfFile, Closed, Dropped, NoLink, NotYet
  <2> QED
    BY <2>1, <2>3, <2>4, <2>7 DEF IInv
<1>4. CASE Reconnect
  <2>1. /\ Reopens(-1) \/ Breaks(-1)
        /\ pc = "http_errors" /\ pc' = "http_read" /\ len < 0 /\ err_retry > 0
        /\ err_retry' = err_retry - 1 /\ UNCHANGED << size, len >>
        /\ astray' = (astray \/ ~ Straight')
    BY <1>4 DEF Reconnect, TriesAgain
  <2>7. TypeOK /\ err_retry - 1 \in 0 .. READ_RETRY_MAX
    BY <2>1, HttpAssumption DEF IInv, TypeOK
  <2>8. /\ hd' \in {"open", "dead", "none"} /\ conn' \in 0 .. FileSize
        /\ left' \in Byte \cup {NoByte, Junk} /\ off' \in Nat
        /\ filesize' \in {-1, FileSize} /\ do_readseek_size' \in Nat
        /\ willclose' \in BOOLEAN /\ is_streamed' \in BOOLEAN
        /\ failures' \in 0 .. MaxFailures
    BY <2>1, <2>7, RequestTypes
  <2>2. TypeOK'
    BY <2>1, <2>7, <2>8 DEF TypeOK, Keeps
  <2>3. InFlight' = 0 /\ InFlight = 0
    BY <2>1, <2>7 DEF InFlight, TypeOK
  <2>4. HasRoom' /\ CallOK' /\ AtReader'
    BY <1>1, <2>1 DEF IInv, HasRoom, CallOK, AtReader, Keeps
  <2>5. InStep'
    <3> SUFFICES ASSUME ~ astray' PROVE InStep'
      BY DEF InStep
    <3>1. ~ astray /\ Straight'
      BY <2>1
    <3>2. Wanted(-1) = off /\ off = pos
      BY <2>3, <3>1 DEF IInv, InStep, TypeOK, Wanted
    <3> QED
      BY <2>1, <2>3, <3>1, <3>2, StraightIsWanted DEF IInv, InStep, TypeOK
  <2>6. RingHolds'
    BY <1>1, <2>1, <2>3 DEF IInv, RingHolds
  <2> QED
    BY <2>2, <2>4, <2>5, <2>6 DEF IInv
<1>5. CASE Return
  <2>1. TypeOK'
    BY <1>5 DEF IInv, TypeOK, Return, link, http, read, Keeps
  <2>2. InFlight' = InFlight
    BY <1>5 DEF Return, InFlight, read
  <2> QED
    BY <1>1, <1>5, <2>1, <2>2
       DEF IInv, HasRoom, CallOK, AtReader, InStep, RingHolds, Return, link, http, read, Keeps
<1>6. CASE SkipMore
  <2>1. astray /\ astray'
    BY <1>6 DEF IInv, InStep, SkipMore
  <2>2. TypeOK'
    BY <1>6, HttpAssumption DEF IInv, TypeOK, SkipMore, link, read, Keeps
  <2>3. HasRoom' /\ CallOK' /\ AtReader'
    BY <1>1, <1>6 DEF IInv, HasRoom, CallOK, AtReader, SkipMore, read, Keeps
  <2> QED
    BY <2>1, <2>2, <2>3 DEF IInv, InStep, RingHolds
<1> QED
  BY <1>2, <1>3, <1>4, <1>5, <1>6 DEF HttpRead

\* Bytes arrive in the room there is for them.
LEMMA Arrives ==
  ASSUME IInv, pc \in {"http_read", "http_errors"}, NEW n \in 1 .. size,
         NEW b \in [0 .. (n - 1) -> Byte \cup {NoByte, Junk}], Arrive(n, b)
  PROVE  /\ ring' \in [Slot -> Byte \cup {NoByte, Junk}]
         /\ \A j \in 0 .. (n - 1) : ring'[wp + j] = b[j]
         /\ \A i \in Slot : ~ (wp <= i /\ i < wp + n) => ring'[i] = ring[i]
         /\ \A i \in Slot : Behind(i) <= N - n <=> ~ (wp <= i /\ i < wp + n)
<1>1. wp + n <= N /\ wp \in Slot /\ n \in Nat /\ N \in Nat
  BY LoopAssumption DEF IInv, HasRoom, TypeOK, N, Slot
<1>2. ring \in [Slot -> Byte \cup {NoByte, Junk}]
  BY DEF IInv, TypeOK
<1>3. ring' = [i \in Slot |-> IF i \in wp .. (wp + n - 1) THEN b[i - wp] ELSE ring[i]]
  BY DEF Arrive
<1>4. \A i \in wp .. (wp + n - 1) : i - wp \in 0 .. (n - 1)
  BY <1>1 DEF Slot
<1>5. ring' \in [Slot -> Byte \cup {NoByte, Junk}]
  BY <1>2, <1>3, <1>4
<1>6. \A j \in 0 .. (n - 1) : ring'[wp + j] = b[j]
  <2> TAKE j \in 0 .. (n - 1)
  <2>1. wp + j \in Slot /\ wp + j \in wp .. (wp + n - 1) /\ (wp + j) - wp = j
    BY <1>1 DEF Slot, N
  <2> QED
    BY <1>3, <2>1
<1>7. \A i \in Slot : ~ (wp <= i /\ i < wp + n) => ring'[i] = ring[i]
  BY <1>1, <1>3 DEF Slot
<1>8. \A i \in Slot : Behind(i) <= N - n <=> ~ (wp <= i /\ i < wp + n)
  BY <1>1 DEF Behind, Slot, N
<1> QED
  BY <1>5, <1>6, <1>7, <1>8

\* The ring receives the bytes that follow.
LEMMA ArrivedStep ==
  ASSUME IInv, pc = "http_read", NEW n \in 1 .. size,
         NEW b \in [0 .. (n - 1) -> Byte \cup {NoByte, Junk}], Arrive(n, b),
         pc' = "http_errors", len' = n, off' = off + n, left' = NoByte, conn' \in 0 .. FileSize,
         UNCHANGED << size, astray, interrupted, rp, wp, valid_data_size, pos, call, open_retry,
                      hd, failures, filesize, willclose, do_readseek_size, is_streamed,
                      err_retry >>, Keeps,
         ~ astray => /\ hd = "open" => conn' = off'
                     /\ \A j \in 0 .. (n - 1) : b[j] = off + j
  PROVE  IInv'
<1>1. UNCHANGED << Forward, Reader >>
      /\ \A i \in Slot : Behind(i)' = Behind(i) /\ (Counts(i)' <=> Counts(i))
  BY Unmoved
<1>2. n \in Nat /\ n >= 1 /\ n <= size /\ size \in Nat
  BY DEF IInv, TypeOK
<1>3. /\ ring' \in [Slot -> Byte \cup {NoByte, Junk}]
      /\ \A j \in 0 .. (n - 1) : ring'[wp + j] = b[j]
      /\ \A i \in Slot : ~ (wp <= i /\ i < wp + n) => ring'[i] = ring[i]
      /\ \A i \in Slot : Behind(i) <= N - n <=> ~ (wp <= i /\ i < wp + n)
  BY Arrives
<1>4. InFlight = 0 /\ InFlight' = n
  BY <1>2 DEF InFlight
<1>5. TypeOK'
  BY <1>2, <1>3 DEF IInv, TypeOK, Keeps
<1>6. HasRoom'
  BY <1>1, <1>2 DEF IInv, HasRoom
<1>7. CallOK' /\ AtReader'
  BY <1>1 DEF IInv, CallOK, AtReader, Keeps
<1>8. InStep'
  BY <1>2, <1>4 DEF IInv, InStep, TypeOK
<1>9. RingHolds'
  <2> SUFFICES ASSUME ~ astray
               PROVE  /\ \A i \in Slot : Counts(i)' /\ Behind(i)' <= N - n
                                         => ring'[i] = pos - Behind(i)'
                      /\ \A j \in 0 .. (n - 1) : ring'[wp + j] = pos + j
    BY <1>4 DEF RingHolds
  <2>1. off = pos
    BY <1>4 DEF IInv, InStep, TypeOK
  <2>2. \A i \in Slot : Counts(i) => ring[i] = pos - Behind(i)
    BY <1>4, Geometry, LoopAssumption DEF IInv, RingHolds, N
  <2> QED
    BY <1>1, <1>3, <2>1, <2>2
<1> QED
  BY <1>5, <1>6, <1>7, <1>8, <1>9 DEF IInv

\* A step of url_read.
LEMMA UrlReadStep == IInv /\ UrlRead => IInv'
<1> SUFFICES ASSUME IInv, UrlRead PROVE IInv'
  OBVIOUS
<1>1. UNCHANGED << interrupted, rp, wp, valid_data_size, pos, call, open_retry >> /\ Keeps
  BY DEF UrlRead
<1>2. CASE HttpRead /\ UNCHANGED ring
  BY <1>1, <1>2, HttpReadStep
<1>3. CASE FromHeader /\ Arrive(1, [i \in {0} |-> left])
  <2>1. 1 \in 1 .. size
    BY <1>3 DEF FromHeader, Reads, IInv, HasRoom, TypeOK
  <2>2. [i \in {0} |-> left] \in [0 .. (1 - 1) -> Byte \cup {NoByte, Junk}]
    <3>1. left \in Byte \cup {NoByte, Junk} /\ 0 .. (1 - 1) = {0}
      BY DEF IInv, TypeOK
    <3> QED
      BY <3>1
  <2>3. ~ astray => conn' = off' /\ left = off
    BY <1>3 DEF IInv, InStep, FromHeader
  <2>4. conn' \in 0 .. FileSize
    BY <1>3 DEF IInv, TypeOK, FromHeader
  <2> DEFINE b == [i \in {0} |-> left]
  <2>5. ~ astray => /\ hd = "open" => conn' = off'
                    /\ \A j \in 0 .. (1 - 1) : b[j] = off + j
    BY <2>3 DEF IInv, TypeOK
  <2>6. b \in [0 .. (1 - 1) -> Byte \cup {NoByte, Junk}] /\ Arrive(1, b)
    BY <1>3, <2>2
  <2> HIDE DEF b
  <2> QED
    BY <1>1, <1>3, <2>1, <2>4, <2>5, <2>6, ArrivedStep DEF FromHeader, Reads
<1>4. ASSUME NEW n \in 1 .. buffer_size, Receive(n),
             Arrive(n, [i \in 0 .. (n - 1) |-> conn + i])
      PROVE  IInv'
  <2> DEFINE b == [i \in 0 .. (n - 1) |-> conn + i]
  <2>1. conn \in Nat /\ conn + n <= FileSize /\ n \in 1 .. size /\ FileSize \in Nat
    BY <1>4, HttpAssumption, LoopAssumption DEF IInv, TypeOK, Receive
  <2>2. b \in [0 .. (n - 1) -> Byte \cup {NoByte, Junk}] /\ Arrive(n, b)
    BY <1>4, <2>1 DEF Byte
  <2>3. ~ astray => conn = off /\ conn' = off'
    BY <1>4 DEF IInv, InStep, Receive, ReadsLink
  <2>4. \A j \in 0 .. (n - 1) : b[j] = conn + j
    OBVIOUS
  <2>5. conn' \in 0 .. FileSize
    BY <1>4, <2>1 DEF Receive
  <2> HIDE DEF b
  <2> QED
    BY <1>1, <1>4, <2>1, <2>2, <2>3, <2>4, <2>5, ArrivedStep DEF Receive, ReadsLink, Reads
<1>5. CASE SkipDone
           /\ Arrive(len', [i \in 0 .. (len' - 1) |-> ring[wp + do_readseek_size + i]])
  <2> DEFINE b == [i \in 0 .. (len' - 1) |-> ring[wp + do_readseek_size + i]]
  <2>1. /\ pc = "http_errors" /\ pc' = "filled" /\ len' = len - do_readseek_size
        /\ do_readseek_size' = 0 /\ do_readseek_size > 0 /\ len > do_readseek_size
        /\ UNCHANGED << link, off, filesize, willclose, is_streamed, size, err_retry, astray >>
    BY <1>5 DEF SkipDone
  <2>2. astray
    BY <2>1 DEF IInv, InStep
  <2>3. /\ len <= size /\ wp + size <= N /\ len' \in 1 .. size
        /\ wp \in Nat /\ len \in Nat /\ do_readseek_size \in Nat /\ size \in Nat
    BY <2>1, LoopAssumption DEF IInv, HasRoom, TypeOK, Slot
  <2>4. \A i \in 0 .. (len' - 1) : wp + do_readseek_size + i \in Slot
    BY <2>1, <2>3, LoopAssumption DEF Slot, N
  <2>5. b \in [0 .. (len' - 1) -> Byte \cup {NoByte, Junk}] /\ Arrive(len', b)
    BY <1>5, <2>4 DEF IInv, TypeOK
  <2> HIDE DEF b
  <2>6. ring' \in [Slot -> Byte \cup {NoByte, Junk}]
    BY <2>1, <2>3, <2>5, Arrives
  <2>7. TypeOK'
    BY <1>1, <2>1, <2>3, <2>6 DEF IInv, TypeOK, link, Keeps
  <2>8. UNCHANGED << Forward, Reader >>
    BY <1>1, Unmoved
  <2>9. HasRoom' /\ CallOK' /\ AtReader'
    BY <1>1, <2>1, <2>3, <2>8 DEF IInv, HasRoom, CallOK, AtReader, Keeps
  <2> QED
    BY <2>1, <2>2, <2>7, <2>9 DEF IInv, InStep, RingHolds
<1> QED
  BY <1>2, <1>3, <1>4, <1>5 DEF UrlRead, ReadIntoRing

-----------------------------------------------------------------------------
(* The ring's steps.                                                       *)

\* wp goes on over len slots: they are read ahead, and all others lie len further
\* behind.
LEMMA Advance ==
  ASSUME TypeOK, NEW n \in Nat, n >= 1, wp + n <= N, Forward + n < N, wp' = Wrap(wp + n), rp' = rp
  PROVE  /\ wp' \in Slot /\ Forward' = Forward + n
         /\ \A i \in Slot : IF wp <= i /\ i < wp + n THEN Behind(i)' = wp + n - i
                            ELSE Behind(i)' = Behind(i) + n
<1>1. wp \in Nat /\ rp \in Nat /\ wp < N /\ rp < N /\ N \in Nat /\ N = buffer_size
  BY LoopAssumption DEF TypeOK, Slot, N
<1>2. CASE wp + n < N
  <2>1. wp' = wp + n
    BY <1>1, <1>2 DEF Wrap
  <2> QED
    BY <1>1, <1>2, <2>1 DEF Forward, Behind, Slot
<1>3. CASE wp + n = N
  <2>1. wp' = 0
    BY <1>1, <1>3 DEF Wrap
  <2>2. rp # 0
    BY <1>1, <1>3 DEF Forward
  <2> QED
    BY <1>1, <1>3, <2>1, <2>2 DEF Forward, Behind, Slot
<1> QED
  BY <1>1, <1>2, <1>3

\* What has arrived is read ahead now.
LEMMA FilledStep == IInv /\ Filled => IInv'
<1> SUFFICES ASSUME IInv, Filled PROVE IInv'
  OBVIOUS
<1>1. /\ TypeOK /\ pc = "filled" /\ len > 0 /\ len \in Nat /\ len >= 1 /\ rp' = rp
      /\ UNCHANGED << link, http, interrupted, astray, ring, rp >>
      /\ valid_data_size' = valid_data_size + len /\ pos' = pos + len /\ wp' = Wrap(wp + len)
  BY DEF Filled, IInv, TypeOK
<1>2. wp + len <= N /\ Forward + len < N /\ wp \in Nat
  <2>1. wp \in Nat /\ size \in Nat /\ N \in Nat /\ Forward \in Nat
    BY <1>1, Geometry, LoopAssumption DEF TypeOK, Slot, N
  <2> QED
    BY <1>1, <2>1 DEF IInv, HasRoom
<1>3. /\ wp' \in Slot /\ Forward' = Forward + len
      /\ \A i \in Slot : IF wp <= i /\ i < wp + len THEN Behind(i)' = wp + len - i
                         ELSE Behind(i)' = Behind(i) + len
  BY <1>1, <1>2, Advance
<1>4. InFlight = len /\ InFlight' = 0
  BY <1>1 DEF InFlight, Filled, Idle, FillEnds
<1>5. Forward \in Nat /\ pos \in Nat /\ valid_data_size \in Nat
  BY <1>1, Geometry DEF TypeOK
<1>6. Reader' = Reader
  BY <1>1, <1>3, <1>5 DEF Reader
<1>7. TypeOK'
  <2>1. /\ pc' \in {"idle", "lpread"} /\ size' = 0 /\ len' = 0 /\ err_retry' = 0
        /\ call' \in {call, NoCall} /\ open_retry' \in {0, open_retry} /\ at' = at
    BY DEF Filled, Idle, FillEnds, Keeps
  <2>2. NoCall \in [op : {"none", "read", "skip", "buffer", "seek", "reseek"}, len : Nat,
                    to : Nat, some : BOOLEAN]
    BY DEF NoCall
  <2> QED
    BY <1>1, <1>3, <1>5, <2>1, <2>2, HttpAssumption, LoopAssumption DEF TypeOK, link, http
<1>8. HasRoom'
  BY DEF Filled, Idle, HasRoom
<1>9. CallOK' /\ AtReader'
  <2>1. call.op \in {"none", "read", "skip", "buffer", "seek", "reseek"}
    BY <1>1 DEF TypeOK
  <2>2. CASE call.op = "buffer"
    BY <1>6, <2>2 DEF Filled, Idle, IInv, CallOK, AtReader, NoCall
  <2>3. CASE call.op # "buffer"
    <3>1. pc' = "lpread" /\ call' = call /\ at' = at
      BY <2>3 DEF Filled, Keeps
    <3>2. call.op \in {"read", "skip"}
      BY <1>1, <2>1, <2>3 DEF IInv, CallOK
    <3> QED
      BY <1>1, <1>6, <3>1, <3>2 DEF IInv, CallOK, AtReader
  <2> QED
    BY <2>2, <2>3
<1>10. InStep'
  <2> SUFFICES ASSUME ~ astray PROVE InStep'
    BY <1>1 DEF InStep
  <2>1. off = pos' + InFlight'
    BY <1>1, <1>4, <1>5 DEF IInv, InStep
  <2> QED
    BY <1>1, <2>1 DEF IInv, InStep, link, http
<1>11. RingHolds'
  <2> SUFFICES ASSUME ~ astray, NEW i \in Slot, Counts(i)', Behind(i)' <= N - InFlight'
               PROVE  ring[i] = pos' - Behind(i)'
    BY <1>1, <1>4 DEF RingHolds
  <2>1. Behind(i) \in 1 .. N /\ i \in Nat /\ N \in Nat
    BY <1>1, Geometry, LoopAssumption DEF Slot, N
  <2>2. CASE wp <= i /\ i < wp + len
    <3>1. i - wp \in 0 .. (InFlight - 1)
      BY <1>1, <1>2, <1>4, <2>1, <2>2
    <3>2. ring[wp + (i - wp)] = pos + (i - wp)
      BY <1>1, <3>1 DEF IInv, RingHolds
    <3>3. wp + (i - wp) = i /\ Behind(i)' = wp + len - i
      BY <1>2, <1>3, <2>1, <2>2
    <3> QED
      BY <1>1, <1>2, <1>5, <2>1, <3>2, <3>3
  <2>3. CASE ~ (wp <= i /\ i < wp + len)
    <3>1. Behind(i)' = Behind(i) + len
      BY <1>3, <2>3
    <3>2. Counts(i) /\ Behind(i) <= N - len
      BY <1>1, <1>3, <1>4, <1>5, <2>1, <3>1 DEF Counts
    <3>3. ring[i] = pos - Behind(i)
      BY <1>1, <1>4, <3>2 DEF IInv, RingHolds
    <3> QED
      BY <1>1, <1>5, <2>1, <3>1, <3>3
  <2> QED
    BY <2>2, <2>3
<1> QED
  BY <1>7, <1>8, <1>9, <1>10, <1>11 DEF IInv

\* Nothing has arrived.
LEMMA NotFilledStep == IInv /\ NotFilled => IInv'
<1> SUFFICES ASSUME IInv, NotFilled PROVE IInv'
  OBVIOUS
<1>1. /\ TypeOK /\ pc = "filled" /\ len <= 0
      /\ UNCHANGED << link, http, interrupted, astray, loopbuf >>
      /\ len' = 0 /\ size' = 0 /\ err_retry' = 0
  BY DEF NotFilled, IInv, Idle, FillEnds
<1>2. UNCHANGED << Forward, Reader >>
      /\ \A i \in Slot : Behind(i)' = Behind(i) /\ (Counts(i)' <=> Counts(i))
  BY <1>1, Unmoved DEF loopbuf
<1>3. InFlight = 0 /\ InFlight' = 0
  BY <1>1 DEF InFlight, TypeOK
<1>4. /\ pc' \in {"idle", "lpread"} /\ open_retry' \in {0, open_retry} /\ at' \in {at, Unknown}
      /\ call' \in {NoCall, [call EXCEPT !.some = FALSE]}
  BY DEF NotFilled, Idle
<1>5. TypeOK'
  <2>1. call' \in [op : {"none", "read", "skip", "buffer", "seek", "reseek"}, len : Nat,
                   to : Nat, some : BOOLEAN]
    <3>1. call \in [op : {"none", "read", "skip", "buffer", "seek", "reseek"}, len : Nat,
                    to : Nat, some : BOOLEAN]
      BY <1>1 DEF TypeOK
    <3>2. [call EXCEPT !.some = FALSE]
            \in [op : {"none", "read", "skip", "buffer", "seek", "reseek"}, len : Nat,
                to : Nat, some : BOOLEAN]
      BY <3>1
    <3>3. NoCall \in [op : {"none", "read", "skip", "buffer", "seek", "reseek"}, len : Nat,
                      to : Nat, some : BOOLEAN]
      BY DEF NoCall
    <3> QED
      BY <1>4, <3>2, <3>3
  <2> QED
    BY <1>1, <1>4, <2>1, HttpAssumption, LoopAssumption DEF TypeOK, link, http, loopbuf
<1>6. HasRoom'
  BY <1>4 DEF HasRoom
<1>7. CallOK' /\ AtReader'
  <2>1. CASE call.op = "skip" /\ (call.some \/ len = EAGAIN)
    <3>1. pc' = "lpread" /\ call' = [call EXCEPT !.some = FALSE]
      BY <2>1 DEF NotFilled
    <3>2. call'.op = "skip" /\ call'.len = call.len /\ call'.to = call.to
      BY <1>1, <2>1, <3>1 DEF TypeOK
    <3> QED
      BY <1>1, <1>2, <2>1, <3>1, <3>2 DEF IInv, CallOK, AtReader
  <2>2. CASE ~ (call.op = "skip" /\ (call.some \/ len = EAGAIN))
    <3>1. Idle(IF call.op = "skip" THEN Unknown ELSE at)
      BY <2>2 DEF NotFilled
    <3> QED
      BY <1>1, <1>2, <3>1 DEF Idle, NoCall, IInv, CallOK, AtReader
  <2> QED
    BY <2>1, <2>2
<1>8. InStep'
  BY <1>1, <1>3 DEF IInv, InStep, link, http, loopbuf
<1>9. RingHolds'
  BY <1>1, <1>2, <1>3 DEF IInv, RingHolds, loopbuf
<1> QED
  BY <1>5, <1>6, <1>7, <1>8, <1>9 DEF IInv

\* rp goes on over n slots of those that are read ahead.
LEMMA Consume ==
  ASSUME TypeOK, NEW n \in Nat, n <= Forward, rp' = Wrap(rp + n), wp' = wp
  PROVE  rp' \in Slot /\ Forward' = Forward - n /\ \A i \in Slot : Behind(i)' = Behind(i)
<1>1. wp \in Nat /\ rp \in Nat /\ wp < N /\ rp < N /\ N \in Nat /\ N = buffer_size
  BY LoopAssumption DEF TypeOK, Slot, N
<1>2. CASE rp + n < N
  BY <1>1, <1>2 DEF Wrap, Forward, Behind, Slot
<1>3. CASE rp + n >= N
  <2>1. wp < rp /\ rp' = rp + n - N
    BY <1>1, <1>3 DEF Wrap, Forward
  <2> QED
    BY <1>1, <1>3, <2>1 DEF Forward, Behind, Slot
<1> QED
  BY <1>1, <1>2, <1>3

\* The bytes at rp are the file's at Reader.
LEMMA Ahead ==
  ASSUME IInv, pc \notin {"http_errors", "filled"}, ~ astray
  PROVE  \A j \in 0 .. (N - 1) : j < Forward /\ rp + j < N => ring[rp + j] = Reader + j
<1> SUFFICES ASSUME NEW j \in 0 .. (N - 1), j < Forward, rp + j < N
             PROVE  ring[rp + j] = Reader + j
  OBVIOUS
<1>1. wp \in Nat /\ rp \in Nat /\ wp < N /\ rp < N /\ N \in Nat /\ N = buffer_size /\ pos \in Nat
  BY LoopAssumption DEF IInv, TypeOK, Slot, N
<1>2. rp + j \in Slot /\ Behind(rp + j) = Forward - j
  BY <1>1 DEF Behind, Forward, Slot
<1>3. Forward \in 0 .. (N - 1) /\ InFlight = 0
  BY Geometry DEF IInv, InFlight
<1>4. Counts(rp + j) /\ Behind(rp + j) <= N - InFlight
  BY <1>1, <1>2, <1>3 DEF Counts
<1>5. ring[rp + j] = pos - Behind(rp + j)
  BY <1>2, <1>4 DEF IInv, RingHolds
<1> QED
  BY <1>1, <1>2, <1>3, <1>5 DEF Reader

\* What can be read lies ahead.
LEMMA CanReadType ==
  ASSUME IInv, pc = "lpread"
  PROVE  /\ CanRead \in Nat /\ CanRead <= Forward /\ CanRead <= call.len /\ rp + CanRead <= N
         /\ call.len \in Nat
<1>1. wp \in Nat /\ rp \in Nat /\ wp < N /\ rp < N /\ N \in Nat /\ N = buffer_size
  BY LoopAssumption DEF IInv, TypeOK, Slot, N
<1>2. call.len \in Nat
  BY DEF IInv, TypeOK
<1> QED
  BY <1>1, <1>2 DEF CanRead, Forward, Least

\* url_lpread copies what lies ahead.
LEMMA CopyStep == IInv /\ Copy => IInv'
<1> SUFFICES ASSUME IInv, Copy PROVE IInv'
  OBVIOUS
<1>1. /\ TypeOK /\ pc = "lpread" /\ CanRead > 0 /\ rp' = Wrap(rp + CanRead)
      /\ UNCHANGED << link, http, interrupted, astray, ring, wp, valid_data_size, pos >>
  BY DEF Copy, IInv
<1>2. CanRead \in Nat /\ CanRead <= Forward /\ CanRead <= call.len /\ call.len \in Nat
  BY <1>1, CanReadType
<1>3. rp' \in Slot /\ Forward' = Forward - CanRead /\ \A i \in Slot : Behind(i)' = Behind(i)
  BY <1>1, <1>2, Consume
<1>4. Forward \in Nat /\ pos \in Nat /\ Reader \in Nat /\ Reader' = Reader + CanRead
  <2>1. Forward \in Nat /\ pos \in Nat
    BY <1>1, Geometry DEF TypeOK
  <2> QED
    BY <1>1, <1>2, <1>3, <2>1 DEF Reader, IInv, AtReader
<1>5. call.op \in {"read", "skip"} /\ call.len > 0 /\ at \in Nat \cup {Unknown}
  BY <1>1 DEF IInv, CallOK, TypeOK
<1>6. call \in [op : {"none", "read", "skip", "buffer", "seek", "reseek"}, len : Nat,
                to : Nat, some : BOOLEAN]
  BY <1>1 DEF TypeOK
<1> DEFINE told == IF call.op = "skip" THEN call.to
                   ELSE IF at = Unknown THEN at ELSE at + CanRead
<1>7. told \in Nat \cup {Unknown}
  BY <1>2, <1>5, <1>6, LoopAssumption
<1>8. InFlight = 0
  BY <1>1 DEF InFlight
<1>9. CASE call.len = CanRead
  <2>1. Idle(told)
    BY <1>9 DEF Copy
  <2>2. told \in {Unknown, Reader'}
    BY <1>1, <1>2, <1>4, <1>5, <1>9, LoopAssumption DEF IInv, CallOK, AtReader, TypeOK
  <2> HIDE DEF told
  <2>3. /\ pc' = "idle" /\ call' = NoCall /\ at' = told /\ size' = 0 /\ len' = 0 /\ err_retry' = 0
        /\ open_retry' = 0 /\ InFlight' = 0
    BY <2>1 DEF Idle, FillEnds, InFlight
  <2>4. TypeOK'
    BY <1>1, <1>3, <1>7, <2>3, HttpAssumption, LoopAssumption DEF TypeOK, link, http, NoCall
  <2>5. HasRoom' /\ CallOK' /\ AtReader'
    BY <1>2, <1>4, <2>2, <2>3 DEF HasRoom, CallOK, AtReader, NoCall
  <2>6. InStep'
    BY <1>1, <1>8, <2>3 DEF IInv, InStep, link, http
  <2>7. RingHolds'
    BY <1>1, <1>2, <1>3, <1>4, <1>8, <2>3, Geometry, LoopAssumption DEF IInv, RingHolds, Counts, N
  <2> QED
    BY <2>4, <2>5, <2>6, <2>7 DEF IInv
<1>10. CASE call.len # CanRead
  <2>1. /\ call' = [call EXCEPT !.len = @ - CanRead, !.some = TRUE]
        /\ at' = (IF call.op = "read" THEN told ELSE at)
        /\ UNCHANGED << pc, read, open_retry >>
    BY <1>10 DEF Copy
  <2>2. call'.op = call.op /\ call'.len = call.len - CanRead /\ call'.to = call.to
    BY <1>6, <2>1
  <2>3. call' \in [op : {"none", "read", "skip", "buffer", "seek", "reseek"}, len : Nat,
                   to : Nat, some : BOOLEAN]
    <3>1. call.len - CanRead \in Nat
      BY <1>2
    <3> QED
      BY <1>6, <2>1, <3>1
  <2>4. call.op # "skip" => at' \in {Unknown, Reader'}
    BY <1>1, <1>2, <1>4, <1>5, <2>1, LoopAssumption DEF IInv, AtReader, TypeOK
  <2>5. at' \in Nat \cup {Unknown}
    BY <1>5, <1>7, <2>1
  <2> HIDE DEF told
  <2>6. TypeOK'
    BY <1>1, <1>3, <2>1, <2>3, <2>5 DEF TypeOK, link, http, read
  <2>7. HasRoom' /\ InFlight' = 0
    BY <1>1, <2>1 DEF HasRoom, InFlight
  <2>8. CallOK'
    <3>1. call.op = "read" => call.len <= ReadMax
      BY DEF IInv, CallOK
    <3>2. call.op = "skip" => call.to = Reader + call.len
      BY DEF IInv, CallOK
    <3> QED
      BY <1>1, <1>2, <1>4, <1>5, <1>10, <2>1, <2>2, <3>1, <3>2, LoopAssumption DEF CallOK
  <2>9. AtReader'
    BY <1>2, <1>4, <2>2, <2>4 DEF AtReader
  <2>10. InStep'
    BY <1>1, <1>8, <2>1, <2>7 DEF IInv, InStep, link, http
  <2>11. RingHolds'
    BY <1>1, <1>2, <1>3, <1>4, <1>8, <2>7, Geometry, LoopAssumption DEF IInv, RingHolds, Counts, N
  <2> QED
    BY <2>6, <2>7, <2>8, <2>9, <2>10, <2>11 DEF IInv
<1> QED
  BY <1>9, <1>10

\* url_lpfillbuffer begins for a call.
LEMMA FillStep ==
  ASSUME IInv, pc \in {"idle", "lpread"}, Fill(block_read_size),
         UNCHANGED << interrupted, loopbuf, open_retry >>, at' = at,
         \/ pc = "lpread" /\ call' = call
         \/ /\ pc = "idle" /\ call'.op = "buffer"
            /\ call' \in [op : {"none", "read", "skip", "buffer", "seek", "reseek"}, len : Nat,
                          to : Nat, some : BOOLEAN]
  PROVE  IInv'
<1>1. /\ TypeOK /\ pc' \in {"filled", "http_read"} /\ InFlight = 0
      /\ UNCHANGED << link, http, astray >>
  BY DEF IInv, Fill, StartRead, InFlight
<1>2. UNCHANGED << Forward, Reader >>
      /\ \A i \in Slot : Behind(i)' = Behind(i) /\ (Counts(i)' <=> Counts(i))
  BY Unmoved DEF loopbuf
<1>3. pc' = "filled" => len' = 0 /\ size' = size /\ err_retry' = err_retry
  BY DEF Fill, StartRead
<1>0. TypeOK
  BY DEF IInv
<1>5. wp \in Nat /\ rp \in Nat /\ wp < N /\ rp < N /\ N \in Nat /\ N = buffer_size
  BY <1>0, LoopAssumption DEF TypeOK, Slot, N
<1>4. pc' = "http_read" => /\ Room(block_read_size) > 0 /\ size' = Room(block_read_size)
                           /\ len' = len /\ err_retry' = READ_RETRY_MAX
  <2>1. Room(block_read_size) \in Int
    BY <1>5, LoopAssumption DEF Room, Least
  <2> QED
    BY <2>1 DEF Fill, StartRead
<1>6. Room(block_read_size) > 0 => /\ Room(block_read_size) \in 1 .. N
                                   /\ wp + Room(block_read_size) <= N
                                   /\ Forward + Room(block_read_size) < N
  BY <1>5, LoopAssumption DEF Room, Least, Forward
<1>7. call' \in [op : {"none", "read", "skip", "buffer", "seek", "reseek"}, len : Nat,
                 to : Nat, some : BOOLEAN]
  BY <1>0 DEF TypeOK
<1>8. TypeOK'
  BY <1>1, <1>3, <1>4, <1>5, <1>6, <1>7, HttpAssumption, LoopAssumption
     DEF TypeOK, link, http, loopbuf
<1>9. HasRoom'
  BY <1>1, <1>2, <1>3, <1>4, <1>5, <1>6 DEF HasRoom, loopbuf
<1>10. InFlight' = 0
  BY <1>1, <1>3 DEF InFlight
<1>11. CallOK' /\ AtReader'
  <2>1. CASE pc = "lpread" /\ call' = call
    BY <1>1, <1>2, <2>1 DEF IInv, CallOK, AtReader
  <2>2. CASE pc = "idle" /\ call'.op = "buffer"
    <3>1. call.op = "none"
      BY <2>2 DEF IInv, CallOK
    <3> QED
      BY <1>1, <1>2, <2>2, <3>1 DEF IInv, CallOK, AtReader
  <2> QED
    BY <2>1, <2>2
<1>12. InStep'
  BY <1>1, <1>10 DEF IInv, InStep, link, http, loopbuf
<1>13. RingHolds'
  BY <1>1, <1>2, <1>10 DEF IInv, RingHolds, loopbuf
<1> QED
  BY <1>8, <1>9, <1>11, <1>12, <1>13 DEF IInv

LEMMA LpFillStep == IInv /\ (LpFill \/ Buffering) => IInv'
<1> DEFINE c == [NoCall EXCEPT !.op = "buffer"]
<1>1. /\ c.op = "buffer"
      /\ c \in [op : {"none", "read", "skip", "buffer", "seek", "reseek"}, len : Nat,
                to : Nat, some : BOOLEAN]
  BY DEF NoCall
<1>2. Buffering => call' = c
  BY DEF Buffering
<1> HIDE DEF c
<1> QED
  BY <1>1, <1>2, FillStep DEF LpFill, Buffering, Keeps


-----------------------------------------------------------------------------
(* The demuxer's calls.                                                    *)

\* A call begins and the input is left alone: only rp and valid_data_size change.
LEMMA CallStep ==
  ASSUME IInv, pc = "idle", pc' \notin {"http_read", "http_errors", "filled"},
         UNCHANGED << link, http, read, interrupted, astray, ring, wp, pos, open_retry >>,
         rp' \in Slot, valid_data_size' \in {0, valid_data_size},
         Forward' \in Nat, Forward' <= Forward \/ Forward' <= valid_data_size,
         pc' \in {"idle", "lpread", "http_seek"}, at' \in Nat \cup {Unknown},
         call' \in [op : {"none", "read", "skip", "buffer", "seek", "reseek"}, len : Nat,
                    to : Nat, some : BOOLEAN],
         CallOK', AtReader'
  PROVE  IInv'
<1>1. TypeOK'
  BY DEF IInv, TypeOK, link, http, read
<1>2. HasRoom' /\ InFlight' = 0 /\ InFlight = 0
  BY DEF HasRoom, InFlight
<1>3. InStep'
  BY <1>2 DEF IInv, InStep, link, http
<1>4. RingHolds'
  <2> SUFFICES ASSUME ~ astray, NEW i \in Slot, Counts(i)'
               PROVE  ring[i] = pos - Behind(i)'
    BY <1>2 DEF RingHolds
  <2>1. Behind(i)' = Behind(i) /\ Behind(i) \in 1 .. N /\ Forward \in Nat /\ valid_data_size \in Nat
    BY Geometry DEF Behind, IInv, TypeOK
  <2>2. Counts(i)
    BY <2>1 DEF Counts
  <2> QED
    BY <1>2, <2>1, <2>2, LoopAssumption DEF IInv, RingHolds, N
<1> QED
  BY <1>1, <1>2, <1>3, <1>4 DEF IInv

LEMMA ReadStep ==
  ASSUME IInv, NEW n \in 1 .. ReadMax, Read(n)
  PROVE  IInv'
<1>1. /\ pc = "idle" /\ pc' = "lpread" /\ call' = [NoCall EXCEPT !.op = "read", !.len = n]
      /\ UNCHANGED << link, http, read, interrupted, astray, loopbuf, open_retry, at >>
  BY DEF Read, Keeps
<1>2. call'.op = "read" /\ call'.len = n
  BY <1>1 DEF NoCall
<1>3. call' \in [op : {"none", "read", "skip", "buffer", "seek", "reseek"}, len : Nat,
                 to : Nat, some : BOOLEAN]
  <2>1. n \in Nat
    BY LoopAssumption
  <2> QED
    BY <1>1, <2>1 DEF NoCall
<1>4. Forward \in Nat /\ rp \in Slot /\ at \in Nat \cup {Unknown}
  BY Geometry DEF IInv, TypeOK
<1>5. Forward' = Forward /\ Reader' = Reader
  BY <1>1 DEF Forward, Reader, loopbuf
<1>6. CallOK' /\ AtReader'
  BY <1>1, <1>2, <1>5, LoopAssumption DEF IInv, CallOK, AtReader
<1> QED
  BY <1>1, <1>3, <1>4, <1>5, <1>6, CallStep DEF loopbuf

LEMMA SeekInBufferStep ==
  ASSUME IInv, NEW o \in Offsets, SeekInBuffer(o)
  PROVE  IInv'
<1>1. /\ pc = "idle" /\ at' = o
      /\ UNCHANGED << pc, link, http, read, interrupted, astray, ring, wp, valid_data_size, pos,
                      call, open_retry >>
  BY DEF SeekInBuffer, StartSeek
<1>2. /\ wp \in Nat /\ rp \in Nat /\ wp < N /\ rp < N /\ N \in Nat /\ N = buffer_size
      /\ pos \in Nat /\ o \in Nat /\ valid_data_size \in Nat /\ Slot = 0 .. (N - 1)
  BY LoopAssumption DEF IInv, TypeOK, Slot, N
<1>3. Forward \in 0 .. (N - 1) /\ Gap(o) = o - pos + Forward /\ Gap(o) \in Int
  BY <1>2, Geometry DEF IInv, Gap, Reader
<1>4. /\ rp' \in Slot /\ Forward' = Forward - Gap(o) /\ Forward' \in Nat
      /\ Forward' <= Forward \/ Forward' <= valid_data_size
  <2>1. CASE 0 <= Gap(o) /\ Gap(o) <= Forward /\ rp' = Wrap(rp + Gap(o))
    BY <1>1, <1>2, <1>3, <2>1, Consume DEF IInv
  <2>2. CASE /\ Gap(o) < 0 /\ - Gap(o) <= Back
             /\ rp' = (IF rp + Gap(o) < 0 THEN rp + Gap(o) + buffer_size ELSE rp + Gap(o))
    <3>1. - Gap(o) <= valid_data_size - Forward /\ - Gap(o) < N - Forward
      BY <1>2, <1>3, <2>2, Geometry DEF IInv
    <3> QED
      BY <1>1, <1>2, <1>3, <2>2, <3>1 DEF Forward
  <2> QED
    BY <2>1, <2>2 DEF SeekInBuffer
<1>5. Reader' = o
  BY <1>1, <1>2, <1>3, <1>4 DEF Reader
<1>6. CallOK' /\ AtReader'
  BY <1>1, <1>2, <1>5 DEF IInv, CallOK, AtReader
<1> QED
  BY <1>1, <1>2, <1>4, <1>6, CallStep DEF IInv, TypeOK

LEMMA ReadSeekStep ==
  ASSUME IInv, NEW o \in Offsets, ReadSeek(o)
  PROVE  IInv'
<1>1. /\ pc = "idle" /\ pc' = "lpread" /\ rp' = Wrap(rp + Forward)
      /\ UNCHANGED << link, http, read, interrupted, astray, ring, wp, valid_data_size, pos,
                      open_retry, at >>
      /\ call' = [op |-> "skip", len |-> Gap(o) - Forward, to |-> o, some |-> FALSE]
  BY DEF ReadSeek, StartSeek, Keeps
<1>2. pos \in Nat /\ o \in Nat /\ at \in Nat \cup {Unknown}
  BY LoopAssumption DEF IInv, TypeOK
<1>3. Forward \in Nat /\ Back \in Nat /\ Gap(o) = o - pos + Forward /\ Gap(o) \in Int
  BY <1>2, Geometry DEF IInv, Gap, Reader
<1>4. Gap(o) > Forward
  BY <1>3 DEF ReadSeek, OutOfBuffer, ReadSeeks
<1>5. rp' \in Slot /\ Forward' = 0
  BY <1>1, <1>3, Consume DEF IInv
<1>6. Reader' = pos
  BY <1>1, <1>2, <1>5 DEF Reader
<1>7. call'.op = "skip" /\ call'.len = Gap(o) - Forward /\ call'.to = o
  BY <1>1
<1>8. call' \in [op : {"none", "read", "skip", "buffer", "seek", "reseek"}, len : Nat,
                 to : Nat, some : BOOLEAN]
  BY <1>1, <1>2, <1>3, <1>4
<1>9. CallOK' /\ AtReader'
  BY <1>1, <1>2, <1>3, <1>4, <1>6, <1>7 DEF CallOK, AtReader
<1> QED
  BY <1>1, <1>2, <1>3, <1>5, <1>8, <1>9, CallStep

LEMMA LowSeekStep ==
  ASSUME IInv, NEW o \in Offsets, LowSeek(o)
  PROVE  IInv'
<1>1. /\ pc = "idle" /\ valid_data_size' \in {0, valid_data_size}
      /\ UNCHANGED << link, http, interrupted, astray, ring, rp, wp, pos >>
      /\ HttpSeek("seek", o) \/ HttpSeek("reseek", pos) \/ Idle(Unknown)
  BY DEF LowSeek, StartSeek
<1>2. /\ pos \in Nat /\ o \in Nat /\ at \in Nat \cup {Unknown} /\ Forward \in Nat /\ rp \in Slot
      /\ TypeOK
  BY Geometry, LoopAssumption DEF IInv, TypeOK
<1>3. Forward' = Forward /\ Reader' = Reader
  BY <1>1 DEF Forward, Reader
<1>4. ASSUME NEW op \in {"seek", "reseek"}, NEW t \in Nat, HttpSeek(op, t),
             op = "reseek" => t = pos
      PROVE  IInv'
  <2>1. call' = [NoCall EXCEPT !.op = op, !.to = t]
    BY <1>4 DEF HttpSeek
  <2>2. call'.op = op /\ call'.to = t
    BY <2>1 DEF NoCall
  <2>3. call' \in [op : {"none", "read", "skip", "buffer", "seek", "reseek"}, len : Nat,
                   to : Nat, some : BOOLEAN]
    BY <2>1 DEF NoCall
  <2>4. pc' = "http_seek" /\ UNCHANGED << read, open_retry, at >>
    BY <1>4 DEF HttpSeek
  <2>5. CallOK' /\ AtReader'
    BY <1>1, <1>3, <1>4, <2>2, <2>4 DEF IInv, CallOK, AtReader
  <2> QED
    BY <1>1, <1>2, <1>3, <2>3, <2>4, <2>5, CallStep
<1>5. CASE Idle(Unknown)
  <2>1. /\ pc' = "idle" /\ call' = NoCall /\ at' = Unknown /\ size' = 0 /\ len' = 0
        /\ err_retry' = 0 /\ open_retry' = 0
    BY <1>5 DEF Idle, FillEnds
  <2>2. TypeOK'
    BY <1>1, <1>2, <2>1, HttpAssumption, LoopAssumption DEF TypeOK, link, http, NoCall
  <2>3. HasRoom' /\ CallOK' /\ AtReader' /\ InFlight = 0 /\ InFlight' = 0
    BY <1>1, <1>3, <2>1 DEF HasRoom, IInv, CallOK, AtReader, NoCall, InFlight
  <2>4. InStep'
    BY <1>1, <2>3 DEF IInv, InStep, link, http
  <2>5. \A i \in Slot : Behind(i)' = Behind(i) /\ (Counts(i)' => Counts(i))
    BY <1>1, <1>2, <1>3, Geometry DEF Behind, Counts, TypeOK
  <2>6. RingHolds'
    BY <1>1, <2>3, <2>5 DEF IInv, RingHolds
  <2> QED
    BY <2>2, <2>3, <2>4, <2>6 DEF IInv
<1> QED
  BY <1>1, <1>2, <1>4, <1>5

\* http_seek keeps on trying: where the input stands is not known any more.
LEMMA ReopenForSeekStep == IInv /\ ReopenForSeek => IInv'
<1> SUFFICES ASSUME IInv, ReopenForSeek PROVE IInv'
  OBVIOUS
<1>1. /\ TypeOK /\ pc = "http_seek" /\ Breaks(call.to) /\ open_retry < READ_RETRY_MAX
      /\ open_retry' = open_retry + 1 /\ astray' = TRUE
      /\ UNCHANGED << pc, read, interrupted, loopbuf, call, at >>
  BY DEF ReopenForSeek, TriesOn, Keeps, IInv
<1>2. call.to \in Int
  BY <1>1 DEF TypeOK
<1>3. /\ hd' \in {"open", "dead", "none"} /\ conn' \in 0 .. FileSize
      /\ left' \in Byte \cup {NoByte, Junk} /\ off' \in Nat
      /\ filesize' \in {-1, FileSize} /\ do_readseek_size' \in Nat
      /\ willclose' \in BOOLEAN /\ is_streamed' \in BOOLEAN
      /\ failures' \in 0 .. MaxFailures
  BY <1>1, <1>2, RequestTypes
<1>4. open_retry' \in 0 .. READ_RETRY_MAX
  BY <1>1, HttpAssumption DEF TypeOK
<1>5. TypeOK'
  BY <1>1, <1>3, <1>4 DEF TypeOK, read, loopbuf
<1>6. Forward' = Forward /\ Reader' = Reader
  BY <1>1 DEF Forward, Reader, loopbuf
<1>7. HasRoom' /\ CallOK' /\ AtReader'
  BY <1>1, <1>6 DEF HasRoom, IInv, CallOK, AtReader, loopbuf
<1> QED
  BY <1>1, <1>5, <1>7 DEF IInv, InStep, RingHolds

\* http_seek returns.  After a seek the ring is empty.
LEMMA SeekReturnsStep == IInv /\ SeekReturns => IInv'
<1> SUFFICES ASSUME IInv, SeekReturns PROVE IInv'
  OBVIOUS
<1>1. /\ TypeOK /\ pc = "http_seek"
      /\ Reopens(call.to) \/ Breaks(call.to)
      /\ UNCHANGED interrupted
  BY DEF SeekReturns, IInv
<1>2. call.to \in Nat /\ call.to \in Int /\ Wanted(call.to) = call.to
  BY <1>1 DEF TypeOK, Wanted
<1>3. /\ hd' \in {"open", "dead", "none"} /\ conn' \in 0 .. FileSize
      /\ left' \in Byte \cup {NoByte, Junk} /\ off' \in Nat
      /\ filesize' \in {-1, FileSize} /\ do_readseek_size' \in Nat
      /\ willclose' \in BOOLEAN /\ is_streamed' \in BOOLEAN
      /\ failures' \in 0 .. MaxFailures
  BY <1>1, <1>2, RequestTypes
<1>4. Straight' => /\ off' = call.to /\ do_readseek_size' = 0 /\ hd' = "open"
                   /\ left' = NoByte => conn' = off'
                   /\ left' # NoByte => left' = off' /\ conn' = off' + 1
  BY <1>1, <1>2, StraightIsWanted
<1>5. NoCall \in [op : {"none", "read", "skip", "buffer", "seek", "reseek"}, len : Nat,
                  to : Nat, some : BOOLEAN]
  BY DEF NoCall
<1>6. CASE call.op = "seek"
  <2>1. /\ rp' = 0 /\ wp' = 0 /\ valid_data_size' = 0 /\ pos' = call.to
        /\ ring' = [i \in Slot |-> NoByte] /\ Idle(call.to) /\ astray' = ~ Straight'
    BY <1>6 DEF SeekReturns
  <2>2. /\ pc' = "idle" /\ call' = NoCall /\ at' = call.to /\ size' = 0 /\ len' = 0
        /\ err_retry' = 0 /\ open_retry' = 0
    BY <2>1 DEF Idle, FillEnds
  <2>3. TypeOK'
    BY <1>1, <1>2, <1>3, <1>5, <2>1, <2>2, HttpAssumption, LoopAssumption DEF TypeOK, Slot, Straight
  <2>4. Forward' = 0 /\ Reader' = call.to /\ InFlight' = 0
    BY <1>2, <2>1, <2>2 DEF Forward, Reader, InFlight
  <2>5. HasRoom' /\ CallOK' /\ AtReader'
    BY <1>2, <2>2, <2>4 DEF HasRoom, CallOK, AtReader, NoCall
  <2>6. InStep'
    <3>1. astray' = FALSE => Straight'
      BY <2>1
    <3>2. astray' \in BOOLEAN
      BY <2>1
    <3> QED
      BY <1>2, <1>4, <2>1, <2>4, <3>1, <3>2 DEF InStep
  <2>7. \A i \in Slot : ~ Counts(i)'
    BY <2>1, <2>4, LoopAssumption DEF Counts, Behind, Slot, N
  <2> QED
    BY <2>3, <2>4, <2>5, <2>6, <2>7 DEF IInv, RingHolds
<1>7. CASE call.op # "seek"
  <2>1. /\ Idle(Unknown) /\ astray' = (astray \/ ~ Straight') /\ UNCHANGED loopbuf
        /\ call.to = pos
    BY <1>1, <1>7 DEF SeekReturns, IInv, CallOK
  <2>2. /\ pc' = "idle" /\ call' = NoCall /\ at' = Unknown /\ size' = 0 /\ len' = 0
        /\ err_retry' = 0 /\ open_retry' = 0
    BY <2>1 DEF Idle, FillEnds
  <2>3. TypeOK'
    <3>1. astray' \in BOOLEAN
      BY <2>1
    <3> QED
      BY <1>1, <1>3, <1>5, <2>1, <2>2, <3>1, HttpAssumption, LoopAssumption DEF TypeOK, loopbuf
  <2>4. UNCHANGED << Forward, Reader >>
        /\ \A i \in Slot : Behind(i)' = Behind(i) /\ (Counts(i)' <=> Counts(i))
    BY <2>1, Unmoved DEF loopbuf
  <2>5. InFlight = 0 /\ InFlight' = 0
    BY <1>1, <2>2 DEF InFlight
  <2>6. HasRoom' /\ CallOK' /\ AtReader'
    BY <2>2, <2>4 DEF HasRoom, IInv, CallOK, AtReader, NoCall
  <2>7. InStep'
    <3>1. ~ astray' => Straight' /\ pos' = pos
      BY <2>1 DEF loopbuf
    <3> QED
      BY <1>2, <1>4, <2>1, <2>5, <3>1 DEF InStep, IInv, TypeOK
  <2>8. RingHolds'
    BY <2>1, <2>4, <2>5 DEF IInv, RingHolds, loopbuf
  <2> QED
    BY <2>3, <2>6, <2>7, <2>8 DEF IInv
<1> QED
  BY <1>6, <1>7

LEMMA StopStep == IInv /\ (Stop \/ UNCHANGED vars) => IInv'
<1> SUFFICES ASSUME IInv, Stop \/ UNCHANGED vars PROVE IInv'
  OBVIOUS
<1>1. /\ UNCHANGED << pc, link, http, read, astray, loopbuf, call, open_retry, at >>
      /\ interrupted' \in BOOLEAN
  BY DEF Stop, Keeps, vars, IInv, TypeOK
<1>2. UNCHANGED << Forward, Reader >>
      /\ \A i \in Slot : Behind(i)' = Behind(i) /\ (Counts(i)' <=> Counts(i))
  BY <1>1, Unmoved DEF loopbuf
<1>3. InFlight' = InFlight
  BY <1>1 DEF InFlight, read
<1>4. TypeOK'
  BY <1>1 DEF IInv, TypeOK, link, http, read, loopbuf
<1>5. HasRoom' /\ CallOK' /\ AtReader'
  BY <1>1, <1>2 DEF IInv, HasRoom, CallOK, AtReader, read, loopbuf
<1>6. InStep' /\ RingHolds'
  BY <1>1, <1>2, <1>3 DEF IInv, InStep, RingHolds, link, http, loopbuf
<1> QED
  BY <1>4, <1>5, <1>6 DEF IInv

\* IInv is inductive.
LEMMA NextStep == IInv /\ [Next]_vars => IInv'
<1> SUFFICES ASSUME IInv, [Next]_vars PROVE IInv'
  OBVIOUS
<1>1. CASE Thread
  BY <1>1, UrlReadStep, FilledStep, NotFilledStep, CopyStep, LpFillStep, ReopenForSeekStep,
     SeekReturnsStep DEF Thread
<1>2. CASE Buffering
  BY <1>2, LpFillStep
<1>3. CASE Stop \/ UNCHANGED vars
  BY <1>3, StopStep
<1>4. CASE \E n \in 1 .. ReadMax : Read(n)
  BY <1>4, ReadStep
<1>5. CASE \E o \in Offsets : SeekInBuffer(o) \/ ReadSeek(o) \/ LowSeek(o)
  BY <1>5, SeekInBufferStep, ReadSeekStep, LowSeekStep
<1> QED
  BY <1>1, <1>2, <1>3, <1>4, <1>5 DEF Next

LEMMA Invariance == Spec => []IInv
BY InitInv, NextStep, PTL DEF Spec

\* Every state the thread and the server can bring about has its types.
THEOREM TypeCorrect == Spec => []TypeOK
<1>1. IInv => TypeOK
  BY DEF IInv
<1> QED
  BY <1>1, Invariance, PTL

-----------------------------------------------------------------------------
(* What is still to be read is not written over.                           *)

\* There is no unread byte in a fill's room.
LEMMA RoomIsRead ==
  ASSUME IInv, pc \in {"http_read", "http_errors"}, NEW n \in 1 .. size
  PROVE  \A i \in Unread : ~ (wp <= i /\ i < wp + n)
<1>1. wp \in Nat /\ rp \in Nat /\ wp < N /\ rp < N /\ N \in Nat /\ N = buffer_size /\ size \in Nat
  BY LoopAssumption DEF IInv, TypeOK, Slot, N
<1>2. wp + n <= N /\ Forward + n < N
  BY <1>1, Geometry DEF IInv, HasRoom
<1> QED
  BY <1>1, <1>2 DEF Unread, Slot, Forward

LEMMA UnreadStays ==
  IInv /\ [Next]_vars => \A i \in Unread : i \in Unread' => ring'[i] = ring[i]
<1> SUFFICES ASSUME IInv, [Next]_vars, NEW i \in Unread, i \in Unread' PROVE ring'[i] = ring[i]
  OBVIOUS
<1>1. i \in Slot
  BY DEF Unread
<1>2. ASSUME NEW n \in 1 .. size, NEW b, Arrive(n, b), pc \in {"http_read", "http_errors"}
      PROVE  ring'[i] = ring[i]
  <2>1. i \notin wp .. (wp + n - 1)
    BY <1>1, <1>2, RoomIsRead, LoopAssumption DEF IInv, TypeOK, Slot
  <2> QED
    BY <1>1, <1>2, <2>1 DEF Arrive
<1>3. CASE UrlRead
  <2>1. CASE UNCHANGED ring
    BY <2>1
  <2>2. CASE FromHeader /\ Arrive(1, [k \in {0} |-> left])
    <3>1. 1 \in 1 .. size /\ pc = "http_read"
      BY <2>2 DEF FromHeader, Reads, IInv, HasRoom, TypeOK
    <3> QED
      BY <1>2, <2>2, <3>1
  <2>3. ASSUME NEW n \in 1 .. buffer_size, Receive(n),
               Arrive(n, [k \in 0 .. (n - 1) |-> conn + k])
        PROVE  ring'[i] = ring[i]
    <3>1. n \in 1 .. size /\ pc = "http_read"
      BY <2>3, LoopAssumption DEF Receive, ReadsLink, Reads, IInv, TypeOK
    <3> QED
      BY <1>2, <2>3, <3>1
  <2>4. CASE SkipDone
             /\ Arrive(len', [k \in 0 .. (len' - 1) |-> ring[wp + do_readseek_size + k]])
    <3>1. len' \in 1 .. size /\ pc = "http_errors"
      BY <2>4 DEF SkipDone, IInv, HasRoom, TypeOK
    <3> QED
      BY <1>2, <2>4, <3>1
  <2> QED
    BY <1>3, <2>1, <2>2, <2>3, <2>4 DEF UrlRead, ReadIntoRing
<1>4. CASE SeekReturns
  <2>1. call.op = "seek" => rp' = 0 /\ wp' = 0
    BY <1>4 DEF SeekReturns
  <2>2. call.op # "seek" => ring' = ring
    BY <1>4 DEF SeekReturns, loopbuf
  <2>3. rp' = 0 /\ wp' = 0 => Unread' = {}
    BY LoopAssumption DEF Unread, Slot
  <2> QED
    BY <2>1, <2>2, <2>3
<1>5. CASE ~ UrlRead /\ ~ SeekReturns
  <2>1. ring' = ring
    BY <1>5 DEF Next, Thread, Filled, NotFilled, Copy, LpFill, ReopenForSeek, Buffering, Stop, Read,
               SeekInBuffer, ReadSeek, LowSeek, loopbuf, vars
  <2> QED
    BY <2>1
<1> QED
  BY <1>3, <1>4, <1>5

\* What arrives is never written over data that is still to be read
\* (url_lpfillbuffer), for every size of the ring, the blocks and the reserve.
THEOREM KeepsUnreadCorrect == Spec => KeepsUnread
BY Invariance, UnreadStays, PTL DEF Spec, KeepsUnread
-----------------------------------------------------------------------------
(* The input is a stream of the file's bytes.                              *)

\* url_lpread delivers the bytes that follow.
LEMMA CopyDelivers ==
  ASSUME IInv, Copy, call.op = "read", ~ astray, at # Unknown
  PROVE  /\ CanRead \in 1 .. ReadMax /\ at' = at + CanRead
         /\ got' = [i \in 1 .. CanRead |-> at + (i - 1)]
<1>1. /\ pc = "lpread" /\ CanRead > 0 /\ got' = [i \in 1 .. CanRead |-> ring[rp + i - 1]]
      /\ at' = at + CanRead
  BY DEF Copy, Idle
<1>2. /\ CanRead \in Nat /\ CanRead <= Forward /\ rp + CanRead <= N /\ CanRead <= call.len
      /\ call.len \in Nat
  BY <1>1, CanReadType
<1>3. at = Reader /\ call.len <= ReadMax
  BY <1>1 DEF IInv, AtReader, CallOK
<1>4. /\ Forward \in 0 .. (N - 1) /\ N \in Nat /\ rp \in Nat
      /\ \A j \in 0 .. (N - 1) : j < Forward /\ rp + j < N => ring[rp + j] = Reader + j
  <2>1. \A j \in 0 .. (N - 1) : j < Forward /\ rp + j < N => ring[rp + j] = Reader + j
    BY <1>1, Ahead
  <2>2. Forward \in 0 .. (N - 1) /\ N \in Nat /\ rp \in Nat
    BY Geometry, LoopAssumption DEF IInv, TypeOK, Slot, N
  <2> QED
    BY <2>1, <2>2
<1>5. ASSUME NEW i \in 1 .. CanRead PROVE ring[rp + i - 1] = at + (i - 1)
  <2>1. i - 1 \in 0 .. (N - 1) /\ i - 1 < Forward /\ rp + (i - 1) < N
    BY <1>2, <1>4
  <2>2. ring[rp + (i - 1)] = Reader + (i - 1)
    BY <1>4, <2>1
  <2>3. rp + (i - 1) = rp + i - 1
    BY <1>2, <1>4
  <2> QED
    BY <1>3, <2>2, <2>3
<1> QED
  BY <1>1, <1>2, <1>3, <1>5, LoopAssumption

LEMMA StreamStep == IInv /\ [Next]_vars /\ TypeOK'
                    => [Stream!Next]_<< IF astray THEN Unknown ELSE at, got >>
<1> SUFFICES ASSUME IInv, [Next]_vars, TypeOK'
             PROVE  [Stream!Next]_<< IF astray THEN Unknown ELSE at, got >>
  OBVIOUS
<1>1. CASE got' = << >>
  <2>1. (IF astray THEN Unknown ELSE at)' \in Nat \cup {Unknown}
    BY DEF TypeOK
  <2>2. Stream!Go
    BY <1>1, <2>1 DEF Stream!Go
  <2> QED
    BY <2>2 DEF Stream!Next
<1>2. CASE Copy /\ call.op = "read"
  <2>1. astray' = astray
    BY <1>2 DEF Copy
  <2>2. CASE astray
    BY <2>1, <2>2 DEF Stream!Next, Stream!Grope
  <2>3. CASE ~ astray /\ at = Unknown
    <3>1. at' = Unknown
      BY <1>2, <2>3 DEF Copy, Idle
    <3> QED
      BY <2>1, <2>3, <3>1 DEF Stream!Next, Stream!Grope
  <2>4. CASE ~ astray /\ at # Unknown
    <3>1. /\ CanRead \in 1 .. ReadMax /\ at' = at + CanRead
          /\ got' = [i \in 1 .. CanRead |-> at + (i - 1)]
      BY <1>2, <2>4, CopyDelivers
    <3>2. Stream!Deliver(CanRead)
      BY <2>1, <2>4, <3>1 DEF Stream!Deliver
    <3> QED
      BY <3>1, <3>2 DEF Stream!Next
  <2> QED
    BY <2>2, <2>3, <2>4
<1>3. CASE UNCHANGED vars
  BY <1>3 DEF vars
<1>4. CASE Next /\ ~ (Copy /\ call.op = "read")
  <2>1. got' = << >>
    BY <1>4 DEF Next, Thread, UrlRead, Filled, NotFilled, Copy, LpFill, ReopenForSeek, SeekReturns,
               Buffering, Stop, Read, SeekInBuffer, ReadSeek, LowSeek, Keeps
  <2> QED
    BY <1>1, <2>1
<1> QED
  BY <1>2, <1>3, <1>4

\* As long as the connection has not gone astray, every read delivers the bytes of
\* the file from where the last seek has left it: the ring between the http input and
\* the demuxer is a stream, whatever the sizes, and through reconnections.
THEOREM StreamCorrect == Spec => StreamSpec
<1>1. Init => Stream!Init
  BY DEF Init, HttpInit, Stream!Init
<1>2. IInv /\ IInv' /\ [Next]_vars => [Stream!Next]_<< IF astray THEN Unknown ELSE at, got >>
  BY StreamStep DEF IInv
<1> QED
  BY <1>1, <1>2, Invariance, PTL DEF Spec, StreamSpec, Stream!Spec
-----------------------------------------------------------------------------
(* An interrupt ends a call in a bounded number of steps.                  *)

\* A read seek that has copied something goes on after a failure, once.
GoesOn == call.op = "skip" /\ call.some

\* The steps the thread has before it, at most, if nothing is copied any more.
Stage ==
  CASE pc = "idle" -> 0
    [] pc = "http_seek" -> 1
    [] pc = "filled" /\ len <= 0 /\ ~ (call.op = "skip" /\ (call.some \/ len = EAGAIN)) -> 1
    [] pc = "http_read" /\ ~ GoesOn -> 2
    [] pc = "lpread" /\ ~ GoesOn -> 3
    [] pc = "filled" /\ len <= 0 /\ call.op = "skip" /\ (call.some \/ len = EAGAIN) -> 4
    [] pc = "http_read" /\ GoesOn -> 5
    [] pc = "lpread" /\ GoesOn -> 6
    [] pc = "filled" /\ len > 0 -> 7
    [] OTHER -> 8   \* http_errors

\* Copying a byte may bring back all but the last of these steps.
StepsLeft == 9 * call.len + Stage

\* Of an interrupted call, every step of the system is the thread's and brings the
\* end nearer, and the interrupt stays.
ComesNearer ==
  interrupted /\ pc # "idle" => interrupted' /\ StepsLeft' \in 0 .. (StepsLeft - 1)

\* A call is under way exactly as long as there are steps left.
LEMMA StageType ==
  ASSUME TypeOK
  PROVE  /\ Stage \in 0 .. 8 /\ (Stage = 0 <=> pc = "idle")
         /\ StepsLeft \in Nat
<1>1. /\ pc \in {"idle", "lpread", "http_read", "http_errors", "filled", "http_seek"}
      /\ len \in Int /\ call.len \in Nat
  BY DEF TypeOK
<1>2. Stage \in 0 .. 8 /\ (Stage = 0 <=> pc = "idle")
  BY <1>1 DEF Stage
<1> QED
  BY <1>1, <1>2 DEF StepsLeft

\* The call is over, or it is as long as it was and a stage nearer to its end.
LEMMA NearerEnd ==
  ASSUME TypeOK, pc # "idle",
         \/ pc' = "idle" /\ call' = NoCall
         \/ call'.len = call.len /\ Stage' \in Int /\ Stage' < Stage
  PROVE  StepsLeft' < StepsLeft
<1>1. Stage \in 1 .. 8 /\ call.len \in Nat /\ StepsLeft = 9 * call.len + Stage
  BY StageType DEF StepsLeft, TypeOK
<1>2. CASE pc' = "idle" /\ call' = NoCall
  <2>1. Stage' = 0 /\ call'.len = 0
    BY <1>2 DEF Stage, NoCall
  <2>2. StepsLeft' = 0
    BY <2>1 DEF StepsLeft
  <2> QED
    BY <1>1, <2>2
<1>3. CASE call'.len = call.len /\ Stage' \in Int /\ Stage' < Stage
  <2>1. StepsLeft' = 9 * call.len + Stage'
    BY <1>3 DEF StepsLeft
  <2> QED
    BY <1>1, <1>3, <2>1
<1> QED
  BY <1>2, <1>3

\* url_read returns, with EIO when it has not looked for data yet.
LEMMA UrlReadNears ==
  ASSUME TypeOK, interrupted, UrlRead
  PROVE  pc # "idle" /\ call' = call /\ Stage' \in Int /\ Stage' < Stage
<1>1. call' = call /\ GoesOn' = GoesOn
  BY DEF UrlRead, GoesOn
<1>2. len \in Int /\ do_readseek_size \in Nat
  BY DEF TypeOK
<1>3. CASE Interrupted
  <2>1. pc = "http_read" /\ pc' = "filled" /\ len' = -5
    BY <1>3 DEF Interrupted, EIO
  <2>2. Stage \in {2, 5} /\ (GoesOn => Stage = 5)
    BY <2>1 DEF Stage
  <2>3. Stage' = IF GoesOn THEN 4 ELSE 1
    BY <1>1, <2>1 DEF Stage, GoesOn, EAGAIN
  <2> QED
    BY <1>1, <2>1, <2>2, <2>3
<1>4. CASE Return \/ SkipDone \/ SkipMore
  <2>1. pc = "http_errors" /\ pc' \in {"filled", "http_read"} /\ len' \in Int
    BY <1>2, <1>4 DEF Return, SkipDone, SkipMore, read
  <2>2. Stage = 8
    BY <2>1 DEF Stage
  <2>3. Stage' \in 1 .. 7
    BY <2>1 DEF Stage
  <2> QED
    BY <1>1, <2>1, <2>2, <2>3
<1>5. ~ EndOfFile /\ ~ Closed /\ ~ Dropped /\ ~ NoLink /\ ~ NotYet /\ ~ Reconnect /\ ~ FromHeader
      /\ \A n \in 1 .. buffer_size : ~ Receive(n)
  BY DEF EndOfFile, Closed, Dropped, NoLink, NotYet, Reconnect, FromHeader, Receive, ReadsLink, Reads,
         TriesAgain
<1> QED
  BY <1>3, <1>4, <1>5 DEF UrlRead, ReadIntoRing, HttpRead

\* url_lpfillbuffer returns: url_lpread copies what there is now, or gives up.
LEMMA FillNears ==
  ASSUME TypeOK, Filled \/ NotFilled
  PROVE  pc # "idle"
         /\ \/ pc' = "idle" /\ call' = NoCall
            \/ call'.len = call.len /\ Stage' \in Int /\ Stage' < Stage
<1>1. len \in Int /\ pc = "filled"
      /\ call \in [op : {"none", "read", "skip", "buffer", "seek", "reseek"}, len : Nat,
                   to : Nat, some : BOOLEAN]
  BY DEF TypeOK, Filled, NotFilled
<1>2. CASE Filled
  <2>1. Stage = 7
    BY <1>1, <1>2 DEF Filled, Stage
  <2>2. CASE call.op = "buffer"
    BY <1>1, <1>2, <2>2 DEF Filled, Idle
  <2>3. CASE call.op # "buffer"
    <3>1. pc' = "lpread" /\ call' = call
      BY <1>2, <2>3 DEF Filled
    <3>2. Stage' \in {3, 6}
      BY <3>1 DEF Stage
    <3> QED
      BY <1>1, <2>1, <3>1, <3>2
  <2> QED
    BY <2>2, <2>3
<1>3. CASE NotFilled
  <2>1. CASE call.op = "skip" /\ (call.some \/ len = EAGAIN)
    <3>1. pc' = "lpread" /\ call' = [call EXCEPT !.some = FALSE] /\ len <= 0
      BY <1>3, <2>1 DEF NotFilled
    <3>2. call'.len = call.len /\ call'.some = FALSE
      BY <1>1, <3>1
    <3>3. Stage' = 3
      BY <3>1, <3>2 DEF Stage, GoesOn
    <3>4. Stage = 4
      BY <1>1, <2>1, <3>1 DEF Stage
    <3> QED
      BY <1>1, <3>2, <3>3, <3>4
  <2>2. CASE ~ (call.op = "skip" /\ (call.some \/ len = EAGAIN))
    BY <1>1, <1>3, <2>2 DEF NotFilled, Idle
  <2> QED
    BY <2>1, <2>2
<1> QED
  BY <1>2, <1>3

\* url_lpread copies, and then less is asked for, or fills the ring.
LEMMA ReadNears ==
  ASSUME IInv, Copy \/ LpFill
  PROVE  pc # "idle" /\ StepsLeft' < StepsLeft
<1>1. /\ pc = "lpread" /\ call.len \in Nat /\ len \in Int
      /\ call \in [op : {"none", "read", "skip", "buffer", "seek", "reseek"}, len : Nat,
                   to : Nat, some : BOOLEAN]
  BY DEF IInv, TypeOK, Copy, LpFill
<1>2. Stage = IF GoesOn THEN 6 ELSE 3
  BY <1>1 DEF Stage
<1>3. CASE Copy
  <2>1. CanRead \in Nat /\ CanRead > 0 /\ CanRead <= call.len
    BY <1>3, CanReadType DEF Copy
  <2>2. CASE call.len = CanRead
    BY <1>1, <1>3, <2>2, NearerEnd DEF IInv, Copy, Idle
  <2>3. CASE call.len # CanRead
    <3>1. call' = [call EXCEPT !.len = @ - CanRead, !.some = TRUE] /\ pc' = "lpread"
      BY <1>1, <1>3, <2>3 DEF Copy
    <3>2. call'.len = call.len - CanRead
      BY <1>1, <3>1
    <3>3. Stage' \in {3, 6}
      BY <3>1 DEF Stage
    <3>4. StepsLeft = 9 * call.len + Stage /\ StepsLeft' = 9 * (call.len - CanRead) + Stage'
      BY <3>2 DEF StepsLeft
    <3> QED
      BY <1>1, <1>2, <2>1, <3>3, <3>4
  <2> QED
    BY <2>2, <2>3
<1>4. CASE LpFill
  <2>1. call' = call /\ GoesOn' = GoesOn
        /\ \/ pc' = "filled" /\ len' = 0
           \/ pc' = "http_read"
    BY <1>4 DEF LpFill, Fill, StartRead, GoesOn
  <2>2. Stage' \in (IF GoesOn THEN {4, 5} ELSE {1, 2})
    <3>1. CASE pc' = "filled" /\ len' = 0
      <4>1. Stage' = IF GoesOn THEN 4 ELSE 1
        BY <2>1, <3>1 DEF Stage, GoesOn, EAGAIN
      <4> QED
        BY <4>1
    <3>2. CASE pc' = "http_read"
      <4>1. Stage' = IF GoesOn THEN 5 ELSE 2
        BY <2>1, <3>2 DEF Stage
      <4> QED
        BY <4>1
    <3> QED
      BY <2>1, <3>1, <3>2
  <2>3. Stage' \in Int /\ Stage' < Stage
    BY <1>2, <2>2
  <2> QED
    BY <1>1, <2>1, <2>3, NearerEnd DEF IInv
<1> QED
  BY <1>3, <1>4

\* What is left of a call is a number.
LEMMA StepsLeftCount == Spec => [](StepsLeft \in Nat)
<1>1. IInv => StepsLeft \in Nat
  BY StageType DEF IInv
<1> QED
  BY <1>1, Invariance, PTL

\* Once a call is interrupted, its thread and no other actor goes on, and each of its
\* steps brings the call's end nearer: the retries of http_read, of http_seek and of
\* the read seek all come to an end, whatever the connection does, after at most eight
\* steps and nine more for each byte that was asked for.
THEOREM InterruptBounds == Spec => [][ComesNearer]_vars
<1>1. IInv /\ (StepsLeft \in Nat)' /\ [Next]_vars => [ComesNearer]_vars
  <2> SUFFICES ASSUME IInv, StepsLeft' \in Nat, Next, interrupted, pc # "idle"
               PROVE  interrupted' /\ StepsLeft' < StepsLeft
    BY StageType DEF ComesNearer, IInv
  <2>1. TypeOK
    BY DEF IInv
  <2>2. Thread
    BY DEF Next, Buffering, Stop, Read, SeekInBuffer, ReadSeek, LowSeek, StartSeek
  <2>3. interrupted'
    BY <2>2 DEF Thread, UrlRead, Filled, NotFilled, Copy, LpFill, ReopenForSeek, SeekReturns
  <2>4. CASE UrlRead
    BY <2>1, <2>3, <2>4, UrlReadNears, NearerEnd
  <2>5. CASE Filled \/ NotFilled
    BY <2>1, <2>3, <2>5, FillNears, NearerEnd
  <2>6. CASE Copy \/ LpFill
    BY <2>3, <2>6, ReadNears
  <2>7. CASE ReopenForSeek
    BY <2>7 DEF ReopenForSeek, TriesOn
  <2>8. CASE SeekReturns
    <3>1. pc' = "idle" /\ call' = NoCall
      BY <2>8 DEF SeekReturns, Idle
    <3> QED
      BY <2>1, <2>3, <3>1, NearerEnd
  <2> QED
    BY <2>2, <2>3, <2>4, <2>5, <2>6, <2>7, <2>8 DEF Thread
<1> QED
  BY <1>1, Invariance, StepsLeftCount, PTL DEF Spec
-----------------------------------------------------------------------------
(* A server that takes every request and keeps to the range asked for.     *)

\* It can always be reached, too.  What may still happen is that a connection breaks while
\* its bytes come in, is closed too early, or is slow.
Serves == Trouble \cap {"refuse", "reject", "norange"} = {}

\* No request goes wrong, as none is made for a byte beyond the end of the file.
Served ==
  /\ ~ astray /\ filesize = FileSize
  /\ pos + InFlight <= FileSize
  /\ pc \in {"http_read", "http_errors"} => pos < FileSize
  /\ pc = "http_seek" => call.to < FileSize

\* The connection is opened where it was asked for.
LEMMA ServedRequest ==
  ASSUME Serves, TypeOK, NEW o \in Int, Wanted(o) < FileSize, Reopens(o) \/ Breaks(o)
  PROVE  Straight' /\ filesize' = FileSize /\ ~ Breaks(o)
<1>1. Wanted(o) \in Nat /\ FileSize \in Nat
  BY HttpAssumption DEF TypeOK, Wanted
<1>2. ~ Trips("refuse") /\ ~ Trips("reject") /\ ~ Trips("norange")
  BY DEF Serves, Trips
<1>3. ~ Refused /\ ~ Rejected(Wanted(o)) /\ ~ Ignored(Wanted(o))
  BY <1>1, <1>2 DEF Refused, Rejected, Ignored
<1> QED
  BY <1>3 DEF Reopens, Breaks, Honoured, Straight

\* A step of url_read stays within the file.
LEMMA UrlReadServed ==
  ASSUME Serves, IInv, Served, UrlRead
  PROVE  Served'
<1>1. /\ TypeOK /\ FileSize \in Nat /\ pos \in Nat /\ len \in Int
      /\ pos' = pos /\ call' = call
  BY HttpAssumption DEF IInv, TypeOK, UrlRead
<1>2. InFlight \in Nat
  BY <1>1 DEF InFlight
<1>3. ~ SkipDone /\ ~ SkipMore
  BY DEF IInv, InStep, Served, SkipDone, SkipMore
<1>4. CASE Interrupted \/ EndOfFile \/ Closed \/ Dropped \/ NoLink \/ NotYet
  <2>1. /\ pc = "http_read" /\ pc' \in {"filled", "http_errors"} /\ len' \in Int
        /\ len' <= 0 /\ filesize' = filesize /\ astray' = astray
    BY <1>4 DEF Interrupted, EndOfFile, Closed, Dropped, NoLink, NotYet, ReadsLink, Reads, http,
                EIO, EOF, EAGAIN, Failed
  <2>2. InFlight' = 0
    BY <2>1 DEF InFlight
  <2> QED
    BY <1>1, <1>2, <2>1, <2>2 DEF Served
<1>5. CASE Reconnect
  <2>1. /\ pc = "http_errors" /\ pc' = "http_read" /\ len < 0
        /\ Reopens(-1) \/ Breaks(-1)
        /\ astray' = (astray \/ ~ Straight')
    BY <1>5 DEF Reconnect, TriesAgain
  <2>2. InFlight = 0 /\ InFlight' = 0
    BY <1>1, <2>1 DEF InFlight
  <2>3. Wanted(-1) < FileSize
    BY <1>1, <2>1, <2>2 DEF Wanted, Served, IInv, InStep
  <2>4. Straight' /\ filesize' = FileSize
    BY <1>1, <2>1, <2>3, ServedRequest
  <2> QED
    BY <1>1, <2>1, <2>2, <2>4 DEF Served
<1>6. CASE Return
  <2>1. pc = "http_errors" /\ pc' = "filled" /\ len' = len /\ filesize' = filesize /\ astray' = astray
    BY <1>6 DEF Return, http, read
  <2>2. InFlight' = InFlight
    BY <2>1 DEF InFlight
  <2> QED
    BY <1>1, <2>1, <2>2 DEF Served
<1>7. CASE FromHeader
  <2>1. pc = "http_read" /\ pc' = "http_errors" /\ len' = 1 /\ filesize' = filesize
        /\ astray' = astray
    BY <1>7 DEF FromHeader, Reads
  <2>2. InFlight' = 1
    BY <2>1 DEF InFlight
  <2> QED
    BY <1>1, <2>1, <2>2 DEF Served
<1>8. ASSUME NEW n \in 1 .. buffer_size, Receive(n) PROVE Served'
  <2>1. /\ pc = "http_read" /\ pc' = "http_errors" /\ len' = n /\ filesize' = filesize
        /\ astray' = astray /\ conn + n <= FileSize /\ left = NoByte /\ hd = "open"
    BY <1>8 DEF Receive, ReadsLink, Reads
  <2>2. InFlight = 0 /\ InFlight' = n
    BY <2>1, LoopAssumption DEF InFlight
  <2>3. conn = pos
    BY <1>1, <2>1, <2>2 DEF IInv, InStep, Served
  <2> QED
    BY <1>1, <2>1, <2>2, <2>3 DEF Served
<1> QED
  BY <1>3, <1>4, <1>5, <1>6, <1>7, <1>8 DEF UrlRead, ReadIntoRing, HttpRead

\* A fill is not started at the end of the file.
LEMMA FillServed ==
  ASSUME IInv, Served, LpFill \/ Buffering \/ Filled \/ NotFilled
  PROVE  Served'
<1>1. /\ TypeOK /\ FileSize \in Nat /\ pos \in Nat /\ len \in Int
  BY HttpAssumption DEF IInv, TypeOK
<1>2. InFlight \in Nat
  BY <1>1 DEF InFlight
<1>3. filesize' = filesize /\ astray' = astray
  BY DEF LpFill, Buffering, Filled, NotFilled, Fill, StartRead, http
<1>4. CASE LpFill \/ Buffering
  <2>1. /\ pos' = pos
        /\ \/ pc' = "filled" /\ len' = 0
           \/ pc' = "http_read" /\ pos < FileSize
    BY <1>1, <1>4 DEF LpFill, Buffering, Fill, StartRead, loopbuf
  <2>2. InFlight' = 0
    BY <2>1 DEF InFlight
  <2> QED
    BY <1>1, <1>2, <1>3, <2>1, <2>2 DEF Served
<1>5. CASE Filled
  <2>1. pc = "filled" /\ len > 0 /\ pos' = pos + len /\ pc' \in {"idle", "lpread"}
    BY <1>5 DEF Filled, Idle
  <2>2. InFlight = len /\ InFlight' = 0
    BY <2>1 DEF InFlight
  <2> QED
    BY <1>1, <1>3, <2>1, <2>2 DEF Served
<1>6. CASE NotFilled
  <2>1. pos' = pos /\ pc' \in {"idle", "lpread"}
    BY <1>6 DEF NotFilled, Idle, loopbuf
  <2>2. InFlight' = 0
    BY <2>1 DEF InFlight
  <2> QED
    BY <1>1, <1>2, <1>3, <2>1, <2>2 DEF Served
<1> QED
  BY <1>4, <1>5, <1>6

\* A seek of the input to beyond the end is refused at once,
LEMMA LowSeekServed ==
  ASSUME IInv, Served, NEW o \in Offsets, LowSeek(o)
  PROVE  Served'
<1>1. /\ TypeOK /\ FileSize \in Nat /\ FileSize > 0 /\ pos \in Nat /\ Offsets \subseteq Nat
      /\ filesize = FileSize
  BY HttpAssumption, LoopAssumption DEF IInv, TypeOK, Served
<1>2. InFlight \in Nat
  BY <1>1 DEF InFlight, TypeOK
<1>3. \A t \in Nat : ~ SeekFails(t) => t < FileSize
  BY <1>1 DEF SeekFails
<1>4. /\ pos' = pos /\ filesize' = filesize /\ astray' = astray
      /\ \/ pc' = "http_seek" /\ call'.to < FileSize
         \/ pc' = "idle"
  BY <1>1, <1>3 DEF LowSeek, HttpSeek, Idle, NoCall, http
<1>5. InFlight' = 0
  BY <1>4 DEF InFlight
<1> QED
  BY <1>1, <1>2, <1>4, <1>5 DEF Served

\* and otherwise its first request is granted.
LEMMA SeekReturnsServed ==
  ASSUME Serves, IInv, Served, ReopenForSeek \/ SeekReturns
  PROVE  Served'
<1>1. /\ TypeOK /\ FileSize \in Nat /\ pos \in Nat /\ call.to \in Nat
      /\ pc = "http_seek" /\ call.to < FileSize
      /\ Reopens(call.to) \/ Breaks(call.to)
  BY HttpAssumption DEF IInv, TypeOK, ReopenForSeek, SeekReturns, Served
<1>2. Wanted(call.to) = call.to /\ call.to \in Int
  BY <1>1 DEF Wanted
<1>3. Straight' /\ filesize' = FileSize /\ ~ Breaks(call.to)
  BY <1>1, <1>2, ServedRequest
<1>4. SeekReturns
  BY <1>3 DEF ReopenForSeek
<1>5. pc' = "idle" /\ ~ astray' /\ (pos' = pos \/ pos' = call.to)
  <2>1. CASE call.op = "seek"
    BY <1>3, <1>4, <2>1 DEF SeekReturns, Idle
  <2>2. CASE call.op # "seek"
    <3>1. Idle(Unknown) /\ astray' = (astray \/ ~ Straight') /\ UNCHANGED loopbuf
      BY <1>4, <2>2 DEF SeekReturns
    <3> QED
      BY <1>3, <3>1 DEF Idle, loopbuf, Served
  <2> QED
    BY <2>1, <2>2
<1>6. InFlight = 0 /\ InFlight' = 0
  BY <1>1, <1>5 DEF InFlight
<1>7. pos' + InFlight' <= FileSize
  BY <1>1, <1>5, <1>6 DEF Served
<1> QED
  BY <1>3, <1>5, <1>7 DEF Served

LEMMA ServedStep ==
  ASSUME Serves, IInv, Served, [Next]_vars
  PROVE  Served'
<1>1. CASE UrlRead
  BY <1>1, UrlReadServed
<1>2. CASE LpFill \/ Buffering \/ Filled \/ NotFilled
  BY <1>2, FillServed
<1>3. CASE (\E o \in Offsets : LowSeek(o)) \/ ReopenForSeek \/ SeekReturns
  BY <1>3, LowSeekServed, SeekReturnsServed
<1>4. CASE Copy \/ (\E n \in 1 .. ReadMax : Read(n))
           \/ \E o \in Offsets : SeekInBuffer(o) \/ ReadSeek(o)
  <2>1. pc' \in {"idle", "lpread"}
        /\ UNCHANGED << filesize, astray, pos >>
    BY <1>4 DEF Copy, Read, SeekInBuffer, ReadSeek, StartSeek, Idle, http, loopbuf
  <2>2. InFlight \in Nat /\ InFlight' = 0 /\ pos \in Nat /\ FileSize \in Nat
    BY <2>1, HttpAssumption DEF InFlight, IInv, TypeOK
  <2> QED
    BY <2>1, <2>2 DEF Served
<1>5. CASE Stop \/ UNCHANGED vars
  <2>1. UNCHANGED << pc, filesize, astray, pos, len, call >>
    BY <1>5 DEF Stop, vars, http, read, loopbuf
  <2>2. InFlight' = InFlight
    BY <2>1 DEF InFlight
  <2> QED
    BY <2>1, <2>2 DEF Served
<1> QED
  BY <1>1, <1>2, <1>3, <1>4, <1>5 DEF Next, Thread

LEMMA ServedAlways == ASSUME Serves PROVE Spec => []Served
<1>1. Init => Served
  BY HttpAssumption DEF Init, HttpInit, Served, InFlight
<1>2. IInv /\ Served /\ [Next]_vars => Served'
  BY ServedStep
<1> QED
  BY <1>1, <1>2, Invariance, PTL DEF Spec

\* As long as the server can be reached, takes every request and keeps to the range,
\* http.c's "it fails, continue on old connection" does no harm: connections that break,
\* close too early or are slow never leave the input anywhere but where the ring goes on.
THEOREM ServedInPlace == ASSUME Serves PROVE Spec => [](~ astray /\ ContinuesInPlace)
<1>1. IInv /\ Served => ~ astray /\ ContinuesInPlace
  <2> SUFFICES ASSUME IInv, Served, pc = "idle", Straight
               PROVE  pos = IF left # NoByte THEN left ELSE conn
    BY DEF Served, ContinuesInPlace
  <2>1. InFlight = 0 /\ pos \in Nat
    BY DEF InFlight, IInv, TypeOK
  <2> QED
    BY <2>1 DEF Served, IInv, InStep, Straight
<1> QED
  BY <1>1, Invariance, ServedAlways, PTL

Plain == INSTANCE ByteStream WITH Longest <- ReadMax

\* And then the input is a stream of the file's bytes without any exception: through
\* every reconnection, what is read goes on where the last read has ended, or the
\* last seek that did not fail.
THEOREM ServedStream == ASSUME Serves PROVE Spec => Plain!Spec
<1>1. Init => Plain!Init
  BY DEF Init, Plain!Init
<1>2. IInv /\ IInv' /\ Served /\ Served' /\ [Next]_vars => [Plain!Next]_<< at, got >>
  <2> SUFFICES ASSUME IInv, IInv', Served, Served', [Next]_vars
               PROVE  [Plain!Next]_<< at, got >>
    OBVIOUS
  <2>1. [Stream!Next]_<< IF astray THEN Unknown ELSE at, got >>
    BY StreamStep DEF IInv
  <2>2. (IF astray THEN Unknown ELSE at) = at /\ (IF astray THEN Unknown ELSE at)' = at'
    BY DEF Served
  <2> QED
    BY <2>1, <2>2 DEF Stream!Next, Stream!Deliver, Stream!Go, Stream!Grope,
                      Plain!Next, Plain!Deliver, Plain!Go, Plain!Grope
<1> QED
  BY <1>1, <1>2, Invariance, ServedAlways, PTL DEF Spec, Plain!Spec
=============================================================================
