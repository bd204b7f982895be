------------------------------ MODULE HttpStream ------------------------------
(***************************************************************************)
(* The http input (amffmpeg/libavformat/http.c) below the loop buffer of a *)
(* slow medium: reading, seeking, and opening the connection anew when it  *)
(* is lost.  One thread, the player's, is in it; its locals are variables. *)
(*                                                                         *)
(* A byte is its offset in the file.  The server and the network are what  *)
(* Trouble lets them do.  Redirections, authentication, chunked and posted *)
(* data are left out, and so is the branch for max_connects > 1, which     *)
(* MAX_CONNECT_LINKS (1) excludes.                                         *)
(***************************************************************************)
EXTENDS Integers

CONSTANTS FileSize,
          LastBytes,       \* 10: an end this close to the file's end is believed
          ReadSeekMax,     \* 1024*1024: the largest gap that is read over
          MaxSkip,         \* bound on do_readseek_size, which may grow without end
          MaxFailures,     \* bound on the requests that fail
          READ_RETRY_MAX,  \* also the number of further tries of a seek
          Trouble

Troubles == {"refuse",    \* the server cannot be reached
             "reject",    \* it answers with an error
             "norange",   \* it ignores the range asked for
             "drop",      \* a connection fails
             "close",     \* it is closed before the end of the file
             "again"}     \* nothing has arrived in time

ASSUME HttpAssumption ==
  /\ FileSize \in Nat \ {0} /\ LastBytes \in Nat /\ READ_RETRY_MAX \in Nat
  /\ ReadSeekMax \in Nat /\ MaxFailures \in Nat /\ MaxSkip \in Nat /\ FileSize <= MaxSkip
  /\ Trouble \subseteq Troubles

VARIABLES pc,                \* where the thread is
          hd,                \* the connection: "open", "dead" (failed, not closed) or "none"
          conn,              \* the next byte an open connection brings
          left,              \* what the header's buffer holds of the body, or NoByte
          off, filesize, willclose, do_readseek_size,  \* HTTPContext
          is_streamed,       \* URLContext
          size, len, err_retry,
          failures,          \* count for MaxFailures
          interrupted,       \* url_interrupt_cb
          astray             \* history: reads may go on elsewhere than the caller thinks

link == << hd, conn, left, failures >>
http == << off, filesize, willclose, do_readseek_size, is_streamed >>
read == << size, len, err_retry >>

NoByte == -1
Junk   == -2               \* a byte of an error's header
Byte   == 0 .. (FileSize - 1)
EOF    == -3
EIO    == -5
EAGAIN == -11
Failed == -1

HttpInit ==
  /\ hd = "open" /\ left \in {NoByte, 0} /\ conn = left + 1
  /\ off = 0 /\ filesize = FileSize /\ willclose \in BOOLEAN /\ do_readseek_size = 0
  /\ is_streamed \in BOOLEAN
  /\ size = 0 /\ len = 0 /\ err_retry = 0
  /\ failures = 0 /\ interrupted = FALSE /\ astray = FALSE
-----------------------------------------------------------------------------
(* http_open_cnx for the byte t: what becomes of the request.              *)

\* The header's buffer has taken the body's first block along, or has not.
Body(t) == \/ left' = NoByte /\ conn' = t
           \/ left' = t /\ conn' = t + 1

\* Content-Range names t.  No range is asked for at 0, but by a seek.
Honoured(t, is_seek) ==
  /\ t < FileSize
  /\ hd' = "open" /\ Body(t)
  /\ off' = t /\ filesize' = FileSize /\ willclose' \in BOOLEAN /\ do_readseek_size' = 0
  /\ is_streamed' = (is_streamed /\ t = 0 /\ ~ is_seek)
  /\ UNCHANGED failures

\* The network or the server does not do as it is asked.
Trips(kind) == kind \in Trouble /\ failures < MaxFailures /\ failures' = failures + 1

\* The whole file is on its way: what is in front of t is to be read over.
Ignored(t) ==
  /\ Trips("norange") /\ t < ReadSeekMax
  /\ hd' = "open" /\ Body(0)
  /\ off' = t /\ filesize' = FileSize /\ willclose' \in BOOLEAN /\ do_readseek_size' = t
  /\ UNCHANGED is_streamed

\* No connection: the old one has been closed all the same.
Fails == hd' = "none" /\ conn' = 0 /\ off' = 0 /\ UNCHANGED is_streamed

Refused == /\ Trips("refuse")
           /\ Fails
           /\ UNCHANGED << left, filesize, willclose, do_readseek_size >>

\* An error, which a range beyond the end is as well, or a gap that is too large.
Rejected(t) ==
  /\ Fails
  /\ \/ /\ Trips("reject") \/ (t >= FileSize /\ UNCHANGED failures)
        /\ left' \in {NoByte, Junk} /\ filesize' = -1
     \/ /\ Trips("norange") /\ t >= ReadSeekMax
        /\ left' \in {NoByte, 0} /\ filesize' = FileSize
  /\ willclose' \in BOOLEAN /\ do_readseek_size' = 0

\* http_reopen_cnx, for the byte o or, if negative, for off.
Wanted(o)  == IF o >= 0 THEN o ELSE off
Reopens(o) == Honoured(Wanted(o), o >= 0) \/ Ignored(Wanted(o))
Breaks(o)  == Refused \/ Rejected(Wanted(o))

\* The connection brings the byte that off says.
Straight == hd = "open" /\ do_readseek_size = 0
-----------------------------------------------------------------------------
(* http_read.  Where the bytes go to is the caller's.                      *)

\* The loop buffer calls url_read.
StartRead(n) == pc' = "http_read" /\ size' = n /\ err_retry' = READ_RETRY_MAX
                /\ UNCHANGED << link, http, len, astray >>

Interrupted ==
  /\ pc = "http_read" /\ interrupted
  /\ pc' = "filled" /\ len' = EIO
  /\ UNCHANGED << link, http, size, err_retry, astray >>

Reads == pc = "http_read" /\ ~ interrupted

FromHeader ==
  /\ Reads /\ left # NoByte
  /\ left' = NoByte /\ off' = off + 1 /\ len' = 1 /\ pc' = "http_errors"
  /\ UNCHANGED << hd, conn, failures, filesize, willclose, do_readseek_size, is_streamed, size,
                  err_retry, astray >>

AtEnd == ~ willclose /\ filesize >= 0 /\ off >= filesize

EndOfFile ==
  /\ Reads /\ left = NoByte /\ AtEnd
  /\ len' = EOF /\ pc' = "filled"
  /\ UNCHANGED << link, http, size, err_retry, astray >>

ReadsLink == Reads /\ left = NoByte /\ ~ AtEnd

Receive(n) ==
  /\ ReadsLink /\ hd = "open" /\ n <= size /\ conn + n <= FileSize
  /\ conn' = conn + n /\ off' = off + n /\ len' = n /\ pc' = "http_errors"
  /\ UNCHANGED << hd, left, failures, filesize, willclose, do_readseek_size, is_streamed, size,
                  err_retry, astray >>

\* The server has closed: an end that comes too early counts as a failure.
Closed ==
  /\ ReadsLink /\ hd # "none"
  /\ hd = "dead" \/ conn = FileSize \/ "close" \in Trouble
  /\ hd' = "dead" /\ conn' = 0 /\ len' = (IF off < filesize - LastBytes THEN Failed ELSE 0)
  /\ pc' = "http_errors"
  /\ UNCHANGED << left, failures, http, size, err_retry, astray >>

Dropped ==
  /\ ReadsLink /\ hd # "none"
  /\ hd = "dead" \/ "drop" \in Trouble
  /\ hd' = "dead" /\ conn' = 0 /\ len' = Failed /\ pc' = "http_errors"
  /\ UNCHANGED << left, failures, http, size, err_retry, astray >>

NoLink ==
  /\ ReadsLink /\ hd = "none"
  /\ len' = Failed /\ pc' = "http_errors"
  /\ UNCHANGED << link, http, size, err_retry, astray >>

\* Nothing has arrived; after READ_RETRY_MAX_TIME_MS that is a failure.
NotYet ==
  /\ ReadsLink /\ hd = "open" /\ "again" \in Trouble
  /\ len' \in {EAGAIN, Failed} /\ pc' = "http_errors"
  /\ UNCHANGED << link, http, size, err_retry, astray >>
-----------------------------------------------------------------------------
(* http_read from its label errors on.                                     *)

TriesAgain == len < 0 /\ len # EAGAIN /\ err_retry > 0 /\ ~ interrupted

Reconnect ==
  /\ pc = "http_errors" /\ TriesAgain
  /\ Reopens(-1) \/ Breaks(-1)
  /\ err_retry' = err_retry - 1 /\ pc' = "http_read"
  /\ astray' = (astray \/ ~ Straight')
  /\ UNCHANGED << size, len >>

Return ==
  /\ pc = "http_errors" /\ ~ TriesAgain /\ do_readseek_size = 0
  /\ pc' = "filled"
  /\ UNCHANGED << link, http, read, astray >>

\* The last bytes in front of the wanted ones: the rest moves to the front.
SkipDone ==
  /\ pc = "http_errors" /\ ~ TriesAgain /\ do_readseek_size > 0 /\ len > do_readseek_size
  /\ len' = len - do_readseek_size /\ do_readseek_size' = 0 /\ pc' = "filled"
  /\ UNCHANGED << link, off, filesize, willclose, is_streamed, size, err_retry, astray >>

\* A failure's negative len adds to what is to be dropped.
SkipMore ==
  /\ pc = "http_errors" /\ ~ TriesAgain /\ do_readseek_size > 0 /\ len <= do_readseek_size
  /\ do_readseek_size' = (IF do_readseek_size - len > MaxSkip THEN MaxSkip
                          ELSE do_readseek_size - len)
  /\ pc' = "http_read"
  /\ UNCHANGED << link, off, filesize, willclose, is_streamed, read, astray >>

\* The steps that leave the caller's buffer alone.
HttpRead ==
  \/ Interrupted \/ EndOfFile
  \/ Closed \/ Dropped \/ NoLink \/ NotYet
  \/ Reconnect \/ Return \/ SkipMore

\* http_seek fails at once, before it touches the connection.
SeekFails(o) == is_streamed \/ (filesize > 0 /\ o >= filesize)
=============================================================================
