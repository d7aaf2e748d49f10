---------------------------- MODULE PacketUpload ----------------------------
(***************************************************************************)
(* The packet-up uplink of internal/xhttp/conn.go: Write queues bytes in a *)
(* buffer of one chunk, the goroutine run posts them as numbered requests, *)
(* one at a time, and stop waits for it before it cancels its context.     *)
(*                                                                         *)
(* The mutex is held from one Wait to the next, so an action is what a     *)
(* goroutine does between two waits, or a POST.                            *)
(***************************************************************************)
EXTENDS Sequences, Naturals

CONSTANTS
  Byte,      \* the values of a byte
  MaxChunk,  \* u.maxChunk
  MaxWrite,  \* bound on the bytes of one Write
  MaxBytes   \* bound on the bytes of a stream

ASSUME UploadConstantsOK ==
  MaxChunk \in Nat \ {0} /\ MaxWrite \in Nat /\ MaxBytes \in Nat

VARIABLES
  buf, closed, err,    \* the fields of packetUploader
  cancelled,           \* its context is cancelled
  up, chunk,           \* run: where it is, and the chunk it took
  writer, rest,        \* the Write in progress and what it has left
  stopper,             \* the goroutine in stop
  written, received    \* history: bytes accepted, bytes the server got

queue  == <<buf, closed, err, cancelled>>
uvars  == <<queue, up, chunk, writer, rest, stopper, written, received>>

UInit ==
  /\ buf = <<>> /\ closed = FALSE /\ err = FALSE /\ cancelled = FALSE
  /\ up = "lock" /\ chunk = <<>>
  /\ writer = "idle" /\ rest = <<>>
  /\ stopper = "idle"
  /\ written = <<>> /\ received = <<>>

AtMost(n, m) == IF n < m THEN n ELSE m
From(s, i)   == SubSeq(s, i, Len(s))

Woken(at) == IF at = "asleep" THEN "lock" ELSE at

-----------------------------------------------------------------------------
(* Write. *)

WriteCall(data) ==
  /\ writer = "idle" /\ stopper # "done"
  /\ Len(written) + Len(data) <= MaxBytes
  /\ writer' = "lock" /\ rest' = data
  /\ UNCHANGED <<queue, up, chunk, stopper, written, received>>

\* One pass of the loop; bytes are left over only when the buffer is full, and then
\* the next pass waits.
Write ==
  /\ writer = "lock"
  /\ IF closed \/ err
       THEN /\ writer' = "idle" /\ rest' = <<>>
            /\ UNCHANGED <<buf, up, written>>
       ELSE LET n == AtMost(MaxChunk - Len(buf), Len(rest)) IN
            /\ buf' = buf \o SubSeq(rest, 1, n)
            /\ written' = written \o SubSeq(rest, 1, n)
            /\ rest' = From(rest, n + 1)
            /\ writer' = IF n = Len(rest) THEN "idle" ELSE "asleep"
            /\ up' = IF n > 0 THEN Woken(up) ELSE up
  /\ UNCHANGED <<closed, err, cancelled, chunk, stopper, received>>

-----------------------------------------------------------------------------
(* run. *)

\* Mutant: the chunk stays in the buffer.
TakeKeeps ==
  /\ up = "lock"
  /\ IF err \/ (closed /\ buf = <<>>) THEN up' = "ended" /\ UNCHANGED <<buf, chunk, writer>>
     ELSE IF buf = <<>> THEN up' = "asleep" /\ UNCHANGED <<buf, chunk, writer>>
     ELSE LET n == AtMost(MaxChunk, Len(buf)) IN
          /\ chunk' = SubSeq(buf, 1, n) /\ buf' = From(buf, n)
          /\ writer' = Woken(writer) /\ up' = "pace"
  /\ UNCHANGED <<closed, err, cancelled, rest, stopper, written, received>>

Take ==
  /\ up = "lock"
  /\ IF err \/ (closed /\ buf = <<>>) THEN up' = "ended" /\ UNCHANGED <<buf, chunk, writer>>
     ELSE IF buf = <<>> THEN up' = "asleep" /\ UNCHANGED <<buf, chunk, writer>>
     ELSE LET n == AtMost(MaxChunk, Len(buf)) IN
          /\ chunk' = SubSeq(buf, 1, n) /\ buf' = From(buf, n + 1)
          /\ writer' = Woken(writer) /\ up' = "pace"
  /\ UNCHANGED <<closed, err, cancelled, rest, stopper, written, received>>

\* The wait between two POSTs; a cancelled context ends it, and run.
Pace ==
  /\ up = "pace"
  /\ up' \in {"post"} \cup IF cancelled THEN {"ended"} ELSE {}
  /\ UNCHANGED <<queue, chunk, writer, rest, stopper, written, received>>

PostOK ==
  /\ up = "post" /\ ~cancelled
  /\ received' = received \o chunk
  /\ chunk' = <<>> /\ up' = "lock"
  /\ UNCHANGED <<queue, writer, rest, stopper, written>>

\* An error, or a status other than 200; the server may have got the chunk.
PostFails ==
  /\ up = "post"
  /\ received' \in {received, received \o chunk}
  /\ err' = TRUE
  /\ writer' = Woken(writer) /\ up' = "ended"
  /\ UNCHANGED <<buf, closed, cancelled, chunk, rest, stopper, written>>

-----------------------------------------------------------------------------
(* stop. *)

\* Mutant: run is not woken.
StopMarkSilent ==
  /\ stopper = "idle"
  /\ stopper' = "join" /\ closed' = TRUE
  /\ UNCHANGED <<buf, err, cancelled, up, chunk, writer, rest, written, received>>

StopMark ==
  /\ stopper = "idle"
  /\ stopper' = "join" /\ closed' = TRUE
  /\ up' = Woken(up) /\ writer' = Woken(writer)
  /\ UNCHANGED <<buf, err, cancelled, chunk, rest, written, received>>

\* u.done is closed when run returns.
StopJoin ==
  /\ stopper = "join" /\ up = "ended"
  /\ stopper' = "done" /\ cancelled' = TRUE
  /\ UNCHANGED <<buf, closed, err, up, chunk, writer, rest, written, received>>

-----------------------------------------------------------------------------

Data == UNION {[1..n -> Byte] : n \in 1..MaxWrite}

UNext ==
  \/ \E data \in Data : WriteCall(data)
  \/ Write \/ Take \/ Pace \/ PostOK \/ PostFails
  \/ StopMark \/ StopJoin

USpec == UInit /\ [][UNext]_uvars

-----------------------------------------------------------------------------

\* The types of the uploader, which never queues more than one chunk (the
\* back-pressure of Write), and where bytes are while run has none.
UTypeOK ==
  /\ buf \in Seq(Byte) /\ Len(buf) <= MaxChunk
  /\ closed \in BOOLEAN /\ err \in BOOLEAN /\ cancelled \in BOOLEAN
  /\ up \in {"lock", "asleep", "pace", "post", "ended"}
  /\ chunk \in Seq(Byte) /\ Len(chunk) <= MaxChunk
  /\ writer \in {"idle", "lock", "asleep"} /\ rest \in Seq(Byte)
  /\ stopper \in {"idle", "join", "done"}
  /\ written \in Seq(Byte) /\ received \in Seq(Byte)

Stream == INSTANCE ByteStream WITH
  status <- IF err THEN "broken" ELSE IF stopper = "done" THEN "closed" ELSE "open"

\* The uploader implements a byte stream: what the server has is a prefix of what Write
\* accepted, in order and without repetition, whatever the interleaving of Write, run
\* and stop, and when stop returns and no POST has failed the server has everything.
UploadsInOrder == Stream!Spec
=============================================================================
