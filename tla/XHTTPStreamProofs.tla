------------------------- MODULE XHTTPStreamProofs -------------------------
(***************************************************************************)
(* Proofs about a stream of internal/xhttp: the uploader of the packet-up  *)
(* mode implements a byte stream, and a dial that failed or a stream that  *)
(* was closed leaks nothing, for every size of chunk, write and stream.    *)
(***************************************************************************)
EXTENDS XHTTPStream, SequenceTheorems, TLAPS

-----------------------------------------------------------------------------
(* Bytes between Write and the server. *)

\* Where the bytes are: until a POST fails, what Write accepted is what the server
\* has, then the chunk run carries, then the queue.
Conserved == ~err => written = (received \o chunk) \o buf

IsPrefixOfWritten ==
  /\ Len(received) <= Len(written)
  /\ received = SubSeq(written, 1, Len(received))

\* How far run and stop are from one another.
Order ==
  /\ cancelled <=> stopper = "done"
  /\ closed <=> stopper # "idle"
  /\ stopper = "done" => up = "ended"
  /\ err => up = "ended"
  /\ up = "ended" /\ ~err => closed /\ buf = <<>>
  /\ up \notin {"pace", "post"} /\ ~err => chunk = <<>>

UInv == UTypeOK /\ Conserved /\ IsPrefixOfWritten /\ Order

-----------------------------------------------------------------------------
(* Sequences. *)

\* The first part of a concatenation is a prefix of it.
LEMMA PrefixOfConcat ==
  ASSUME NEW S, NEW s \in Seq(S), NEW t \in Seq(S)
  PROVE  /\ s \o t \in Seq(S)
         /\ Len(s \o t) = Len(s) + Len(t)
         /\ Len(s) <= Len(s \o t)
         /\ s = SubSeq(s \o t, 1, Len(s))
<1>1. s \o t \in Seq(S) /\ Len(s \o t) = Len(s) + Len(t)
  BY ConcatProperties
<1>2. Len(s) \in Nat /\ Len(t) \in Nat
  BY LenProperties
<1>3. s = SubSeq(s \o t, 1, Len(s))
  BY SubSeqOfConcat1, SubSeqFull, <1>1, <1>2
<1> QED
  BY <1>1, <1>2, <1>3

\* Cutting a sequence in two and concatenating the pieces gives it back.
LEMMA CutAndJoin ==
  ASSUME NEW S, NEW s \in Seq(S), NEW n \in 0 .. Len(s)
  PROVE  /\ SubSeq(s, 1, n) \in Seq(S) /\ Len(SubSeq(s, 1, n)) = n
         /\ From(s, n + 1) \in Seq(S) /\ Len(From(s, n + 1)) = Len(s) - n
         /\ SubSeq(s, 1, n) \o From(s, n + 1) = s
<1>1. Len(s) \in Nat
  BY LenProperties
<1>2. SubSeq(s, 1, n) \in Seq(S) /\ Len(SubSeq(s, 1, n)) = n
  BY <1>1, SubSeqProperties
<1>3. From(s, n + 1) \in Seq(S) /\ Len(From(s, n + 1)) = Len(s) - n
  BY <1>1, SubSeqProperties DEF From
<1>4. SubSeq(s, 1, n) \o From(s, n + 1) = s
  <2>1. /\ 1 \in 1 .. Len(s) + 1 /\ n \in 1 - 1 .. Len(s) /\ Len(s) \in n .. Len(s)
    BY <1>1
  <2>2. SubSeq(s, 1, n) \o SubSeq(s, n + 1, Len(s)) = SubSeq(s, 1, Len(s))
    BY <2>1, ConcatAdjacentSubSeq
  <2> QED
    BY <2>2, SubSeqFull DEF From
<1> QED
  BY <1>2, <1>3, <1>4

\* Concatenation is associative, on the bytes of a stream.
LEMMA Regroup ==
  \A a, b, c \in Seq(Byte) : (a \o b) \o c = a \o (b \o c)
BY ConcatAssociative

-----------------------------------------------------------------------------
(* The steps of the uploader: each keeps UInv and is a step of the byte stream. *)

Stutters == UNCHANGED Stream!svars

Implements == Stream!Next \/ Stutters

\* A step that moves no byte and changes neither the error nor the end of stop.
Still == UNCHANGED <<written, received, err, stopper>>

LEMMA StillStutters ==
  ASSUME Still PROVE Implements
BY DEF Still, Implements, Stutters, Stream!svars

LEMMA UInitInv ==
  ASSUME UInit PROVE UInv /\ Stream!Init
<1>1. <<>> \in Seq(Byte) /\ Len(<<>>) = 0 /\ Len(<<>>) <= MaxChunk
  BY UploadConstantsOK, EmptySeq
<1>2. UTypeOK
  BY <1>1 DEF UInit, UTypeOK
<1>3. Conserved
  BY <1>1, ConcatEmptySeq DEF UInit, Conserved
<1>4. IsPrefixOfWritten
  BY <1>1, SubSeqFull DEF UInit, IsPrefixOfWritten
<1>5. Order
  BY DEF UInit, Order
<1>6. Stream!Init
  BY DEF UInit, Stream!Init
<1> QED
  BY <1>2, <1>3, <1>4, <1>5, <1>6 DEF UInv

\* What a Write is called with.
LEMMA DataType == \A data \in Data : data \in Seq(Byte)
BY UploadConstantsOK DEF Data

LEMMA WriteCallStep ==
  ASSUME UInv, NEW data \in Data, WriteCall(data)
  PROVE  UInv' /\ Implements
<1> USE DEF UInv, WriteCall, queue
<1>1. UTypeOK'
  BY DataType DEF UTypeOK
<1>2. Conserved' /\ IsPrefixOfWritten' /\ Order'
  BY DEF Conserved, IsPrefixOfWritten, Order
<1>3. Still
  BY DEF Still
<1> QED
  BY <1>1, <1>2, <1>3, StillStutters

\* Write appends what fits to the queue and to what it accepted.
LEMMA WriteStep ==
  ASSUME UInv, Write
  PROVE  UInv' /\ Implements
<1> USE DEF UInv
<1>1. CASE closed \/ err
  <2>1. UTypeOK'
    BY <1>1, EmptySeq DEF Write, UTypeOK
  <2>2. Conserved' /\ IsPrefixOfWritten' /\ Order'
    BY <1>1 DEF Write, Conserved, IsPrefixOfWritten, Order
  <2>3. Still
    BY <1>1 DEF Write, Still
  <2> QED
    BY <2>1, <2>2, <2>3, StillStutters
<1>2. CASE ~closed /\ ~err
  <2> DEFINE n == AtMost(MaxChunk - Len(buf), Len(rest))
             part == SubSeq(rest, 1, n)
  <2>1. /\ Len(buf) \in Nat /\ Len(rest) \in Nat /\ MaxChunk \in Nat
        /\ Len(buf) <= MaxChunk
        /\ buf \in Seq(Byte) /\ rest \in Seq(Byte) /\ chunk \in Seq(Byte)
        /\ written \in Seq(Byte) /\ received \in Seq(Byte)
    BY UploadConstantsOK, LenProperties DEF UTypeOK
  <2>2. n \in 0 .. Len(rest) /\ n <= MaxChunk - Len(buf)
    BY <2>1 DEF AtMost
  <2>3. /\ part \in Seq(Byte) /\ Len(part) = n
        /\ From(rest, n + 1) \in Seq(Byte)
    BY <2>1, <2>2, CutAndJoin
  <2>4. /\ buf' = buf \o part /\ written' = written \o part
        /\ rest' = From(rest, n + 1)
        /\ writer' \in {"idle", "asleep"}
        /\ up' \in {up, Woken(up)}
        /\ UNCHANGED <<closed, err, cancelled, chunk, stopper, received>>
    BY <1>2 DEF Write
  <2> HIDE DEF n, part
  <2>5. /\ buf \o part \in Seq(Byte) /\ Len(buf \o part) = Len(buf) + Len(part)
        /\ written \o part \in Seq(Byte)
        /\ Len(written) <= Len(written \o part)
        /\ SubSeq(written \o part, 1, Len(written)) = written
    BY <2>1, <2>3, PrefixOfConcat
  <2>6. UTypeOK'
    <3>1. Len(buf') <= MaxChunk
      BY <2>1, <2>2, <2>3, <2>4, <2>5
    <3>2. up' \in {"lock", "asleep", "pace", "post", "ended"}
      BY <2>4 DEF UTypeOK, Woken
    <3> QED
      BY <2>3, <2>4, <2>5, <3>1, <3>2 DEF UTypeOK
  <2>7. written' = (received' \o chunk') \o buf'
    <3> DEFINE got == received \o chunk
    <3>1. got \in Seq(Byte)
      BY <2>1, PrefixOfConcat
    <3>2. written = got \o buf
      BY <1>2 DEF Conserved
    <3>3. got' = got
      BY <2>4
    <3> HIDE DEF got
    <3>4. (got \o buf) \o part = got \o (buf \o part)
      BY <2>1, <2>3, <3>1, Regroup
    <3>5. written' = got' \o buf'
      BY <2>4, <3>2, <3>3, <3>4
    <3> QED
      BY <3>5 DEF got
  <2>8. IsPrefixOfWritten'
    <3>1. received \o (chunk \o buf') = written'
      BY <2>1, <2>4, <2>5, <2>7, Regroup
    <3>2. chunk \o buf' \in Seq(Byte)
      BY <2>1, <2>4, <2>5, PrefixOfConcat
    <3>3. Len(received) <= Len(written') /\ received = SubSeq(written', 1, Len(received))
      BY <2>1, <3>1, <3>2, PrefixOfConcat
    <3> QED
      BY <2>4, <3>3 DEF IsPrefixOfWritten
  <2>9. Order'
    BY <1>2, <2>4 DEF Order, Woken
  <2>10. Stream!Accept
    <3>1. stopper = "idle"
      BY <1>2 DEF Order
    <3> QED
      BY <1>2, <2>1, <2>4, <2>5, <3>1 DEF Stream!Accept
  <2> QED
    BY <2>6, <2>7, <2>8, <2>9, <2>10 DEF Conserved, Implements, Stream!Next
<1> QED
  BY <1>1, <1>2 DEF UTypeOK

\* run takes the queue, one chunk at most.
LEMMA TakeStep ==
  ASSUME UInv, Take
  PROVE  UInv' /\ Implements
<1> USE DEF UInv
<1>1. Still
  BY DEF Take, Still
<1>2. IsPrefixOfWritten'
  BY DEF Take, IsPrefixOfWritten
<1>3. CASE err \/ (closed /\ buf = <<>>) \/ buf = <<>>
  <2>1. up' \in {"ended", "asleep"} /\ UNCHANGED <<buf, chunk, writer>>
    BY <1>3 DEF Take
  <2>2. UTypeOK' /\ Conserved'
    BY <2>1 DEF Take, UTypeOK, Conserved
  <2>3. Order'
    BY <1>3, <2>1 DEF Take, Order
  <2> QED
    BY <1>1, <1>2, <2>2, <2>3, StillStutters
<1>4. CASE ~err /\ buf # <<>>
  <2> DEFINE n == AtMost(MaxChunk, Len(buf))
  <2>1. /\ Len(buf) \in Nat /\ MaxChunk \in Nat /\ Len(buf) <= MaxChunk
        /\ buf \in Seq(Byte) /\ received \in Seq(Byte)
    BY UploadConstantsOK, LenProperties DEF UTypeOK
  <2>2. n \in 0 .. Len(buf) /\ n <= MaxChunk
    BY <2>1 DEF AtMost
  <2>3. /\ chunk' = SubSeq(buf, 1, n) /\ buf' = From(buf, n + 1)
        /\ writer' = Woken(writer) /\ up' = "pace"
        /\ UNCHANGED <<closed, err, cancelled, rest, stopper, written, received>>
    BY <1>4 DEF Take
  <2> HIDE DEF n
  <2>4. /\ chunk' \in Seq(Byte) /\ Len(chunk') = n
        /\ buf' \in Seq(Byte) /\ Len(buf') = Len(buf) - n
        /\ chunk' \o buf' = buf
    BY <2>1, <2>2, <2>3, CutAndJoin
  <2>5. UTypeOK'
    <3>1. Len(chunk') <= MaxChunk /\ Len(buf') <= MaxChunk
      BY <2>1, <2>2, <2>4
    <3> QED
      BY <2>3, <2>4, <3>1 DEF UTypeOK, Woken
  <2>6. Conserved'
    <3>1. chunk = <<>>
      BY <1>4 DEF Take, Order
    <3>2. written = received \o buf
      BY <1>4, <2>1, <3>1, ConcatEmptySeq DEF Conserved
    <3>3. (received \o chunk') \o buf' = received \o (chunk' \o buf')
      BY <2>1, <2>4, Regroup
    <3> QED
      BY <2>3, <2>4, <3>2, <3>3 DEF Conserved
  <2>7. Order'
    BY <1>4, <2>3 DEF Take, Order
  <2> QED
    BY <1>1, <1>2, <2>5, <2>6, <2>7, StillStutters
<1> QED
  BY <1>3, <1>4

\* The pause between two POSTs is cut short only once run has ended.
LEMMA PaceStep ==
  ASSUME UInv, Pace
  PROVE  UInv' /\ Implements
<1> USE DEF UInv, Pace, queue
<1>1. ~cancelled /\ up' = "post"
  BY DEF Order
<1>2. UTypeOK'
  BY <1>1 DEF UTypeOK
<1>3. Conserved' /\ IsPrefixOfWritten' /\ Order'
  BY <1>1 DEF Conserved, IsPrefixOfWritten, Order
<1>4. Still
  BY DEF Still
<1> QED
  BY <1>2, <1>3, <1>4, StillStutters

\* What a POST delivers continues what the server has.
LEMMA Delivered ==
  ASSUME UInv, up = "post"
  PROVE  /\ ~err /\ stopper # "done"
         /\ received \o chunk \in Seq(Byte)
         /\ Len(received) <= Len(received \o chunk)
         /\ Len(received \o chunk) <= Len(written)
         /\ received \o chunk = SubSeq(written, 1, Len(received \o chunk))
         /\ Len(received) \in Nat /\ Len(received \o chunk) \in Nat
         /\ Len(written) \in Nat
<1>1. ~err /\ stopper # "done"
  BY DEF UInv, Order
<1>2. received \in Seq(Byte) /\ chunk \in Seq(Byte) /\ buf \in Seq(Byte) /\ written \in Seq(Byte)
  BY DEF UInv, UTypeOK
<1>3. /\ received \o chunk \in Seq(Byte)
      /\ Len(received) <= Len(received \o chunk)
  BY <1>2, PrefixOfConcat
<1> DEFINE got == received \o chunk
<1>4. written = got \o buf
  BY <1>1 DEF UInv, Conserved
<1>5. got \in Seq(Byte)
  BY <1>3
<1>6. Len(received) \in Nat /\ Len(got) \in Nat /\ Len(written) \in Nat
  BY <1>2, <1>5, LenProperties
<1> HIDE DEF got
<1>7. Len(got) <= Len(written) /\ got = SubSeq(written, 1, Len(got))
  BY <1>2, <1>4, <1>5, PrefixOfConcat
<1> QED
  BY <1>1, <1>3, <1>6, <1>7 DEF got

LEMMA PostOKStep ==
  ASSUME UInv, PostOK
  PROVE  UInv' /\ Implements
<1> USE DEF PostOK, queue
<1>1. Stream!Deliver
  <2>1. Stream!Grow
    BY Delivered DEF Stream!Grow
  <2> QED
    BY <2>1, Delivered DEF Stream!Deliver, UInv, UTypeOK
<1>2. UTypeOK'
  BY Delivered, EmptySeq, UploadConstantsOK DEF UInv, UTypeOK
<1>3. Conserved'
  <2>1. received' \in Seq(Byte) /\ written = received' \o buf
    BY Delivered DEF UInv, Conserved
  <2>2. received' \o <<>> = received'
    BY <2>1, ConcatEmptySeq
  <2> QED
    BY <2>1, <2>2 DEF Conserved
<1>4. IsPrefixOfWritten'
  BY Delivered DEF IsPrefixOfWritten
<1>5. Order'
  BY DEF UInv, Order
<1> QED
  BY <1>1, <1>2, <1>3, <1>4, <1>5 DEF UInv, Implements, Stream!Next

LEMMA PostFailsStep ==
  ASSUME UInv, PostFails
  PROVE  UInv' /\ Implements
<1> USE DEF PostFails
<1>1. IsPrefixOfWritten' /\ received' \in Seq(Byte)
  BY Delivered DEF UInv, UTypeOK, IsPrefixOfWritten
<1>2. Stream!Break
  <2>1. CASE received' = received
    BY <2>1, <1>1, Delivered DEF Stream!Break, Stream!Grow, UInv, IsPrefixOfWritten
  <2>2. CASE received' = received \o chunk
    BY <2>2, <1>1, Delivered DEF Stream!Break, Stream!Grow, UInv, IsPrefixOfWritten
  <2> QED
    BY <2>1, <2>2
<1>3. UTypeOK'
  BY <1>1 DEF UInv, UTypeOK, Woken
<1>4. Conserved' /\ Order'
  BY DEF UInv, UTypeOK, Conserved, Order
<1> QED
  BY <1>1, <1>2, <1>3, <1>4 DEF UInv, Implements, Stream!Next

LEMMA StopMarkStep ==
  ASSUME UInv, StopMark
  PROVE  UInv' /\ Implements
<1> USE DEF UInv, StopMark
<1>1. UTypeOK'
  BY DEF UTypeOK, Woken
<1>2. Conserved' /\ IsPrefixOfWritten'
  BY DEF Conserved, IsPrefixOfWritten
<1>3. Order'
  BY DEF Order, Woken
<1>4. Stutters
  BY DEF Stutters, Stream!svars
<1> QED
  BY <1>1, <1>2, <1>3, <1>4 DEF Implements

\* stop returns once run has ended, and without an error run ends with nothing left.
LEMMA StopJoinStep ==
  ASSUME UInv, StopJoin
  PROVE  UInv' /\ Implements
<1> USE DEF UInv, StopJoin
<1>1. UTypeOK'
  BY DEF UTypeOK
<1>2. Conserved' /\ IsPrefixOfWritten'
  BY DEF Conserved, IsPrefixOfWritten
<1>3. Order'
  BY DEF Order
<1>4. CASE err
  <2>1. Stutters
    BY <1>4 DEF Stutters, Stream!svars
  <2> QED
    BY <1>1, <1>2, <1>3, <2>1 DEF Implements
<1>5. CASE ~err
  <2>1. buf = <<>> /\ chunk = <<>> /\ received \in Seq(Byte)
    BY <1>5 DEF Order, UTypeOK
  <2>2. received \o <<>> = received
    BY <2>1, ConcatEmptySeq
  <2>3. written = received
    BY <1>5, <2>1, <2>2 DEF Conserved
  <2>4. Stream!Close
    BY <1>5, <2>3 DEF Stream!Close
  <2> QED
    BY <1>1, <1>2, <1>3, <2>4 DEF Implements, Stream!Next
<1> QED
  BY <1>4, <1>5

\* A step of the stream is a step of its uploader or leaves it alone.
LEMMA UploaderStep ==
  ASSUME UInv, [XNext]_xvars
  PROVE  UInv' /\ Implements
<1>1. CASE UNCHANGED uvars
  <2>1. Still /\ UTypeOK'
    BY <1>1 DEF uvars, queue, Still, UInv, UTypeOK
  <2>2. Conserved' /\ IsPrefixOfWritten' /\ Order'
    BY <1>1 DEF uvars, queue, UInv, Conserved, IsPrefixOfWritten, Order
  <2> QED
    BY <2>1, <2>2, StillStutters DEF UInv
<1>2. ASSUME NEW r \in Requests, Request(r) PROVE UNCHANGED uvars
  BY <1>2 DEF Request, GotConn, DoFails, DoAnswers, Drain, SetOnce, SetCheck, Apart
<1>3. CASE Dial \/ CtxDone \/ ReadCall \/ ReadData \/ ReadError \/ CloseCall
           \/ ClosePipe \/ CloseReader
  <2>1. UNCHANGED uvars
    BY <1>3 DEF Dial, OpenStream, Connected, Responded, GraceEnds, OpenFails, OpenCancelled,
                Elsewhere, CtxDone, ReadCall, ReadData, ReadError, CloseCall, ClosePipe, CloseReader
  <2> QED
    BY <1>1, <2>1
<1>4. CASE \E data \in Data : Upload(WriteCall(data))
  BY <1>4, WriteCallStep DEF Upload
<1>5. CASE Upload(Write)
  BY <1>5, WriteStep DEF Upload
<1>6. CASE Upload(Take)
  BY <1>6, TakeStep DEF Upload
<1>7. CASE Upload(Pace)
  BY <1>7, PaceStep DEF Upload
<1>8. CASE Upload(Post)
  BY <1>8, PostOKStep, PostFailsStep DEF Upload, Post
<1>9. CASE CloseStop
  BY <1>9, StopMarkStep, StopJoinStep DEF CloseStop
<1>10. CASE UNCHANGED xvars
  BY <1>10, <1>1 DEF xvars
<1> QED
  BY <1>1, <1>2, <1>3, <1>4, <1>5, <1>6, <1>7, <1>8, <1>9, <1>10 DEF XNext, Close

\* The uploader implements a byte stream: whatever the interleaving of Write, run and
\* stop and whatever POST fails, the server has a prefix of what Write accepted, and
\* everything when stop returns without an error.
THEOREM UploaderImplementsByteStream == XSpec => UploadsInOrder
<1>1. XInit => UInv /\ Stream!Init
  BY UInitInv DEF XInit
<1>2. UInv /\ [XNext]_xvars => UInv'
  BY UploaderStep
<1>3. UInv /\ [XNext]_xvars => [Stream!Next]_Stream!svars
  BY UploaderStep DEF Implements, Stutters
<1> QED
  BY <1>1, <1>2, <1>3, PTL DEF XSpec, UploadsInOrder, Stream!Spec

-----------------------------------------------------------------------------
(* Nothing is left behind. *)

RequestType ==
  [at : {"none", "sent", "set", "check", "drain", "ended"},
   once : {"unset", "body", "err"}, body : {"none", "open", "closed"},
   cancelled : BOOLEAN, connected : BOOLEAN, responded : BOOLEAN, failed : BOOLEAN]

\* The goroutine of a request: the body it got is handed over before the outcome is
\* checked, and a goroutine that is through leaves open only a body it handed over.
Sound(q) ==
  /\ q.at \in {"none", "sent"} => q.body = "none"
  /\ q.at \in {"none", "sent", "set"} => q.once # "body"
  /\ q.at = "check" => q.once # "unset"
  /\ q.at = "ended" /\ q.body = "open" => q.once = "body"
  /\ q.failed => q.cancelled /\ q.at = "ended" /\ q.once = "err" /\ q.body = "none"

\* Only the upload half is drained, and a drained body is never handed over.
DrainsUp == req["up"].at # "set" /\ req["up"].once # "body"

\* The outcome is settled and, if it is a body, that body is closed.
Released(q) == q.once # "unset" /\ (q.once = "body" => q.body # "open")

\* The dial opens a request once, the downlink first.
DialOrder ==
  /\ leg = "down" => req["up"].at = "none"
  /\ dial = "begin" => req[leg].at = "none"
  /\ closer # "idle" => dial = "open"

PipeClosed ==
  dial = "failed" \/ closer \in {"reader", "done"} \/ (mode = "packet-up" /\ dial # "begin")
    => pipe = "closed"

Settled ==
  /\ dial = "failed" =>
       \A r \in Requests : req[r].at # "none" => req[r].cancelled /\ Released(req[r])
  /\ closer = "done" => req["down"].cancelled /\ Released(req["down"])

StreamTypeOK ==
  /\ mode \in Modes
  /\ dial \in {"begin", "connect", "answer", "open", "failed"} /\ leg \in {"down", "up"}
  /\ ctxDone \in BOOLEAN
  /\ req \in [Requests -> RequestType]
  /\ pipe \in {"open", "closed"} /\ reader \in {"idle", "blocked"}
  /\ closer \in {"idle", "writer", "reader", "done"}

LeakInv ==
  /\ StreamTypeOK
  /\ \A r \in Requests : Sound(req[r])
  /\ DrainsUp /\ DialOrder /\ PipeClosed /\ Settled

LEMMA LeakInit ==
  ASSUME XInit PROVE LeakInv
<1>1. NoRequest \in RequestType /\ Sound(NoRequest)
  BY DEF NoRequest, RequestType, Sound
<1>2. mode \in Modes
  BY DEF XInit, ResolveMode, Modes
<1>3. \A r \in Requests : req[r] = NoRequest
  BY DEF XInit
<1>4. StreamTypeOK
  BY <1>1, <1>2 DEF XInit, StreamTypeOK
<1>5. \A r \in Requests : Sound(req[r])
  BY <1>1, <1>3
<1>6. DrainsUp /\ DialOrder
  BY <1>3 DEF XInit, DrainsUp, DialOrder, Requests, NoRequest
<1>7. PipeClosed /\ Settled
  BY DEF XInit, PipeClosed, Settled
<1> QED
  BY <1>4, <1>5, <1>6, <1>7 DEF LeakInv

\* How the goroutine of a request may change it: it does not restart, it does not
\* revoke a cancellation and it does not reopen what was released.
Advances(r, q, p) ==
  /\ p \in RequestType /\ Sound(p)
  /\ q.at # "none" /\ p.at # "none"
  /\ q.cancelled => p.cancelled
  /\ Released(q) => Released(p)
  /\ r = "up" /\ q.at # "set" /\ q.once # "body" => p.at # "set" /\ p.once # "body"

LEMMA RequestAdvances ==
  ASSUME LeakInv, NEW r \in Requests, Request(r)
  PROVE  /\ Apart
         /\ \E p : req' = [req EXCEPT ![r] = p] /\ Advances(r, req[r], p)
<1> USE DEF Becomes
<1>1. req[r] \in RequestType /\ Sound(req[r])
  BY DEF LeakInv, StreamTypeOK
<1>2. ASSUME NEW p, Becomes(r, p), Advances(r, req[r], p), Apart
      PROVE  Apart /\ \E x : req' = [req EXCEPT ![r] = x] /\ Advances(r, req[r], x)
  BY <1>2
<1>3. CASE GotConn(r)
  <2> DEFINE p == [req[r] EXCEPT !.connected = TRUE]
  <2>1. Becomes(r, p) /\ Apart
    BY <1>3 DEF GotConn
  <2>2. Advances(r, req[r], p)
    BY <1>1, <1>3 DEF GotConn, Advances, RequestType, Sound, Released
  <2> QED
    BY <1>2, <2>1, <2>2
<1>4. CASE DoFails(r)
  <2> DEFINE p == [req[r] EXCEPT !.at = "ended", !.cancelled = TRUE,
                                 !.once = Failed(req[r]), !.failed = TRUE]
  <2>1. Becomes(r, p) /\ Apart
    BY <1>4 DEF DoFails
  <2>2. Advances(r, req[r], p)
    BY <1>1, <1>4 DEF DoFails, Failed, Advances, RequestType, Sound, Released
  <2> QED
    BY <1>2, <2>1, <2>2
<1>5. CASE DoAnswers(r)
  <2> DEFINE p == [req[r] EXCEPT !.body = "open", !.responded = Drained(r),
                                 !.at = IF Drained(r) THEN "drain" ELSE "set"]
  <2>1. Becomes(r, p) /\ Apart
    BY <1>5 DEF DoAnswers
  <2>2. Advances(r, req[r], p)
    BY <1>1, <1>5 DEF DoAnswers, Drained, Advances, RequestType, Sound, Released
  <2> QED
    BY <1>2, <2>1, <2>2
<1>6. CASE Drain(r)
  <2> DEFINE p == [req[r] EXCEPT !.at = "ended", !.body = "closed", !.cancelled = TRUE,
                                 !.once = Failed(req[r])]
  <2>1. Becomes(r, p) /\ Apart
    BY <1>6 DEF Drain
  <2>2. Advances(r, req[r], p)
    BY <1>1, <1>6 DEF Drain, Failed, Advances, RequestType, Sound, Released
  <2> QED
    BY <1>2, <2>1, <2>2
<1>7. CASE SetOnce(r)
  <2> DEFINE p == [req[r] EXCEPT !.at = "check", !.once = IF @ = "unset" THEN "body" ELSE @]
  <2>1. Becomes(r, p) /\ Apart
    BY <1>7 DEF SetOnce
  <2>2. Advances(r, req[r], p)
    BY <1>1, <1>7 DEF SetOnce, Advances, RequestType, Sound, Released
  <2> QED
    BY <1>2, <2>1, <2>2
<1>8. CASE SetCheck(r)
  <2> DEFINE p == [req[r] EXCEPT !.at = "ended", !.responded = TRUE,
                                 !.body = IF req[r].once = "body" THEN @ ELSE "closed"]
  <2>1. Becomes(r, p) /\ Apart
    BY <1>8 DEF SetCheck
  <2>2. Advances(r, req[r], p)
    BY <1>1, <1>8 DEF SetCheck, Advances, RequestType, Sound, Released
  <2> QED
    BY <1>2, <2>1, <2>2
<1> QED
  BY <1>3, <1>4, <1>5, <1>6, <1>7, <1>8 DEF Request

\* Each of the requests' goroutines keeps the invariant.
LEMMA RequestInv ==
  ASSUME LeakInv, NEW r \in Requests, Request(r)
  PROVE  LeakInv'
<1>1. PICK p : req' = [req EXCEPT ![r] = p] /\ Advances(r, req[r], p)
  BY RequestAdvances
<1>2. UNCHANGED <<mode, dial, leg, ctxDone, pipe, reader, closer>>
  BY RequestAdvances DEF Apart
<1>3. /\ req \in [Requests -> RequestType] /\ req' \in [Requests -> RequestType]
      /\ req'[r] = p /\ \A x \in Requests : x # r => req'[x] = req[x]
  BY <1>1 DEF LeakInv, StreamTypeOK, Advances
<1>4. StreamTypeOK'
  BY <1>2, <1>3 DEF LeakInv, StreamTypeOK
<1>5. \A x \in Requests : Sound(req'[x])
  BY <1>1, <1>3 DEF LeakInv, Advances
<1>6. DrainsUp'
  BY <1>1, <1>3 DEF LeakInv, DrainsUp, Advances, Requests
<1>7. DialOrder'
  BY <1>1, <1>2, <1>3 DEF LeakInv, DialOrder, StreamTypeOK, Advances, Requests
<1>8. PipeClosed'
  BY <1>2 DEF LeakInv, PipeClosed
<1>9. Settled'
  BY <1>1, <1>2, <1>3 DEF LeakInv, Settled, Advances, Requests
<1> QED
  BY <1>4, <1>5, <1>6, <1>7, <1>8, <1>9 DEF LeakInv

\* pendingReader.Close cancels and releases a request, wherever its goroutine is.
LEMMA ClosedReleases ==
  ASSUME NEW q \in RequestType, Sound(q)
  PROVE  /\ Closed(q) \in RequestType /\ Sound(Closed(q))
         /\ Closed(q).cancelled /\ Released(Closed(q))
         /\ Closed(q).at = q.at
         /\ q.once # "body" => Closed(q).once # "body"
BY DEF RequestType, Sound, Closed, Failed, Released

\* A dial that gives up cancels and releases all it opened.
LEMMA GiveUpInv ==
  ASSUME LeakInv, Opening, NEW q \in [Requests -> RequestType],
         \A r \in Requests : Sound(q[r]) /\ q[r].at = req[r].at,
         q["up"].once # "body",
         q[leg].cancelled /\ Released(q[leg]),
         GiveUp(q), UNCHANGED <<mode, ctxDone, reader, closer>>
  PROVE  LeakInv'
<1>1. leg \in Requests /\ "down" \in Requests /\ "up" \in Requests
  BY DEF LeakInv, StreamTypeOK, Requests
<1>2. /\ req' \in [Requests -> RequestType]
      /\ \A r \in Requests : Sound(req'[r]) /\ req'[r].at = req[r].at
      /\ req'["up"].once # "body"
      /\ req'[leg].cancelled /\ Released(req'[leg])
      /\ leg = "up" => req'["down"].cancelled /\ Released(req'["down"])
  <2>1. CASE leg = "up"
    <3> DEFINE p == Closed(q["down"])
    <3>1. /\ p \in RequestType /\ Sound(p) /\ p.cancelled /\ Released(p)
          /\ p.at = q["down"].at
      BY <1>1, ClosedReleases
    <3>2. req' = [q EXCEPT !["down"] = p]
      BY <2>1 DEF GiveUp
    <3> HIDE DEF p
    <3>3. /\ req' \in [Requests -> RequestType] /\ req'["down"] = p
          /\ req'["up"] = q["up"]
      BY <1>1, <3>1, <3>2
    <3> QED
      BY <2>1, <3>1, <3>3 DEF Requests
  <2>2. CASE leg = "down"
    BY <1>1, <2>2 DEF GiveUp
  <2> QED
    BY <2>1, <2>2 DEF LeakInv, StreamTypeOK
<1>3. dial' = "failed" /\ pipe' = "closed" /\ leg' = leg
  BY DEF GiveUp
<1>4. closer' = "idle"
  BY DEF LeakInv, DialOrder, StreamTypeOK, Opening
<1>5. StreamTypeOK'
  BY <1>2, <1>3 DEF LeakInv, StreamTypeOK
<1>6. DrainsUp'
  BY <1>1, <1>2 DEF LeakInv, DrainsUp
<1>7. DialOrder' /\ PipeClosed'
  BY <1>1, <1>2, <1>3, <1>4 DEF LeakInv, DialOrder, PipeClosed
<1>8. Settled'
  <2>1. ASSUME NEW r \in Requests, req'[r].at # "none"
        PROVE  req'[r].cancelled /\ Released(req'[r])
    <3>1. r = leg \/ (leg = "up" /\ r = "down") \/ (leg = "down" /\ r = "up")
      BY DEF LeakInv, StreamTypeOK, Requests
    <3>2. leg = "down" => req'["up"].at = "none"
      BY <1>1, <1>2 DEF LeakInv, DialOrder
    <3> QED
      BY <1>2, <2>1, <3>1, <3>2
  <2> QED
    BY <1>3, <1>4, <2>1 DEF Settled
<1> QED
  BY <1>2, <1>5, <1>6, <1>7, <1>8 DEF LeakInv

\* The steps of DialContext.
LEMMA DialInv ==
  ASSUME LeakInv, Dial
  PROVE  LeakInv'
<1>1. leg \in Requests /\ "down" \in Requests /\ "up" \in Requests
  BY DEF LeakInv, StreamTypeOK, Requests
<1>2. CASE OpenStream
  <2> DEFINE p == [req[leg] EXCEPT !.at = "sent"]
  <2>1. /\ req[leg] \in RequestType /\ Sound(req[leg]) /\ req[leg].at = "none"
        /\ req[leg].once # "body"
    BY <1>1, <1>2 DEF OpenStream, LeakInv, StreamTypeOK, DialOrder, Sound
  <2>2. p \in RequestType /\ Sound(p) /\ p.at = "sent" /\ p.once # "body"
    BY <2>1 DEF RequestType, Sound
  <2>3. req' = [req EXCEPT ![leg] = p]
    BY <1>2 DEF OpenStream
  <2> HIDE DEF p
  <2>4. /\ req \in [Requests -> RequestType] /\ req' \in [Requests -> RequestType]
        /\ req'[leg] = p /\ \A x \in Requests : x # leg => req'[x] = req[x]
    BY <1>1, <2>2, <2>3 DEF LeakInv, StreamTypeOK
  <2>5. /\ dial = "begin" /\ dial' = "connect" /\ leg' = leg /\ closer = "idle"
        /\ pipe' = IF mode = "packet-up" THEN "closed" ELSE pipe
        /\ UNCHANGED <<mode, ctxDone, reader, closer>>
    BY <1>2 DEF OpenStream, Elsewhere, LeakInv, DialOrder, StreamTypeOK
  <2>6. StreamTypeOK'
    BY <2>4, <2>5 DEF LeakInv, StreamTypeOK
  <2>7. \A r \in Requests : Sound(req'[r])
    BY <2>2, <2>4 DEF LeakInv
  <2>8. DrainsUp'
    BY <1>1, <2>2, <2>4 DEF LeakInv, DrainsUp
  <2>9. DialOrder' /\ PipeClosed' /\ Settled'
    BY <1>1, <2>4, <2>5 DEF LeakInv, DialOrder, PipeClosed, Settled
  <2> QED
    BY <2>6, <2>7, <2>8, <2>9 DEF LeakInv
<1>3. CASE Connected \/ Responded \/ GraceEnds
  <2>1. /\ \/ leg' = leg /\ dial' \in {"answer", "open"}
           \/ mode = "stream-up" /\ leg = "down" /\ dial' = "begin" /\ leg' = "up"
        /\ dial \in {"connect", "answer"}
        /\ UNCHANGED <<req, pipe, mode, ctxDone, reader, closer>>
    BY <1>3 DEF Connected, Responded, GraceEnds, Opened, Elsewhere
  <2>2. StreamTypeOK' /\ DrainsUp' /\ \A r \in Requests : Sound(req'[r])
    BY <2>1 DEF LeakInv, StreamTypeOK, DrainsUp
  <2>3. DialOrder' /\ PipeClosed' /\ Settled'
    BY <2>1 DEF LeakInv, DialOrder, PipeClosed, Settled, StreamTypeOK
  <2> QED
    BY <2>2, <2>3 DEF LeakInv
<1>4. CASE OpenFails
  <2>1. /\ req \in [Requests -> RequestType]
        /\ \A r \in Requests : Sound(req[r]) /\ req[r].at = req[r].at
        /\ req["up"].once # "body"
    BY DEF LeakInv, StreamTypeOK, DrainsUp
  <2>2. req[leg].cancelled /\ Released(req[leg])
    BY <1>1, <1>4, <2>1 DEF OpenFails, Sound, Released
  <2>3. Opening /\ GiveUp(req) /\ UNCHANGED <<mode, ctxDone, reader, closer>>
    BY <1>4 DEF OpenFails, Elsewhere
  <2> QED
    BY <2>1, <2>2, <2>3, GiveUpInv
<1>5. CASE OpenCancelled
  <2> DEFINE p == Closed(req[leg])
             q == [req EXCEPT ![leg] = p]
  <2>1. req[leg] \in RequestType /\ Sound(req[leg])
    BY <1>1 DEF LeakInv, StreamTypeOK
  <2>2. /\ p \in RequestType /\ Sound(p) /\ p.cancelled /\ Released(p)
        /\ p.at = req[leg].at /\ (req[leg].once # "body" => p.once # "body")
    BY <2>1, ClosedReleases
  <2>3. Opening /\ GiveUp(q) /\ UNCHANGED <<mode, ctxDone, reader, closer>>
    BY <1>5 DEF OpenCancelled, Elsewhere
  <2> HIDE DEF p
  <2>4. /\ q \in [Requests -> RequestType] /\ q[leg] = p
        /\ \A x \in Requests : x # leg => q[x] = req[x]
    BY <1>1, <2>2 DEF LeakInv, StreamTypeOK
  <2> HIDE DEF q
  <2>5. \A r \in Requests : Sound(q[r]) /\ q[r].at = req[r].at
    BY <1>1, <2>2, <2>4 DEF LeakInv
  <2>6. q["up"].once # "body"
    BY <1>1, <2>2, <2>4 DEF LeakInv, DrainsUp
  <2> QED
    BY <2>2, <2>3, <2>4, <2>5, <2>6, GiveUpInv
<1> QED
  BY <1>2, <1>3, <1>4, <1>5 DEF Dial

\* The steps that leave the requests, the pipe and the dial alone.
LEMMA AsideInv ==
  ASSUME LeakInv, UNCHANGED <<mode, dial, leg, req, pipe>>,
         ctxDone' \in BOOLEAN, reader' \in {"idle", "blocked"},
         \/ closer' = closer
         \/ dial = "open" /\ closer' = "writer"
         \/ dial = "open" /\ pipe = "closed" /\ closer' = "reader"
  PROVE  LeakInv'
<1>1. StreamTypeOK' /\ DrainsUp' /\ \A r \in Requests : Sound(req'[r])
  BY DEF LeakInv, StreamTypeOK, DrainsUp
<1>2. DialOrder' /\ PipeClosed' /\ Settled'
  BY DEF LeakInv, DialOrder, PipeClosed, Settled
<1> QED
  BY <1>1, <1>2 DEF LeakInv

LEMMA CloseInv ==
  ASSUME LeakInv, Close
  PROVE  LeakInv'
<1>1. /\ closer # "idle" => dial = "open"
      /\ ctxDone \in BOOLEAN /\ reader \in {"idle", "blocked"}
  BY DEF LeakInv, DialOrder, StreamTypeOK
<1>2. CASE ClosePipe
  <2>1. StreamTypeOK' /\ DrainsUp' /\ \A r \in Requests : Sound(req'[r])
    BY <1>2 DEF ClosePipe, Dialing, LeakInv, StreamTypeOK, DrainsUp
  <2>2. DialOrder' /\ PipeClosed' /\ Settled'
    BY <1>1, <1>2 DEF ClosePipe, Dialing, LeakInv, DialOrder, PipeClosed, Settled
  <2> QED
    BY <2>1, <2>2 DEF LeakInv
<1>3. CASE CloseStop
  <2>1. /\ UNCHANGED <<mode, dial, leg, req, pipe, ctxDone, reader>>
        /\ closer = "writer" /\ mode = "packet-up" /\ closer' \in {"writer", "reader"}
    BY <1>3 DEF CloseStop, Dialing
  <2>2. pipe = "closed"
    BY <1>1, <2>1 DEF LeakInv, PipeClosed
  <2> QED
    BY <1>1, <2>1, <2>2, AsideInv
<1>4. CASE CloseReader
  <2> DEFINE p == Closed(req["down"])
  <2>1. "down" \in Requests /\ "up" \in Requests
    BY DEF Requests
  <2>2. req["down"] \in RequestType /\ Sound(req["down"])
    BY <2>1 DEF LeakInv, StreamTypeOK
  <2>3. /\ p \in RequestType /\ Sound(p) /\ p.cancelled /\ Released(p)
        /\ p.at = req["down"].at
    BY <2>2, ClosedReleases
  <2>4. /\ req' = [req EXCEPT !["down"] = p] /\ closer = "reader" /\ closer' = "done"
        /\ UNCHANGED <<mode, dial, leg, ctxDone, pipe, reader>>
    BY <1>4 DEF CloseReader, Dialing
  <2> HIDE DEF p
  <2>5. /\ req' \in [Requests -> RequestType] /\ req'["down"] = p /\ req'["up"] = req["up"]
    BY <2>1, <2>3, <2>4 DEF LeakInv, StreamTypeOK
  <2>6. StreamTypeOK'
    BY <2>4, <2>5 DEF LeakInv, StreamTypeOK
  <2>7. DrainsUp' /\ \A r \in Requests : Sound(req'[r])
    BY <2>3, <2>5 DEF LeakInv, DrainsUp, Requests
  <2>8. DialOrder' /\ PipeClosed' /\ Settled'
    BY <1>1, <2>3, <2>4, <2>5 DEF LeakInv, StreamTypeOK, DialOrder, PipeClosed, Settled, Requests
  <2> QED
    BY <2>6, <2>7, <2>8 DEF LeakInv
<1> QED
  BY <1>2, <1>3, <1>4 DEF Close

\* Every step keeps the invariant.
LEMMA LeakStep ==
  ASSUME LeakInv, [XNext]_xvars
  PROVE  LeakInv'
<1>1. ctxDone \in BOOLEAN /\ reader \in {"idle", "blocked"}
  BY DEF LeakInv, StreamTypeOK
<1>2. CASE \E r \in Requests : Request(r)
  BY <1>2, RequestInv
<1>3. CASE Dial
  BY <1>3, DialInv
<1>4. CASE CtxDone \/ ReadCall \/ ReadData \/ ReadError \/ CloseCall
  BY <1>1, <1>4, AsideInv DEF CtxDone, ReadCall, ReadData, ReadError, CloseCall, Dialing
<1>5. CASE UNCHANGED svars
  BY <1>1, <1>5, AsideInv DEF svars
<1>6. CASE Close
  BY <1>6, CloseInv
<1>7. CASE \/ \E data \in Data : Upload(WriteCall(data))
           \/ Upload(Write) \/ Upload(Take) \/ Upload(Pace) \/ Upload(Post)
  BY <1>5, <1>7 DEF Upload
<1>8. CASE UNCHANGED xvars
  BY <1>5, <1>8 DEF xvars
<1> QED
  BY <1>2, <1>3, <1>4, <1>6, <1>7, <1>8 DEF XNext

\* The stream and its uploader keep their types, and the queue of Write never holds
\* more than one chunk.
THEOREM StreamTypes == XSpec => []XTypeOK
<1>1. XInit => UInv /\ LeakInv
  BY UInitInv, LeakInit DEF XInit
<1>2. UInv /\ LeakInv /\ [XNext]_xvars => (UInv /\ LeakInv)'
  BY UploaderStep, LeakStep
<1>3. UInv /\ LeakInv => XTypeOK
  BY DEF UInv, LeakInv, StreamTypeOK, RequestType, XTypeOK
<1> QED
  BY <1>1, <1>2, <1>3, PTL DEF XSpec

\* A failed dial and a closed stream leave nothing behind, whatever raced: the pipe is
\* closed, the requests are cancelled and no goroutine ends with an open body.
THEOREM NothingLeaks == XSpec => []NoLeak
<1>1. XInit => LeakInv
  BY LeakInit
<1>2. LeakInv /\ [XNext]_xvars => LeakInv'
  BY LeakStep
<1>3. LeakInv => NoLeak
  <2> SUFFICES ASSUME LeakInv, dial = "failed" \/ closer = "done",
                      NEW r \in Requests, req[r].at # "none"
               PROVE  /\ req[r].cancelled \/ (dial = "open" /\ r = "up")
                      /\ req[r].at = "ended" => req[r].body # "open"
    BY DEF NoLeak, LeakInv, PipeClosed
  <2>1. Sound(req[r]) /\ (r = "up" => req[r].once # "body") /\ r \in {"down", "up"}
    BY DEF LeakInv, DrainsUp, Requests
  <2>2. CASE dial = "failed"
    BY <2>1, <2>2 DEF LeakInv, Settled, Sound, Released
  <2>3. CASE closer = "done"
    BY <2>1, <2>3 DEF LeakInv, Settled, DialOrder, Sound, Released
  <2> QED
    BY <2>2, <2>3
<1> QED
  BY <1>1, <1>2, <1>3, PTL DEF XSpec
=============================================================================
