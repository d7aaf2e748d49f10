---------------------------- MODULE XHTTPStream ----------------------------
(***************************************************************************)
(* One stream of internal/xhttp: DialContext opens the long-lived requests *)
(* of its mode (client.go), each carried by a goroutine and handed over in *)
(* a pendingReader, and streamConn reads, writes and closes (conn.go).     *)
(*                                                                         *)
(* In packet-up the writer is the uploader of PacketUpload; in the stream  *)
(* modes it is the pipe that is the body of a request.  Servers answer,    *)
(* refuse, withhold their answer or go away at any moment.                 *)
(***************************************************************************)
EXTENDS PacketUpload

VARIABLES
  mode,     \* d.mode
  dial, leg,\* where DialContext is, and the request it opens
  ctxDone,  \* the dial context is cancelled
  req,      \* the requests of the stream, "down" and "up"
  pipe,     \* the pipe of the uplink: "open" or "closed"
  reader,   \* a Read in progress
  closer    \* where streamConn.Close is

svars == <<mode, dial, leg, ctxDone, req, pipe, reader, closer>>
xvars == <<svars, uvars>>

Modes == {"packet-up", "stream-up", "stream-one"}
Requests == {"down", "up"}

\* Under REALITY "auto" is one full-duplex request.
ResolveMode(m, reality) ==
  IF m \in Modes THEN m ELSE IF reality THEN "stream-one" ELSE "packet-up"

NoRequest == [at |-> "none", once |-> "unset", body |-> "none", cancelled |-> FALSE,
              connected |-> FALSE, responded |-> FALSE, failed |-> FALSE]

XInit ==
  /\ UInit
  /\ \E m \in Modes \cup {"auto", ""}, reality \in BOOLEAN : mode = ResolveMode(m, reality)
  /\ dial = "begin" /\ leg = "down" /\ ctxDone = FALSE
  /\ req = [r \in Requests |-> NoRequest]
  /\ pipe = "open" /\ reader = "idle" /\ closer = "idle"

\* The response of the upload half of stream-up is drained, not read.
Drained(r) == r = "up"

-----------------------------------------------------------------------------
(* The goroutine of a request: client.Do and what follows it. *)

Becomes(r, q) == req' = [req EXCEPT ![r] = q]

Apart == UNCHANGED <<mode, dial, leg, ctxDone, pipe, reader, closer, uvars>>

GotConn(r) ==
  /\ req[r].at = "sent" /\ ~req[r].connected
  /\ Becomes(r, [req[r] EXCEPT !.connected = TRUE])
  /\ Apart

\* fail keeps the first outcome.
Failed(q) == IF q.once = "unset" THEN "err" ELSE q.once

\* The request fails, is cancelled, or is answered with another status than 200.
DoFails(r) ==
  /\ req[r].at = "sent"
  /\ Becomes(r, [req[r] EXCEPT !.at = "ended", !.cancelled = TRUE,
                            !.once = Failed(req[r]), !.failed = TRUE])
  /\ Apart

\* Response headers; the upload half only drains the body it gets.
DoAnswers(r) ==
  /\ req[r].at = "sent" /\ req[r].connected
  /\ Becomes(r, [req[r] EXCEPT !.body = "open", !.responded = Drained(r),
                            !.at = IF Drained(r) THEN "drain" ELSE "set"])
  /\ Apart

Drain(r) ==
  /\ req[r].at = "drain"
  /\ Becomes(r, [req[r] EXCEPT !.at = "ended", !.body = "closed", !.cancelled = TRUE,
                            !.once = Failed(req[r])])
  /\ Apart

\* pendingReader.set: the body is handed over, unless fail came first.
SetOnce(r) ==
  /\ req[r].at = "set"
  /\ Becomes(r, [req[r] EXCEPT !.at = "check", !.once = IF @ = "unset" THEN "body" ELSE @])
  /\ Apart

\* Mutant: the body that lost the race stays open.
SetCheckKeeps(r) ==
  /\ req[r].at = "check"
  /\ Becomes(r, [req[r] EXCEPT !.at = "ended", !.responded = TRUE])
  /\ Apart

SetCheck(r) ==
  /\ req[r].at = "check"
  /\ Becomes(r, [req[r] EXCEPT !.at = "ended", !.responded = TRUE,
                            !.body = IF req[r].once = "body" THEN @ ELSE "closed"])
  /\ Apart

-----------------------------------------------------------------------------
(* DialContext and openStream. *)

Elsewhere == UNCHANGED <<mode, ctxDone, reader, closer, uvars>>

OpenStream ==
  /\ dial = "begin"
  /\ req' = [req EXCEPT ![leg].at = "sent"]
  /\ dial' = "connect" /\ UNCHANGED leg
  /\ pipe' = IF mode = "packet-up" THEN "closed" ELSE pipe
  /\ Elsewhere

\* openStream returned a stream.
Opened ==
  IF mode = "stream-up" /\ leg = "down" THEN dial' = "begin" /\ leg' = "up"
                                        ELSE dial' = "open" /\ UNCHANGED leg

\* The grace clock starts with the connection, except for the upload half, which
\* does not wait for an answer.
Connected ==
  /\ dial = "connect" /\ req[leg].connected
  /\ IF Drained(leg) THEN Opened ELSE dial' = "answer" /\ UNCHANGED leg
  /\ UNCHANGED <<req, pipe>> /\ Elsewhere

Responded ==
  /\ dial = "answer" /\ req[leg].responded
  /\ Opened
  /\ UNCHANGED <<req, pipe>> /\ Elsewhere

\* Mutant: no grace clock.
GraceEndsNever == FALSE /\ UNCHANGED xvars

\* The peer withholds its headers: the stream is handed back all the same.
GraceEnds ==
  /\ dial = "answer"
  /\ Opened
  /\ UNCHANGED <<req, pipe>> /\ Elsewhere

\* pendingReader.Close.  After fail the outcome no longer changes, so the steps
\* that follow it commute with the request's goroutine.
Closed(q) ==
  [q EXCEPT !.once = Failed(q), !.cancelled = TRUE,
            !.body = IF q.once = "body" THEN "closed" ELSE @]

\* A failed upload half closes the stream, and with it the downlink.
GiveUp(q) ==
  /\ dial' = "failed" /\ pipe' = "closed" /\ UNCHANGED leg
  /\ req' = IF leg = "up" THEN [q EXCEPT !["down"] = Closed(@)] ELSE q

Opening == dial \in {"connect", "answer"}

OpenFails ==
  /\ Opening /\ req[leg].failed
  /\ GiveUp(req)
  /\ Elsewhere

OpenCancelled ==
  /\ Opening /\ ctxDone
  /\ GiveUp([req EXCEPT ![leg] = Closed(@)])
  /\ Elsewhere

CtxDone ==
  /\ ~ctxDone /\ ctxDone' = TRUE
  /\ UNCHANGED <<mode, dial, leg, req, pipe, reader, closer, uvars>>

-----------------------------------------------------------------------------
(* streamConn. *)

Dialing == UNCHANGED <<mode, dial, leg, ctxDone>>

ReadCall ==
  /\ dial = "open" /\ reader = "idle" /\ closer # "done"
  /\ reader' = "blocked"
  /\ Dialing /\ UNCHANGED <<req, pipe, closer, uvars>>

\* The body delivers bytes or its end.
ReadData ==
  /\ reader = "blocked" /\ req["down"].once = "body" /\ req["down"].body = "open"
  /\ reader' = "idle"
  /\ Dialing /\ UNCHANGED <<req, pipe, closer, uvars>>

ReadError ==
  /\ reader = "blocked"
  /\ req["down"].once = "err" \/ (req["down"].once = "body" /\ req["down"].body = "closed")
  /\ reader' = "idle"
  /\ Dialing /\ UNCHANGED <<req, pipe, closer, uvars>>

\* The uploader runs from the moment the stream of its mode is open.
Uploading == dial = "open" /\ mode = "packet-up"

Upload(A) == Uploading /\ A /\ UNCHANGED svars

CloseCall ==
  /\ dial = "open" /\ closer = "idle"
  /\ closer' = "writer"
  /\ Dialing /\ UNCHANGED <<req, pipe, reader, uvars>>

\* The writer first: the pipe, or stop and its two halves.
ClosePipe ==
  /\ closer = "writer" /\ mode # "packet-up"
  /\ pipe' = "closed" /\ closer' = "reader"
  /\ Dialing /\ UNCHANGED <<req, reader, uvars>>

CloseStop ==
  /\ closer = "writer" /\ mode = "packet-up"
  /\ StopMark \/ StopJoin
  /\ closer' = IF stopper' = "done" THEN "reader" ELSE closer
  /\ Dialing /\ UNCHANGED <<req, pipe, reader>>

CloseReader ==
  /\ closer = "reader"
  /\ closer' = "done"
  /\ req' = [req EXCEPT !["down"] = Closed(@)]
  /\ Dialing /\ UNCHANGED <<pipe, reader, uvars>>

-----------------------------------------------------------------------------

Request(r) ==
  GotConn(r) \/ DoFails(r) \/ DoAnswers(r) \/ Drain(r) \/ SetOnce(r) \/ SetCheck(r)

Dial ==
  \/ OpenStream \/ Connected \/ Responded \/ GraceEnds
  \/ OpenFails \/ OpenCancelled

Close == ClosePipe \/ CloseStop \/ CloseReader

Post == PostOK \/ PostFails

XNext ==
  \/ \E r \in Requests : Request(r)
  \/ Dial \/ CtxDone
  \/ ReadCall \/ ReadData \/ ReadError
  \/ \E data \in Data : Upload(WriteCall(data))
  \/ Upload(Write) \/ Upload(Take) \/ Upload(Pace) \/ Upload(Post)
  \/ CloseCall \/ Close

\* Goroutines run and timers fire; a connection is made or given up, and a request
\* that is cancelled ends.  Nobody has to answer a request or a POST, to cancel or to
\* close.
XFairness ==
  /\ WF_xvars(Dial)
  /\ \A r \in Requests :
       /\ WF_xvars(GotConn(r) \/ (DoFails(r) /\ ~req[r].connected))
       /\ WF_xvars(req[r].cancelled /\ (DoFails(r) \/ Drain(r)))
       /\ WF_xvars(SetOnce(r) \/ SetCheck(r))
  /\ WF_xvars(ReadError)
  /\ WF_xvars(Upload(Write)) /\ WF_xvars(Upload(Take))
  /\ WF_xvars(Upload(Pace))
  /\ WF_xvars(Close)

XSpec == XInit /\ [][XNext]_xvars /\ XFairness

-----------------------------------------------------------------------------

\* Types of the stream and of its uploader, which never queues more than a chunk.
XTypeOK ==
  /\ UTypeOK
  /\ mode \in Modes
  /\ dial \in {"begin", "connect", "answer", "open", "failed"} /\ leg \in {"down", "up"}
  /\ ctxDone \in BOOLEAN
  /\ req \in [Requests ->
       [at : {"none", "sent", "set", "check", "drain", "ended"},
        once : {"unset", "body", "err"}, body : {"none", "open", "closed"},
        cancelled : BOOLEAN, connected : BOOLEAN, responded : BOOLEAN, failed : BOOLEAN]]
  /\ pipe \in {"open", "closed"} /\ reader \in {"idle", "blocked"}
  /\ closer \in {"idle", "writer", "reader", "done"}

\* A dial that failed, whatever raced (an answer, a cancellation, the grace clock),
\* and a stream that was closed leave nothing behind: the pipe is closed, every
\* request of a failed dial and the downlink of a closed stream are cancelled, and
\* a request whose goroutine is through has no open body.
NoLeak ==
  dial = "failed" \/ closer = "done" =>
    /\ pipe = "closed"
    /\ \A r \in Requests :
         req[r].at # "none" =>
           /\ req[r].cancelled \/ (dial = "open" /\ r = "up")
           /\ req[r].at = "ended" => req[r].body # "open"

\* DialContext returns, also when the peer connects and then withholds its headers.
DialReturns == <>(dial \in {"open", "failed"})

\* Close returns and releases a Read that is blocked on the stream and a Write that
\* is blocked on the uploader, unless the server withholds its answer to a POST for
\* ever: stop waits for the POST in flight before it cancels anything.
CloseReleases ==
  []<>(up # "post") =>
    (closer # "idle" ~> (closer = "done" /\ reader = "idle" /\ writer = "idle"))

\* The comment of openStream: a request "must still be cancellable, which is what
\* closing the stream does".
CloseCancelsAll ==
  closer = "done" => \A r \in Requests : req[r].at # "none" => req[r].cancelled
=============================================================================
