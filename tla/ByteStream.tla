----------------------------- MODULE ByteStream -----------------------------
(***************************************************************************)
(* What an uplink promises its writer: the receiver gets a prefix of the   *)
(* bytes that were accepted, in order and without repetition, and an       *)
(* orderly close means that it got all of them.                            *)
(***************************************************************************)
EXTENDS Sequences, Naturals

CONSTANT Byte

VARIABLES written, received, status

svars == <<written, received, status>>

Init == written = <<>> /\ received = <<>> /\ status = "open"

Accept ==
  /\ status = "open"
  /\ written' \in Seq(Byte) /\ Len(written') >= Len(written)
  /\ SubSeq(written', 1, Len(written)) = written
  /\ UNCHANGED <<received, status>>

Grow ==
  /\ Len(received') \in Len(received)..Len(written)
  /\ received' = SubSeq(written, 1, Len(received'))

Deliver == status = "open" /\ Grow /\ UNCHANGED <<written, status>>

\* A break may come with a last delivery nobody confirmed.
Break == status = "open" /\ status' = "broken" /\ Grow /\ UNCHANGED written

Close ==
  /\ status = "open" /\ received = written
  /\ status' = "closed"
  /\ UNCHANGED <<written, received>>

Next == Accept \/ Deliver \/ Break \/ Close

Spec == Init /\ [][Next]_svars
=============================================================================
