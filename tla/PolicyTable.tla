----------------------------- MODULE PolicyTable -----------------------------
(***************************************************************************)
(* The two pure halves of the policy as Monitor.poll joins them: every     *)
(* observation goes through the debouncer, and the decision table is asked *)
(* with the state committed before and after it.  The mode, the intent and *)
(* the bindings are whatever they may be.                                  *)
(***************************************************************************)
EXTENDS Debouncer

VARIABLE in   \* the input of the last decision

\* The inputs of a poll that finds one committed state and leaves another.
PollInputs(before, after) ==
  {i \in DecideInputs : i.prevCisco = before /\ i.newCisco = after}

TableInit == DebInit /\ in \in PollInputs("unknown", "unknown")

Poll == DebNext /\ in' \in PollInputs(deb.committed, deb'.committed)

TableSpec == TableInit /\ [][Poll]_<<dvars, in>>

-----------------------------------------------------------------------------

\* Rules a and b, from the observations to the actions: Decide never asks for the
\* forwarder while Cisco is committed, and once Cisco has been seen Threshold times in
\* a row every poll that finds our VPN up asks for its end.
NoVPNUnderCisco ==
  /\ in.newCisco = "active" => "startForwarder" \notin Decide(in).actions
  /\ last = "active" /\ run >= Threshold /\ in.mode = "vpn" /\ in.intent = "none" =>
       {"failClosed", "stopForwarder"} \subseteq Decide(in).actions
=============================================================================
