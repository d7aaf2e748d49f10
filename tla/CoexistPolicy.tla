---------------------------- MODULE CoexistPolicy ----------------------------
(***************************************************************************)
(* The pure half of the coexistence with Cisco AnyConnect: the decision    *)
(* table of internal/policy/policy.go and the debouncing step of           *)
(* internal/monitor/debounce.go.                                           *)
(***************************************************************************)
EXTENDS Naturals

Modes       == {"proxy", "vpn", "switching"}
CiscoStates == {"unknown", "inactive", "active"}
Intents     == {"none", "enableVPN", "disableVPN"}

DecideInputs ==
  [mode : Modes, prevCisco : CiscoStates, newCisco : CiscoStates,
   intent : Intents, physChanged : BOOLEAN, boundPhys : BOOLEAN]

\* The actions of a decision, as a set: the executor folds the slice into flags, so
\* neither order nor repetition matters.  The empty set is ActNone.
Only(mode, acts) == [actions |-> acts, nextMode |-> mode]

\* A concrete edge: both ends are known.
CiscoChanged(in) ==
  \/ in.prevCisco = "inactive" /\ in.newCisco = "active"
  \/ in.prevCisco = "active" /\ in.newCisco = "inactive"

DecideIntent(in) ==
  CASE in.intent = "enableVPN" /\ in.newCisco = "active" -> Only(in.mode, {"showWarning"})
    [] in.intent = "enableVPN" /\ in.newCisco # "active" /\ in.mode = "vpn" -> Only("vpn", {})
    [] in.intent = "enableVPN" /\ in.newCisco # "active" /\ in.mode # "vpn" ->
         Only("vpn", {"startForwarder"})
    [] in.intent = "disableVPN" /\ in.mode = "vpn" -> Only("proxy", {"stopForwarder"})
    [] in.intent = "disableVPN" /\ in.mode # "vpn" -> Only(in.mode, {})

\* Mutants of rule b: it looks at the edge only, or is missing.
DecideObservedOnEdge(in) ==
  IF in.mode = "vpn" /\ in.newCisco = "active" /\ CiscoChanged(in)
    THEN Only("proxy", {"failClosed", "stopForwarder", "notify"})
  ELSE IF in.mode = "proxy" /\ in.boundPhys THEN Only("proxy", {"unbindProxy"})
  ELSE IF in.mode = "proxy" /\ CiscoChanged(in) THEN Only("proxy", {"refreshProxy"})
  ELSE Only(in.mode, {})

DecideObservedNoYield(in) ==
  IF in.mode = "proxy" /\ in.boundPhys THEN Only("proxy", {"unbindProxy"})
  ELSE IF in.mode = "proxy" /\ CiscoChanged(in) THEN Only("proxy", {"refreshProxy"})
  ELSE Only(in.mode, {})

\* The observation-driven half; the cases are tried in order, as in the switch.
DecideObserved(in) ==
  IF in.mode = "switching" THEN Only("switching", {})
  ELSE IF in.newCisco = "active" /\ in.mode = "vpn"
    THEN Only("proxy", {"failClosed", "stopForwarder", "notify"})
  ELSE IF in.mode = "proxy" /\ in.boundPhys THEN Only("proxy", {"unbindProxy"})
  ELSE IF in.mode = "proxy" /\ CiscoChanged(in) THEN Only("proxy", {"refreshProxy"})
  ELSE IF in.physChanged /\ in.mode = "vpn" THEN Only("vpn", {"refreshProxy"})
  ELSE Only(in.mode, {})

Decide(in) == IF in.intent # "none" THEN DecideIntent(in) ELSE DecideObserved(in)

-----------------------------------------------------------------------------
(***************************************************************************)
(* Debouncer: d is [committed, pending, count].                            *)
(***************************************************************************)
NewDebouncer == [committed |-> "unknown", pending |-> "unknown", count |-> 0]

\* Mutant: one observation more than the threshold is needed.
ConfirmLate(d, raw, threshold) ==
  LET n == IF raw = d.pending THEN d.count + 1 ELSE 1
  IN IF n > threshold
       THEN [committed |-> raw, pending |-> raw, count |-> 0]
       ELSE [d EXCEPT !.pending = raw, !.count = n]

\* Another observation of raw, which differs from the committed state.
Confirm(d, raw, threshold) ==
  LET n == IF raw = d.pending THEN d.count + 1 ELSE 1
  IN IF n >= threshold
       THEN [committed |-> raw, pending |-> raw, count |-> 0]
       ELSE [d EXCEPT !.pending = raw, !.count = n]

\* Mutant: an observation of the committed state does not reset the count.
ObserveNoReset(d, raw, threshold) ==
  CASE d.committed = "unknown" -> [committed |-> raw, pending |-> raw, count |-> 0]
    [] d.committed = raw       -> d
    [] OTHER                   -> Confirm(d, raw, threshold)

Observe(d, raw, threshold) ==
  IF d.committed \in {"unknown", raw}
    THEN [committed |-> raw, pending |-> raw, count |-> 0]
    ELSE Confirm(d, raw, threshold)

Pending(d) == d.committed # "unknown" /\ d.pending # d.committed
=============================================================================
