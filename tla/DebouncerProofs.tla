--------------------------- MODULE DebouncerProofs ---------------------------
(***************************************************************************)
(* TLAPS proofs about the flap filter, for every debounce threshold and    *)
(* every sequence of observations, and about the decision table beside it. *)
(***************************************************************************)
EXTENDS PolicyTable, TLAPS

Known == {"inactive", "active"}

\* The filter is in one of three conditions: nothing observed yet, settled on the last
\* observation, or counting an unconfirmed flip.
Fresh    == run = 0 /\ last = "unknown" /\ deb = NewDebouncer
Settled  == run > 0 /\ last \in Known
            /\ deb = [committed |-> last, pending |-> last, count |-> 0]
Counting == /\ run > 0 /\ run < Threshold /\ last \in Known
            /\ deb.committed \in Known \ {last}
            /\ deb.pending = last /\ deb.count = run

DebInv == DebTypeOK /\ (Fresh \/ Settled \/ Counting)

DebStates == [committed : CiscoStates, pending : CiscoStates, count : Nat]

\* The filter after an unconfirmed flip has been seen n times.
Counted(d, raw, n) == [d EXCEPT !.pending = raw, !.count = n]

LEMMA CountedType ==
  ASSUME NEW d \in DebStates, NEW raw \in CiscoStates, NEW n \in Nat
  PROVE  /\ Counted(d, raw, n) \in DebStates
         /\ Counted(d, raw, n).committed = d.committed
         /\ Counted(d, raw, n).pending = raw /\ Counted(d, raw, n).count = n
  BY DEF DebStates, Counted

\* Every observation moves between those conditions, and a flip happens only when the
\* run reaches the threshold.
LEMMA FeedStep ==
  ASSUME DebInv, NEW raw \in Known, Feed(raw)
  PROVE  /\ DebInv'
         /\ deb'.committed # deb.committed /\ deb.committed # "unknown" => run' = Threshold
<1> USE ThresholdOK
<1>1. /\ deb' = Observe(deb, raw, Threshold) /\ last' = raw
      /\ run' = IF raw = last THEN run + 1 ELSE 1
      /\ run' \in Nat /\ run' > 0
  BY DEF Feed, DebInv, DebTypeOK
<1>d. deb \in DebStates /\ raw \in CiscoStates
  BY DEF DebInv, DebTypeOK, DebStates, Known, CiscoStates
<1> DEFINE done == [committed |-> raw, pending |-> raw, count |-> 0]
<1>2. deb' = done => DebInv'
  BY <1>1 DEF DebInv, DebTypeOK, Settled, Known, CiscoStates
<1>3. CASE deb.committed \in {"unknown", raw}
  BY <1>1, <1>2, <1>3 DEF Observe
<1>4. CASE deb.committed \notin {"unknown", raw}
  <2>1. deb' = Confirm(deb, raw, Threshold)
    BY <1>1, <1>4 DEF Observe
  <2>2. CASE Settled
    <3>1. run' = 1 /\ raw # deb.pending
      BY <1>1, <1>4, <2>2 DEF Settled
    <3>2. CASE Threshold = 1
      <4>1. deb' = done
        BY <2>1, <3>1, <3>2 DEF Confirm
      <4> QED BY <1>2, <3>1, <3>2, <4>1
    <3>3. CASE Threshold # 1
      <4>1. deb' = Counted(deb, raw, 1)
        BY <2>1, <3>1, <3>3 DEF Confirm, Counted
      <4>2. /\ deb'.committed = deb.committed /\ deb'.pending = raw /\ deb'.count = 1
            /\ deb' \in DebStates
        BY <1>d, <4>1, CountedType
      <4>3. deb.committed \in Known \ {raw} /\ 1 < Threshold
        BY <1>4, <2>2, <3>3 DEF Settled
      <4>4. Counting'
        BY <1>1, <3>1, <4>2, <4>3 DEF Counting
      <4>5. DebTypeOK'
        BY <1>1, <4>2, <4>3 DEF DebTypeOK, DebStates, Known, CiscoStates
      <4> QED BY <4>2, <4>4, <4>5 DEF DebInv
    <3> QED BY <3>2, <3>3
  <2>3. CASE Counting
    <3>1. raw = last /\ run' = run + 1 /\ run \in Nat
      BY <1>1, <1>4, <2>3 DEF Counting, Known, DebInv, DebTypeOK
    <3>2. CASE run + 1 >= Threshold
      <4>1. deb' = done /\ run' = Threshold
        BY <2>1, <2>3, <3>1, <3>2 DEF Confirm, Counting
      <4> QED BY <1>2, <4>1
    <3>3. CASE ~(run + 1 >= Threshold)
      <4>1. deb' = Counted(deb, raw, run + 1)
        BY <2>1, <2>3, <3>1, <3>3 DEF Confirm, Counting, Counted
      <4>2. /\ deb'.committed = deb.committed /\ deb'.pending = raw /\ deb'.count = run + 1
            /\ deb' \in DebStates
        <5>1. run + 1 \in Nat
          BY <3>1
        <5> QED BY <1>d, <4>1, <5>1, CountedType
      <4>3. deb.committed \in Known \ {raw} /\ run + 1 < Threshold
        BY <2>3, <3>1, <3>3 DEF Counting
      <4>4. Counting'
        BY <1>1, <3>1, <4>2, <4>3 DEF Counting
      <4>5. DebTypeOK'
        BY <1>1, <4>2, <4>3 DEF DebTypeOK, DebStates, Known, CiscoStates
      <4> QED BY <4>2, <4>4, <4>5 DEF DebInv
    <3> QED BY <3>2, <3>3
  <2> QED BY <1>4, <2>2, <2>3 DEF DebInv, Fresh, NewDebouncer
<1> QED BY <1>3, <1>4

\* The three conditions imply what CommittedFollowsRuns says.
LEMMA DebInvFollows == ASSUME DebInv PROVE CommittedFollowsRuns
<1> USE ThresholdOK
<1>1. CASE Fresh
  BY <1>1 DEF Fresh, NewDebouncer, CommittedFollowsRuns, Pending
<1>2. CASE Settled
  BY <1>2 DEF Settled, CommittedFollowsRuns, Pending
<1>3. CASE Counting
  <2>1. run \in Nat /\ ~(run >= Threshold)
    BY <1>3 DEF Counting, DebInv, DebTypeOK
  <2>2. Pending(deb)
    BY <1>3 DEF Counting, Known, Pending
  <2> QED BY <1>3, <2>1, <2>2 DEF Counting, CommittedFollowsRuns
<1> QED BY <1>1, <1>2, <1>3 DEF DebInv

LEMMA DebInitInv == ASSUME DebInit PROVE DebInv
  BY ThresholdOK DEF DebInit, DebInv, DebTypeOK, Fresh, NewDebouncer, CiscoStates

LEMMA DebStep ==
  ASSUME DebInv, [DebNext]_dvars
  PROVE  /\ DebInv'
         /\ [deb'.committed # deb.committed /\ deb.committed # "unknown"
               => run' = Threshold]_dvars
<1>1. CASE DebNext
  BY <1>1, FeedStep DEF DebNext, Known
<1>2. CASE UNCHANGED dvars
  BY <1>2 DEF dvars, DebInv, DebTypeOK, Fresh, Settled, Counting
<1> QED BY <1>1, <1>2

\* The filter is always fresh, settled or counting.
THEOREM DebouncerInvariance == DebSpec => []DebInv
<1>1. DebInit => DebInv
  BY DebInitInv
<1>2. DebInv /\ [DebNext]_dvars => DebInv'
  BY DebStep
<1> QED BY <1>1, <1>2, PTL DEF DebSpec

\* Observe commits an observation seen threshold times in a row, and what it counts
\* is the length of the current run, for every threshold.
THEOREM DebouncerFollowsRuns == DebSpec => []CommittedFollowsRuns
<1>1. DebInv => CommittedFollowsRuns
  BY DebInvFollows
<1> QED BY <1>1, DebouncerInvariance, PTL

\* A blip shorter than the threshold never flips the committed Cisco state, for every
\* threshold.
THEOREM BlipsAreFiltered == DebSpec => FlipNeedsRun
<1>1. DebInv /\ [DebNext]_dvars =>
        [deb'.committed # deb.committed /\ deb.committed # "unknown" => run' = Threshold]_dvars
  BY DebStep
<1> QED BY <1>1, DebouncerInvariance, PTL DEF DebSpec, FlipNeedsRun

-----------------------------------------------------------------------------

\* Rules a and b on one input.
LEMMA YieldRules ==
  ASSUME in \in DecideInputs, in.newCisco = "active"
  PROVE  /\ "startForwarder" \notin Decide(in).actions
         /\ in.intent = "none" /\ in.mode = "vpn" =>
              {"failClosed", "stopForwarder"} \subseteq Decide(in).actions
<1>1. \A m, a : Only(m, a).actions = a
  BY DEF Only
<1>2. in.mode \in Modes /\ in.intent \in Intents
  BY DEF DecideInputs
<1>3. CASE in.intent = "none"
  BY <1>1, <1>2, <1>3 DEF Decide, DecideObserved, Modes
<1>4. CASE in.intent # "none"
  BY <1>1, <1>2, <1>4 DEF Decide, DecideIntent, Modes, Intents
<1> QED
  BY <1>3, <1>4

\* The filter of a poll is the filter of Debouncer, so what is proved of that one holds
\* here.
THEOREM TableImplementsDebouncer == TableSpec => DebSpec
<1>1. TableInit => DebInit
  BY DEF TableInit
<1>2. [Poll]_<<dvars, in>> => [DebNext]_dvars
  BY DEF Poll
<1> QED
  BY <1>1, <1>2, PTL DEF TableSpec, DebSpec

\* The table is asked with what the filter has committed.
Asked == in \in DecideInputs /\ in.newCisco = deb.committed

\* For every threshold and every sequence of observations: Decide never starts our TUN
\* while Cisco is committed, and asks for its end at every poll once Cisco was seen often
\* enough.
THEOREM DecisionsYield == TableSpec => []NoVPNUnderCisco
<1>1. TableInit => Asked
  BY DEF TableInit, DebInit, PollInputs, NewDebouncer, Asked
<1>2. Asked /\ [Poll]_<<dvars, in>> => Asked'
  BY DEF Poll, PollInputs, Asked, dvars
<1>3. Asked /\ CommittedFollowsRuns => NoVPNUnderCisco
  BY YieldRules DEF Asked, CommittedFollowsRuns, NoVPNUnderCisco
<1> QED
  BY <1>1, <1>2, <1>3, TableImplementsDebouncer, DebouncerFollowsRuns, PTL DEF TableSpec
=============================================================================
