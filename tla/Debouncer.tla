------------------------------ MODULE Debouncer ------------------------------
(***************************************************************************)
(* The flap filter of internal/monitor/debounce.go fed with an arbitrary   *)
(* sequence of raw observations.  last and run are history: the last raw   *)
(* observation and how many times in a row it has been seen.               *)
(***************************************************************************)
EXTENDS CoexistPolicy

CONSTANTS
  Threshold,  \* NewDebouncer's argument (2 in cmd/singctl/main.go), at least 1
  MaxRun      \* bound on the length of a run of equal observations

ASSUME ThresholdOK == Threshold \in Nat \ {0} /\ MaxRun \in Nat

VARIABLES deb, last, run

dvars == <<deb, last, run>>

DebInit == deb = NewDebouncer /\ last = "unknown" /\ run = 0

Feed(raw) ==
  /\ raw = last => run < MaxRun
  /\ deb' = Observe(deb, raw, Threshold)
  /\ last' = raw
  /\ run' = IF raw = last THEN run + 1 ELSE 1

DebNext == \E raw \in {"inactive", "active"} : Feed(raw)

DebSpec == DebInit /\ [][DebNext]_dvars

-----------------------------------------------------------------------------

\* The filter's fields keep their types, and its count never reaches the threshold.
DebTypeOK ==
  /\ deb \in [committed : CiscoStates, pending : CiscoStates, count : Nat]
  /\ deb.count < Threshold
  /\ last \in CiscoStates
  /\ run \in Nat

\* The filter neither lags nor leads: once an observation has been seen Threshold
\* times in a row it is the committed state, and while a flip is unconfirmed the
\* count is the length of the current run, so the run is shorter than Threshold.
CommittedFollowsRuns ==
  /\ run >= Threshold => deb.committed = last
  /\ Pending(deb) => deb.count = run /\ deb.pending = last /\ run < Threshold
  /\ run > 0 /\ ~Pending(deb) => deb.committed = last

\* A blip cannot flip the committed state: apart from the initial synchronisation it
\* changes only on the observation that completes a run of exactly Threshold.
FlipNeedsRun ==
  [][deb'.committed # deb.committed /\ deb.committed # "unknown" => run' = Threshold]_dvars
=============================================================================
