----------------------------- MODULE MCAppRouting -----------------------------
(* Application routing for TLC: applications are alike, and so are PIDs. *)
EXTENDS AppRouting, TLC

Alike == Permutations(PIDs) \cup Permutations(Apps)

\* For overlapping requests: two of them are about different applications.
Apart == \A q, r \in Requests : q # r /\ req[q].app # None => req[q].app # req[r].app
=============================================================================
