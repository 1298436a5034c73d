----------------------------- MODULE MC_JobList -----------------------------
(***************************************************************************)
(* Instances of JobList for TLC.                                           *)
(***************************************************************************)
EXTENDS JobListProps, TLC

CONSTANTS t1, t2, p1, p2, p3

\* Jobs are numbered; a job's number is also its name's rank.
Identity == [j \in Jobs |-> j]
OneOwner == [j \in Jobs |-> p1]
SplitOwner == [j \in Jobs |-> IF j <= 2 THEN p1 ELSE p2]
ThreeOwners == [j \in Jobs |-> IF j <= 3 THEN p1 ELSE IF j <= 5 THEN p2 ELSE p3]

\* All acyclic dependency graphs of Jobs in which jobs depend on jobs of the
\* same owner, whatever the order of their names.
Acyclic(g) ==
  ~ \E C \in SUBSET Jobs : C # {} /\ \A j \in C : g[j] \cap C # {}
AllGraphs ==
  { g \in [Jobs -> SUBSET Jobs] :
      Acyclic(g) /\ \A j \in Jobs : \A k \in g[j] : Owner[k] = Owner[j] }

\* Seven jobs of three owners: nothing, a chain or a join for the first, and
\* a dependency against the order of names for the third.
Apart == [j \in Jobs |-> IF j = 6 THEN {7} ELSE {}]
ModeGraphs ==
  { Apart, [Apart EXCEPT ![1] = {2}, ![2] = {3}], [Apart EXCEPT ![1] = {2, 3}] }

NoLimit == [p \in Procs |-> 0]
FirstMinusJ2 == [p \in Procs |-> IF p = p1 THEN 2 ELSE 0]

TokenSymmetry == Permutations({t1, t2})
=============================================================================
