---------------------------- MODULE BuildSchedule ----------------------------
(***************************************************************************)
(* What the job runner promises, with no queues, waits or jobserver: jobs  *)
(* of several builds run at most Slots at a time, each once and only after *)
(* everything it depends on was built, and a build that has seen a failure *)
(* starts nothing more.                                                    *)
(***************************************************************************)
EXTENDS Naturals, FiniteSets

CONSTANTS Builds, Jobs, Owner, NameOf, DepGraphs, Slots

VARIABLES
  dependencies,   \* names each job depends on
  begun,          \* jobs that have ever been started
  active,         \* jobs that are running
  built,          \* [Builds -> names of the jobs that succeeded]
  broken          \* builds with a failed job

vars == <<dependencies, begun, active, built, broken>>

Init ==
  /\ dependencies \in DepGraphs
  /\ begun = {}
  /\ active = {}
  /\ built = [b \in Builds |-> {}]
  /\ broken = {}

MayBegin(j) ==
  /\ j \notin begun
  /\ dependencies[j] \subseteq built[Owner[j]]
  /\ Owner[j] \notin broken

Begin(j) ==
  /\ MayBegin(j)
  /\ Cardinality(active) < Slots
  /\ begun' = begun \cup {j}
  /\ active' = active \cup {j}
  /\ UNCHANGED <<dependencies, built, broken>>

\* The start failed: the job never becomes active.
Misfire(j) ==
  /\ MayBegin(j)
  /\ begun' = begun \cup {j}
  /\ UNCHANGED <<dependencies, active, built, broken>>

\* A dry run counts a job as built without running it.
Pretend(j) ==
  /\ MayBegin(j)
  /\ begun' = begun \cup {j}
  /\ built' = [built EXCEPT ![Owner[j]] = @ \cup {NameOf[j]}]
  /\ UNCHANGED <<dependencies, active, broken>>

Finish(j) ==
  /\ j \in active
  /\ active' = active \ {j}
  /\ \/ /\ built' = [built EXCEPT ![Owner[j]] = @ \cup {NameOf[j]}]
        /\ UNCHANGED broken
     \/ /\ broken' = broken \cup {Owner[j]}
        /\ UNCHANGED built
  /\ UNCHANGED <<dependencies, begun>>

Next == \E j \in Jobs : Begin(j) \/ Misfire(j) \/ Pretend(j) \/ Finish(j)

Spec == Init /\ [][Next]_vars
=============================================================================
