--------------------------- MODULE MC_BuildOrder ---------------------------
(***************************************************************************)
(* Instances of BuildOrder for TLC: packages are numbered so that normal   *)
(* and build dependencies go to larger numbers; package 1 is the root.     *)
(***************************************************************************)
EXTENDS BuildOrder

Deeper == [p \in Pkgs |-> { q \in Pkgs : q > p }]
Downward == { g \in [Pkgs -> SUBSET Pkgs] : \A p \in Pkgs : g[p] \subseteq Deeper[p] }
Nothing == [p \in Pkgs |-> {}]

\* Every acyclic graph of normal dependencies, with build dependencies of
\* the scripted packages.
MixedGraphs ==
  { [main |-> m, build |-> b, dev |-> Nothing, has_library |-> l] :
      m \in Downward,
      b \in { g \in Downward : \A p \in Pkgs \ Scripted : g[p] = {} },
      l \in BOOLEAN }

\* Dev-dependencies of the root, which may depend on the root's library.
DevGraphsOfRoot ==
  { [main |-> [m EXCEPT ![2] = @ \cup back], build |-> Nothing,
     dev |-> [Nothing EXCEPT ![1] = d], has_library |-> TRUE] :
      m \in { g \in Downward : 2 \notin g[1] },
      back \in {{}, {1}},
      d \in SUBSET {2, 3} }

AllGraphs == MixedGraphs \cup DevGraphsOfRoot

ByNumber == [p \in Pkgs |-> p]
=============================================================================
