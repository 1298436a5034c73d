------------------------ MODULE MC_IncrementalBuild ------------------------
(***************************************************************************)
(* Instances of IncrementalBuild for TLC; package 1 is the root.           *)
(***************************************************************************)
EXTENDS IncrementalBuild, TLC

None == [p \in Pkgs |-> {}]
Topology(main, m_list) ==
  [main |-> main, build |-> None, dev |-> None, m_list |-> m_list,
   has_library |-> \E i \in DOMAIN m_list : m_list[i] = 1,
   scripted |-> {}, faults |-> {}]

\* Libraries only: a chain, a triangle, and two independent dependencies of a
\* root without a library.
LibraryShapes ==
  { Topology(1 :> {2} @@ 2 :> {3} @@ 3 :> {}, <<3, 2, 1>>),
    Topology(1 :> {2, 3} @@ 2 :> {} @@ 3 :> {}, <<3, 2>>),
    Topology(1 :> {2, 3} @@ 2 :> {3} @@ 3 :> {}, <<3, 2, 1>>) }

\* A scripted dependency (package 2) whose script may need package 3.
ScriptShapes ==
  { [g EXCEPT !.scripted = {2}] :
      g \in { Topology(1 :> {2} @@ 2 :> {} @@ 3 :> {}, <<2, 1>>),
              [Topology(1 :> {2} @@ 2 :> {} @@ 3 :> {}, <<3, 2, 1>>)
                 EXCEPT !.build[2] = {3}],
              Topology(1 :> {2} @@ 2 :> {3} @@ 3 :> {}, <<3, 2, 1>>) } }

With(shapes, faults) == { [g EXCEPT !.faults = faults] : g \in shapes }

\* The root also has a dependency without a script, which may fail after the
\* script was run.
StaleShapes ==
  { [Topology(1 :> {2, 3} @@ 2 :> {} @@ 3 :> {}, <<3, 2, 1>>)
       EXCEPT !.scripted = {2}, !.faults = {"fail"}] }

\* Scripts whose minicargo exits.
AbandonShapes == With(ScriptShapes, {"fail", "exit"})

\* Jobs may fail in all of these; minicargo may exit where the script's package
\* has no other dependencies (with one there are too many states).  Every shape
\* is there without exits too, for RebuildIsNoop.
AnyShapes ==
  With(LibraryShapes \cup { g \in ScriptShapes : g.main[2] = {} }, {"fail", "exit"})
    \cup With(LibraryShapes \cup ScriptShapes, {"fail"})
    \cup StaleShapes

\* A test of package 1 with a dev-dependency on package 2.
TestShapes == { [Topology(None, <<2, 1>>) EXCEPT !.dev[1] = {2}] }
=============================================================================
