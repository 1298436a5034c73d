----------------------------- MODULE BuildOrder -----------------------------
(***************************************************************************)
(* The order in which minicargo considers packages: the constructor of     *)
(* BuildList (tools/minicargo/build.cpp).  It walks the dependency graph   *)
(* from the root package, gives every package instance a level (its depth  *)
(* below the root) and sorts by level, deepest first.  BuildList::build    *)
(* relies on the result: handle_dep aborts on a dependency that was not    *)
(* considered before.                                                      *)
(***************************************************************************)
EXTENDS Naturals, FiniteSets, Sequences

CONSTANTS
  Pkgs,             \* packages
  Root,             \* the package being built
  Graphs,           \* candidate graphs, with whether the root has a library
  ProcMacros,       \* packages whose library is a proc macro
  Scripted,         \* packages with a build script
  Rank,             \* [Pkgs -> Nat]: the order of (name, version)
  TargetNamed,      \* whether --target was given
  EmitMmir,         \* -Z emit-mmir
  Overrides,        \* whether a directory of script outputs was given
  TestMode          \* --test

DependencyGraph == [main : [Pkgs -> SUBSET Pkgs], build : [Pkgs -> SUBSET Pkgs],
                    dev : [Pkgs -> SUBSET Pkgs], has_library : BOOLEAN]

\* Jobs are named by name and version (get_key), so no two packages share both.
ASSUME ConstantsAssumption ==
  /\ Root \in Pkgs
  /\ ProcMacros \subseteq Pkgs
  /\ Scripted \subseteq Pkgs
  /\ Graphs \subseteq DependencyGraph
  /\ Rank \in [Pkgs -> Nat]
  /\ \A p, q \in Pkgs : Rank[p] = Rank[q] => p = q
  /\ TargetNamed \in BOOLEAN /\ EmitMmir \in BOOLEAN
  /\ Overrides \in BOOLEAN /\ TestMode \in BOOLEAN

VARIABLES
  graph,            \* the enabled dependencies, fixed
  stage,            \* "walk" over the dependencies, "dev", then "sorted"
  pending,          \* add_package calls still to be made
  list,             \* ListBuilder::m_list before sorting
  m_list            \* BuildList::m_list

vars == <<graph, stage, pending, list, m_list>>

Entry == [package : Pkgs, native : BOOLEAN, level : Nat]

\* What the duplicate search compares: std::find_if on package and native.
Identity(e) == [package |-> e.package, native |-> e.native]

\* The root and its dependencies are built for the host without --target.
RootNative == IF TargetNamed THEN FALSE ELSE TRUE

\* RunState::get_key of a library: with a cross-compiler, host and target
\* builds of one package are different jobs.
Cross == TargetNamed /\ ~EmitMmir
Key(p, is_host) ==
  [package |-> p, host |-> Cross /\ (is_host \/ p \in ProcMacros)]

\* Mutant: build dependencies are walked as target packages.
Calls_BuildForTarget(p, level, native) ==
  { [package |-> d, native |-> native, level |-> level + 1] :
      d \in graph.main[p] \cup
            (IF p \in Scripted /\ ~Overrides THEN graph.build[p] ELSE {}) }

\* The add_package calls made by add_dependencies.
Calls(p, level, native) ==
  { [package |-> d, native |-> native, level |-> level + 1] : d \in graph.main[p] }
  \cup
  { [package |-> d, native |-> TRUE, level |-> level + 1] :
      d \in IF p \in Scripted /\ ~Overrides THEN graph.build[p] ELSE {} }

\* Mutant: a package that is already listed is skipped whatever its level.
Listed_AnyLevel(c) == \E e \in list : Identity(e) = Identity(c)

\* add_package only skips a package that will be built early enough.
Listed(c) == \E e \in list : Identity(e) = Identity(c) /\ e.level >= c.level

\* add_package, which forces proc macros to be native.  Calls are nested in
\* the code; here they are made in any order.
AddPackage ==
  /\ stage \in {"walk", "dev"}
  /\ \E c \in pending :
       LET e == [c EXCEPT !.native = @ \/ c.package \in ProcMacros]
       IN /\ list' = IF Listed(e) THEN list ELSE list \cup {e}
          /\ pending' = (pending \ {c}) \cup
                        (IF Listed(e) THEN {} ELSE Calls(e.package, e.level, e.native))
  /\ UNCHANGED <<graph, stage, m_list>>

\* The root's library goes last (level 0); tests also need dev-dependencies.
AddRoot ==
  /\ stage = "walk" /\ pending = {}
  /\ stage' = "dev"
  /\ list' = IF graph.has_library
             THEN list \cup {[package |-> Root, native |-> RootNative, level |-> 0]}
             ELSE list
  /\ pending' = { [package |-> d, native |-> RootNative, level |-> 1] :
                    d \in IF TestMode THEN graph.dev[Root] ELSE {} }
  /\ UNCHANGED <<graph, m_list>>

\* Mutant: shallow packages first.
Before_Shallow(a, b) ==
  \/ a.level < b.level
  \/ a.level = b.level /\ Rank[a.package] > Rank[b.package]

\* The comparison of sort_list.
Before(a, b) ==
  \/ a.level > b.level
  \/ a.level = b.level /\ Rank[a.package] > Rank[b.package]

\* std::sort leaves open in which order it puts the host and the target
\* instance of a package when they have the same level.
Precedes(a, b, native_first) ==
  \/ Before(a, b)
  \/ ~Before(b, a) /\ a.native # b.native /\ a.native = native_first

\* Mutant: nothing is removed after sorting.
Deduplicated_Not == list

\* Of several entries of one instance the first after sorting is kept.
Deduplicated ==
  { e \in list : \A f \in list : Identity(f) = Identity(e) => ~Before(f, e) }

\* sort_list, and the copy into BuildList::m_list.
SortList ==
  /\ stage = "dev" /\ pending = {}
  /\ stage' = "sorted"
  /\ \E native_first \in BOOLEAN :
       LET Place(e) == 1 + Cardinality({ f \in Deduplicated : Precedes(f, e, native_first) })
       IN m_list' = [ i \in 1..Cardinality(Deduplicated) |->
                        Identity(CHOOSE e \in Deduplicated : Place(e) = i) ]
  /\ UNCHANGED <<graph, pending, list>>

Init ==
  /\ graph \in Graphs
  /\ stage = "walk"
  /\ pending = Calls(Root, 0, RootNative)
  /\ list = {}
  /\ m_list = <<>>

Next == AddPackage \/ AddRoot \/ SortList

Spec == Init /\ [][Next]_vars
-----------------------------------------------------------------------------
\* The keys BuildList::build passes to handle_dep for an entry of the list.
NeededKeys(e) ==
  { Key(d, e.native) : d \in graph.main[e.package] } \cup
  { Key(d, TRUE) : d \in IF e.package \in Scripted /\ ~Overrides
                         THEN graph.build[e.package] ELSE {} }

\* The keys needed by the root's binaries or tests.
RootKeys ==
  IF graph.has_library THEN {Key(Root, ~Cross)}
  ELSE { Key(d, ~Cross) : d \in graph.main[Root] } \cup
       { Key(d, TRUE) : d \in IF Root \in Scripted /\ ~Overrides
                              THEN graph.build[Root] ELSE {} }

\* The assertion of handle_dep never fails ("ASSERTION Failed:
\* items_notbuilt.find"): whatever the shape of the graph and the mixture of
\* host and target builds, every dependency is considered before its users.
ConsideredFirst ==
  stage = "sorted" =>
    /\ \A i \in DOMAIN m_list : \A k \in NeededKeys(m_list[i]) :
         \E j \in 1..(i - 1) : Key(m_list[j].package, m_list[j].native) = k
    /\ \A k \in RootKeys : \E j \in DOMAIN m_list :
         Key(m_list[j].package, m_list[j].native) = k

\* Whether a call was made good by an entry at its level or deeper.
Done(c) ==
  \/ c \in pending
  \/ LET d == [c EXCEPT !.native = @ \/ c.package \in ProcMacros]
     IN \E e \in list : Identity(e) = Identity(d) /\ e.level >= d.level

\* The walk keeps its promise in levels: the dependencies of every listed
\* instance, and those of the root, are listed deeper or still to be visited.
LevelsIncrease ==
  /\ \A c \in Calls(Root, 0, RootNative) : Done(c)
  /\ \A e \in list : \A c \in Calls(e.package, e.level, e.native) : Done(c)

\* A library is built by one job: no two entries of m_list lead to jobs with
\* the same key, which would write the same file at the same time.
OneJobPerLibrary ==
  \A i, j \in DOMAIN m_list : i # j =>
    Key(m_list[i].package, m_list[i].native) # Key(m_list[j].package, m_list[j].native)
=============================================================================
