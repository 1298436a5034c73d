----------------------- MODULE IncrementalBuildProofs -----------------------
(***************************************************************************)
(* Proofs about what minicargo rebuilds, for any packages, dependencies,   *)
(* edits and builds: what its plan is (PlanIsRight); that a job's inputs   *)
(* are complete while it runs (InputsAreReady); that a build after a       *)
(* successful one does nothing (RebuildDoesNothing); and that comparing    *)
(* timestamps misses no change (SuccessIsFresh, StaleIsNoticed).           *)
(***************************************************************************)
EXTENDS IncrementalBuild, Integers, FiniteSetTheorems, TLAPS

-----------------------------------------------------------------------------
(* What a plan should be, without the loop that makes it.                  *)

\* The outputs the plan looks at when it decides about f: it is dirty when one
\* of them is, and then waits for it.
Looks(f) ==
  LET p == f[2] IN
  CASE f[1] = "lib"   -> {<<"run", p>>} \cup Libs(graph.main[p])
    [] f[1] = "build" -> Libs(graph.build[p])
    [] f[1] = "run"   -> {<<"build", p>>} \cup Libs(graph.main[p])
    [] f[1] = "root"  -> IF graph.has_library THEN Libs({p}) ELSE Libs(graph.main[p])

\* Those whose age it compares with that of f.
Compared(f) == IF f[1] = "lib" THEN Libs(graph.main[f[2]]) ELSE Looks(f)

\* f is dirty whatever the rest of the plan is.
Old(f) ==
  \/ f[1] # "run" /\ NeedsRebuild(f)
  \/ \E d \in Compared(f) : ts[f] < ts[d]

\* plan is right about the outputs in S.
Right(plan, S) ==
  /\ DOMAIN plan \subseteq S
  /\ \A f \in S : f \in DOMAIN plan <=> Old(f) \/ Looks(f) \cap DOMAIN plan # {}
  /\ \A f \in DOMAIN plan : plan[f] = Looks(f) \cap DOMAIN plan

\* The libraries a package and its script need.
Needs(p) == graph.main[p] \cup (IF p \in graph.scripted THEN graph.build[p] ELSE {})

\* The place of an output in the loop over m_list.
Listed == Len(graph.m_list)
Index(p) == IF p \in Built THEN CHOOSE i \in 1..Listed : graph.m_list[i] = p ELSE Listed + 1
Rank(f) ==
  CASE f[1] = "build" -> 3 * Index(f[2])
    [] f[1] = "run"   -> 3 * Index(f[2]) + 1
    [] f[1] = "lib"   -> 3 * Index(f[2]) + 2
    [] f[1] = "root"  -> 3 * Listed + 5

-----------------------------------------------------------------------------
(* The invariants: the parts that need no timestamps.                      *)

Files == Sources \cup Outputs
Versions == Sources \X Nat

TypeOK ==
  /\ graph \in Topologies
  /\ ts \in [Files -> Nat]
  /\ content \in [Files -> SUBSET Versions]
  /\ broken \subseteq Outputs
  /\ phase \in {"idle", "building"}
  /\ DOMAIN jobs \subseteq Outputs
  /\ status \in [DOMAIN jobs -> {"waiting", "running", "done", "failed"}]
  /\ orphans \subseteq Outputs
  /\ snapshot \in [Outputs -> SUBSET Versions]
  /\ clock \in Nat

\* Not, or no longer, to be made by the build in progress.
Settled(f) == f \in DOMAIN jobs => status[f] = "done"

\* The jobs are what a plan makes them, and have started in their order.
PlanFollowed ==
  /\ phase = "idle" => jobs = [j \in {} |-> {}]
  /\ \A f \in DOMAIN jobs : jobs[f] = Looks(f) \cap DOMAIN jobs
  /\ \A f \in Outputs : Looks(f) \cap DOMAIN jobs # {} => f \in DOMAIN jobs
  /\ \A f \in DOMAIN jobs : status[f] # "waiting" =>
       \A d \in jobs[f] : status[d] = "done"

\* Hypotheses on the packages: a root with a script has a library, which waits
\* for it, and no tests with dev-dependencies are built.
RootScript == \A g \in Topologies : Root \in g.scripted => g.has_library
NoDevTests == TestMode => \A g \in Topologies : g.dev[Root] = {}

\* A hypothesis on the steps: minicargo leaves compilers behind, not scripts.
LeavesNoScript ==
  phase = "building" /\ phase' = "idle" => \A j \in Running : j[1] # "run"

\* f exists and is complete.
Written(f) == ts[f] > 0 /\ f \notin broken

\* What is incomplete is the log of a script that runs, and what the build in
\* progress is done with is complete.
WrittenInv ==
  /\ broken \subseteq { f \in Running : f[1] = "run" }
  /\ phase = "building" => \A f \in Outputs : Settled(f) => Written(f)

-----------------------------------------------------------------------------
(* Induction.  The induction theorems of the library take an operator; here *)
(* the set of numbers with a property takes its place, and the finite sets *)
(* 0..n, well-founded by inclusion, give it a least element.               *)

\* Of finite sets, one has none of the others below it.
LEMMA MinimalSet ==
  ASSUME NEW D, D # {}, \A d \in D : IsFiniteSet(d)
  PROVE  \E d \in D : \A e \in D : e \subseteq d => e = d
<1> DEFINE S == UNION D
<1> DEFINE R == StrictSubsetOrdering(S)
<1>0. D \subseteq SUBSET S
  OBVIOUS
<1> HIDE DEF S
<1>1. IsWellFoundedOn(R, FiniteSubsetsOf(S))
  BY FS_StrictSubsetOrderingWellFounded
<1>2. D \subseteq FiniteSubsetsOf(S)
  BY <1>0 DEF FiniteSubsetsOf
<1>3. \A d, e \in D : e \subseteq d /\ e # d => <<e, d>> \in R
  BY <1>0 DEF StrictSubsetOrdering
<1> HIDE DEF R
<1>4. \E d \in D : \A e \in D : ~ (<<e, d>> \in R)
  BY <1>1, <1>2, WFMin
<1> QED BY <1>3, <1>4

\* A set of numbers has a least one.
LEMMA LeastNatural ==
  ASSUME NEW T, T \subseteq Nat, T # {}
  PROVE  \E x \in T : \A y \in T : x <= y
<1> DEFINE D == {0..x : x \in T}
<1>1. D # {}
  <2> PICK x \in T : TRUE OBVIOUS
  <2>1. 0..x \in D OBVIOUS
  <2> QED BY <2>1
<1>2. \A d \in D : IsFiniteSet(d)
  <2>1. \A x \in T : x \in Int /\ 0 \in Int OBVIOUS
  <2> QED BY <2>1, FS_Interval
<1>3. PICK d \in D : \A e \in D : e \subseteq d => e = d
  <2> HIDE DEF D
  <2> QED BY <1>1, <1>2, MinimalSet
<1>4. PICK x \in T : d = 0..x
  OBVIOUS
<1>5. ASSUME NEW y \in T, y < x PROVE FALSE
  <2>1. 0..y \in D OBVIOUS
  <2>2. 0..y \subseteq 0..x BY <1>5
  <2>3. 0..y = 0..x BY <2>1, <2>2, <1>3, <1>4
  <2>4. x \in 0..x BY <1>4
  <2> QED BY <2>3, <2>4, <1>5
<1> QED BY <1>4, <1>5

\* A set with 0, and with n + 1 when with n, has all numbers.
LEMMA NaturalInduction ==
  ASSUME NEW T, 0 \in T, \A n \in Nat : n \in T => n + 1 \in T
  PROVE  Nat \subseteq T
<1> SUFFICES ASSUME Nat \ T # {} PROVE FALSE
  OBVIOUS
<1> DEFINE U == Nat \ T
<1>1. PICK x \in U : \A y \in U : x <= y
  <2>1. U \subseteq Nat /\ U # {} OBVIOUS
  <2> HIDE DEF U
  <2> QED BY <2>1, LeastNatural
<1>2. x \in Nat /\ x # 0 BY <1>1
<1>3. x - 1 \in Nat /\ x - 1 \notin U BY <1>1, <1>2
<1> QED BY <1>1, <1>2, <1>3

-----------------------------------------------------------------------------
(* The outputs and their order in the list.                                *)

\* The parts of a graph and their types.
LEMMA GraphFacts ==
  ASSUME graph \in Topologies
  PROVE  /\ Root \in Pkgs
         /\ graph.main \in [Pkgs -> SUBSET Pkgs]
         /\ graph.build \in [Pkgs -> SUBSET Pkgs]
         /\ graph.dev \in [Pkgs -> SUBSET Pkgs]
         /\ graph.scripted \subseteq Pkgs
         /\ graph.m_list \in Seq(Pkgs)
         /\ Listed \in Nat
         /\ DOMAIN graph.m_list = 1..Listed
         /\ Built = { graph.m_list[i] : i \in 1..Listed }
         /\ Built \subseteq Pkgs
BY TopologyAssumption DEF Listed, Built

\* What OrderAssumption says of graph.
LEMMA OrderFacts ==
  ASSUME graph \in Topologies
  PROVE  /\ \A i, j \in 1..Listed : graph.m_list[i] = graph.m_list[j] => i = j
         /\ \A i \in 1..Listed : \A d \in Needs(graph.m_list[i]) :
              \E j \in 1..(i - 1) : d = graph.m_list[j]
         /\ Needs(Root) \subseteq Built
         /\ TestMode => graph.dev[Root] \subseteq Built
         /\ graph.has_library = (Root \in Built)
<1> DEFINE before(i) == { graph.m_list[j] : j \in 1..(i - 1) }
<1>1. /\ \A i, j \in DOMAIN graph.m_list : graph.m_list[i] = graph.m_list[j] => i = j
      /\ \A i \in DOMAIN graph.m_list :
           Needs(graph.m_list[i]) \subseteq before(i)
      /\ Needs(Root) \subseteq before(Len(graph.m_list) + 1)
      /\ TestMode => graph.dev[Root] \subseteq before(Len(graph.m_list) + 1)
      /\ graph.has_library = (Root \in before(Len(graph.m_list) + 1))
  BY OrderAssumption DEF Needs
<1>2. Listed \in Nat /\ DOMAIN graph.m_list = 1..Listed /\ Built = { graph.m_list[i] : i \in 1..Listed }
  BY GraphFacts
<1>3. before(Len(graph.m_list) + 1) = Built
  <2>1. 1..(Listed + 1 - 1) = 1..Listed BY <1>2
  <2> QED BY <2>1, <1>2 DEF Listed
<1>4. ASSUME NEW i \in 1..Listed,
             NEW d \in Needs(graph.m_list[i])
      PROVE  \E j \in 1..(i - 1) : d = graph.m_list[j]
  <2>1. d \in before(i) BY <1>1, <1>2
  <2> QED BY <2>1
<1>5. \A i, j \in 1..Listed : graph.m_list[i] = graph.m_list[j] => i = j
  BY <1>1, <1>2
<1> HIDE DEF before
<1>6. /\ Needs(Root) \subseteq Built
      /\ TestMode => graph.dev[Root] \subseteq Built
      /\ graph.has_library = (Root \in Built)
  BY <1>1, <1>3
<1> QED BY <1>4, <1>5, <1>6

\* A listed package has one place, after that of everything it needs.
LEMMA IndexFacts ==
  ASSUME graph \in Topologies
  PROVE  /\ \A p \in Built : Index(p) \in 1..Listed /\ graph.m_list[Index(p)] = p
         /\ \A i \in 1..Listed : graph.m_list[i] \in Built /\ Index(graph.m_list[i]) = i
         /\ \A p : p \notin Built => Index(p) = Listed + 1
         /\ \A p : Index(p) \in Nat /\ Index(p) > 0 /\ Index(p) <= Listed + 1
         /\ \A p \in Built : \A d \in Needs(p) :
              d \in Built /\ Index(d) < Index(p)
<1>0. Listed \in Nat /\ Built = { graph.m_list[i] : i \in 1..Listed }
  BY GraphFacts
<1>1. \A p \in Built : Index(p) \in 1..Listed /\ graph.m_list[Index(p)] = p
  <2> TAKE p \in Built
  <2>1. \E i \in 1..Listed : graph.m_list[i] = p
    BY <1>0
  <2>2. Index(p) = CHOOSE i \in 1..Listed : graph.m_list[i] = p
    BY DEF Index
  <2> QED BY <2>1, <2>2
<1>2. \A i \in 1..Listed : graph.m_list[i] \in Built /\ Index(graph.m_list[i]) = i
  BY <1>0, <1>1, OrderFacts
<1>3. \A p : p \notin Built => Index(p) = Listed + 1
  BY DEF Index
<1>4. \A p : Index(p) \in Nat /\ Index(p) > 0 /\ Index(p) <= Listed + 1
  BY <1>0, <1>1, <1>3
<1>5. ASSUME NEW p \in Built, NEW d \in Needs(p)
      PROVE  d \in Built /\ Index(d) < Index(p)
  <2>1. PICK j \in 1..(Index(p) - 1) : d = graph.m_list[j]
    BY <1>1, OrderFacts
  <2>2. j \in 1..Listed /\ j < Index(p)
    BY <1>0, <1>1
  <2> QED BY <2>1, <2>2, <1>2
<1> QED BY <1>1, <1>2, <1>3, <1>4, <1>5

\* An output is of one of four kinds.
LEMMA OutputKinds ==
  /\ \A f \in Outputs :
       \/ \E p \in Built : f = <<"lib", p>>
       \/ \E p \in (Built \cup {Root}) \cap graph.scripted : f = <<"build", p>>
       \/ \E p \in (Built \cup {Root}) \cap graph.scripted : f = <<"run", p>>
       \/ f = <<"root", Root>>
  /\ \A p : <<"lib", p>> \in Outputs <=> p \in Built
  /\ \A p : <<"build", p>> \in Outputs <=> p \in (Built \cup {Root}) \cap graph.scripted
  /\ \A p : <<"run", p>> \in Outputs <=> p \in (Built \cup {Root}) \cap graph.scripted
  /\ RootTarget = <<"root", Root>> /\ RootTarget \in Outputs
<1>1. \A f : f \in Outputs <=>
       \/ \E p \in Built : f = <<"lib", p>>
       \/ \E p \in (Built \cup {Root}) \cap graph.scripted : f = <<"build", p>>
       \/ \E p \in (Built \cup {Root}) \cap graph.scripted : f = <<"run", p>>
       \/ f = <<"root", Root>>
  <2> DEFINE S == UNION { Script(p) : p \in Built \cup {Root} }
  <2>1. \A f : f \in S <=> \E p \in (Built \cup {Root}) \cap graph.scripted :
                              f = <<"build", p>> \/ f = <<"run", p>>
    BY DEF Script
  <2>2. \A f : f \in Libs(Built) <=> \E p \in Built : f = <<"lib", p>>
    BY DEF Libs
  <2>3. Outputs = Libs(Built) \cup S \cup {<<"root", Root>>}
    BY DEF Outputs, RootTarget
  <2> HIDE DEF S
  <2> QED BY <2>1, <2>2, <2>3
<1> QED BY <1>1 DEF RootTarget

\* The loop comes to each output once.
LEMMA RankFacts ==
  ASSUME graph \in Topologies
  PROVE  /\ \A f \in Outputs : Rank(f) \in 0..(3 * Listed + 5)
         /\ \A f, g \in Outputs : Rank(f) = Rank(g) => f = g
         /\ \A p \in Built : Rank(<<"lib", p>>) = 3 * Index(p) + 2
         /\ \A p : Rank(<<"build", p>>) = 3 * Index(p) /\ Rank(<<"run", p>>) = 3 * Index(p) + 1
         /\ Rank(RootTarget) = 3 * Listed + 5
<1>0. Listed \in Nat BY GraphFacts
<1>1. \A p : Rank(<<"lib", p>>) = 3 * Index(p) + 2
  BY DEF Rank
<1>2. \A p : Rank(<<"build", p>>) = 3 * Index(p) /\ Rank(<<"run", p>>) = 3 * Index(p) + 1
  BY DEF Rank
<1>3. Rank(<<"root", Root>>) = 3 * Listed + 5
  BY DEF Rank
<1>4. \A p : Index(p) \in Nat /\ Index(p) > 0 /\ Index(p) <= Listed + 1
  BY IndexFacts
<1>5. \A p, q \in Built \cup {Root} : Index(p) = Index(q) => p = q
  BY <1>0, IndexFacts
<1>6. \A p \in Built : Index(p) <= Listed
  BY <1>0, IndexFacts
<1>7. ASSUME NEW f \in Outputs PROVE Rank(f) \in 0..(3 * Listed + 5)
  BY <1>0, <1>1, <1>2, <1>3, <1>4, OutputKinds
<1>8. ASSUME NEW f \in Outputs, NEW g \in Outputs, Rank(f) = Rank(g) PROVE f = g
  <2>1. CASE \E p \in Built : f = <<"lib", p>>
    BY <1>0, <1>1, <1>2, <1>3, <1>4, <1>5, <1>6, <1>8, <2>1, OutputKinds
  <2>2. CASE \E p \in (Built \cup {Root}) \cap graph.scripted : f = <<"build", p>>
    BY <1>0, <1>1, <1>2, <1>3, <1>4, <1>5, <1>8, <2>2, OutputKinds
  <2>3. CASE \E p \in (Built \cup {Root}) \cap graph.scripted : f = <<"run", p>>
    BY <1>0, <1>1, <1>2, <1>3, <1>4, <1>5, <1>8, <2>3, OutputKinds
  <2>4. CASE f = <<"root", Root>>
    BY <1>0, <1>1, <1>2, <1>3, <1>4, <1>5, <1>6, <1>8, <2>4, OutputKinds
  <2> QED BY <2>1, <2>2, <2>3, <2>4, OutputKinds
<1> QED BY <1>1, <1>2, <1>3, <1>7, <1>8, OutputKinds

\* Looks, kind by kind.
LEMMA LooksAre ==
  /\ \A p : Looks(<<"lib", p>>) = {<<"run", p>>} \cup Libs(graph.main[p])
  /\ \A p : Looks(<<"build", p>>) = Libs(graph.build[p])
  /\ \A p : Looks(<<"run", p>>) = {<<"build", p>>} \cup Libs(graph.main[p])
  /\ Looks(<<"root", Root>>) = IF graph.has_library THEN {<<"lib", Root>>}
                                                    ELSE Libs(graph.main[Root])
<1>1. Libs({Root}) = {<<"lib", Root>>} BY DEF Libs
<1> QED BY <1>1 DEF Looks

\* The members of Libs(D).
LEMMA LibsMember ==
  \A D : \A f : f \in Libs(D) <=> \E d \in D : f = <<"lib", d>>
BY DEF Libs

\* What is looked at comes earlier.
LEMMA LooksLower ==
  ASSUME graph \in Topologies, NEW f \in Outputs, NEW d \in Looks(f) \cap Outputs
  PROVE  Rank(d) < Rank(f)
<1>0. Listed \in Nat BY GraphFacts
<1>1. \A p \in Built : /\ Rank(<<"lib", p>>) = 3 * Index(p) + 2
                       /\ Index(p) \in Nat /\ Index(p) <= Listed
  <2>1. \A p \in Built : Rank(<<"lib", p>>) = 3 * Index(p) + 2
    BY RankFacts
  <2>2. \A p \in Built : Index(p) \in 1..Listed
    BY IndexFacts
  <2>3. \A i \in 1..Listed : i \in Nat /\ i <= Listed
    BY <1>0
  <2> QED BY <2>1, <2>2, <2>3, Zenon
<1>2. \A p : /\ Rank(<<"build", p>>) = 3 * Index(p) /\ Rank(<<"run", p>>) = 3 * Index(p) + 1
             /\ Index(p) \in Nat /\ Index(p) <= Listed + 1
  BY RankFacts, IndexFacts
<1>3. Rank(<<"root", Root>>) = 3 * Listed + 5
  BY RankFacts, OutputKinds
<1>4. \A p \in Built \cup {Root} :
         /\ graph.main[p] \subseteq Needs(p)
         /\ p \in graph.scripted => graph.build[p] \subseteq Needs(p)
         /\ \A e \in Needs(p) : e \in Built /\ Index(e) < Index(p)
  <2>1. ASSUME NEW p \in Built \cup {Root}, NEW e \in Needs(p)
        PROVE  e \in Built /\ Index(e) < Index(p)
    <3>1. CASE p \in Built
      BY <3>1, IndexFacts
    <3>2. CASE p \notin Built
      <4>1. p = Root /\ Index(p) = Listed + 1 BY <3>2, IndexFacts
      <4>2. e \in Built BY <4>1, OrderFacts
      <4>3. Index(e) \in 1..Listed BY <4>2, IndexFacts
      <4> QED BY <4>1, <4>2, <4>3, <1>0
    <3> QED BY <3>1, <3>2
  <2>2. \A p : /\ graph.main[p] \subseteq Needs(p)
               /\ p \in graph.scripted => graph.build[p] \subseteq Needs(p)
    BY DEF Needs
  <2> QED BY <2>1, <2>2
<1>5. CASE \E p \in Built : f = <<"lib", p>>
  <2> PICK p \in Built : f = <<"lib", p>> BY <1>5
  <2>1. d = <<"run", p>> \/ d \in Libs(graph.main[p])
    BY LooksAre
  <2>2. CASE d = <<"run", p>> BY <2>2, <1>1, <1>2
  <2>3. CASE d \in Libs(graph.main[p])
    BY <2>3, <1>1, <1>4, LibsMember
  <2> QED BY <2>1, <2>2, <2>3
<1>6. CASE \E p \in (Built \cup {Root}) \cap graph.scripted : f = <<"build", p>>
  <2> PICK p \in (Built \cup {Root}) \cap graph.scripted : f = <<"build", p>> BY <1>6
  <2>1. d \in Libs(graph.build[p])
    BY LooksAre
  <2> QED BY <2>1, <1>1, <1>2, <1>4, LibsMember
<1>7. CASE \E p \in (Built \cup {Root}) \cap graph.scripted : f = <<"run", p>>
  <2> PICK p \in Built \cup {Root} : f = <<"run", p>> BY <1>7
  <2>1. d = <<"build", p>> \/ d \in Libs(graph.main[p])
    BY LooksAre
  <2>2. CASE d = <<"build", p>> BY <2>2, <1>2
  <2>3. CASE d \in Libs(graph.main[p])
    BY <2>3, <1>1, <1>2, <1>4, LibsMember
  <2> QED BY <2>1, <2>2, <2>3
<1>8. CASE f = <<"root", Root>>
  <2>1. \E p \in Built : d = <<"lib", p>>
    <3>1. CASE graph.has_library BY <3>1, <1>8, LooksAre, OrderFacts
    <3>2. CASE ~graph.has_library BY <3>2, <1>4, <1>8, LooksAre, LibsMember
    <3> QED BY <3>1, <3>2
  <2> QED BY <2>1, <1>0, <1>1, <1>2, <1>3, <1>8
<1> QED BY <1>5, <1>6, <1>7, <1>8, OutputKinds

-----------------------------------------------------------------------------
(* The loop over m_list: Considered is what its definition says.           *)

Empty == [j \in {} |-> {}]

\* There is a function that satisfies the definition of Considered.
LEMMA ConsideredExists ==
  ASSUME graph \in Topologies
  PROVE  \E g : g = [i \in 0..Listed |->
                       IF i = 0 THEN Empty ELSE ConsiderPackage(g[i - 1], graph.m_list[i])]
<1> DEFINE Next1(v, i) == ConsiderPackage(v, graph.m_list[i])
           IsPlan(g, n) == g = [i \in 0..n |-> IF i = 0 THEN Empty ELSE Next1(g[i - 1], i)]
           T == { n \in Nat : \E g : IsPlan(g, n) }
<1>1. 0 \in T
  <2> DEFINE g == [i \in 0..0 |-> Empty]
  <2>1. g = [i \in 0..0 |-> IF i = 0 THEN Empty ELSE Next1(g[i - 1], i)]
    <3> HIDE DEF Next1, Empty
    <3> QED OBVIOUS
  <2> QED BY <2>1
<1>2. ASSUME NEW n \in Nat, n \in T PROVE n + 1 \in T
  <2> HIDE DEF Next1
  <2>1. PICK g : IsPlan(g, n)
    BY <1>2
  <2> DEFINE h == [i \in 0..(n + 1) |-> IF i <= n THEN g[i] ELSE Next1(g[n], n + 1)]
             k == [i \in 0..(n + 1) |-> IF i = 0 THEN Empty ELSE Next1(h[i - 1], i)]
  <2>2. ASSUME NEW i \in 0..(n + 1) PROVE h[i] = k[i]
    <3>1. CASE i = 0
      BY <3>1, <2>1
    <3>2. CASE i \in 1..n
      <4>1. i \in 0..n /\ i # 0 /\ i - 1 \in 0..(n + 1) /\ i - 1 <= n /\ i <= n BY <3>2
      <4>2. g[i] = Next1(g[i - 1], i) BY <4>1, <2>1
      <4>3. h[i] = g[i] /\ h[i - 1] = g[i - 1] BY <4>1
      <4>4. k[i] = Next1(h[i - 1], i) BY <4>1
      <4> QED BY <4>2, <4>3, <4>4
    <3>3. CASE i = n + 1
      <4>1. i # 0 /\ i - 1 = n /\ n \in 0..(n + 1) /\ n <= n /\ ~(i <= n) BY <3>3
      <4>2. h[n] = g[n] BY <4>1
      <4>3. h[i] = Next1(g[n], n + 1) BY <4>1
      <4>4. k[i] = Next1(h[i - 1], i) BY <4>1
      <4> QED BY <4>1, <4>2, <4>3, <4>4, <3>3
    <3> QED BY <3>1, <3>2, <3>3
  <2>3. h = k
    BY <2>2
  <2>4. IsPlan(h, n + 1)
    BY <2>3
  <2> HIDE DEF h, k, IsPlan
  <2> QED BY <2>4
<1>3. Nat \subseteq T
  <2> HIDE DEF T
  <2> QED BY <1>1, <1>2, NaturalInduction
<1>4. Listed \in T
  BY <1>3, GraphFacts
<1> QED BY <1>4

\* Considered satisfies it.
LEMMA ConsideredIs ==
  ASSUME graph \in Topologies
  PROVE  /\ Considered[0] = Empty
         /\ \A i \in 1..Listed :
              Considered[i] = ConsiderPackage(Considered[i - 1], graph.m_list[i])
<1> DEFINE IsPlan(g) == g = [i \in 0..Listed |->
                      IF i = 0 THEN Empty ELSE ConsiderPackage(g[i - 1], graph.m_list[i])]
<1>1. \E g : IsPlan(g)
  BY ConsideredExists
<1>2. Considered = CHOOSE g : IsPlan(g)
  BY DEF Considered, Empty, Listed
<1>3. IsPlan(Considered)
  <2> HIDE DEF IsPlan
  <2> QED BY <1>1, <1>2
<1>4. Listed \in Nat BY GraphFacts
<1> QED BY <1>3, <1>4

-----------------------------------------------------------------------------
(* Each AddJob decides rightly about the next output.                      *)

\* The outputs the loop has come to before place n.
Below(n) == { f \in Outputs : Rank(f) < n }

LEMMA AddRight ==
  ASSUME graph \in Topologies,
         NEW plan, NEW f \in Outputs, Right(plan, Below(Rank(f))),
         NEW needed, needed \in BOOLEAN, needed <=> Old(f) \/ Looks(f) \cap DOMAIN plan # {},
         NEW D, D \cap DOMAIN plan = Looks(f) \cap DOMAIN plan
  PROVE  Right(AddJob(plan, f, needed, D), Below(Rank(f) + 1))
<1> DEFINE N == AddJob(plan, f, needed, D)
           B == Below(Rank(f))
<1>1. /\ DOMAIN plan \subseteq B
      /\ \A g \in B : g \in DOMAIN plan <=> Old(g) \/ Looks(g) \cap DOMAIN plan # {}
      /\ \A g \in DOMAIN plan : plan[g] = Looks(g) \cap DOMAIN plan
  BY DEF Right
<1>2. \A g \in Outputs : Rank(g) \in Nat
  BY RankFacts, GraphFacts
<1>3. f \notin B
  BY <1>2 DEF Below
<1>4. Below(Rank(f) + 1) = B \cup {f}
  <2>1. \A g \in Outputs : Rank(g) < Rank(f) + 1 <=> Rank(g) < Rank(f) \/ Rank(g) = Rank(f)
    BY <1>2
  <2>2. \A g \in Outputs : Rank(g) = Rank(f) => g = f
    BY RankFacts
  <2> QED BY <2>1, <2>2 DEF Below
<1>5. \A g \in B \cup {f} : f \notin Looks(g)
  <2>1. \A g \in Outputs : f \in Looks(g) => Rank(f) < Rank(g)
    BY LooksLower
  <2> QED BY <2>1, <1>2 DEF Below
<1>6. f \notin DOMAIN plan
  BY <1>1, <1>3
<1> HIDE DEF B
<1>7. CASE ~needed
  <2>1. N = plan BY <1>7 DEF AddJob
  <2> QED BY <1>1, <1>4, <1>7, <2>1 DEF Right
<1>8. CASE needed
  <2> DEFINE X == DOMAIN plan \cup {f}
  <2>1. N = [g \in X |-> IF g = f THEN D \cap DOMAIN plan ELSE plan[g]]
    BY <1>8 DEF AddJob
  <2>2. \A g \in B \cup {f} : Looks(g) \cap X = Looks(g) \cap DOMAIN plan
    BY <1>5
  <2>3. X \subseteq B \cup {f}
    BY <1>1
  <2>4. \A g \in B \cup {f} : g \in X <=> Old(g) \/ Looks(g) \cap X # {}
    BY <1>1, <1>3, <1>8, <2>2
  <2>5. \A g \in X : N[g] = Looks(g) \cap X
    <3> TAKE g \in X
    <3>1. Looks(g) \cap X = Looks(g) \cap DOMAIN plan BY <2>2, <2>3
    <3>2. CASE g = f BY <3>1, <3>2, <2>1
    <3>3. CASE g # f BY <3>1, <3>3, <2>1, <1>1
    <3> QED BY <3>2, <3>3
  <2>6. DOMAIN N = X BY <2>1
  <2> HIDE DEF N, X
  <2> QED BY <1>4, <2>3, <2>4, <2>5, <2>6 DEF Right, N
<1> QED BY <1>7, <1>8

LEMMA BelowNext ==
  ASSUME graph \in Topologies, NEW n \in Nat, \A f \in Outputs : Rank(f) # n
  PROVE  Below(n + 1) = Below(n)
<1>1. \A f \in Outputs : Rank(f) \in Nat
  BY RankFacts, GraphFacts
<1> QED BY <1>1 DEF Below

\* Nothing has the ranks of the script of a package that has none.
LEMMA BelowNoScript ==
  ASSUME graph \in Topologies, NEW i \in Nat, i > 0,
         \A p \in (Built \cup {Root}) \cap graph.scripted : Index(p) # i, i <= Listed + 1
  PROVE  Below(3 * i + 2) = Below(3 * i)
<1>0. Listed \in Nat BY GraphFacts
<1>1. \A p \in Built : Rank(<<"lib", p>>) = 3 * Index(p) + 2 /\ Index(p) \in Nat
  BY RankFacts, IndexFacts
<1>2. \A p : /\ Rank(<<"build", p>>) = 3 * Index(p) /\ Rank(<<"run", p>>) = 3 * Index(p) + 1
             /\ Index(p) \in Nat
  BY RankFacts, IndexFacts
<1>3. Rank(<<"root", Root>>) = 3 * Listed + 5
  BY RankFacts, OutputKinds
<1>4. ASSUME NEW f \in Outputs PROVE Rank(f) # 3 * i /\ Rank(f) # 3 * i + 1
  <2>1. CASE \E p \in Built : f = <<"lib", p>>
    BY <2>1, <1>1
  <2>2. CASE \E p \in (Built \cup {Root}) \cap graph.scripted : f = <<"build", p>>
    BY <2>2, <1>2
  <2>3. CASE \E p \in (Built \cup {Root}) \cap graph.scripted : f = <<"run", p>>
    BY <2>3, <1>2
  <2>4. CASE f = <<"root", Root>>
    BY <2>4, <1>0, <1>3
  <2> QED BY <2>1, <2>2, <2>3, <2>4, OutputKinds
<1>5. Below(3 * i + 1) = Below(3 * i)
  BY <1>4, BelowNext
<1>6. Below((3 * i + 1) + 1) = Below(3 * i + 1)
  <2>1. 3 * i + 1 \in Nat OBVIOUS
  <2> QED BY <2>1, <1>4, BelowNext
<1>7. (3 * i + 1) + 1 = 3 * i + 2 OBVIOUS
<1> QED BY <1>5, <1>6, <1>7

LEMMA ConsiderScriptRight ==
  ASSUME graph \in Topologies, NEW p \in Built \cup {Root},
         NEW plan, Right(plan, Below(3 * Index(p)))
  PROVE  Right(ConsiderScript(plan, p), Below(3 * Index(p) + 2))
<1>0. Listed \in Nat /\ Index(p) \in Nat /\ Index(p) > 0 /\ Index(p) <= Listed + 1
  BY GraphFacts, IndexFacts
<1> DEFINE exe == <<"build", p>>
           run == <<"run", p>>
           exe_deps == Libs(graph.build[p])
           run_deps == {exe} \cup Libs(graph.main[p])
           with_exe == AddJob(plan, exe, NeedsRebuild(exe) \/ Outdated(plan, exe, exe_deps),
                              exe_deps)
<1>1. CASE p \notin graph.scripted
  <2>1. \A q \in Built \cup {Root} : Index(q) = Index(p) => q = p
    BY <1>0, IndexFacts
  <2>2. Below(3 * Index(p) + 2) = Below(3 * Index(p))
    BY <1>0, <1>1, <2>1, BelowNoScript
  <2> QED BY <1>1, <2>2 DEF ConsiderScript
<1>2. CASE p \in graph.scripted
  <2>1. /\ exe \in Outputs /\ Rank(exe) = 3 * Index(p)
        /\ run \in Outputs /\ Rank(run) = 3 * Index(p) + 1
    BY <1>2, OutputKinds, RankFacts
  <2>2. Right(with_exe, Below(Rank(exe) + 1))
    <3> DEFINE needed == NeedsRebuild(exe) \/ Outdated(plan, exe, exe_deps)
    <3>1. Looks(exe) = exe_deps
      BY LooksAre
    <3>2. Old(exe) <=> NeedsRebuild(exe) \/ \E d \in exe_deps : ts[exe] < ts[d]
      BY <3>1 DEF Old, Compared
    <3>3. needed <=> Old(exe) \/ Looks(exe) \cap DOMAIN plan # {}
      BY <3>1, <3>2 DEF Outdated
    <3>4. needed \in BOOLEAN
      BY DEF NeedsRebuild, Outdated
    <3> HIDE DEF needed, exe, exe_deps
    <3> QED BY <2>1, <3>1, <3>3, <3>4, AddRight DEF needed
  <2>3. Right(AddJob(with_exe, run, RunNeeded(with_exe, p), run_deps), Below(Rank(run) + 1))
    <3> DEFINE needed == RunNeeded(with_exe, p)
    <3>1. Looks(run) = run_deps
      BY LooksAre
    <3>2. Old(run) <=> \E d \in run_deps : ts[run] < ts[d]
      BY <3>1 DEF Old, Compared
    <3>3. needed <=> Old(run) \/ Looks(run) \cap DOMAIN with_exe # {}
      <4> HIDE DEF with_exe
      <4> QED BY <3>1, <3>2 DEF Outdated, RunNeeded
    <3>4. needed \in BOOLEAN
      BY DEF RunNeeded, Outdated
    <3>5. Rank(exe) + 1 = Rank(run)
      BY <2>1
    <3> HIDE DEF needed, exe, run, run_deps, with_exe
    <3> QED BY <2>1, <2>2, <3>1, <3>3, <3>4, <3>5, AddRight DEF needed
  <2>4. Rank(run) + 1 = 3 * Index(p) + 2
    BY <2>1, <1>0
  <2> QED BY <1>2, <2>3, <2>4 DEF ConsiderScript
<1> QED BY <1>1, <1>2

LEMMA ConsiderPackageRight ==
  ASSUME graph \in Topologies, NEW p \in Built,
         NEW plan, Right(plan, Below(3 * Index(p)))
  PROVE  Right(ConsiderPackage(plan, p), Below(3 * Index(p) + 3))
<1> DEFINE lib == <<"lib", p>>
           deps == Libs(graph.main[p])
           scripted == ConsiderScript(plan, p)
           job == ScriptJob(scripted, p)
           needed == NeedsRebuild(lib) \/ job # {} \/ Outdated(scripted, lib, deps)
           added == AddJob(scripted, lib, needed, deps)
           right == AddJob(scripted, lib, needed, Looks(lib))
           final == ConsiderPackage(plan, p)
<1>0. Index(p) \in Nat BY IndexFacts
<1>1. Right(scripted, Below(3 * Index(p) + 2))
  BY ConsiderScriptRight
<1>2. lib \in Outputs /\ Rank(lib) = 3 * Index(p) + 2
  BY OutputKinds, RankFacts
<1>3. Looks(lib) = {<<"run", p>>} \cup deps
  BY LooksAre
<1>4. job = {<<"run", p>>} \cap DOMAIN scripted
  BY DEF ScriptJob
<1>5. Old(lib) <=> NeedsRebuild(lib) \/ \E d \in deps : ts[lib] < ts[d]
  BY DEF Old, Compared
<1> HIDE DEF scripted, job
<1>6. needed <=> Old(lib) \/ Looks(lib) \cap DOMAIN scripted # {}
  BY <1>3, <1>4, <1>5 DEF Outdated
<1>7. needed \in BOOLEAN
  BY DEF NeedsRebuild, Outdated
<1>8. Right(right, Below(3 * Index(p) + 3))
  <2>1. Rank(lib) + 1 = 3 * Index(p) + 3 BY <1>0, <1>2
  <2> HIDE DEF needed, lib
  <2> QED BY <1>1, <1>2, <1>6, <1>7, <2>1, AddRight
<1>9. final = IF lib \in DOMAIN added THEN [added EXCEPT ![lib] = @ \cup job] ELSE added
  BY DEF ConsiderPackage, scripted, job
<1>10. DOMAIN final = DOMAIN right /\ \A f \in DOMAIN right : final[f] = right[f]
  <2> HIDE DEF needed, lib, final, deps
  <2>1. CASE ~needed
    <3>1. added = scripted /\ right = scripted BY <2>1 DEF AddJob
    <3>2. job = {} BY <2>1 DEF needed
    <3>3. \A f \in DOMAIN final : final[f] = added[f]
      BY <1>9, <3>1, <3>2
    <3>4. DOMAIN final = DOMAIN added BY <1>9
    <3> QED BY <3>1, <3>3, <3>4
  <2>2. CASE needed
    <3> DEFINE X == DOMAIN scripted \cup {lib}
    <3>1. /\ added = [f \in X |-> IF f = lib THEN deps \cap DOMAIN scripted ELSE scripted[f]]
          /\ right = [f \in X |-> IF f = lib THEN Looks(lib) \cap DOMAIN scripted ELSE scripted[f]]
      BY <2>2 DEF AddJob
    <3> HIDE DEF added, right
    <3>2. final = [added EXCEPT ![lib] = added[lib] \cup job]
      BY <1>9, <3>1
    <3>3. Looks(lib) \cap DOMAIN scripted = (deps \cap DOMAIN scripted) \cup job
      BY <1>3, <1>4
    <3>4. final[lib] = right[lib]
      BY <3>1, <3>2, <3>3
    <3>5. \A f \in X : f # lib => final[f] = right[f]
      BY <3>1, <3>2
    <3>6. DOMAIN final = X /\ DOMAIN right = X
      BY <3>1, <3>2
    <3> HIDE DEF X
    <3> QED BY <3>4, <3>5, <3>6
  <2> QED BY <2>1, <2>2
<1> HIDE DEF final, right
<1>11. Right(final, Below(3 * Index(p) + 3))
  BY <1>8, <1>10 DEF Right
<1> QED BY <1>11 DEF final

LEMMA ConsideredRight ==
  ASSUME graph \in Topologies
  PROVE  Right(Considered[Listed], Below(3 * Listed + 3))
<1> DEFINE T == { n \in Nat : n <= Listed => Right(Considered[n], Below(3 * n + 3)) }
<1>0. Listed \in Nat BY GraphFacts
<1>1. 0 \in T
  <2>1. \A f \in Outputs : Rank(f) >= 3
    <3>1. \A p : Index(p) \in Nat /\ Index(p) > 0 BY IndexFacts
    <3>2. /\ \A p \in Built : Rank(<<"lib", p>>) = 3 * Index(p) + 2
          /\ \A p : Rank(<<"build", p>>) = 3 * Index(p) /\ Rank(<<"run", p>>) = 3 * Index(p) + 1
          /\ Rank(<<"root", Root>>) = 3 * Listed + 5
      BY RankFacts, OutputKinds
    <3>3. \A f \in Outputs :
            \/ \E p \in Built : f = <<"lib", p>>
            \/ \E p : f = <<"build", p>> \/ f = <<"run", p>>
            \/ f = <<"root", Root>>
      BY OutputKinds
    <3> QED BY <1>0, <3>1, <3>2, <3>3
  <2>2. Below(3) = {}
    <3>1. \A f \in Outputs : Rank(f) \in Nat
      BY RankFacts, GraphFacts
    <3> QED BY <2>1, <3>1 DEF Below
  <2>3. Considered[0] = Empty
    BY ConsideredIs
  <2>4. Right(Empty, {})
    BY DEF Right, Empty
  <2>5. 3 * 0 + 3 = 3 OBVIOUS
  <2> QED BY <2>2, <2>3, <2>4, <2>5
<1>2. ASSUME NEW n \in Nat, n \in T PROVE n + 1 \in T
  <2> SUFFICES ASSUME n + 1 <= Listed
               PROVE  Right(Considered[n + 1], Below(3 * (n + 1) + 3))
    OBVIOUS
  <2> DEFINE p == graph.m_list[n + 1]
  <2>1. n + 1 \in 1..Listed /\ n <= Listed BY <1>0
  <2>2. p \in Built /\ Index(p) = n + 1
    BY <2>1, IndexFacts
  <2>3. Right(Considered[n], Below(3 * Index(p)))
    <3>1. 3 * Index(p) = 3 * n + 3 BY <2>2
    <3> QED BY <3>1, <2>1, <1>2
  <2>4. Considered[n + 1] = ConsiderPackage(Considered[n], p)
    <3>1. (n + 1) - 1 = n OBVIOUS
    <3> QED BY <2>1, <3>1, ConsideredIs
  <2> HIDE DEF p
  <2>5. Right(ConsiderPackage(Considered[n], p), Below(3 * Index(p) + 3))
    BY <2>2, <2>3, ConsiderPackageRight
  <2>6. 3 * Index(p) + 3 = 3 * (n + 1) + 3 BY <2>2
  <2> QED BY <2>4, <2>5, <2>6
<1>3. Nat \subseteq T
  <2> HIDE DEF T
  <2> QED BY <1>1, <1>2, NaturalInduction
<1> QED BY <1>0, <1>3

\* The plan that minicargo makes in one pass over its list is the solution of
\* the equations "dirty = old, or something it looks at is dirty" and "waits
\* for what is dirty of what it looks at" (BuildList::build).
THEOREM PlanIsRight ==
  ASSUME graph \in Topologies
  PROVE  Right(Plan, Outputs)
<1> DEFINE plan == Considered[Listed]
           D == IF graph.has_library THEN Libs({Root}) ELSE Libs(graph.main[Root])
           scripted == IF graph.has_library THEN plan ELSE ConsiderScript(plan, Root)
           needed == NeedsRebuild(RootTarget) \/ Outdated(scripted, RootTarget, D)
<1>0. Listed \in Nat BY GraphFacts
<1>1. Right(plan, Below(3 * (Listed + 1)))
  <2>1. 3 * (Listed + 1) = 3 * Listed + 3 BY <1>0
  <2> QED BY <2>1, ConsideredRight
<1>2. Right(scripted, Below(3 * (Listed + 1) + 2))
  <2>1. CASE graph.has_library
    <3>1. \A p \in Built \cup {Root} : Index(p) # Listed + 1
      <4>1. Root \in Built BY <2>1, OrderFacts
      <4> QED BY <4>1, <1>0, IndexFacts
    <3>2. Listed + 1 \in Nat /\ Listed + 1 > 0 /\ Listed + 1 <= Listed + 1 BY <1>0
    <3>3. Below(3 * (Listed + 1) + 2) = Below(3 * (Listed + 1))
      BY <3>1, <3>2, BelowNoScript
    <3> QED BY <2>1, <3>3, <1>1
  <2>2. CASE ~graph.has_library
    <3>1. Index(Root) = Listed + 1
      BY <2>2, OrderFacts, IndexFacts
    <3> HIDE DEF plan
    <3>2. Right(ConsiderScript(plan, Root), Below(3 * Index(Root) + 2))
      BY <3>1, <1>1, ConsiderScriptRight
    <3> QED BY <2>2, <3>1, <3>2
  <2> QED BY <2>1, <2>2
<1> HIDE DEF scripted
<1>3. RootTarget \in Outputs /\ Rank(RootTarget) = 3 * (Listed + 1) + 2
  BY <1>0, OutputKinds, RankFacts
<1>4. Looks(RootTarget) = D
  BY DEF RootTarget, Looks
<1>5. Old(RootTarget) <=> NeedsRebuild(RootTarget) \/ \E d \in D : ts[RootTarget] < ts[d]
  BY <1>4 DEF Old, Compared, RootTarget
<1>6. needed <=> Old(RootTarget) \/ Looks(RootTarget) \cap DOMAIN scripted # {}
  BY <1>4, <1>5 DEF Outdated
<1>7. needed \in BOOLEAN
  BY DEF NeedsRebuild, Outdated
<1>8. Right(AddJob(scripted, RootTarget, needed, D), Below(Rank(RootTarget) + 1))
  <2> HIDE DEF needed, D
  <2> QED BY <1>2, <1>3, <1>4, <1>6, <1>7, AddRight
<1>9. Below(Rank(RootTarget) + 1) = Outputs
  <2>1. \A f \in Outputs : Rank(f) < Rank(RootTarget) + 1
    BY <1>0, RankFacts
  <2> QED BY <2>1 DEF Below
<1>10. Plan = AddJob(scripted, RootTarget, needed, D)
  BY DEF Plan, ConsiderRoot, scripted, Listed
<1> QED BY <1>8, <1>9, <1>10

-----------------------------------------------------------------------------
(* The types, and that a build follows its plan.                           *)

\* What depends on graph only stays as it is.
LEMMA GraphFixed ==
  ASSUME graph' = graph
  PROVE  /\ Built' = Built /\ Outputs' = Outputs /\ Sources' = Sources /\ Files' = Files
         /\ Versions' = Versions
         /\ \A f : Looks(f)' = Looks(f) /\ Reads(f)' = Reads(f)
         /\ \A f : Loaded(f)' = Loaded(f) /\ Depfile(f)' = Depfile(f)
<1>1. Built' = Built BY DEF Built
<1>2. \A p : Script(p)' = Script(p) BY DEF Script
<1>3. Outputs' = Outputs BY <1>1, <1>2 DEF Outputs
<1>4. Sources' = Sources BY <1>3 DEF Sources, Compiled
<1>5. \A f : Looks(f)' = Looks(f) BY DEF Looks
<1>6. \A f : Reads(f)' = Reads(f) BY DEF Reads
<1>7. \A f : Loaded(f)' = Loaded(f) BY <1>6 DEF Loaded
<1>8. \A f : Depfile(f)' = Depfile(f) BY <1>7 DEF Depfile, Source
<1> QED BY <1>1, <1>3, <1>4, <1>5, <1>6, <1>7, <1>8 DEF Files, Versions

\* A source is no output.
LEMMA SourcesApart ==
  /\ Sources \cap Outputs = {}
  /\ \A f \in Outputs : f[1] # "run" => Source(f) \in Sources
  /\ Tool \in Sources
<1>1. \A f \in Outputs : f[1] \in {"lib", "build", "run", "root"}
  BY OutputKinds
<1>2. \A s \in Sources : s[1] \in {"source of", "tool"}
  <2>1. \A f : Source(f)[1] = "source of" BY DEF Source
  <2>2. Tool[1] = "tool" BY DEF Tool
  <2> QED BY <2>1, <2>2 DEF Sources
<1>3. \A f \in Outputs : f[1] # "run" => Source(f) \in Sources
  BY DEF Sources, Compiled
<1>4. Tool \in Sources BY DEF Sources
<1> QED BY <1>1, <1>2, <1>3, <1>4

\* Reads, kind by kind.
LEMMA ReadsAre ==
  LET out(D) == { <<"run", d>> : d \in D \cap graph.scripted }
      env(p) == out(graph.main[p])
  IN  /\ \A p : Reads(<<"lib", p>>) = {Source(<<"lib", p>>), Tool} \cup Libs(graph.main[p])
                                        \cup out({p}) \cup env(p)
      /\ \A p : Reads(<<"build", p>>) = {Source(<<"build", p>>), Tool} \cup Libs(graph.build[p])
      /\ \A p : Reads(<<"run", p>>) = {<<"build", p>>} \cup env(p)
      /\ Reads(<<"root", Root>>) =
           {Source(<<"root", Root>>), Tool} \cup Libs(graph.main[Root])
             \cup out({Root}) \cup env(Root)
             \cup Libs(IF graph.has_library THEN {Root} ELSE {})
             \cup Libs(IF TestMode THEN graph.dev[Root] ELSE {})
BY DEF Reads

\* What a job reads is a source or an output.
LEMMA ReadsTyped ==
  ASSUME graph \in Topologies, NEW f \in Outputs
  PROVE  Reads(f) \subseteq Files
<1> DEFINE out(D) == { <<"run", d>> : d \in D \cap graph.scripted }
<1>1. \A D \in SUBSET (Built \cup {Root}) : out(D) \subseteq Files
  BY OutputKinds DEF Files
<1>2. \A D \in SUBSET Built : Libs(D) \subseteq Files
  BY OutputKinds, LibsMember DEF Files
<1>3. \A p \in Built \cup {Root} :
         /\ graph.main[p] \subseteq Built
         /\ p \in graph.scripted => graph.build[p] \subseteq Built
  BY IndexFacts, OrderFacts DEF Needs
<1>4. Tool \in Files /\ (f[1] # "run" => Source(f) \in Files)
  BY SourcesApart DEF Files
<1>5. \A p \in Built \cup {Root} : /\ graph.main[p] \in SUBSET Built
                                   /\ graph.main[p] \in SUBSET (Built \cup {Root})
                                   /\ {p} \in SUBSET (Built \cup {Root})
                                   /\ p \in graph.scripted => graph.build[p] \in SUBSET Built
  BY <1>3
<1> HIDE DEF out
<1>6. CASE \E p \in Built : f = <<"lib", p>>
  <2> PICK p \in Built : f = <<"lib", p>> BY <1>6
  <2>1. Reads(f) = {Source(f), Tool} \cup Libs(graph.main[p]) \cup out({p}) \cup out(graph.main[p])
    BY ReadsAre DEF out
  <2>2. Libs(graph.main[p]) \subseteq Files /\ out({p}) \subseteq Files /\ out(graph.main[p]) \subseteq Files
    BY <1>1, <1>2, <1>5
  <2> QED BY <2>1, <2>2, <1>4
<1>7. CASE \E p \in (Built \cup {Root}) \cap graph.scripted : f = <<"build", p>>
  <2> PICK p \in (Built \cup {Root}) \cap graph.scripted : f = <<"build", p>> BY <1>7
  <2>1. Reads(f) = {Source(f), Tool} \cup Libs(graph.build[p])
    BY ReadsAre
  <2>2. Libs(graph.build[p]) \subseteq Files
    BY <1>2, <1>5
  <2> QED BY <2>1, <2>2, <1>4
<1>8. CASE \E p \in (Built \cup {Root}) \cap graph.scripted : f = <<"run", p>>
  <2> PICK p \in (Built \cup {Root}) \cap graph.scripted : f = <<"run", p>> BY <1>8
  <2>1. Reads(f) = {<<"build", p>>} \cup out(graph.main[p])
    BY ReadsAre DEF out
  <2>2. out(graph.main[p]) \subseteq Files /\ <<"build", p>> \in Files
    BY <1>1, <1>5, OutputKinds DEF Files
  <2> QED BY <2>1, <2>2
<1>9. CASE f = <<"root", Root>>
  <2> DEFINE L == IF graph.has_library THEN {Root} ELSE {}
             D == IF TestMode THEN graph.dev[Root] ELSE {}
  <2>1. Reads(f) = {Source(f), Tool} \cup Libs(graph.main[Root])
             \cup out({Root}) \cup out(graph.main[Root]) \cup Libs(L) \cup Libs(D)
    BY <1>9, ReadsAre DEF out
  <2>2. L \in SUBSET Built /\ D \in SUBSET Built
    BY OrderFacts
  <2>3. /\ Libs(graph.main[Root]) \subseteq Files /\ out({Root}) \subseteq Files
        /\ out(graph.main[Root]) \subseteq Files
    BY <1>1, <1>2, <1>5
  <2> HIDE DEF L, D
  <2>4. Libs(L) \subseteq Files /\ Libs(D) \subseteq Files
    BY <1>2, <2>2
  <2> QED BY <2>1, <2>3, <2>4, <1>4, <1>9
<1> QED BY <1>6, <1>7, <1>8, <1>9, OutputKinds

\* The libraries loaded are in any set that has those given and is closed.
LEMMA LoadedWithin ==
  ASSUME graph \in Topologies, NEW f, NEW S \in SUBSET Pkgs,
         \A d \in Pkgs : <<"lib", d>> \in Reads(f) => d \in S,
         \A d \in S : graph.main[d] \subseteq S
  PROVE  Loaded(f) \subseteq Libs(S)
<1> DEFINE given == { d \in Pkgs : <<"lib", d>> \in Reads(f) }
           closed(T) == given \subseteq T /\ \A d \in T : graph.main[d] \subseteq T
           C == { d \in Pkgs : \A T \in SUBSET Pkgs : closed(T) => d \in T }
<1>1. closed(S) OBVIOUS
<1>2. Loaded(f) = Libs(C) BY DEF Loaded
<1> HIDE DEF closed
<1>3. C \subseteq S BY <1>1
<1> HIDE DEF C
<1> QED BY <1>2, <1>3, LibsMember

\* What a depfile names are a source and outputs.
LEMMA DepfileTyped ==
  ASSUME graph \in Topologies, NEW f \in Outputs
  PROVE  /\ Loaded(f) \subseteq Outputs
         /\ f[1] # "run" => Depfile(f) \subseteq Files
<1>1. \A d \in Built : d \in Pkgs /\ graph.main[d] \subseteq Built
  BY IndexFacts, GraphFacts DEF Needs
<1>2. \A d : <<"lib", d>> \in Reads(f) => d \in Built
  <2> TAKE d
  <2>1. <<"lib", d>> \notin Sources
    <3>1. \A g : Source(g)[1] = "source of" BY DEF Source
    <3>2. Tool[1] = "tool" BY DEF Tool
    <3>3. <<"lib", d>>[1] = "lib" OBVIOUS
    <3> QED BY <3>1, <3>2, <3>3 DEF Sources
  <2> QED BY <2>1, ReadsTyped, OutputKinds DEF Files
<1>3. Loaded(f) \subseteq Libs(Built)
  BY <1>1, <1>2, LoadedWithin
<1>4. Loaded(f) \subseteq Outputs
  BY <1>3, LibsMember, OutputKinds
<1> QED BY <1>4, SourcesApart DEF Depfile, Files

\* The invariant that needs no hypothesis.
IInv1 == TypeOK /\ PlanFollowed

LEMMA StepKeepsGraph == [Next]_vars => graph' = graph
BY DEF Next, vars, Edit, StartBuild, EndBuild, Abandon, StartJob, JobSucceeds, JobFails, OrphanEnds

LEMMA InitIInv1 == Init => IInv1
<1> SUFFICES ASSUME Init PROVE TypeOK /\ PlanFollowed
  BY DEF IInv1
<1>1. ts \in [Files -> Nat] BY DEF Init, Files
<1>2. content \in [Files -> SUBSET Versions]
  <2>1. \A f \in Sources : {<<f, 1>>} \in SUBSET Versions BY DEF Versions
  <2>2. {} \in SUBSET Versions OBVIOUS
  <2>3. content = [f \in Files |-> IF f \in Sources THEN {<<f, 1>>} ELSE {}]
    BY DEF Init, Files
  <2> QED BY <2>1, <2>2, <2>3
<1>3. snapshot \in [Outputs -> SUBSET Versions] BY DEF Init
<1>4. DOMAIN jobs = {} /\ jobs = [j \in {} |-> {}] BY DEF Init
<1>5. status \in [DOMAIN jobs -> {"waiting", "running", "done", "failed"}] BY <1>4 DEF Init
<1>6. TypeOK BY <1>1, <1>2, <1>3, <1>4, <1>5 DEF Init, TypeOK
<1>7. PlanFollowed BY <1>4 DEF PlanFollowed
<1> QED BY <1>6, <1>7

\* Write changes the files in F only.
LEMMA WriteFacts ==
  ASSUME ts \in [Files -> Nat], clock \in Nat, NEW F, Write(F)
  PROVE  /\ ts' \in [Files -> Nat] /\ clock' \in Nat /\ clock <= clock'
         /\ \A f \in Files : f \notin F => ts'[f] = ts[f]
         /\ \A f \in Files : f \in F => ts'[f] = clock + 1 /\ clock' = clock + 1
         /\ F = {} => ts' = ts
<1>1. Now \in Nat /\ Now = clock + 1 BY DEF Now
<1>2. ts' = [f \in Files |-> IF f \in F THEN Now ELSE ts[f]] BY DEF Write
<1>3. clock' = IF F = {} THEN clock ELSE Now BY DEF Write
<1>4. F = {} => ts' = ts BY <1>2
<1> QED BY <1>1, <1>2, <1>3, <1>4

LEMMA TypeStep == IInv1 /\ [Next]_vars => TypeOK'
<1> SUFFICES ASSUME IInv1, [Next]_vars PROVE TypeOK'
  OBVIOUS
<1>0. graph' = graph BY StepKeepsGraph
<1>1. /\ graph' \in Topologies
      /\ Outputs' = Outputs /\ Sources' = Sources /\ Files' = Files /\ Versions' = Versions
  BY <1>0, GraphFixed DEF IInv1, TypeOK
<1> DEFINE Statuses == {"waiting", "running", "done", "failed"}
<1> USE <1>1 DEF IInv1, TypeOK
<1>2. CASE Edit
  <2> PICK s \in Sources : Write({s}) /\ content' = [content EXCEPT ![s] = {<<s, Now>>}]
    BY <1>2 DEF Edit
  <2>1. {<<s, Now>>} \in SUBSET Versions BY DEF Versions, Now
  <2>2. content' \in [Files -> SUBSET Versions] BY <2>1
  <2>3. ts' \in [Files -> Nat] /\ clock' \in Nat BY WriteFacts
  <2> QED BY <1>2, <2>2, <2>3 DEF Edit
<1>3. CASE StartBuild
  <2>1. Right(Plan, Outputs) BY PlanIsRight
  <2>2. DOMAIN Plan \subseteq Outputs BY <2>1 DEF Right
  <2> QED BY <1>3, <2>2 DEF StartBuild
<1>4. CASE EndBuild \/ Abandon
  <2>1. DOMAIN jobs' = {} /\ status' = [j \in {} |-> "done"]
    BY <1>4 DEF EndBuild, Abandon
  <2>2. status' \in [DOMAIN jobs' -> Statuses] BY <2>1
  <2>3. orphans' \subseteq Outputs BY <1>4 DEF EndBuild, Abandon, Running
  <2> QED BY <1>4, <2>1, <2>2, <2>3 DEF EndBuild, Abandon
<1>5. ASSUME NEW j \in DOMAIN jobs, StartJob(j) PROVE TypeOK'
  <2>1. /\ status' = [status EXCEPT ![j] = "running"]
        /\ snapshot' = [snapshot EXCEPT ![j] = UNION { content[r] : r \in Reads(j) }]
        /\ Write(IF j[1] = "run" THEN {j} ELSE {})
        /\ broken' = IF j[1] = "run" THEN broken \cup {j} ELSE broken
        /\ UNCHANGED <<graph, content, phase, jobs, orphans, result, edits, builds>>
    BY <1>5 DEF StartJob
  <2>2. status' \in [DOMAIN jobs -> Statuses] BY <2>1
  <2>3. UNION { content[r] : r \in Reads(j) } \in SUBSET Versions
    <3>1. Reads(j) \subseteq Files BY ReadsTyped
    <3>2. \A r \in Reads(j) : content[r] \subseteq Versions BY <3>1
    <3> QED BY <3>2
  <2>4. snapshot' \in [Outputs -> SUBSET Versions] BY <2>1, <2>3
  <2>5. ts' \in [Files -> Nat] /\ clock' \in Nat BY <2>1, WriteFacts
  <2>6. broken' \subseteq Outputs BY <2>1
  <2> QED BY <2>1, <2>2, <2>4, <2>5, <2>6
<1>6. ASSUME NEW j \in DOMAIN jobs, JobSucceeds(j) PROVE TypeOK'
  <2>1. /\ status' = [status EXCEPT ![j] = "done"] /\ Write({j})
        /\ content' = [content EXCEPT ![j] = snapshot[j]] /\ broken' = broken \ {j}
        /\ UNCHANGED <<graph, phase, jobs, orphans, snapshot, result, edits, builds>>
    BY <1>6 DEF JobSucceeds, Succeed
  <2>2. status' \in [DOMAIN jobs -> Statuses] BY <2>1
  <2>3. ts' \in [Files -> Nat] /\ clock' \in Nat BY <2>1, WriteFacts
  <2>4. content' \in [Files -> SUBSET Versions] BY <2>1
  <2> QED BY <2>1, <2>2, <2>3, <2>4
<1>7. ASSUME NEW j \in DOMAIN jobs, JobFails(j) PROVE TypeOK'
  <2>1. /\ status' = [status EXCEPT ![j] = "failed"] /\ ts' = [ts EXCEPT ![j] = 0]
        /\ broken' = broken \ {j}
        /\ UNCHANGED <<graph, content, phase, jobs, orphans, snapshot, result, clock, edits, builds>>
    BY <1>7 DEF JobFails
  <2>2. status' \in [DOMAIN jobs -> Statuses] BY <2>1
  <2>3. ts' \in [Files -> Nat] BY <2>1
  <2> QED BY <2>1, <2>2, <2>3
<1>8. ASSUME NEW j \in orphans, OrphanEnds(j) PROVE TypeOK'
  <2>1. /\ orphans' = orphans \ {j}
        /\ UNCHANGED <<graph, phase, jobs, status, snapshot, result, edits, builds>>
    BY <1>8 DEF OrphanEnds
  <2>2. CASE Succeed(j)
    <3>1. Write({j}) /\ content' = [content EXCEPT ![j] = snapshot[j]] /\ broken' = broken \ {j}
      BY <2>2 DEF Succeed
    <3>2. ts' \in [Files -> Nat] /\ clock' \in Nat BY <3>1, WriteFacts
    <3>3. content' \in [Files -> SUBSET Versions] BY <3>1
    <3> QED BY <2>1, <3>1, <3>2, <3>3
  <2>3. CASE UNCHANGED <<ts, content, broken, clock>>
    BY <2>1, <2>3
  <2> QED BY <1>8, <2>2, <2>3 DEF OrphanEnds
<1>9. CASE UNCHANGED vars
  BY <1>9 DEF vars
<1> QED BY <1>2, <1>3, <1>4, <1>5, <1>6, <1>7, <1>8, <1>9 DEF Next

LEMMA PlanStep == IInv1 /\ [Next]_vars => PlanFollowed'
<1> SUFFICES ASSUME IInv1, [Next]_vars PROVE PlanFollowed'
  OBVIOUS
<1>0. graph' = graph BY StepKeepsGraph
<1>1. Outputs' = Outputs /\ \A f : Looks(f)' = Looks(f)
  BY <1>0, GraphFixed
<1>2. TypeOK /\ PlanFollowed BY DEF IInv1
<1>3. status \in [DOMAIN jobs -> {"waiting", "running", "done", "failed"}]
  BY <1>2 DEF TypeOK
<1>4. /\ phase = "idle" => jobs = [j \in {} |-> {}]
      /\ \A f \in DOMAIN jobs : jobs[f] = Looks(f) \cap DOMAIN jobs
      /\ \A f \in Outputs : Looks(f) \cap DOMAIN jobs # {} => f \in DOMAIN jobs
      /\ \A f \in DOMAIN jobs : status[f] # "waiting" =>
           \A d \in jobs[f] : status[d] = "done"
  BY <1>2 DEF PlanFollowed
<1>5. ASSUME phase' = phase, jobs' = jobs, status' = status PROVE PlanFollowed'
  BY <1>1, <1>4, <1>5 DEF PlanFollowed
<1>6. ASSUME NEW j \in DOMAIN jobs, NEW new, new # "waiting", phase = "building",
             status[j] = "waiting" => \A d \in jobs[j] : status[d] = "done",
             status[j] = "done" => new = "done",
             phase' = phase, jobs' = jobs, status' = [status EXCEPT ![j] = new]
      PROVE  PlanFollowed'
  <2>1. \A d \in DOMAIN jobs : status[d] = "done" => status'[d] = "done"
    BY <1>3, <1>6
  <2>2. \A f \in DOMAIN jobs : jobs[f] \subseteq DOMAIN jobs
    BY <1>4
  <2>3. \A f \in DOMAIN jobs : f # j => status'[f] = status[f]
    BY <1>3, <1>6
  <2>4. \A f \in DOMAIN jobs : status'[f] # "waiting" => \A d \in jobs[f] : status'[d] = "done"
    BY <1>4, <1>6, <2>1, <2>2, <2>3
  <2> QED BY <1>1, <1>4, <1>6, <2>4 DEF PlanFollowed
<1>7. ASSUME jobs' = [j \in {} |-> {}] PROVE PlanFollowed'
  <2>1. DOMAIN jobs' = {} BY <1>7
  <2> QED BY <1>7, <2>1 DEF PlanFollowed
<1>8. CASE Edit
  BY <1>8, <1>5 DEF Edit
<1>9. CASE StartBuild
  <2>1. /\ DOMAIN Plan \subseteq Outputs
        /\ \A f \in Outputs : Looks(f) \cap DOMAIN Plan # {} => f \in DOMAIN Plan
        /\ \A f \in DOMAIN Plan : Plan[f] = Looks(f) \cap DOMAIN Plan
    BY <1>2, PlanIsRight DEF TypeOK, Right
  <2>2. jobs' = Plan /\ phase' = "building" /\ \A f \in DOMAIN Plan : status'[f] = "waiting"
    BY <1>9 DEF StartBuild
  <2> QED BY <1>1, <2>1, <2>2 DEF PlanFollowed
<1>10. CASE EndBuild \/ Abandon
  BY <1>10, <1>7 DEF EndBuild, Abandon
<1>11. ASSUME NEW j \in DOMAIN jobs, StartJob(j) PROVE PlanFollowed'
  BY <1>11, <1>6 DEF StartJob, Runnable
<1>12. ASSUME NEW j \in DOMAIN jobs, JobSucceeds(j) PROVE PlanFollowed'
  BY <1>12, <1>6 DEF JobSucceeds
<1>13. ASSUME NEW j \in DOMAIN jobs, JobFails(j) PROVE PlanFollowed'
  BY <1>13, <1>6 DEF JobFails
<1>14. ASSUME NEW j \in orphans, OrphanEnds(j) PROVE PlanFollowed'
  BY <1>14, <1>5 DEF OrphanEnds
<1>15. CASE UNCHANGED vars
  BY <1>15, <1>5 DEF vars
<1> QED BY <1>8, <1>9, <1>10, <1>11, <1>12, <1>13, <1>14, <1>15 DEF Next

LEMMA IInv1Correct == Spec => []IInv1
<1>1. Init => IInv1 BY InitIInv1
<1>2. IInv1 /\ [Next]_vars => IInv1' BY TypeStep, PlanStep DEF IInv1
<1> QED BY <1>1, <1>2, PTL DEF Spec

\* No job of a plan waits for something that is not in the plan, whatever the
\* dependencies, scripts and failures (handle_dep and the name
\* handle_build_script returns).
THEOREM PlansAreClosed == Spec => []PlanClosed
<1>1. IInv1 => PlanClosed
  BY DEF IInv1, PlanFollowed, PlanClosed
<1> QED BY <1>1, IInv1Correct, PTL

-----------------------------------------------------------------------------
(* Inputs are ready when a job starts.                                     *)

\* The outputs a job reads are those its plan looks at, or that one of those
\* looks at, or one of those in turn.

Through(f, r) ==
  \/ r \in Looks(f)
  \/ \E l \in Looks(f) \cap Outputs : r \in Looks(l)
  \/ \E l \in Looks(f) \cap Outputs : \E m \in Looks(l) \cap Outputs : r \in Looks(m)

LEMMA ReadsThrough ==
  ASSUME graph \in Topologies, NoDevTests, NEW f \in Outputs, NEW r \in Reads(f) \cap Outputs,
         Root \in graph.scripted => graph.has_library \/ r[1] = "lib"
  PROVE  Through(f, r)
<1> DEFINE out(D) == { <<"run", d>> : d \in D \cap graph.scripted }
<1>0. r \notin Sources BY SourcesApart
<1>1. \A p \in Built \cup {Root} :
         /\ graph.main[p] \subseteq Built
         /\ p \in graph.scripted => graph.build[p] \subseteq Built
  BY IndexFacts, OrderFacts DEF Needs
<1>2. \A D : r \in out(D) => \E d \in D \cap graph.scripted : r = <<"run", d>>
  OBVIOUS
<1>3. \A d \in Built : <<"lib", d>> \in Outputs /\ <<"run", d>> \in Looks(<<"lib", d>>)
  BY OutputKinds, LooksAre
<1>4. \A D : \A d \in D : <<"lib", d>> \in Libs(D)
  BY LibsMember
<1>5. \A f1 \in {f} : f1[1] # "run" => Source(f1) # r /\ Tool # r
  BY <1>0, SourcesApart
<1> HIDE DEF out
\* What the scripts of dependencies said is read through the dependencies.
<1>6. ASSUME NEW p \in Built \cup {Root}, NEW g \in Outputs,
             Libs(graph.main[p]) \subseteq Looks(g), r \in out(graph.main[p])
      PROVE  \E l \in Looks(g) \cap Outputs : r \in Looks(l)
  <2> PICK d \in graph.main[p] \cap graph.scripted : r = <<"run", d>> BY <1>2, <1>6
  <2>1. <<"lib", d>> \in Looks(g) BY <1>4, <1>6
  <2> QED BY <2>1, <1>1, <1>3
<1>7. CASE \E p \in Built : f = <<"lib", p>>
  <2> PICK p \in Built : f = <<"lib", p>> BY <1>7
  <2>1. Reads(f) = {Source(f), Tool} \cup Libs(graph.main[p]) \cup out({p}) \cup out(graph.main[p])
    BY ReadsAre DEF out
  <2>2. Looks(f) = {<<"run", p>>} \cup Libs(graph.main[p])
    BY LooksAre
  <2>3. r \in Libs(graph.main[p]) \/ r \in out({p}) \/ r \in out(graph.main[p])
    BY <2>1, <1>5
  <2> QED BY <2>2, <2>3, <1>2, <1>6 DEF Through
<1>8. CASE \E p \in (Built \cup {Root}) \cap graph.scripted : f = <<"build", p>>
  <2> PICK p \in (Built \cup {Root}) \cap graph.scripted : f = <<"build", p>> BY <1>8
  <2>1. Reads(f) = {Source(f), Tool} \cup Libs(graph.build[p])
    BY ReadsAre
  <2>2. Looks(f) = Libs(graph.build[p])
    BY LooksAre
  <2> QED BY <2>1, <2>2, <1>5 DEF Through
<1>9. CASE \E p \in (Built \cup {Root}) \cap graph.scripted : f = <<"run", p>>
  <2> PICK p \in (Built \cup {Root}) \cap graph.scripted : f = <<"run", p>> BY <1>9
  <2>1. Reads(f) = {<<"build", p>>} \cup out(graph.main[p])
    BY ReadsAre DEF out
  <2>2. Looks(f) = {<<"build", p>>} \cup Libs(graph.main[p])
    BY LooksAre
  <2> QED BY <2>1, <2>2, <1>6 DEF Through
<1>10. CASE f = <<"root", Root>>
  <2> DEFINE L == IF graph.has_library THEN {Root} ELSE {}
             lib == <<"lib", Root>>
  <2>1. Reads(f) = {Source(f), Tool} \cup Libs(graph.main[Root])
             \cup out({Root}) \cup out(graph.main[Root]) \cup Libs(L) \cup Libs({})
    <3>1. (IF TestMode THEN graph.dev[Root] ELSE {}) = {} BY DEF NoDevTests
    <3> QED BY <3>1, <1>10, ReadsAre DEF out
  <2>2. \/ r \in Libs(graph.main[Root]) \/ r \in out({Root})
        \/ r \in out(graph.main[Root]) \/ r \in Libs(L)
    <3>1. r \notin Libs({}) BY LibsMember
    <3>2. Source(f) # r /\ Tool # r BY <1>5, <1>10
    <3> HIDE DEF L
    <3> QED BY <2>1, <3>1, <3>2
  <2>3. CASE graph.has_library
    <3>1. Looks(f) = {lib}
      BY <2>3, <1>10, LooksAre
    <3>2. lib \in Outputs
      BY <2>3, OrderFacts, OutputKinds
    <3>3. Looks(lib) = {<<"run", Root>>} \cup Libs(graph.main[Root])
      BY LooksAre
    <3>4. CASE r \in Libs(L)
      BY <3>1, <3>4, <2>3, LibsMember DEF Through
    <3>5. CASE r \in Libs(graph.main[Root])
      BY <3>1, <3>2, <3>3, <3>5 DEF Through
    <3>6. CASE r \in out({Root})
      BY <3>1, <3>2, <3>3, <3>6, <1>2 DEF Through
    <3>7. CASE r \in out(graph.main[Root])
      <4>1. Libs(graph.main[Root]) \subseteq Looks(lib) BY <3>3
      <4>2. \E l \in Looks(lib) \cap Outputs : r \in Looks(l)
        BY <4>1, <3>2, <3>7, <1>6
      <4> QED BY <4>2, <3>1, <3>2 DEF Through
    <3> QED BY <2>2, <3>4, <3>5, <3>6, <3>7
  <2>4. CASE ~graph.has_library
    <3>1. Looks(f) = Libs(graph.main[Root])
      BY <2>4, <1>10, LooksAre
    <3>2. r \notin Libs(L) BY <2>4, LibsMember
    <3>3. r \notin out({Root})
      <4> SUFFICES ASSUME r \in out({Root}) PROVE FALSE
        OBVIOUS
      <4>1. r = <<"run", Root>> /\ Root \in graph.scripted BY <1>2
      <4> QED BY <4>1, <2>4
    <3>4. CASE r \in Libs(graph.main[Root])
      BY <3>1, <3>4 DEF Through
    <3>5. CASE r \in out(graph.main[Root])
      <4>1. \E l \in Looks(f) \cap Outputs : r \in Looks(l)
        BY <3>1, <3>5, <1>6
      <4> QED BY <4>1 DEF Through
    <3> QED BY <2>2, <3>2, <3>3, <3>4, <3>5
  <2> QED BY <2>3, <2>4
<1> QED BY <1>7, <1>8, <1>9, <1>10, OutputKinds

\* What a settled output looks at is settled.
LEMMA SettledLooks ==
  ASSUME IInv1, NEW f \in Outputs, Settled(f), NEW d \in Looks(f)
  PROVE  Settled(d)
BY DEF IInv1, PlanFollowed, Settled

\* An output that looks at settled ones only reads settled outputs.
LEMMA ReadsSettled ==
  ASSUME IInv1, NoDevTests, NEW f \in Outputs, \A d \in Looks(f) : Settled(d),
         NEW r \in Reads(f) \cap Outputs,
         Root \in graph.scripted => graph.has_library \/ r[1] = "lib"
  PROVE  Settled(r)
<1>1. graph \in Topologies
  BY DEF IInv1, TypeOK
<1>2. Through(f, r)
  BY <1>1, ReadsThrough
<1>3. \A l \in Looks(f) \cap Outputs : \A d \in Looks(l) : Settled(d)
  BY SettledLooks
<1>4. \A l \in Looks(f) \cap Outputs : \A m \in Looks(l) \cap Outputs : \A d \in Looks(m) : Settled(d)
  BY <1>3, SettledLooks
<1> QED BY <1>2, <1>3, <1>4 DEF Through

\* A job whose dependencies are done looks at settled outputs only.
LEMMA JobLooksSettled ==
  ASSUME IInv1, NEW j \in DOMAIN jobs, \A d \in jobs[j] : status[d] = "done"
  PROVE  j \in Outputs /\ \A d \in Looks(j) : Settled(d)
BY DEF IInv1, TypeOK, PlanFollowed, Settled

\* The libraries that the compiler of a settled output loaded are settled.
LEMMA LoadedSettled ==
  ASSUME IInv1, NoDevTests, NEW f \in Outputs, Settled(f), NEW d \in Loaded(f)
  PROVE  Settled(d)
<1> DEFINE S == { p \in Built : Settled(<<"lib", p>>) }
<1>1. graph \in Topologies /\ Built \subseteq Pkgs
  BY GraphFacts DEF IInv1, TypeOK
<1>2. \A p \in Pkgs : <<"lib", p>> \in Reads(f) => p \in S
  <2> TAKE p \in Pkgs
  <2> HAVE <<"lib", p>> \in Reads(f)
  <2>1. <<"lib", p>> \in Outputs
    <3>1. \A g : Source(g)[1] = "source of" BY DEF Source
    <3>2. Tool[1] = "tool" BY DEF Tool
    <3>3. <<"lib", p>>[1] = "lib" OBVIOUS
    <3>4. <<"lib", p>> \notin Sources BY <3>1, <3>2, <3>3 DEF Sources
    <3> QED BY <3>4, <1>1, ReadsTyped DEF Files
  <2>2. \A l \in Looks(f) : Settled(l) BY SettledLooks
  <2>3. <<"lib", p>>[1] = "lib" OBVIOUS
  <2>4. Settled(<<"lib", p>>) BY <2>1, <2>2, <2>3, ReadsSettled
  <2> QED BY <2>1, <2>4, OutputKinds
<1>3. \A p \in S : graph.main[p] \subseteq S
  <2> TAKE p \in S
  <2>1. \A e \in graph.main[p] : e \in Built /\ <<"lib", e>> \in Looks(<<"lib", p>>)
    BY <1>1, IndexFacts, LooksAre, LibsMember DEF Needs
  <2>2. <<"lib", p>> \in Outputs BY OutputKinds
  <2>3. \A e \in graph.main[p] : Settled(<<"lib", e>>)
    BY <2>1, <2>2, SettledLooks
  <2> QED BY <2>1, <2>3
<1>4. S \in SUBSET Pkgs BY <1>1
<1> HIDE DEF S
<1>5. Loaded(f) \subseteq Libs(S) BY <1>1, <1>2, <1>3, <1>4, LoadedWithin
<1>6. PICK p \in S : d = <<"lib", p>> BY <1>5, LibsMember
<1> QED BY <1>6 DEF S

\* What a plan leaves out exists and is not old.
LEMMA NotPlanned ==
  ASSUME graph \in Topologies, ts \in [Files -> Nat], NEW f \in Outputs, f \notin DOMAIN Plan
  PROVE  /\ ~Old(f)
         /\ \A d \in Looks(f) : d \notin DOMAIN Plan
         /\ ts[f] > 0
<1>1. \A g \in Outputs : g \notin DOMAIN Plan => ~Old(g) /\ Looks(g) \cap DOMAIN Plan = {}
  BY PlanIsRight DEF Right
<1>2. \A g \in Outputs : g \notin DOMAIN Plan /\ g[1] # "run" => ts[g] > 0
  <2> TAKE g \in Outputs
  <2>1. ts[g] \in Nat BY DEF Files
  <2> QED BY <1>1, <2>1 DEF Old, NeedsRebuild
<1>3. CASE f[1] = "run"
  <2> PICK p \in (Built \cup {Root}) \cap graph.scripted : f = <<"run", p>>
    BY <1>3, OutputKinds
  <2>1. <<"build", p>> \in Outputs /\ <<"build", p>> \in Looks(f)
    BY OutputKinds, LooksAre
  <2>2. <<"build", p>> \notin DOMAIN Plan
    BY <1>1, <2>1
  <2>3. ts[<<"build", p>>] > 0
    BY <1>2, <2>1, <2>2
  <2>4. ~(ts[f] < ts[<<"build", p>>])
    BY <1>1, <2>1 DEF Old, Compared
  <2>5. ts[f] \in Nat /\ ts[<<"build", p>>] \in Nat
    BY <2>1 DEF Files
  <2> QED BY <1>1, <2>3, <2>4, <2>5
<1> QED BY <1>1, <1>2, <1>3

LEMMA IdleIsQuiet ==
  ASSUME PlanFollowed, phase = "idle"
  PROVE  DOMAIN jobs = {} /\ Running = {}
BY DEF PlanFollowed, Running

LEMMA WrittenStep ==
  ASSUME LeavesNoScript, IInv1, WrittenInv, [Next]_vars
  PROVE  WrittenInv'
<1>0. graph' = graph BY StepKeepsGraph
<1>1. Outputs' = Outputs BY <1>0, GraphFixed
<1>2. TypeOK /\ PlanFollowed BY DEF IInv1
<1>3. /\ status \in [DOMAIN jobs -> {"waiting", "running", "done", "failed"}]
      /\ ts \in [Files -> Nat] /\ clock \in Nat /\ DOMAIN jobs \subseteq Outputs
      /\ orphans \subseteq Outputs /\ Outputs \subseteq Files
  BY <1>2 DEF TypeOK, Files
<1>4. /\ broken \subseteq { f \in Running : f[1] = "run" }
      /\ phase = "building" => \A f \in Outputs : Settled(f) => Written(f)
  BY DEF WrittenInv
<1>5. ASSUME Running = {}, phase' = "idle" PROVE broken = {}
  BY <1>4, <1>5
<1>6. CASE Edit
  <2>1. Running' = Running BY <1>6 DEF Edit, Running
  <2> QED BY <1>4, <1>6, <2>1 DEF Edit, WrittenInv
<1>7. CASE StartBuild
  <2>1. broken = {} /\ broken' = broken /\ ts' = ts /\ jobs' = Plan
        /\ status' = [j \in DOMAIN Plan |-> "waiting"]
    BY <1>2, <1>4, <1>7, IdleIsQuiet DEF StartBuild
  <2>2. ASSUME NEW f \in Outputs, Settled(f)' PROVE ts[f] > 0
    <3>1. f \notin DOMAIN Plan BY <2>1, <2>2 DEF Settled
    <3> QED BY <3>1, <1>2, NotPlanned DEF TypeOK
  <2> QED BY <1>1, <2>1, <2>2 DEF WrittenInv, Written
<1>8. CASE EndBuild
  <2>1. broken = {} /\ broken' = broken /\ phase' = "idle"
    BY <1>4, <1>8 DEF EndBuild
  <2> QED BY <2>1 DEF WrittenInv
<1>9. CASE Abandon
  <2>1. phase = "building" /\ broken' = broken /\ phase' = "idle" BY <1>9 DEF Abandon
  <2>2. \A j \in Running : j[1] # "run" BY <2>1 DEF LeavesNoScript
  <2>3. broken = {} BY <1>4, <2>2
  <2> QED BY <2>1, <2>3 DEF WrittenInv
<1>10. ASSUME NEW j \in DOMAIN jobs, NEW new \in {"running", "done", "failed"},
              phase' = phase, phase = "building", jobs' = jobs,
              status' = [status EXCEPT ![j] = new],
              broken' \subseteq broken \cup {j},
              j \in broken' => new = "running" /\ j[1] = "run",
              \A f \in Files : f # j => ts'[f] = ts[f],
              new = "done" => ts'[j] > 0
       PROVE  WrittenInv'
  <2>1. \A f \in DOMAIN jobs : f # j => status'[f] = status[f] BY <1>3, <1>10
  <2>2. status'[j] = new BY <1>3, <1>10
  <2>3. \A f \in Running : f # j => f \in Running' BY <1>10, <2>1 DEF Running
  <2>4. new = "running" => j \in Running' BY <1>10, <2>2 DEF Running
  <2>5. \A f \in broken' : f \in Running' /\ f[1] = "run"
    BY <1>4, <1>10, <2>3, <2>4
  <2>6. ASSUME NEW f \in Outputs, Settled(f)' PROVE Written(f)'
    <3>1. CASE f = j
      BY <3>1, <1>10, <2>2, <2>6 DEF Settled, Written
    <3>2. CASE f # j
      <4>1. Settled(f) BY <2>1, <2>6, <3>2, <1>10 DEF Settled
      <4> QED BY <1>3, <1>4, <1>10, <3>2, <4>1 DEF Written
    <3> QED BY <3>1, <3>2
  <2> QED BY <1>1, <2>5, <2>6 DEF WrittenInv
<1>11. ASSUME NEW j \in DOMAIN jobs, StartJob(j) PROVE WrittenInv'
  <2>1. Write(IF j[1] = "run" THEN {j} ELSE {}) BY <1>11 DEF StartJob
  <2>2. \A f \in Files : f # j => ts'[f] = ts[f] BY <1>3, <2>1, WriteFacts
  <2>3. j \notin broken
    <3>1. status[j] # "running" BY <1>11 DEF StartJob, Runnable
    <3> QED BY <1>4, <3>1 DEF Running
  <2>4. broken' = IF j[1] = "run" THEN broken \cup {j} ELSE broken BY <1>11 DEF StartJob
  <2> QED BY <1>11, <2>2, <2>3, <2>4, <1>10 DEF StartJob
<1>12. ASSUME NEW j \in DOMAIN jobs, JobSucceeds(j) PROVE WrittenInv'
  <2>1. Write({j}) /\ broken' = broken \ {j} BY <1>12 DEF JobSucceeds, Succeed
  <2>2. j \in Files BY <1>3
  <2>3. (\A f \in Files : f # j => ts'[f] = ts[f]) /\ ts'[j] > 0
    BY <1>3, <2>1, <2>2, WriteFacts
  <2> QED BY <1>12, <2>1, <2>3, <1>10 DEF JobSucceeds
<1>13. ASSUME NEW j \in DOMAIN jobs, JobFails(j) PROVE WrittenInv'
  <2>1. \A f \in Files : f # j => ts'[f] = ts[f] BY <1>3, <1>13 DEF JobFails
  <2> QED BY <1>13, <2>1, <1>10 DEF JobFails
<1>14. ASSUME NEW j \in orphans, OrphanEnds(j) PROVE WrittenInv'
  <2>1. phase' = phase /\ jobs' = jobs /\ status' = status BY <1>14 DEF OrphanEnds
  <2>2. Running' = Running /\ \A f : Settled(f)' = Settled(f) BY <2>1 DEF Running, Settled
  <2>3. broken' \subseteq broken /\ \A f \in Files : ts'[f] = ts[f] \/ ts'[f] > 0
    <3>1. CASE Succeed(j)
      <4>1. Write({j}) /\ broken' = broken \ {j} BY <3>1 DEF Succeed
      <4> QED BY <1>3, <4>1, WriteFacts
    <3>2. CASE UNCHANGED <<ts, content, broken, clock>>
      BY <3>2
    <3> QED BY <3>1, <3>2, <1>14 DEF OrphanEnds
  <2>4. \A f \in Outputs : Written(f) => Written(f)'
    BY <1>3, <2>3 DEF Written
  <2> QED BY <1>1, <1>4, <2>1, <2>2, <2>3, <2>4 DEF WrittenInv
<1>15. CASE UNCHANGED vars
  <2>1. Running' = Running /\ \A f : Settled(f)' = Settled(f) BY <1>15 DEF vars, Running, Settled
  <2> QED BY <1>1, <1>4, <1>15, <2>1 DEF vars, WrittenInv, Written
<1> QED BY <1>6, <1>7, <1>8, <1>9, <1>11, <1>12, <1>13, <1>14, <1>15 DEF Next

LEMMA WrittenCorrect == Spec /\ [][LeavesNoScript]_vars => [](IInv1 /\ WrittenInv)
<1>1. Init => WrittenInv
  BY DEF Init, WrittenInv
<1>2. IInv1 /\ WrittenInv /\ [Next]_vars /\ [LeavesNoScript]_vars => WrittenInv'
  <2>1. UNCHANGED vars => LeavesNoScript BY DEF vars, LeavesNoScript
  <2> QED BY <2>1, WrittenStep
<1> QED BY <1>1, <1>2, IInv1Correct, PTL DEF Spec

\* However builds fail or are left, while a job runs what it reads was written
\* completely and no other job of its build writes it.  A compiler left behind
\* still may; that scripts are not left behind is a hypothesis, because the next
\* build takes the log of one that was for complete.  The others leave out tests,
\* which do not wait for dev-dependencies (TestShapes), and a root without
\* a library, which does not wait for its script.
THEOREM InputsAreReady ==
  ASSUME NoDevTests, RootScript
  PROVE  Spec /\ [][LeavesNoScript]_vars => []InputsReady
<1>1. ASSUME IInv1, WrittenInv PROVE InputsReady
  <2> SUFFICES ASSUME phase = "building", NEW j \in Running, NEW r \in Reads(j) \cap Outputs
               PROVE  ts[r] > 0 /\ r \notin broken /\ r \notin Running
    BY DEF InputsReady
  <2>1. Root \in graph.scripted => graph.has_library
    BY <1>1 DEF IInv1, TypeOK, RootScript
  <2>2. j \in DOMAIN jobs /\ status[j] = "running" BY DEF Running
  <2>3. \A d \in jobs[j] : status[d] = "done"
    BY <1>1, <2>2 DEF IInv1, PlanFollowed
  <2>4. Settled(r)
    BY <1>1, <2>1, <2>2, <2>3, JobLooksSettled, ReadsSettled
  <2>5. Written(r) BY <1>1, <2>4 DEF WrittenInv
  <2> QED BY <2>4, <2>5 DEF Settled, Written, Running
<1>2. IInv1 /\ WrittenInv => InputsReady
  BY <1>1
<1> QED BY <1>2, WrittenCorrect, PTL

-----------------------------------------------------------------------------
(* A build right after a successful one.                                   *)

\* Of any outputs one is the first in the loop over m_list.
LEMMA FirstOutput ==
  ASSUME graph \in Topologies, NEW S, S \subseteq Outputs, S # {}
  PROVE  \E f \in S : /\ \A d \in S : ~(Rank(d) < Rank(f))
                      /\ \A d \in Looks(f) \cap Outputs : d \notin S /\ Rank(d) < Rank(f)
<1> DEFINE T == { Rank(f) : f \in S }
<1>1. T \subseteq Nat /\ T # {}
  <2>1. \A f \in Outputs : Rank(f) \in Nat BY RankFacts, GraphFacts
  <2> QED BY <2>1
<1>2. PICK n \in T : \A m \in T : n <= m
  <2> HIDE DEF T
  <2> QED BY <1>1, LeastNatural
<1>3. PICK f \in S : n = Rank(f) BY <1>2
<1>4. \A d \in Looks(f) \cap Outputs : Rank(d) < Rank(f) BY LooksLower
<1>5. \A d \in S : ~(Rank(d) < Rank(f))
  <2> TAKE d \in S
  <2>1. Rank(d) \in T OBVIOUS
  <2> HIDE DEF T
  <2>2. n <= Rank(d) /\ n \in Nat /\ Rank(d) \in Nat BY <1>1, <1>2, <2>1
  <2> QED BY <2>2, <1>3
<1> QED BY <1>3, <1>4, <1>5

\* The runner stops with a job that was not started only after a failure.
LEMMA AllDone ==
  ASSUME IInv1, Running = {}, Failed = {}, Runnable = {}
  PROVE  \A f : Settled(f)
<1> DEFINE W == { j \in DOMAIN jobs : status[j] = "waiting" }
<1>1. /\ status \in [DOMAIN jobs -> {"waiting", "running", "done", "failed"}]
      /\ graph \in Topologies /\ DOMAIN jobs \subseteq Outputs
      /\ \A f \in DOMAIN jobs : jobs[f] = Looks(f) \cap DOMAIN jobs
  BY DEF IInv1, TypeOK, PlanFollowed
<1>2. \A j \in DOMAIN jobs : status[j] = "waiting" \/ status[j] = "done"
  BY <1>1 DEF Running, Failed
<1>3. ASSUME W # {} PROVE FALSE
  <2>1. W \subseteq Outputs BY <1>1
  <2>2. PICK j \in W : \A d \in Looks(j) \cap Outputs : d \notin W
    <3> HIDE DEF W
    <3> QED BY <1>1, <1>3, <2>1, FirstOutput
  <2>3. \A d \in jobs[j] : d \in DOMAIN jobs /\ d \notin W
    BY <1>1, <2>2
  <2>4. \A d \in jobs[j] : status[d] = "done"
    BY <1>2, <2>3
  <2>5. j \in Runnable
    BY <2>3, <2>4 DEF Runnable
  <2> QED BY <2>5
<1> QED BY <1>2, <1>3 DEF Settled

\* Nothing is newer than now, and faults happen where they are possible.
TimeInv ==
  /\ \A f \in Files : ts[f] <= clock
  /\ orphans # {} => "exit" \in graph.faults
  /\ Failed # {} => "fail" \in graph.faults
  /\ result = "ok" => phase = "idle"

\* What the build in progress is done with, and all after a success, is not old.
OrderInv ==
  "exit" \notin graph.faults =>
     /\ phase = "building" => \A f \in Outputs : Settled(f) => ~Old(f)
     /\ result = "ok" => \A f \in Outputs : ~Old(f)

LEMMA TimeStep == IInv1 /\ TimeInv /\ [Next]_vars => TimeInv'
<1> SUFFICES ASSUME IInv1, TimeInv, [Next]_vars PROVE TimeInv'
  OBVIOUS
<1>0. graph' = graph /\ Files' = Files BY StepKeepsGraph, GraphFixed
<1>1. /\ status \in [DOMAIN jobs -> {"waiting", "running", "done", "failed"}]
      /\ ts \in [Files -> Nat] /\ clock \in Nat
  BY DEF IInv1, TypeOK
<1> USE <1>0 DEF TimeInv
<1>2. ASSUME NEW F, Write(F) PROVE \A f \in Files : ts'[f] <= clock'
  BY <1>1, <1>2, WriteFacts
<1>3. CASE Edit
  BY <1>2, <1>3 DEF Edit, Failed
<1>4. CASE StartBuild
  <2>1. Failed' = {} BY <1>4 DEF StartBuild, Failed
  <2> QED BY <1>4, <2>1 DEF StartBuild
<1>5. CASE EndBuild
  <2>1. Failed' = {} BY <1>5 DEF EndBuild, Failed
  <2> QED BY <1>5, <2>1 DEF EndBuild
<1>6. CASE Abandon
  <2>1. Failed' = {} BY <1>6 DEF Abandon, Failed
  <2> QED BY <1>6, <2>1 DEF Abandon
<1>7. ASSUME NEW j \in DOMAIN jobs, StartJob(j) PROVE TimeInv'
  <2>1. Failed' \subseteq Failed BY <1>1, <1>7 DEF StartJob, Failed
  <2>2. \A f \in Files : ts'[f] <= clock' BY <1>2, <1>7 DEF StartJob
  <2> QED BY <1>7, <2>1, <2>2 DEF StartJob
<1>8. ASSUME NEW j \in DOMAIN jobs, JobSucceeds(j) PROVE TimeInv'
  <2>1. Failed' \subseteq Failed BY <1>1, <1>8 DEF JobSucceeds, Failed
  <2>2. \A f \in Files : ts'[f] <= clock' BY <1>2, <1>8 DEF JobSucceeds, Succeed
  <2> QED BY <1>8, <2>1, <2>2 DEF JobSucceeds
<1>9. ASSUME NEW j \in DOMAIN jobs, JobFails(j) PROVE TimeInv'
  <2>1. \A f \in Files : ts'[f] <= clock' BY <1>1, <1>9 DEF JobFails
  <2> QED BY <1>9, <2>1 DEF JobFails
<1>10. ASSUME NEW j \in orphans, OrphanEnds(j) PROVE TimeInv'
  <2>1. Failed' = Failed BY <1>10 DEF OrphanEnds, Failed
  <2>2. \A f \in Files : ts'[f] <= clock'
    <3>1. CASE Succeed(j) BY <1>2, <3>1 DEF Succeed
    <3>2. CASE UNCHANGED <<ts, content, broken, clock>> BY <3>2
    <3> QED BY <3>1, <3>2, <1>10 DEF OrphanEnds
  <2> QED BY <1>10, <2>1, <2>2 DEF OrphanEnds
<1>11. CASE UNCHANGED vars
  BY <1>11 DEF vars, Failed
<1> QED BY <1>3, <1>4, <1>5, <1>6, <1>7, <1>8, <1>9, <1>10, <1>11 DEF Next

\* Only libraries and the executables of scripts are compared.
LEMMA ComparedLooks ==
  ASSUME NEW f \in Outputs
  PROVE  /\ Compared(f) \subseteq Looks(f)
         /\ \A d \in Compared(f) : d[1] # "run"
         /\ graph \in Topologies => Compared(f) \subseteq Outputs
<1>1. \A D : \A d \in Libs(D) : d[1] # "run"
  BY DEF Libs
<1>2. \A p : <<"build", p>>[1] # "run" /\ Libs({p}) \subseteq {<<"lib", p>>}
  BY DEF Libs
<1>3. f[1] \in {"lib", "build", "run", "root"} BY OutputKinds
<1>4. Compared(f) = IF f[1] = "lib" THEN Libs(graph.main[f[2]]) ELSE Looks(f)
  BY DEF Compared
<1>5. /\ f[1] = "lib" => Looks(f) = {<<"run", f[2]>>} \cup Libs(graph.main[f[2]])
      /\ f[1] = "build" => Looks(f) = Libs(graph.build[f[2]])
      /\ f[1] = "run" => Looks(f) = {<<"build", f[2]>>} \cup Libs(graph.main[f[2]])
      /\ f[1] = "root" => \/ Looks(f) = Libs({f[2]}) /\ graph.has_library
                          \/ Looks(f) = Libs(graph.main[f[2]])
  BY DEF Looks
<1>6. Compared(f) \subseteq Looks(f) BY <1>3, <1>4, <1>5
<1>7. \A d \in Compared(f) : d[1] # "run"
  BY <1>1, <1>2, <1>3, <1>4, <1>5
<1>8. ASSUME graph \in Topologies PROVE Compared(f) \subseteq Outputs
  <2>1. f[2] \in Built \cup {Root}
    BY OutputKinds
  <2>2. graph.main[f[2]] \subseteq Built
    BY <1>8, <2>1, IndexFacts, OrderFacts DEF Needs
  <2>3. f[1] = "build" => graph.build[f[2]] \subseteq Built
    BY <1>8, <2>1, IndexFacts, OrderFacts, OutputKinds DEF Needs
  <2>4. \A D \in SUBSET Built : Libs(D) \subseteq Outputs
    BY LibsMember, OutputKinds
  <2>5. f[1] = "run" => <<"build", f[2]>> \in Outputs
    BY OutputKinds
  <2>6. f[1] = "root" /\ graph.has_library => f[2] \in Built
    <3>1. f[1] = "root" => f[2] = Root BY OutputKinds
    <3> QED BY <1>8, <3>1, OrderFacts
  <2>7. Libs(graph.main[f[2]]) \subseteq Outputs
    BY <2>2, <2>4
  <2>8. f[1] = "build" => Libs(graph.build[f[2]]) \subseteq Outputs
    BY <2>3, <2>4
  <2>9. f[1] = "root" /\ graph.has_library => Libs({f[2]}) \subseteq Outputs
    BY <2>4, <2>6
  <2> QED BY <1>3, <1>4, <1>5, <2>5, <2>7, <2>8, <2>9
<1> QED BY <1>6, <1>7, <1>8

\* An output stays as old as it is while it and what it is compared with are
\* not written.
LEMMA OldStays ==
  ASSUME IInv1, graph' = graph, NEW f \in Outputs, ~Old(f),
         ts' \in [Files -> Nat],
         NEW j \in Outputs, \A g \in Files : g # j => ts'[g] = ts[g],
         f # j, j \notin Compared(f), j \notin Loaded(f)
  PROVE  ~Old(f)'
<1>1. /\ Compared(f) \subseteq Outputs /\ Outputs \subseteq Files
      /\ Tool \in Files /\ Tool # j
      /\ f[1] # "run" => Depfile(f) \subseteq Files /\ j \notin Depfile(f)
  BY ComparedLooks, SourcesApart, DepfileTyped DEF IInv1, TypeOK, Files, Depfile
<1>2. Compared(f)' = Compared(f)
  BY GraphFixed DEF Compared
<1>3. ts'[f] = ts[f] /\ ts'[Tool] = ts[Tool] /\ \A d \in Compared(f) : ts'[d] = ts[d]
  BY <1>1
<1>4. f[1] # "run" => \A d \in Depfile(f) : ts'[d] = ts[d]
  BY <1>1
<1>5. Depfile(f)' = Depfile(f) /\ Tool' = Tool BY GraphFixed DEF Tool
<1> QED BY <1>2, <1>3, <1>4, <1>5 DEF Old, NeedsRebuild

LEMMA OrderStep ==
  ASSUME NoDevTests, IInv1, TimeInv, OrderInv, [Next]_vars
  PROVE  OrderInv'
<1>0. graph' = graph /\ Outputs' = Outputs BY StepKeepsGraph, GraphFixed
<1> SUFFICES ASSUME "exit" \notin graph.faults
             PROVE  /\ phase' = "building" => \A f \in Outputs : Settled(f)' => ~Old(f)'
                    /\ result' = "ok" => \A f \in Outputs : ~Old(f)'
  BY <1>0 DEF OrderInv
<1>1. /\ status \in [DOMAIN jobs -> {"waiting", "running", "done", "failed"}]
      /\ ts \in [Files -> Nat] /\ clock \in Nat /\ graph \in Topologies
      /\ Outputs \subseteq Files /\ DOMAIN jobs \subseteq Outputs
  BY DEF IInv1, TypeOK, Files
<1>2. /\ phase = "building" => \A f \in Outputs : Settled(f) => ~Old(f)
      /\ result = "ok" => \A f \in Outputs : ~Old(f)
      /\ orphans = {}
      /\ result = "ok" => phase = "idle"
      /\ \A f \in Files : ts[f] <= clock
  BY DEF OrderInv, TimeInv
<1>3. ASSUME ts' = ts, NEW f \in Outputs, ~Old(f) PROVE ~Old(f)'
  <2>1. Compared(f)' = Compared(f) BY <1>0, GraphFixed DEF Compared
  <2>2. Depfile(f)' = Depfile(f) BY <1>0, GraphFixed
  <2> QED BY <1>3, <2>1, <2>2 DEF Old, NeedsRebuild, Tool
<1>4. ts' \in [Files -> Nat]
  <2>1. Files' = Files BY <1>0, GraphFixed
  <2> QED BY <2>1, TypeStep DEF TypeOK
<1>5. CASE Edit
  BY <1>5 DEF Edit
<1>6. CASE StartBuild
  <2>1. ts' = ts /\ jobs' = Plan /\ result' = "none" /\ \A f \in DOMAIN Plan : status'[f] = "waiting"
    BY <1>6 DEF StartBuild
  <2>2. ASSUME NEW f \in Outputs, Settled(f)' PROVE ~Old(f)'
    <3>1. f \notin DOMAIN Plan BY <2>1, <2>2 DEF Settled
    <3>2. ~Old(f) BY <1>1, <3>1, NotPlanned
    <3> QED BY <1>3, <2>1, <3>2
  <2> QED BY <2>1, <2>2
<1>7. CASE EndBuild
  <2>1. ts' = ts /\ phase' = "idle" BY <1>7 DEF EndBuild
  <2>2. ASSUME result' = "ok" PROVE \A f \in Outputs : ~Old(f)
    <3>1. phase = "building" /\ Running = {} /\ Failed = {} /\ Runnable = {}
      BY <1>7, <2>2 DEF EndBuild
    <3> QED BY <1>2, <3>1, AllDone
  <2> QED BY <2>1, <2>2, <1>3
<1>8. CASE Abandon
  BY <1>8 DEF Abandon
<1>9. ASSUME NEW j \in DOMAIN jobs, NEW new \in {"running", "done", "failed"},
             phase = "building", result' = result, jobs' = jobs,
             status[j] = "waiting" \/ status[j] = "running",
             status' = [status EXCEPT ![j] = new],
             \A g \in Files : g # j => ts'[g] = ts[g],
             j[1] # "run" /\ new = "running" => ts' = ts,
             new = "done" => ts'[j] = clock + 1
      PROVE  \A f \in Outputs : Settled(f)' => ~Old(f)'
  <2> TAKE f \in Outputs
  <2> HAVE Settled(f)'
  <2>1. status'[j] = new /\ \A g \in DOMAIN jobs : g # j => status'[g] = status[g]
    BY <1>1, <1>9
  <2>2. CASE f = j
    <3>1. new = "done" BY <1>9, <2>1, <2>2 DEF Settled
    <3>2. Compared(f)' = Compared(f) BY <1>0, GraphFixed DEF Compared
    <3>3. \A g \in Files : ts'[g] <= clock + 1 BY <1>1, <1>2, <1>4, <1>9, <3>1
    <3>4. /\ Compared(f) \subseteq Files /\ Tool \in Files
          /\ f[1] # "run" => Depfile(f) \subseteq Files
      BY <1>1, ComparedLooks, DepfileTyped, SourcesApart DEF Files
    <3>5. ts'[f] = clock + 1 BY <1>9, <2>2, <3>1
    <3>6. \A g \in Files : ~(ts'[f] < ts'[g]) BY <1>1, <1>4, <3>3, <3>5
    <3>7. Depfile(f)' = Depfile(f) /\ Tool' = Tool BY <1>0, GraphFixed DEF Tool
    <3>8. ts'[f] # 0 BY <1>1, <3>5
    <3> QED BY <3>2, <3>4, <3>6, <3>7, <3>8 DEF Old, NeedsRebuild
  <2>3. CASE f # j
    <3>1. Settled(f) BY <1>9, <2>1, <2>3 DEF Settled
    <3>2. ~Old(f) BY <1>2, <1>9, <3>1
    <3>3. j \notin Looks(f)
      BY <1>9, <3>1, SettledLooks DEF Settled
    <3>4. j \notin Compared(f) BY <3>3, ComparedLooks
    <3>5. j \notin Loaded(f) BY <1>9, <3>1, LoadedSettled DEF Settled
    <3> QED BY <1>0, <1>1, <1>4, <1>9, <2>3, <3>2, <3>4, <3>5, OldStays
  <2> QED BY <2>2, <2>3
<1>10. ASSUME NEW j \in DOMAIN jobs, StartJob(j)
       PROVE  phase = "building" /\ result' = result /\ \A f \in Outputs : Settled(f)' => ~Old(f)'
  <2>1. Write(IF j[1] = "run" THEN {j} ELSE {}) BY <1>10 DEF StartJob
  <2>2. (\A g \in Files : g # j => ts'[g] = ts[g]) /\ (j[1] # "run" => ts' = ts)
    BY <1>1, <2>1, WriteFacts
  <2>3. status[j] = "waiting" BY <1>10 DEF StartJob, Runnable
  <2> QED BY <1>9, <1>10, <2>2, <2>3 DEF StartJob
<1>11. ASSUME NEW j \in DOMAIN jobs, JobSucceeds(j)
       PROVE  phase = "building" /\ result' = result /\ \A f \in Outputs : Settled(f)' => ~Old(f)'
  <2>1. Write({j}) BY <1>11 DEF JobSucceeds, Succeed
  <2>2. (\A g \in Files : g # j => ts'[g] = ts[g]) /\ ts'[j] = clock + 1
    BY <1>1, <2>1, WriteFacts
  <2> QED BY <1>9, <1>11, <2>2 DEF JobSucceeds
<1>12. ASSUME NEW j \in DOMAIN jobs, JobFails(j)
       PROVE  phase = "building" /\ result' = result /\ \A f \in Outputs : Settled(f)' => ~Old(f)'
  <2>1. \A g \in Files : g # j => ts'[g] = ts[g] BY <1>1, <1>12 DEF JobFails
  <2> QED BY <1>9, <1>12, <2>1 DEF JobFails
<1>13. ASSUME NEW j \in orphans, OrphanEnds(j) PROVE FALSE
  BY <1>2, <1>13
<1>14. CASE UNCHANGED vars
  <2>1. ts' = ts /\ phase' = phase /\ result' = result /\ \A f : Settled(f)' = Settled(f)
    BY <1>14 DEF vars, Settled
  <2> QED BY <1>2, <1>3, <2>1
<1>15. phase = "building" => result # "ok" BY <1>2
<1> QED BY <1>5, <1>6, <1>7, <1>8, <1>10, <1>11, <1>12, <1>13, <1>14, <1>15 DEF Next

LEMMA OrderCorrect ==
  ASSUME NoDevTests
  PROVE  Spec => [](IInv1 /\ TimeInv /\ OrderInv)
<1>1. Init => TimeInv
  <2> SUFFICES ASSUME Init PROVE TimeInv OBVIOUS
  <2>1. Failed = {} BY DEF Init, Failed
  <2>2. \A f \in Files : ts[f] <= clock BY DEF Init, Files
  <2> QED BY <2>1, <2>2 DEF Init, TimeInv
<1>2. Init => OrderInv
  BY DEF Init, OrderInv
<1>3. IInv1 /\ TimeInv /\ [Next]_vars => TimeInv' BY TimeStep
<1>4. IInv1 /\ TimeInv /\ OrderInv /\ [Next]_vars => OrderInv' BY OrderStep
<1> QED BY <1>1, <1>2, <1>3, <1>4, IInv1Correct, PTL DEF Spec

\* A build right after a successful one finds nothing to do, whatever the
\* packages, scripts and earlier failures, as long as minicargo never leaves a
\* compiler behind.  Tests with dev-dependencies are left out: a test may be
\* older than one of those, which it did not wait for, and is then built again.
THEOREM RebuildDoesNothing ==
  ASSUME NoDevTests
  PROVE  Spec => []RebuildIsNoop
<1>1. ASSUME IInv1, OrderInv, result = "ok", "exit" \notin graph.faults
      PROVE  DOMAIN Plan = {}
  <2>1. graph \in Topologies BY <1>1 DEF IInv1, TypeOK
  <2>2. /\ DOMAIN Plan \subseteq Outputs
        /\ \A f \in Outputs : f \in DOMAIN Plan <=> Old(f) \/ Looks(f) \cap DOMAIN Plan # {}
    BY <2>1, PlanIsRight DEF Right
  <2>3. \A f \in DOMAIN Plan : \E d \in Looks(f) \cap Outputs : d \in DOMAIN Plan
    BY <1>1, <2>2 DEF OrderInv
  <2>4. ASSUME DOMAIN Plan # {} PROVE FALSE
    <3>1. \E f \in DOMAIN Plan : \A d \in Looks(f) \cap Outputs : d \notin DOMAIN Plan
      BY <2>1, <2>2, <2>4, FirstOutput
    <3> QED BY <2>3, <3>1
  <2> QED BY <2>4
<1>2. IInv1 /\ OrderInv => RebuildIsNoop
  BY <1>1 DEF RebuildIsNoop
<1> QED BY <1>2, OrderCorrect, PTL

-----------------------------------------------------------------------------
(* What outputs are made from, and when they reflect the sources.          *)

\* The sources named in V.
Names(V) == { v[1] : v \in V }

\* V has the sources that the inputs of f were made from, when they hold c.
MadeFrom(c, V, f) ==
  /\ \A r \in Reads(f) : c[r] # {}
  /\ Names(V) = UNION { Names(c[r]) : r \in Reads(f) }

\* The versions in V are those with the times in t.
Current(t, V) == \A v \in V : t[v[1]] = v[2]

\* Every output names the sources its inputs name, and a running job read
\* versions that are still current.
ContentInv ==
  /\ \A f \in Files : \A v \in content[f] : v[2] <= clock
  /\ \A s \in Sources : content[s] = {<<s, ts[s]>>}
  /\ \A f \in Outputs : content[f] # {} => MadeFrom(content, content[f], f)
  /\ \A f \in Outputs : Written(f) => content[f] # {}
  /\ \A j \in Running \cup orphans :
       MadeFrom(content, snapshot[j], j) /\ Current(ts, snapshot[j])

\* To be fresh it is enough to be no older than anything f reads, when that is
\* fresh: the step of an induction along the dependencies.
LocallyFresh(f) ==
  Written(f) /\ (\A r \in Reads(f) : ts[r] <= ts[f] /\ (r \in Outputs => Fresh(r)))
    => Fresh(f)

\* A library and the output of its script are not compared: it is no older,
\* except while it is being made anew.  No script writes unnoticed.
ScriptsOlder ==
  /\ \A j \in orphans : j[1] # "run"
  /\ \A p \in Built \cap graph.scripted :
       \/ Halfway(p)
       \/ ts[<<"lib", p>>] = 0
       \/ ts[<<"run", p>>] <= ts[<<"lib", p>>]

\* What the build in progress is done with is fresh, and all after a success.
FreshInv ==
  /\ \A f \in Outputs : LocallyFresh(f)
  /\ phase = "building" => \A f \in Outputs : Settled(f) => Fresh(f)
  /\ result = "ok" => \A f \in Outputs : Fresh(f)

\* The inductive invariant for freshness.
IInv2 == IInv1 /\ WrittenInv /\ TimeInv /\ ContentInv /\ FreshInv /\ ScriptsOlder

LEMMA FreshIs == \A f : Fresh(f) <=> Written(f) /\ Current(ts, content[f])
BY DEF Fresh, Written, Current

LEMMA NamesMember == \A V : \A n : n \in Names(V) <=> \E v \in V : n = v[1]
BY DEF Names

LEMMA NamesOne == \A s, t : Names({<<s, t>>}) = {s}
BY DEF Names

\* Every job reads something.
LEMMA MadeFromSomething ==
  ASSUME NEW f \in Outputs, NEW c, NEW V, MadeFrom(c, V, f)
  PROVE  V # {}
<1>1. \E r : r \in Reads(f)
  BY OutputKinds, ReadsAre
<1>2. PICK r \in Reads(f) : c[r] # {} BY <1>1 DEF MadeFrom
<1>3. PICK v : v \in c[r] BY <1>2
<1>4. v[1] \in Names(c[r]) BY <1>3, NamesMember
<1>5. v[1] \in UNION { Names(c[q]) : q \in Reads(f) } BY <1>2, <1>4
<1>6. v[1] \in Names(V) BY <1>5 DEF MadeFrom
<1> QED BY <1>6, NamesMember

\* MadeFrom depends on the names that the inputs hold only.
LEMMA MadeFromSameNames ==
  ASSUME NEW f, NEW c, NEW d, NEW V, MadeFrom(c, V, f),
         \A r \in Reads(f) : d[r] # {} /\ Names(d[r]) = Names(c[r])
  PROVE  MadeFrom(d, V, f)
<1>1. \A r \in Reads(f) : Names(d[r]) = Names(c[r]) OBVIOUS
<1>2. UNION { Names(d[r]) : r \in Reads(f) } = UNION { Names(c[r]) : r \in Reads(f) }
  <2> HIDE DEF Names
  <2> QED BY <1>1
<1> QED BY <1>2 DEF MadeFrom

\* Making j again from inputs that name the same sources changes no names.
LEMMA MadeFromKept ==
  ASSUME NEW j, NEW c, NEW d,
         \A r : r # j => d[r] = c[r],
         d[j] # {}, MadeFrom(c, d[j], j),
         c[j] # {} => MadeFrom(c, c[j], j),
         NEW f, NEW V, MadeFrom(c, V, f)
  PROVE  MadeFrom(d, V, f)
<1>1. ASSUME NEW r \in Reads(f) PROVE d[r] # {} /\ Names(d[r]) = Names(c[r])
  <2>1. CASE r = j
    <3>1. c[j] # {} BY <1>1, <2>1 DEF MadeFrom
    <3>2. Names(c[j]) = Names(d[j])
      BY <3>1 DEF MadeFrom
    <3> QED BY <2>1, <3>2
  <2>2. CASE r # j
    BY <1>1, <2>2 DEF MadeFrom
  <2> QED BY <2>1, <2>2
<1> QED BY <1>1, MadeFromSameNames

\* Only j is written.
OnlyWrites(j) ==
  \A g \in Files : g # j =>
    ts'[g] = ts[g] /\ content'[g] = content[g] /\ (g \in broken' <=> g \in broken)

LEMMA FreshKept ==
  ASSUME TypeOK, NEW j \in Outputs, OnlyWrites(j), NEW f \in Outputs, f # j
  PROVE  Fresh(f)' <=> Fresh(f)
<1>1. f \in Files /\ content[f] \subseteq Versions
  BY DEF TypeOK, Files
<1>2. \A v \in content[f] : v[1] \in Files /\ v[1] # j
  BY <1>1, SourcesApart DEF Versions, Files
<1>3. \A v \in content[f] : ts'[v[1]] = ts[v[1]]
  BY <1>2 DEF OnlyWrites
<1>4. content'[f] = content[f] /\ ts'[f] = ts[f] /\ (f \in broken' <=> f \in broken)
  BY <1>1 DEF OnlyWrites
<1> QED BY <1>3, <1>4 DEF Fresh

LEMMA CurrentKept ==
  ASSUME NEW V \in SUBSET Versions, \A s \in Sources : ts'[s] = ts[s]
  PROVE  Current(ts', V) <=> Current(ts, V)
<1>1. \A v \in V : v[1] \in Sources BY DEF Versions
<1> QED BY <1>1 DEF Current

\* A change of j leaves the other outputs locally fresh: those that read it are
\* older than it now, or it is gone.
LEMMA OthersLocallyFresh ==
  ASSUME TypeOK, TimeInv, graph' = graph, NEW j \in Outputs, OnlyWrites(j),
         \/ ts'[j] = clock + 1
         \/ ts'[j] = 0
         \/ ts'[j] = ts[j] /\ content'[j] = content[j] /\ (j \in broken' <=> j \in broken),
         NEW f \in Outputs, f # j, LocallyFresh(f)
  PROVE  LocallyFresh(f)'
<1>1. Reads(f)' = Reads(f) /\ Outputs' = Outputs BY GraphFixed
<1>2. ts[f] \in Nat /\ clock \in Nat /\ ts[f] <= clock /\ ts'[f] = ts[f] /\ Reads(f) \subseteq Files
  BY ReadsTyped DEF TypeOK, TimeInv, Files, OnlyWrites
<1>3. Fresh(f)' <=> Fresh(f) BY FreshKept
<1>4. Written(f)' <=> Written(f) BY DEF OnlyWrites, Written, Files
<1>5. ASSUME \A r \in Reads(f) : ts'[r] <= ts'[f] /\ (r \in Outputs => Fresh(r)')
      PROVE  \A r \in Reads(f) : ts[r] <= ts[f] /\ (r \in Outputs => Fresh(r))
  <2> TAKE r \in Reads(f)
  <2>1. ts'[r] <= ts[f] /\ (r \in Outputs => Fresh(r)') BY <1>2, <1>5
  <2>2. CASE r # j
    <3>1. ts'[r] = ts[r] BY <1>2, <2>2 DEF OnlyWrites
    <3>2. r \in Outputs => (Fresh(r)' <=> Fresh(r)) BY <2>2, FreshKept
    <3> QED BY <2>1, <3>1, <3>2
  <2>3. CASE r = j
    <3>1. ts'[j] # clock + 1 BY <1>2, <2>1, <2>3
    <3>2. ts'[j] # 0 BY <2>1, <2>3 DEF Fresh
    <3>3. ts'[j] = ts[j] /\ content'[j] = content[j] /\ (j \in broken' <=> j \in broken)
      BY <3>1, <3>2
    <3>4. \A v \in content[j] : v[1] \in Files /\ v[1] # j
      BY SourcesApart DEF TypeOK, Files, Versions
    <3>5. \A v \in content[j] : ts'[v[1]] = ts[v[1]]
      BY <3>4 DEF OnlyWrites
    <3>6. Fresh(j)' <=> Fresh(j) BY <3>3, <3>5 DEF Fresh
    <3> QED BY <2>1, <2>3, <3>3, <3>6
  <2> QED BY <2>2, <2>3
<1> QED BY <1>1, <1>3, <1>4, <1>5 DEF LocallyFresh

\* What the last step of a job does.
LEMMA SucceedEffect ==
  ASSUME TypeOK, graph' = graph, NEW j \in Outputs, Succeed(j)
  PROVE  /\ OnlyWrites(j)
         /\ ts'[j] = clock + 1 /\ clock' = clock + 1
         /\ content' = [content EXCEPT ![j] = snapshot[j]]
         /\ content'[j] = snapshot[j] /\ snapshot[j] \in SUBSET Versions
         /\ j \notin broken'
         /\ \A s \in Sources : ts'[s] = ts[s] /\ content'[s] = content[s]
<1>1. Write({j}) /\ content' = [content EXCEPT ![j] = snapshot[j]] /\ broken' = broken \ {j}
  BY DEF Succeed
<1>2. j \in Files /\ ts \in [Files -> Nat] /\ clock \in Nat /\ content \in [Files -> SUBSET Versions]
  BY DEF TypeOK, Files
<1>3. /\ \A g \in Files : g # j => ts'[g] = ts[g]
      /\ ts'[j] = clock + 1 /\ clock' = clock + 1
  BY <1>1, <1>2, WriteFacts
<1>4. \A g \in Files : g # j => content'[g] = content[g]
  BY <1>1, <1>2
<1>5. content'[j] = snapshot[j] BY <1>1, <1>2
<1>6. \A s \in Sources : s \in Files /\ s # j BY SourcesApart DEF Files
<1>7. snapshot[j] \in SUBSET Versions BY DEF TypeOK
<1> QED BY <1>1, <1>3, <1>4, <1>5, <1>6, <1>7 DEF OnlyWrites

\* Steps that leave the contents and the sources alone.
LEMMA ContentKept ==
  ASSUME TypeOK, ContentInv, graph' = graph, content' = content,
         clock \in Nat, clock' \in Nat, clock <= clock',
         \A s \in Sources : ts'[s] = ts[s],
         \A f \in Outputs : Written(f)' => Written(f),
         \A j \in Running' \cup orphans' :
           /\ MadeFrom(content, snapshot'[j], j)
           /\ Current(ts, snapshot'[j])
           /\ snapshot'[j] \in SUBSET Versions
  PROVE  ContentInv'
<1>1. Files' = Files /\ Outputs' = Outputs /\ Sources' = Sources BY GraphFixed
<1>2. \A f : Reads(f)' = Reads(f) BY GraphFixed
<1>3. ASSUME NEW V, NEW f, MadeFrom(content, V, f) PROVE (MadeFrom(content, V, f))'
  BY <1>2, <1>3 DEF MadeFrom
<1>4. \A f \in Files : \A v \in content[f] : v[2] <= clock'
  <2> TAKE f \in Files
  <2> TAKE v \in content[f]
  <2>1. v \in Versions BY DEF TypeOK
  <2>2. v[2] \in Nat /\ v[2] <= clock BY <2>1 DEF Versions, ContentInv
  <2> QED BY <2>2
<1>5. \A s \in Sources : content'[s] = {<<s, ts'[s]>>}
  BY DEF ContentInv
<1>6. \A f \in Outputs : content'[f] # {} => MadeFrom(content, content[f], f)'
  <2> TAKE f \in Outputs
  <2> HAVE content'[f] # {}
  <2>1. MadeFrom(content, content[f], f) BY DEF ContentInv
  <2>2. \A r \in Reads(f)' : content'[r] # {}
    BY <2>1, <1>2 DEF MadeFrom
  <2>3. Names(content'[f]) = UNION { Names(content'[r]) : r \in Reads(f)' }
    BY <2>1, <1>2 DEF MadeFrom
  <2> QED BY <2>2, <2>3 DEF MadeFrom
<1>7. \A f \in Outputs : Written(f)' => content'[f] # {}
  BY DEF ContentInv
<1>8. \A j \in Running' \cup orphans' : (MadeFrom(content, snapshot[j], j) /\ Current(ts, snapshot[j]))'
  <2> TAKE j \in Running' \cup orphans'
  <2>1. MadeFrom(content, snapshot'[j], j) OBVIOUS
  <2>2. \A r \in Reads(j)' : content'[r] # {}
    BY <2>1, <1>2 DEF MadeFrom
  <2>3. Names(snapshot'[j]) = UNION { Names(content'[r]) : r \in Reads(j)' }
    BY <2>1, <1>2 DEF MadeFrom
  <2>4. Current(ts', snapshot'[j]) BY CurrentKept
  <2> QED BY <2>2, <2>3, <2>4 DEF MadeFrom, Current
<1> QED BY <1>1, <1>4, <1>5, <1>6, <1>7, <1>8 DEF ContentInv

\* A job succeeds: what it wrote is made from what it read, and the others
\* were made from the same sources as before.
LEMMA ContentWritten ==
  ASSUME TypeOK, ContentInv, graph' = graph, NEW j \in Running \cup orphans, j \in Outputs,
         Succeed(j), snapshot' = snapshot, Running' \cup orphans' \subseteq Running \cup orphans
  PROVE  ContentInv' /\ Fresh(j)'
<1>0. j \in Running \cup orphans OBVIOUS
<1>1. Files' = Files /\ Outputs' = Outputs /\ Sources' = Sources BY GraphFixed
<1>2. \A f : Reads(f)' = Reads(f) BY GraphFixed
<1>3. /\ OnlyWrites(j)
      /\ ts'[j] = clock + 1 /\ clock' = clock + 1
      /\ content' = [content EXCEPT ![j] = snapshot[j]]
      /\ content'[j] = snapshot[j] /\ snapshot[j] \in SUBSET Versions
      /\ j \notin broken'
      /\ \A s \in Sources : ts'[s] = ts[s] /\ content'[s] = content[s]
  BY SucceedEffect
<1>4. clock \in Nat /\ content \in [Files -> SUBSET Versions] /\ j \in Files
      /\ Outputs \subseteq Files /\ Sources \subseteq Files
  BY DEF TypeOK, Files
<1>5. MadeFrom(content, snapshot[j], j) /\ Current(ts, snapshot[j])
  BY <1>0 DEF ContentInv
<1>6. \A r : r # j => content'[r] = content[r]
  <2> TAKE r
  <2> HAVE r # j
  <2>1. CASE r \in Files BY <1>3, <1>4, <2>1
  <2>2. CASE r \notin Files
    <3>1. DOMAIN content = Files /\ DOMAIN content' = Files BY <1>3, <1>4
    <3> QED BY <1>3
  <2> QED BY <2>1, <2>2
<1>7. content'[j] # {}
  BY <1>3, <1>5, MadeFromSomething
<1>8. content[j] # {} => MadeFrom(content, content[j], j)
  BY DEF ContentInv
<1>9. ASSUME NEW f, NEW V, MadeFrom(content, V, f) PROVE MadeFrom(content', V, f)
  <2>1. MadeFrom(content, content'[j], j) BY <1>3, <1>5
  <2> QED BY <1>6, <1>7, <1>8, <1>9, <2>1, MadeFromKept
<1>10. \A v \in snapshot[j] : v[1] \in Sources /\ v[2] <= clock
  <2> TAKE v \in snapshot[j]
  <2>1. v \in Versions BY <1>3
  <2>2. v[1] \in Sources BY <2>1 DEF Versions
  <2>3. ts[v[1]] = v[2] BY <1>5 DEF Current
  <2>4. content[v[1]] = {<<v[1], ts[v[1]]>>} BY <2>2 DEF ContentInv
  <2>5. <<v[1], ts[v[1]]>>[2] <= clock
    BY <1>4, <2>2, <2>4 DEF ContentInv
  <2> QED BY <2>2, <2>3, <2>5
<1>11. \A f \in Files : \A v \in content'[f] : v[2] <= clock'
  <2> TAKE f \in Files
  <2> TAKE v \in content'[f]
  <2>1. v \in Versions
    BY <1>3, <1>4, <1>6
  <2>2. v[2] <= clock
    <3>1. CASE f = j BY <1>3, <1>10, <3>1
    <3>2. CASE f # j BY <1>6, <3>2 DEF ContentInv
    <3> QED BY <3>1, <3>2
  <2>3. v[2] \in Nat BY <2>1 DEF Versions
  <2> QED BY <1>3, <1>4, <2>2, <2>3
<1>12. \A s \in Sources : content'[s] = {<<s, ts'[s]>>}
  BY <1>3 DEF ContentInv
<1>13. ASSUME NEW f \in Outputs, content'[f] # {} PROVE (MadeFrom(content, content[f], f))'
  <2>1. MadeFrom(content, content'[f], f)
    <3>1. CASE f = j BY <1>3, <1>5, <3>1
    <3>2. CASE f # j BY <1>6, <1>13, <3>2 DEF ContentInv
    <3> QED BY <3>1, <3>2
  <2>2. MadeFrom(content', content'[f], f) BY <1>9, <2>1
  <2>3. \A r \in Reads(f)' : content'[r] # {}
    BY <2>2, <1>2 DEF MadeFrom
  <2>4. Names(content'[f]) = UNION { Names(content'[r]) : r \in Reads(f)' }
    BY <2>2, <1>2 DEF MadeFrom
  <2> QED BY <2>3, <2>4 DEF MadeFrom
<1>14. ASSUME NEW f \in Outputs, Written(f)' PROVE content'[f] # {}
  <2>1. CASE f = j BY <1>7, <2>1
  <2>2. CASE f # j
    <3>1. Written(f) BY <1>3, <1>4, <1>14, <2>2 DEF OnlyWrites, Written
    <3> QED BY <1>6, <2>2, <3>1 DEF ContentInv
  <2> QED BY <2>1, <2>2
<1>15. \A k \in Running' \cup orphans' : (MadeFrom(content, snapshot[k], k) /\ Current(ts, snapshot[k]))'
  <2> TAKE k \in Running' \cup orphans'
  <2>0. k \in Running \cup orphans OBVIOUS
  <2>1. MadeFrom(content, snapshot[k], k) /\ Current(ts, snapshot[k])
    BY <2>0 DEF ContentInv
  <2>2. MadeFrom(content', snapshot[k], k) BY <1>9, <2>1
  <2>3. \A r \in Reads(k)' : content'[r] # {}
    BY <2>2, <1>2 DEF MadeFrom
  <2>4. Names(snapshot'[k]) = UNION { Names(content'[r]) : r \in Reads(k)' }
    BY <2>2, <1>2 DEF MadeFrom
  <2>5. snapshot[k] \in SUBSET Versions
    BY <2>0 DEF TypeOK, Running
  <2>6. Current(ts', snapshot[k]) BY <1>3, <2>1, <2>5, CurrentKept
  <2> QED BY <2>3, <2>4, <2>6 DEF MadeFrom, Current
<1>16. ContentInv' BY <1>1, <1>11, <1>12, <1>13, <1>14, <1>15 DEF ContentInv
<1>17. Current(ts', snapshot[j]) BY <1>3, <1>5, CurrentKept
<1>18. Fresh(j)' BY <1>3, <1>4, <1>17 DEF Fresh, Current
<1> QED BY <1>16, <1>18

LEMMA ContentStep ==
  ASSUME RootScript, NoDevTests, IInv2, [Next]_vars
  PROVE  ContentInv'
<1>0. graph' = graph BY StepKeepsGraph
<1>1. /\ IInv1 /\ TypeOK /\ WrittenInv /\ TimeInv /\ ContentInv /\ FreshInv
      /\ Files' = Files /\ Outputs' = Outputs /\ Sources' = Sources
  BY <1>0, GraphFixed DEF IInv2, IInv1
<1>2. /\ status \in [DOMAIN jobs -> {"waiting", "running", "done", "failed"}]
      /\ ts \in [Files -> Nat] /\ clock \in Nat /\ graph \in Topologies
      /\ content \in [Files -> SUBSET Versions] /\ snapshot \in [Outputs -> SUBSET Versions]
      /\ DOMAIN jobs \subseteq Outputs /\ orphans \subseteq Outputs
      /\ Outputs \subseteq Files /\ Sources \subseteq Files
      /\ Running \subseteq DOMAIN jobs
  BY <1>1 DEF TypeOK, Files, Running
<1>3. \A j \in Running \cup orphans :
        /\ MadeFrom(content, snapshot[j], j)
        /\ Current(ts, snapshot[j])
        /\ snapshot[j] \in SUBSET Versions
  BY <1>1, <1>2 DEF ContentInv
<1>4. ASSUME ts' = ts, broken' = broken, content' = content, snapshot' = snapshot, clock' = clock,
             Running' \cup orphans' \subseteq Running \cup orphans
      PROVE  ContentInv'
  <2>1. \A f \in Outputs : Written(f)' => Written(f) BY <1>4 DEF Written
  <2>2. \A s \in Sources : ts'[s] = ts[s] BY <1>4
  <2>3. clock <= clock' /\ clock' \in Nat BY <1>2, <1>4
  <2>4. \A j \in Running' \cup orphans' :
           /\ MadeFrom(content, snapshot'[j], j)
           /\ Current(ts, snapshot'[j])
           /\ snapshot'[j] \in SUBSET Versions
    BY <1>3, <1>4
  <2> QED BY <1>0, <1>1, <1>2, <1>4, <2>1, <2>2, <2>3, <2>4, ContentKept
<1>5. CASE Edit
  <2> PICK s \in Sources : Write({s}) /\ content' = [content EXCEPT ![s] = {<<s, Now>>}]
    BY <1>5 DEF Edit
  <2>1. phase = "idle" /\ orphans' = {} /\ Running' = {}
    <3>1. Running' = Running BY <1>5 DEF Edit, Running
    <3> QED BY <1>1, <1>5, <3>1, IdleIsQuiet DEF Edit, IInv1
  <2>2. /\ \A f \in Files : f # s => ts'[f] = ts[f] /\ content'[f] = content[f]
        /\ ts'[s] = clock + 1 /\ clock' = clock + 1 /\ content'[s] = {<<s, clock + 1>>}
    BY <1>2, WriteFacts DEF Now
  <2>3. ASSUME NEW r \in Files PROVE content'[r] # {} <=> content[r] # {}
    BY <1>1, <2>2 DEF ContentInv
  <2>4. ASSUME NEW r \in Files PROVE Names(content'[r]) = Names(content[r])
    <3>1. CASE r = s
      <4>1. content[r] = {<<s, ts[s]>>} BY <3>1, <1>1 DEF ContentInv
      <4>2. Names(content[r]) = {s} BY <4>1, NamesOne
      <4>3. content'[r] = {<<s, clock + 1>>} BY <3>1, <2>2
      <4>4. Names(content'[r]) = {s} BY <4>3, NamesOne
      <4> QED BY <4>2, <4>4
    <3>2. CASE r # s BY <2>2, <3>2
    <3> QED BY <3>1, <3>2
  <2>5. \A f \in Files : \A v \in content'[f] : v[2] <= clock'
    <3> TAKE f \in Files
    <3> TAKE v \in content'[f]
    <3>1. CASE f = s BY <2>2, <3>1, <1>2
    <3>2. CASE f # s
      <4>1. v \in content[f] /\ v \in Versions BY <1>2, <2>2, <3>2
      <4>2. v[2] <= clock /\ v[2] \in Nat BY <4>1, <1>1 DEF ContentInv, Versions
      <4> QED BY <4>2, <2>2, <1>2
    <3> QED BY <3>1, <3>2
  <2>6. \A x \in Sources : content'[x] = {<<x, ts'[x]>>}
    BY <1>1, <1>2, <2>2 DEF ContentInv
  <2>7. \A f \in Outputs : f # s BY SourcesApart
  <2>8. ASSUME NEW f \in Outputs, content'[f] # {} PROVE (MadeFrom(content, content[f], f))'
    <3>1. content'[f] = content[f] BY <1>2, <2>2, <2>7
    <3>2. MadeFrom(content, content[f], f) BY <1>1, <2>8, <3>1 DEF ContentInv
    <3>3. Reads(f) \subseteq Files BY <1>2, ReadsTyped
    <3>4. MadeFrom(content', content[f], f)
      <4>1. \A r \in Reads(f) : content'[r] # {} /\ Names(content'[r]) = Names(content[r])
        <5> TAKE r \in Reads(f)
        <5>1. content[r] # {} BY <3>2 DEF MadeFrom
        <5> QED BY <5>1, <3>3, <2>3, <2>4
      <4> QED BY <4>1, <3>2, MadeFromSameNames
    <3>5. Reads(f)' = Reads(f) BY <1>0, GraphFixed
    <3>6. \A r \in Reads(f)' : content'[r] # {} BY <3>4, <3>5 DEF MadeFrom
    <3>7. Names(content'[f]) = UNION { Names(content'[r]) : r \in Reads(f)' }
      BY <3>1, <3>4, <3>5 DEF MadeFrom
    <3> QED BY <3>6, <3>7 DEF MadeFrom
  <2>9. \A f \in Outputs : Written(f)' => content'[f] # {}
    <3> TAKE f \in Outputs
    <3>1. ts'[f] = ts[f] /\ content'[f] = content[f] /\ broken' = broken
      BY <1>2, <1>5, <2>2, <2>7 DEF Edit
    <3>2. Written(f)' <=> Written(f) BY <3>1 DEF Written
    <3> QED BY <3>1, <3>2, <1>1 DEF ContentInv
  <2> QED BY <1>1, <2>1, <2>5, <2>6, <2>8, <2>9 DEF ContentInv
<1>6. CASE StartBuild
  <2>1. \A j \in DOMAIN jobs' : status'[j] = "waiting" BY <1>6 DEF StartBuild
  <2>2. Running' = {} BY <2>1 DEF Running
  <2> QED BY <1>4, <1>6, <2>2 DEF StartBuild
<1>7. CASE EndBuild \/ Abandon
  <2>1. DOMAIN jobs' = {} BY <1>7 DEF EndBuild, Abandon
  <2>2. Running' = {} BY <2>1 DEF Running
  <2> QED BY <1>4, <1>7, <2>2 DEF EndBuild, Abandon
<1>8. ASSUME NEW j \in DOMAIN jobs, StartJob(j) PROVE ContentInv'
  <2>1. /\ status' = [status EXCEPT ![j] = "running"]
        /\ snapshot' = [snapshot EXCEPT ![j] = UNION { content[r] : r \in Reads(j) }]
        /\ Write(IF j[1] = "run" THEN {j} ELSE {})
        /\ broken' = IF j[1] = "run" THEN broken \cup {j} ELSE broken
        /\ content' = content /\ jobs' = jobs /\ orphans' = orphans
        /\ phase = "building"
        /\ \A d \in jobs[j] : status[d] = "done"
    BY <1>8 DEF StartJob, Runnable
  <2>2. /\ \A f \in Files : f # j => ts'[f] = ts[f]
        /\ j[1] # "run" => ts' = ts
        /\ clock' \in Nat /\ clock <= clock'
    BY <1>2, <2>1, WriteFacts
  <2>3. \A s \in Sources : s # j BY <1>2, SourcesApart
  <2>4. \A f \in Outputs : Written(f)' => Written(f)
    BY <1>2, <2>1, <2>2 DEF Written
  <2>5. Reads(j) \subseteq Files BY <1>2, ReadsTyped
  <2>6. \A r \in Reads(j) : content[r] # {} /\ Current(ts, content[r])
    <3> TAKE r \in Reads(j)
    <3>1. CASE r \in Sources
      <4>1. content[r] = {<<r, ts[r]>>} BY <3>1, <1>1 DEF ContentInv
      <4> QED BY <4>1 DEF Current
    <3>2. CASE r \in Outputs
      <4>1. Root \in graph.scripted => graph.has_library
        BY <1>2 DEF RootScript
      <4>2. Settled(r) BY <1>1, <2>1, <3>2, <4>1, JobLooksSettled, ReadsSettled
      <4>3. Fresh(r) BY <1>1, <2>1, <3>2, <4>2 DEF FreshInv
      <4>4. Written(r) /\ Current(ts, content[r]) BY <4>3, FreshIs
      <4> QED BY <4>4, <3>2, <1>1 DEF ContentInv
    <3> QED BY <2>5, <3>1, <3>2 DEF Files
  <2> DEFINE V == UNION { content[r] : r \in Reads(j) }
  <2>7. V \in SUBSET Versions
    <3>1. \A r \in Reads(j) : content[r] \in SUBSET Versions BY <1>2, <2>5
    <3> QED BY <3>1
  <2>8. Current(ts, V)
    BY <2>6 DEF Current
  <2>9. MadeFrom(content, V, j)
    <3>1. \A n : n \in Names(V) <=> \E r \in Reads(j) : \E v \in content[r] : n = v[1]
      <4>1. \A v : v \in V <=> \E r \in Reads(j) : v \in content[r] OBVIOUS
      <4> HIDE DEF V
      <4> QED BY <4>1, NamesMember
    <3>2. \A n : n \in UNION { Names(content[r]) : r \in Reads(j) }
                   <=> \E r \in Reads(j) : n \in Names(content[r])
      OBVIOUS
    <3>3. \A n : n \in Names(V) <=> n \in UNION { Names(content[r]) : r \in Reads(j) }
      <4> HIDE DEF V, Names
      <4> QED BY <3>1, <3>2, NamesMember
    <3>4. Names(V) = UNION { Names(content[r]) : r \in Reads(j) }
      <4> HIDE DEF V, Names
      <4> QED BY <3>3
    <3> QED BY <2>6, <3>4 DEF MadeFrom
  <2> HIDE DEF V
  <2>10. snapshot'[j] = V /\ \A k \in Outputs : k # j => snapshot'[k] = snapshot[k]
    BY <1>2, <2>1 DEF V
  <2>11. Running' \subseteq Running \cup {j}
    BY <1>2, <2>1 DEF Running
  <2>12. \A k \in Running' \cup orphans' :
           /\ MadeFrom(content, snapshot'[k], k)
           /\ Current(ts, snapshot'[k])
           /\ snapshot'[k] \in SUBSET Versions
    <3> TAKE k \in Running' \cup orphans'
    <3>1. CASE k = j BY <3>1, <2>7, <2>8, <2>9, <2>10
    <3>2. CASE k # j
      <4>1. k \in Running \cup orphans /\ k \in Outputs BY <3>2, <2>1, <2>11, <1>2
      <4>2. snapshot'[k] = snapshot[k] BY <3>2, <4>1, <2>10
      <4> QED BY <4>1, <4>2, <1>3
    <3> QED BY <3>1, <3>2
  <2>13. \A s \in Sources : ts'[s] = ts[s] BY <1>2, <2>2, <2>3
  <2> QED BY <1>0, <1>1, <1>2, <2>1, <2>2, <2>4, <2>12, <2>13, ContentKept
<1>9. ASSUME NEW j \in DOMAIN jobs, JobSucceeds(j) PROVE ContentInv'
  <2>1. Succeed(j) /\ snapshot' = snapshot /\ j \in Running
    BY <1>9 DEF JobSucceeds, Running
  <2>2. Running' \cup orphans' \subseteq Running \cup orphans
    BY <1>2, <1>9 DEF JobSucceeds, Running
  <2> QED BY <1>0, <1>1, <1>2, <2>1, <2>2, ContentWritten
<1>10. ASSUME NEW j \in DOMAIN jobs, JobFails(j) PROVE ContentInv'
  <2>1. /\ ts' = [ts EXCEPT ![j] = 0] /\ broken' = broken \ {j} /\ content' = content
        /\ clock' = clock /\ snapshot' = snapshot
        /\ status' = [status EXCEPT ![j] = "failed"] /\ jobs' = jobs /\ orphans' = orphans
    BY <1>10 DEF JobFails
  <2>2. \A s \in Sources : s # j BY <1>2, SourcesApart
  <2>3. \A s \in Sources : ts'[s] = ts[s] BY <1>2, <2>1, <2>2
  <2>4. \A f \in Outputs : Written(f)' => Written(f) BY <1>2, <2>1 DEF Written
  <2>5. Running' \subseteq Running BY <1>2, <2>1 DEF Running
  <2>6. \A k \in Running' \cup orphans' :
           /\ MadeFrom(content, snapshot'[k], k)
           /\ Current(ts, snapshot'[k])
           /\ snapshot'[k] \in SUBSET Versions
    BY <2>1, <2>5, <1>3
  <2> QED BY <1>0, <1>1, <1>2, <2>1, <2>3, <2>4, <2>6, ContentKept
<1>11. ASSUME NEW j \in orphans, OrphanEnds(j) PROVE ContentInv'
  <2>1. /\ Running' = Running /\ orphans' \subseteq orphans /\ snapshot' = snapshot
    BY <1>11 DEF OrphanEnds, Running
  <2>2. CASE Succeed(j)
    BY <1>0, <1>1, <1>2, <2>1, <2>2, ContentWritten
  <2>3. CASE UNCHANGED <<ts, content, broken, clock>>
    BY <2>1, <2>3, <1>4
  <2> QED BY <1>11, <2>2, <2>3 DEF OrphanEnds
<1>12. CASE UNCHANGED vars
  <2>1. Running' = Running BY <1>12 DEF vars, Running
  <2> QED BY <1>12, <2>1, <1>4 DEF vars
<1> QED BY <1>5, <1>6, <1>7, <1>8, <1>9, <1>10, <1>11, <1>12 DEF Next

-----------------------------------------------------------------------------
(* Comparing timestamps misses nothing.                                    *)

\* The sources a job reads are its own and the compiler.
LEMMA ReadsSources ==
  ASSUME NEW f \in Outputs, NEW r \in Reads(f) \cap Sources
  PROVE  f[1] # "run" /\ r \in {Source(f), Tool}
<1> DEFINE out(D) == { <<"run", d>> : d \in D \cap graph.scripted }
<1>1. \A s \in Sources : s[1] \in {"source of", "tool"}
  <2>1. \A g : Source(g)[1] = "source of" BY DEF Source
  <2>2. Tool[1] = "tool" BY DEF Tool
  <2> QED BY <2>1, <2>2 DEF Sources
<1>2. \A D : \A x \in out(D) : x \notin Sources
  <2>1. \A D : \A x \in out(D) : x[1] = "run" OBVIOUS
  <2> QED BY <1>1, <2>1
<1>3. \A D : \A x \in Libs(D) : x \notin Sources
  <2>1. \A D : \A x \in Libs(D) : x[1] = "lib" BY DEF Libs
  <2> QED BY <1>1, <2>1
<1>4. \A p : <<"build", p>> \notin Sources
  <2>1. \A p : <<"build", p>>[1] = "build" OBVIOUS
  <2> QED BY <1>1, <2>1
<1> HIDE DEF out
<1>5. CASE \E p \in Built : f = <<"lib", p>>
  <2> PICK p \in Built : f = <<"lib", p>> BY <1>5
  <2>1. Reads(f) = {Source(f), Tool} \cup Libs(graph.main[p]) \cup out({p}) \cup out(graph.main[p])
    BY ReadsAre DEF out
  <2> QED BY <2>1, <1>2, <1>3
<1>6. CASE \E p \in (Built \cup {Root}) \cap graph.scripted : f = <<"build", p>>
  <2> PICK p \in (Built \cup {Root}) \cap graph.scripted : f = <<"build", p>> BY <1>6
  <2>1. Reads(f) = {Source(f), Tool} \cup Libs(graph.build[p])
    BY ReadsAre
  <2> QED BY <2>1, <1>3
<1>7. CASE \E p \in (Built \cup {Root}) \cap graph.scripted : f = <<"run", p>>
  <2> PICK p \in (Built \cup {Root}) \cap graph.scripted : f = <<"run", p>> BY <1>7
  <2>1. Reads(f) = {<<"build", p>>} \cup out(graph.main[p])
    BY ReadsAre DEF out
  <2> QED BY <2>1, <1>2, <1>4
<1>8. CASE f = <<"root", Root>>
  <2> DEFINE L == IF graph.has_library THEN {Root} ELSE {}
             D == IF TestMode THEN graph.dev[Root] ELSE {}
  <2>1. Reads(f) = {Source(f), Tool} \cup Libs(graph.main[Root])
             \cup out({Root}) \cup out(graph.main[Root]) \cup Libs(L) \cup Libs(D)
    BY <1>8, ReadsAre DEF out
  <2> HIDE DEF L, D
  <2> QED BY <2>1, <1>2, <1>3, <1>8
<1> QED BY <1>5, <1>6, <1>7, <1>8, OutputKinds

\* Between builds, what a plan leaves out is at least as new as what it was
\* compared with, and with its script's output.
LEMMA CleanIsNewer ==
  ASSUME IInv1, ScriptsOlder, phase = "idle", NEW f \in Outputs, f \notin DOMAIN Plan,
         NEW d \in Looks(f) \cap Outputs
  PROVE  d \notin DOMAIN Plan /\ ts[d] <= ts[f]
<1>1. /\ graph \in Topologies /\ ts \in [Files -> Nat] /\ PlanFollowed
      /\ ts[f] \in Nat /\ ts[d] \in Nat
  BY DEF IInv1, TypeOK, Files
<1>2. ~Old(f) /\ d \notin DOMAIN Plan
  BY <1>1, NotPlanned
<1>3. CASE d \in Compared(f)
  BY <1>1, <1>2, <1>3 DEF Old
<1>4. CASE d \notin Compared(f)
  <2>1. f[1] = "lib" BY <1>4 DEF Compared
  <2>2. PICK p \in Built : f = <<"lib", p>> BY <2>1, OutputKinds
  <2>3. Looks(f) = {<<"run", p>>} \cup Libs(graph.main[p]) /\ Compared(f) = Libs(graph.main[p])
    BY <2>2, LooksAre DEF Compared
  <2>4. d = <<"run", p>> BY <1>4, <2>3
  <2>5. p \in graph.scripted BY <2>4, OutputKinds
  <2>6. ~Halfway(p) BY <1>1, IdleIsQuiet DEF Halfway
  <2>7. ts[<<"lib", p>>] > 0 BY <1>1, <2>2, NotPlanned
  <2>8. ts[<<"run", p>>] <= ts[<<"lib", p>>] BY <2>5, <2>6, <2>7 DEF ScriptsOlder
  <2> QED BY <1>2, <2>2, <2>4, <2>8
<1> QED BY <1>2, <1>3, <1>4

\* Between builds, what a plan leaves out is fresh.
LEMMA CleanIsFresh ==
  ASSUME RootScript, NoDevTests, ~IgnoreTools, IInv2, phase = "idle",
         NEW g \in Outputs, g \notin DOMAIN Plan
  PROVE  Fresh(g)
<1> DEFINE S == { f \in Outputs : f \notin DOMAIN Plan /\ ~Fresh(f) }
<1>1. /\ IInv1 /\ graph \in Topologies /\ ts \in [Files -> Nat]
      /\ Outputs \subseteq Files /\ Sources \subseteq Files
      /\ broken = {} /\ ScriptsOlder
      /\ \A f \in Outputs : LocallyFresh(f)
      /\ Root \in graph.scripted => graph.has_library
  BY IdleIsQuiet DEF IInv2, IInv1, TypeOK, Files, WrittenInv, FreshInv, RootScript
<1>2. SUFFICES ASSUME S # {} PROVE FALSE
  OBVIOUS
<1>3. PICK f \in S : \A d \in S : ~(Rank(d) < Rank(f))
  <2>1. S \subseteq Outputs OBVIOUS
  <2> HIDE DEF S
  <2> QED BY <1>1, <1>2, <2>1, FirstOutput
<1>4. f \in Outputs /\ f \notin DOMAIN Plan /\ ~Fresh(f) OBVIOUS
<1>5. ASSUME NEW r \in Outputs, r \notin DOMAIN Plan, Rank(r) < Rank(f) PROVE Fresh(r)
  BY <1>3, <1>5
<1> HIDE DEF S
<1>6. \A x \in Outputs : ts[x] \in Nat /\ Rank(x) \in Nat
  BY <1>1, RankFacts, GraphFacts
<1>7. \A x \in Outputs : \A d \in Looks(x) \cap Outputs :
        /\ Rank(d) < Rank(x)
        /\ x \notin DOMAIN Plan => d \notin DOMAIN Plan /\ ts[d] <= ts[x]
  BY <1>1, LooksLower, CleanIsNewer
<1>8. ASSUME NEW r \in Reads(f) \cap Outputs
      PROVE  r \notin DOMAIN Plan /\ ts[r] <= ts[f] /\ Rank(r) < Rank(f)
  <2>1. Through(f, r) BY <1>1, <1>4, ReadsThrough
  <2>2. CASE r \in Looks(f) BY <2>2, <1>4, <1>7
  <2>3. CASE \E l \in Looks(f) \cap Outputs : r \in Looks(l)
    <3> PICK l \in Looks(f) \cap Outputs : r \in Looks(l) BY <2>3
    <3>1. l \notin DOMAIN Plan /\ ts[l] <= ts[f] /\ Rank(l) < Rank(f) BY <1>4, <1>7
    <3>2. r \notin DOMAIN Plan /\ ts[r] <= ts[l] /\ Rank(r) < Rank(l) BY <3>1, <1>7
    <3> QED BY <3>1, <3>2, <1>4, <1>6
  <2>4. CASE \E l \in Looks(f) \cap Outputs : \E m \in Looks(l) \cap Outputs : r \in Looks(m)
    <3> PICK l \in Looks(f) \cap Outputs : \E m \in Looks(l) \cap Outputs : r \in Looks(m) BY <2>4
    <3> PICK m \in Looks(l) \cap Outputs : r \in Looks(m) OBVIOUS
    <3>1. l \notin DOMAIN Plan /\ ts[l] <= ts[f] /\ Rank(l) < Rank(f) BY <1>4, <1>7
    <3>2. m \notin DOMAIN Plan /\ ts[m] <= ts[l] /\ Rank(m) < Rank(l) BY <3>1, <1>7
    <3>3. r \notin DOMAIN Plan /\ ts[r] <= ts[m] /\ Rank(r) < Rank(m) BY <3>2, <1>7
    <3>4. ts[m] <= ts[f] /\ Rank(m) < Rank(f) BY <3>1, <3>2, <1>4, <1>6
    <3> QED BY <3>3, <3>4, <1>4, <1>6
  <2> QED BY <2>1, <2>2, <2>3, <2>4 DEF Through
<1>9. ASSUME NEW r \in Reads(f) \cap Sources PROVE ts[r] <= ts[f] /\ r \notin Outputs
  <2>1. f[1] # "run" /\ r \in {Source(f), Tool} BY <1>4, ReadsSources
  <2>2. ~Old(f) BY <1>1, <1>4, NotPlanned
  <2>3. ~(ts[f] < ts[r]) BY <2>1, <2>2 DEF Old, NeedsRebuild, Depfile
  <2>4. ts[f] \in Nat /\ ts[r] \in Nat BY <1>1, <1>4
  <2> QED BY <2>3, <2>4, SourcesApart
<1>10. \A r \in Reads(f) : ts[r] <= ts[f] /\ (r \in Outputs => Fresh(r))
  <2>1. Reads(f) \subseteq Files BY <1>1, <1>4, ReadsTyped
  <2> QED BY <2>1, <1>5, <1>8, <1>9 DEF Files
<1>11. Written(f) BY <1>1, <1>4, NotPlanned DEF Written
<1> QED BY <1>1, <1>4, <1>10, <1>11 DEF LocallyFresh

\* A step that writes none of the times, contents and broken outputs.
LEMMA NothingWritten ==
  ASSUME graph' = graph, ts' = ts, content' = content, broken' = broken,
         NEW f \in Outputs
  PROVE  (Fresh(f)' <=> Fresh(f)) /\ (LocallyFresh(f) => LocallyFresh(f)')
<1>1. \A r : Fresh(r)' <=> Fresh(r) BY DEF Fresh
<1>2. Written(f)' <=> Written(f) BY DEF Written
<1>3. Reads(f)' = Reads(f) /\ Outputs' = Outputs BY GraphFixed
<1> QED BY <1>1, <1>2, <1>3 DEF LocallyFresh

\* After an edit, what is older than all it reads reads nothing that knew the
\* source edited.
LEMMA EditKeepsLocal ==
  ASSUME TypeOK, TimeInv, ContentInv, Edit, NEW f \in Outputs, LocallyFresh(f)
  PROVE  LocallyFresh(f)'
<1>0. graph' = graph BY DEF Edit
<1>1. /\ Reads(f)' = Reads(f) /\ Outputs' = Outputs /\ Reads(f) \subseteq Files
      /\ ts \in [Files -> Nat] /\ clock \in Nat /\ content \in [Files -> SUBSET Versions]
      /\ Outputs \subseteq Files /\ Sources \subseteq Files
  BY <1>0, GraphFixed, ReadsTyped DEF TypeOK, Files
<1>2. PICK s \in Sources : Write({s}) /\ content' = [content EXCEPT ![s] = {<<s, Now>>}]
  BY DEF Edit
<1>3. /\ \A g \in Files : g # s => ts'[g] = ts[g] /\ content'[g] = content[g]
      /\ ts'[s] = clock + 1
  BY <1>1, <1>2, WriteFacts
<1>4. \A g \in Outputs : g # s /\ g \in Files BY SourcesApart, <1>1
<1>5. \A g \in Files : ts[g] \in Nat BY <1>1
\* What knows s is not fresh any more, and what does not is as fresh as before.
<1>6. ASSUME NEW g \in Outputs, Fresh(g)' PROVE s \notin Names(content[g]) /\ Fresh(g)
  <2>1. content'[g] = content[g] /\ ts'[g] = ts[g] /\ broken' = broken BY <1>3, <1>4 DEF Edit
  <2>2. \A v \in content[g] : v[2] <= clock /\ v[2] \in Nat /\ v[1] \in Files
    BY <1>1 DEF ContentInv, Versions
  <2>3. \A v \in content[g] : ts'[v[1]] = v[2] BY <1>6, <2>1 DEF Fresh
  <2>4. \A v \in content[g] : v[1] # s
    <3> TAKE v \in content[g]
    <3>1. v[1] = s => v[2] = clock + 1 BY <2>3, <1>3
    <3> QED BY <3>1, <2>2, <1>1
  <2>5. \A v \in content[g] : ts[v[1]] = v[2] BY <2>2, <2>3, <2>4, <1>3
  <2>6. s \notin Names(content[g]) BY <2>4, NamesMember
  <2> QED BY <1>6, <2>1, <2>5, <2>6 DEF Fresh
<1>7. SUFFICES ASSUME Written(f)',
                      \A r \in Reads(f) : ts'[r] <= ts'[f] /\ (r \in Outputs => Fresh(r)')
               PROVE  Fresh(f)'
  BY <1>1 DEF LocallyFresh
<1>8. Written(f) /\ ts'[f] = ts[f] /\ content'[f] = content[f] /\ broken' = broken
  BY <1>7, <1>3, <1>4 DEF Written, Edit
<1>9. s \notin Reads(f)
  <2>1. ts[f] <= clock /\ ts[f] \in Nat BY <1>1, <1>4 DEF TimeInv
  <2>2. ~(ts'[s] <= ts'[f]) BY <1>1, <1>3, <1>8, <2>1
  <2> QED BY <1>7, <2>2
<1>10. \A r \in Reads(f) : s \notin Names(content[r])
  <2> TAKE r \in Reads(f)
  <2>1. CASE r \in Outputs BY <2>1, <1>6, <1>7
  <2>2. CASE r \in Sources
    <3>1. content[r] = {<<r, ts[r]>>} BY <2>2 DEF ContentInv
    <3>2. Names(content[r]) = {r} BY <3>1, NamesOne
    <3> QED BY <3>2, <1>9
  <2> QED BY <2>1, <2>2, <1>1 DEF Files
<1>11. s \notin Names(content[f])
  <2>1. content[f] # {} BY <1>8 DEF ContentInv
  <2>2. MadeFrom(content, content[f], f) BY <2>1 DEF ContentInv
  <2>3. Names(content[f]) = UNION { Names(content[r]) : r \in Reads(f) } BY <2>2 DEF MadeFrom
  <2> HIDE DEF Names
  <2> QED BY <2>3, <1>10
<1>12. \A r \in Reads(f) : ts[r] <= ts[f] /\ (r \in Outputs => Fresh(r))
  <2> TAKE r \in Reads(f)
  <2>1. ts'[r] = ts[r] BY <1>1, <1>3, <1>9
  <2> QED BY <2>1, <1>6, <1>7, <1>8
<1>13. Fresh(f) BY <1>8, <1>12 DEF LocallyFresh
<1>14. \A v \in content[f] : v[1] # s /\ v[1] \in Files
  BY <1>1, <1>4, <1>11, NamesMember DEF Versions
<1>15. \A v \in content'[f] : ts'[v[1]] = v[2]
  BY <1>3, <1>8, <1>13, <1>14 DEF Fresh
<1> QED BY <1>8, <1>13, <1>15 DEF Fresh

LEMMA FreshStep ==
  ASSUME RootScript, NoDevTests, ~IgnoreTools, IInv2, [Next]_vars
  PROVE  FreshInv'
<1>0. graph' = graph BY StepKeepsGraph
<1>1. /\ IInv1 /\ TypeOK /\ PlanFollowed /\ WrittenInv /\ TimeInv /\ ContentInv /\ FreshInv
      /\ Outputs' = Outputs
  BY <1>0, GraphFixed DEF IInv2, IInv1
<1>2. /\ status \in [DOMAIN jobs -> {"waiting", "running", "done", "failed"}]
      /\ DOMAIN jobs \subseteq Outputs /\ orphans \subseteq Outputs /\ graph \in Topologies
      /\ Outputs \subseteq Files /\ ts \in [Files -> Nat] /\ clock \in Nat
  BY <1>1 DEF TypeOK, Files
<1>3. /\ \A f \in Outputs : LocallyFresh(f)
      /\ phase = "building" => \A f \in Outputs : Settled(f) => Fresh(f)
      /\ result = "ok" => \A f \in Outputs : Fresh(f)
      /\ phase = "building" => result # "ok"
  BY <1>1 DEF FreshInv, TimeInv
<1>4. CASE Edit
  <2>1. phase' = "idle" /\ result' = "none" BY <1>4 DEF Edit
  <2>2. \A f \in Outputs : LocallyFresh(f)' BY <1>1, <1>3, <1>4, EditKeepsLocal
  <2> QED BY <1>1, <2>1, <2>2 DEF FreshInv
<1>5. CASE StartBuild
  <2>1. /\ ts' = ts /\ content' = content /\ broken' = broken /\ result' = "none"
        /\ phase = "idle" /\ jobs' = Plan /\ \A f \in DOMAIN Plan : status'[f] = "waiting"
    BY <1>5 DEF StartBuild
  <2>2. \A f \in Outputs : LocallyFresh(f)' /\ (Fresh(f)' <=> Fresh(f))
    BY <1>0, <1>3, <2>1, NothingWritten
  <2>3. ASSUME NEW f \in Outputs, Settled(f)' PROVE Fresh(f)
    <3>1. f \notin DOMAIN Plan BY <2>1, <2>3 DEF Settled
    <3> QED BY <2>1, <3>1, CleanIsFresh
  <2> QED BY <1>1, <2>1, <2>2, <2>3 DEF FreshInv
<1>6. CASE EndBuild
  <2>1. ts' = ts /\ content' = content /\ broken' = broken /\ phase = "building" /\ phase' = "idle"
    BY <1>6 DEF EndBuild
  <2>2. \A f \in Outputs : LocallyFresh(f)' /\ (Fresh(f)' <=> Fresh(f))
    BY <1>0, <1>3, <2>1, NothingWritten
  <2>3. ASSUME result' = "ok" PROVE \A f \in Outputs : Fresh(f)
    <3>1. Running = {} /\ Failed = {} /\ Runnable = {} BY <1>6, <2>3 DEF EndBuild
    <3>2. \A f : Settled(f) BY <1>1, <3>1, AllDone
    <3> QED BY <2>1, <3>2, <1>3
  <2> QED BY <1>1, <2>1, <2>2, <2>3 DEF FreshInv
<1>7. CASE Abandon
  <2>1. ts' = ts /\ content' = content /\ broken' = broken /\ phase' = "idle" /\ result' = "failed"
    BY <1>7 DEF Abandon
  <2>2. \A f \in Outputs : LocallyFresh(f)'
    BY <1>0, <1>3, <2>1, NothingWritten
  <2> QED BY <1>1, <2>1, <2>2 DEF FreshInv
<1>8. ASSUME NEW j \in DOMAIN jobs, NEW new \in {"running", "done", "failed"},
             phase = "building", phase' = phase, result' = result, jobs' = jobs,
             status' = [status EXCEPT ![j] = new],
             OnlyWrites(j),
             \/ ts'[j] = clock + 1
             \/ ts'[j] = 0
             \/ ts'[j] = ts[j] /\ content'[j] = content[j] /\ (j \in broken' <=> j \in broken),
             LocallyFresh(j)', new = "done" => Fresh(j)'
      PROVE  FreshInv'
  <2>1. j \in Outputs BY <1>2
  <2>2. status'[j] = new /\ \A g \in DOMAIN jobs : g # j => status'[g] = status[g]
    BY <1>2, <1>8
  <2>3. \A f \in Outputs : LocallyFresh(f)'
    <3> TAKE f \in Outputs
    <3>1. CASE f = j BY <1>8, <3>1
    <3>2. CASE f # j BY <1>0, <1>1, <1>3, <1>8, <2>1, <3>2, OthersLocallyFresh
    <3> QED BY <3>1, <3>2
  <2>4. ASSUME NEW f \in Outputs, Settled(f)' PROVE Fresh(f)'
    <3>1. CASE f = j
      <4>1. new = "done" BY <1>8, <2>2, <2>4, <3>1 DEF Settled
      <4> QED BY <1>8, <3>1, <4>1
    <3>2. CASE f # j
      <4>1. Settled(f) BY <1>8, <2>2, <2>4, <3>2 DEF Settled
      <4>2. Fresh(f) BY <4>1, <1>3, <1>8
      <4> QED BY <4>2, <3>2, <1>1, <1>8, <2>1, FreshKept
    <3> QED BY <3>1, <3>2
  <2>5. result' # "ok" BY <1>3, <1>8
  <2> QED BY <1>1, <2>3, <2>4, <2>5 DEF FreshInv
<1>9. ASSUME NEW j \in DOMAIN jobs, StartJob(j) PROVE FreshInv'
  <2>1. /\ Write(IF j[1] = "run" THEN {j} ELSE {})
        /\ broken' = IF j[1] = "run" THEN broken \cup {j} ELSE broken
        /\ content' = content
    BY <1>9 DEF StartJob
  <2>2. /\ \A g \in Files : g # j => ts'[g] = ts[g]
        /\ j[1] # "run" => ts' = ts
        /\ j[1] = "run" => ts'[j] = clock + 1
    BY <1>2, <2>1, WriteFacts
  <2>3. OnlyWrites(j) BY <2>1, <2>2 DEF OnlyWrites
  <2>4. LocallyFresh(j)'
    <3>1. CASE j[1] = "run"
      <4>1. ~Written(j)' BY <2>1, <3>1 DEF Written
      <4> QED BY <4>1 DEF LocallyFresh
    <3>2. CASE j[1] # "run"
      <4>1. ts' = ts /\ broken' = broken BY <2>1, <2>2, <3>2
      <4> QED BY <4>1, <2>1, <1>0, <1>2, <1>3, NothingWritten
    <3> QED BY <3>1, <3>2
  <2>5. \/ ts'[j] = clock + 1
        \/ ts'[j] = ts[j] /\ content'[j] = content[j] /\ (j \in broken' <=> j \in broken)
    BY <2>1, <2>2
  <2> QED BY <1>8, <1>9, <2>3, <2>4, <2>5 DEF StartJob
<1>10. ASSUME NEW j \in DOMAIN jobs, JobSucceeds(j) PROVE FreshInv'
  <2>1. /\ Succeed(j) /\ snapshot' = snapshot /\ j \in Running /\ j \in Outputs
        /\ status' = [status EXCEPT ![j] = "done"]
        /\ phase = "building" /\ phase' = phase /\ result' = result /\ jobs' = jobs
        /\ orphans' = orphans
    BY <1>2, <1>10 DEF JobSucceeds, Running
  <2>2. Running' \cup orphans' \subseteq Running \cup orphans
    BY <1>2, <2>1 DEF Running
  <2>3. Fresh(j)' BY <1>0, <1>1, <2>1, <2>2, ContentWritten
  <2>4. LocallyFresh(j)' BY <2>3 DEF LocallyFresh
  <2>5. OnlyWrites(j) /\ ts'[j] = clock + 1 BY <1>0, <1>1, <2>1, SucceedEffect
  <2> QED BY <1>8, <2>1, <2>3, <2>4, <2>5
<1>11. ASSUME NEW j \in DOMAIN jobs, JobFails(j) PROVE FreshInv'
  <2>1. /\ ts' = [ts EXCEPT ![j] = 0] /\ broken' = broken \ {j} /\ content' = content
        /\ phase = "building" /\ phase' = phase /\ result' = result /\ jobs' = jobs
        /\ status' = [status EXCEPT ![j] = "failed"]
    BY <1>11 DEF JobFails
  <2>2. ts'[j] = 0 /\ OnlyWrites(j) BY <1>2, <2>1 DEF OnlyWrites
  <2>3. LocallyFresh(j)' BY <2>2 DEF LocallyFresh, Written
  <2> QED BY <1>8, <2>1, <2>2, <2>3
<1>12. ASSUME NEW j \in orphans, OrphanEnds(j) PROVE FreshInv'
  <2>1. /\ phase' = phase /\ result' = result /\ jobs' = jobs /\ status' = status
        /\ snapshot' = snapshot /\ orphans' \subseteq orphans /\ j \in Outputs
    BY <1>2, <1>12 DEF OrphanEnds
  <2>2. \A f : Settled(f)' <=> Settled(f) BY <2>1 DEF Settled
  <2>3. CASE Succeed(j)
    <3>1. Running' \cup orphans' \subseteq Running \cup orphans BY <2>1 DEF Running
    <3>2. Fresh(j)' BY <1>0, <1>1, <2>1, <2>3, <3>1, ContentWritten
    <3>3. LocallyFresh(j)' BY <3>2 DEF LocallyFresh
    <3>4. OnlyWrites(j) /\ ts'[j] = clock + 1 BY <1>0, <1>1, <2>1, <2>3, SucceedEffect
    <3>5. \A f \in Outputs : LocallyFresh(f)' /\ (Fresh(f) => Fresh(f)')
      <4> TAKE f \in Outputs
      <4>1. CASE f = j BY <3>2, <3>3, <4>1
      <4>2. CASE f # j
        <5>1. LocallyFresh(f)' BY <1>0, <1>1, <1>3, <2>1, <3>4, <4>2, OthersLocallyFresh
        <5>2. Fresh(f)' <=> Fresh(f) BY <1>1, <2>1, <3>4, <4>2, FreshKept
        <5> QED BY <5>1, <5>2
      <4> QED BY <4>1, <4>2
    <3> QED BY <1>1, <1>3, <2>1, <2>2, <3>5 DEF FreshInv
  <2>4. CASE UNCHANGED <<ts, content, broken, clock>>
    <3>1. \A f \in Outputs : LocallyFresh(f)' /\ (Fresh(f)' <=> Fresh(f))
      BY <1>0, <1>3, <2>4, NothingWritten
    <3> QED BY <1>1, <1>3, <2>1, <2>2, <3>1 DEF FreshInv
  <2> QED BY <1>12, <2>3, <2>4 DEF OrphanEnds
<1>13. CASE UNCHANGED vars
  <2>1. \A f : Settled(f)' <=> Settled(f) BY <1>13 DEF Settled, vars
  <2>2. \A f \in Outputs : LocallyFresh(f)' /\ (Fresh(f)' <=> Fresh(f))
    BY <1>0, <1>3, <1>13, NothingWritten DEF vars
  <2>3. phase' = phase /\ result' = result BY <1>13 DEF vars
  <2> QED BY <1>1, <1>3, <2>1, <2>2, <2>3 DEF FreshInv
<1> QED BY <1>4, <1>5, <1>6, <1>7, <1>9, <1>10, <1>11, <1>12, <1>13 DEF Next

\* A script that runs has a library that waits for it.
LEMMA RunningScript ==
  ASSUME RootScript, IInv1, NEW p, <<"run", p>> \in Outputs, <<"run", p>> \in DOMAIN jobs
  PROVE  /\ p \in Built \cap graph.scripted
         /\ <<"lib", p>> \in DOMAIN jobs
         /\ status[<<"run", p>>] # "done" => status[<<"lib", p>>] = "waiting"
<1>1. /\ graph \in Topologies
      /\ \A f \in DOMAIN jobs : jobs[f] = Looks(f) \cap DOMAIN jobs
      /\ \A f \in Outputs : Looks(f) \cap DOMAIN jobs # {} => f \in DOMAIN jobs
      /\ \A f \in DOMAIN jobs : status[f] # "waiting" =>
           \A d \in jobs[f] : status[d] = "done"
  BY DEF IInv1, TypeOK, PlanFollowed
<1>2. p \in (Built \cup {Root}) \cap graph.scripted BY OutputKinds
<1>3. p \in Built
  BY <1>1, <1>2, OrderFacts DEF RootScript
<1>4. <<"lib", p>> \in Outputs /\ <<"run", p>> \in Looks(<<"lib", p>>)
  BY <1>3, OutputKinds, LooksAre
<1>5. <<"lib", p>> \in DOMAIN jobs /\ <<"run", p>> \in jobs[<<"lib", p>>]
  BY <1>1, <1>4
<1> QED BY <1>1, <1>2, <1>3, <1>5

\* Builds that end outside scripts leave no script behind.
LEMMA CarefulLeavesNoScript ==
  ASSUME RootScript, IInv1, EndsOutsideScripts
  PROVE  LeavesNoScript
<1> SUFFICES ASSUME phase = "building", phase' = "idle", NEW j \in Running, j[1] = "run"
             PROVE  FALSE
  BY DEF LeavesNoScript
<1>1. j \in DOMAIN jobs /\ j \in Outputs /\ status[j] = "running"
  BY DEF Running, IInv1, TypeOK
<1>2. PICK p \in graph.scripted : j = <<"run", p>>
  BY <1>1, OutputKinds
<1>3. <<"lib", p>> \in DOMAIN jobs /\ status[<<"lib", p>>] = "waiting"
  BY <1>1, <1>2, RunningScript
<1>4. Halfway(p) BY <1>1, <1>2, <1>3 DEF Halfway
<1> QED BY <1>4 DEF EndsOutsideScripts

LEMMA ScriptsStep ==
  ASSUME RootScript, IInv2, [Next]_vars, EndsOutsideScripts
  PROVE  ScriptsOlder'
<1>0. graph' = graph BY StepKeepsGraph
<1>1. /\ IInv1 /\ TypeOK /\ PlanFollowed /\ TimeInv /\ ScriptsOlder
      /\ Outputs' = Outputs /\ Built' = Built
  BY <1>0, GraphFixed DEF IInv2, IInv1
<1>2. /\ status \in [DOMAIN jobs -> {"waiting", "running", "done", "failed"}]
      /\ DOMAIN jobs \subseteq Outputs /\ graph \in Topologies /\ orphans \subseteq Outputs
      /\ Outputs \subseteq Files /\ ts \in [Files -> Nat] /\ clock \in Nat
      /\ \A f \in Files : ts[f] <= clock
  BY <1>1 DEF TypeOK, TimeInv, Files
<1>3. \A j \in orphans : j[1] # "run" BY <1>1 DEF ScriptsOlder
<1>4. \A j \in orphans' : j[1] # "run"
  <2>1. CASE Abandon
    <3>1. orphans' = orphans \cup Running /\ phase = "building" /\ phase' = "idle"
      BY <2>1 DEF Abandon
    <3>2. LeavesNoScript BY <1>1, CarefulLeavesNoScript
    <3> QED BY <1>3, <3>1, <3>2 DEF LeavesNoScript
  <2>2. CASE ~Abandon
    <3>1. orphans' \subseteq orphans
      BY <2>2 DEF Next, vars, Edit, StartBuild, EndBuild, StartJob, JobSucceeds, JobFails, OrphanEnds
    <3> QED BY <1>3, <3>1
  <2> QED BY <2>1, <2>2
<1>5. SUFFICES ASSUME NEW p \in Built \cap graph.scripted
               PROVE  Halfway(p)' \/ ts'[<<"lib", p>>] = 0 \/ ts'[<<"run", p>>] <= ts'[<<"lib", p>>]
  BY <1>0, <1>1, <1>4 DEF ScriptsOlder
<1> DEFINE run == <<"run", p>>
           lib == <<"lib", p>>
           Aged(t) == t[lib] = 0 \/ t[run] <= t[lib]
<1>6. run \in Outputs /\ lib \in Outputs /\ run # lib /\ run[1] = "run" /\ lib[1] # "run"
  BY OutputKinds
<1>7. Halfway(p) \/ Aged(ts) BY <1>1 DEF ScriptsOlder
<1>8. Halfway(p) <=> /\ run \in DOMAIN jobs /\ lib \in DOMAIN jobs
                     /\ status[run] \in {"running", "done"} /\ status[lib] \in {"waiting", "running"}
  BY DEF Halfway
<1>9. Halfway(p)' <=> /\ run \in DOMAIN jobs' /\ lib \in DOMAIN jobs'
                      /\ status'[run] \in {"running", "done"}
                      /\ status'[lib] \in {"waiting", "running"}
  BY DEF Halfway
<1>10. SUFFICES Halfway(p)' \/ Aged(ts')
  OBVIOUS
<1>11. run \in DOMAIN jobs =>
         lib \in DOMAIN jobs /\ (status[run] # "done" => status[lib] = "waiting")
  BY <1>1, <1>6, RunningScript
<1> HIDE DEF run, lib
<1>12. ASSUME ts'[run] = ts[run], ts'[lib] = ts[lib], Aged(ts) PROVE Aged(ts')
  BY <1>12
<1>13. CASE Edit
  <2> PICK s \in Sources : Write({s}) BY <1>13 DEF Edit
  <2>1. s # run /\ s # lib BY <1>6, SourcesApart
  <2>2. ts'[run] = ts[run] /\ ts'[lib] = ts[lib] BY <1>2, <1>6, <2>1, WriteFacts
  <2>3. DOMAIN jobs = {} BY <1>1, <1>13, IdleIsQuiet DEF Edit
  <2> QED BY <1>7, <1>8, <1>12, <2>2, <2>3
<1>14. CASE StartBuild
  <2>1. DOMAIN jobs = {} /\ ts' = ts BY <1>1, <1>14, IdleIsQuiet DEF StartBuild
  <2> QED BY <1>7, <1>8, <2>1
<1>15. CASE EndBuild \/ Abandon
  <2>1. ts' = ts /\ phase = "building" /\ phase' = "idle" BY <1>15 DEF EndBuild, Abandon
  <2>2. ~Halfway(p) BY <2>1 DEF EndsOutsideScripts
  <2> QED BY <1>7, <2>1, <2>2
<1>16. ASSUME NEW j \in DOMAIN jobs, StartJob(j) PROVE Halfway(p)' \/ Aged(ts')
  <2>1. /\ Write(IF j[1] = "run" THEN {j} ELSE {}) /\ jobs' = jobs /\ status[j] = "waiting"
        /\ status' = [status EXCEPT ![j] = "running"]
    BY <1>16 DEF StartJob, Runnable
  <2>2. \A g \in Files : g # j \/ j[1] # "run" => ts'[g] = ts[g] BY <1>2, <2>1, WriteFacts
  <2>3. status'[j] = "running" /\ \A g \in DOMAIN jobs : g # j => status'[g] = status[g]
    BY <1>2, <2>1
  <2>4. CASE j = run
    BY <1>6, <1>9, <1>11, <2>1, <2>3, <2>4
  <2>5. CASE j # run
    <3>1. ts'[run] = ts[run] /\ ts'[lib] = ts[lib] BY <1>2, <1>6, <2>2, <2>5
    <3>2. Halfway(p) => Halfway(p)' BY <1>8, <1>9, <2>1, <2>3, <2>5
    <3> QED BY <1>7, <1>12, <3>1, <3>2
  <2> QED BY <2>4, <2>5
<1>17. ASSUME NEW j \in DOMAIN jobs, JobSucceeds(j) PROVE Halfway(p)' \/ Aged(ts')
  <2>1. /\ Write({j}) /\ jobs' = jobs /\ status[j] = "running"
        /\ status' = [status EXCEPT ![j] = "done"]
    BY <1>17 DEF JobSucceeds, Succeed
  <2>2. (\A g \in Files : g # j => ts'[g] = ts[g]) /\ ts'[j] = clock + 1
    BY <1>2, <2>1, WriteFacts
  <2>3. status'[j] = "done" /\ \A g \in DOMAIN jobs : g # j => status'[g] = status[g]
    BY <1>2, <2>1
  <2>4. CASE j = lib
    <3>1. ts'[lib] = clock + 1 /\ ts'[run] = ts[run] /\ ts[run] <= clock /\ ts[run] \in Nat
      BY <1>2, <1>6, <2>2, <2>4
    <3> QED BY <3>1, <1>2
  <2>5. CASE j = run
    BY <1>6, <1>9, <1>11, <2>1, <2>3, <2>5
  <2>6. CASE j # lib /\ j # run
    <3>1. ts'[run] = ts[run] /\ ts'[lib] = ts[lib] BY <1>2, <1>6, <2>2, <2>6
    <3>2. Halfway(p) => Halfway(p)' BY <1>8, <1>9, <2>1, <2>3, <2>6
    <3> QED BY <1>7, <1>12, <3>1, <3>2
  <2> QED BY <2>4, <2>5, <2>6
<1>18. ASSUME NEW j \in DOMAIN jobs, JobFails(j) PROVE Halfway(p)' \/ Aged(ts')
  <2>1. /\ ts' = [ts EXCEPT ![j] = 0] /\ jobs' = jobs
        /\ status' = [status EXCEPT ![j] = "failed"]
    BY <1>18 DEF JobFails
  <2>2. (\A g \in Files : g # j => ts'[g] = ts[g]) /\ ts'[j] = 0
    BY <1>2, <2>1
  <2>3. \A g \in DOMAIN jobs : g # j => status'[g] = status[g]
    BY <1>2, <2>1
  <2>4. CASE j = lib
    BY <2>2, <2>4
  <2>5. CASE j = run
    <3>1. ts'[run] = 0 /\ ts'[lib] = ts[lib] /\ ts[lib] \in Nat BY <1>2, <1>6, <2>2, <2>5
    <3> QED BY <3>1
  <2>6. CASE j # lib /\ j # run
    <3>1. ts'[run] = ts[run] /\ ts'[lib] = ts[lib] BY <1>2, <1>6, <2>2, <2>6
    <3>2. Halfway(p) => Halfway(p)' BY <1>8, <1>9, <2>1, <2>3, <2>6
    <3> QED BY <1>7, <1>12, <3>1, <3>2
  <2> QED BY <2>4, <2>5, <2>6
<1>19. ASSUME NEW j \in orphans, OrphanEnds(j) PROVE Halfway(p)' \/ Aged(ts')
  <2>1. jobs' = jobs /\ status' = status /\ j # run BY <1>3, <1>6, <1>19 DEF OrphanEnds
  <2>2. Halfway(p)' <=> Halfway(p) BY <1>8, <1>9, <2>1
  <2>3. CASE Succeed(j)
    <3>1. Write({j}) BY <2>3 DEF Succeed
    <3>2. (\A g \in Files : g # j => ts'[g] = ts[g]) /\ ts'[j] = clock + 1
      BY <1>2, <3>1, WriteFacts
    <3>3. ts'[run] = ts[run] /\ ts[run] <= clock /\ ts[run] \in Nat
      BY <1>2, <1>6, <2>1, <3>2
    <3>4. CASE j = lib
      BY <1>2, <3>2, <3>3, <3>4
    <3>5. CASE j # lib
      <4>1. ts'[lib] = ts[lib] BY <1>2, <1>6, <3>2, <3>5
      <4> QED BY <1>7, <1>12, <2>2, <3>3, <4>1
    <3> QED BY <3>4, <3>5
  <2>4. CASE UNCHANGED <<ts, content, broken, clock>>
    BY <1>7, <2>2, <2>4
  <2> QED BY <1>19, <2>3, <2>4 DEF OrphanEnds
<1>20. CASE UNCHANGED vars
  <2>1. ts' = ts /\ jobs' = jobs /\ status' = status BY <1>20 DEF vars
  <2> QED BY <1>7, <1>8, <1>9, <2>1
<1> QED BY <1>13, <1>14, <1>15, <1>16, <1>17, <1>18, <1>19, <1>20 DEF Next

LEMMA InitIInv2 == Init => IInv2
<1> SUFFICES ASSUME Init PROVE IInv2
  OBVIOUS
<1>1. IInv1 BY InitIInv1
<1>2. /\ \A f \in Outputs : ts[f] = 0 /\ content[f] = {} /\ f \in Files
      /\ \A s \in Sources : ts[s] = 1 /\ content[s] = {<<s, 1>>} /\ s \in Files
      /\ clock = 1 /\ orphans = {} /\ phase = "idle" /\ result = "none" /\ broken = {}
  BY SourcesApart DEF Init, Files
<1>3. DOMAIN jobs = {} BY DEF Init
<1>4. Running = {} /\ Failed = {} BY <1>3 DEF Running, Failed
<1>5. WrittenInv BY <1>2 DEF WrittenInv
<1>6. TimeInv
  <2>1. \A f \in Files : ts[f] <= clock BY <1>2 DEF Files
  <2> QED BY <1>2, <1>4, <2>1 DEF TimeInv
<1>7. \A f \in Outputs : ~Written(f) BY <1>2 DEF Written
<1>8. ContentInv
  <2>1. \A f \in Files : \A v \in content[f] : v[2] <= clock BY <1>2 DEF Files
  <2>2. \A s \in Sources : content[s] = {<<s, ts[s]>>} BY <1>2
  <2> QED BY <1>2, <1>4, <1>7, <2>1, <2>2 DEF ContentInv
<1>9. FreshInv BY <1>2, <1>7 DEF FreshInv, LocallyFresh
<1>10. ScriptsOlder
  <2>1. \A p \in Built : ts[<<"lib", p>>] = 0 BY <1>2, OutputKinds
  <2> QED BY <2>1, <1>2 DEF ScriptsOlder
<1> QED BY <1>1, <1>5, <1>6, <1>8, <1>9, <1>10 DEF IInv2

LEMMA IInv2Correct ==
  ASSUME RootScript, NoDevTests, ~IgnoreTools
  PROVE  CarefulSpec => []IInv2
<1>1. IInv2 /\ [Next /\ EndsOutsideScripts]_vars => IInv2'
  <2> SUFFICES ASSUME IInv2, [Next /\ EndsOutsideScripts]_vars PROVE IInv2'
    OBVIOUS
  <2>1. [Next]_vars /\ EndsOutsideScripts
    <3>1. UNCHANGED vars => EndsOutsideScripts BY DEF vars, EndsOutsideScripts
    <3> QED BY <3>1
  <2>2. IInv1' BY <2>1, TypeStep, PlanStep DEF IInv2, IInv1
  <2>3. LeavesNoScript BY <2>1, CarefulLeavesNoScript DEF IInv2
  <2>4. WrittenInv' BY <2>1, <2>3, WrittenStep DEF IInv2
  <2>5. TimeInv' BY <2>1, TimeStep DEF IInv2
  <2>6. ContentInv' BY <2>1, ContentStep
  <2>7. FreshInv' BY <2>1, FreshStep
  <2>8. ScriptsOlder' BY <2>1, ScriptsStep
  <2> QED BY <2>2, <2>4, <2>5, <2>6, <2>7, <2>8 DEF IInv2
<1>2. Init => IInv2 BY InitIInv2
<1> QED BY <1>1, <1>2, PTL DEF CarefulSpec

\* Comparing timestamps misses no change: after a build that reports success
\* every output was made from the present contents of all it depends on,
\* whatever was edited, rebuilt, left clean, failed or was left behind before,
\* as long as no build ends between the start of a script and the end of the
\* library it is for: the next build takes that library for clean (the run
\* incr_stale), or the log of that script for complete.  Left out are also
\* scripts of a root without a library, tests with dev-dependencies, which are
\* not looked at, and MINICARGO_IGNTOOLS.
THEOREM SuccessIsFresh ==
  ASSUME RootScript, NoDevTests, ~IgnoreTools
  PROVE  CarefulSpec => []SuccessMeansFresh
<1>1. IInv2 => SuccessMeansFresh
  BY DEF IInv2, FreshInv, SuccessMeansFresh
<1> QED BY <1>1, IInv2Correct, PTL

\* Between builds, when no compiler runs on, the next plan has every output that
\* does not reflect the present sources and compiler, however the builds before
\* ended, if it was not between a script and its library.
THEOREM StaleIsNoticed ==
  ASSUME RootScript, NoDevTests, ~IgnoreTools
  PROVE  CarefulSpec => []StaleNoticed
<1>1. ASSUME IInv2 PROVE StaleNoticed
  BY <1>1, CleanIsFresh DEF StaleNoticed
<1>2. IInv2 => StaleNoticed BY <1>1
<1> QED BY <1>2, IInv2Correct, PTL
=============================================================================
