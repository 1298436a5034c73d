-------------------------- MODULE BuildOrderProofs --------------------------
(***************************************************************************)
(* Proofs about BuildOrder, for every graph: the levels of the walk, the   *)
(* places that the sort gives to entries, and that every dependency is     *)
(* considered before its users, once.                                      *)
(***************************************************************************)
EXTENDS BuildOrder, FiniteSetTheorems, FunctionTheorems, TLAPS

\* The part of the type invariant the walk depends on.
WalkType ==
  /\ graph \in DependencyGraph
  /\ pending \subseteq Entry
  /\ list \subseteq Entry

\* The flag of the root is a boolean.
LEMMA HostFlag == RootNative \in BOOLEAN
  BY DEF RootNative

\* The calls made for a package are well-formed.
LEMMA CallsType ==
  ASSUME graph \in DependencyGraph, NEW p \in Pkgs, NEW level \in Nat,
         NEW native \in BOOLEAN
  PROVE  Calls(p, level, native) \subseteq Entry
<1>1. graph.main[p] \subseteq Pkgs /\ graph.build[p] \subseteq Pkgs
  BY DEF DependencyGraph
<1>2. level + 1 \in Nat
  OBVIOUS
<1>3. ASSUME NEW d \in Pkgs, NEW n \in BOOLEAN
      PROVE  [package |-> d, native |-> n, level |-> level + 1] \in Entry
  BY <1>2 DEF Entry
<1>4. { [package |-> d, native |-> native, level |-> level + 1] : d \in graph.main[p] }
        \subseteq Entry
  BY <1>1, <1>3
<1>5. { [package |-> d, native |-> TRUE, level |-> level + 1] :
          d \in IF p \in Scripted /\ ~Overrides THEN graph.build[p] ELSE {} }
        \subseteq Entry
  BY <1>1, <1>3
<1> QED
  BY <1>4, <1>5 DEF Calls

\* The walk starts with the calls made for the root.
LEMMA WalkTypeInit == Init => WalkType
<1> SUFFICES ASSUME Init PROVE WalkType
  OBVIOUS
<1>1. graph \in DependencyGraph /\ Root \in Pkgs
  BY ConstantsAssumption DEF Init
<1>2. Calls(Root, 0, RootNative) \subseteq Entry
  BY <1>1, HostFlag, CallsType
<1> QED
  BY <1>1, <1>2 DEF Init, WalkType

\* The entry that a call lists: proc macros are always native.
Forced(c) == [c EXCEPT !.native = @ \/ c.package \in ProcMacros]

\* A proc macro is listed as a native entry of the same package and level.
LEMMA ForcedType ==
  ASSUME NEW c \in Entry
  PROVE  /\ Forced(c) \in Entry
         /\ Forced(c).package = c.package
         /\ Forced(c).level = c.level
  BY DEF Forced, Entry

\* AddPackage in terms of Forced.
LEMMA AddPackageEffect ==
  ASSUME AddPackage
  PROVE  \E c \in pending :
           /\ graph' = graph
           /\ \/ /\ Listed(Forced(c))
                 /\ list' = list
                 /\ pending' = pending \ {c}
              \/ /\ list' = list \cup {Forced(c)}
                 /\ pending' = (pending \ {c}) \cup
                      Calls(Forced(c).package, Forced(c).level, Forced(c).native)
  BY DEF AddPackage, Forced

\* Every call of add_package lists a well-formed entry.
LEMMA WalkTypeStep == WalkType /\ [Next]_vars => WalkType'
<1> SUFFICES ASSUME WalkType, [Next]_vars PROVE WalkType'
  OBVIOUS
<1>1. CASE AddPackage
  <2>1. PICK c \in pending :
          /\ graph' = graph
          /\ \/ list' = list /\ pending' = pending \ {c}
             \/ /\ list' = list \cup {Forced(c)}
                /\ pending' = (pending \ {c}) \cup
                     Calls(Forced(c).package, Forced(c).level, Forced(c).native)
    BY <1>1, AddPackageEffect
  <2>2. c \in Entry /\ Forced(c) \in Entry
    BY ForcedType DEF WalkType
  <2>3. Calls(Forced(c).package, Forced(c).level, Forced(c).native) \subseteq Entry
    BY <2>2, CallsType DEF WalkType, Entry
  <2> QED
    BY <2>1, <2>2, <2>3 DEF WalkType
<1>2. CASE AddRoot
  <2>1. Root \in Pkgs /\ graph.dev[Root] \subseteq Pkgs
    BY ConstantsAssumption DEF WalkType, DependencyGraph
  <2>2. [package |-> Root, native |-> RootNative, level |-> 0] \in Entry
    BY <2>1, HostFlag DEF Entry
  <2>3. ASSUME NEW d \in Pkgs
        PROVE  [package |-> d, native |-> RootNative, level |-> 1] \in Entry
    BY HostFlag DEF Entry
  <2>4. { [package |-> d, native |-> RootNative, level |-> 1] :
            d \in IF TestMode THEN graph.dev[Root] ELSE {} } \subseteq Entry
    BY <2>1, <2>3
  <2> QED
    BY <1>2, <2>2, <2>4 DEF AddRoot, WalkType
<1>3. CASE SortList
  BY <1>3 DEF SortList, WalkType
<1>4. CASE UNCHANGED vars
  BY <1>4 DEF vars, WalkType
<1> QED
  BY <1>1, <1>2, <1>3, <1>4 DEF Next

\* What was made good stays made good: entries are never removed, and a call
\* leaves `pending` only when an entry at its level or deeper is listed.
LEMMA DoneStable ==
  ASSUME WalkType, [Next]_vars, NEW d \in Entry, Done(d)
  PROVE  Done(d)'
<1>1. ASSUME list \subseteq list', d \in pending => d \in pending'
      PROVE  Done(d)'
  BY <1>1 DEF Done, Listed, Identity
<1>2. CASE AddPackage
  <2>1. PICK c \in pending :
          \/ Listed(Forced(c)) /\ list' = list /\ pending' = pending \ {c}
          \/ /\ list' = list \cup {Forced(c)}
             /\ pending' = (pending \ {c}) \cup
                  Calls(Forced(c).package, Forced(c).level, Forced(c).native)
    BY <1>2, AddPackageEffect
  <2>2. CASE d # c
    BY <1>1, <2>1, <2>2
  <2>3. CASE d = c
    <3>1. Forced(d) \in Entry
      BY ForcedType
    <3>2. \E e \in list' : Identity(e) = Identity(Forced(d)) /\ e.level >= Forced(d).level
      <4>1. CASE Listed(Forced(c)) /\ list' = list
        BY <2>3, <4>1 DEF Listed
      <4>2. CASE list' = list \cup {Forced(c)}
        <5>1. Forced(d) \in list' /\ Forced(d).level >= Forced(d).level
          BY <2>3, <3>1, <4>2 DEF Entry
        <5> QED
          BY <5>1
      <4> QED
        BY <2>1, <4>1, <4>2
    <3> QED
      BY <3>2 DEF Done, Listed, Forced
  <2> QED
    BY <2>2, <2>3
<1>3. CASE AddRoot
  <2>1. list \subseteq list' /\ pending = {}
    BY <1>3 DEF AddRoot
  <2> QED
    BY <1>1, <2>1
<1>4. CASE SortList
  BY <1>1, <1>4 DEF SortList
<1>5. CASE UNCHANGED vars
  BY <1>1, <1>5 DEF vars
<1> QED
  BY <1>2, <1>3, <1>4, <1>5 DEF Next

\* Listing an entry makes the calls for its dependencies one level deeper.
LEMMA LevelsStep == WalkType /\ LevelsIncrease /\ [Next]_vars => LevelsIncrease'
<1> SUFFICES ASSUME WalkType, LevelsIncrease, [Next]_vars PROVE LevelsIncrease'
  OBVIOUS
<1>1. graph' = graph
  BY DEF Next, AddPackage, AddRoot, SortList, vars
<1>2. \A p, l, n : Calls(p, l, n)' = Calls(p, l, n)
  BY <1>1 DEF Calls
<1>3. Root \in Pkgs /\ RootNative \in BOOLEAN
  BY HostFlag, ConstantsAssumption
<1>4. \A c \in Calls(Root, 0, RootNative)' : Done(c)'
  <2>1. Calls(Root, 0, RootNative) \subseteq Entry
    BY <1>3, CallsType DEF WalkType
  <2> QED
    BY <1>2, <2>1, DoneStable DEF LevelsIncrease
<1>5. ASSUME NEW e \in list, NEW c \in Calls(e.package, e.level, e.native)'
      PROVE  Done(c)'
  <2>1. e.package \in Pkgs /\ e.level \in Nat /\ e.native \in BOOLEAN
    BY DEF WalkType, Entry
  <2>2. c \in Calls(e.package, e.level, e.native)
    BY <1>2
  <2>3. c \in Entry
    BY <2>1, <2>2, CallsType DEF WalkType
  <2> QED
    BY <2>2, <2>3, DoneStable DEF LevelsIncrease
<1>6. ASSUME NEW e \in list', e \notin list, NEW c \in Calls(e.package, e.level, e.native)'
      PROVE  Done(c)'
  <2>1. CASE AddPackage
    <3>1. PICK d \in pending :
            \/ list' = list
            \/ /\ list' = list \cup {Forced(d)}
               /\ pending' = (pending \ {d}) \cup
                    Calls(Forced(d).package, Forced(d).level, Forced(d).native)
      BY <2>1, AddPackageEffect
    <3>2. e = Forced(d)
      BY <1>6, <3>1
    <3>3. c \in pending'
      BY <1>2, <1>6, <3>1, <3>2
    <3> QED
      BY <3>3 DEF Done
  <2>2. CASE AddRoot
    <3>1. e = [package |-> Root, native |-> RootNative, level |-> 0]
      BY <1>6, <2>2 DEF AddRoot
    <3>2. e.package = Root /\ e.level = 0 /\ e.native = RootNative
      BY <3>1
    <3> QED
      BY <1>4, <1>6, <3>2
  <2>3. CASE SortList \/ UNCHANGED vars
    BY <1>6, <2>3 DEF SortList, vars
  <2> QED
    BY <2>1, <2>2, <2>3 DEF Next
<1> QED
  BY <1>4, <1>5, <1>6 DEF LevelsIncrease

\* The levels of every dependency graph are consistent: a package is listed
\* deeper than everything that needs it, or is about to be.
THEOREM WalkCorrect == Spec => []LevelsIncrease
<1>1. Init => LevelsIncrease
  BY DEF Init, LevelsIncrease, Done
<1> QED
  BY <1>1, WalkTypeInit, WalkTypeStep, LevelsStep, PTL DEF Spec

\* When the list is sorted, nothing is pending any more.
WalkOver == stage = "sorted" => pending = {}

\* Once sorted, every dependency of every listed instance is listed strictly
\* deeper, so it comes first: handle_dep finds each dependency it looks up.
DependenciesDeeper ==
  stage = "sorted" =>
    \A e \in list : \A c \in Calls(e.package, e.level, e.native) :
      \E f \in list : Identity(f) = Identity(Forced(c)) /\ f.level > e.level

\* When the list is sorted, each dependency of a listed entry is listed deeper,
\* so that the sort by level builds it first.
THEOREM SortedDeepestFirst == Spec => []DependenciesDeeper
<1>1. Init => WalkOver
  BY DEF Init, WalkOver
<1>2. WalkOver /\ [Next]_vars => WalkOver'
  BY DEF WalkOver, Next, AddPackage, AddRoot, SortList, vars
<1>3. WalkType /\ WalkOver /\ LevelsIncrease => DependenciesDeeper
  <2> SUFFICES ASSUME WalkType, WalkOver, LevelsIncrease, stage = "sorted",
                      NEW e \in list, NEW c \in Calls(e.package, e.level, e.native)
               PROVE  \E f \in list : /\ Identity(f) = Identity(Forced(c))
                                      /\ f.level > e.level
    BY DEF DependenciesDeeper
  <2>1. e.package \in Pkgs /\ e.level \in Nat /\ e.native \in BOOLEAN
    BY DEF WalkType, Entry
  <2>2. c \in Entry /\ c.level = e.level + 1
    BY <2>1, CallsType DEF WalkType, Calls
  <2>3. Listed(Forced(c))
    BY DEF LevelsIncrease, Done, Listed, WalkOver, Forced
  <2>4. PICK f \in list : Identity(f) = Identity(Forced(c)) /\ f.level >= Forced(c).level
    BY <2>3 DEF Listed
  <2>5. f.level > e.level
    BY <2>1, <2>2, <2>4, ForcedType DEF WalkType, Entry
  <2> QED
    BY <2>4, <2>5
<1> QED
  BY <1>1, <1>2, <1>3, WalkTypeInit, WalkTypeStep, WalkCorrect, PTL DEF Spec

-----------------------------------------------------------------------------
(* The sort: the place an entry is given is its own, and later than that   *)
(* of the entries before it.                                               *)

\* Of finite sets, one has none of the others below it.
LEMMA MinimalSet ==
  ASSUME NEW D, D # {}, \A d \in D : IsFiniteSet(d)
  PROVE  \E d \in D : \A e \in D : e \subseteq d => e = d
<1> DEFINE S == UNION D
<1> DEFINE R == StrictSubsetOrdering(S)
<1>0. D \subseteq SUBSET S
  OBVIOUS
<1> HIDE DEF S
<1>1. IsWellFoundedOn(R, FiniteSubsetsOf(S))
  BY FS_StrictSubsetOrderingWellFounded
<1>2. D \subseteq FiniteSubsetsOf(S)
  BY <1>0 DEF FiniteSubsetsOf
<1>3. \A d, e \in D : e \subseteq d /\ e # d => <<e, d>> \in R
  BY <1>0 DEF StrictSubsetOrdering
<1> HIDE DEF R
<1>4. \E d \in D : \A e \in D : ~ (<<e, d>> \in R)
  BY <1>1, <1>2, WFMin
<1> QED BY <1>3, <1>4

\* Entries are what their fields are.
LEMMA EntryFields ==
  /\ \A e \in Entry : /\ e.package \in Pkgs /\ e.native \in BOOLEAN /\ e.level \in Nat
                      /\ Rank[e.package] \in Nat
  /\ \A e, f \in Entry :
       /\ Identity(e) = Identity(f) <=> e.package = f.package /\ e.native = f.native
       /\ e.package = f.package /\ e.native = f.native /\ e.level = f.level => e = f
       /\ Rank[e.package] = Rank[f.package] => e.package = f.package
<1>1. \A e \in Entry : /\ e.package \in Pkgs /\ e.native \in BOOLEAN /\ e.level \in Nat
                       /\ e = [package |-> e.package, native |-> e.native, level |-> e.level]
  BY DEF Entry
<1>2. \A e, f \in Entry :
        e.package = f.package /\ e.native = f.native /\ e.level = f.level => e = f
  BY <1>1
<1>3. \A e, f : Identity(e) = Identity(f) <=> e.package = f.package /\ e.native = f.native
  BY DEF Identity
<1> QED BY <1>1, <1>2, <1>3, ConstantsAssumption

\* S holds one entry of an instance.
OneOfEach(S) == \A e, f \in S : Identity(e) = Identity(f) => e = f

\* The sort puts each two entries in one order, and the orders agree.
LEMMA PrecedesOrders ==
  ASSUME NEW S \in SUBSET Entry, OneOfEach(S), NEW first \in BOOLEAN
  PROVE  /\ \A e \in S : ~Precedes(e, e, first)
         /\ \A e, f \in S : e # f => Precedes(e, f, first) \/ Precedes(f, e, first)
         /\ \A e, f, g \in S :
              Precedes(e, f, first) /\ Precedes(f, g, first) => Precedes(e, g, first)
<1>1. \A e \in S : /\ e.package \in Pkgs /\ e.native \in BOOLEAN /\ e.level \in Nat
                   /\ Rank[e.package] \in Nat
  BY EntryFields
<1>2. \A e, f \in S : ~Before(e, f) /\ ~Before(f, e) <=>
                        e.level = f.level /\ Rank[e.package] = Rank[f.package]
  BY <1>1 DEF Before
<1>3. \A e, f, g \in S : Before(e, f) /\ Before(f, g) => Before(e, g)
  BY <1>1 DEF Before
<1>4. \A e \in S : ~Precedes(e, e, first)
  BY <1>1 DEF Precedes, Before
<1>5. ASSUME NEW e \in S, NEW f \in S, e # f
      PROVE  Precedes(e, f, first) \/ Precedes(f, e, first)
  <2>1. CASE Before(e, f) \/ Before(f, e)
    BY <2>1 DEF Precedes
  <2>2. CASE ~Before(e, f) /\ ~Before(f, e)
    <3>1. e.package = f.package BY <1>2, <2>2, EntryFields
    <3>2. e.native # f.native BY <1>5, <3>1, EntryFields DEF OneOfEach
    <3>3. e.native = first \/ f.native = first BY <1>1, <3>2
    <3> QED BY <2>2, <3>2, <3>3 DEF Precedes
  <2> QED BY <2>1, <2>2
<1>6. ASSUME NEW e \in S, NEW f \in S, NEW g \in S,
             Precedes(e, f, first), Precedes(f, g, first)
      PROVE  Precedes(e, g, first)
  <2>1. \A a, b \in S : ~Before(a, b) \/ ~Before(b, a)
    BY <1>1 DEF Before
  <2>2. CASE Before(e, f) /\ Before(f, g)
    BY <1>3, <2>2 DEF Precedes
  <2>3. CASE Before(e, f) /\ ~Before(f, g)
    <3>1. f.level = g.level /\ Rank[f.package] = Rank[g.package]
      BY <1>2, <1>6, <2>3 DEF Precedes
    <3>2. Before(e, g) BY <1>1, <2>3, <3>1 DEF Before
    <3> QED BY <3>2 DEF Precedes
  <2>4. CASE ~Before(e, f) /\ Before(f, g)
    <3>1. f.level = e.level /\ Rank[f.package] = Rank[e.package]
      BY <1>2, <1>6, <2>4 DEF Precedes
    <3>2. Before(e, g) BY <1>1, <2>4, <3>1 DEF Before
    <3> QED BY <3>2 DEF Precedes
  <2>5. CASE ~Before(e, f) /\ ~Before(f, g)
    BY <1>6, <2>5 DEF Precedes
  <2> QED BY <2>2, <2>3, <2>4, <2>5
<1> QED BY <1>4, <1>5, <1>6

\* The place that sort_list gives e among S.
Place(S, e, first) == 1 + Cardinality({ f \in S : Precedes(f, e, first) })

\* Places are the numbers from one on, one for each entry, in order.
LEMMA PlacesAreOrder ==
  ASSUME NEW S \in SUBSET Entry, IsFiniteSet(S), OneOfEach(S), NEW first \in BOOLEAN
  PROVE  /\ \A e \in S : Place(S, e, first) \in 1..Cardinality(S)
         /\ \A e, f \in S : Precedes(e, f, first) => Place(S, e, first) < Place(S, f, first)
         /\ \A e, f \in S : Place(S, e, first) = Place(S, f, first) => e = f
         /\ \A i \in 1..Cardinality(S) : \E e \in S : Place(S, e, first) = i
<1> DEFINE P(e) == { f \in S : Precedes(f, e, first) }
           n == Cardinality(S)
<1>1. \A e \in S : P(e) \in SUBSET S /\ e \notin P(e)
  BY PrecedesOrders
<1>2. \A e, f \in S : Precedes(e, f, first) => P(e) \subseteq P(f) /\ e \in P(f)
  BY PrecedesOrders
<1>3. \A e, f \in S : e # f => Precedes(e, f, first) \/ Precedes(f, e, first)
  BY PrecedesOrders
<1>4. \A e : Place(S, e, first) = 1 + Cardinality(P(e))
  BY DEF Place
<1> HIDE DEF P
<1>5. n \in Nat BY FS_CardinalityType
<1>6. \A e \in S : IsFiniteSet(P(e)) /\ Cardinality(P(e)) \in Nat /\ Cardinality(P(e)) < n
  <2> TAKE e \in S
  <2>1. IsFiniteSet(P(e)) /\ Cardinality(P(e)) <= n /\ (n = Cardinality(P(e)) => S = P(e))
    BY <1>1, FS_Subset
  <2>2. Cardinality(P(e)) \in Nat BY <2>1, FS_CardinalityType
  <2>3. S # P(e) BY <1>1
  <2> QED BY <2>1, <2>2, <2>3, <1>5
<1>7. \A e \in S : Place(S, e, first) \in 1..n
  BY <1>4, <1>5, <1>6
<1>8. \A e, f \in S : Precedes(e, f, first) => Place(S, e, first) < Place(S, f, first)
  <2> SUFFICES ASSUME NEW e \in S, NEW f \in S, Precedes(e, f, first)
               PROVE  Place(S, e, first) < Place(S, f, first)
    OBVIOUS
  <2>1. P(e) \in SUBSET P(f) /\ P(e) # P(f)
    BY <1>1, <1>2
  <2>2. Cardinality(P(e)) <= Cardinality(P(f)) /\ Cardinality(P(e)) # Cardinality(P(f))
    BY <2>1, <1>6, FS_Subset
  <2> QED BY <2>2, <1>4, <1>6
<1>9. \A e, f \in S : Place(S, e, first) = Place(S, f, first) => e = f
  <2> SUFFICES ASSUME NEW e \in S, NEW f \in S, e # f
               PROVE  Place(S, e, first) # Place(S, f, first)
    OBVIOUS
  <2>1. Place(S, e, first) \in Nat /\ Place(S, f, first) \in Nat
    BY <1>4, <1>6
  <2>2. Place(S, e, first) < Place(S, f, first) \/ Place(S, f, first) < Place(S, e, first)
    BY <1>3, <1>8
  <2> QED BY <2>1, <2>2
<1>10. \A i \in 1..n : \E e \in S : Place(S, e, first) = i
  <2> DEFINE p == [e \in S |-> Place(S, e, first)]
  <2>1. p \in Injection(S, 1..n)
    BY <1>7, <1>9 DEF Injection, IsInjective
  <2>2. IsFiniteSet(1..n) /\ Cardinality(1..n) = n
    <3>1. 1 \in Int /\ n \in Int BY <1>5
    <3>2. IsFiniteSet(1..n) /\ Cardinality(1..n) = IF 1 > n THEN 0 ELSE n - 1 + 1
      BY <3>1, FS_Interval
    <3> QED BY <3>2, <1>5
  <2> HIDE DEF p
  <2>3. p \in Surjection(S, 1..n)
    BY <2>1, <2>2, FS_Injection
  <2>4. \A i \in 1..n : \E e \in S : p[e] = i
    BY <2>3 DEF Surjection
  <2> QED BY <2>4 DEF p
<1> QED BY <1>7, <1>8, <1>9, <1>10

-----------------------------------------------------------------------------
(* What the sort leaves in m_list.                                         *)

\* Of the entries of an instance one of the deepest is kept.
LEMMA DeepestKept ==
  ASSUME list \subseteq Entry, IsFiniteSet(list), NEW f \in list
  PROVE  \E e \in Deduplicated : Identity(e) = Identity(f) /\ e.level >= f.level
<1> DEFINE Same == { e \in list : Identity(e) = Identity(f) }
           Deeper(e) == { g \in Same : g.level > e.level }
           D == { Deeper(e) : e \in {g \in Same : g.level >= f.level} }
<1>0. \A e \in list : e.level \in Nat /\ Rank[e.package] \in Nat
  BY EntryFields
<1>1. D # {}
  <2>1. f \in Same /\ f.level >= f.level BY <1>0
  <2>2. Deeper(f) \in D BY <2>1
  <2> QED BY <2>2
<1>2. \A d \in D : IsFiniteSet(d)
  <2>1. \A e : Deeper(e) \in SUBSET list OBVIOUS
  <2>2. \A d \in D : d \in SUBSET list BY <2>1
  <2> HIDE DEF D
  <2> QED BY <2>2, FS_Subset
<1>3. PICK d \in D : \A c \in D : c \subseteq d => c = d
  <2> HIDE DEF D
  <2> QED BY <1>1, <1>2, MinimalSet
<1>4. PICK e \in Same : e.level >= f.level /\ d = Deeper(e)
  OBVIOUS
<1>5. ASSUME NEW g \in Deeper(e) PROVE FALSE
  <2>1. g \in Same /\ g.level > e.level OBVIOUS
  <2>2. g.level >= f.level BY <1>0, <1>4, <2>1
  <2>3. Deeper(g) \in D BY <2>1, <2>2
  <2>4. Deeper(g) \subseteq Deeper(e)
    <3>1. \A h \in Same : h.level > g.level => h.level > e.level BY <1>0, <2>1
    <3> QED BY <3>1
  <2>5. Deeper(g) = Deeper(e)
    <3> HIDE DEF D, Deeper
    <3> QED BY <1>3, <1>4, <2>3, <2>4
  <2>6. g \in Deeper(g) BY <2>5
  <2> QED BY <2>6, <1>0
<1>6. ASSUME NEW g \in list, Identity(g) = Identity(e) PROVE ~Before(g, e)
  <2>1. g \in Same BY <1>4, <1>6
  <2>2. ~(g.level > e.level) BY <1>5, <2>1
  <2>3. g.package = e.package BY <1>4, <1>6, EntryFields
  <2> QED BY <1>0, <2>2, <2>3 DEF Before
<1> QED BY <1>4, <1>6 DEF Deduplicated

\* The duplicates are gone.
LEMMA DeduplicatedOnce ==
  ASSUME list \subseteq Entry, IsFiniteSet(list)
  PROVE  Deduplicated \in SUBSET Entry /\ IsFiniteSet(Deduplicated) /\ OneOfEach(Deduplicated)
<1>1. Deduplicated \in SUBSET list BY DEF Deduplicated
<1>2. IsFiniteSet(Deduplicated) BY <1>1, FS_Subset
<1>3. ASSUME NEW e \in Deduplicated, NEW f \in Deduplicated, Identity(e) = Identity(f)
      PROVE  e = f
  <2>1. e \in Entry /\ f \in Entry BY <1>1
  <2>2. ~Before(e, f) /\ ~Before(f, e) BY <1>1, <1>3 DEF Deduplicated
  <2>3. e.package = f.package /\ e.native = f.native BY <1>3, <2>1, EntryFields
  <2>4. e.level = f.level BY <2>1, <2>2, EntryFields DEF Before
  <2> QED BY <2>1, <2>3, <2>4, EntryFields
<1> QED BY <1>1, <1>2, <1>3 DEF OneOfEach

\* m_list holds the instances that were kept, each at its place.
InPlace(first) ==
  /\ DOMAIN m_list = 1..Cardinality(Deduplicated)
  /\ \A i \in DOMAIN m_list :
       \E e \in Deduplicated : m_list[i] = Identity(e) /\ Place(Deduplicated, e, first) = i

\* Proc macros and, without --target, everything are listed as native.
NativeInv ==
  /\ \A e \in list : e.package \in ProcMacros => e.native
  /\ ~TargetNamed => \A e \in list \cup pending : e.native

\* What holds of the list: with LevelsIncrease, that the root's library is in it
\* and that m_list is its entries in their places.
ListInv ==
  /\ WalkType
  /\ WalkOver
  /\ LevelsIncrease
  /\ IsFiniteSet(list)
  /\ stage # "walk" /\ graph.has_library =>
       [package |-> Root, native |-> RootNative, level |-> 0] \in list
  /\ stage = "sorted" => \E first \in BOOLEAN : InPlace(first)

\* The list is empty at first.
LEMMA ListInit == Init => ListInv
<1>1. Init => WalkType BY WalkTypeInit
<1>2. Init => LevelsIncrease BY DEF Init, LevelsIncrease, Done
<1> QED BY <1>1, <1>2, FS_EmptySet DEF Init, ListInv, WalkOver

\* Entries are added one by one, and the sort puts those it keeps in place.
LEMMA ListStep == ListInv /\ [Next]_vars => ListInv'
<1> SUFFICES ASSUME ListInv, [Next]_vars PROVE ListInv'
  OBVIOUS
<1>1. WalkType' /\ LevelsIncrease'
  BY WalkTypeStep, LevelsStep DEF ListInv
<1>2. WalkOver'
  BY DEF ListInv, WalkOver, Next, AddPackage, AddRoot, SortList, vars
<1> DEFINE root == [package |-> Root, native |-> RootNative, level |-> 0]
<1>3. /\ list \subseteq Entry /\ IsFiniteSet(list)
      /\ stage # "walk" /\ graph.has_library => root \in list
      /\ stage = "sorted" => \E first \in BOOLEAN : InPlace(first)
  BY DEF ListInv, WalkType
<1>4. CASE AddPackage
  <2>1. PICK c \in pending : list' = list \/ list' = list \cup {Forced(c)}
    BY <1>4, AddPackageEffect
  <2>2. IsFiniteSet(list') BY <1>3, <2>1, FS_AddElement
  <2>3. stage' = stage /\ stage' # "sorted" /\ graph' = graph /\ list \subseteq list'
    BY <1>4, <2>1 DEF AddPackage
  <2> QED BY <1>1, <1>2, <1>3, <2>2, <2>3 DEF ListInv
<1>5. CASE AddRoot
  <2>1. stage' = "dev" /\ graph' = graph /\ list' = IF graph.has_library THEN list \cup {root} ELSE list
    BY <1>5 DEF AddRoot
  <2>2. IsFiniteSet(list') BY <1>3, <2>1, FS_AddElement
  <2>3. graph'.has_library => root \in list' BY <2>1
  <2> QED BY <1>1, <1>2, <2>1, <2>2, <2>3 DEF ListInv
<1>6. CASE SortList
  <2>1. PICK first \in BOOLEAN :
          m_list' = [ i \in 1..Cardinality(Deduplicated) |->
             Identity(CHOOSE e \in Deduplicated : Place(Deduplicated, e, first) = i) ]
    BY <1>6 DEF SortList, Place
  <2>2. list' = list /\ graph' = graph /\ stage = "dev" BY <1>6 DEF SortList
  <2>3. Deduplicated' = Deduplicated BY <2>2 DEF Deduplicated
  <2>4. \A i \in 1..Cardinality(Deduplicated) :
          \E e \in Deduplicated : Place(Deduplicated, e, first) = i
    BY <1>3, DeduplicatedOnce, PlacesAreOrder
  <2>5. DOMAIN m_list' = 1..Cardinality(Deduplicated) BY <2>1
  <2>6. ASSUME NEW i \in 1..Cardinality(Deduplicated)
        PROVE  \E e \in Deduplicated :
                 m_list'[i] = Identity(e) /\ Place(Deduplicated, e, first) = i
    <3> DEFINE e == CHOOSE x \in Deduplicated : Place(Deduplicated, x, first) = i
    <3>1. e \in Deduplicated /\ Place(Deduplicated, e, first) = i BY <2>4
    <3>2. m_list'[i] = Identity(e) BY <2>1
    <3> QED BY <3>1, <3>2
  <2>7. \A S, e : Place(S, e, first)' = Place(S, e, first) BY DEF Place, Precedes, Before
  <2>8. InPlace(first)' BY <2>3, <2>5, <2>6, <2>7 DEF InPlace
  <2> QED BY <1>1, <1>2, <1>3, <2>2, <2>8 DEF ListInv
<1>7. CASE UNCHANGED vars
  <2>1. list' = list /\ graph' = graph /\ stage' = stage /\ m_list' = m_list BY <1>7 DEF vars
  <2>2. Deduplicated' = Deduplicated BY <2>1 DEF Deduplicated
  <2>3. \A S, e, n : Place(S, e, n)' = Place(S, e, n) BY DEF Place, Precedes, Before
  <2>4. \A n : InPlace(n) => InPlace(n)' BY <2>1, <2>2, <2>3 DEF InPlace
  <2> QED BY <1>1, <1>2, <1>3, <2>1, <2>4 DEF ListInv
<1> QED BY <1>4, <1>5, <1>6, <1>7 DEF Next

\* The invariant of the list.
LEMMA ListCorrect == Spec => []ListInv
BY ListInit, ListStep, PTL DEF Spec

-----------------------------------------------------------------------------
(* What the plan of BuildList::build relies on.                            *)

\* A proc macro is built for the host, whatever it is needed for.
LEMMA ForcedKey ==
  ASSUME NEW c \in Entry, NEW f \in Entry, Identity(f) = Identity(Forced(c))
  PROVE  Key(f.package, f.native) = Key(c.package, c.native)
<1>1. Forced(c) \in Entry /\ Forced(c).package = c.package BY ForcedType
<1>2. Forced(c).native <=> c.native \/ c.package \in ProcMacros
  BY DEF Forced, Entry
<1>3. f.package = c.package /\ (f.native <=> c.native \/ c.package \in ProcMacros)
  BY <1>1, <1>2, EntryFields
<1>4. (Cross /\ (f.native \/ f.package \in ProcMacros))
        = (Cross /\ (c.native \/ c.package \in ProcMacros))
  BY <1>3
<1> QED BY <1>3, <1>4 DEF Key

\* A call for each key that an instance of p needs.
NeededOf(p, native) ==
  { Key(d, native) : d \in graph.main[p] } \cup
  { Key(d, TRUE) : d \in IF p \in Scripted /\ ~Overrides THEN graph.build[p] ELSE {} }

LEMMA CallsForKeys ==
  ASSUME NEW p, NEW level, NEW native, NEW k \in NeededOf(p, native)
  PROVE  \E c \in Calls(p, level, native) : k = Key(c.package, c.native)
<1>1. CASE \E d \in graph.main[p] : k = Key(d, native)
  <2> PICK d \in graph.main[p] : k = Key(d, native) BY <1>1
  <2> DEFINE c == [package |-> d, native |-> native, level |-> level + 1]
  <2>1. c \in Calls(p, level, native) BY DEF Calls
  <2>2. c.package = d /\ c.native = native OBVIOUS
  <2> HIDE DEF c
  <2> QED BY <2>1, <2>2
<1>2. CASE \E d \in IF p \in Scripted /\ ~Overrides THEN graph.build[p] ELSE {} : k = Key(d, TRUE)
  <2> PICK d \in IF p \in Scripted /\ ~Overrides THEN graph.build[p] ELSE {} : k = Key(d, TRUE)
    BY <1>2
  <2> DEFINE c == [package |-> d, native |-> TRUE, level |-> level + 1]
  <2>1. c \in Calls(p, level, native) BY DEF Calls
  <2>2. c.package = d /\ c.native = TRUE OBVIOUS
  <2> HIDE DEF c
  <2> QED BY <2>1, <2>2
<1> QED BY <1>1, <1>2 DEF NeededOf

\* Once sorted, an entry of list is at a place after those that are deeper.
LEMMA DeeperIsBefore ==
  ASSUME ListInv, NEW first \in BOOLEAN, InPlace(first), NEW f \in list
  PROVE  \E j \in DOMAIN m_list :
           /\ m_list[j] = Identity(f)
           /\ \A i \in DOMAIN m_list : \A e \in Deduplicated :
                Place(Deduplicated, e, first) = i /\ f.level > e.level => j \in 1..(i - 1)
<1>1. list \subseteq Entry /\ IsFiniteSet(list) BY DEF ListInv, WalkType
<1>2. PICK g \in Deduplicated : Identity(g) = Identity(f) /\ g.level >= f.level
  BY <1>1, DeepestKept
<1>3. Deduplicated \in SUBSET Entry /\ IsFiniteSet(Deduplicated) /\ OneOfEach(Deduplicated)
  BY <1>1, DeduplicatedOnce
<1> DEFINE j == Place(Deduplicated, g, first)
           n == Cardinality(Deduplicated)
<1>4. n \in Nat /\ j \in 1..n BY <1>3, PlacesAreOrder, FS_CardinalityType
<1>5. j \in DOMAIN m_list /\ m_list[j] = Identity(f)
  <2>1. j \in DOMAIN m_list BY <1>4 DEF InPlace
  <2>2. PICK e \in Deduplicated : m_list[j] = Identity(e) /\ Place(Deduplicated, e, first) = j
    BY <2>1 DEF InPlace
  <2>3. e = g BY <1>3, <2>2, PlacesAreOrder
  <2> QED BY <2>1, <2>2, <2>3, <1>2
<1>6. ASSUME NEW i \in DOMAIN m_list, NEW e \in Deduplicated,
             Place(Deduplicated, e, first) = i, f.level > e.level
      PROVE  j \in 1..(i - 1)
  <2>1. g \in Entry /\ f \in Entry /\ e \in Entry BY <1>1, <1>3
  <2>2. g.level > e.level BY <1>2, <1>6, <2>1, EntryFields
  <2>3. Precedes(g, e, first) BY <2>2 DEF Precedes, Before
  <2>4. j < Place(Deduplicated, e, first) BY <1>3, <2>3, PlacesAreOrder
  <2>5. i \in 1..n BY <1>6 DEF InPlace
  <2> HIDE DEF j, n
  <2> QED BY <1>4, <1>6, <2>4, <2>5
<1> QED BY <1>5, <1>6

\* The assertion of handle_dep: every dependency and every dependency of a
\* build script was considered before its user, whatever the graph and the
\* mixture of host and target builds; and so were those of the root
\* (ListBuilder::add_package, sort_list).
THEOREM DependenciesConsidered == Spec => []ConsideredFirst
<1>1. ASSUME ListInv, stage = "sorted" PROVE ConsideredFirst
  <2>1. PICK first \in BOOLEAN : InPlace(first) BY <1>1 DEF ListInv
  <2>2. graph \in DependencyGraph /\ list \subseteq Entry /\ pending = {} /\ LevelsIncrease
    BY <1>1 DEF ListInv, WalkType, WalkOver
  \* What is called for is listed, under the key it is called for with.
  <2>3. ASSUME NEW c \in Entry, Done(c)
        PROVE  \E f \in list : /\ Key(f.package, f.native) = Key(c.package, c.native)
                               /\ f.level >= c.level
    <3>1. PICK f \in list : Identity(f) = Identity(Forced(c)) /\ f.level >= Forced(c).level
      BY <2>2, <2>3 DEF Done, Forced
    <3>2. f \in Entry BY <2>2
    <3>3. Key(f.package, f.native) = Key(c.package, c.native) BY <3>1, <3>2, ForcedKey
    <3> QED BY <3>1, <3>3, ForcedType
  <2>4. ASSUME NEW i \in DOMAIN m_list, NEW k \in NeededKeys(m_list[i])
        PROVE  \E j \in 1..(i - 1) : Key(m_list[j].package, m_list[j].native) = k
    <3>1. PICK e \in Deduplicated :
            m_list[i] = Identity(e) /\ Place(Deduplicated, e, first) = i
      BY <2>1 DEF InPlace
    <3>2. e \in list /\ e \in Entry BY <2>2 DEF Deduplicated
    <3>3. m_list[i].package = e.package /\ m_list[i].native = e.native
      BY <3>1 DEF Identity
    <3>4. k \in NeededOf(e.package, e.native)
      BY <2>4, <3>3 DEF NeededKeys, NeededOf
    <3>5. PICK c \in Calls(e.package, e.level, e.native) : k = Key(c.package, c.native)
      BY <3>4, CallsForKeys
    <3>6. c \in Entry /\ c.level = e.level + 1
      <4>1. e.package \in Pkgs /\ e.level \in Nat /\ e.native \in BOOLEAN BY <3>2, EntryFields
      <4> QED BY <2>2, <4>1, CallsType DEF Calls
    <3>7. PICK f \in list : Key(f.package, f.native) = k /\ f.level >= c.level
      BY <2>2, <2>3, <3>2, <3>5, <3>6 DEF LevelsIncrease
    <3>8. f.level > e.level
      <4>1. f.level \in Nat /\ e.level \in Nat BY <2>2, <3>2, EntryFields
      <4> QED BY <3>6, <3>7, <4>1
    <3>9. PICK j \in DOMAIN m_list : m_list[j] = Identity(f) /\ j \in 1..(i - 1)
      BY <1>1, <2>1, <3>1, <3>8, DeeperIsBefore
    <3>10. m_list[j].package = f.package /\ m_list[j].native = f.native
      BY <3>9 DEF Identity
    <3> QED BY <3>7, <3>9, <3>10
  <2>5. ASSUME NEW f \in list
        PROVE  \E j \in DOMAIN m_list :
                 Key(m_list[j].package, m_list[j].native) = Key(f.package, f.native)
    <3>1. PICK j \in DOMAIN m_list : m_list[j] = Identity(f)
      BY <1>1, <2>1, DeeperIsBefore
    <3> QED BY <3>1 DEF Identity
  <2>6. ASSUME NEW k \in RootKeys
        PROVE  \E f \in list : Key(f.package, f.native) = k
    <3>1. Cross => RootNative = FALSE BY DEF Cross, RootNative
    <3>2. \A p : Key(p, ~Cross) = Key(p, RootNative)
      <4>1. \A p : (Cross /\ (~Cross \/ p \in ProcMacros))
                     = (Cross /\ (RootNative \/ p \in ProcMacros))
        BY <3>1
      <4> QED BY <4>1 DEF Key
    <3>3. CASE graph.has_library
      <4> DEFINE root == [package |-> Root, native |-> RootNative, level |-> 0]
      <4>1. root \in list BY <1>1, <3>3 DEF ListInv
      <4>2. root.package = Root /\ root.native = RootNative OBVIOUS
      <4>3. k = Key(Root, ~Cross) BY <2>6, <3>3 DEF RootKeys
      <4> HIDE DEF root
      <4> QED BY <4>1, <4>2, <4>3, <3>2
    <3>4. CASE ~graph.has_library
      <4>1. k \in NeededOf(Root, ~Cross) BY <2>6, <3>4 DEF RootKeys, NeededOf
      <4>2. NeededOf(Root, ~Cross) = NeededOf(Root, RootNative)
        BY <3>2 DEF NeededOf
      <4>3. PICK c \in Calls(Root, 0, RootNative) : k = Key(c.package, c.native)
        BY <4>1, <4>2, CallsForKeys
      <4>4. c \in Entry BY <2>2, HostFlag, ConstantsAssumption, CallsType
      <4> QED BY <2>2, <2>3, <4>3, <4>4 DEF LevelsIncrease
    <3> QED BY <3>3, <3>4
  <2> QED BY <2>4, <2>5, <2>6 DEF ConsideredFirst
<1>2. ListInv => ConsideredFirst
  BY <1>1 DEF ConsideredFirst
<1> QED BY <1>2, ListCorrect, PTL

\* Forced entries and, without --target, all calls are native.
LEMMA NativeStep ==
  ASSUME Root \notin ProcMacros
  PROVE  WalkType /\ NativeInv /\ [Next]_vars => NativeInv'
<1> SUFFICES ASSUME WalkType, NativeInv, [Next]_vars PROVE NativeInv'
  OBVIOUS
<1>1. ~TargetNamed => RootNative BY DEF RootNative
<1>2. CASE AddPackage
  <2>1. PICK c \in pending :
          \/ list' = list /\ pending' = pending \ {c}
          \/ /\ list' = list \cup {Forced(c)}
             /\ pending' = (pending \ {c}) \cup
                  Calls(Forced(c).package, Forced(c).level, Forced(c).native)
    BY <1>2, AddPackageEffect
  <2>2. c \in Entry BY DEF WalkType
  <2>3. Forced(c).package = c.package /\ (Forced(c).native <=> c.native \/ c.package \in ProcMacros)
    BY <2>2 DEF Forced, Entry
  <2>4. \A p, l, n : n => \A d \in Calls(p, l, n) : d.native
    BY DEF Calls
  <2>5. ~TargetNamed => Forced(c).native BY <2>3 DEF NativeInv
  <2>6. ~TargetNamed => \A e \in pending' : e.native
    BY <2>1, <2>4, <2>5 DEF NativeInv
  <2> QED BY <2>1, <2>3, <2>5, <2>6 DEF NativeInv
<1>3. CASE AddRoot
  <2>1. \A e \in list' : e \in list \/ e = [package |-> Root, native |-> RootNative, level |-> 0]
    BY <1>3 DEF AddRoot
  <2>2. \A e \in pending' : \E d : e = [package |-> d, native |-> RootNative, level |-> 1]
    BY <1>3 DEF AddRoot
  <2>3. \A e \in list' : e \in list \/ (e.package = Root /\ e.native = RootNative)
    BY <2>1
  <2>4. \A e \in pending' : e.native = RootNative
    BY <2>2
  <2> QED BY <1>1, <2>3, <2>4 DEF NativeInv
<1>4. CASE SortList
  BY <1>4 DEF SortList, NativeInv
<1>5. CASE UNCHANGED vars
  BY <1>5 DEF vars, NativeInv
<1> QED BY <1>2, <1>3, <1>4, <1>5 DEF Next

\* Nothing is listed before the sort.
SortedOnly == stage # "sorted" => DOMAIN m_list = {}

\* A library is built by one job, for any graph.  Left out are a root that is a
\* proc macro, which is pushed without being forced to be native, and
\* -Z emit-mmir with --target: the constructor cross-compiles, build() does not.
THEOREM LibrariesOnce ==
  ASSUME Root \notin ProcMacros, ~(TargetNamed /\ EmitMmir)
  PROVE  Spec => []OneJobPerLibrary
<1>1. Init => NativeInv
  <2>1. ~TargetNamed => RootNative BY DEF RootNative
  <2>2. \A p, l, n : n => \A d \in Calls(p, l, n) : d.native BY DEF Calls
  <2> QED BY <2>1, <2>2 DEF Init, NativeInv
<1>2. WalkType /\ NativeInv /\ [Next]_vars => NativeInv' BY NativeStep
<1>3. ASSUME ListInv, NativeInv, stage = "sorted" PROVE OneJobPerLibrary
  <2>1. PICK first \in BOOLEAN : InPlace(first) BY <1>3 DEF ListInv
  <2>2. Deduplicated \subseteq list /\ list \subseteq Entry /\ IsFiniteSet(list)
    BY <1>3 DEF ListInv, WalkType, Deduplicated
  <2> SUFFICES ASSUME NEW i \in DOMAIN m_list, NEW j \in DOMAIN m_list,
                      Key(m_list[i].package, m_list[i].native)
                        = Key(m_list[j].package, m_list[j].native)
               PROVE  i = j
    BY DEF OneJobPerLibrary
  <2>3. PICK e \in Deduplicated : m_list[i] = Identity(e) /\ Place(Deduplicated, e, first) = i
    BY <2>1 DEF InPlace
  <2>4. PICK f \in Deduplicated : m_list[j] = Identity(f) /\ Place(Deduplicated, f, first) = j
    BY <2>1 DEF InPlace
  <2>5. Key(e.package, e.native) = Key(f.package, f.native)
    BY <2>3, <2>4 DEF Identity
  <2>6. /\ e.package = f.package
        /\ Cross => (e.native \/ e.package \in ProcMacros <=> f.native \/ f.package \in ProcMacros)
    BY <2>5 DEF Key
  <2>7. e \in list /\ f \in list /\ e.native \in BOOLEAN /\ f.native \in BOOLEAN
    BY <2>2, EntryFields
  <2>8. e.native = f.native
    <3>1. CASE Cross
      BY <3>1, <2>6, <2>7, <1>3 DEF NativeInv
    <3>2. CASE ~Cross
      <4>1. ~TargetNamed BY <3>2 DEF Cross
      <4> QED BY <4>1, <2>7, <1>3 DEF NativeInv
    <3> QED BY <3>1, <3>2
  <2>9. e = f
    <3>1. Identity(e) = Identity(f) BY <2>6, <2>8 DEF Identity
    <3> QED BY <2>2, <3>1, DeduplicatedOnce DEF OneOfEach
  <2> QED BY <2>3, <2>4, <2>9
<1>4. ListInv /\ NativeInv /\ SortedOnly => OneJobPerLibrary
  BY <1>3 DEF OneJobPerLibrary, SortedOnly
<1>5. Init => SortedOnly
  BY DEF Init, SortedOnly
<1>6. SortedOnly /\ [Next]_vars => SortedOnly'
  BY DEF SortedOnly, Next, AddPackage, AddRoot, SortList, vars
<1>7. ListInv => WalkType BY DEF ListInv
<1> QED BY <1>1, <1>2, <1>4, <1>5, <1>6, <1>7, ListCorrect, PTL DEF Spec
=============================================================================
