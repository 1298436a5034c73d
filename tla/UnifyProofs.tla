---------------------------- MODULE UnifyProofs ----------------------------
(***************************************************************************)
(* For any number of variables and any order of operations the aliases of  *)
(* IvarTable have no loop, so that every lookup ends at one root, and what *)
(* was equated stays equated.  Unify keeps to the table's specification,   *)
(* for any types, ends with literals that are numbers and with finite      *)
(* types, asks just what the equations say, and gives up only where they   *)
(* have no solution.                                                       *)
(*                                                                         *)
(* The first lemmas speak of an array of aliases, so that they hold of the *)
(* table before and after a step alike.                                    *)
(***************************************************************************)
EXTENDS UnifyProps, FiniteSetTheorems, WellFoundedInduction, TLAPS

SlotsIn(a) == 1..Len(a)
ClosedIn(a, S) == \A k \in S : a[k] # 0 => a[k] \in S
VisitedIn(a, i) == {k \in SlotsIn(a) : \A S \in SUBSET SlotsIn(a) :
                                          i \in S /\ ClosedIn(a, S) => k \in S}
RootIn(a, i) == CHOOSE r \in VisitedIn(a, i) : ~(a[r] # 0)

IsForest(a) ==
    /\ a \in Seq(Nat)
    /\ \A i \in SlotsIn(a) : a[i] \in 0..Len(a)
    /\ \A C \in SUBSET SlotsIn(a) : C # {} => \E i \in C : a[i] \notin C

(***************************************************************************)
(* Lookups.                                                                *)
(***************************************************************************)
\* A lookup visits the slot it starts at and goes on from each alias.
LEMMA VisitedClosed ==
    ASSUME NEW a, IsForest(a), NEW i \in SlotsIn(a)
    PROVE  /\ i \in VisitedIn(a, i)
           /\ VisitedIn(a, i) \subseteq SlotsIn(a)
           /\ \A k \in VisitedIn(a, i) : a[k] # 0 => a[k] \in VisitedIn(a, i)
<1>1. i \in VisitedIn(a, i)
  BY DEF VisitedIn
<1>2. VisitedIn(a, i) \subseteq SlotsIn(a)
  BY DEF VisitedIn
<1>3. ASSUME NEW k \in VisitedIn(a, i), a[k] # 0
      PROVE  a[k] \in VisitedIn(a, i)
  <2>1. a[k] \in SlotsIn(a)
    BY <1>2, <1>3 DEF IsForest, SlotsIn
  <2>2. ASSUME NEW S \in SUBSET SlotsIn(a), i \in S, ClosedIn(a, S)
        PROVE  a[k] \in S
    <3>1. k \in S
      BY <1>3, <2>2 DEF VisitedIn
    <3> QED BY <3>1, <1>3, <2>2 DEF ClosedIn
  <2> QED BY <2>1, <2>2 DEF VisitedIn
<1> QED BY <1>1, <1>2, <1>3

\* A set that holds a slot and goes on from each of its aliases holds
\* everything a lookup of that slot visits.
LEMMA VisitedLeast ==
    ASSUME NEW a, NEW i, NEW S \in SUBSET SlotsIn(a), i \in S, ClosedIn(a, S)
    PROVE  VisitedIn(a, i) \subseteq S
BY DEF VisitedIn

\* A lookup visits a root.
LEMMA RootExists ==
    ASSUME NEW a, IsForest(a), NEW i \in SlotsIn(a)
    PROVE  RootIn(a, i) \in VisitedIn(a, i) /\ a[RootIn(a, i)] = 0
<1>1. PICK k \in VisitedIn(a, i) : a[k] \notin VisitedIn(a, i)
  BY VisitedClosed DEF IsForest
<1>2. ~(a[k] # 0)
  BY <1>1, VisitedClosed
<1> QED BY <1>1, <1>2 DEF RootIn

\* It visits no other root.
LEMMA RootUnique ==
    ASSUME NEW a, IsForest(a), NEW i \in SlotsIn(a),
           NEW r \in VisitedIn(a, i), a[r] = 0
    PROVE  r = RootIn(a, i)
<1> DEFINE s == RootIn(a, i)
           G == {k \in VisitedIn(a, i) : r \in VisitedIn(a, k) /\ s \in VisitedIn(a, k)}
<1>1. s \in VisitedIn(a, i) /\ a[s] = 0
  BY RootExists
<1> SUFFICES ASSUME r # s PROVE FALSE
  OBVIOUS
<1>2. i \in G /\ G \subseteq SlotsIn(a)
  BY <1>1, VisitedClosed
<1>3. PICK k \in G : a[k] \notin G
  BY <1>2 DEF IsForest
<1>4. k \in SlotsIn(a) /\ k \in VisitedIn(a, i)
  BY <1>2
<1>5. a[k] # 0
  <2> SUFFICES ASSUME a[k] = 0 PROVE FALSE
    OBVIOUS
  <2>1. ClosedIn(a, {k})
    BY DEF ClosedIn
  <2>2. VisitedIn(a, k) \subseteq {k}
    BY <1>4, <2>1, VisitedLeast
  <2> QED BY <2>2, <1>3
<1>6. a[k] \in VisitedIn(a, i) /\ a[k] \in SlotsIn(a)
  BY <1>4, <1>5, VisitedClosed
<1> DEFINE S == {k} \cup VisitedIn(a, a[k])
<1>7. S \in SUBSET SlotsIn(a) /\ k \in S
  BY <1>4, <1>6, VisitedClosed
<1>8. ClosedIn(a, S)
  BY <1>6, VisitedClosed DEF ClosedIn
<1>9. VisitedIn(a, k) \subseteq S
  BY <1>7, <1>8, VisitedLeast
<1>10. r # k /\ s # k
  BY <1>1, <1>5
<1>11. r \in VisitedIn(a, a[k]) /\ s \in VisitedIn(a, a[k])
  BY <1>3, <1>9, <1>10
<1> QED BY <1>3, <1>6, <1>11

\* What a lookup finds is a slot.
LEMMA RootIsSlot ==
    ASSUME NEW a, IsForest(a), NEW i \in SlotsIn(a)
    PROVE  RootIn(a, i) \in SlotsIn(a) /\ a[RootIn(a, i)] = 0
BY RootExists, VisitedClosed

(***************************************************************************)
(* The operations on an array of aliases.                                  *)
(***************************************************************************)
\* A new variable (new_ivar).
LEMMA NewIvarForest ==
    ASSUME NEW a, IsForest(a), NEW b, b = Append(a, 0)
    PROVE  IsForest(b) /\ \A i \in SlotsIn(a) : RootIn(b, i) = RootIn(a, i)
<1>1. /\ b \in Seq(Nat) /\ Len(b) = Len(a) + 1 /\ Len(a) \in Nat
      /\ b[Len(a) + 1] = 0
      /\ \A i \in SlotsIn(a) : b[i] = a[i]
  BY DEF IsForest, SlotsIn
<1>2. SlotsIn(b) = SlotsIn(a) \cup {Len(a) + 1} /\ Len(a) + 1 \notin SlotsIn(a) /\ 0 \notin SlotsIn(b)
  BY <1>1 DEF SlotsIn
<1>3. \A i \in SlotsIn(b) : b[i] \in 0..Len(b)
  BY <1>1, <1>2 DEF IsForest, SlotsIn
<1>4. ASSUME NEW C \in SUBSET SlotsIn(b), C # {}
      PROVE  \E i \in C : b[i] \notin C
  <2>1. CASE Len(a) + 1 \in C
    BY <2>1, <1>1, <1>2
  <2>2. CASE Len(a) + 1 \notin C
    <3>1. C \in SUBSET SlotsIn(a)
      BY <2>2, <1>2
    <3>2. PICK i \in C : a[i] \notin C
      BY <3>1, <1>4 DEF IsForest
    <3> QED BY <3>1, <3>2, <1>1
  <2> QED BY <2>1, <2>2
<1>5. IsForest(b)
  BY <1>1, <1>3, <1>4 DEF IsForest
<1>6. ASSUME NEW i \in SlotsIn(a)
      PROVE  RootIn(b, i) = RootIn(a, i)
  <2> DEFINE r == RootIn(a, i)
  <2>1. r \in SlotsIn(a) /\ a[r] = 0 /\ r \in VisitedIn(a, i)
    BY RootIsSlot, RootExists
  <2>2. ASSUME NEW S \in SUBSET SlotsIn(b), i \in S, ClosedIn(b, S)
        PROVE  r \in S
    <3> DEFINE T == S \cap SlotsIn(a)
    <3>1. ASSUME NEW k \in T, a[k] # 0
          PROVE  a[k] \in T
      <4>1. a[k] \in SlotsIn(a)
        BY <3>1 DEF IsForest, SlotsIn
      <4>2. b[k] = a[k]
        BY <1>1
      <4>3. b[k] \in S
        BY <2>2, <3>1, <4>2 DEF ClosedIn
      <4> QED BY <4>1, <4>2, <4>3
    <3>2. ClosedIn(a, T)
      BY <3>1 DEF ClosedIn
    <3>3. VisitedIn(a, i) \subseteq T
      BY <3>2, <2>2, VisitedLeast
    <3> QED BY <3>3, <2>1
  <2>3. r \in VisitedIn(b, i)
    BY <2>1, <2>2, <1>2 DEF VisitedIn
  <2>4. b[r] = 0
    BY <2>1, <1>1
  <2>5. i \in SlotsIn(b)
    BY <1>2
  <2> QED BY <2>3, <2>4, <2>5, <1>5, RootUnique
<1> QED BY <1>5, <1>6

\* A root that becomes an alias of a slot with another root (ivar_unify).
LEMMA UnifyForest ==
    ASSUME NEW a, IsForest(a),
           NEW left \in SlotsIn(a), NEW r \in SlotsIn(a),
           a[r] = 0, RootIn(a, left) # r,
           NEW b, b \in Seq(Nat), Len(b) = Len(a),
           b[r] = left, \A i \in SlotsIn(a) : i # r => b[i] = a[i]
    PROVE  /\ IsForest(b)
           /\ \A i \in SlotsIn(a) : RootIn(b, i) = IF RootIn(a, i) = r THEN RootIn(a, left)
                                                                      ELSE RootIn(a, i)
<1> DEFINE l == RootIn(a, left)
<1>1. /\ b \in Seq(Nat) /\ Len(b) = Len(a) /\ Len(a) \in Nat
      /\ b[r] = left
      /\ \A i \in SlotsIn(a) : i # r => b[i] = a[i]
  BY DEF IsForest, SlotsIn
<1>2. SlotsIn(b) = SlotsIn(a) /\ 0 \notin SlotsIn(a)
  BY <1>1 DEF SlotsIn
<1>3. \A i \in SlotsIn(b) : b[i] \in 0..Len(b)
  <2> SUFFICES ASSUME NEW i \in SlotsIn(a) PROVE b[i] \in 0..Len(a)
    BY <1>1, <1>2
  <2>1. CASE i = r
    BY <2>1, <1>1 DEF SlotsIn
  <2>2. CASE i # r
    BY <2>2, <1>1 DEF IsForest
  <2> QED BY <2>1, <2>2
<1>4. l \in SlotsIn(a) /\ a[l] = 0 /\ l \in VisitedIn(a, left) /\ l # r
  BY RootIsSlot, RootExists
<1>5. r \notin VisitedIn(a, left)
  BY RootUnique
<1>6. ASSUME NEW C \in SUBSET SlotsIn(b), C # {}, \A i \in C : b[i] \in C
      PROVE  FALSE
  <2>1. C \in SUBSET SlotsIn(a)
    BY <1>2
  <2>2. PICK k \in C : a[k] \notin C
    BY <2>1, <1>6 DEF IsForest
  <2>3. r \in C /\ left \in C
    BY <2>1, <2>2, <1>1, <1>6
  <2> DEFINE D == C \cap VisitedIn(a, left)
  <2>4. left \in D
    BY <2>3, VisitedClosed
  <2>5. PICK j \in D : a[j] \notin D
    BY <2>1, <2>4 DEF IsForest
  <2>6. j # r /\ j \in SlotsIn(a)
    BY <1>5, <2>1
  <2>7. b[j] = a[j] /\ b[j] \in C
    BY <2>6, <1>1, <1>6
  <2>8. a[j] # 0
    BY <2>7, <2>1, <1>2
  <2>9. a[j] \in VisitedIn(a, left)
    BY <2>8, VisitedClosed
  <2> QED BY <2>5, <2>7, <2>9
<1>7. IsForest(b)
  BY <1>1, <1>3, <1>6 DEF IsForest
<1>8. ASSUME NEW i \in SlotsIn(a)
      PROVE  RootIn(b, i) = IF RootIn(a, i) = r THEN l ELSE RootIn(a, i)
  <2> DEFINE q == RootIn(a, i)
  <2>1. q \in SlotsIn(a) /\ a[q] = 0 /\ q \in VisitedIn(a, i)
    BY RootIsSlot, RootExists
  <2>2. ASSUME NEW S \in SUBSET SlotsIn(b), i \in S, ClosedIn(b, S)
        PROVE  q \in S /\ (q = r => l \in S)
    <3>0. S \in SUBSET SlotsIn(a)
      BY <1>2
    <3>1. ASSUME NEW k \in S, a[k] # 0
          PROVE  a[k] \in S
      <4>1. k # r /\ k \in SlotsIn(a)
        BY <3>0, <3>1
      <4>2. b[k] = a[k]
        BY <4>1, <1>1
      <4> QED BY <4>2, <3>1, <2>2 DEF ClosedIn
    <3>2. ClosedIn(a, S)
      BY <3>1 DEF ClosedIn
    <3>3. q \in S
      BY <3>0, <3>2, <2>1, <2>2, VisitedLeast
    <3>4. ASSUME q = r PROVE l \in S
      <4>1. b[r] # 0
        BY <1>1, <1>2
      <4>2. left \in S
        BY <3>3, <3>4, <4>1, <2>2, <1>1 DEF ClosedIn
      <4> QED BY <4>2, <3>0, <3>2, <1>4, VisitedLeast
    <3> QED BY <3>3, <3>4
  <2>3. CASE q = r
    <3>1. l \in VisitedIn(b, i)
      BY <2>2, <2>3, <1>2, <1>4 DEF VisitedIn
    <3>2. b[l] = 0
      BY <1>1, <1>4
    <3> QED BY <3>1, <3>2, <2>3, <1>2, <1>7, RootUnique
  <2>4. CASE q # r
    <3>1. q \in VisitedIn(b, i)
      BY <2>1, <2>2, <1>2 DEF VisitedIn
    <3>2. b[q] = 0
      BY <1>1, <2>1, <2>4
    <3> QED BY <3>1, <3>2, <2>4, <1>2, <1>7, RootUnique
  <2> QED BY <2>3, <2>4
<1> QED BY <1>7, <1>8

\* What an alias leads to has the same root.
LEMMA RootOfAlias ==
    ASSUME NEW a, IsForest(a), NEW i \in SlotsIn(a), a[i] # 0
    PROVE  a[i] \in SlotsIn(a) /\ RootIn(a, a[i]) = RootIn(a, i)
<1> DEFINE j == a[i]
           q == RootIn(a, j)
<1>1. j \in SlotsIn(a)
  BY DEF IsForest, SlotsIn
<1>2. q \in VisitedIn(a, j) /\ a[q] = 0
  BY <1>1, RootExists
<1>3. i \in VisitedIn(a, i) /\ j \in VisitedIn(a, i)
  BY VisitedClosed
<1>4. VisitedIn(a, i) \in SUBSET SlotsIn(a) /\ ClosedIn(a, VisitedIn(a, i))
  BY VisitedClosed DEF ClosedIn
<1>5. q \in VisitedIn(a, i)
  BY <1>2, <1>3, <1>4, VisitedLeast
<1> HIDE DEF q, j
<1>6. q = RootIn(a, i)
  BY <1>2, <1>5, RootUnique
<1> QED BY <1>1, <1>6 DEF q, j

\* An alias becomes one of its root (compact_ivars).
LEMMA CompactForest ==
    ASSUME NEW a, IsForest(a), NEW i \in SlotsIn(a), a[i] # 0,
           NEW b, b \in Seq(Nat), Len(b) = Len(a),
           b[i] = RootIn(a, i), \A j \in SlotsIn(a) : j # i => b[j] = a[j]
    PROVE  IsForest(b) /\ \A j \in SlotsIn(a) : RootIn(b, j) = RootIn(a, j)
<1> DEFINE q == RootIn(a, i)
<1>1. q \in SlotsIn(a) /\ a[q] = 0 /\ q # i
  BY RootIsSlot
<1>2. SlotsIn(b) = SlotsIn(a) /\ 0 \notin SlotsIn(a) /\ Len(a) \in Nat
  BY DEF SlotsIn, IsForest
<1>3. b[i] = q /\ b[q] = 0
  BY <1>1
<1> HIDE DEF q
<1>4. \A j \in SlotsIn(b) : b[j] \in 0..Len(b)
  <2> SUFFICES ASSUME NEW j \in SlotsIn(a) PROVE b[j] \in 0..Len(a)
    BY <1>2
  <2>1. CASE j = i
    BY <2>1, <1>1, <1>3 DEF SlotsIn
  <2>2. CASE j # i
    BY <2>2 DEF IsForest
  <2> QED BY <2>1, <2>2
<1>5. ASSUME NEW C \in SUBSET SlotsIn(b), C # {}
      PROVE  \E j \in C : b[j] \notin C
  <2>1. C \in SUBSET SlotsIn(a) /\ 0 \notin C
    BY <1>2
  <2>2. CASE q \in C
    BY <2>1, <2>2, <1>3
  <2>3. CASE q \notin C
    <3>1. PICK j \in C : a[j] \notin C
      BY <2>1, <1>5 DEF IsForest
    <3>2. CASE j = i
      BY <3>1, <3>2, <2>3, <1>3
    <3>3. CASE j # i
      BY <3>1, <3>3, <2>1
    <3> QED BY <3>2, <3>3
  <2> QED BY <2>2, <2>3
<1>6. IsForest(b)
  BY <1>4, <1>5 DEF IsForest
<1>7. ASSUME NEW j \in SlotsIn(a)
      PROVE  RootIn(a, j) \in VisitedIn(b, j)
  <2> DEFINE C == {k \in SlotsIn(a) : RootIn(a, k) \notin VisitedIn(b, k)}
  <2>1. SUFFICES ASSUME C # {} PROVE FALSE
    OBVIOUS
  <2>2. PICK k \in C : a[k] \notin C
    BY <2>1 DEF IsForest
  <2>3. k \in SlotsIn(b) /\ k \in SlotsIn(a) /\ RootIn(a, k) \notin VisitedIn(b, k)
    BY <2>2, <1>2
  <2>4. k \in VisitedIn(b, k)
    BY <2>3, <1>6, VisitedClosed
  <2>5. a[k] # 0
    <3>1. ASSUME a[k] = 0 PROVE k = RootIn(a, k)
      BY <2>3, <3>1, VisitedClosed, RootUnique
    <3> QED BY <3>1, <2>3, <2>4
  <2>6. a[k] \in SlotsIn(a) /\ RootIn(a, a[k]) = RootIn(a, k)
    BY <2>3, <2>5, RootOfAlias
  <2>7. RootIn(a, k) \in VisitedIn(b, a[k])
    BY <2>2, <2>6
  <2>8. CASE k = i
    <3>1. q \in VisitedIn(b, k)
      BY <2>3, <2>4, <2>8, <1>1, <1>2, <1>3, <1>6, VisitedClosed
    <3> QED BY <3>1, <2>3, <2>8 DEF q
  <2>9. CASE k # i
    <3>1. b[k] = a[k] /\ b[k] # 0
      BY <2>3, <2>5, <2>9
    <3>2. b[k] \in VisitedIn(b, k)
      BY <3>1, <2>3, <2>4, <1>6, VisitedClosed
    <3>3. VisitedIn(b, k) \in SUBSET SlotsIn(b) /\ ClosedIn(b, VisitedIn(b, k))
      BY <2>3, <1>6, VisitedClosed DEF ClosedIn
    <3>4. VisitedIn(b, b[k]) \subseteq VisitedIn(b, k)
      BY <3>2, <3>3, VisitedLeast
    <3> QED BY <3>1, <3>4, <2>3, <2>7
  <2> QED BY <2>8, <2>9
<1>8. ASSUME NEW j \in SlotsIn(a)
      PROVE  RootIn(b, j) = RootIn(a, j)
  <2>1. RootIn(a, j) \in SlotsIn(a) /\ a[RootIn(a, j)] = 0
    BY RootIsSlot
  <2>2. b[RootIn(a, j)] = 0
    BY <2>1
  <2> QED BY <2>2, <1>2, <1>6, <1>7, RootUnique
<1> QED BY <1>6, <1>8

(***************************************************************************)
(* The table.                                                              *)
(***************************************************************************)
\* The lookups of the table are those of its array, before and after a step.
LEMMA TableLookups ==
    /\ Slots = SlotsIn(alias) /\ Slots' = SlotsIn(alias')
    /\ \A i : PointedIvar(i) = RootIn(alias, i) /\ PointedIvar(i)' = RootIn(alias', i)
    /\ TableTypeOK /\ NoAliasLoop => IsForest(alias)
BY DEF Slots, SlotsIn, PointedIvar, RootIn, Visited, VisitedIn, Closed, ClosedIn, IsAlias,
       IsForest, TableTypeOK, NoAliasLoop

\* Every lookup ends, at a root that is in the table: get_pointed_ivar never
\* reports "Loop detected in ivar list" and never reads past the table.
THEOREM LookupsEnd ==
    ASSUME TableTypeOK, NoAliasLoop, NEW i \in Slots
    PROVE  PointedIvar(i) \in Slots /\ ~IsAlias(PointedIvar(i))
BY TableLookups, RootIsSlot DEF IsAlias

Table == TableTypeOK /\ NoAliasLoop

\* A unification gives the root of right, and what led to it, the root of left.
LEMMA UnifyRoots ==
    ASSUME Table, NEW left \in Slots, NEW right \in Slots,
           PointedIvar(left) # PointedIvar(right), IvarUnify(left, right)
    PROVE  /\ IsForest(alias') /\ SlotsIn(alias') = SlotsIn(alias)
           /\ \A i \in SlotsIn(alias) :
                RootIn(alias', i) = IF RootIn(alias, i) = RootIn(alias, right)
                                    THEN RootIn(alias, left) ELSE RootIn(alias, i)
<1> DEFINE r == RootIn(alias, right)
<1>1. IsForest(alias) /\ Slots = SlotsIn(alias)
  BY TableLookups DEF Table
<1>2. PointedIvar(left) = RootIn(alias, left) /\ PointedIvar(right) = r
  BY TableLookups
<1>3. alias' = [alias EXCEPT ![r] = left]
  BY <1>2 DEF IvarUnify
<1>4. r \in SlotsIn(alias) /\ alias[r] = 0
  BY <1>1, RootIsSlot
<1>5. RootIn(alias, left) # r /\ left \in SlotsIn(alias)
  BY <1>1, <1>2
<1> HIDE DEF r
<1>6. alias \in Seq(Nat) /\ left \in Nat
  BY <1>1, <1>5 DEF IsForest, SlotsIn
<1>7. alias' \in Seq(Nat) /\ Len(alias') = Len(alias)
  BY <1>3, <1>4, <1>6 DEF SlotsIn
<1>8. alias'[r] = left /\ \A i \in SlotsIn(alias) : i # r => alias'[i] = alias[i]
  BY <1>3, <1>4, <1>6 DEF SlotsIn
<1>9. /\ IsForest(alias')
      /\ \A i \in SlotsIn(alias) :
           RootIn(alias', i) = IF RootIn(alias, i) = r THEN RootIn(alias, left)
                                                       ELSE RootIn(alias, i)
  BY <1>1, <1>4, <1>5, <1>7, <1>8, UnifyForest
<1> QED BY <1>7, <1>9 DEF SlotsIn, r

\* A compaction changes no root.
LEMMA CompactRoots ==
    ASSUME Table, NEW i \in Slots, NEW ty, CompactIvar(i, ty)
    PROVE  /\ IsForest(alias') /\ SlotsIn(alias') = SlotsIn(alias)
           /\ \A j \in SlotsIn(alias) : RootIn(alias', j) = RootIn(alias, j)
<1>1. IsForest(alias) /\ Slots = SlotsIn(alias)
  BY TableLookups DEF Table
<1>2. PointedIvar(i) = RootIn(alias, i)
  BY TableLookups
<1>3. CASE alias[i] = 0
  <2>1. alias' = [alias EXCEPT ![i] = 0]
    BY <1>3 DEF CompactIvar, IsAlias
  <2>2. alias' = alias
    BY <2>1, <1>3, <1>1 DEF IsForest, SlotsIn
  <2> QED BY <2>2, <1>1
<1>4. CASE alias[i] # 0
  <2>1. alias' = [alias EXCEPT ![i] = RootIn(alias, i)]
    BY <1>2, <1>4 DEF CompactIvar, IsAlias
  <2>2. i \in SlotsIn(alias) /\ RootIn(alias, i) \in SlotsIn(alias)
    BY <1>1, RootIsSlot
  <2>3. /\ alias' \in Seq(Nat) /\ Len(alias') = Len(alias)
        /\ alias'[i] = RootIn(alias, i)
        /\ \A j \in SlotsIn(alias) : j # i => alias'[j] = alias[j]
    BY <1>1, <2>1, <2>2 DEF IsForest, SlotsIn
  <2>4. /\ IsForest(alias')
        /\ \A j \in SlotsIn(alias) : RootIn(alias', j) = RootIn(alias, j)
    BY <1>1, <1>4, <2>2, <2>3, CompactForest
  <2> QED BY <2>3, <2>4 DEF SlotsIn
<1> QED BY <1>3, <1>4

\* What is an alias stays one.
LEMMA CompactAlias ==
    ASSUME Table, NEW i \in Slots, NEW ty, CompactIvar(i, ty), NEW j \in Slots, alias[j] # 0
    PROVE  alias'[j] # 0
<1>1. /\ alias \in Seq(Nat) /\ Slots = 1..Len(alias)
      /\ PointedIvar(i) \in Slots
  BY LookupsEnd DEF Table, TableTypeOK, Slots
<1>2. alias' = [alias EXCEPT ![i] = IF alias[i] # 0 THEN PointedIvar(i) ELSE 0]
  BY DEF CompactIvar, IsAlias
<1>3. alias'[j] = IF j = i THEN PointedIvar(i) ELSE alias[j]
  BY <1>1, <1>2
<1> QED BY <1>1, <1>3

\* What a step does to the aliases keeps them a forest and keeps slots with one
\* root together.
LEMMA AliasStep ==
    ASSUME Table, [TableNext]_table
    PROVE  /\ IsForest(alias')
           /\ SlotsIn(alias) \subseteq SlotsIn(alias')
           /\ \A i, j \in Slots : PointedIvar(i) = PointedIvar(j)
                                    => PointedIvar(i)' = PointedIvar(j)'
<1>1. IsForest(alias) /\ Slots = SlotsIn(alias)
  BY TableLookups DEF Table
<1>2. \A i : PointedIvar(i) = RootIn(alias, i) /\ PointedIvar(i)' = RootIn(alias', i)
  BY TableLookups
<1> DEFINE Goal == /\ IsForest(alias')
                   /\ SlotsIn(alias) \subseteq SlotsIn(alias')
                   /\ \A i, j \in SlotsIn(alias) :
                        RootIn(alias, i) = RootIn(alias, j)
                          => RootIn(alias', i) = RootIn(alias', j)
<1>3. CASE alias' = alias
  <2>1. Goal
    BY <1>1, <1>3
  <2> QED BY <2>1, <1>1, <1>2
<1>4. ASSUME NEW ic \in Classes, NewIvar(ic)
      PROVE  Goal
  <2>1. alias' = Append(alias, 0)
    BY <1>4 DEF NewIvar
  <2>2. IsForest(alias') /\ \A i \in SlotsIn(alias) : RootIn(alias', i) = RootIn(alias, i)
    BY <1>1, <2>1, NewIvarForest
  <2>3. SlotsIn(alias) \subseteq SlotsIn(alias')
    BY <1>1, <2>1 DEF IsForest, SlotsIn
  <2> QED BY <2>2, <2>3
<1>5. ASSUME NEW left \in Slots, NEW right \in Slots,
             PointedIvar(left) # PointedIvar(right), IvarUnify(left, right)
      PROVE  Goal
  BY <1>5, UnifyRoots
<1>6. ASSUME NEW i \in Slots, CompactIvar(i, type'[i])
      PROVE  Goal
  BY <1>1, <1>6, CompactRoots
<1>7. CASE \E slot \in Slots : SetIvarTo(slot, type'[slot])
  BY <1>3, <1>7 DEF SetIvarTo
<1>8. CASE ApplyDefaults
  BY <1>3, <1>8 DEF ApplyDefaults
<1>9. CASE UNCHANGED table
  BY <1>3, <1>9 DEF table
<1>10. Goal => /\ IsForest(alias')
               /\ SlotsIn(alias) \subseteq SlotsIn(alias')
               /\ \A i, j \in Slots : PointedIvar(i) = PointedIvar(j)
                                        => PointedIvar(i)' = PointedIvar(j)'
  BY <1>1, <1>2
<1> QED BY <1>4, <1>5, <1>6, <1>7, <1>8, <1>9, <1>10 DEF TableNext

\* An array of entries, one for each slot, is a sequence.
LEMMA EntriesAreSeq ==
    ASSUME NEW n \in Nat, NEW t, t = [i \in 1..n |-> t[i]]
    PROVE  t \in Seq({t[i] : i \in 1..n}) /\ Len(t) = n
OBVIOUS

\* What the table has for a slot.
Entry(a, t, i) ==
    IF a[i] # 0 THEN t[i] = Null ELSE t[i] = Infer(i) \/ Known(t[i])

\* A step keeps one type and one class for each slot, no type for
\* an alias, and for a root one that is unknown or known.
LEMMA EntriesStep ==
    ASSUME Table, [TableNext]_table
    PROVE  /\ class' \in Seq(Classes) /\ Len(class') = Len(alias')
           /\ type' = [i \in Slots' |-> type'[i]]
           /\ \A i \in Slots' : Entry(alias', type', i)
<1>1. /\ alias \in Seq(Nat) /\ class \in Seq(Classes) /\ Len(class) = Len(alias)
      /\ type = [i \in Slots |-> type[i]]
      /\ \A i \in Slots : Entry(alias, type, i)
  BY DEF Table, TableTypeOK, IsAlias, Unknown, Entry
<1>2. Len(alias) \in Nat /\ Slots = 1..Len(alias) /\ Slots' = 1..Len(alias')
  BY <1>1 DEF Slots
<1>3. \A i \in Slots : PointedIvar(i) \in Slots /\ alias[PointedIvar(i)] = 0
  BY LookupsEnd DEF Table, IsAlias
<1>4. 0 \notin Slots
  BY <1>2
<1> DEFINE Goal == /\ class' \in Seq(Classes) /\ Len(class') = Len(alias')
                   /\ type' = [i \in Slots' |-> type'[i]]
                   /\ \A i \in Slots' : Entry(alias', type', i)
<1>6. ASSUME NEW ic \in Classes, NewIvar(ic)
      PROVE  Goal
  <2> DEFINE n == Len(alias)
  <2>1. /\ alias' = Append(alias, 0) /\ type' = Append(type, Infer(n + 1))
        /\ class' = Append(class, ic)
    BY <1>6 DEF NewIvar
  <2>2. type \in Seq({type[i] : i \in 1..n}) /\ Len(type) = n
    BY <1>1, <1>2, EntriesAreSeq
  <2>3. /\ Len(alias') = n + 1
        /\ alias'[n + 1] = 0 /\ \A i \in 1..n : alias'[i] = alias[i]
    BY <1>1, <2>1
  <2>4. /\ type' = [i \in 1..(n + 1) |-> type'[i]]
        /\ type'[n + 1] = Infer(n + 1) /\ \A i \in 1..n : type'[i] = type[i]
    BY <1>2, <2>1, <2>2
  <2>5. class' \in Seq(Classes) /\ Len(class') = n + 1
    BY <1>1, <1>6, <2>1
  <2>7. ASSUME NEW i \in 1..(n + 1)
        PROVE  Entry(alias', type', i)
    <3>1. CASE i = n + 1
      BY <3>1, <2>3, <2>4 DEF Entry
    <3>2. CASE i \in 1..n
      BY <3>2, <1>1, <1>2, <2>3, <2>4 DEF Entry
    <3> QED BY <3>1, <3>2, <1>2
  <2> QED BY <1>2, <2>3, <2>4, <2>5, <2>7
<1>7. ASSUME NEW left \in Slots, NEW right \in Slots, IvarUnify(left, right)
      PROVE  Goal
  <2> DEFINE l == PointedIvar(left)
             r == PointedIvar(right)
  <2>1. /\ alias' = [alias EXCEPT ![r] = left] /\ type' = [type EXCEPT ![r] = Null]
        /\ class' = [class EXCEPT ![l] = IF class[r] # "None" THEN class[r] ELSE @]
    BY <1>7 DEF IvarUnify
  <2>2. l \in Slots /\ r \in Slots
    BY <1>3
  <2>3. Slots' = Slots /\ Len(alias') = Len(alias)
    BY <1>1, <1>2, <2>1, <2>2
  <2>4. class[l] \in Classes /\ class[r] \in Classes
    BY <1>1, <1>2, <2>2
  <2>5. class' \in Seq(Classes) /\ Len(class') = Len(class)
    <3>1. PICK c \in Classes : class' = [class EXCEPT ![l] = c]
      BY <2>1, <2>4
    <3>2. l \in 1..Len(class)
      BY <1>1, <1>2, <2>2
    <3> HIDE DEF l
    <3> QED BY <1>1, <3>1, <3>2
  <2>6. type' = [i \in Slots |-> IF i = r THEN Null ELSE type[i]]
    BY <1>1, <2>1, <2>2
  <2>7. \A i \in Slots : alias'[i] = IF i = r THEN left ELSE alias[i]
    BY <1>1, <1>2, <2>1, <2>2
  <2>8. left # 0
    BY <1>4
  <2>9. ASSUME NEW i \in Slots PROVE Entry(alias', type', i)
    BY <1>1, <2>6, <2>7, <2>8 DEF Entry
  <2> QED BY <1>1, <2>3, <2>5, <2>6, <2>9
<1>8. ASSUME NEW slot \in Slots, SetIvarTo(slot, type'[slot])
      PROVE  Goal
  <2> DEFINE root == PointedIvar(slot)
             ty == type'[slot]
  <2>1. /\ alias' = alias /\ class' = class /\ Known(ty)
        /\ type' = [type EXCEPT ![root] = ty]
    BY <1>8 DEF SetIvarTo
  <2>2. root \in Slots /\ alias[root] = 0
    BY <1>3
  <2>3. type' = [i \in Slots |-> IF i = root THEN ty ELSE type[i]]
    BY <1>1, <2>1, <2>2
  <2>4. Slots' = Slots
    BY <1>2, <2>1
  <2> HIDE DEF root, ty
  <2>5. ASSUME NEW i \in Slots PROVE Entry(alias', type', i)
    BY <1>1, <2>1, <2>2, <2>3 DEF Entry
  <2> QED BY <1>1, <2>1, <2>3, <2>4, <2>5
<1>9. ASSUME NEW k \in Slots, CompactIvar(k, type'[k])
      PROVE  Goal
  <2> DEFINE to == IF alias[k] # 0 THEN PointedIvar(k) ELSE 0
             ty == type'[k]
  <2>1. alias' = [alias EXCEPT ![k] = to] /\ class' = class
    BY <1>9 DEF CompactIvar, IsAlias
  <2>2. to \in Nat /\ (to # 0 <=> alias[k] # 0)
    BY <1>2, <1>3, <1>4
  <2> HIDE DEF to
  <2>3. /\ alias' \in Seq(Nat) /\ Len(alias') = Len(alias)
        /\ \A i \in Slots : alias'[i] = IF i = k THEN to ELSE alias[i]
    BY <1>1, <1>2, <2>1, <2>2
  <2>4. CASE alias[k] # 0
    <3>1. type' = type
      BY <1>9, <2>4 DEF CompactIvar, IsAlias
    <3>2. ASSUME NEW i \in Slots PROVE Entry(alias', type', i)
      BY <3>1, <1>1, <2>2, <2>3, <2>4 DEF Entry
    <3> QED BY <3>1, <3>2, <1>1, <1>2, <2>1, <2>3
  <2>5. CASE alias[k] = 0
    <3>1. /\ type' = [type EXCEPT ![k] = ty]
          /\ IF type[k] = Infer(k) THEN ty = type[k] ELSE Known(ty)
      BY <1>9, <2>5 DEF CompactIvar, IsAlias, Unknown
    <3> HIDE DEF ty
    <3>2. type' = [i \in Slots |-> IF i = k THEN ty ELSE type[i]]
      BY <1>1, <3>1
    <3>3. ASSUME NEW i \in Slots PROVE Entry(alias', type', i)
      BY <3>1, <3>2, <1>1, <2>2, <2>3, <2>5 DEF Entry
    <3> QED BY <3>2, <3>3, <1>1, <1>2, <2>1, <2>3
  <2> QED BY <2>4, <2>5
<1>10. ASSUME ApplyDefaults
       PROVE  Goal
  <2>1. /\ alias' = alias /\ class' = class
        /\ type' = [i \in Slots |-> IF Defaulted(i) THEN Default[class[i]] ELSE type[i]]
    BY <1>10 DEF ApplyDefaults
  <2>2. Slots' = Slots
    BY <1>2, <2>1
  <2>3. ASSUME NEW i \in Slots, Defaulted(i)
        PROVE  alias[i] = 0 /\ Known(Default[class[i]])
    <3>1. class[i] \in {"Integer", "Float"} /\ alias[i] = 0
      BY <1>1, <1>2, <2>3 DEF Defaulted, Unknown, IsAlias, Classes
    <3>2. Default[class[i]] \in {Term("i32", << >>), Term("f64", << >>)}
      BY <3>1 DEF Default
    <3>3. Known(Term("i32", << >>)) /\ Known(Term("f64", << >>))
      BY DEF Term, Known
    <3> QED BY <3>1, <3>2, <3>3
  <2>4. ASSUME NEW i \in Slots PROVE Entry(alias', type', i)
    BY <1>1, <2>1, <2>3 DEF Entry
  <2> QED BY <1>1, <2>1, <2>2, <2>4
<1>11. ASSUME UNCHANGED table
       PROVE  Goal
  BY <1>1, <1>2, <1>11 DEF table
<1>12. Goal
  BY <1>6, <1>7, <1>8, <1>9, <1>10, <1>11 DEF TableNext
<1> QED BY <1>12

\* A step keeps the table's invariant.
LEMMA TableStep ==
    ASSUME Table, [TableNext]_table
    PROVE  Table'
<1>1. IsForest(alias') /\ Slots' = SlotsIn(alias')
  BY AliasStep, TableLookups
<1>2. NoAliasLoop'
  BY <1>1 DEF NoAliasLoop, IsForest
<1>3. TableTypeOK'
  BY <1>1, EntriesStep DEF TableTypeOK, IsForest, Entry, IsAlias, Unknown
<1> QED BY <1>2, <1>3 DEF Table

\* The start of the table.
LEMMA TableStart == TableInit => Table
<1> SUFFICES ASSUME TableInit PROVE Table
  OBVIOUS
<1>1. alias = << >> /\ type = << >> /\ class = << >> /\ Slots = {}
  BY DEF TableInit, Slots
<1> QED BY <1>1 DEF Table, TableTypeOK, NoAliasLoop

\* Together they are an inductive invariant.
LEMMA TableInvariant == TableSpec => []Table
<1>1. Table /\ [TableNext]_table => Table'
  BY TableStep
<1> QED BY <1>1, TableStart, PTL DEF TableSpec

\* Every entry is a root with a type or an alias of an existing slot.
THEOREM TableTypes == TableSpec => []TableTypeOK
BY TableInvariant, PTL DEF Table

\* The table's aliases never form a loop, in whatever order variables are made,
\* unified, set, defaulted and compacted, as long as the two sides of a
\* unification have different roots.
THEOREM NoLoopEver == TableSpec => []NoAliasLoop
BY TableInvariant, PTL DEF Table

\* Two variables once equated have the same root for ever.
THEOREM EquatedForever == TableSpec => EquatedStayEqual
<1>1. Table /\ [TableNext]_table =>
        [\A i, j \in Slots : PointedIvar(i) = PointedIvar(j)
                               => PointedIvar(i)' = PointedIvar(j)']_table
  BY AliasStep
<1> QED BY <1>1, TableInvariant, PTL DEF TableSpec, EquatedStayEqual

\* The roots, and the entries of the table, in the form the next lemmas use.
LEMMA TableFacts ==
    ASSUME Table
    PROVE  /\ Len(alias) \in Nat /\ Slots = 1..Len(alias) /\ Slots = SlotsIn(alias)
           /\ IsForest(alias)
           /\ class \in Seq(Classes) /\ Len(class) = Len(alias)
           /\ type = [i \in Slots |-> type[i]]
           /\ \A i \in Slots : /\ RootIn(alias, i) \in Slots
                               /\ alias[RootIn(alias, i)] = 0
                               /\ PointedIvar(i) = RootIn(alias, i)
           /\ \A i \in Slots : alias[i] = 0 => RootIn(alias, i) = i
           /\ \A i \in Slots : alias[i] = 0 => type[i] = Infer(i) \/ Known(type[i])
<1>1. IsForest(alias) /\ Slots = SlotsIn(alias) /\ Slots = 1..Len(alias) /\ Len(alias) \in Nat
  BY TableLookups DEF Table, SlotsIn, IsForest
<1>2. \A i \in Slots : /\ RootIn(alias, i) \in Slots /\ alias[RootIn(alias, i)] = 0
                      /\ PointedIvar(i) = RootIn(alias, i)
  BY <1>1, RootIsSlot, TableLookups
<1>3. \A i \in Slots : alias[i] = 0 => RootIn(alias, i) = i
  BY <1>1, VisitedClosed, RootUnique
<1>4. /\ class \in Seq(Classes) /\ Len(class) = Len(alias)
      /\ type = [i \in Slots |-> type[i]]
  BY DEF Table, TableTypeOK
<1>5. \A i \in Slots : alias[i] = 0 => type[i] = Infer(i) \/ Known(type[i])
  BY DEF Table, TableTypeOK, IsAlias, Unknown
<1> QED BY <1>1, <1>2, <1>3, <1>4, <1>5

(***************************************************************************)
(* Unify keeps to the table's specification.                               *)
(***************************************************************************)
\* An unknown type that get_type returns is that of a root.
LEMMA UnknownIsRoot ==
    ASSUME Table, NEW t, InTable(t), IsInfer(GetType(t))
    PROVE  \E r \in Slots : /\ GetType(t) = Infer(r) /\ Unknown(r)
                            /\ PointedIvar(r) = r
<1> DEFINE r == PointedIvar(t.slot)
<1>1. IsInfer(t)
  BY DEF GetType
<1>2. t.slot \in Slots /\ GetType(t) = type[r]
  BY <1>1 DEF InTable, GetType
<1>3. r \in Slots /\ ~IsAlias(r)
  BY <1>2, LookupsEnd DEF Table
<1>4. Unknown(r)
  BY <1>2, <1>3 DEF Table, TableTypeOK, Known, IsInfer
<1>5. IsForest(alias) /\ Slots = SlotsIn(alias) /\ alias[r] = 0
  BY <1>3, TableLookups DEF Table, IsAlias
<1>6. RootIn(alias, r) = r
  BY <1>3, <1>5, VisitedClosed, RootUnique
<1>7. PointedIvar(r) = r
  BY <1>6, TableLookups
<1> HIDE DEF r
<1> QED BY <1>2, <1>3, <1>4, <1>7 DEF Unknown

\* The two sides of an equation of two unknown types are different roots.
LEMMA TwoRoots ==
    ASSUME Table, InTable(Here.l), InTable(Here.r), BothUnknown
    PROVE  /\ L.slot \in Slots /\ R.slot \in Slots
           /\ Unknown(L.slot) /\ Unknown(R.slot)
           /\ PointedIvar(L.slot) = L.slot /\ PointedIvar(R.slot) = R.slot
           /\ L.slot # R.slot
<1>1. IsInfer(L) /\ IsInfer(R) /\ L # R
  BY DEF BothUnknown, Inner, Equal
<1>2. PICK l \in Slots : L = Infer(l) /\ Unknown(l) /\ PointedIvar(l) = l
  BY <1>1, UnknownIsRoot DEF L
<1>3. PICK r \in Slots : R = Infer(r) /\ Unknown(r) /\ PointedIvar(r) = r
  BY <1>1, UnknownIsRoot DEF R
<1>4. L.slot = l /\ R.slot = r
  BY <1>2, <1>3 DEF Infer
<1> QED BY <1>1, <1>2, <1>3, <1>4

\* Only an unknown root is set.
LEMMA OneRoot ==
    ASSUME Table, InTable(Here.l), InTable(Here.r), OneUnknown,
           ~(UNCHANGED table)
    PROVE  \E r \in Slots : \E ty :
              /\ SetIvarTo(r, ty) /\ PointedIvar(r) = r
              /\ changed' = TRUE /\ UNCHANGED <<phase, at, equated, born>>
<1>1. PICK t \in {Here.l, Here.r}, ty \in {L, R} :
         IsInfer(GetType(t)) /\ SetIvar(GetType(t).slot, ty)
  BY DEF OneUnknown, L, R
<1>2. PICK r \in Slots : GetType(t) = Infer(r) /\ PointedIvar(r) = r
  BY <1>1, UnknownIsRoot
<1>3. GetType(t).slot = r
  BY <1>2 DEF Infer
<1>4. SetIvarTo(r, ty) /\ changed' = TRUE /\ UNCHANGED <<phase, at, equated, born>>
  BY <1>1, <1>3 DEF SetIvar, Reject, Answer, table
<1> QED BY <1>2, <1>4

\* What a step of the compiler does to the table is a step of the table.
LEMMA StepRefines ==
    ASSUME Table, [Next]_vars
    PROVE  [TableNext]_table
<1> USE DEF Table
<1>1. ASSUME NEW ic \in Classes, AddIvar(ic)
      PROVE  [TableNext]_table
  BY <1>1 DEF AddIvar, TableNext
<1>2. ASSUME NEW l, NEW r, EquateTypes(l, r)
      PROVE  [TableNext]_table
  BY <1>2 DEF EquateTypes, table
<1>3. ASSUME EquateStep
      PROVE  [TableNext]_table
  <2>1. CASE Reject
    BY <2>1 DEF Reject, table
  <2> SUFFICES ASSUME ~Reject PROVE [TableNext]_table
    BY <2>1
  <2>2. InTable(Here.l) /\ InTable(Here.r)
    BY <1>3 DEF EquateStep
  <2>3. CASE AlreadyEqual \/ NeverIgnored
    BY <2>3 DEF AlreadyEqual, NeverIgnored, table
  <2>4. CASE EnterInner
    BY <2>4 DEF EnterInner, Instead, table
  <2>5. CASE BothUnknown
    <3>1. IvarUnify(L.slot, R.slot)
      BY <2>5 DEF BothUnknown
    <3>2. /\ L.slot \in Slots /\ R.slot \in Slots
          /\ PointedIvar(L.slot) # PointedIvar(R.slot)
      BY <2>2, <2>5, TwoRoots
    <3> QED BY <3>1, <3>2 DEF TableNext
  <2>6. CASE OneUnknown
    <3> SUFFICES ASSUME ~(UNCHANGED table) PROVE TableNext
      OBVIOUS
    <3>0. PICK r \in Slots : \E ty : SetIvarTo(r, ty) /\ PointedIvar(r) = r
      BY <2>2, <2>6, OneRoot
    <3>1. PICK ty : SetIvarTo(r, ty) /\ PointedIvar(r) = r
      BY <3>0
    <3>2. type' = [type EXCEPT ![r] = ty]
      BY <3>1 DEF SetIvarTo
    <3>3. type'[r] = ty
      BY <3>2 DEF TableTypeOK
    <3> QED BY <3>1, <3>3 DEF TableNext
  <2>7. CASE Decompose
    BY <2>7 DEF Decompose, Instead, Answer, Reject, table
  <2> QED BY <1>3, <2>3, <2>4, <2>5, <2>6, <2>7 DEF EquateStep
<1>4. ASSUME EndRules \/ EndPass \/ CheckForLoops
      PROVE  [TableNext]_table
  BY <1>4 DEF EndRules, EndPass, CheckForLoops, Reject, table
<1>5. ASSUME Defaults
      PROVE  [TableNext]_table
  BY <1>5 DEF Defaults, TableNext, table
<1>6. ASSUME Compact
      PROVE  [TableNext]_table
  <2> DEFINE ty == IF IsAlias(at) THEN Null ELSE Expanded(type[at], type)
  <2>1. at \in Slots /\ CompactIvar(at, ty)
    BY <1>6 DEF Compact
  <2> HIDE DEF ty
  <2>2. CompactIvar(at, type'[at])
    <3>1. CASE IsAlias(at)
      BY <2>1, <3>1 DEF CompactIvar
    <3>2. CASE ~IsAlias(at)
      <4>1. type' = [type EXCEPT ![at] = ty]
        BY <2>1, <3>2 DEF CompactIvar
      <4>2. type'[at] = ty
        BY <2>1, <4>1 DEF TableTypeOK
      <4> QED BY <2>1, <4>2
    <3> QED BY <3>1, <3>2
  <2> QED BY <2>1, <2>2 DEF TableNext
<1>7. ASSUME UNCHANGED vars
      PROVE  [TableNext]_table
  BY <1>7 DEF vars, table
<1> QED BY <1>1, <1>2, <1>3, <1>4, <1>5, <1>6, <1>7 DEF Next

\* Type inference uses the table as the table alone promises (ivar_unify on two
\* roots, set_ivar_to on an unknown one), whatever types are equated.
THEOREM TableIsRespected == Spec => TableRespected
<1>1. Init => TableInit
  BY DEF Init
<1>2. Table /\ [Next]_vars => [TableNext]_table
  BY StepRefines
<1>3. Table /\ [TableNext]_table => Table'
  BY TableStep
<1> QED BY <1>1, <1>2, <1>3, TableStart, PTL DEF Spec, TableRespected, TableSpec

\* Variables that were equated in type inference keep one root for ever.
THEOREM InferenceKeepsEqual == Spec => EquatedStayEqual
BY TableIsRespected, EquatedForever DEF TableRespected

(***************************************************************************)
(* Numbers.                                                                *)
(***************************************************************************)
\* Of finite sets, one has none of the others below it.
LEMMA MinimalSet ==
    ASSUME NEW D, D # {}, \A d \in D : IsFiniteSet(d)
    PROVE  \E d \in D : \A e \in D : e \subseteq d => e = d
<1> DEFINE S == UNION D
<1> DEFINE Below == StrictSubsetOrdering(S)
<1>0. D \subseteq SUBSET S
  OBVIOUS
<1> HIDE DEF S
<1>1. IsWellFoundedOn(Below, FiniteSubsetsOf(S))
  BY FS_StrictSubsetOrderingWellFounded
<1>2. D \subseteq FiniteSubsetsOf(S)
  BY <1>0 DEF FiniteSubsetsOf
<1>3. \A d, e \in D : e \subseteq d /\ e # d => <<e, d>> \in Below
  BY <1>0 DEF StrictSubsetOrdering
<1> HIDE DEF Below
<1>4. \E d \in D : \A e \in D : ~ (<<e, d>> \in Below)
  BY <1>1, <1>2, WFMin
<1> QED BY <1>3, <1>4

\* A set of numbers has a least one.
LEMMA LeastNatural ==
    ASSUME NEW T, T \subseteq Nat, T # {}
    PROVE  \E x \in T : \A y \in T : x <= y
<1> DEFINE D == {0..x : x \in T}
<1>1. D # {}
  <2> PICK x \in T : TRUE OBVIOUS
  <2>1. 0..x \in D OBVIOUS
  <2> QED BY <2>1
<1>2. \A d \in D : IsFiniteSet(d)
  <2>1. \A x \in T : x \in Int /\ 0 \in Int OBVIOUS
  <2> QED BY <2>1, FS_Interval
<1>3. PICK d \in D : \A e \in D : e \subseteq d => e = d
  <2> HIDE DEF D
  <2> QED BY <1>1, <1>2, MinimalSet
<1>4. PICK x \in T : d = 0..x
  OBVIOUS
<1>5. ASSUME NEW y \in T, y < x PROVE FALSE
  <2>1. 0..y \in D OBVIOUS
  <2>2. 0..y \subseteq 0..x BY <1>5
  <2>3. 0..y = 0..x BY <2>1, <2>2, <1>3, <1>4
  <2>4. x \in 0..x BY <1>4
  <2> QED BY <2>3, <2>4, <1>5
<1> QED BY <1>4, <1>5

\* A set with 0, and with n + 1 when with n, has all numbers.
LEMMA NaturalInduction ==
    ASSUME NEW T, 0 \in T, \A n \in Nat : n \in T => n + 1 \in T
    PROVE  Nat \subseteq T
<1> SUFFICES ASSUME Nat \ T # {} PROVE FALSE
  OBVIOUS
<1> DEFINE U == Nat \ T
<1>1. PICK x \in U : \A y \in U : x <= y
  <2>1. U \subseteq Nat /\ U # {} OBVIOUS
  <2> HIDE DEF U
  <2> QED BY <2>1, LeastNatural
<1>2. x \in Nat /\ x # 0 BY <1>1
<1>3. x - 1 \in Nat /\ x - 1 \notin U BY <1>1, <1>2
<1> QED BY <1>1, <1>2, <1>3

(***************************************************************************)
(* Terms.  What the model defines by recursion over types holds as it is   *)
(* written, and what holds of a type when it holds of its arguments holds  *)
(* of all types.                                                           *)
(***************************************************************************)
IsNested(g, n) == g = [k \in 0..n |-> TypesOf(IF k = 0 THEN {<< >>} ELSE Seq(g[k - 1]))]

LEMMA NestedExists == \A n \in Nat : \E g : IsNested(g, n)
<1> DEFINE N == {n \in Nat : \E g : IsNested(g, n)}
<1>1. 0 \in N
  <2> DEFINE g == [k \in 0..0 |-> TypesOf({<< >>})]
  <2>1. g = [k \in 0..0 |-> TypesOf(IF k = 0 THEN {<< >>} ELSE Seq(g[k - 1]))]
    OBVIOUS
  <2> QED BY <2>1 DEF IsNested
<1>2. ASSUME NEW n \in Nat, n \in N PROVE n + 1 \in N
  <2>1. PICK g : g = [k \in 0..n |-> TypesOf(IF k = 0 THEN {<< >>} ELSE Seq(g[k - 1]))]
    BY <1>2 DEF IsNested
  <2> DEFINE h == [k \in 0..(n + 1) |-> IF k <= n THEN g[k] ELSE TypesOf(Seq(g[n]))]
             l == [k \in 0..(n + 1) |-> TypesOf(IF k = 0 THEN {<< >>} ELSE Seq(h[k - 1]))]
  <2>2. ASSUME NEW k \in 0..(n + 1) PROVE h[k] = l[k]
    <3>1. CASE k = 0
      BY <2>1, <3>1
    <3>2. CASE k \in 1..n
      <4>1. k \in 0..n /\ k # 0 /\ k - 1 \in 0..(n + 1) /\ k - 1 <= n /\ k <= n
        BY <3>2
      <4>2. g[k] = TypesOf(Seq(g[k - 1]))
        BY <2>1, <4>1
      <4>3. h[k] = g[k] /\ h[k - 1] = g[k - 1]
        BY <4>1
      <4>4. l[k] = TypesOf(Seq(h[k - 1]))
        BY <4>1
      <4> QED BY <4>2, <4>3, <4>4
    <3>3. CASE k = n + 1
      <4>1. k # 0 /\ k - 1 = n /\ n \in 0..(n + 1) /\ n <= n /\ ~(k <= n)
        BY <3>3
      <4>2. h[n] = g[n] /\ h[k] = TypesOf(Seq(g[n]))
        BY <4>1
      <4>3. l[k] = TypesOf(Seq(h[k - 1]))
        BY <4>1
      <4> QED BY <4>1, <4>2, <4>3
    <3> QED BY <3>1, <3>2, <3>3
  <2>3. h = l
    BY <2>2
  <2>4. IsNested(h, n + 1)
    BY <2>3 DEF IsNested
  <2> HIDE DEF h, l
  <2> QED BY <2>4
<1>3. Nat \subseteq N
  <2> HIDE DEF N
  <2> QED BY <1>1, <1>2, NaturalInduction
<1> QED BY <1>3

LEMMA NestedDef ==
    /\ MaxNesting \in Nat
    /\ Nested[0] = TypesOf({<< >>})
    /\ \A n \in 1..MaxNesting : Nested[n] = TypesOf(Seq(Nested[n - 1]))
<1> DEFINE Is(g) == g = [n \in 0..MaxNesting |-> TypesOf(IF n = 0 THEN {<< >>} ELSE Seq(g[n - 1]))]
<1>1. MaxNesting \in Nat
  BY BoundsAssumption
<1>2. \E g : Is(g)
  BY <1>1, NestedExists DEF IsNested
<1>3. Is(Nested)
  <2>1. Nested = CHOOSE g : Is(g)
    BY DEF Nested
  <2> HIDE DEF Is
  <2> QED BY <1>2, <2>1
<1> QED BY <1>1, <1>3

\* A type is a variable or is built up.
LEMMA TypesOfIs ==
    ASSUME NEW A, NEW t
    PROVE  t \in TypesOf(A) <=>
              \/ \E i \in Nat : t = Infer(i)
              \/ \E con \in Constructors, args \in A : t = Term(con, args)
BY DEF TypesOf, Infer, Term

LEMMA NestedGrows == \A n \in 1..MaxNesting : Nested[n - 1] \subseteq Nested[n]
<1> DEFINE N == {n \in Nat : n + 1 \in 1..MaxNesting => Nested[n] \subseteq Nested[n + 1]}
<1>1. 0 \in N
  <2>1. 1 \in 1..MaxNesting => Nested[1] = TypesOf(Seq(Nested[0]))
    BY NestedDef
  <2>2. << >> \in Seq(Nested[0])
    OBVIOUS
  <2>3. ASSUME NEW t \in Nested[0] PROVE t \in TypesOf(Seq(Nested[0]))
    <3>1. t \in TypesOf({<< >>})
      BY NestedDef
    <3>2. CASE \E i \in Nat : t = Infer(i)
      BY <3>2, TypesOfIs
    <3>3. CASE \E con \in Constructors, args \in {<< >>} : t = Term(con, args)
      BY <3>3, <2>2, TypesOfIs
    <3> QED BY <3>1, <3>2, <3>3, TypesOfIs
  <2> QED BY <2>1, <2>3
<1>2. ASSUME NEW n \in Nat, n \in N PROVE n + 1 \in N
  <2> SUFFICES ASSUME n + 2 \in 1..MaxNesting PROVE Nested[n + 1] \subseteq Nested[n + 2]
    OBVIOUS
  <2>1. n + 1 \in 1..MaxNesting /\ MaxNesting \in Nat /\ (n + 1) - 1 = n /\ (n + 2) - 1 = n + 1
    BY NestedDef
  <2>2. Nested[n] \subseteq Nested[n + 1]
    BY <1>2, <2>1
  <2>3. Nested[n + 1] = TypesOf(Seq(Nested[n])) /\ Nested[n + 2] = TypesOf(Seq(Nested[n + 1]))
    BY <2>1, NestedDef
  <2>4. Seq(Nested[n]) \subseteq Seq(Nested[n + 1])
    BY <2>2
  <2> QED BY <2>3, <2>4, TypesOfIs
<1>3. Nat \subseteq N
  <2> HIDE DEF N
  <2> QED BY <1>1, <1>2, NaturalInduction
<1>4. ASSUME NEW n \in 1..MaxNesting PROVE Nested[n - 1] \subseteq Nested[n]
  <2>1. n - 1 \in Nat /\ (n - 1) + 1 = n
    BY NestedDef
  <2> QED BY <2>1, <1>3
<1> QED BY <1>4

\* Nothing nests deeper than TypeRefs.
LEMMA NestedIsType == \A n \in 0..MaxNesting : Nested[n] \subseteq TypeRefs
<1> DEFINE N == {n \in Nat : n <= MaxNesting => Nested[MaxNesting - n] \subseteq TypeRefs}
<1>0. MaxNesting \in Nat
  BY NestedDef
<1>1. 0 \in N
  BY <1>0 DEF TypeRefs
<1>2. ASSUME NEW n \in Nat, n \in N PROVE n + 1 \in N
  <2> SUFFICES ASSUME n + 1 <= MaxNesting PROVE Nested[MaxNesting - (n + 1)] \subseteq TypeRefs
    OBVIOUS
  <2>1. n <= MaxNesting /\ MaxNesting - n \in 1..MaxNesting
        /\ MaxNesting - (n + 1) = (MaxNesting - n) - 1
    BY <1>0
  <2> QED BY <1>2, <2>1, NestedGrows
<1>3. Nat \subseteq N
  <2> HIDE DEF N
  <2> QED BY <1>1, <1>2, NaturalInduction
<1>4. ASSUME NEW n \in 0..MaxNesting PROVE Nested[n] \subseteq TypeRefs
  <2>1. MaxNesting - n \in Nat /\ MaxNesting - n <= MaxNesting /\ MaxNesting - (MaxNesting - n) = n
    BY <1>0
  <2> QED BY <1>3, <2>1
<1> QED BY <1>4

LEMMA NestedArgs ==
    \A n \in 0..MaxNesting : \A t \in Nested[n] :
        /\ t = IF IsInfer(t) THEN Infer(t.slot) ELSE Term(t.con, t.args)
        /\ IsInfer(t) => t.slot \in Nat
        /\ ~IsInfer(t) => t.con \in Constructors
        /\ IF n = 0 THEN t.args = << >> ELSE t.args \in Seq(Nested[n - 1])
        /\ t.args \in Seq(TypeRefs)
<1> SUFFICES ASSUME NEW n \in 0..MaxNesting, NEW t \in Nested[n]
             PROVE  /\ t = IF IsInfer(t) THEN Infer(t.slot) ELSE Term(t.con, t.args)
                    /\ IsInfer(t) => t.slot \in Nat
                    /\ ~IsInfer(t) => t.con \in Constructors
                    /\ IF n = 0 THEN t.args = << >> ELSE t.args \in Seq(Nested[n - 1])
                    /\ t.args \in Seq(TypeRefs)
  OBVIOUS
<1>1. Nested[n] = TypesOf(IF n = 0 THEN {<< >>} ELSE Seq(Nested[n - 1]))
  <2>1. n = 0 \/ n \in 1..MaxNesting
    BY NestedDef
  <2> QED BY <2>1, NestedDef
<1>2. CASE \E i \in Nat : t = Infer(i)
  BY <1>2 DEF Infer, IsInfer
<1>3. CASE \E con \in Constructors :
             \E args \in IF n = 0 THEN {<< >>} ELSE Seq(Nested[n - 1]) : t = Term(con, args)
  <2>1. PICK con \in Constructors, args \in IF n = 0 THEN {<< >>} ELSE Seq(Nested[n - 1]) :
           t = Term(con, args)
    BY <1>3
  <2>2. t.con = con /\ t.args = args /\ ~IsInfer(t)
    BY <2>1, ConstructorsAssumption DEF Term, IsInfer
  <2>3. args \in Seq(TypeRefs)
    <3>1. CASE n = 0
      BY <3>1, <2>1
    <3>2. CASE n # 0
      <4>1. n - 1 \in 0..MaxNesting
        BY <3>2, NestedDef
      <4>2. Nested[n - 1] \subseteq TypeRefs
        BY <4>1, NestedIsType
      <4> QED BY <2>1, <3>2, <4>2
    <3> QED BY <3>1, <3>2
  <2> QED BY <2>1, <2>2, <2>3
<1> QED BY <1>1, <1>2, <1>3, TypesOfIs

\* The same of all types, for which the depth does not matter.
LEMMA TypeFacts ==
    /\ \A i \in Nat : Infer(i) \in TypeRefs
    /\ \A t \in TypeRefs :
          /\ t = IF IsInfer(t) THEN Infer(t.slot) ELSE Term(t.con, t.args)
          /\ IsInfer(t) => t.slot \in Nat
          /\ ~IsInfer(t) => t.con \in Constructors
          /\ t.args \in Seq(TypeRefs)
          /\ \A k \in DOMAIN t.args : t.args[k] \in TypeRefs
<1>1. MaxNesting \in 0..MaxNesting /\ 0 \in 0..MaxNesting
  BY NestedDef
<1>2. \A t \in TypeRefs :
          /\ t = IF IsInfer(t) THEN Infer(t.slot) ELSE Term(t.con, t.args)
          /\ IsInfer(t) => t.slot \in Nat
          /\ ~IsInfer(t) => t.con \in Constructors
          /\ t.args \in Seq(TypeRefs)
  BY <1>1, NestedArgs DEF TypeRefs
<1>3. \A i \in Nat : Infer(i) \in TypeRefs
  BY <1>1, NestedDef, NestedIsType, TypesOfIs
<1>4. \A s \in Seq(TypeRefs) : \A k \in DOMAIN s : s[k] \in TypeRefs
  OBVIOUS
<1> QED BY <1>2, <1>3, <1>4

\* Induction over types.
LEMMA TypeInduction ==
    ASSUME NEW S, \A t \in TypeRefs : (\A k \in DOMAIN t.args : t.args[k] \in S) => t \in S
    PROVE  TypeRefs \subseteq S
<1> DEFINE N == {n \in Nat : n \in 0..MaxNesting => Nested[n] \subseteq S}
<1>0. MaxNesting \in Nat
  BY NestedDef
<1>1. 0 \in N
  <2> SUFFICES ASSUME NEW t \in Nested[0] PROVE t \in S
    OBVIOUS
  <2>1. t.args = << >> /\ t \in TypeRefs
    BY <1>0, NestedArgs, NestedIsType
  <2> QED BY <2>1
<1>2. ASSUME NEW n \in Nat, n \in N PROVE n + 1 \in N
  <2> SUFFICES ASSUME n + 1 \in 0..MaxNesting, NEW t \in Nested[n + 1] PROVE t \in S
    OBVIOUS
  <2>1. n \in 0..MaxNesting /\ n + 1 # 0 /\ (n + 1) - 1 = n
    BY <1>0
  <2>2. t.args \in Seq(Nested[n]) /\ t \in TypeRefs
    BY <2>1, NestedArgs, NestedIsType
  <2>3. Nested[n] \subseteq S
    BY <1>2, <2>1
  <2>4. \A k \in DOMAIN t.args : t.args[k] \in S
    BY <2>2, <2>3
  <2> QED BY <2>2, <2>4
<1>3. Nat \subseteq N
  <2> HIDE DEF N
  <2> QED BY <1>1, <1>2, NaturalInduction
<1> QED BY <1>0, <1>3 DEF TypeRefs

(***************************************************************************)
(* Vars and Subst are such recursions: each makes of a type what it makes  *)
(* of its arguments, and of a variable what it is told.                    *)
(***************************************************************************)
FoldOf(union, to, f, s) ==
    IF IsInfer(s) THEN to[s.slot]
    ELSE IF union THEN UNION {f[s.args[k]] : k \in DOMAIN s.args}
    ELSE Term(s.con, [k \in DOMAIN s.args |-> f[s.args[k]]])

LEMMA FoldsAlike ==
    ASSUME NEW union, NEW to, NEW f, NEW g, NEW s,
           \A k \in DOMAIN s.args : f[s.args[k]] = g[s.args[k]]
    PROVE  FoldOf(union, to, f, s) = FoldOf(union, to, g, s)
<1>1. {f[s.args[k]] : k \in DOMAIN s.args} = {g[s.args[k]] : k \in DOMAIN s.args}
  OBVIOUS
<1>2. [k \in DOMAIN s.args |-> f[s.args[k]]] = [k \in DOMAIN s.args |-> g[s.args[k]]]
  OBVIOUS
<1> QED BY <1>1, <1>2 DEF FoldOf

LEMMA FoldExists ==
    ASSUME NEW union, NEW to
    PROVE  \E f : f = [s \in TypeRefs |-> FoldOf(union, to, f, s)]
<1> DEFINE Is(n, f) == f = [s \in Nested[n] |-> FoldOf(union, to, f, s)]
           N == {n \in Nat : n \in 0..MaxNesting => \E f : Is(n, f)}
<1>0. MaxNesting \in Nat
  BY NestedDef
<1>1. 0 \in N
  <2> DEFINE f == [s \in Nested[0] |-> FoldOf(union, to, << >>, s)]
             g == [s \in Nested[0] |-> FoldOf(union, to, f, s)]
  <2>1. ASSUME NEW s \in Nested[0] PROVE f[s] = g[s]
    <3>1. s.args = << >>
      BY <1>0, NestedArgs
    <3>2. FoldOf(union, to, << >>, s) = FoldOf(union, to, f, s)
      <4> HIDE DEF f
      <4>1. \A k \in DOMAIN s.args : << >>[s.args[k]] = f[s.args[k]]
        BY <3>1
      <4> QED BY <4>1, FoldsAlike
    <3> QED BY <3>2
  <2>2. f = g
    BY <2>1
  <2>3. Is(0, f)
    BY <2>2
  <2> HIDE DEF f, Is
  <2> QED BY <2>3
<1>2. ASSUME NEW n \in Nat, n \in N PROVE n + 1 \in N
  <2> SUFFICES ASSUME n + 1 \in 0..MaxNesting PROVE \E f : Is(n + 1, f)
    OBVIOUS
  <2>1. n \in 0..MaxNesting /\ n + 1 # 0 /\ (n + 1) - 1 = n /\ n + 1 \in 1..MaxNesting
    BY <1>0
  <2>2. PICK f : f = [s \in Nested[n] |-> FoldOf(union, to, f, s)]
    BY <1>2, <2>1
  <2> DEFINE h == [s \in Nested[n + 1] |-> FoldOf(union, to, f, s)]
             g == [s \in Nested[n + 1] |-> FoldOf(union, to, h, s)]
  <2>3. ASSUME NEW s \in Nested[n + 1] PROVE h[s] = g[s]
    <3>1. s.args \in Seq(Nested[n]) /\ Nested[n] \subseteq Nested[n + 1]
      BY <2>1, NestedArgs, NestedGrows
    <3>2. ASSUME NEW a \in Nested[n] PROVE f[a] = h[a]
      <4>1. f[a] = FoldOf(union, to, f, a)
        BY <2>2
      <4>2. a \in Nested[n + 1]
        BY <3>1
      <4> HIDE DEF g
      <4>3. h[a] = FoldOf(union, to, f, a)
        BY <4>2
      <4> QED BY <4>1, <4>3
    <3>3. FoldOf(union, to, f, s) = FoldOf(union, to, h, s)
      <4>0. \A k \in DOMAIN s.args : s.args[k] \in Nested[n]
        BY <3>1
      <4> HIDE DEF h
      <4>1. \A k \in DOMAIN s.args : f[s.args[k]] = h[s.args[k]]
        BY <4>0, <3>2
      <4> QED BY <4>1, FoldsAlike
    <3> QED BY <3>3
  <2>4. h = g
    BY <2>3
  <2>5. Is(n + 1, h)
    BY <2>4
  <2> HIDE DEF h, Is
  <2> QED BY <2>5
<1>3. Nat \subseteq N
  <2> HIDE DEF N
  <2> QED BY <1>1, <1>2, NaturalInduction
<1>4. \E f : Is(MaxNesting, f)
  <2>1. MaxNesting \in N /\ MaxNesting \in 0..MaxNesting
    BY <1>0, <1>3
  <2> HIDE DEF Is
  <2> QED BY <2>1
<1> QED BY <1>4 DEF TypeRefs

\* The variables in a type.
LEMMA VarsDef ==
    \A t \in TypeRefs :
        Vars(t) = IF IsInfer(t) THEN {t.slot} ELSE UNION {Vars(t.args[k]) : k \in DOMAIN t.args}
<1> DEFINE Is(f) == f = [s \in TypeRefs |->
                           IF IsInfer(s) THEN {s.slot} ELSE UNION {f[s.args[k]] : k \in DOMAIN s.args}]
           named == CHOOSE f : Is(f)
           to == [i \in Nat |-> {i}]
<1>1. \E f : Is(f)
  <2>1. PICK f : f = [s \in TypeRefs |-> FoldOf(TRUE, to, f, s)]
    BY FoldExists
  <2>2. ASSUME NEW s \in TypeRefs
        PROVE  FoldOf(TRUE, to, f, s)
                 = IF IsInfer(s) THEN {s.slot} ELSE UNION {f[s.args[k]] : k \in DOMAIN s.args}
    <3>1. IsInfer(s) => s.slot \in Nat
      BY TypeFacts
    <3> QED BY <3>1 DEF FoldOf
  <2>3. [s \in TypeRefs |-> FoldOf(TRUE, to, f, s)]
          = [s \in TypeRefs |->
               IF IsInfer(s) THEN {s.slot} ELSE UNION {f[s.args[k]] : k \in DOMAIN s.args}]
    BY <2>2
  <2>4. Is(f)
    BY <2>1, <2>3
  <2> HIDE DEF Is
  <2> QED BY <2>4
<1>2. Is(named)
  <2> HIDE DEF Is
  <2> QED BY <1>1
<1>3. \A t : Vars(t) = named[t]
  BY DEF Vars
<1> HIDE DEF named
<1>4. ASSUME NEW t \in TypeRefs
      PROVE  named[t] = IF IsInfer(t) THEN {t.slot} ELSE UNION {named[t.args[k]] : k \in DOMAIN t.args}
  BY <1>2
<1>5. ASSUME NEW t \in TypeRefs
      PROVE  Vars(t) = IF IsInfer(t) THEN {t.slot} ELSE UNION {Vars(t.args[k]) : k \in DOMAIN t.args}
  <2>1. {Vars(t.args[k]) : k \in DOMAIN t.args} = {named[t.args[k]] : k \in DOMAIN t.args}
    BY <1>3
  <2> QED BY <2>1, <1>3, <1>4
<1> QED BY <1>5

\* Other types for the variables of a type.
LEMMA SubstDef ==
    \A to : \A t \in TypeRefs :
        Subst(t, to) = IF IsInfer(t) THEN to[t.slot]
                       ELSE Term(t.con, [k \in DOMAIN t.args |-> Subst(t.args[k], to)])
<1> SUFFICES ASSUME NEW to, NEW t \in TypeRefs
             PROVE  Subst(t, to) = IF IsInfer(t) THEN to[t.slot]
                                   ELSE Term(t.con, [k \in DOMAIN t.args |-> Subst(t.args[k], to)])
  OBVIOUS
<1> DEFINE Is(f) == f = [s \in TypeRefs |->
                           IF IsInfer(s) THEN to[s.slot]
                           ELSE Term(s.con, [k \in DOMAIN s.args |-> f[s.args[k]]])]
           subst == CHOOSE f : Is(f)
<1>1. \E f : Is(f)
  <2>1. PICK f : f = [s \in TypeRefs |-> FoldOf(FALSE, to, f, s)]
    BY FoldExists
  <2>2. Is(f)
    BY <2>1 DEF FoldOf
  <2> HIDE DEF Is
  <2> QED BY <2>2
<1>2. Is(subst)
  <2> HIDE DEF Is
  <2> QED BY <1>1
<1>3. \A s : Subst(s, to) = subst[s]
  BY DEF Subst
<1> HIDE DEF subst
<1>4. subst[t] = IF IsInfer(t) THEN to[t.slot]
                 ELSE Term(t.con, [k \in DOMAIN t.args |-> subst[t.args[k]]])
  BY <1>2
<1>5. [k \in DOMAIN t.args |-> Subst(t.args[k], to)] = [k \in DOMAIN t.args |-> subst[t.args[k]]]
  BY <1>3
<1> QED BY <1>3, <1>4, <1>5

(***************************************************************************)
(* Types for variables.                                                    *)
(***************************************************************************)
\* A type with types for its variables is built as the type is.
LEMMA SubstTop ==
    ASSUME NEW t \in TypeRefs, ~IsInfer(t), NEW to
    PROVE  /\ Subst(t, to).con = t.con
           /\ Len(Subst(t, to).args) = Len(t.args)
           /\ DOMAIN Subst(t, to).args = DOMAIN t.args
           /\ \A k \in DOMAIN t.args : Subst(t, to).args[k] = Subst(t.args[k], to)
<1> DEFINE args == [k \in DOMAIN t.args |-> Subst(t.args[k], to)]
<1>1. Subst(t, to) = Term(t.con, args)
  BY SubstDef
<1>2. t.args \in Seq(TypeRefs)
  BY TypeFacts
<1>3. DOMAIN t.args = 1..Len(t.args) /\ Len(t.args) \in Nat
  BY <1>2
<1>4. Len(args) = Len(t.args)
  BY <1>3
<1>5. Subst(t, to).con = t.con /\ Subst(t, to).args = args
  BY <1>1 DEF Term
<1> QED BY <1>4, <1>5

\* Its variables are those of the types put for them.
LEMMA VarsSubst ==
    ASSUME NEW to
    PROVE  \A t \in TypeRefs : Subst(t, to) \in TypeRefs =>
              \A j \in Vars(Subst(t, to)) : \E i \in Vars(t) : j \in Vars(to[i])
<1> DEFINE Is(t) == Subst(t, to) \in TypeRefs =>
                      \A j \in Vars(Subst(t, to)) : \E i \in Vars(t) : j \in Vars(to[i])
           S == {t \in TypeRefs : Is(t)}
<1>1. ASSUME NEW t \in TypeRefs, \A k \in DOMAIN t.args : t.args[k] \in S
      PROVE  t \in S
  <2>1. CASE IsInfer(t)
    <3>1. Vars(t) = {t.slot} /\ Subst(t, to) = to[t.slot]
      BY <2>1, VarsDef, SubstDef
    <3> QED BY <3>1
  <2>2. CASE ~IsInfer(t)
    <3> SUFFICES ASSUME Subst(t, to) \in TypeRefs, NEW j \in Vars(Subst(t, to))
                 PROVE  \E i \in Vars(t) : j \in Vars(to[i])
      OBVIOUS
    <3> DEFINE u == Subst(t, to)
    <3>1. /\ ~IsInfer(u) /\ DOMAIN u.args = DOMAIN t.args
          /\ \A k \in DOMAIN t.args : u.args[k] = Subst(t.args[k], to)
      BY <2>2, SubstTop DEF IsInfer
    <3>2. \A k \in DOMAIN u.args : u.args[k] \in TypeRefs
      BY TypeFacts
    <3>3. Vars(u) = UNION {Vars(u.args[k]) : k \in DOMAIN u.args}
      BY <3>1, VarsDef
    <3> HIDE DEF u
    <3>4. PICK k \in DOMAIN t.args : j \in Vars(u.args[k])
      BY <3>1, <3>3 DEF u
    <3>5. Is(t.args[k]) /\ u.args[k] = Subst(t.args[k], to) /\ Subst(t.args[k], to) \in TypeRefs
      BY <1>1, <3>1, <3>2, <3>4
    <3>6. PICK i \in Vars(t.args[k]) : j \in Vars(to[i])
      BY <3>4, <3>5
    <3>7. i \in Vars(t)
      BY <2>2, <3>6, VarsDef
    <3> QED BY <3>6, <3>7
  <2> QED BY <2>1, <2>2
<1>2. TypeRefs \subseteq S
  <2> HIDE DEF S
  <2> QED BY <1>1, TypeInduction
<1> QED BY <1>2

\* A type has the value that it has with types for its variables that have
\* the values of the variables.
LEMMA SubstSubst ==
    ASSUME NEW to, NEW v
    PROVE  \A t \in TypeRefs :
              Subst(t, to) \in TypeRefs /\ (\A i \in Vars(t) : Subst(to[i], v) = v[i])
                => Subst(Subst(t, to), v) = Subst(t, v)
<1> DEFINE Is(t) == Subst(t, to) \in TypeRefs /\ (\A i \in Vars(t) : Subst(to[i], v) = v[i])
                      => Subst(Subst(t, to), v) = Subst(t, v)
           S == {t \in TypeRefs : Is(t)}
<1>1. ASSUME NEW t \in TypeRefs, \A k \in DOMAIN t.args : t.args[k] \in S
      PROVE  t \in S
  <2> SUFFICES ASSUME Subst(t, to) \in TypeRefs, \A i \in Vars(t) : Subst(to[i], v) = v[i]
               PROVE  Subst(Subst(t, to), v) = Subst(t, v)
    OBVIOUS
  <2>1. CASE IsInfer(t)
    <3>1. Vars(t) = {t.slot} /\ Subst(t, to) = to[t.slot] /\ Subst(t, v) = v[t.slot]
      BY <2>1, VarsDef, SubstDef
    <3> QED BY <3>1
  <2>2. CASE ~IsInfer(t)
    <3> DEFINE u == Subst(t, to)
    <3>1. /\ ~IsInfer(u) /\ u.con = t.con /\ DOMAIN u.args = DOMAIN t.args
          /\ \A k \in DOMAIN t.args : u.args[k] = Subst(t.args[k], to)
      BY <2>2, SubstTop DEF IsInfer
    <3>2. \A k \in DOMAIN u.args : u.args[k] \in TypeRefs
      BY TypeFacts
    <3>3. u \in TypeRefs
      OBVIOUS
    <3> HIDE DEF u
    <3>4. ASSUME NEW k \in DOMAIN t.args PROVE Subst(u.args[k], v) = Subst(t.args[k], v)
      <4>1. Is(t.args[k]) /\ Vars(t.args[k]) \subseteq Vars(t)
        BY <1>1, <2>2, VarsDef
      <4> QED BY <4>1, <3>1, <3>2
    <3>5. [k \in DOMAIN u.args |-> Subst(u.args[k], v)] = [k \in DOMAIN t.args |-> Subst(t.args[k], v)]
      BY <3>1, <3>4
    <3>6. /\ Subst(u, v) = Term(u.con, [k \in DOMAIN u.args |-> Subst(u.args[k], v)])
          /\ Subst(t, v) = Term(t.con, [k \in DOMAIN t.args |-> Subst(t.args[k], v)])
      BY <2>2, <3>1, <3>3, SubstDef
    <3> QED BY <3>1, <3>5, <3>6 DEF u
  <2> QED BY <2>1, <2>2
<1>2. TypeRefs \subseteq S
  <2> HIDE DEF S
  <2> QED BY <1>1, TypeInduction
<1> QED BY <1>2

\* The value of a variable in a type nests less deep than that of the type.
LEMMA Descent ==
    ASSUME NEW v
    PROVE  \A t \in TypeRefs : ~IsInfer(t) =>
              \A n \in 0..MaxNesting : Subst(t, v) \in Nested[n] =>
                 \A i \in Vars(t) : n # 0 /\ v[i] \in Nested[n - 1]
<1> DEFINE Is(t) == ~IsInfer(t) =>
              \A n \in 0..MaxNesting : Subst(t, v) \in Nested[n] =>
                 \A i \in Vars(t) : n # 0 /\ v[i] \in Nested[n - 1]
           S == {t \in TypeRefs : Is(t)}
<1>1. ASSUME NEW t \in TypeRefs, \A k \in DOMAIN t.args : t.args[k] \in S
      PROVE  t \in S
  <2> SUFFICES ASSUME ~IsInfer(t), NEW n \in 0..MaxNesting, Subst(t, v) \in Nested[n],
                      NEW i \in Vars(t)
               PROVE  n # 0 /\ v[i] \in Nested[n - 1]
    OBVIOUS
  <2>1. PICK k \in DOMAIN t.args : i \in Vars(t.args[k])
    BY VarsDef
  <2> DEFINE u == Subst(t, v)
  <2>2. DOMAIN u.args = DOMAIN t.args /\ u.args[k] = Subst(t.args[k], v)
    BY <2>1, SubstTop
  <2>3. IF n = 0 THEN u.args = << >> ELSE u.args \in Seq(Nested[n - 1])
    BY NestedArgs
  <2> HIDE DEF u
  <2>4. n # 0 /\ u.args[k] \in Nested[n - 1]
    <3>1. n # 0
      BY <2>1, <2>2, <2>3
    <3>2. u.args \in Seq(Nested[n - 1]) /\ k \in DOMAIN u.args
      BY <2>1, <2>2, <2>3, <3>1
    <3> QED BY <3>1, <3>2
  <2>5. n - 1 \in 0..MaxNesting /\ n \in 1..MaxNesting
    BY <2>4, NestedDef
  <2>6. t.args[k] \in S /\ t.args[k] \in TypeRefs
    BY <1>1, <2>1
  <2>7. CASE IsInfer(t.args[k])
    <3>1. Vars(t.args[k]) = {i} /\ Subst(t.args[k], v) = v[i]
      BY <2>1, <2>6, <2>7, VarsDef, SubstDef
    <3> QED BY <3>1, <2>2, <2>4
  <2>8. CASE ~IsInfer(t.args[k])
    <3>1. n - 1 # 0 /\ v[i] \in Nested[(n - 1) - 1]
      BY <2>1, <2>2, <2>4, <2>5, <2>6, <2>8
    <3>2. n - 1 \in 1..MaxNesting
      BY <3>1, <2>5
    <3>3. Nested[(n - 1) - 1] \subseteq Nested[n - 1]
      BY <3>2, NestedGrows
    <3> QED BY <3>1, <3>3, <2>4
  <2> QED BY <2>7, <2>8
<1>2. TypeRefs \subseteq S
  <2> HIDE DEF S
  <2> QED BY <1>1, TypeInduction
<1> QED BY <1>2

\* The value of j is a part of that of i.
HasPart(v, i, j) ==
    \E t \in TypeRefs : \E k \in Vars(t) :
        ~IsInfer(t) /\ v[i] = Subst(t, v) /\ v[j] = v[k]

\* No values are each nested in another of them.
LEMMA NoDescent ==
    ASSUME NEW v, NEW C, C # {}, \A i \in C : v[i] \in TypeRefs,
           \A i \in C : \E j \in C : HasPart(v, i, j)
    PROVE  FALSE
<1> DEFINE N == {n \in 0..MaxNesting : \E i \in C : v[i] \in Nested[n]}
<1>1. N # {} /\ N \subseteq Nat
  <2>1. MaxNesting \in 0..MaxNesting /\ MaxNesting \in Nat
    BY NestedDef
  <2> QED BY <2>1 DEF TypeRefs
<1>2. PICK n \in N : \A m \in N : n <= m
  <2> HIDE DEF N
  <2> QED BY <1>1, LeastNatural
<1>3. PICK i \in C : v[i] \in Nested[n]
  BY <1>2
<1>4. PICK j \in C : \E t \in TypeRefs : \E k \in Vars(t) :
                       ~IsInfer(t) /\ v[i] = Subst(t, v) /\ v[j] = v[k]
  BY <1>3 DEF HasPart
<1>5. n # 0 /\ v[j] \in Nested[n - 1]
  BY <1>2, <1>3, <1>4, Descent
<1>6. n - 1 \in N /\ n \in Nat
  BY <1>5, NestedDef
<1> QED BY <1>2, <1>6

(***************************************************************************)
(* Types.  Whatever is asked, the table and the equations hold types over  *)
(* the variables there are.                                                *)
(***************************************************************************)
Scoped == {t \in TypeRefs : Vars(t) \subseteq Slots}

TypesInv ==
    /\ Table
    /\ Len(alias) <= MaxIvars /\ born \in [1..Len(alias) -> Classes]
    /\ \A i \in Slots : alias[i] = 0 => type[i] \in Scoped
    /\ todo \in Seq([l : Scoped, r : Scoped, top : BOOLEAN])
    /\ \A k \in DOMAIN todo : todo[k].top => Len(todo) = 1
    /\ phase \in {"check", "compact", "done"} => todo = << >>

\* Types over fewer variables are types over more.
LEMMA ScopeGrows ==
    ASSUME Slots \subseteq Slots'
    PROVE  Scoped \subseteq Scoped'
BY DEF Scoped

\* The types a type is built from are over its variables.
LEMMA ScopedArgs ==
    /\ \A i \in Slots : Infer(i) \in Scoped
    /\ \A t \in Scoped : /\ t.args \in Seq(Scoped)
                         /\ IsInfer(t) => t.slot \in Slots /\ t = Infer(t.slot)
                         /\ ~IsInfer(t) => t = Term(t.con, t.args)
<1>1. ASSUME NEW i \in Slots PROVE Infer(i) \in Scoped
  <2>1. i \in Nat
    BY DEF Slots
  <2>2. Infer(i) \in TypeRefs
    BY <2>1, TypeFacts
  <2>3. Vars(Infer(i)) = {i}
    BY <2>2, VarsDef DEF Infer, IsInfer
  <2> QED BY <2>2, <2>3 DEF Scoped
<1>2. ASSUME NEW t \in Scoped
      PROVE  /\ t.args \in Seq(Scoped)
             /\ IsInfer(t) => t.slot \in Slots /\ t = Infer(t.slot)
             /\ ~IsInfer(t) => t = Term(t.con, t.args)
  <2>1. t \in TypeRefs /\ Vars(t) \subseteq Slots
    BY DEF Scoped
  <2>2. /\ t.args \in Seq(TypeRefs)
        /\ t = IF IsInfer(t) THEN Infer(t.slot) ELSE Term(t.con, t.args)
    BY <2>1, TypeFacts
  <2>3. CASE IsInfer(t)
    <3>1. Vars(t) = {t.slot} /\ t.args = << >>
      BY <2>1, <2>2, <2>3, VarsDef DEF Infer
    <3> QED BY <3>1, <2>1, <2>2, <2>3
  <2>4. CASE ~IsInfer(t)
    <3>1. Vars(t) = UNION {Vars(t.args[k]) : k \in DOMAIN t.args}
      BY <2>1, <2>4, VarsDef
    <3>2. ASSUME NEW k \in DOMAIN t.args PROVE t.args[k] \in Scoped
      BY <3>1, <2>1, <2>2 DEF Scoped
    <3>3. t.args \in Seq(Scoped)
      BY <3>2, <2>2
    <3> QED BY <3>3, <2>2, <2>4
  <2> QED BY <2>3, <2>4
<1> QED BY <1>1, <1>2

\* get_type looks up a type over the variables there are.
LEMMA GetTypeScoped ==
    ASSUME TypesInv, NEW t \in Scoped
    PROVE  InTable(t) /\ GetType(t) \in Scoped
<1>1. CASE ~IsInfer(t)
  BY <1>1 DEF InTable, GetType
<1>2. CASE IsInfer(t)
  <2>1. t.slot \in Slots
    BY <1>2, ScopedArgs
  <2>2. PointedIvar(t.slot) \in Slots /\ alias[PointedIvar(t.slot)] = 0
    BY <2>1, LookupsEnd DEF TypesInv, Table, IsAlias
  <2> QED BY <2>1, <2>2, <1>2 DEF TypesInv, InTable, GetType
<1> QED BY <1>1, <1>2

\* The first of the calls, and the others.
LEMMA TypesHere ==
    ASSUME TypesInv, todo # << >>
    PROVE  /\ Here \in [l : Scoped, r : Scoped, top : BOOLEAN]
           /\ Tail(todo) \in Seq([l : Scoped, r : Scoped, top : BOOLEAN])
           /\ \A k \in DOMAIN Tail(todo) : ~Tail(todo)[k].top
           /\ Here.top => Tail(todo) = << >>
           /\ InTable(Here.l) /\ InTable(Here.r) /\ L \in Scoped /\ R \in Scoped
<1> DEFINE X == [l : Scoped, r : Scoped, top : BOOLEAN]
           n == Len(todo)
<1>1. todo \in Seq(X) /\ \A k \in DOMAIN todo : todo[k].top => n = 1
  BY DEF TypesInv
<1> HIDE DEF X
<1>2. n \in Nat /\ n >= 1 /\ DOMAIN todo = 1..n /\ Here = todo[1] /\ Here \in X
  BY <1>1 DEF Here
<1>3. Tail(todo) \in Seq(X) /\ Len(Tail(todo)) = n - 1 /\ DOMAIN Tail(todo) = 1..(n - 1)
  BY <1>1, <1>2
<1>4. \A k \in 1..(n - 1) : Tail(todo)[k] = todo[k + 1]
  BY <1>1
<1>5. ASSUME NEW k \in 1..(n - 1) PROVE ~Tail(todo)[k].top
  <2>1. k + 1 \in DOMAIN todo /\ n # 1
    BY <1>2
  <2> QED BY <2>1, <1>1, <1>4
<1>6. Here.top => Tail(todo) = << >>
  BY <1>1, <1>2, <1>3
<1>7. Here.l \in Scoped /\ Here.r \in Scoped
  BY <1>2 DEF X
<1>8. InTable(Here.l) /\ InTable(Here.r) /\ L \in Scoped /\ R \in Scoped
  BY <1>7, GetTypeScoped DEF L, R
<1> QED BY <1>2, <1>3, <1>5, <1>6, <1>8 DEF X

\* What equate_types leaves of its calls.
LEMMA TypesCalls ==
    ASSUME NEW X, NEW rest \in Seq(X), \A k \in DOMAIN rest : ~rest[k].top,
           NEW calls \in Seq(X), \A k \in DOMAIN calls : ~calls[k].top
    PROVE  calls \o rest \in Seq(X) /\ \A k \in DOMAIN (calls \o rest) : ~(calls \o rest)[k].top
<1> DEFINE all == calls \o rest
           n == Len(calls)
           m == Len(rest)
<1>1. /\ n \in Nat /\ m \in Nat /\ DOMAIN calls = 1..n /\ DOMAIN rest = 1..m
      /\ DOMAIN all = 1..(n + m) /\ all \in Seq(X)
      /\ \A k \in 1..(n + m) : all[k] = IF k <= n THEN calls[k] ELSE rest[k - n]
  OBVIOUS
<1>2. \A k \in 1..(n + m) : IF k <= n THEN k \in 1..n ELSE k - n \in 1..m
  BY <1>1
<1> HIDE DEF all, n, m
<1>3. ASSUME NEW k \in 1..(n + m) PROVE ~all[k].top
  <2>1. CASE k <= n
    <3>1. all[k] = calls[k] /\ k \in DOMAIN calls
      BY <2>1, <1>1, <1>2
    <3> QED BY <3>1
  <2>2. CASE ~(k <= n)
    <3>1. all[k] = rest[k - n] /\ k - n \in DOMAIN rest
      BY <2>2, <1>1, <1>2
    <3> QED BY <3>1
  <2> QED BY <2>1, <2>2
<1> QED BY <1>1, <1>3 DEF all

\* A step of equate_types_inner leaves types over the variables there are.
LEMMA TypesEquate ==
    ASSUME TypesInv, EquateStep
    PROVE  TypesInv'
<1> DEFINE X == [l : Scoped, r : Scoped, top : BOOLEAN]
<1>1. /\ Table /\ phase \in {"rules", "pass"} /\ todo # << >>
      /\ born' = born /\ phase' \in {phase, "error"}
  BY DEF EquateStep, TypesInv, Reject, AlreadyEqual, NeverIgnored, EnterInner, BothUnknown,
         OneUnknown, SetIvar, Decompose, Answer, Instead
<1>2. /\ Here \in X /\ Tail(todo) \in Seq(X)
      /\ \A k \in DOMAIN Tail(todo) : ~Tail(todo)[k].top
      /\ Here.top => Tail(todo) = << >>
      /\ InTable(Here.l) /\ InTable(Here.r) /\ L \in Scoped /\ R \in Scoped
  BY <1>1, TypesHere
<1>3. [TableNext]_table
  BY <1>1, StepRefines DEF Next
<1>4. Table'
  BY <1>1, <1>3, TableStep
<1>5. /\ todo \in Seq(X) /\ \A k \in DOMAIN todo : todo[k].top => Len(todo) = 1
      /\ Len(alias) <= MaxIvars /\ born \in [1..Len(alias) -> Classes]
      /\ \A i \in Slots : alias[i] = 0 => type[i] \in Scoped
  BY DEF TypesInv
<1>6. ASSUME Len(alias') = Len(alias),
             \A i \in Slots : alias'[i] = 0 => type'[i] \in Scoped,
             todo' \in Seq(X),
             \A k \in DOMAIN todo' : todo'[k].top => Len(todo') = 1
      PROVE  TypesInv'
  <2>1. Slots' = Slots /\ Scoped' = Scoped
    BY <1>6 DEF Slots, Scoped
  <2> QED BY <2>1, <1>1, <1>4, <1>5, <1>6 DEF TypesInv
<1> HIDE DEF X
<1>7. CASE Reject
  BY <1>5, <1>6, <1>7 DEF Reject
<1>8. ASSUME todo' = Tail(todo),
             Len(alias') = Len(alias),
             \A i \in Slots : alias'[i] = 0 => type'[i] \in Scoped
      PROVE  TypesInv'
  <2>1. todo' \in Seq(X) /\ \A k \in DOMAIN todo' : todo'[k].top => Len(todo') = 1
    BY <1>2, <1>8
  <2> QED BY <2>1, <1>6, <1>8
<1>9. ASSUME NEW calls \in Seq(X), \A k \in DOMAIN calls : ~calls[k].top, Instead(calls)
      PROVE  TypesInv'
  <2>1. todo' = calls \o Tail(todo) /\ alias' = alias /\ type' = type
    BY <1>9 DEF Instead
  <2>2. todo' \in Seq(X) /\ \A k \in DOMAIN todo' : ~todo'[k].top
    BY <1>2, <1>9, <2>1, TypesCalls
  <2> QED BY <1>5, <1>6, <2>1, <2>2
<1>10. CASE AlreadyEqual \/ NeverIgnored
  BY <1>5, <1>8, <1>10 DEF AlreadyEqual, NeverIgnored, Answer
<1>11. CASE EnterInner
  <2> DEFINE c == Call(L, R, FALSE)
  <2>1. Instead(<<c>>)
    BY <1>11 DEF EnterInner
  <2>2. c \in X /\ ~c.top
    BY <1>2 DEF Call, X
  <2> HIDE DEF c
  <2>3. <<c>> \in Seq(X) /\ \A k \in DOMAIN <<c>> : ~(<<c>>)[k].top
    BY <2>2
  <2> QED BY <2>1, <2>3, <1>9
<1>12. CASE BothUnknown /\ ~Reject
  <2>1. IvarUnify(L.slot, R.slot) /\ todo' = Tail(todo)
    BY <1>12 DEF BothUnknown, Answer
  <2>2. /\ L.slot \in Slots /\ R.slot \in Slots
        /\ PointedIvar(L.slot) # PointedIvar(R.slot)
    BY <1>1, <1>2, <1>12, TwoRoots
  <2> DEFINE r == PointedIvar(R.slot)
  <2>3. r \in Slots
    BY <1>1, <2>2, LookupsEnd DEF Table
  <2>4. alias' = [alias EXCEPT ![r] = L.slot] /\ type' = [type EXCEPT ![r] = Null]
    BY <2>1 DEF IvarUnify
  <2> HIDE DEF r
  <2>5. /\ alias \in Seq(Nat) /\ type = [i \in Slots |-> type[i]] /\ 0 \notin Slots
        /\ Slots = 1..Len(alias)
    BY <1>1 DEF Table, TableTypeOK, Slots
  <2>6. /\ Len(alias') = Len(alias)
        /\ \A i \in Slots : i # r => alias'[i] = alias[i] /\ type'[i] = type[i]
        /\ alias'[r] = L.slot
    BY <2>2, <2>3, <2>4, <2>5
  <2>7. \A i \in Slots : alias'[i] = 0 => type'[i] \in Scoped
    BY <1>5, <2>2, <2>5, <2>6
  <2> QED BY <2>1, <2>6, <2>7, <1>8
<1>13. CASE OneUnknown /\ ~Reject
  <2>1. PICK x \in {L, R}, ty \in {L, R} : SetIvar(x.slot, ty)
    BY <1>13 DEF OneUnknown
  <2>2. SetIvarTo(x.slot, ty) /\ todo' = Tail(todo)
    BY <2>1, <1>13 DEF SetIvar, Answer
  <2>3. alias' = alias /\ type' = [type EXCEPT ![PointedIvar(x.slot)] = ty]
    BY <2>2 DEF SetIvarTo
  <2>4. \A i \in Slots : type'[i] \in {type[i], ty}
    BY <2>3, <1>1 DEF Table, TableTypeOK
  <2> QED BY <2>1, <2>2, <2>3, <2>4, <1>2, <1>5, <1>8
<1>14. CASE Decompose /\ ~Reject
  <2>1. CASE Answer /\ UNCHANGED <<alias, type, class>>
    BY <2>1, <1>5, <1>8 DEF Answer
  <2>2. CASE ~(Answer /\ UNCHANGED <<alias, type, class>>)
    <3> DEFINE calls == [k \in DOMAIN L.args |-> Call(L.args[k], R.args[k], FALSE)]
    <3>1. Instead(calls) /\ Len(L.args) = Len(R.args)
      BY <1>14, <2>2 DEF Decompose, Matches
    <3>2. L.args \in Seq(Scoped) /\ R.args \in Seq(Scoped)
      BY <1>2, ScopedArgs
    <3>3. DOMAIN L.args = 1..Len(L.args) /\ Len(L.args) \in Nat
          /\ \A k \in 1..Len(L.args) : L.args[k] \in Scoped /\ R.args[k] \in Scoped
      BY <3>1, <3>2
    <3>4. \A k \in 1..Len(L.args) : calls[k] \in X /\ ~calls[k].top
      BY <3>3 DEF Call, X
    <3>5. calls = [k \in 1..Len(L.args) |-> calls[k]]
      BY <3>3
    <3> HIDE DEF calls
    <3>6. calls \in [1..Len(L.args) -> X]
      BY <3>4, <3>5
    <3>7. calls \in Seq(X) /\ DOMAIN calls = 1..Len(L.args)
      BY <3>3, <3>6
    <3> QED BY <3>1, <3>4, <3>7, <1>9
  <2> QED BY <2>1, <2>2
<1> QED BY <1>2, <1>7, <1>10, <1>11, <1>12, <1>13, <1>14 DEF EquateStep

\* A slot's turn in compact_ivars: an alias gets its root, and the known type of
\* a root has the types of its variables.
LEMMA CompactStep ==
    ASSUME TypesInv, Compact
    PROVE  /\ phase = "compact" /\ at \in Slots /\ todo = << >>
           /\ class' = class /\ UNCHANGED <<todo, phase, changed, equated, born>>
           /\ Table' /\ Slots' = Slots /\ Len(alias') = Len(alias)
           /\ \A i \in Slots : PointedIvar(i)' = PointedIvar(i)
           /\ \A i \in Slots : alias'[i] = 0 <=> alias[i] = 0
           /\ \A i \in Slots \ {at} : alias'[i] = alias[i] /\ type'[i] = type[i]
           /\ IF alias[at] # 0 THEN alias'[at] = PointedIvar(at) /\ type'[at] = type[at]
              ELSE IF type[at] = Infer(at) THEN type'[at] = type[at]
              ELSE /\ type'[at] = Expanded(type[at], type)
                   /\ type'[at] \in TypeRefs /\ Known(type'[at])
<1> DEFINE ty == IF IsAlias(at) THEN Null ELSE Expanded(type[at], type)
<1>1. /\ phase = "compact" /\ at \in Slots /\ CompactIvar(at, ty)
      /\ ty \in TypeRefs \cup {Null}
      /\ UNCHANGED <<todo, phase, changed, equated, born>>
  BY DEF Compact
<1>2. alias[at] = 0 => ty = Expanded(type[at], type)
  BY DEF IsAlias
<1> HIDE DEF ty
<1>3. Table /\ todo = << >>
  BY <1>1 DEF TypesInv
<1>4. Table'
  BY <1>3, StepRefines, TableStep DEF Next
<1>5. /\ SlotsIn(alias') = SlotsIn(alias)
      /\ \A i \in SlotsIn(alias) : RootIn(alias', i) = RootIn(alias, i)
  BY <1>1, <1>3, CompactRoots
<1>6. /\ Slots' = Slots /\ Slots = SlotsIn(alias) /\ Slots = 1..Len(alias) /\ Slots' = 1..Len(alias')
      /\ \A i \in Slots : PointedIvar(i)' = PointedIvar(i)
  BY <1>5, TableLookups DEF Slots
<1>7. Len(alias') = Len(alias)
  BY <1>3, <1>4, <1>6 DEF Table, TableTypeOK
<1>8. /\ class' = class /\ alias \in Seq(Nat) /\ type = [i \in Slots |-> type[i]]
      /\ PointedIvar(at) \in Slots /\ 0 \notin Slots
  BY <1>1, <1>3, <1>6, LookupsEnd DEF CompactIvar, Table, TableTypeOK
<1>9. /\ alias' = [alias EXCEPT ![at] = IF alias[at] # 0 THEN PointedIvar(at) ELSE 0]
      /\ type' = IF alias[at] # 0 THEN type ELSE [type EXCEPT ![at] = ty]
      /\ alias[at] = 0 => IF type[at] = Infer(at) THEN ty = type[at] ELSE Known(ty)
  BY <1>1 DEF CompactIvar, IsAlias, Unknown
<1>10. /\ \A i \in Slots \ {at} : alias'[i] = alias[i] /\ type'[i] = type[i]
       /\ alias'[at] = IF alias[at] # 0 THEN PointedIvar(at) ELSE 0
       /\ type'[at] = IF alias[at] # 0 THEN type[at] ELSE ty
  BY <1>1, <1>6, <1>8, <1>9
<1>11. \A i \in Slots : alias'[i] = 0 <=> alias[i] = 0
  BY <1>8, <1>10
<1>12. Known(ty) => ty \in TypeRefs
  BY <1>1 DEF Known, Null, Term
<1> QED BY <1>1, <1>2, <1>3, <1>4, <1>6, <1>7, <1>8, <1>9, <1>10, <1>11, <1>12

\* expand_ivars leaves a type over the variables there are.
LEMMA ExpandedScoped ==
    ASSUME TypesInv, NEW t \in Scoped, Expanded(t, type) \in TypeRefs
    PROVE  Expanded(t, type) \in Scoped
<1> DEFINE to == [i \in Slots |-> type[PointedIvar(i)]]
<1>1. Expanded(t, type) = Subst(t, to)
  BY DEF Expanded
<1>2. t \in TypeRefs /\ Vars(t) \subseteq Slots
  BY DEF Scoped
<1>3. \A i \in Slots : to[i] \in Scoped
  BY LookupsEnd DEF TypesInv, Table, IsAlias
<1> HIDE DEF to
<1>4. \A j \in Vars(Subst(t, to)) : \E i \in Vars(t) : j \in Vars(to[i])
  BY <1>1, <1>2, VarsSubst
<1> QED BY <1>1, <1>2, <1>3, <1>4 DEF Scoped

\* The types of the defaults name no variable.
LEMMA DefaultTypes ==
    ASSUME NEW ic \in {"Integer", "Float"}
    PROVE  /\ Default[ic] \in TypeRefs /\ Vars(Default[ic]) = {} /\ Known(Default[ic])
           /\ Fits(ic, Default[ic]) /\ \A to : Subst(Default[ic], to) = Default[ic]
<1>1. PICK con \in {"i32", "f64"} : Default[ic] = Term(con, << >>)
  BY DEF Default
<1> DEFINE t == Term(con, << >>)
<1>2. con \in Constructors
  BY <1>1, ConstructorsAssumption
<1>3. t \in TypeRefs
  <2>1. << >> \in {<< >>}
    OBVIOUS
  <2>2. t \in TypesOf({<< >>})
    BY <1>2, <2>1, TypesOfIs
  <2>3. 0 \in 0..MaxNesting
    BY NestedDef
  <2> QED BY <2>2, <2>3, NestedDef, NestedIsType
<1>4. t.con = con /\ t.args = << >> /\ ~IsInfer(t)
  BY <1>1 DEF Term, IsInfer
<1>5. Vars(t) = {}
  BY <1>3, <1>4, VarsDef
<1>6. ASSUME NEW to PROVE Subst(t, to) = t
  <2>1. Subst(t, to) = Term(con, [k \in DOMAIN t.args |-> Subst(t.args[k], to)])
    BY <1>3, <1>4, SubstDef
  <2>2. [k \in DOMAIN t.args |-> Subst(t.args[k], to)] = << >>
    BY <1>4
  <2> QED BY <2>1, <2>2
<1>7. Known(t)
  BY <1>1, <1>4 DEF Known
<1>8. Fits(ic, Default[ic])
  BY DEF Fits, FitsPrimitive, Integers32, Default, Term
<1> QED BY <1>1, <1>3, <1>5, <1>6, <1>7, <1>8

\* Every step keeps types over the variables there are.
LEMMA TypesStep == TypesInv /\ [Next]_vars => TypesInv'
<1> SUFFICES ASSUME TypesInv, [Next]_vars PROVE TypesInv'
  OBVIOUS
<1> DEFINE X == [l : Scoped, r : Scoped, top : BOOLEAN]
<1>1. /\ Table /\ Len(alias) <= MaxIvars /\ born \in [1..Len(alias) -> Classes]
      /\ \A i \in Slots : alias[i] = 0 => type[i] \in Scoped
      /\ todo \in Seq(X) /\ \A k \in DOMAIN todo : todo[k].top => Len(todo) = 1
      /\ phase \in {"check", "compact", "done"} => todo = << >>
  BY DEF TypesInv
<1>2. Table'
  BY <1>1, StepRefines, TableStep
<1>3. MaxIvars \in Nat /\ Len(alias) \in Nat /\ Slots = 1..Len(alias)
  BY <1>1, TableFacts, BoundsAssumption
<1> HIDE DEF X
\* Steps that make no variable.
<1>4. ASSUME Len(alias') = Len(alias), born' = born,
             \A i \in Slots : alias'[i] = 0 => type'[i] \in Scoped,
             todo' \in Seq(X), \A k \in DOMAIN todo' : todo'[k].top => Len(todo') = 1,
             phase' \in {"check", "compact", "done"} => todo' = << >>
      PROVE  TypesInv'
  <2>1. Slots' = Slots /\ Scoped' = Scoped
    BY <1>4 DEF Slots, Scoped
  <2> QED BY <2>1, <1>1, <1>2, <1>4 DEF TypesInv, X
<1>5. ASSUME NEW ic \in Classes, AddIvar(ic)
      PROVE  TypesInv'
  <2> DEFINE n == Len(alias)
  <2>1. /\ alias' = Append(alias, 0) /\ type' = Append(type, Infer(n + 1))
        /\ born' = Append(born, ic) /\ todo' = todo /\ todo = << >> /\ n < MaxIvars
        /\ alias \in Seq(Nat) /\ type = [i \in Slots |-> type[i]]
    BY <1>1, <1>5 DEF AddIvar, NewIvar, Idle, Table, TableTypeOK
  <2>2. type \in Seq({type[i] : i \in 1..n}) /\ Len(type) = n
    BY <1>3, <2>1, EntriesAreSeq
  <2>3. /\ Len(alias') = n + 1
        /\ \A i \in Slots : alias'[i] = alias[i] /\ type'[i] = type[i]
        /\ type'[n + 1] = Infer(n + 1)
    BY <1>3, <2>1, <2>2
  <2>4. Slots' = Slots \cup {n + 1}
    BY <1>3, <2>3 DEF Slots
  <2>5. Scoped \subseteq Scoped'
    BY <2>4, ScopeGrows
  <2>6. Infer(n + 1) \in Scoped'
    <3>1. Infer(n + 1) \in TypeRefs /\ n + 1 \in Nat
      BY <1>3, TypeFacts
    <3>2. Vars(Infer(n + 1)) = {n + 1}
      BY <3>1, VarsDef DEF Infer, IsInfer
    <3> QED BY <3>1, <3>2, <2>4 DEF Scoped
  <2>7. \A i \in Slots' : alias'[i] = 0 => type'[i] \in Scoped'
    BY <1>1, <2>3, <2>4, <2>5, <2>6
  <2>8. born' \in [1..(n + 1) -> Classes]
    <3>1. born \in Seq(Classes) /\ Len(born) = n
      BY <1>1, <1>3
    <3> HIDE DEF n
    <3>2. born' = Append(born, ic)
      BY <2>1
    <3>3. born' \in Seq(Classes) /\ Len(born') = n + 1
      BY <3>1, <3>2
    <3> QED BY <3>3
  <2>9. n + 1 <= MaxIvars
    BY <1>3, <2>1
  <2>10. todo' \in Seq([l : Scoped', r : Scoped', top : BOOLEAN]) /\ DOMAIN todo' = {}
    BY <2>1
  <2> QED BY <1>2, <2>1, <2>3, <2>7, <2>8, <2>9, <2>10 DEF TypesInv
<1>6. ASSUME NEW l \in TypesOver(born), NEW r \in TypesOver(born), EquateTypes(l, r)
      PROVE  TypesInv'
  <2> DEFINE c == Call(l, r, TRUE)
  <2>1. todo' = <<c>> /\ UNCHANGED <<alias, type, class, phase, born>> /\ phase \in {"rules", "pass"}
    BY <1>6 DEF EquateTypes, Idle
  <2>2. born \in Made /\ DOMAIN born = Slots
    BY <1>1, <1>3 DEF Made
  <2>3. l \in Scoped /\ r \in Scoped
    BY <2>2, TypesAssumption DEF Scoped
  <2>4. c \in X
    BY <2>3 DEF X, Call
  <2> HIDE DEF c
  <2>5. todo' \in Seq(X) /\ Len(todo') = 1
    BY <2>1, <2>4
  <2> QED BY <2>1, <2>5, <1>1, <1>4
<1>7. CASE EquateStep
  BY <1>7, TypesEquate
<1>8. CASE EndRules \/ EndPass
  BY <1>1, <1>4, <1>8 DEF EndRules, EndPass, Idle
<1>9. CASE CheckForLoops
  BY <1>1, <1>4, <1>9 DEF CheckForLoops, Reject
<1>10. CASE Defaults
  <2>1. todo' = << >> /\ todo = << >> /\ born' = born
    BY <1>10 DEF Defaults, Idle
  <2>2. CASE UNCHANGED <<alias, type, class>>
    BY <1>1, <1>4, <2>1, <2>2
  <2>3. CASE ApplyDefaults
    <3>1. /\ alias' = alias
          /\ \A i \in Slots : type'[i] = IF Defaulted(i) THEN Default[class[i]] ELSE type[i]
      BY <2>3 DEF ApplyDefaults
    <3>2. ASSUME NEW i \in Slots, Defaulted(i) PROVE Default[class[i]] \in Scoped
      <4>1. class[i] \in {"Integer", "Float"}
        BY <1>1, <3>2, TableFacts DEF Defaulted, Classes
      <4> QED BY <4>1, DefaultTypes DEF Scoped
    <3> QED BY <1>1, <1>4, <2>1, <3>1, <3>2
  <2> QED BY <1>10, <2>2, <2>3 DEF Defaults
<1>11. CASE Compact
  <2>1. /\ at \in Slots /\ UNCHANGED <<todo, phase, born>> /\ Len(alias') = Len(alias)
        /\ \A i \in Slots : alias'[i] = 0 <=> alias[i] = 0
        /\ \A i \in Slots \ {at} : type'[i] = type[i]
        /\ alias[at] = 0 => \/ type'[at] = type[at]
                            \/ type'[at] = Expanded(type[at], type) /\ type'[at] \in TypeRefs
    BY <1>11, CompactStep
  <2>2. alias[at] = 0 => type'[at] \in Scoped
    BY <1>1, <2>1, ExpandedScoped
  <2> QED BY <1>1, <1>4, <2>1, <2>2
<1>12. CASE UNCHANGED vars
  BY <1>1, <1>4, <1>12 DEF vars
<1> QED BY <1>5, <1>6, <1>7, <1>8, <1>9, <1>10, <1>11, <1>12 DEF Next

LEMMA TypesStart == Init => TypesInv
<1> SUFFICES ASSUME Init PROVE TypesInv
  OBVIOUS
<1>1. TableInit /\ todo = << >> /\ phase = "rules" /\ born = << >>
  BY DEF Init
<1>2. Table /\ Slots = {} /\ Len(alias) = 0
  BY <1>1, TableStart DEF TableInit, Slots
<1>3. 0 <= MaxIvars /\ 1..0 = {}
  BY BoundsAssumption
<1>4. born \in [{} -> Classes]
  BY <1>1
<1>5. todo \in Seq([l : Scoped, r : Scoped, top : BOOLEAN]) /\ DOMAIN todo = {}
  BY <1>1
<1> QED BY <1>1, <1>2, <1>3, <1>4, <1>5 DEF TypesInv

(***************************************************************************)
(* Literals.                                                               *)
(***************************************************************************)
\* What is remembered of a variable made for a literal: the class of the
\* literal, at its root, until the root has a type of that class.
Literal(a, t, c, b, i) ==
    LET r == RootIn(a, i)
    IN b[i] # "None" => IF t[r] = Infer(r) THEN c[r] = b[i] ELSE Fits(b[i], t[r])

\* Why literals are typed at the end: each is remembered, and the compiler ends
\* with a pass that had no literal to give a default to.
LiteralInv ==
    /\ Table
    /\ born \in Seq(Classes) /\ Len(born) = Len(alias)
    /\ changed \in BOOLEAN
    /\ \A i \in Slots : Literal(alias, type, class, born, i)
    /\ phase = "rules" /\ ~changed => Slots = {}
    /\ phase = "done" \/ (phase \in {"check", "compact"} /\ ~changed)
         => \A i \in Slots : ~Defaulted(i)

\* A type that is expanded keeps its constructor.
LEMMA ExpandedKeepsTop ==
    ASSUME NEW t \in TypeRefs, NEW ty, ~IsInfer(t)
    PROVE  Expanded(t, ty).con = t.con
BY SubstTop DEF Expanded

\* A new variable is remembered with its class.
LEMMA NewLiteral ==
    ASSUME LiteralInv, NEW ic \in Classes, NewIvar(ic), born' = Append(born, ic)
    PROVE  \A i \in Slots' : Literal(alias', type', class', born', i)
<1> DEFINE n == Len(alias)
<1>1. /\ n \in Nat /\ Slots = 1..n /\ Slots = SlotsIn(alias) /\ IsForest(alias)
      /\ class \in Seq(Classes) /\ Len(class) = n
      /\ type = [i \in Slots |-> type[i]]
      /\ \A i \in Slots : RootIn(alias, i) \in Slots
      /\ born \in Seq(Classes) /\ Len(born) = n
  BY TableFacts DEF LiteralInv
<1>2. /\ alias' = Append(alias, 0) /\ type' = Append(type, Infer(n + 1))
      /\ class' = Append(class, ic)
  BY DEF NewIvar
<1>3. IsForest(alias') /\ \A i \in Slots : RootIn(alias', i) = RootIn(alias, i)
  BY <1>1, <1>2, NewIvarForest
<1>4. alias \in Seq(Nat)
  BY <1>1 DEF IsForest
<1>5. Slots' = 1..(n + 1) /\ Slots' = SlotsIn(alias') /\ alias'[n + 1] = 0
  BY <1>1, <1>2, <1>4 DEF Slots, SlotsIn
<1>6. type \in Seq({type[i] : i \in 1..n}) /\ Len(type) = n
  BY <1>1, EntriesAreSeq
<1>7. type'[n + 1] = Infer(n + 1) /\ \A i \in Slots : type'[i] = type[i]
  BY <1>1, <1>2, <1>6
<1>8. class'[n + 1] = ic /\ \A i \in Slots : class'[i] = class[i]
  BY <1>1, <1>2
<1>9. born'[n + 1] = ic /\ \A i \in Slots : born'[i] = born[i]
  BY <1>1
<1>10. RootIn(alias', n + 1) = n + 1
  BY <1>1, <1>3, <1>5, VisitedClosed, RootUnique
<1> SUFFICES ASSUME NEW i \in Slots' PROVE Literal(alias', type', class', born', i)
  OBVIOUS
<1>11. CASE i = n + 1
  BY <1>11, <1>7, <1>8, <1>9, <1>10 DEF Literal
<1>12. CASE i \in Slots
  <2>1. Literal(alias, type, class, born, i)
    BY <1>12 DEF LiteralInv
  <2>2. RootIn(alias', i) = RootIn(alias, i) /\ RootIn(alias, i) \in Slots
    BY <1>1, <1>3, <1>12
  <2>3. /\ type'[RootIn(alias, i)] = type[RootIn(alias, i)]
        /\ class'[RootIn(alias, i)] = class[RootIn(alias, i)]
        /\ born'[i] = born[i]
    BY <1>7, <1>8, <1>9, <1>12, <2>2
  <2> QED BY <2>1, <2>2, <2>3 DEF Literal
<1> QED BY <1>1, <1>5, <1>11, <1>12

\* Two unknown variables are unified only when their classes, or the class of
\* one and the type of the other, suit each other; both are kept.
LEMMA UnifyLiteral ==
    ASSUME LiteralInv, NEW left \in Slots, NEW right \in Slots,
           PointedIvar(left) # PointedIvar(right), IvarUnify(left, right),
           born' = born
    PROVE  \A i \in Slots' : Literal(alias', type', class', born', i)
<1> DEFINE l == RootIn(alias, left)
           r == RootIn(alias, right)
<1>1. /\ Slots = 1..Len(alias) /\ Slots = SlotsIn(alias)
      /\ class \in Seq(Classes) /\ Len(class) = Len(alias)
      /\ type = [i \in Slots |-> type[i]]
      /\ \A i \in Slots : RootIn(alias, i) \in Slots
      /\ l \in Slots /\ r \in Slots /\ alias[l] = 0
      /\ PointedIvar(left) = l /\ PointedIvar(right) = r
      /\ type[l] = Infer(l) \/ Known(type[l])
  BY TableFacts DEF LiteralInv
<1>2. l # r /\ Table
  BY <1>1 DEF LiteralInv
<1>3. /\ SlotsIn(alias') = SlotsIn(alias)
      /\ \A i \in Slots : RootIn(alias', i) = IF RootIn(alias, i) = r THEN l ELSE RootIn(alias, i)
  BY <1>1, <1>2, UnifyRoots
<1>4. Slots' = Slots
  BY <1>1, <1>3 DEF Slots, SlotsIn
<1> DEFINE ic == IF class[r] # "None" THEN class[r] ELSE class[l]
<1>5. /\ type' = [type EXCEPT ![r] = Null] /\ class' = [class EXCEPT ![l] = ic]
      /\ Unknown(r) /\ CanUnify(left, right)
  BY <1>1 DEF IvarUnify
<1>6. \/ class[r] = "None"
      \/ type[l] = Infer(l) /\ class[l] \in {"None", class[r]}
      \/ type[l] # Infer(l) /\ FitsPrimitive(class[r], type[l])
  BY <1>1, <1>5 DEF CanUnify, Unknown, IsAlias
<1> HIDE DEF l, r
<1>7. \A i \in Slots : i # r => type'[i] = type[i]
  BY <1>1, <1>5
<1>8. class'[l] = ic /\ \A i \in Slots : i # l => class'[i] = class[i]
  BY <1>1, <1>5
<1>9. type[r] = Infer(r)
  BY <1>5 DEF Unknown
<1> SUFFICES ASSUME NEW i \in Slots, born[i] # "None"
             PROVE Literal(alias', type', class', born', i)
  BY <1>4 DEF Literal
<1> DEFINE q == RootIn(alias, i)
<1>10. q \in Slots /\ IF type[q] = Infer(q) THEN class[q] = born[i] ELSE Fits(born[i], type[q])
  BY <1>1 DEF LiteralInv, Literal
<1> HIDE DEF q
<1>11. CASE q # r /\ q # l
  <2>1. RootIn(alias', i) = q
    BY <1>3, <1>11 DEF q
  <2> QED BY <2>1, <1>10, <1>7, <1>8, <1>11 DEF Literal
<1>12. CASE q = l
  <2>1. RootIn(alias', i) = l
    BY <1>2, <1>3, <1>12 DEF q
  <2>2. type'[l] = type[l]
    BY <1>1, <1>2, <1>7
  <2>3. type[l] = Infer(l) => ic = born[i]
    BY <1>6, <1>10, <1>12
  <2>4. type[l] # Infer(l) => Fits(born[i], type[l])
    BY <1>10, <1>12
  <2> QED BY <2>1, <2>2, <2>3, <2>4, <1>8 DEF Literal
<1>13. CASE q = r
  <2>1. RootIn(alias', i) = l
    BY <1>3, <1>13 DEF q
  <2>2. type'[l] = type[l]
    BY <1>1, <1>2, <1>7
  <2>3. class[r] = born[i] /\ class[r] # "None" /\ ic = born[i]
    BY <1>9, <1>10, <1>13
  <2>4. type[l] # Infer(l) => Fits(born[i], type[l])
    BY <1>6, <2>3 DEF Fits
  <2> QED BY <2>1, <2>2, <2>3, <2>4, <1>8 DEF Literal
<1> QED BY <1>11, <1>12, <1>13

\* Steps that change no root and no class, and types only to types of the class.
LEMMA TypeLiteral ==
    ASSUME LiteralInv, SlotsIn(alias') = SlotsIn(alias), class' = class, born' = born,
           \A i \in SlotsIn(alias) : RootIn(alias', i) = RootIn(alias, i),
           \A i \in Slots : alias[i] = 0 =>
               \/ type'[i] = type[i]
               \/ type[i] = Infer(i) /\ Known(type'[i]) /\ Fits(class[i], type'[i])
               \/ Known(type[i]) /\ Known(type'[i]) /\ type'[i].con = type[i].con
    PROVE  \A i \in Slots' : Literal(alias', type', class', born', i)
<1>1. Slots = SlotsIn(alias) /\ Slots' = SlotsIn(alias')
  BY TableLookups
<1> SUFFICES ASSUME NEW i \in Slots, born[i] # "None"
             PROVE Literal(alias', type', class', born', i)
  BY <1>1 DEF Literal
<1> DEFINE r == RootIn(alias, i)
<1>2. r \in Slots /\ alias[r] = 0 /\ RootIn(alias', i) = r
  BY <1>1, TableFacts DEF LiteralInv
<1>3. IF type[r] = Infer(r) THEN class[r] = born[i] ELSE Fits(born[i], type[r])
  BY DEF LiteralInv, Literal
<1> HIDE DEF r
<1>4. \A t : Known(t) => t # Infer(r)
  BY DEF Known, Infer
<1>5. CASE type'[r] = type[r]
  BY <1>2, <1>3, <1>5 DEF Literal
<1>6. CASE type[r] = Infer(r) /\ Known(type'[r]) /\ Fits(class[r], type'[r])
  BY <1>2, <1>3, <1>4, <1>6 DEF Literal
<1>7. CASE Known(type[r]) /\ Known(type'[r]) /\ type'[r].con = type[r].con
  <2>1. Fits(born[i], type'[r])
    BY <1>3, <1>4, <1>7 DEF Fits, FitsPrimitive
  <2> QED BY <2>1, <1>2, <1>4, <1>7 DEF Literal
<1> QED BY <1>2, <1>5, <1>6, <1>7

\* A step that leaves the table alone, and does not end anything.
LEMMA LiteralKept ==
    ASSUME LiteralInv, UNCHANGED <<alias, type, class, born>>, changed' \in BOOLEAN,
           phase' = "rules" /\ ~changed' => Slots = {},
           phase' = "done" \/ (phase' \in {"check", "compact"} /\ ~changed')
             => \A i \in Slots : ~Defaulted(i)
    PROVE  LiteralInv'
<1>1. Slots' = Slots /\ \A i : Defaulted(i)' <=> Defaulted(i)
  BY DEF Slots, Defaulted, Unknown, IsAlias
<1>2. Table'
  <2>1. [TableNext]_table
    BY DEF table
  <2> QED BY <2>1, TableStep DEF LiteralInv
<1>3. \A i \in Slots : Literal(alias', type', class', born', i)
  BY DEF LiteralInv
<1> QED BY <1>1, <1>2, <1>3 DEF LiteralInv

\* A step of the table that makes what is remembered of a literal stay true,
\* before the end of a pass.
LEMMA LiteralMoved ==
    ASSUME LiteralInv, [TableNext]_table,
           born' \in Seq(Classes), Len(born') = Len(alias'), changed' = TRUE,
           phase' \in {"rules", "pass", "check"},
           \A i \in Slots' : Literal(alias', type', class', born', i)
    PROVE  LiteralInv'
<1>1. Table'
  BY TableStep DEF LiteralInv
<1> QED BY <1>1 DEF LiteralInv

\* A step of equate_types.
LEMMA LiteralEquate ==
    ASSUME LiteralInv, EquateStep
    PROVE  LiteralInv'
<1>1. phase \in {"rules", "pass"} /\ Table /\ changed \in BOOLEAN
  BY DEF EquateStep, LiteralInv
<1>2. [TableNext]_table
  BY <1>1, StepRefines DEF Next
<1>3. ASSUME Reject
      PROVE  LiteralInv'
  BY <1>1, <1>3, LiteralKept DEF Reject
<1>4. ASSUME UNCHANGED <<alias, type, class, born, phase, changed>>
      PROVE  LiteralInv'
  <2>1. phase = "rules" /\ ~changed => Slots = {}
    BY DEF LiteralInv
  <2> QED BY <1>1, <1>4, <2>1, LiteralKept
<1>5. CASE AlreadyEqual \/ NeverIgnored \/ EnterInner \/ Decompose
  BY <1>3, <1>4, <1>5 DEF AlreadyEqual, NeverIgnored, EnterInner, Decompose, Instead, Answer
<1> SUFFICES ASSUME ~Reject, BothUnknown \/ OneUnknown PROVE LiteralInv'
  BY <1>3, <1>5 DEF EquateStep
<1>6. InTable(Here.l) /\ InTable(Here.r)
  BY DEF EquateStep
<1>7. CASE BothUnknown
  <2>1. /\ IvarUnify(L.slot, R.slot) /\ changed' = TRUE
        /\ born' = born /\ phase' = phase
    BY <1>7 DEF BothUnknown, Answer
  <2>2. /\ L.slot \in Slots /\ R.slot \in Slots
        /\ PointedIvar(L.slot) # PointedIvar(R.slot)
    BY <1>1, <1>6, <1>7, TwoRoots
  <2>3. \A i \in Slots' : Literal(alias', type', class', born', i)
    BY <2>1, <2>2, UnifyLiteral
  <2>4. Slots' = Slots
    BY <2>1, <2>2, <1>1, UnifyRoots, TableLookups
  <2>5. Len(alias') = Len(alias)
    <3>1. Table'
      BY <1>1, <1>2, TableStep
    <3> QED BY <3>1, <1>1, <2>4 DEF Table, TableTypeOK, Slots
  <2>6. born' \in Seq(Classes) /\ Len(born') = Len(alias')
    BY <2>1, <2>5 DEF LiteralInv
  <2> QED BY <1>1, <1>2, <2>1, <2>3, <2>6, LiteralMoved
<1>8. CASE OneUnknown
  <2>1. CASE UNCHANGED table
    BY <1>1, <1>8, <2>1, LiteralKept DEF OneUnknown, SetIvar, Answer, table, LiteralInv
  <2>2. CASE ~(UNCHANGED table)
    <3>1. PICK r \in Slots : \E ty : /\ SetIvarTo(r, ty) /\ PointedIvar(r) = r
                                    /\ changed' = TRUE /\ UNCHANGED <<phase, at, equated, born>>
      BY <1>1, <1>6, <1>8, <2>2, OneRoot
    <3>2. PICK ty : /\ SetIvarTo(r, ty) /\ PointedIvar(r) = r
                    /\ changed' = TRUE /\ UNCHANGED <<phase, at, equated, born>>
      BY <3>1
    <3>3. /\ Known(ty) /\ type[r] = Infer(r) /\ Fits(class[r], ty)
          /\ type' = [type EXCEPT ![r] = ty] /\ alias' = alias /\ class' = class
      BY <3>2 DEF SetIvarTo, Unknown
    <3>4. \A i \in Slots : type'[i] = IF i = r THEN ty ELSE type[i]
      BY <3>3, <1>1 DEF Table, TableTypeOK
    <3>5. \A i \in Slots' : Literal(alias', type', class', born', i)
      BY <3>2, <3>3, <3>4, TypeLiteral
    <3>6. born' \in Seq(Classes) /\ Len(born') = Len(alias')
      BY <3>2, <3>3 DEF LiteralInv
    <3> QED BY <1>1, <1>2, <3>2, <3>5, <3>6, LiteralMoved
  <2> QED BY <2>1, <2>2
<1> QED BY <1>7, <1>8

\* The defaults: where a pass changed nothing, a literal without a type gets one.
LEMMA LiteralDefaults ==
    ASSUME LiteralInv, Defaults
    PROVE  LiteralInv'
<1>1. Table /\ changed \in BOOLEAN /\ phase' = "check" /\ born' = born
  BY DEF Defaults, LiteralInv
<1>2. CASE changed
  BY <1>1, <1>2, LiteralKept DEF Defaults
<1>3. CASE ~changed
  <2>1. ApplyDefaults /\ changed' = (\E i \in Slots : Defaulted(i))
    BY <1>3 DEF Defaults
  <2>2. /\ alias' = alias /\ class' = class /\ Slots' = Slots
        /\ \A i \in Slots : type'[i] = IF Defaulted(i) THEN Default[class[i]] ELSE type[i]
    BY <2>1 DEF ApplyDefaults, Slots
  <2>3. ASSUME NEW i \in Slots, Defaulted(i)
        PROVE  /\ type[i] = Infer(i) /\ Known(Default[class[i]])
               /\ Fits(class[i], Default[class[i]])
    <3>1. class[i] \in {"Integer", "Float"} /\ type[i] = Infer(i)
      BY <1>1, <2>3 DEF Table, TableTypeOK, Slots, Defaulted, Unknown, Classes
    <3>2. CASE class[i] = "Integer"
      <4>1. Default[class[i]] = Term("i32", << >>)
        BY <3>2 DEF Default
      <4> QED BY <3>1, <3>2, <4>1 DEF Known, Fits, FitsPrimitive, Integers32, Term
    <3>3. CASE class[i] = "Float"
      <4>1. Default[class[i]] = Term("f64", << >>)
        BY <3>3 DEF Default
      <4> QED BY <3>1, <3>3, <4>1 DEF Known, Fits, FitsPrimitive, Term
    <3> QED BY <3>1, <3>2, <3>3
  <2>4. \A i \in Slots' : Literal(alias', type', class', born', i)
    BY <1>1, <2>2, <2>3, TypeLiteral
  <2>5. CASE \E i \in Slots : Defaulted(i)
    <3>1. [TableNext]_table
      BY <2>1 DEF TableNext
    <3>2. born' \in Seq(Classes) /\ Len(born') = Len(alias')
      BY <1>1, <2>2 DEF LiteralInv
    <3> QED BY <1>1, <2>1, <2>4, <2>5, <3>1, <3>2, LiteralMoved
  <2>6. CASE ~ \E i \in Slots : Defaulted(i)
    <3>1. type' = type
      BY <2>1, <2>6, <1>1 DEF ApplyDefaults, Table, TableTypeOK
    <3> QED BY <1>1, <2>1, <2>2, <2>6, <3>1, LiteralKept
  <2> QED BY <2>5, <2>6
<1> QED BY <1>1, <1>2, <1>3

\* A slot's turn in compact_ivars.
LEMMA LiteralCompact ==
    ASSUME TypesInv, LiteralInv, Compact
    PROVE  LiteralInv'
<1>1. /\ phase = "compact" /\ UNCHANGED <<phase, changed, born>>
      /\ class' = class /\ Table' /\ Slots' = Slots /\ Len(alias') = Len(alias)
      /\ \A i \in Slots : PointedIvar(i)' = PointedIvar(i)
      /\ \A i \in Slots : alias'[i] = 0 <=> alias[i] = 0
      /\ \A i \in Slots \ {at} : alias'[i] = alias[i] /\ type'[i] = type[i]
      /\ alias[at] = 0 =>
            \/ type'[at] = type[at]
            \/ /\ type[at] # Infer(at)
               /\ type'[at] = Expanded(type[at], type) /\ Known(type'[at])
  BY CompactStep
<1>2. Table /\ \A i \in Slots : alias[i] = 0 => type[i] \in TypeRefs
  BY DEF TypesInv, Scoped
<1>3. \A i \in Slots : alias[i] = 0 => type[i] = Infer(i) \/ Known(type[i])
  BY <1>2, TableFacts
<1>4. ASSUME NEW i \in Slots, alias[i] = 0
      PROVE  \/ type'[i] = type[i]
             \/ Known(type[i]) /\ Known(type'[i]) /\ type'[i].con = type[i].con
  <2> SUFFICES ASSUME type'[i] # type[i]
               PROVE  Known(type[i]) /\ Known(type'[i]) /\ type'[i].con = type[i].con
    OBVIOUS
  <2>1. i = at /\ type[i] # Infer(i) /\ type'[i] = Expanded(type[i], type) /\ Known(type'[i])
    BY <1>1, <1>4
  <2>2. Known(type[i]) /\ ~IsInfer(type[i]) /\ type[i] \in TypeRefs
    BY <2>1, <1>2, <1>3, <1>4 DEF Known, IsInfer
  <2> QED BY <2>1, <2>2, ExpandedKeepsTop
<1>5. /\ SlotsIn(alias') = SlotsIn(alias)
      /\ \A i \in SlotsIn(alias) : RootIn(alias', i) = RootIn(alias, i)
  BY <1>1, TableLookups
<1>6. \A i \in Slots' : Literal(alias', type', class', born', i)
  BY <1>1, <1>4, <1>5, TypeLiteral
<1>7. ASSUME NEW i \in Slots, ~Defaulted(i)
      PROVE  ~Defaulted(i)'
  <2>1. \A t : Known(t) => t # Infer(i)
    BY DEF Known, Infer
  <2> QED BY <2>1, <1>1, <1>4, <1>7 DEF Defaulted, Unknown, IsAlias
<1>8. phase' = "done" \/ (phase' \in {"check", "compact"} /\ ~changed')
        => \A i \in Slots' : ~Defaulted(i)'
  BY <1>1, <1>7 DEF LiteralInv
<1> QED BY <1>1, <1>6, <1>8 DEF LiteralInv

\* Every step remembers the literals.
LEMMA LiteralStep == TypesInv /\ LiteralInv /\ [Next]_vars => LiteralInv'
<1> SUFFICES ASSUME TypesInv, LiteralInv, [Next]_vars PROVE LiteralInv'
  OBVIOUS
<1>1. Table /\ changed \in BOOLEAN
  BY DEF LiteralInv
<1>2. ASSUME NEW ic \in Classes, AddIvar(ic)
      PROVE  LiteralInv'
  <2>1. /\ NewIvar(ic) /\ born' = Append(born, ic) /\ changed' = TRUE
        /\ phase' \in {"rules", "pass"}
    BY <1>2 DEF AddIvar, Idle
  <2>2. \A i \in Slots' : Literal(alias', type', class', born', i)
    BY <1>2, <2>1, NewLiteral
  <2>3. [TableNext]_table
    BY <2>1 DEF TableNext
  <2>4. born' \in Seq(Classes) /\ Len(born') = Len(alias')
    BY <2>1, <1>1 DEF LiteralInv, Table, TableTypeOK, NewIvar
  <2> QED BY <2>1, <2>2, <2>3, <2>4, LiteralMoved
<1>3. ASSUME NEW l, NEW r, EquateTypes(l, r)
      PROVE  LiteralInv'
  BY <1>1, <1>3, LiteralKept DEF EquateTypes, LiteralInv
<1>4. CASE EquateStep
  BY <1>4, LiteralEquate
<1>5. CASE EndRules
  <2>1. /\ UNCHANGED <<alias, type, class, born>> /\ changed' = FALSE
        /\ phase' = IF changed THEN "pass" ELSE "done"
        /\ ~changed => Slots = {}
    BY <1>5 DEF EndRules, LiteralInv
  <2> QED BY <2>1, LiteralKept
<1>6. CASE Defaults
  BY <1>6, LiteralDefaults
<1>7. CASE CheckForLoops
  <2>1. CASE Reject
    BY <1>1, <2>1, LiteralKept DEF Reject
  <2>2. CASE ~Reject
    <3>1. /\ UNCHANGED <<alias, type, class, born, changed>>
          /\ phase = "check" /\ phase' = "compact"
      BY <1>7, <2>2 DEF CheckForLoops
    <3>2. ~changed => \A i \in Slots : ~Defaulted(i)
      BY <3>1 DEF LiteralInv
    <3> QED BY <1>1, <3>1, <3>2, LiteralKept
  <2> QED BY <2>1, <2>2
<1>8. CASE Compact
  BY <1>8, LiteralCompact
<1>9. CASE EndPass
  <2>1. /\ UNCHANGED <<alias, type, class, born>> /\ changed' = FALSE
        /\ phase' = IF changed THEN "pass" ELSE "done"
        /\ ~changed => \A i \in Slots : ~Defaulted(i)
    BY <1>9 DEF EndPass, LiteralInv
  <2> QED BY <2>1, LiteralKept
<1>10. CASE UNCHANGED vars
  BY <1>1, <1>10, LiteralKept DEF vars, LiteralInv
<1> QED BY <1>2, <1>3, <1>4, <1>5, <1>6, <1>7, <1>8, <1>9, <1>10 DEF Next

LEMMA LiteralStart == Init => LiteralInv
<1> SUFFICES ASSUME Init PROVE LiteralInv
  OBVIOUS
<1>1. TableInit /\ born = << >> /\ changed = FALSE /\ phase = "rules"
  BY DEF Init
<1>2. Table /\ Slots = {} /\ Len(alias) = 0
  BY <1>1, TableStart DEF TableInit, Slots
<1>3. born \in Seq(Classes) /\ Len(born) = Len(alias) /\ changed \in BOOLEAN
  <2>1. << >> \in Seq(Classes) /\ Len(<< >>) = 0
    OBVIOUS
  <2>2. born = << >> /\ alias = << >>
    BY <1>1 DEF TableInit
  <2> QED BY <2>1, <2>2, <1>1, Zenon
<1>4. \A i \in Slots : Literal(alias, type, class, born, i)
  BY <1>2
<1>5. \A i \in Slots : ~Defaulted(i)
  BY <1>2
<1> QED BY <1>1, <1>2, <1>3, <1>4, <1>5 DEF LiteralInv

LEMMA LiteralInvariant == Spec => [](TypesInv /\ LiteralInv)
<1>1. Init => TypesInv /\ LiteralInv
  BY TypesStart, LiteralStart
<1>2. TypesInv /\ LiteralInv /\ [Next]_vars => (TypesInv /\ LiteralInv)'
  BY TypesStep, LiteralStep
<1> QED BY <1>1, <1>2, PTL DEF Spec

\* When a function's types are done, every literal has a type of its class,
\* whatever it was equated with, before or after, and whatever the other types
\* are (ty_class, apply_defaults, Typecheck_Code_CS).
THEOREM LiteralsGetTypes == Spec => []LiteralsTyped
<1>1. LiteralInv => LiteralsTyped
  <2> SUFFICES ASSUME LiteralInv, phase = "done", NEW i \in Slots, born[i] # "None"
               PROVE  ~IsInfer(GetType(Infer(i))) /\ Fits(born[i], GetType(Infer(i)))
    BY DEF LiteralsTyped
  <2> DEFINE r == RootIn(alias, i)
  <2>1. /\ r \in Slots /\ alias[r] = 0 /\ PointedIvar(i) = r
        /\ type[r] = Infer(r) \/ Known(type[r])
    BY TableFacts DEF LiteralInv
  <2>2. GetType(Infer(i)) = type[r]
    BY <2>1 DEF GetType, IsInfer, Infer
  <2>3. IF type[r] = Infer(r) THEN class[r] = born[i] ELSE Fits(born[i], type[r])
    BY DEF LiteralInv, Literal
  <2>4. ~Defaulted(r)
    BY <2>1 DEF LiteralInv
  <2> HIDE DEF r
  <2>5. type[r] # Infer(r)
    BY <2>1, <2>3, <2>4 DEF Defaulted, Unknown, IsAlias
  <2> QED BY <2>1, <2>2, <2>3, <2>5 DEF Known, IsInfer
<1> QED BY <1>1, LiteralInvariant, PTL DEF Spec

(***************************************************************************)
(* Solutions.  w gives each term of T a value, and terms that are built    *)
(* the same way from equal values equal values, and no others; fits has,   *)
(* for each class of literals, the values such a literal may have.         *)
(***************************************************************************)
Terms(T) ==
    \A t \in T : /\ t.args \in Seq(T)
                 /\ IF IsInfer(t) THEN t = Infer(t.slot) ELSE t = Term(t.con, t.args)

Interprets(w, fits, T) ==
    /\ \A t, u \in T : ~IsInfer(t) /\ ~IsInfer(u) =>
          (w[t] = w[u] <=> /\ Matches(t, u)
                           /\ \A k \in DOMAIN t.args : w[t.args[k]] = w[u.args[k]])
    /\ \A t \in T : \A ic \in Classes : ~IsInfer(t) => (Fits(ic, t) <=> w[t] \in fits[ic])
    /\ \A t \in T : w[t] \in fits["None"]

\* The table and the equations are about terms of T.  A call of equate_types is
\* answered by calls of equate_types_inner, and is alone.
Over(T) ==
    /\ \A i \in Slots : Infer(i) \in T /\ (alias[i] = 0 => type[i] \in T)
    /\ todo \in Seq([l : T, r : T, top : BOOLEAN])
    /\ \A k \in DOMAIN todo : todo[k].top => Len(todo) = 1

\* What a slot says with this alias, type and class, the table, and equations.
SlotHolds(w, fits, i, a, t, c) ==
    IF a # 0 THEN w[Infer(i)] = w[Infer(a)]
    ELSE IF t = Infer(i) THEN w[Infer(i)] \in fits[c]
    ELSE w[Infer(i)] = w[t]
TableHolds(w, fits, a, t, c) == \A i \in 1..Len(a) : SlotHolds(w, fits, i, a[i], t[i], c[i])
EquationsHold(w, calls) == \A k \in DOMAIN calls : w[calls[k].l] = w[calls[k].r]

\* The values that the table and the equations not answered yet allow.
Solves(w, fits) ==
    /\ TableHolds(w, fits, alias, type, class)
    /\ \A k \in DOMAIN todo : Dropped(todo[k]) \/ w[todo[k].l] = w[todo[k].r]

\* A slot has the value of its root.
LEMMA RootHolds ==
    ASSUME NEW a, NEW t, NEW c, NEW w, NEW fits, IsForest(a), TableHolds(w, fits, a, t, c),
           NEW i \in SlotsIn(a)
    PROVE  w[Infer(i)] = w[Infer(RootIn(a, i))]
<1> DEFINE C == {k \in SlotsIn(a) : w[Infer(k)] # w[Infer(RootIn(a, k))]}
<1>1. SUFFICES ASSUME C # {} PROVE FALSE
  OBVIOUS
<1>2. PICK k \in C : a[k] \notin C
  BY <1>1 DEF IsForest
<1>3. k \in SlotsIn(a) /\ w[Infer(k)] # w[Infer(RootIn(a, k))]
  BY <1>2
<1>4. CASE a[k] = 0
  <2>1. k = RootIn(a, k)
    BY <1>3, <1>4, VisitedClosed, RootUnique
  <2> QED BY <2>1, <1>3
<1>5. CASE a[k] # 0
  <2>1. a[k] \in SlotsIn(a) /\ RootIn(a, a[k]) = RootIn(a, k)
    BY <1>3, <1>5, RootOfAlias
  <2>2. w[Infer(k)] = w[Infer(a[k])]
    BY <1>3, <1>5 DEF TableHolds, SlotHolds, SlotsIn
  <2>3. w[Infer(a[k])] = w[Infer(RootIn(a, a[k]))]
    BY <1>2, <2>1
  <2> QED BY <2>1, <2>2, <2>3, <1>3
<1> QED BY <1>4, <1>5

\* get_type returns a term with the value of the one asked about.
LEMMA GetTypeHolds ==
    ASSUME Table, NEW T, Terms(T), Over(T), NEW t \in T, InTable(t)
    PROVE  GetType(t) \in T /\ \A w, fits : TableHolds(w, fits, alias, type, class)
                                            => w[GetType(t)] = w[t]
<1>1. CASE ~IsInfer(t)
  BY <1>1 DEF GetType
<1>2. CASE IsInfer(t)
  <2> DEFINE i == t.slot
             r == RootIn(alias, i)
  <2>1. i \in Slots /\ t = Infer(i)
    BY <1>2 DEF InTable, Terms
  <2>2. /\ r \in Slots /\ alias[r] = 0 /\ PointedIvar(i) = r
        /\ Slots = SlotsIn(alias) /\ Slots = 1..Len(alias) /\ IsForest(alias)
    BY <2>1, TableFacts
  <2>3. GetType(t) = type[r]
    BY <2>2, <1>2 DEF GetType
  <2>4. type[r] \in T
    BY <2>2 DEF Over
  <2>5. ASSUME NEW w, NEW fits, TableHolds(w, fits, alias, type, class)
        PROVE  w[type[r]] = w[t]
    <3>1. w[Infer(i)] = w[Infer(r)]
      <4>1. i \in SlotsIn(alias) /\ IsForest(alias)
        BY <2>1, <2>2
      <4> HIDE DEF i, r
      <4> QED BY <4>1, <2>5, RootHolds DEF r
    <3>2. w[Infer(r)] = w[type[r]]
      <4>1. SlotHolds(w, fits, r, alias[r], type[r], class[r])
        BY <2>2, <2>5 DEF TableHolds
      <4> QED BY <4>1, <2>2 DEF SlotHolds
    <3> QED BY <3>1, <3>2, <2>1
  <2> QED BY <2>3, <2>4, <2>5
<1> QED BY <1>1, <1>2

\* A call that is answered, and the calls that stand for it.
LEMMA CallsHold ==
    ASSUME NEW X, NEW calls \in Seq(X), NEW rest \in Seq(X), NEW w
    PROVE  EquationsHold(w, calls \o rest) <=> EquationsHold(w, calls) /\ EquationsHold(w, rest)
<1> DEFINE all == calls \o rest
           n == Len(calls)
           m == Len(rest)
<1>1. /\ n \in Nat /\ m \in Nat /\ DOMAIN calls = 1..n /\ DOMAIN rest = 1..m
      /\ DOMAIN all = 1..(n + m)
      /\ \A k \in 1..n : all[k] = calls[k]
      /\ \A k \in 1..m : all[n + k] = rest[k]
  OBVIOUS
<1>2. \A k \in 1..(n + m) : k \in 1..n \/ \E j \in 1..m : k = n + j
  <2> SUFFICES ASSUME NEW k \in 1..(n + m), k \notin 1..n PROVE \E j \in 1..m : k = n + j
    OBVIOUS
  <2>1. k - n \in 1..m /\ k = n + (k - n)
    BY <1>1
  <2> QED BY <2>1
<1>3. \A k \in 1..n : k \in 1..(n + m)
  BY <1>1
<1>4. \A k \in 1..m : n + k \in 1..(n + m)
  BY <1>1
<1> HIDE DEF all, n, m
<1>5. EquationsHold(w, all) => EquationsHold(w, calls) /\ EquationsHold(w, rest)
  <2> SUFFICES ASSUME EquationsHold(w, all)
               PROVE  /\ \A k \in 1..n : w[calls[k].l] = w[calls[k].r]
                      /\ \A k \in 1..m : w[rest[k].l] = w[rest[k].r]
    BY <1>1 DEF EquationsHold
  <2>1. \A k \in 1..(n + m) : w[all[k].l] = w[all[k].r]
    BY <1>1 DEF EquationsHold
  <2>2. ASSUME NEW k \in 1..n PROVE w[calls[k].l] = w[calls[k].r]
    <3>1. k \in 1..(n + m) /\ all[k] = calls[k]
      BY <1>1, <1>3
    <3> QED BY <2>1, <3>1
  <2>3. ASSUME NEW k \in 1..m PROVE w[rest[k].l] = w[rest[k].r]
    <3>1. n + k \in 1..(n + m) /\ all[n + k] = rest[k]
      BY <1>1, <1>4
    <3> QED BY <2>1, <3>1
  <2> QED BY <2>2, <2>3
<1>6. EquationsHold(w, calls) /\ EquationsHold(w, rest) => EquationsHold(w, all)
  <2> SUFFICES ASSUME EquationsHold(w, calls), EquationsHold(w, rest), NEW k \in 1..(n + m)
               PROVE w[all[k].l] = w[all[k].r]
    BY <1>1 DEF EquationsHold
  <2>1. CASE k \in 1..n
    BY <2>1, <1>1 DEF EquationsHold
  <2>2. ASSUME NEW j \in 1..m, k = n + j PROVE w[all[k].l] = w[all[k].r]
    <3>1. all[k] = rest[j]
      BY <2>2, <1>1
    <3>2. j \in DOMAIN rest
      BY <1>1
    <3>3. w[rest[j].l] = w[rest[j].r]
      BY <3>2 DEF EquationsHold
    <3> QED BY <3>1, <3>3
  <2> QED BY <2>1, <2>2, <1>2
<1> QED BY <1>5, <1>6 DEF all

LEMMA CallsInner ==
    ASSUME NEW X, NEW calls \in Seq(X), NEW rest \in Seq(X),
           \A k \in DOMAIN calls : ~calls[k].top, \A k \in DOMAIN rest : ~rest[k].top
    PROVE  \A k \in DOMAIN (calls \o rest) : ~(calls \o rest)[k].top
<1> DEFINE all == calls \o rest
           n == Len(calls)
           m == Len(rest)
<1>1. /\ n \in Nat /\ m \in Nat /\ DOMAIN calls = 1..n /\ DOMAIN rest = 1..m
      /\ DOMAIN all = 1..(n + m)
      /\ \A k \in 1..(n + m) : all[k] = IF k <= n THEN calls[k] ELSE rest[k - n]
  OBVIOUS
<1>2. \A k \in 1..(n + m) : IF k <= n THEN k \in 1..n ELSE k - n \in 1..m
  BY <1>1
<1> HIDE DEF all, n, m
<1>3. ASSUME NEW k \in 1..(n + m) PROVE ~all[k].top
  <2>1. CASE k <= n
    <3>1. all[k] = calls[k] /\ k \in DOMAIN calls
      BY <2>1, <1>1, <1>2
    <3> QED BY <3>1
  <2>2. CASE ~(k <= n)
    <3>1. all[k] = rest[k - n] /\ k - n \in DOMAIN rest
      BY <2>2, <1>1, <1>2
    <3> QED BY <3>1
  <2> QED BY <2>1, <2>2
<1> QED BY <1>1, <1>3 DEF all

\* The first call and the others, which are never dropped.
LEMMA SolvesSplit ==
    ASSUME NEW T, Over(T), todo # << >>
    PROVE  /\ Here \in [l : T, r : T, top : BOOLEAN]
           /\ Tail(todo) \in Seq([l : T, r : T, top : BOOLEAN])
           /\ Here.top => Tail(todo) = << >>
           /\ \A k \in DOMAIN Tail(todo) : ~Tail(todo)[k].top
           /\ \A w, fits :
                 Solves(w, fits) <=> /\ TableHolds(w, fits, alias, type, class)
                                     /\ EquationsHold(w, Tail(todo))
                                     /\ (Dropped(Here) \/ w[Here.l] = w[Here.r])
<1> DEFINE n == Len(todo)
           rest == Tail(todo)
<1>1. /\ n \in Nat /\ n >= 1 /\ DOMAIN todo = 1..n /\ Here = todo[1]
      /\ rest \in Seq([l : T, r : T, top : BOOLEAN]) /\ DOMAIN rest = 1..(n - 1)
      /\ \A k \in 1..(n - 1) : rest[k] = todo[k + 1]
      /\ Here \in [l : T, r : T, top : BOOLEAN]
      /\ n = 1 => rest = << >>
  <2> DEFINE X == [l : T, r : T, top : BOOLEAN]
  <2>1. todo \in Seq(X)
    BY DEF Over
  <2> HIDE DEF X
  <2>2. n \in Nat /\ n >= 1 /\ DOMAIN todo = 1..n /\ Here = todo[1]
    BY <2>1 DEF Here
  <2>3. rest \in Seq(X) /\ Len(rest) = n - 1 /\ DOMAIN rest = 1..(n - 1)
    BY <2>1
  <2>4. \A k \in 1..(n - 1) : rest[k] = todo[k + 1]
    BY <2>1
  <2>5. Here \in X
    BY <2>1, <2>2
  <2>6. n = 1 => rest = << >>
    BY <2>3
  <2> QED BY <2>2, <2>3, <2>4, <2>5, <2>6 DEF X
<1>2. Here.top => rest = << >>
  BY <1>1 DEF Over
<1>3. ASSUME NEW k \in 1..(n - 1) PROVE ~rest[k].top
  <2>1. k + 1 \in DOMAIN todo /\ n # 1
    BY <1>1
  <2> QED BY <2>1, <1>1 DEF Over
<1>4. \A k \in 1..n : k = 1 \/ \E j \in 1..(n - 1) : k = j + 1
  <2> SUFFICES ASSUME NEW k \in 1..n, k # 1 PROVE \E j \in 1..(n - 1) : k = j + 1
    OBVIOUS
  <2>1. k - 1 \in 1..(n - 1) /\ k = (k - 1) + 1
    BY <1>1
  <2> QED BY <2>1
<1>5. \A j \in 1..(n - 1) : j + 1 \in 1..n
  BY <1>1
<1>6. \A j \in 1..(n - 1) : ~Dropped(todo[j + 1])
  BY <1>1, <1>3 DEF Dropped
<1>7. 1 \in 1..n
  BY <1>1
<1> HIDE DEF n, rest
<1>8. ASSUME NEW w
      PROVE  (\A k \in DOMAIN todo : Dropped(todo[k]) \/ w[todo[k].l] = w[todo[k].r])
               <=> (Dropped(Here) \/ w[Here.l] = w[Here.r]) /\ EquationsHold(w, rest)
  <2> DEFINE Ok(k) == Dropped(todo[k]) \/ w[todo[k].l] = w[todo[k].r]
  <2>1. Ok(1) <=> (Dropped(Here) \/ w[Here.l] = w[Here.r])
    BY <1>1
  <2>2. \A j \in 1..(n - 1) : Ok(j + 1) <=> w[rest[j].l] = w[rest[j].r]
    BY <1>1, <1>6
  <2>3. EquationsHold(w, rest) <=> \A j \in 1..(n - 1) : w[rest[j].l] = w[rest[j].r]
    BY <1>1 DEF EquationsHold
  <2> HIDE DEF Ok
  <2>4. (\A k \in 1..n : Ok(k)) <=> Ok(1) /\ \A j \in 1..(n - 1) : Ok(j + 1)
    BY <1>4, <1>5, <1>7
  <2>5. (\A k \in DOMAIN todo : Ok(k)) <=> (\A k \in 1..n : Ok(k))
    BY <1>1
  <2> QED BY <2>1, <2>2, <2>3, <2>4, <2>5 DEF Ok
<1> QED BY <1>1, <1>2, <1>3, <1>8 DEF Solves, rest

\* After a step none of the calls are dropped.
LEMMA SolvesAfter ==
    ASSUME \A k \in DOMAIN todo' : ~todo'[k].top, NEW w, NEW fits
    PROVE  Solves(w, fits)' <=> /\ TableHolds(w, fits, alias', type', class')
                                /\ EquationsHold(w, todo')
<1>1. \A k \in DOMAIN todo' : ~Dropped(todo[k])'
  BY DEF Dropped
<1> QED BY <1>1 DEF Solves, EquationsHold

\* What an inner call that is not answered yet asks for.
LEMMA InnerSolves ==
    ASSUME Table, NEW T, Terms(T), Over(T), todo # << >>, Here.top = FALSE,
           InTable(Here.l), InTable(Here.r)
    PROVE  /\ L \in T /\ R \in T
           /\ \A w, fits : Solves(w, fits) <=> /\ TableHolds(w, fits, alias, type, class)
                                              /\ EquationsHold(w, Tail(todo))
                                              /\ w[L] = w[R]
<1>1. Here.l \in T /\ Here.r \in T
  BY SolvesSplit
<1>2. /\ L \in T /\ R \in T
      /\ \A w, fits : TableHolds(w, fits, alias, type, class)
                        => w[L] = w[Here.l] /\ w[R] = w[Here.r]
  BY <1>1, GetTypeHolds DEF L, R
<1>3. ~Dropped(Here)
  BY DEF Dropped
<1> QED BY <1>2, <1>3, SolvesSplit

\* A `!` in a type that is built up is let through.
LetsNeverPass == Inner /\ ~IsInfer(L) /\ R = Never

(***************************************************************************)
(* A call of equate_types_inner that does not fail neither loses a         *)
(* solution nor adds one, whichever of the two sides is unknown, an alias  *)
(* or known: what it leaves in the table and to the calls in its place     *)
(* holds for the same values.                                              *)
(***************************************************************************)
LEMMA StepKeepsSolutions ==
    ASSUME Table, NEW T, NEW w, NEW fits,
           Terms(T), Over(T), Interprets(w, fits, T),
           EquateStep, phase' # "error", ~LetsNeverPass
    PROVE  Solves(w, fits)' <=> Solves(w, fits)
<1>1. /\ todo # << >> /\ InTable(Here.l) /\ InTable(Here.r)
      /\ \/ AlreadyEqual \/ NeverIgnored \/ EnterInner
         \/ BothUnknown \/ OneUnknown \/ Decompose
  BY DEF EquateStep, Reject
<1>2. /\ Here \in [l : T, r : T, top : BOOLEAN]
      /\ Tail(todo) \in Seq([l : T, r : T, top : BOOLEAN])
      /\ Here.top => Tail(todo) = << >>
      /\ \A k \in DOMAIN Tail(todo) : ~Tail(todo)[k].top
      /\ Solves(w, fits) <=> TableHolds(w, fits, alias, type, class) /\ EquationsHold(w, Tail(todo))
                           /\ (Dropped(Here) \/ w[Here.l] = w[Here.r])
  BY <1>1, SolvesSplit
<1>3. /\ L \in T /\ R \in T
      /\ TableHolds(w, fits, alias, type, class) => w[L] = w[Here.l] /\ w[R] = w[Here.r]
  BY <1>1, <1>2, GetTypeHolds DEF L, R
<1>5. CASE AlreadyEqual
  <2>1. Solves(w, fits)' <=> TableHolds(w, fits, alias, type, class) /\ EquationsHold(w, Tail(todo))
    BY <1>5, <1>2, SolvesAfter DEF AlreadyEqual, Answer
  <2>2. TableHolds(w, fits, alias, type, class) => w[Here.l] = w[Here.r]
    BY <1>5, <1>3 DEF AlreadyEqual, Equal
  <2> QED BY <2>1, <2>2, <1>2
<1>6. CASE NeverIgnored
  <2>1. Solves(w, fits)' <=> TableHolds(w, fits, alias, type, class) /\ EquationsHold(w, Tail(todo))
    BY <1>6, <1>2, SolvesAfter DEF NeverIgnored, Answer
  <2>2. Dropped(Here)
    BY <1>6 DEF NeverIgnored
  <2> QED BY <2>1, <2>2, <1>2
<1>7. CASE EnterInner
  <2>1. Tail(todo) = << >> /\ ~Dropped(Here)
    BY <1>7, <1>2 DEF EnterInner
  <2>2. todo' = <<Call(L, R, FALSE)>> /\ UNCHANGED table
    <3> DEFINE c == Call(L, R, FALSE)
    <3>1. todo' = <<c>> \o << >> /\ UNCHANGED table
      BY <1>7, <2>1 DEF EnterInner, Instead, table
    <3> HIDE DEF c
    <3>2. <<c>> \o << >> = <<c>>
      OBVIOUS
    <3> QED BY <3>1, <3>2 DEF c
  <2>3. DOMAIN todo' = {1} /\ todo'[1].top = FALSE /\ todo'[1].l = L /\ todo'[1].r = R
    BY <2>2 DEF Call
  <2>4. Solves(w, fits)' <=> TableHolds(w, fits, alias, type, class) /\ w[L] = w[R]
    <3>1. Solves(w, fits)' <=> TableHolds(w, fits, alias, type, class) /\ EquationsHold(w, todo')
      <4>1. \A k \in DOMAIN todo' : ~todo'[k].top
        BY <2>3
      <4> QED BY <4>1, <2>2, SolvesAfter DEF table
    <3>2. EquationsHold(w, todo') <=> w[L] = w[R]
      BY <2>3 DEF EquationsHold
    <3> QED BY <3>1, <3>2
  <2>5. EquationsHold(w, Tail(todo))
    BY <2>1 DEF EquationsHold
  <2> QED BY <2>1, <2>4, <2>5, <1>2, <1>3
<1>8. CASE Inner
  <2>1. Solves(w, fits) <=> TableHolds(w, fits, alias, type, class) /\ EquationsHold(w, Tail(todo)) /\ w[L] = w[R]
    BY <1>1, <1>8, InnerSolves DEF Inner
  <2> DEFINE n == Len(alias)
  <2>2. n \in Nat /\ Slots = 1..n /\ alias \in Seq(Nat) /\ type = [k \in Slots |-> type[k]]
    BY TableFacts DEF IsForest
  <2>3. CASE BothUnknown
    <3>1. IvarUnify(L.slot, R.slot) /\ todo' = Tail(todo) /\ IsInfer(L) /\ IsInfer(R)
      BY <2>3 DEF BothUnknown, Answer, Reject
    <3>2. PICK l \in Slots : L = Infer(l) /\ Unknown(l) /\ PointedIvar(l) = l
      BY <3>1, <1>1, UnknownIsRoot DEF L
    <3>3. PICK r \in Slots : R = Infer(r) /\ Unknown(r) /\ PointedIvar(r) = r
      BY <3>1, <1>1, UnknownIsRoot DEF R
    <3>4. /\ alias' = [alias EXCEPT ![r] = l] /\ type' = [type EXCEPT ![r] = Null]
          /\ class' = [class EXCEPT ![l] = IF class[r] # "None" THEN class[r] ELSE @]
          /\ l # r /\ (class[r] = "None" \/ class[l] \in {"None", class[r]})
      BY <3>1, <3>2, <3>3 DEF IvarUnify, CanUnify, Infer
    <3>5. /\ \A k \in Slots \ {l, r} : /\ alias'[k] = alias[k] /\ type'[k] = type[k]
                                     /\ class'[k] = class[k]
          /\ Len(alias') = Len(alias) /\ alias'[r] = l /\ l # 0
          /\ alias'[l] = 0 /\ type'[l] = Infer(l) /\ alias[l] = 0 /\ type[l] = Infer(l)
          /\ alias[r] = 0 /\ type[r] = Infer(r)
          /\ class'[l] = IF class[r] # "None" THEN class[r] ELSE class[l]
      <4>1. /\ class \in Seq(Classes) /\ Len(class) = Len(alias)
            /\ DOMAIN class = Slots /\ DOMAIN alias = Slots /\ DOMAIN type = Slots
        BY <2>2, TableFacts
      <4>2. alias[l] = 0 /\ type[l] = Infer(l) /\ alias[r] = 0 /\ type[r] = Infer(r) /\ l # 0
        BY <3>2, <3>3, <2>2 DEF Unknown, IsAlias
      <4>3. Len(alias') = Len(alias)
        BY <3>4, <2>2
      <4> QED BY <3>4, <4>1, <4>2, <4>3
    <3> DEFINE Was(k) == SlotHolds(w, fits, k, alias[k], type[k], class[k])
               Is(k) == SlotHolds(w, fits, k, alias'[k], type'[k], class'[k])
    <3>6. /\ \A k \in Slots \ {l, r} : Is(k) <=> Was(k)
          /\ Is(l) <=> w[L] \in fits[class'[l]]
          /\ Is(r) <=> w[R] = w[L]
          /\ Was(l) <=> w[L] \in fits[class[l]]
          /\ Was(r) <=> w[R] \in fits[class[r]]
      BY <3>5, <3>2, <3>3 DEF SlotHolds
    <3>7. w[L] \in fits["None"] /\ w[R] \in fits["None"]
      BY <1>3 DEF Interprets
    <3>8. Is(l) /\ Is(r) <=> Was(l) /\ Was(r) /\ w[L] = w[R]
      BY <3>4, <3>5, <3>6, <3>7
    <3>9. /\ TableHolds(w, fits, alias', type', class') <=> \A k \in Slots : Is(k)
          /\ TableHolds(w, fits, alias, type, class) <=> \A k \in Slots : Was(k)
      BY <3>5, <2>2 DEF TableHolds
    <3>10. Solves(w, fits)' <=> /\ TableHolds(w, fits, alias', type', class')
                                /\ EquationsHold(w, Tail(todo))
      BY <3>1, <1>2, SolvesAfter
    <3> HIDE DEF Is, Was
    <3> QED BY <2>1, <3>6, <3>8, <3>9, <3>10
  <2>4. CASE OneUnknown
    <3>1. PICK x \in {L, R}, ty \in {L, R} :
             /\ IsInfer(x) /\ SetIvar(x.slot, ty) /\ {x, ty} = {L, R}
      BY <2>4 DEF OneUnknown
    <3>2. PICK r \in Slots : x = Infer(r) /\ Unknown(r) /\ PointedIvar(r) = r
      BY <3>1, <1>1, UnknownIsRoot DEF L, R
    <3>3. /\ SetIvarTo(r, ty) /\ todo' = Tail(todo)
      BY <3>1, <3>2 DEF SetIvar, Reject, Answer, Infer
    <3>4. /\ alias' = alias /\ type' = [type EXCEPT ![r] = ty] /\ class' = class
          /\ Known(ty) /\ Fits(class[r], ty)
      BY <3>2, <3>3 DEF SetIvarTo
    <3>5. /\ \A k \in Slots \ {r} : type'[k] = type[k]
          /\ type'[r] = ty /\ alias[r] = 0 /\ type[r] = Infer(r) /\ ty # Infer(r)
      BY <3>2, <3>4, <2>2 DEF Unknown, IsAlias, Known, Infer
    <3> DEFINE Was(k) == SlotHolds(w, fits, k, alias[k], type[k], class[k])
               Is(k) == SlotHolds(w, fits, k, alias'[k], type'[k], class'[k])
    <3>6. /\ \A k \in Slots \ {r} : Is(k) <=> Was(k)
          /\ Is(r) <=> w[x] = w[ty]
          /\ Was(r) <=> w[x] \in fits[class[r]]
      BY <3>2, <3>4, <3>5 DEF SlotHolds
    <3>7. w[ty] \in fits[class[r]]
      <4>1. ty \in T /\ ~IsInfer(ty) /\ class[r] \in Classes
        BY <3>1, <3>2, <3>4, <1>3, TableFacts DEF Known, IsInfer
      <4> QED BY <4>1, <3>4 DEF Interprets
    <3>8. /\ TableHolds(w, fits, alias', type', class') <=> \A k \in Slots : Is(k)
          /\ TableHolds(w, fits, alias, type, class) <=> \A k \in Slots : Was(k)
      BY <3>4, <2>2 DEF TableHolds
    <3>9. Solves(w, fits)' <=> /\ TableHolds(w, fits, alias', type', class')
                               /\ EquationsHold(w, Tail(todo))
      BY <3>3, <1>2, SolvesAfter
    <3>10. w[x] = w[ty] <=> w[L] = w[R]
      BY <3>1
    <3> HIDE DEF Is, Was
    <3> QED BY <2>1, <3>6, <3>7, <3>8, <3>9, <3>10
  <2>5. CASE Decompose
    <3> DEFINE X == [l : T, r : T, top : BOOLEAN]
               calls == [k \in DOMAIN L.args |-> Call(L.args[k], R.args[k], FALSE)]
    <3>1. /\ ~IsInfer(L) /\ ~IsInfer(R) /\ Matches(L, R)
          /\ todo' = calls \o Tail(todo) /\ UNCHANGED table
      BY <2>5 DEF Decompose, Instead, Reject, LetsNeverPass, table
    <3>2. L.args \in Seq(T) /\ R.args \in Seq(T) /\ Len(L.args) = Len(R.args)
      BY <3>1, <1>3 DEF Terms, Matches
    <3>3. /\ calls \in Seq(X) /\ DOMAIN calls = DOMAIN L.args
          /\ \A k \in DOMAIN calls : /\ calls[k].top = FALSE
                                     /\ calls[k].l = L.args[k] /\ calls[k].r = R.args[k]
      <4>1. DOMAIN L.args = 1..Len(L.args) /\ DOMAIN R.args = 1..Len(L.args)
        BY <3>2
      <4>2. \A k \in 1..Len(L.args) : L.args[k] \in T /\ R.args[k] \in T
        BY <3>2, <4>1
      <4>3. \A k \in 1..Len(L.args) : Call(L.args[k], R.args[k], FALSE) \in X
        BY <4>2 DEF Call
      <4> HIDE DEF X
      <4>4. calls \in [1..Len(L.args) -> X]
        BY <4>1, <4>3
      <4> HIDE DEF calls
      <4>5. calls \in Seq(X)
        BY <4>4, <3>2
      <4> QED BY <4>1, <4>5 DEF Call, calls
    <3>4. Tail(todo) \in Seq(X)
      BY <1>2
    <3> HIDE DEF X, calls
    <3>5. EquationsHold(w, todo') <=> EquationsHold(w, calls) /\ EquationsHold(w, Tail(todo))
      BY <3>1, <3>3, <3>4, CallsHold
    <3>6. \A k \in DOMAIN todo' : ~todo'[k].top
      BY <3>1, <3>3, <3>4, <1>2, CallsInner
    <3>7. EquationsHold(w, calls) <=> \A k \in DOMAIN L.args : w[L.args[k]] = w[R.args[k]]
      BY <3>3 DEF EquationsHold
    <3>8. w[L] = w[R] <=> \A k \in DOMAIN L.args : w[L.args[k]] = w[R.args[k]]
      BY <3>1, <1>3 DEF Interprets
    <3>9. Solves(w, fits)' <=> TableHolds(w, fits, alias, type, class) /\ EquationsHold(w, todo')
      BY <3>1, <3>6, SolvesAfter DEF table
    <3> QED BY <2>1, <3>5, <3>7, <3>8, <3>9
  <2> QED BY <1>1, <1>5, <1>6, <1>7, <2>3, <2>4, <2>5
<1> QED BY <1>1, <1>5, <1>6, <1>7, <1>8 DEF BothUnknown, OneUnknown, Decompose

\* Solving goes on with values that solve what is left: a step of type
\* inference that answers an equation (equate_types, equate_types_inner) leaves
\* as solutions what were solutions before, for any meaning of types in which
\* types are equal when they are built the same way from equal types.
THEOREM EquateKeepsSolutions ==
    ASSUME NEW CONSTANT T, NEW CONSTANT w, NEW CONSTANT fits,
           Terms(T), Interprets(w, fits, T)
    PROVE  Spec => [][ EquateStep /\ Over(T) /\ ~LetsNeverPass /\ phase' # "error"
                         => (Solves(w, fits)' <=> Solves(w, fits)) ]_vars
<1>1. ASSUME Table, [Next]_vars
      PROVE  [EquateStep /\ Over(T) /\ ~LetsNeverPass /\ phase' # "error"
                => (Solves(w, fits)' <=> Solves(w, fits))]_vars
  BY <1>1, StepKeepsSolutions
<1>2. TableRespected => []Table
  BY TableInvariant DEF TableRespected
<1> QED BY <1>1, <1>2, TableIsRespected, PTL DEF Spec

\* The compiler gives up on a call before it looks at it, or for a type that
\* would name itself.
GivesUp ==
    \/ ~InTable(Here.l) \/ ~InTable(Here.r)
    \/ IsInfer(R) /\ R.slot \in Vars(L)
    \/ IsInfer(L) /\ L.slot \in Vars(R)

\* No variable has a value that is both an integer and a float.
NumbersDiffer(w, fits) ==
    \A i \in Slots : w[Infer(i)] \notin fits["Integer"] \cap fits["Float"]

\* A literal not known yet has one.
TwoKinds(w, fits) ==
    \E i \in Slots : /\ Unknown(i) /\ class[i] # "None"
                     /\ w[Infer(i)] \in fits["Integer"] \cap fits["Float"]

LEMMA RejectIsRight ==
    ASSUME Table, NEW T, NEW w, NEW fits,
           Terms(T), Over(T), Interprets(w, fits, T),
           EquateStep, phase' = "error", ~GivesUp
    PROVE  Solves(w, fits) => TwoKinds(w, fits)
<1>1. /\ todo # << >> /\ InTable(Here.l) /\ InTable(Here.r) /\ phase # "error"
      /\ \/ AlreadyEqual \/ NeverIgnored \/ EnterInner
         \/ BothUnknown \/ OneUnknown \/ Decompose
  BY DEF EquateStep, GivesUp
<1>2. Inner /\ Reject /\ (BothUnknown \/ OneUnknown \/ Decompose)
  BY <1>1 DEF AlreadyEqual, NeverIgnored, EnterInner, BothUnknown, OneUnknown, Decompose,
              Answer, Instead, SetIvar, SetIvarTo, IvarUnify
<1>3. /\ L \in T /\ R \in T
      /\ Solves(w, fits) => TableHolds(w, fits, alias, type, class) /\ w[L] = w[R]
  BY <1>1, <1>2, InnerSolves DEF Inner
<1> SUFFICES ASSUME TableHolds(w, fits, alias, type, class), w[L] = w[R], ~TwoKinds(w, fits)
             PROVE  FALSE
  BY <1>3
<1>4. ASSUME NEW r \in Slots, Unknown(r) PROVE w[Infer(r)] \in fits[class[r]]
  <2>1. SlotHolds(w, fits, r, alias[r], type[r], class[r])
    BY DEF TableHolds, Slots
  <2> QED BY <2>1, <1>4 DEF SlotHolds, Unknown, IsAlias
<1>5. CASE BothUnknown
  <2>1. PICK l \in Slots : L = Infer(l) /\ Unknown(l) /\ PointedIvar(l) = l
    BY <1>5, <1>1, UnknownIsRoot DEF L, BothUnknown
  <2>2. PICK r \in Slots : R = Infer(r) /\ Unknown(r) /\ PointedIvar(r) = r
    BY <1>5, <1>1, UnknownIsRoot DEF R, BothUnknown
  <2>3. ~CanUnify(l, r)
    BY <1>5, <1>1, <2>1, <2>2 DEF BothUnknown, Answer, Infer
  <2>4. /\ class[l] \in Classes /\ class[r] \in Classes
    BY <2>1, <2>2, TableFacts
  <2>5. {class[l], class[r]} = {"Integer", "Float"}
    BY <2>1, <2>2, <2>3, <2>4 DEF CanUnify, Classes
  <2>6. w[L] \in fits[class[l]] /\ w[L] \in fits[class[r]]
    BY <2>1, <2>2, <1>4
  <2>7. w[L] \in fits["Integer"] \cap fits["Float"]
    BY <2>5, <2>6
  <2> QED BY <2>1, <2>5, <2>7 DEF TwoKinds
<1>6. CASE OneUnknown
  <2>1. PICK x \in {L, R}, ty \in {L, R} :
           /\ IsInfer(x) /\ ~IsInfer(ty) /\ SetIvar(x.slot, ty) /\ {x, ty} = {L, R}
    BY <1>6 DEF OneUnknown
  <2>2. PICK r \in Slots : x = Infer(r) /\ Unknown(r) /\ PointedIvar(r) = r
    BY <2>1, <1>1, UnknownIsRoot DEF L, R
  <2>3. x.slot \notin Vars(ty)
    BY <2>1 DEF GivesUp
  <2>4. ~Fits(class[r], ty)
    BY <2>1, <2>2, <2>3, <1>1, <1>2 DEF SetIvar, SetIvarTo, Answer, Reject, Infer
  <2>5. w[ty] \in fits[class[r]] /\ class[r] \in Classes
    BY <2>1, <2>2, <1>4, TableFacts
  <2> QED BY <2>1, <2>4, <2>5, <1>3 DEF Interprets
<1>7. CASE Decompose
  <2>1. ~IsInfer(L) /\ ~IsInfer(R) /\ L # R
    BY <1>7 DEF Decompose, Inner, Equal
  <2>2. Matches(L, R)
    BY <2>1, <1>3 DEF Interprets
  <2>3. R = Never
    BY <1>7, <2>2, <1>1, <1>2 DEF Decompose, Instead, Reject
  <2>4. L.con = "!" /\ L = Term(L.con, L.args) /\ L.args \in Seq(T) /\ Len(L.args) = 0
    BY <2>1, <2>2, <2>3, <1>3 DEF Matches, Never, Term, Terms
  <2>5. L.args = << >>
    BY <2>4
  <2> QED BY <2>1, <2>3, <2>4, <2>5 DEF Never
<1> QED BY <1>2, <1>5, <1>6, <1>7

\* An error that equate_types_inner reports, for types that are not built alike,
\* a literal that is no such type, or an integer and a float literal, is one: no
\* values solve the equations that are left, unless a value is a number of both
\* kinds.
THEOREM RejectsUnsolvable ==
    ASSUME NEW CONSTANT T, NEW CONSTANT w, NEW CONSTANT fits,
           Terms(T), Interprets(w, fits, T)
    PROVE  Spec => [][ EquateStep /\ Over(T) /\ phase' = "error" /\ ~GivesUp
                         => ~(Solves(w, fits) /\ NumbersDiffer(w, fits)) ]_vars
<1>1. ASSUME Table, [Next]_vars
      PROVE  [EquateStep /\ Over(T) /\ phase' = "error" /\ ~GivesUp
                => ~(Solves(w, fits) /\ NumbersDiffer(w, fits))]_vars
  BY <1>1, RejectIsRight DEF TwoKinds, NumbersDiffer
<1>2. TableRespected => []Table
  BY TableInvariant DEF TableRespected
<1> QED BY <1>1, <1>2, TableIsRespected, PTL DEF Spec

(***************************************************************************)
(* Finite types.                                                           *)
(***************************************************************************)
LoopsInv == phase \in {"compact", "done"} => NoTypeLoop

\* The root of a known type is no unknown one, and a lookup names roots.
LEMMA NamesRoots ==
    ASSUME TypesInv, NEW i \in Slots, alias[i] = 0
    PROVE  /\ \A j \in Names(i) : j \in Slots /\ alias[j] = 0
           /\ type[i] = Infer(i) => Names(i) = {i}
<1>1. type[i] \in TypeRefs /\ Vars(type[i]) \subseteq Slots /\ Table
  BY DEF TypesInv, Scoped
<1>2. \A j \in Names(i) : j \in Slots /\ alias[j] = 0
  BY <1>1, LookupsEnd DEF Names, Table, IsAlias
<1>3. ASSUME type[i] = Infer(i) PROVE Names(i) = {i}
  <2>1. Vars(type[i]) = {i}
    BY <1>1, <1>3, VarsDef DEF Infer, IsInfer
  <2>2. PointedIvar(i) = i
    BY <1>1, TableFacts
  <2> QED BY <2>1, <2>2 DEF Names
<1> QED BY <1>2, <1>3

\* Where no type leads back to itself, none does with the types of its variables
\* for them: what it names then is named by the types that it named.
LEMMA CompactKeepsFinite ==
    ASSUME TypesInv, NoTypeLoop, Compact
    PROVE  NoTypeLoop'
<1>1. /\ at \in Slots /\ Slots' = Slots /\ Table /\ Table'
      /\ \A i \in Slots : PointedIvar(i)' = PointedIvar(i)
      /\ \A i \in Slots : alias'[i] = 0 <=> alias[i] = 0
      /\ \A i \in Slots \ {at} : type'[i] = type[i]
      /\ IF alias[at] # 0 THEN type'[at] = type[at]
         ELSE IF type[at] = Infer(at) THEN type'[at] = type[at]
         ELSE type'[at] = Expanded(type[at], type) /\ type'[at] \in TypeRefs
  BY CompactStep DEF TypesInv
<1>2. \A i \in Slots : alias[i] = 0 => type[i] \in TypeRefs /\ Vars(type[i]) \subseteq Slots
  BY DEF TypesInv, Scoped
<1>3. \A i \in Slots : Unknown(i) <=> alias[i] = 0 /\ type[i] = Infer(i)
  BY DEF Unknown, IsAlias
<1>4. ASSUME NEW i \in Slots, alias[i] = 0, ~Unknown(i)' PROVE ~Unknown(i)
  <2>1. Unknown(i)' <=> alias'[i] = 0 /\ type'[i] = Infer(i)
    BY DEF Unknown, IsAlias
  <2> QED BY <2>1, <1>1, <1>4 DEF Unknown, IsAlias
\* The roots of a type's variables, before and after.
<1>5. ASSUME NEW i \in Slots, alias[i] = 0, type'[i] = type[i] PROVE Names(i)' = Names(i)
  <2>1. Names(i)' = {PointedIvar(k)' : k \in Vars(type'[i])}
    BY DEF Names
  <2>2. Names(i) = {PointedIvar(k) : k \in Vars(type[i])} /\ Vars(type[i]) \subseteq Slots
    BY <1>2, <1>5 DEF Names
  <2> QED BY <2>1, <2>2, <1>1, <1>5
<1>6. ASSUME NEW i \in Slots, alias[i] = 0,
             type'[i] = Expanded(type[i], type), type'[i] \in TypeRefs,
             NEW x \in Names(i)'
      PROVE  \E m \in Names(i) : x \in Names(m)
  <2> DEFINE to == [k \in Slots |-> type[PointedIvar(k)]]
  <2>1. type'[i] = Subst(type[i], to)
    BY <1>6 DEF Expanded
  <2>2. Names(i)' = {PointedIvar(k)' : k \in Vars(type'[i])}
    BY DEF Names
  <2>3. PICK k \in Vars(type'[i]) : x = PointedIvar(k)'
    BY <1>6, <2>2
  <2>4. PICK h \in Vars(type[i]) : k \in Vars(to[h])
    <3> HIDE DEF to
    <3> QED BY <1>1, <1>2, <1>6, <2>1, <2>3, VarsSubst
  <2>5. h \in Slots /\ k \in Vars(type[PointedIvar(h)])
    BY <1>1, <1>2, <1>6, <2>4
  <2>6. PointedIvar(h) \in Slots /\ alias[PointedIvar(h)] = 0
    BY <2>5, <1>1, LookupsEnd DEF Table, IsAlias
  <2>7. k \in Slots
    BY <1>2, <2>5, <2>6
  <2>8. x = PointedIvar(k) /\ x \in Names(PointedIvar(h))
    BY <1>1, <2>3, <2>5, <2>7 DEF Names
  <2>9. PointedIvar(h) \in Names(i)
    BY <2>4 DEF Names
  <2> QED BY <2>8, <2>9
<1> SUFFICES ASSUME NEW C \in SUBSET {i \in Slots : ~IsAlias(i)' /\ ~Unknown(i)'}, C # {},
                    \A i \in C : Names(i)' \cap C # {}
             PROVE  FALSE
  BY <1>1 DEF NoTypeLoop
<1>7. \A i \in C : i \in Slots /\ alias[i] = 0 /\ ~IsAlias(i) /\ ~Unknown(i)
  BY <1>1, <1>4 DEF IsAlias
<1>8. C \in SUBSET {i \in Slots : ~IsAlias(i) /\ ~Unknown(i)}
  BY <1>7
<1>9. CASE at \notin C \/ type'[at] = type[at]
  <2>1. \A i \in C : Names(i)' = Names(i)
    BY <1>1, <1>5, <1>7, <1>9
  <2> QED BY <2>1, <1>8 DEF NoTypeLoop
<1>10. CASE at \in C /\ type'[at] # type[at]
  <2>0. PICK i \in C : i = at
    BY <1>10
  <2>1. /\ i \in Slots /\ alias[i] = 0 /\ type'[i] = Expanded(type[i], type)
        /\ type'[i] \in TypeRefs
    BY <1>1, <1>10, <2>0
  <2>2. PICK x \in C : x \in Names(i)'
    OBVIOUS
  <2>3. PICK m \in Names(i) : x \in Names(m)
    BY <2>1, <2>2, <1>6
  <2>4. m \in Slots /\ alias[m] = 0
    BY <2>1, <2>3, NamesRoots
  <2>5. ~Unknown(m)
    <3>1. Unknown(m) => x = m
      BY <2>3, <2>4, NamesRoots DEF Unknown
    <3> QED BY <3>1, <2>2, <1>7
  <2> DEFINE D == C \cup {m}
  <2>6. D \in SUBSET {k \in Slots : ~IsAlias(k) /\ ~Unknown(k)} /\ D # {}
    BY <2>4, <2>5, <1>8 DEF IsAlias
  <2>7. ASSUME NEW d \in D PROVE Names(d) \cap D # {}
    <3>1. CASE d = i
      BY <3>1, <2>3
    <3>2. CASE d = m
      BY <3>2, <2>2, <2>3
    <3>3. CASE d \in C /\ d # i
      <4>1. Names(d)' = Names(d)
        BY <3>3, <2>0, <1>1, <1>5, <1>7
      <4> QED BY <4>1, <3>3
    <3> QED BY <3>1, <3>2, <3>3
  <2> HIDE DEF D
  <2> QED BY <2>6, <2>7 DEF NoTypeLoop
<1> QED BY <1>9, <1>10

\* Steps that leave the table alone keep what it says of loops.
LEMMA LoopsKept ==
    ASSUME UNCHANGED <<alias, type>>, NoTypeLoop
    PROVE  NoTypeLoop'
<1>1. \A k : PointedIvar(k)' = PointedIvar(k)
  BY TableLookups
<1>2. Slots' = Slots /\ \A i : (IsAlias(i)' <=> IsAlias(i)) /\ (Unknown(i)' <=> Unknown(i))
  BY DEF Slots, IsAlias, Unknown
<1>3. ASSUME NEW i PROVE Names(i)' = Names(i)
  <2>1. Names(i)' = {PointedIvar(k)' : k \in Vars(type'[i])}
    BY DEF Names
  <2> QED BY <2>1, <1>1 DEF Names
<1> SUFFICES ASSUME NEW C \in SUBSET {i \in Slots : ~IsAlias(i)' /\ ~Unknown(i)'}, C # {}
             PROVE  \E i \in C : Names(i)' \cap C = {}
  BY <1>2 DEF NoTypeLoop
<1>4. C \in SUBSET {i \in Slots : ~IsAlias(i) /\ ~Unknown(i)}
  BY <1>2
<1>5. PICK i \in C : Names(i) \cap C = {}
  BY <1>4 DEF NoTypeLoop
<1> QED BY <1>3, <1>5

LEMMA LoopsStep == TypesInv /\ LiteralInv /\ LoopsInv /\ [Next]_vars => LoopsInv'
<1> SUFFICES ASSUME TypesInv, LiteralInv, LoopsInv, [Next]_vars, phase' \in {"compact", "done"}
             PROVE  NoTypeLoop'
  BY DEF LoopsInv
<1>1. CASE Compact
  <2>1. NoTypeLoop
    BY <1>1, CompactStep DEF LoopsInv
  <2> QED BY <2>1, <1>1, CompactKeepsFinite
<1>2. CASE CheckForLoops
  <2>1. UNCHANGED <<alias, type>> /\ NoTypeLoop
    BY <1>2 DEF CheckForLoops, Reject
  <2> QED BY <2>1, LoopsKept
<1>3. CASE EndPass
  <2>1. UNCHANGED <<alias, type>> /\ phase = "compact"
    BY <1>3 DEF EndPass
  <2> QED BY <2>1, LoopsKept DEF LoopsInv
<1>4. CASE EndRules
  <2>1. UNCHANGED <<alias, type>> /\ phase = "rules" /\ ~changed
    BY <1>4 DEF EndRules
  <2>2. Slots = {}
    BY <2>1 DEF LiteralInv
  <2>3. NoTypeLoop
    BY <2>2 DEF NoTypeLoop
  <2> QED BY <2>1, <2>3, LoopsKept
<1>5. CASE UNCHANGED vars
  <2>1. UNCHANGED <<alias, type>> /\ phase' = phase
    BY <1>5 DEF vars
  <2> QED BY <2>1, LoopsKept DEF LoopsInv
<1>6. CASE Defaults
  BY <1>6 DEF Defaults
<1>7. CASE EquateStep
  <2>1. phase' \in {"rules", "pass", "error"}
    BY <1>7 DEF EquateStep, Reject, AlreadyEqual, NeverIgnored, EnterInner, BothUnknown,
                OneUnknown, SetIvar, Decompose, Answer, Instead
  <2> QED BY <2>1
<1>8. ASSUME \/ \E ic \in Classes : AddIvar(ic)
             \/ \E l, r \in TypesOver(born) : EquateTypes(l, r)
      PROVE  FALSE
  BY <1>8 DEF AddIvar, EquateTypes, Idle
<1> QED BY <1>1, <1>2, <1>3, <1>4, <1>5, <1>6, <1>7, <1>8 DEF Next

\* When a function's types are done, each is finite: among any of the variables
\* with a known type there is one whose type names none of them
\* (check_for_loops, compact_ivars), whatever was equated.
THEOREM TypesAreFinite == Spec => []TypesFinite
<1>1. Init => LoopsInv
  BY DEF Init, LoopsInv
<1>2. (TypesInv /\ LiteralInv) /\ LoopsInv /\ [Next]_vars => LoopsInv'
  BY LoopsStep
<1>3. LoopsInv => TypesFinite
  <2> SUFFICES ASSUME NoTypeLoop, NEW C \in SUBSET {i \in Slots : ~IsAlias(i) /\ ~Unknown(i)},
                      C # {}
               PROVE  \E i \in C : \A k \in Vars(type[i]) : PointedIvar(k) \notin C
    BY DEF LoopsInv, TypesFinite, FiniteTypes
  <2>1. PICK i \in C : Names(i) \cap C = {}
    BY DEF NoTypeLoop
  <2> QED BY <2>1 DEF Names
<1> QED BY <1>1, <1>2, <1>3, LiteralInvariant, PTL DEF Spec

(***************************************************************************)
(* What is left to solve is what the equations say.  Here the values of    *)
(* the last lemmas are types: those that types have when their variables   *)
(* have the values v gives them.                                           *)
(***************************************************************************)
ValuesOf(v) == [t \in TypeRefs |-> Value(t, v)]
FitValues(v) == [ic \in Classes |-> {x \in {Value(t, v) : t \in TypeRefs} : Fits(ic, x)}]

LEMMA ValuesAre ==
    /\ \A v : \A t \in TypeRefs : ValuesOf(v)[t] = Value(t, v)
    /\ \A v : \A ic \in Classes : \A t \in TypeRefs :
          ValuesOf(v)[t] \in FitValues(v)[ic] <=> Fits(ic, ValuesOf(v)[t])
    /\ \A v : \A i \in Nat : Infer(i) \in TypeRefs /\ ValuesOf(v)[Infer(i)] = v[i]
<1>1. \A v : \A t \in TypeRefs : ValuesOf(v)[t] = Value(t, v)
  BY DEF ValuesOf
<1>2. ASSUME NEW v, NEW ic \in Classes, NEW t \in TypeRefs
      PROVE  ValuesOf(v)[t] \in FitValues(v)[ic] <=> Fits(ic, ValuesOf(v)[t])
  BY <1>1 DEF FitValues
<1>3. ASSUME NEW v, NEW i \in Nat
      PROVE  Infer(i) \in TypeRefs /\ ValuesOf(v)[Infer(i)] = v[i]
  <2>1. Infer(i) \in TypeRefs
    BY TypeFacts
  <2>2. Value(Infer(i), v) = v[i]
    BY <2>1, SubstDef DEF Value, Infer, IsInfer
  <2> QED BY <2>1, <2>2, <1>1
<1> QED BY <1>1, <1>2, <1>3

LEMMA AllTerms == Terms(TypeRefs) /\ (TypesInv => Over(TypeRefs))
<1>1. Terms(TypeRefs)
  BY TypeFacts DEF Terms
<1>2. ASSUME TypesInv PROVE Over(TypeRefs)
  <2>1. ASSUME NEW i \in Slots PROVE Infer(i) \in TypeRefs /\ (alias[i] = 0 => type[i] \in TypeRefs)
    BY <1>2, ScopedArgs DEF TypesInv, Scoped
  <2>2. [l : Scoped, r : Scoped, top : BOOLEAN] \subseteq [l : TypeRefs, r : TypeRefs, top : BOOLEAN]
    BY DEF Scoped
  <2>3. todo \in Seq([l : TypeRefs, r : TypeRefs, top : BOOLEAN])
    <3> DEFINE X == [l : Scoped, r : Scoped, top : BOOLEAN]
               Y == [l : TypeRefs, r : TypeRefs, top : BOOLEAN]
    <3>1. todo \in Seq(X) /\ X \subseteq Y
      BY <1>2, <2>2 DEF TypesInv
    <3> HIDE DEF X, Y
    <3>2. todo \in Seq(Y)
      BY <3>1
    <3> QED BY <3>2 DEF Y
  <2>4. \A k \in DOMAIN todo : todo[k].top => Len(todo) = 1
    BY <1>2 DEF TypesInv
  <2> QED BY <2>1, <2>3, <2>4 DEF Over
<1> QED BY <1>1, <1>2

\* Types have equal values just when they are built alike from types with equal
\* values, and the value of a known type is of the same class.
LEMMA ValuesInterpret == \A v : Interprets(ValuesOf(v), FitValues(v), TypeRefs)
<1> SUFFICES ASSUME NEW v PROVE Interprets(ValuesOf(v), FitValues(v), TypeRefs)
  OBVIOUS
<1>1. \A t \in TypeRefs : ValuesOf(v)[t] = Subst(t, v)
  BY ValuesAre DEF Value
<1>2. ASSUME NEW t \in TypeRefs, NEW u \in TypeRefs, ~IsInfer(t), ~IsInfer(u)
      PROVE  ValuesOf(v)[t] = ValuesOf(v)[u]
               <=> /\ Matches(t, u)
                   /\ \A k \in DOMAIN t.args : ValuesOf(v)[t.args[k]] = ValuesOf(v)[u.args[k]]
  <2>1. /\ t.args \in Seq(TypeRefs) /\ u.args \in Seq(TypeRefs)
        /\ \A k \in DOMAIN t.args : t.args[k] \in TypeRefs
        /\ \A k \in DOMAIN u.args : u.args[k] \in TypeRefs
    BY TypeFacts
  <2>2. Len(t.args) = Len(u.args) <=> DOMAIN t.args = DOMAIN u.args
    BY <2>1
  <2>3. /\ Subst(t, v).con = t.con /\ DOMAIN Subst(t, v).args = DOMAIN t.args
        /\ \A k \in DOMAIN t.args : Subst(t, v).args[k] = Subst(t.args[k], v)
    BY <1>2, SubstTop
  <2>4. /\ Subst(u, v).con = u.con /\ DOMAIN Subst(u, v).args = DOMAIN u.args
        /\ \A k \in DOMAIN u.args : Subst(u, v).args[k] = Subst(u.args[k], v)
    BY <1>2, SubstTop
  <2> DEFINE of(s) == [k \in DOMAIN s.args |-> Subst(s.args[k], v)]
  <2>5. Subst(t, v) = Term(t.con, of(t)) /\ Subst(u, v) = Term(u.con, of(u))
    BY <1>2, SubstDef
  <2>6. ASSUME Matches(t, u), \A k \in DOMAIN t.args : Subst(t.args[k], v) = Subst(u.args[k], v)
        PROVE  Subst(t, v) = Subst(u, v)
    <3>1. t.con = u.con /\ DOMAIN t.args = DOMAIN u.args
      BY <2>2, <2>6 DEF Matches
    <3>2. of(t) = of(u)
      BY <2>6, <3>1
    <3> QED BY <3>1, <3>2, <2>5
  <2>7. ASSUME Subst(t, v) = Subst(u, v)
        PROVE  Matches(t, u) /\ \A k \in DOMAIN t.args : Subst(t.args[k], v) = Subst(u.args[k], v)
    <3>1. t.con = u.con /\ DOMAIN t.args = DOMAIN u.args
      BY <2>3, <2>4, <2>7
    <3> QED BY <3>1, <2>2, <2>3, <2>4, <2>7 DEF Matches
  <2>8. Matches(t, u) => DOMAIN t.args = DOMAIN u.args
    BY <2>2 DEF Matches
  <2> HIDE DEF of
  <2>9. ASSUME Matches(t, u)
        PROVE  (\A k \in DOMAIN t.args : ValuesOf(v)[t.args[k]] = ValuesOf(v)[u.args[k]])
                 <=> \A k \in DOMAIN t.args : Subst(t.args[k], v) = Subst(u.args[k], v)
    BY <1>1, <2>1, <2>8, <2>9
  <2> QED BY <1>1, <2>6, <2>7, <2>9
<1>3. ASSUME NEW t \in TypeRefs, NEW ic \in Classes, ~IsInfer(t)
      PROVE  Fits(ic, t) <=> ValuesOf(v)[t] \in FitValues(v)[ic]
  <2>1. Subst(t, v).con = t.con
    BY <1>3, SubstTop
  <2>2. Fits(ic, t) <=> Fits(ic, Subst(t, v))
    BY <2>1 DEF Fits, FitsPrimitive
  <2> QED BY <2>2, <1>1, ValuesAre
<1>4. ASSUME NEW t \in TypeRefs PROVE ValuesOf(v)[t] \in FitValues(v)["None"]
  <2>1. Fits("None", ValuesOf(v)[t]) /\ "None" \in Classes
    BY DEF Fits, FitsPrimitive, Classes
  <2> QED BY <2>1, ValuesAre
<1> QED BY <1>2, <1>3, <1>4 DEF Interprets

\* What the table and the calls stand for are the values that solve them.
MeaningSolves ==
    \A v : v \in Meaning <=> v \in Valuations /\ Solves(ValuesOf(v), FitValues(v))

LEMMA MeaningIs == TypesInv => MeaningSolves
<1> SUFFICES ASSUME TypesInv, NEW v
             PROVE  v \in Meaning <=> v \in Valuations /\ Solves(ValuesOf(v), FitValues(v))
  BY DEF MeaningSolves
<1>1. /\ Table /\ class \in Seq(Classes) /\ Slots = 1..Len(alias) /\ Len(class) = Len(alias)
      /\ \A i \in Slots : alias[i] # 0 => alias[i] \in Nat
      /\ \A i \in Slots : alias[i] = 0 => type[i] \in TypeRefs
  BY TableFacts DEF TypesInv, Table, TableTypeOK, Scoped
<1>2. ASSUME NEW i \in Slots
      PROVE  Holds(i, v) <=> SlotHolds(ValuesOf(v), FitValues(v), i, alias[i], type[i], class[i])
  <2>1. i \in Nat /\ class[i] \in Classes
    BY <1>1
  <2>2. CASE alias[i] # 0
    BY <2>1, <2>2, <1>1, ValuesAre DEF Holds, SlotHolds, IsAlias
  <2>3. CASE alias[i] = 0 /\ type[i] = Infer(i)
    <3>1. /\ Infer(i) \in TypeRefs /\ ValuesOf(v)[Infer(i)] = v[i]
          /\ ValuesOf(v)[Infer(i)] \in FitValues(v)[class[i]] <=> Fits(class[i], ValuesOf(v)[Infer(i)])
      BY <2>1, ValuesAre
    <3> QED BY <3>1, <2>3 DEF Holds, SlotHolds, IsAlias, Unknown
  <2>4. CASE alias[i] = 0 /\ type[i] # Infer(i)
    <3>1. ValuesOf(v)[type[i]] = Value(type[i], v) /\ ValuesOf(v)[Infer(i)] = v[i]
      BY <2>1, <2>4, <1>1, ValuesAre
    <3> QED BY <3>1, <2>4 DEF Holds, SlotHolds, IsAlias, Unknown
  <2> QED BY <2>2, <2>3, <2>4
<1>3. (\A i \in Slots : Holds(i, v)) <=> TableHolds(ValuesOf(v), FitValues(v), alias, type, class)
  BY <1>1, <1>2 DEF TableHolds
<1>4. \A k \in DOMAIN todo : todo[k].l \in TypeRefs /\ todo[k].r \in TypeRefs
  <2> DEFINE X == [l : Scoped, r : Scoped, top : BOOLEAN]
  <2>1. todo \in Seq(X)
    BY DEF TypesInv
  <2> HIDE DEF X
  <2>2. \A k \in DOMAIN todo : todo[k] \in X
    BY <2>1
  <2> QED BY <2>2 DEF X, Scoped
<1>5. \A k \in DOMAIN todo : /\ ValuesOf(v)[todo[k].l] = Value(todo[k].l, v)
                            /\ ValuesOf(v)[todo[k].r] = Value(todo[k].r, v)
  BY <1>4, ValuesAre
<1>6. (\A c \in {d \in ToSet(todo) : ~Dropped(d)} : Value(c.l, v) = Value(c.r, v))
        <=> \A k \in DOMAIN todo : Dropped(todo[k]) \/ Value(todo[k].l, v) = Value(todo[k].r, v)
  BY DEF ToSet
<1>7. (\A k \in DOMAIN todo : Dropped(todo[k]) \/ Value(todo[k].l, v) = Value(todo[k].r, v))
        <=> \A k \in DOMAIN todo : \/ Dropped(todo[k])
                                   \/ ValuesOf(v)[todo[k].l] = ValuesOf(v)[todo[k].r]
  BY <1>5
<1>8. v \in Meaning <=> /\ v \in Valuations
                        /\ \A i \in Slots : Holds(i, v)
                        /\ \A c \in {d \in ToSet(todo) : ~Dropped(d)} : Value(c.l, v) = Value(c.r, v)
  BY DEF Meaning
<1> QED BY <1>3, <1>6, <1>7, <1>8 DEF Solves

LEMMA MeaningAfter == TypesInv' => MeaningSolves'
BY MeaningIs, PTL

\* A step that leaves as solutions those of a constraint is one of the
\* specification of equations.
LEMMA MeaningMeets ==
    ASSUME TypesInv, TypesInv', NEW c \in Constraints,
           \A v \in Valuations : Solves(ValuesOf(v), FitValues(v))'
                                   <=> Solves(ValuesOf(v), FitValues(v)) /\ v \in c
    PROVE  Meaning' = Meaning \cap c
<1>1. \A v : v \in Meaning <=> v \in Valuations /\ Solves(ValuesOf(v), FitValues(v))
  BY MeaningIs DEF MeaningSolves
<1>2. \A v : v \in Meaning' <=> v \in Valuations /\ Solves(ValuesOf(v), FitValues(v))'
  BY MeaningAfter DEF MeaningSolves
<1> QED BY <1>1, <1>2

LEMMA MeaningStays ==
    ASSUME TypesInv, TypesInv',
           \A v \in Valuations : Solves(ValuesOf(v), FitValues(v))'
                                   <=> Solves(ValuesOf(v), FitValues(v))
    PROVE  Meaning' = Meaning
<1>1. \A v : v \in Meaning <=> v \in Valuations /\ Solves(ValuesOf(v), FitValues(v))
  BY MeaningIs DEF MeaningSolves
<1>2. \A v : v \in Meaning' <=> v \in Valuations /\ Solves(ValuesOf(v), FitValues(v))'
  BY MeaningAfter DEF MeaningSolves
<1> QED BY <1>1, <1>2

\* Without calls, the solutions are those of the table.
LEMMA SolvesTable ==
    /\ todo = << >> => \A w, fits : Solves(w, fits) <=> TableHolds(w, fits, alias, type, class)
    /\ todo' = << >> => \A w, fits : Solves(w, fits)' <=> TableHolds(w, fits, alias', type', class')
BY DEF Solves

\* With one call, those in which it holds.
OneCall ==
    \A c : todo = <<c>> =>
       \A w, fits : Solves(w, fits) <=> /\ TableHolds(w, fits, alias, type, class)
                                        /\ Dropped(c) \/ w[c.l] = w[c.r]

LEMMA OneCallSolves == OneCall
<1> SUFFICES ASSUME NEW c, todo = <<c>>, NEW w, NEW fits
             PROVE  Solves(w, fits) <=> /\ TableHolds(w, fits, alias, type, class)
                                        /\ Dropped(c) \/ w[c.l] = w[c.r]
  BY DEF OneCall
<1>1. DOMAIN todo = {1} /\ todo[1] = c
  OBVIOUS
<1> QED BY <1>1 DEF Solves

LEMMA OneCallAfter == OneCall'
BY OneCallSolves, PTL

\* What is dropped depends on the table alone.
LEMMA DroppedKept ==
    ASSUME UNCHANGED <<alias, type>>
    PROVE  \A c : Dropped(c)' <=> Dropped(c)
<1>1. \A i : PointedIvar(i)' = PointedIvar(i)
  BY TableLookups
<1>2. \A t : GetType(t)' = GetType(t)
  BY <1>1 DEF GetType
<1> QED BY <1>2 DEF Dropped

LEMMA MeaningKept ==
    ASSUME TypesInv, TypesInv', UNCHANGED <<alias, type, class, todo>>
    PROVE  Meaning' = Meaning
<1>1. \A c : Dropped(c)' <=> Dropped(c)
  BY DroppedKept
<1>2. ASSUME NEW v
      PROVE  Solves(ValuesOf(v), FitValues(v))' <=> Solves(ValuesOf(v), FitValues(v))
  BY <1>1 DEF Solves
<1> QED BY <1>2, MeaningStays

\* A new variable has a type of its class.
LEMMA MeaningAddIvar ==
    ASSUME TypesInv, TypesInv', NEW ic \in Classes, AddIvar(ic)
    PROVE  \E c \in Constraints : Meaning' = Meaning \cap c
<1> DEFINE n == Len(alias)
<1>1. /\ alias' = Append(alias, 0) /\ type' = Append(type, Infer(n + 1))
      /\ class' = Append(class, ic) /\ todo' = << >> /\ todo = << >> /\ n < MaxIvars
      /\ alias \in Seq(Nat) /\ type = [i \in 1..n |-> type[i]]
      /\ class \in Seq(Classes) /\ Len(class) = n /\ n \in Nat /\ MaxIvars \in Nat
  BY TableFacts, BoundsAssumption DEF AddIvar, NewIvar, Idle, TypesInv, Table, TableTypeOK
<1>2. type \in Seq({type[i] : i \in 1..n}) /\ Len(type) = n
  BY <1>1, EntriesAreSeq
<1>3. /\ Len(alias') = n + 1 /\ alias'[n + 1] = 0 /\ type'[n + 1] = Infer(n + 1)
      /\ class'[n + 1] = ic
      /\ \A i \in 1..n : alias'[i] = alias[i] /\ type'[i] = type[i] /\ class'[i] = class[i]
  BY <1>1, <1>2
<1>4. n + 1 \in Ivars /\ OfClass(n + 1, ic) \in Constraints
  BY <1>1 DEF Ivars, Constraints
<1>5. 1..(n + 1) = 1..n \cup {n + 1}
  BY <1>1
<1> HIDE DEF n
<1>6. ASSUME NEW v \in Valuations
      PROVE  Solves(ValuesOf(v), FitValues(v))'
               <=> Solves(ValuesOf(v), FitValues(v)) /\ v \in OfClass(n + 1, ic)
  <2> DEFINE Is(i) == SlotHolds(ValuesOf(v), FitValues(v), i, alias'[i], type'[i], class'[i])
             Was(i) == SlotHolds(ValuesOf(v), FitValues(v), i, alias[i], type[i], class[i])
  <2>1. \A i \in 1..n : Is(i) <=> Was(i)
    BY <1>3
  <2>2. Is(n + 1) <=> v \in OfClass(n + 1, ic)
    <3>1. n + 1 \in Nat
      BY <1>4 DEF Ivars
    <3>2. /\ Infer(n + 1) \in TypeRefs /\ ValuesOf(v)[Infer(n + 1)] = v[n + 1]
          /\ ValuesOf(v)[Infer(n + 1)] \in FitValues(v)[ic] <=> Fits(ic, ValuesOf(v)[Infer(n + 1)])
      BY <3>1, ValuesAre
    <3>3. Is(n + 1) <=> ValuesOf(v)[Infer(n + 1)] \in FitValues(v)[ic]
      BY <1>3 DEF SlotHolds
    <3> QED BY <3>2, <3>3 DEF OfClass
  <2>3. TableHolds(ValuesOf(v), FitValues(v), alias', type', class') <=> \A i \in 1..(n + 1) : Is(i)
    BY <1>3 DEF TableHolds
  <2>4. TableHolds(ValuesOf(v), FitValues(v), alias, type, class) <=> \A i \in 1..n : Was(i)
    BY DEF TableHolds, n
  <2>5. /\ Solves(ValuesOf(v), FitValues(v))
              <=> TableHolds(ValuesOf(v), FitValues(v), alias, type, class)
        /\ Solves(ValuesOf(v), FitValues(v))'
              <=> TableHolds(ValuesOf(v), FitValues(v), alias', type', class')
    BY <1>1, SolvesTable
  <2> HIDE DEF Is, Was
  <2> QED BY <1>5, <2>1, <2>2, <2>3, <2>4, <2>5
<1>7. Meaning' = Meaning \cap OfClass(n + 1, ic)
  BY <1>4, <1>6, MeaningMeets
<1> QED BY <1>4, <1>7

\* An equation narrows the solutions to those in which it holds, unless it
\* is of a `!` with a known type, which nothing is made of.
LEMMA MeaningEquate ==
    ASSUME TypesInv, TypesInv', NEW l \in TypesOver(born), NEW r \in TypesOver(born),
           EquateTypes(l, r)
    PROVE  Meaning' = Meaning \/ \E c \in Constraints : Meaning' = Meaning \cap c
<1> DEFINE d == Call(l, r, TRUE)
<1>1. todo' = <<d>> /\ todo = << >> /\ UNCHANGED <<alias, type, class>>
  BY DEF EquateTypes, Idle
<1>2. d.l = l /\ d.r = r
  BY DEF Call
<1>3. born \in Made
  BY TableFacts, BoundsAssumption DEF TypesInv, Made
<1>4. l \in TypeRefs /\ r \in TypeRefs
  BY <1>3, TypesAssumption
<1>5. Agree(l, r) \in Constraints
  BY <1>3 DEF Constraints
<1> HIDE DEF d
<1>6. ASSUME NEW v
      PROVE  /\ Solves(ValuesOf(v), FitValues(v))
                   <=> TableHolds(ValuesOf(v), FitValues(v), alias, type, class)
             /\ Solves(ValuesOf(v), FitValues(v))'
                   <=> /\ TableHolds(ValuesOf(v), FitValues(v), alias, type, class)
                       /\ Dropped(d) \/ Value(l, v) = Value(r, v)
  <2>2. Dropped(d)' <=> Dropped(d)
    BY <1>1, DroppedKept
  <2>3. ValuesOf(v)[l] = Value(l, v) /\ ValuesOf(v)[r] = Value(r, v)
    BY <1>4, ValuesAre
  <2>4. Solves(ValuesOf(v), FitValues(v))'
          <=> /\ TableHolds(ValuesOf(v), FitValues(v), alias', type', class')
              /\ Dropped(d)' \/ ValuesOf(v)[d.l] = ValuesOf(v)[d.r]
    BY <1>1, OneCallAfter DEF OneCall
  <2> QED BY <1>1, <1>2, <2>2, <2>3, <2>4, SolvesTable
<1>7. CASE Dropped(d)
  <2>1. Meaning' = Meaning
    BY <1>6, <1>7, MeaningStays
  <2> QED BY <2>1
<1>8. CASE ~Dropped(d)
  <2>1. ASSUME NEW v \in Valuations
        PROVE  Solves(ValuesOf(v), FitValues(v))'
                 <=> Solves(ValuesOf(v), FitValues(v)) /\ v \in Agree(l, r)
    BY <1>6, <1>8 DEF Agree
  <2>2. Meaning' = Meaning \cap Agree(l, r)
    BY <2>1, <1>5, MeaningMeets
  <2> QED BY <1>5, <2>2
<1> QED BY <1>7, <1>8

\* A step of equate_types_inner that does not let a nested `!` pass changes
\* nothing about the solutions.
LEMMA MeaningEquateStep ==
    ASSUME TypesInv, TypesInv', EquateStep, LetsNeverPass => phase' = "error"
    PROVE  Meaning' = Meaning
<1>1. phase \in {"rules", "pass"} /\ Table
  BY DEF EquateStep, TypesInv
<1>2. CASE phase' = "error"
  <2>1. Reject
    BY <1>1, <1>2 DEF EquateStep, AlreadyEqual, NeverIgnored, EnterInner, BothUnknown,
                      OneUnknown, SetIvar, Decompose, Answer, Instead
  <2> QED BY <2>1, MeaningKept DEF Reject
<1>3. CASE phase' # "error"
  <2>1. ASSUME NEW v
        PROVE  Solves(ValuesOf(v), FitValues(v))' <=> Solves(ValuesOf(v), FitValues(v))
    BY <1>1, <1>3, AllTerms, ValuesInterpret, StepKeepsSolutions
  <2> QED BY <2>1, MeaningStays
<1> QED BY <1>2, <1>3

\* A default is a value for a literal.
LEMMA MeaningDefaults ==
    ASSUME TypesInv, TypesInv', Defaults
    PROVE  Meaning' = Meaning \/ \E c \in Constraints : Meaning' = Meaning \cap c
<1>1. CASE UNCHANGED <<alias, type, class>>
  BY <1>1, MeaningKept DEF Defaults
<1>2. CASE ApplyDefaults
  <2> DEFINE I == {i \in Slots : Defaulted(i)}
             d == [i \in Ivars |-> IF i \in I THEN class[i] ELSE "Integer"]
             c == {v \in Valuations : \A i \in I : v[i] = Default[d[i]]}
  <2>1. /\ todo = << >> /\ todo' = << >> /\ alias' = alias /\ class' = class
        /\ \A i \in Slots : type'[i] = IF Defaulted(i) THEN Default[class[i]] ELSE type[i]
    BY <1>2 DEF Defaults, Idle, ApplyDefaults
  <2>2. /\ Slots = 1..Len(alias) /\ Len(alias) \in Nat /\ MaxIvars \in Nat /\ Len(alias) <= MaxIvars
        /\ class \in Seq(Classes) /\ Len(class) = Len(alias)
    BY TableFacts, BoundsAssumption DEF TypesInv
  <2>3. I \subseteq Ivars
    BY <2>2 DEF Ivars
  <2>4. \A i \in I : class[i] \in {"Integer", "Float"} /\ alias[i] = 0 /\ type[i] = Infer(i)
    BY <2>2 DEF Defaulted, Unknown, IsAlias, Classes
  <2>5. d \in [Ivars -> {"Integer", "Float"}]
    BY <2>4
  <2>6. \A i \in I : d[i] = class[i]
    BY <2>3
  <2> HIDE DEF I, d
  <2>7. c \in Constraints
    <3>1. c = ByDefault(I, d)
      BY DEF ByDefault
    <3> HIDE DEF c
    <3> QED BY <2>3, <2>5, <3>1 DEF Constraints
  <2>8. ASSUME NEW v \in Valuations
        PROVE  Solves(ValuesOf(v), FitValues(v))' <=> Solves(ValuesOf(v), FitValues(v)) /\ v \in c
    <3> DEFINE Is(i) == SlotHolds(ValuesOf(v), FitValues(v), i, alias'[i], type'[i], class'[i])
               Was(i) == SlotHolds(ValuesOf(v), FitValues(v), i, alias[i], type[i], class[i])
    <3>1. ASSUME NEW i \in Slots, i \notin I PROVE Is(i) <=> Was(i)
      BY <2>1, <3>1 DEF I
    <3>2. ASSUME NEW i \in I PROVE (Is(i) <=> v[i] = Default[class[i]]) /\ (Is(i) => Was(i))
      <4> DEFINE t == Default[class[i]]
      <4>1. i \in Slots /\ i \in Nat /\ class[i] \in {"Integer", "Float"} /\ class[i] \in Classes
        BY <2>2, <2>4 DEF I, Classes
      <4>2. type'[i] = t /\ alias'[i] = 0 /\ alias[i] = 0 /\ type[i] = Infer(i)
        BY <2>1, <2>4, <4>1 DEF I
      <4>3. /\ t \in TypeRefs /\ Known(t) /\ Fits(class[i], t) /\ Subst(t, v) = t
        BY <4>1, DefaultTypes
      <4>4. t # Infer(i)
        BY <4>3 DEF Known, Infer
      <4>5. /\ ValuesOf(v)[t] = t /\ ValuesOf(v)[Infer(i)] = v[i] /\ Infer(i) \in TypeRefs
            /\ ValuesOf(v)[t] \in FitValues(v)[class[i]] <=> Fits(class[i], ValuesOf(v)[t])
        BY <4>1, <4>3, ValuesAre DEF Value
      <4> HIDE DEF t
      <4>6. Is(i) <=> v[i] = t
        BY <4>2, <4>4, <4>5 DEF SlotHolds
      <4>7. Was(i) <=> v[i] \in FitValues(v)[class[i]]
        BY <4>2, <4>5 DEF SlotHolds
      <4> QED BY <4>3, <4>5, <4>6, <4>7 DEF t
    <3>3. /\ TableHolds(ValuesOf(v), FitValues(v), alias', type', class') <=> \A i \in Slots : Is(i)
          /\ TableHolds(ValuesOf(v), FitValues(v), alias, type, class) <=> \A i \in Slots : Was(i)
      BY <2>1, <2>2 DEF TableHolds
    <3>4. v \in c <=> \A i \in I : v[i] = Default[class[i]]
      BY <2>6
    <3>5. /\ Solves(ValuesOf(v), FitValues(v))
                <=> TableHolds(ValuesOf(v), FitValues(v), alias, type, class)
          /\ Solves(ValuesOf(v), FitValues(v))'
                <=> TableHolds(ValuesOf(v), FitValues(v), alias', type', class')
      BY <2>1, SolvesTable
    <3>6. I \subseteq Slots
      BY DEF I
    <3> HIDE DEF Is, Was, c
    <3> QED BY <3>1, <3>2, <3>3, <3>4, <3>5, <3>6
  <2> HIDE DEF c
  <2>9. Meaning' = Meaning \cap c
    BY <2>7, <2>8, MeaningMeets
  <2> QED BY <2>7, <2>9
<1> QED BY <1>1, <1>2 DEF Defaults

\* Each slot has the value of its root.
LEMMA RootsHold ==
    ASSUME NEW a, NEW t, NEW c, NEW w, NEW fits, NEW S,
           IsForest(a), S = SlotsIn(a), TableHolds(w, fits, a, t, c)
    PROVE  \A i \in S : w[Infer(i)] = w[Infer(RootIn(a, i))]
BY RootHolds

\* A compacted slot stands for what it stood for: the value of its root, or
\* that of its type, in which each variable has the value of its root's type.
LEMMA CompactSolves ==
    ASSUME TypesInv, NoTypeLoop, Compact, NEW v
    PROVE  TableHolds(ValuesOf(v), FitValues(v), alias', type', class')
             <=> TableHolds(ValuesOf(v), FitValues(v), alias, type, class)
<1> DEFINE w == ValuesOf(v)
           fits == FitValues(v)
           Is(i) == SlotHolds(w, fits, i, alias'[i], type'[i], class'[i])
           Was(i) == SlotHolds(w, fits, i, alias[i], type[i], class[i])
<1>1. /\ at \in Slots /\ class' = class /\ Table /\ Table'
      /\ Slots' = Slots /\ Len(alias') = Len(alias)
      /\ \A i \in Slots : PointedIvar(i)' = PointedIvar(i)
      /\ \A i \in Slots : alias'[i] = 0 <=> alias[i] = 0
      /\ \A i \in Slots \ {at} : alias'[i] = alias[i] /\ type'[i] = type[i]
      /\ IF alias[at] # 0 THEN alias'[at] = PointedIvar(at) /\ type'[at] = type[at]
         ELSE IF type[at] = Infer(at) THEN type'[at] = type[at]
         ELSE /\ type'[at] = Expanded(type[at], type)
              /\ type'[at] \in TypeRefs /\ Known(type'[at])
  BY CompactStep DEF TypesInv
<1>2. /\ IsForest(alias) /\ IsForest(alias') /\ Slots = SlotsIn(alias) /\ Slots = SlotsIn(alias')
      /\ Slots = 1..Len(alias)
      /\ \A i \in Slots : RootIn(alias', i) = RootIn(alias, i) /\ PointedIvar(i) = RootIn(alias, i)
  <3>1. IsForest(alias')
    BY <1>1 DEF IsForest, Table, TableTypeOK, NoAliasLoop, SlotsIn, Slots
  <3>2. Slots' = SlotsIn(alias') /\ IsForest(alias) /\ Slots = SlotsIn(alias)
    BY <1>1, TableLookups DEF Table
  <3> QED BY <3>1, <3>2, <1>1, TableLookups DEF Slots
<1>9. /\ TableHolds(w, fits, alias, type, class)
          => \A i \in Slots : w[Infer(i)] = w[Infer(RootIn(alias, i))]
      /\ TableHolds(w, fits, alias', type', class')
          => \A i \in Slots : w[Infer(i)] = w[Infer(RootIn(alias', i))]
  <2>1. IsForest(alias) /\ IsForest(alias') /\ Slots = SlotsIn(alias) /\ Slots = SlotsIn(alias')
    BY <1>2
  <2> HIDE DEF w, fits
  <2>2. ASSUME TableHolds(w, fits, alias, type, class)
        PROVE  \A i \in Slots : w[Infer(i)] = w[Infer(RootIn(alias, i))]
    <3>1. IsForest(alias) /\ Slots = SlotsIn(alias)
      BY <2>1
    <3> QED BY <3>1, <2>2, RootsHold
  <2>3. ASSUME TableHolds(w, fits, alias', type', class')
        PROVE  \A i \in Slots : w[Infer(i)] = w[Infer(RootIn(alias', i))]
    BY <2>1, <2>3, RootsHold
  <2> QED BY <2>2, <2>3
<1>3. /\ TableHolds(w, fits, alias', type', class') <=> \A i \in Slots : Is(i)
      /\ TableHolds(w, fits, alias, type, class) <=> \A i \in Slots : Was(i)
  BY <1>1, <1>2 DEF TableHolds
<1>4. \A i \in Slots \ {at} : Is(i) <=> Was(i)
  BY <1>1
<1>5. \A i \in Slots : Infer(i) \in TypeRefs /\ w[Infer(i)] = v[i]
  BY <1>2, ValuesAre
<1>6. CASE alias[at] # 0
  <2> DEFINE r == RootIn(alias, at)
             b == alias[at]
  <2>1. b \in Slots /\ RootIn(alias', b) = r /\ alias'[at] = r /\ r # 0
    <3>1. b \in Slots /\ RootIn(alias, b) = r
      BY <1>1, <1>2, <1>6, RootOfAlias
    <3>2. alias'[at] = r
      BY <1>1, <1>2, <1>6
    <3>3. alias'[at] # 0
      BY <1>1, <1>6
    <3> QED BY <3>1, <3>2, <3>3, <1>2
  <2>2. Is(at) <=> w[Infer(at)] = w[Infer(r)]
    BY <2>1 DEF SlotHolds
  <2>3. Was(at) <=> w[Infer(at)] = w[Infer(b)]
    BY <1>6 DEF SlotHolds
  <2>4. TableHolds(w, fits, alias, type, class) => w[Infer(at)] = w[Infer(r)]
    <3> HIDE DEF w, fits
    <3> QED BY <1>1, <1>2, <1>9
  <2>5. TableHolds(w, fits, alias', type', class') => w[Infer(b)] = w[Infer(r)]
    <3> HIDE DEF w, fits, b, r
    <3>1. TableHolds(w, fits, alias', type', class') => w[Infer(b)] = w[Infer(RootIn(alias', b))]
      BY <1>2, <1>9, <2>1
    <3> QED BY <3>1, <2>1
  <2>6. TableHolds(w, fits, alias', type', class') <=> TableHolds(w, fits, alias, type, class)
    <3> HIDE DEF Is, Was, w, fits, b, r
    <3> QED BY <1>1, <1>3, <1>4, <2>2, <2>3, <2>4, <2>5
  <2> QED BY <2>6
<1>7. CASE alias[at] = 0 /\ type'[at] = type[at]
  <2>1. Is(at) <=> Was(at)
    BY <1>1, <1>7 DEF SlotHolds
  <2>2. TableHolds(w, fits, alias', type', class') <=> TableHolds(w, fits, alias, type, class)
    <3> HIDE DEF Is, Was, w, fits
    <3> QED BY <2>1, <1>3, <1>4
  <2> QED BY <2>2
<1>8. CASE alias[at] = 0 /\ type'[at] # type[at]
  <2> DEFINE t == type[at]
             to == [i \in Slots |-> type[PointedIvar(i)]]
  <2>1. /\ t # Infer(at) /\ type'[at] = Subst(t, to) /\ Subst(t, to) \in TypeRefs
        /\ Subst(t, to) # Infer(at)
    BY <1>1, <1>8 DEF Expanded, Known, Infer
  <2>2. t \in TypeRefs /\ Vars(t) \subseteq Slots
    BY <1>1, <1>8 DEF TypesInv, Scoped
  <2>3. at \notin Names(at)
    <3>1. {at} \in SUBSET {i \in Slots : ~IsAlias(i) /\ ~Unknown(i)}
      BY <1>1, <1>8, <2>1 DEF IsAlias, Unknown
    <3> QED BY <3>1 DEF NoTypeLoop
  <2>4. ASSUME NEW i \in Vars(t), \A j \in Slots \ {at} : Was(j),
               w[Infer(i)] = w[Infer(RootIn(alias, i))]
        PROVE  Subst(to[i], v) = v[i]
    <3> DEFINE r == RootIn(alias, i)
    <3>1. i \in Slots /\ r \in Slots /\ alias[r] = 0 /\ PointedIvar(i) = r
      BY <1>2, <2>2, RootIsSlot
    <3>2. r # at
      <4>1. r \in Names(at)
        BY <3>1 DEF Names
      <4> QED BY <4>1, <2>3
    <3>3. to[i] = type[r] /\ type[r] \in TypeRefs
      BY <3>1 DEF TypesInv, Scoped
    <3>4. v[i] = v[r] /\ w[type[r]] = Subst(type[r], v) /\ w[Infer(r)] = v[r]
      BY <1>5, <2>4, <3>1, <3>3, ValuesAre DEF Value
    <3>5. Was(r)
      BY <2>4, <3>1, <3>2
    <3> HIDE DEF w, fits, r
    <3>6. type[r] = Infer(r) \/ w[Infer(r)] = w[type[r]]
      BY <3>1, <3>5 DEF SlotHolds
    <3>7. w[Infer(r)] = w[type[r]]
      BY <3>6
    <3> QED BY <3>3, <3>4, <3>7
  <2>5. ASSUME \A j \in Slots \ {at} : Was(j),
               \A i \in Vars(t) : w[Infer(i)] = w[Infer(RootIn(alias, i))]
        PROVE  Is(at) <=> Was(at)
    <3>1. \A i \in Vars(t) : Subst(to[i], v) = v[i]
      BY <2>4, <2>5
    <3>2. Subst(Subst(t, to), v) = Subst(t, v)
      <4> HIDE DEF to, t
      <4> QED BY <2>1, <2>2, <3>1, SubstSubst
    <3>3. w[Subst(t, to)] = w[t]
      BY <2>1, <2>2, <3>2, ValuesAre DEF Value
    <3>4. alias'[at] = 0
      BY <1>1, <1>8
    <3> HIDE DEF w, fits, to
    <3> QED BY <1>1, <1>8, <2>1, <3>3, <3>4 DEF SlotHolds
  <2>6. TableHolds(w, fits, alias, type, class)
          => \A i \in Slots : w[Infer(i)] = w[Infer(RootIn(alias, i))]
    <3> HIDE DEF w, fits
    <3> QED BY <1>2, <1>9
  <2>7. TableHolds(w, fits, alias', type', class')
          => \A i \in Slots : w[Infer(i)] = w[Infer(RootIn(alias, i))]
    <3> HIDE DEF w, fits
    <3> QED BY <1>2, <1>9
  <2>8. TableHolds(w, fits, alias', type', class') <=> TableHolds(w, fits, alias, type, class)
    <3> HIDE DEF Is, Was, w, fits, t, to
    <3> QED BY <1>1, <1>3, <1>4, <2>2, <2>5, <2>6, <2>7
  <2> QED BY <2>8
<1> QED BY <1>6, <1>7, <1>8

LEMMA MeaningCompact ==
    ASSUME TypesInv, TypesInv', LoopsInv, Compact
    PROVE  Meaning' = Meaning
<1>1. todo = << >> /\ todo' = << >> /\ NoTypeLoop
  BY CompactStep DEF LoopsInv
<1>2. ASSUME NEW v
      PROVE  Solves(ValuesOf(v), FitValues(v))' <=> Solves(ValuesOf(v), FitValues(v))
  BY <1>1, SolvesTable, CompactSolves
<1> QED BY <1>2, MeaningStays

\* Every step but one that lets a nested `!` pass is one of the specification.
LEMMA AskStep ==
    ASSUME TypesInv, TypesInv', LoopsInv, [Next]_vars,
           [EquateStep /\ LetsNeverPass => phase' = "error"]_vars
    PROVE  [Equations!Ask]_Meaning
<1>1. SUFFICES Meaning' = Meaning \/ \E c \in Constraints : Meaning' = Meaning \cap c
  BY DEF Equations!Ask
<1>2. ASSUME NEW ic \in Classes, AddIvar(ic)
      PROVE  \E c \in Constraints : Meaning' = Meaning \cap c
  BY <1>2, MeaningAddIvar
<1>3. ASSUME NEW l \in TypesOver(born), NEW r \in TypesOver(born), EquateTypes(l, r)
      PROVE  Meaning' = Meaning \/ \E c \in Constraints : Meaning' = Meaning \cap c
  BY <1>3, MeaningEquate
<1>4. CASE EquateStep
  <2>1. CASE UNCHANGED vars
    BY <2>1, MeaningKept DEF vars
  <2>2. CASE ~UNCHANGED vars
    BY <1>4, <2>2, MeaningEquateStep
  <2> QED BY <2>1, <2>2
<1>5. CASE EndRules \/ CheckForLoops \/ EndPass \/ UNCHANGED vars
  BY <1>5, MeaningKept DEF EndRules, CheckForLoops, Reject, EndPass, vars
<1>6. CASE Defaults
  BY <1>6, MeaningDefaults
<1>7. CASE Compact
  BY <1>7, MeaningCompact
<1> QED BY <1>2, <1>3, <1>4, <1>5, <1>6, <1>7 DEF Next

\* What type inference does is to ask equations: each step leaves the solutions
\* as they are or narrows them by one equation, the class of a new literal, or
\* the defaults, unification, aliases, compaction and the order of the calls
\* notwithstanding. The exception is `!` in a type that is built up, which
\* equate_types_inner lets pass.
THEOREM NothingIsLost ==
    Spec /\ [][EquateStep /\ LetsNeverPass => phase' = "error"]_vars => NothingLostOrAdded
<1>1. Init => Equations!Init
  <2> SUFFICES ASSUME Init PROVE Meaning = Valuations
    BY DEF Equations!Init
  <2>1. Slots = {} /\ ToSet(todo) = {}
    BY DEF Init, TableInit, Slots, ToSet
  <2> QED BY <2>1 DEF Meaning
<1>2. Init => LoopsInv
  BY DEF Init, LoopsInv
<1>3. (TypesInv /\ LiteralInv) /\ LoopsInv /\ [Next]_vars => LoopsInv'
  BY LoopsStep
<1>4. (TypesInv /\ LiteralInv) /\ (TypesInv /\ LiteralInv)' /\ LoopsInv /\ [Next]_vars
        /\ [EquateStep /\ LetsNeverPass => phase' = "error"]_vars
          => [Equations!Ask]_Meaning
  BY AskStep
<1> QED BY <1>1, <1>2, <1>3, <1>4, LiteralInvariant, PTL DEF Spec, NothingLostOrAdded, Equations!Spec

(***************************************************************************)
(* A literal without a type was made for one: an unknown root with a class *)
(* is that of a variable of a literal.                                     *)
(***************************************************************************)
Remembers(a, t, c, b, r) ==
    a[r] = 0 /\ t[r] = Infer(r) /\ c[r] # "None"
      => \E i \in SlotsIn(a) : RootIn(a, i) = r /\ b[i] # "None"

BornInv == \A r \in Slots : Remembers(alias, type, class, born, r)

\* What is done to types makes no literal.
LEMMA BornKept ==
    ASSUME BornInv, Slots = SlotsIn(alias), Slots' = SlotsIn(alias'), Slots' = Slots,
           class' = class, born' = born,
           \A i \in Slots : RootIn(alias', i) = RootIn(alias, i),
           \A i \in Slots : alias'[i] = 0 /\ type'[i] = Infer(i)
                              => alias[i] = 0 /\ type[i] = Infer(i)
    PROVE  BornInv'
<1> SUFFICES ASSUME NEW r \in Slots, alias'[r] = 0, type'[r] = Infer(r), class'[r] # "None"
             PROVE  \E i \in SlotsIn(alias') : RootIn(alias', i) = r /\ born'[i] # "None"
  BY DEF BornInv, Remembers
<1>1. PICK i \in SlotsIn(alias) : RootIn(alias, i) = r /\ born[i] # "None"
  BY DEF BornInv, Remembers
<1> QED BY <1>1

LEMMA BornSame ==
    ASSUME Table, BornInv, UNCHANGED <<alias, type, class, born>>
    PROVE  BornInv'
BY DEF BornInv, Slots

\* The root of two unknown types has the class of a literal behind one of them.
LEMMA BornUnify ==
    ASSUME Table, BornInv, NEW left \in Slots, NEW right \in Slots,
           PointedIvar(left) # PointedIvar(right), IvarUnify(left, right), born' = born
    PROVE  BornInv'
<1> DEFINE l == RootIn(alias, left)
           r == RootIn(alias, right)
<1>1. /\ Slots = 1..Len(alias) /\ Slots = SlotsIn(alias)
      /\ alias \in Seq(Nat) /\ class \in Seq(Classes) /\ Len(class) = Len(alias)
      /\ type = [i \in Slots |-> type[i]]
      /\ l \in Slots /\ r \in Slots /\ alias[l] = 0 /\ left # 0
      /\ PointedIvar(left) = l /\ PointedIvar(right) = r
  BY TableFacts DEF Table, TableTypeOK
<1>2. l # r
  BY <1>1
<1>3. /\ SlotsIn(alias') = SlotsIn(alias)
      /\ \A i \in Slots : RootIn(alias', i) = IF RootIn(alias, i) = r THEN l ELSE RootIn(alias, i)
  BY <1>1, UnifyRoots
<1>4. Slots' = Slots
  BY <1>1, <1>3 DEF Slots, SlotsIn
<1> DEFINE ic == IF class[r] # "None" THEN class[r] ELSE class[l]
<1>5. /\ alias' = [alias EXCEPT ![r] = left] /\ type' = [type EXCEPT ![r] = Null]
      /\ class' = [class EXCEPT ![l] = ic] /\ Unknown(r)
  BY <1>1 DEF IvarUnify
<1> HIDE DEF l, r
<1>6. /\ alias'[r] = left /\ \A i \in Slots : i # r => alias'[i] = alias[i] /\ type'[i] = type[i]
      /\ class'[l] = ic /\ \A i \in Slots : i # l => class'[i] = class[i]
  BY <1>1, <1>5
<1>7. alias[r] = 0 /\ type[r] = Infer(r)
  BY <1>5 DEF Unknown, IsAlias
<1> SUFFICES ASSUME NEW q \in Slots, alias'[q] = 0, type'[q] = Infer(q), class'[q] # "None"
             PROVE  \E i \in SlotsIn(alias') : RootIn(alias', i) = q /\ born'[i] # "None"
  BY <1>4 DEF BornInv, Remembers
<1>8. q # r /\ alias[q] = 0 /\ type[q] = Infer(q)
  BY <1>1, <1>6
<1>9. CASE q # l \/ class[r] = "None"
  <2>1. class[q] # "None"
    BY <1>6, <1>9
  <2>2. PICK i \in SlotsIn(alias) : RootIn(alias, i) = q /\ born[i] # "None"
    BY <1>8, <2>1 DEF BornInv, Remembers
  <2>3. RootIn(alias', i) = q
    BY <1>1, <1>3, <1>8, <2>2
  <2> QED BY <1>3, <2>2, <2>3
<1>10. CASE q = l /\ class[r] # "None"
  <2>1. PICK i \in SlotsIn(alias) : RootIn(alias, i) = r /\ born[i] # "None"
    BY <1>1, <1>7, <1>10 DEF BornInv, Remembers
  <2>2. RootIn(alias', i) = l
    BY <1>1, <1>3, <2>1
  <2> QED BY <1>3, <1>10, <2>1, <2>2
<1> QED BY <1>9, <1>10

LEMMA BornNew ==
    ASSUME TypesInv, TypesInv', BornInv, NEW ic \in Classes, AddIvar(ic)
    PROVE  BornInv'
<1> DEFINE n == Len(alias) + 1
<1>1. /\ alias' = Append(alias, 0) /\ type' = Append(type, Infer(n)) /\ class' = Append(class, ic)
      /\ born' = Append(born, ic)
  BY DEF AddIvar, NewIvar
<1>2. /\ Table /\ Len(alias) \in Nat /\ Slots = 1..Len(alias) /\ Slots = SlotsIn(alias)
      /\ IsForest(alias) /\ alias \in Seq(Nat)
      /\ class \in Seq(Classes) /\ Len(class) = Len(alias)
      /\ type = [i \in Slots |-> type[i]] /\ born \in [1..Len(alias) -> Classes]
  BY TableFacts DEF TypesInv, Table, TableTypeOK
<1>3. born \in Seq(Classes) /\ Len(born) = Len(alias)
  BY <1>2
<1>4. IsForest(alias') /\ \A i \in SlotsIn(alias) : RootIn(alias', i) = RootIn(alias, i)
  BY <1>1, <1>2, NewIvarForest
<1>5. /\ SlotsIn(alias') = 1..n /\ Slots' = 1..n /\ alias'[n] = 0
      /\ \A i \in Slots : alias'[i] = alias[i] /\ class'[i] = class[i] /\ born'[i] = born[i]
      /\ class'[n] = ic /\ born'[n] = ic
  BY <1>1, <1>2, <1>3 DEF SlotsIn, Slots
<1>6. \A i \in Slots : type'[i] = type[i]
  <2>1. type \in Seq({type[i] : i \in 1..Len(alias)}) /\ Len(type) = Len(alias)
    BY <1>2, EntriesAreSeq
  <2> QED BY <1>1, <1>2, <2>1
<1>7. RootIn(alias', n) = n
  <2>1. n \in SlotsIn(alias')
    BY <1>2, <1>5
  <2>2. n \in VisitedIn(alias', n)
    BY <1>4, <2>1, VisitedClosed
  <2> HIDE DEF n
  <2> QED BY <1>4, <1>5, <2>1, <2>2, RootUnique
<1> SUFFICES ASSUME NEW r \in 1..n, alias'[r] = 0, type'[r] = Infer(r), class'[r] # "None"
             PROVE  \E i \in SlotsIn(alias') : RootIn(alias', i) = r /\ born'[i] # "None"
  BY <1>5 DEF BornInv, Remembers
<1>8. CASE r = n
  BY <1>2, <1>5, <1>7, <1>8
<1>9. CASE r \in Slots
  <2>1. alias[r] = 0 /\ type[r] = Infer(r) /\ class[r] # "None"
    BY <1>5, <1>6, <1>9
  <2>2. PICK i \in SlotsIn(alias) : RootIn(alias, i) = r /\ born[i] # "None"
    BY <1>9, <2>1 DEF BornInv, Remembers
  <2> QED BY <1>2, <1>4, <1>5, <2>2
<1> QED BY <1>2, <1>8, <1>9

LEMMA BornStep == TypesInv /\ TypesInv' /\ BornInv /\ [Next]_vars => BornInv'
<1> SUFFICES ASSUME TypesInv, TypesInv', BornInv, [Next]_vars PROVE BornInv'
  OBVIOUS
<1>1. /\ Table /\ Slots = SlotsIn(alias) /\ Slots' = SlotsIn(alias') /\ Slots = 1..Len(alias)
      /\ type = [i \in Slots |-> type[i]]
      /\ \A i \in Slots : PointedIvar(i) = RootIn(alias, i) /\ PointedIvar(i)' = RootIn(alias', i)
  BY TableFacts, TableLookups DEF TypesInv
<1>2. ASSUME NEW ic \in Classes, AddIvar(ic)
      PROVE  BornInv'
  BY <1>2, BornNew
<1>3. ASSUME UNCHANGED <<alias, type, class, born>>
      PROVE  BornInv'
  BY <1>1, <1>3, BornSame
<1>4. CASE EquateStep
  <2>1. (InTable(Here.l) /\ InTable(Here.r)) \/ Reject
    BY <1>4 DEF EquateStep
  <2>2. CASE BothUnknown /\ ~Reject
    <3>1. IvarUnify(L.slot, R.slot) /\ born' = born
      BY <2>2 DEF BothUnknown, Answer
    <3>2. /\ L.slot \in Slots /\ R.slot \in Slots
          /\ PointedIvar(L.slot) # PointedIvar(R.slot)
      BY <1>1, <2>1, <2>2, TwoRoots
    <3> QED BY <1>1, <3>1, <3>2, BornUnify
  <2>3. CASE OneUnknown /\ ~UNCHANGED table
    <3>1. PICK r \in Slots : \E ty : SetIvarTo(r, ty) /\ PointedIvar(r) = r /\ born' = born
      BY <1>1, <2>1, <2>3, OneRoot DEF Reject, table
    <3>2. PICK ty : SetIvarTo(r, ty) /\ PointedIvar(r) = r
      BY <3>1
    <3>3. /\ alias' = alias /\ class' = class /\ type' = [type EXCEPT ![r] = ty] /\ Known(ty)
      BY <3>2 DEF SetIvarTo
    <3>4. \A i \in Slots : type'[i] = Infer(i) => type[i] = Infer(i)
      BY <1>1, <3>3 DEF Known, Infer
    <3>5. Slots' = Slots
      BY <3>3 DEF Slots
    <3> QED BY <1>1, <3>1, <3>3, <3>4, <3>5, BornKept
  <2>4. CASE ~(BothUnknown /\ ~Reject) /\ ~(OneUnknown /\ ~UNCHANGED table)
    <3>1. UNCHANGED <<alias, type, class, born>>
      BY <1>4, <2>4 DEF EquateStep, Reject, AlreadyEqual, NeverIgnored, EnterInner, Decompose,
                        Answer, Instead, OneUnknown, SetIvar, table
    <3> QED BY <1>3, <3>1
  <2> QED BY <2>2, <2>3, <2>4
<1>5. CASE Defaults
  <2>1. CASE UNCHANGED <<alias, type, class>>
    BY <1>3, <1>5, <2>1 DEF Defaults
  <2>2. CASE ApplyDefaults
    <3>1. /\ alias' = alias /\ class' = class /\ born' = born
          /\ \A i \in Slots : type'[i] = IF Defaulted(i) THEN Default[class[i]] ELSE type[i]
      BY <1>5, <2>2 DEF Defaults, ApplyDefaults
    <3>2. \A i \in Slots : Defaulted(i) => type[i] = Infer(i)
      BY DEF Defaulted, Unknown
    <3>3. Slots' = Slots
      BY <3>1 DEF Slots
    <3> QED BY <1>1, <3>1, <3>2, <3>3, BornKept
  <2> QED BY <1>5, <2>1, <2>2 DEF Defaults
<1>6. CASE Compact
  <2>1. /\ class' = class /\ born' = born /\ Slots' = Slots /\ at \in Slots
        /\ \A i \in Slots : PointedIvar(i)' = PointedIvar(i)
        /\ \A i \in Slots : alias'[i] = 0 <=> alias[i] = 0
        /\ \A i \in Slots \ {at} : type'[i] = type[i]
        /\ type'[at] = type[at] \/ Known(type'[at])
    BY <1>6, CompactStep
  <2>2. \A i \in Slots : type'[i] = Infer(i) => type[i] = Infer(i)
    BY <2>1 DEF Known, Infer
  <2> QED BY <1>1, <2>1, <2>2, BornKept
<1>7. CASE \/ \E l, r \in TypesOver(born) : EquateTypes(l, r)
           \/ EndRules \/ CheckForLoops \/ EndPass \/ UNCHANGED vars
  <2>1. UNCHANGED <<alias, type, class, born>>
    BY <1>7 DEF EquateTypes, EndRules, CheckForLoops, Reject, EndPass, vars
  <2> QED BY <1>3, <2>1
<1> QED BY <1>2, <1>4, <1>5, <1>6, <1>7 DEF Next

(***************************************************************************)
(* Errors.  No finite type contains itself, and a literal of two classes   *)
(* can only be `!`.                                                        *)
(***************************************************************************)
\* What the values of Meaning are, at the slots.
LEMMA MeaningFacts ==
    ASSUME TypesInv, NEW v \in Meaning
    PROVE  /\ TableHolds(ValuesOf(v), FitValues(v), alias, type, class)
           /\ Solves(ValuesOf(v), FitValues(v))
           /\ \A i \in Slots : /\ v[i] \in Grounds /\ v[i] \in TypeRefs
                               /\ ValuesOf(v)[Infer(i)] = v[i]
                               /\ v[i] = v[RootIn(alias, i)]
<1>1. v \in Valuations /\ Solves(ValuesOf(v), FitValues(v))
  BY MeaningIs DEF MeaningSolves
<1>2. TableHolds(ValuesOf(v), FitValues(v), alias, type, class)
  BY <1>1 DEF Solves
<1>3. /\ Slots = 1..Len(alias) /\ Len(alias) \in Nat /\ Slots = SlotsIn(alias) /\ IsForest(alias)
      /\ \A i \in Slots : RootIn(alias, i) \in Slots
      /\ MaxIvars \in Nat /\ Len(alias) <= MaxIvars
  BY TableFacts, BoundsAssumption DEF TypesInv
<1>4. \A i \in Slots : v[i] \in Grounds /\ v[i] \in TypeRefs
  BY <1>1, <1>3, GroundsAssumption DEF Valuations, Ivars
<1>5. \A i \in Slots : ValuesOf(v)[Infer(i)] = v[i]
  BY <1>3, ValuesAre
<1>6. \A i \in Slots : ValuesOf(v)[Infer(i)] = ValuesOf(v)[Infer(RootIn(alias, i))]
  <2>1. IsForest(alias) /\ Slots = SlotsIn(alias)
    BY <1>3
  <2> QED BY <2>1, <1>2, RootsHold
<1>7. \A i \in Slots : v[i] = v[RootIn(alias, i)]
  BY <1>3, <1>5, <1>6
<1> QED BY <1>1, <1>2, <1>4, <1>5, <1>7

\* check_for_loops stops only when the types have no finite values.
LEMMA LoopIsUnsolvable ==
    ASSUME TypesInv, ~NoTypeLoop
    PROVE  Meaning = {}
<1> SUFFICES ASSUME NEW v \in Meaning PROVE FALSE
  OBVIOUS
<1>1. PICK C \in SUBSET {i \in Slots : ~IsAlias(i) /\ ~Unknown(i)} :
          C # {} /\ \A i \in C : Names(i) \cap C # {}
  BY DEF NoTypeLoop
<1>2. /\ TableHolds(ValuesOf(v), FitValues(v), alias, type, class)
      /\ \A i \in Slots : /\ v[i] \in TypeRefs
                          /\ ValuesOf(v)[Infer(i)] = v[i]
                          /\ v[i] = v[RootIn(alias, i)]
  BY MeaningFacts
<1>3. /\ Slots = 1..Len(alias)
      /\ \A i \in Slots : PointedIvar(i) = RootIn(alias, i)
      /\ \A i \in Slots : alias[i] = 0 => type[i] \in Scoped /\ (type[i] = Infer(i) \/ Known(type[i]))
  BY TableFacts DEF TypesInv
<1>4. ASSUME NEW i \in C
      PROVE  \E j \in C : HasPart(v, i, j)
  <2>1. i \in Slots /\ alias[i] = 0 /\ type[i] # Infer(i)
    BY <1>1 DEF IsAlias, Unknown
  <2>2. type[i] \in TypeRefs /\ Vars(type[i]) \subseteq Slots /\ ~IsInfer(type[i])
    BY <1>3, <2>1 DEF Scoped, Known, IsInfer
  <2>3. PICK k \in Vars(type[i]) : PointedIvar(k) \in C
    BY <1>1 DEF Names
  <2>4. v[PointedIvar(k)] = v[k]
    BY <1>2, <1>3, <2>2, <2>3
  <2>5. v[i] = Subst(type[i], v)
    <3>1. SlotHolds(ValuesOf(v), FitValues(v), i, alias[i], type[i], class[i])
      BY <1>2, <1>3, <2>1 DEF TableHolds
    <3>2. ValuesOf(v)[Infer(i)] = ValuesOf(v)[type[i]]
      BY <2>1, <3>1 DEF SlotHolds
    <3>3. ValuesOf(v)[type[i]] = Subst(type[i], v)
      BY <2>2, ValuesAre DEF Value
    <3> QED BY <1>2, <2>1, <3>2, <3>3
  <2> QED BY <2>2, <2>3, <2>4, <2>5 DEF HasPart
<1>5. \A i \in C : v[i] \in TypeRefs
  BY <1>1, <1>2
<1> QED BY <1>1, <1>4, <1>5, NoDescent

\* Nor has a variable a type that contains it.
LEMMA OccursIsUnsolvable ==
    ASSUME TypesInv, EquateStep, Inner, NEW v \in Meaning,
           NEW x \in {L, R}, NEW t \in {L, R}, {x, t} = {L, R},
           IsInfer(x), x.slot \in Vars(t)
    PROVE  FALSE
<1>1. todo # << >> /\ Here.top = FALSE
  BY DEF EquateStep, Inner
<1>2. InTable(Here.l) /\ InTable(Here.r) /\ L \in Scoped /\ R \in Scoped
  BY <1>1, TypesHere
<1>3. /\ Table /\ Terms(TypeRefs) /\ Over(TypeRefs)
  BY AllTerms DEF TypesInv
<1>4. /\ Solves(ValuesOf(v), FitValues(v))
      /\ \A i \in Slots : v[i] \in TypeRefs /\ ValuesOf(v)[Infer(i)] = v[i]
  BY MeaningFacts
<1>5. ValuesOf(v)[L] = ValuesOf(v)[R]
  BY <1>1, <1>2, <1>3, <1>4, InnerSolves
<1>6. x \in Scoped /\ t \in Scoped /\ ValuesOf(v)[x] = ValuesOf(v)[t]
  BY <1>2, <1>5
<1>7. x.slot \in Slots /\ x = Infer(x.slot)
  BY <1>6, ScopedArgs
<1>8. ~IsInfer(t)
  <2>1. SUFFICES ASSUME IsInfer(t) PROVE FALSE
    OBVIOUS
  <2>2. t = Infer(t.slot)
    BY <1>6, <2>1, ScopedArgs
  <2>3. Vars(t) = {t.slot}
    BY <1>6, <2>1, VarsDef DEF Scoped
  <2>4. L = R
    BY <1>7, <2>2, <2>3
  <2> QED BY <2>4 DEF Inner, Equal
<1>9. v[x.slot] = Subst(t, v)
  <2>1. ValuesOf(v)[t] = Subst(t, v)
    BY <1>6, ValuesAre DEF Value, Scoped
  <2> QED BY <1>4, <1>6, <1>7, <2>1
<1> DEFINE C == {x.slot}
<1>10. C # {} /\ \A i \in C : v[i] \in TypeRefs
  BY <1>4, <1>7
<1>11. \A i \in C : \E j \in C : HasPart(v, i, j)
  BY <1>6, <1>8, <1>9 DEF HasPart, Scoped
<1> HIDE DEF C
<1> QED BY <1>10, <1>11, NoDescent

\* A call that is rejected has no solution in which each literal is a number.
LEMMA EquateRejects ==
    ASSUME TypesInv, BornInv, EquateStep, phase' = "error", NEW v \in Meaning
    PROVE  \E i \in Slots : born[i] # "None" /\ v[i] = Never
<1>1. todo # << >> /\ phase # "error"
  BY DEF EquateStep
<1>2. InTable(Here.l) /\ InTable(Here.r)
  BY <1>1, TypesHere
<1>3. Inner
  BY <1>1, <1>2 DEF EquateStep, AlreadyEqual, NeverIgnored, EnterInner, BothUnknown, OneUnknown,
                    Decompose, Answer, Instead
<1>4. ~GivesUp
  <2>1. SUFFICES ASSUME GivesUp PROVE FALSE
    OBVIOUS
  <2>2. PICK x \in {L, R}, t \in {L, R} : {x, t} = {L, R} /\ IsInfer(x) /\ x.slot \in Vars(t)
    BY <1>2, <2>1 DEF GivesUp
  <2> QED BY <1>3, <2>2, OccursIsUnsolvable
<1>5. /\ Table /\ Terms(TypeRefs) /\ Over(TypeRefs)
      /\ Interprets(ValuesOf(v), FitValues(v), TypeRefs)
  BY AllTerms, ValuesInterpret DEF TypesInv
<1>6. /\ Solves(ValuesOf(v), FitValues(v))
      /\ \A i \in Slots : /\ v[i] \in Grounds /\ ValuesOf(v)[Infer(i)] = v[i]
                          /\ v[i] = v[RootIn(alias, i)]
  BY MeaningFacts
<1>7. TwoKinds(ValuesOf(v), FitValues(v))
  BY <1>4, <1>5, <1>6, RejectIsRight
<1>8. PICK r \in Slots : /\ Unknown(r) /\ class[r] # "None"
                         /\ ValuesOf(v)[Infer(r)] \in FitValues(v)["Integer"] \cap FitValues(v)["Float"]
  BY <1>7 DEF TwoKinds
<1>9. v[r] = Never
  <2>1. Fits("Integer", v[r]) /\ Fits("Float", v[r])
    <3>1. v[r] \in FitValues(v)["Integer"] /\ v[r] \in FitValues(v)["Float"]
      BY <1>6, <1>8
    <3> QED BY <3>1 DEF FitValues, Classes
  <2>2. v[r].con = "!"
    BY <2>1 DEF Fits, FitsPrimitive, Integers32
  <2> QED BY <1>6, <2>2, GroundsAssumption
<1>10. PICK i \in SlotsIn(alias) : RootIn(alias, i) = r /\ born[i] # "None"
  BY <1>8 DEF BornInv, Remembers, Unknown, IsAlias
<1>11. Slots = SlotsIn(alias)
  BY <1>5, TableFacts
<1> QED BY <1>6, <1>9, <1>10, <1>11

LEMMA ErrorsStep ==
    ASSUME TypesInv, TypesInv', BornInv, ErrorsJustified, [Next]_vars
    PROVE  ErrorsJustified'
<1> SUFFICES ASSUME phase' = "error", NEW v \in Meaning'
             PROVE  \E i \in Slots' : born'[i] # "None" /\ v[i] = Never
  BY DEF ErrorsJustified
<1>1. ASSUME UNCHANGED <<alias, type, class, todo, born>>,
             \A u \in Meaning : \E i \in Slots : born[i] # "None" /\ u[i] = Never
      PROVE  \E i \in Slots' : born'[i] # "None" /\ v[i] = Never
  <2>1. v \in Meaning
    BY <1>1, MeaningKept
  <2>2. Slots' = Slots
    BY <1>1 DEF Slots
  <2> QED BY <1>1, <2>1, <2>2
<1>2. CASE EquateStep
  <2>1. Reject
    <3>1. phase # "error"
      BY <1>2 DEF EquateStep
    <3> QED BY <1>2, <3>1 DEF EquateStep, AlreadyEqual, NeverIgnored, EnterInner, BothUnknown,
                              OneUnknown, SetIvar, Decompose, Answer, Instead
  <2>2. UNCHANGED <<alias, type, class, todo, born>>
    BY <2>1 DEF Reject
  <2>3. \A u \in Meaning : \E i \in Slots : born[i] # "None" /\ u[i] = Never
    BY <1>2, EquateRejects
  <2> QED BY <1>1, <2>2, <2>3
<1>3. CASE CheckForLoops
  <2>1. UNCHANGED <<alias, type, class, todo, born>> /\ ~NoTypeLoop
    BY <1>3 DEF CheckForLoops, Reject
  <2>2. Meaning = {}
    BY <2>1, LoopIsUnsolvable
  <2> QED BY <1>1, <2>1, <2>2
<1>4. CASE UNCHANGED vars
  <2>1. UNCHANGED <<alias, type, class, todo, born>> /\ phase = "error"
    BY <1>4 DEF vars
  <2> QED BY <1>1, <2>1 DEF ErrorsJustified
<1>5. ASSUME \/ \E ic \in Classes : AddIvar(ic)
             \/ \E l, r \in TypesOver(born) : EquateTypes(l, r)
             \/ EndRules \/ Defaults \/ Compact \/ EndPass
      PROVE  FALSE
  BY <1>5 DEF AddIvar, EquateTypes, EndRules, Defaults, Compact, EndPass, Idle
<1> QED BY <1>2, <1>3, <1>4, <1>5 DEF Next

\* When the compiler gives up, be it in a call of equate_types, in the check
\* for types that contain themselves or for two classes of a literal, there is
\* no way to give the variables types of Grounds that fits what was equated and
\* makes numbers of the literals.
THEOREM RejectionsAreJustified == Spec => []ErrorsJustified
<1>1. Init => BornInv /\ ErrorsJustified
  BY DEF Init, TableInit, Slots, BornInv, ErrorsJustified
<1>2. (TypesInv /\ LiteralInv) /\ (TypesInv /\ LiteralInv)' /\ BornInv /\ [Next]_vars => BornInv'
  BY BornStep
<1>3. (TypesInv /\ LiteralInv) /\ (TypesInv /\ LiteralInv)' /\ BornInv /\ ErrorsJustified
        /\ [Next]_vars => ErrorsJustified'
  BY ErrorsStep
<1> QED BY <1>1, <1>2, <1>3, LiteralInvariant, PTL DEF Spec
=============================================================================
