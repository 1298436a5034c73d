-------------------------- MODULE GlobIndexProofs --------------------------
(***************************************************************************)
(* Proofs about the index of names, for every tree of modules and whatever *)
(* is declared, named and imported by globs in it.                         *)
(***************************************************************************)
EXTENDS GlobIndexProps, Integers, FiniteSetTheorems, TLAPS

(***************************************************************************)
(* What _add_item keeps.                                                   *)
(***************************************************************************)
IsIndex(list) == \A n \in DOMAIN list : DOMAIN list[n] = {"path", "vis"}

\* The entries of big have, for the names of small, the items of small.
Keeps(small, big) ==
    \A n \in DOMAIN small : n \in DOMAIN big /\ big[n].path = small[n].path

\* Adding items keeps those that are there, in an index of well-formed entries.
LEMMA AddItemsKeeps ==
  ASSUME NEW list, NEW new, IsIndex(list), IsIndex(new)
  PROVE  IsIndex(AddItems(list, new)) /\ Keeps(list, AddItems(list, new))
<1> DEFINE all == AddItems(list, new)
<1>1. DOMAIN all = DOMAIN list \cup DOMAIN new
  BY DEF AddItems
<1>2. ASSUME NEW n \in DOMAIN list
      PROVE  DOMAIN all[n] = {"path", "vis"} /\ all[n].path = list[n].path
  <2>1. DOMAIN list[n] = {"path", "vis"}
    BY DEF IsIndex
  <2>2. all[n] = list[n] \/ all[n] = [list[n] EXCEPT !.vis = Union(@, new[n].vis)]
    BY DEF AddItems
  <2> QED
    BY <2>1, <2>2
<1>3. ASSUME NEW n \in DOMAIN new, n \notin DOMAIN list
      PROVE  DOMAIN all[n] = {"path", "vis"}
  <2>1. all[n] = new[n]
    BY <1>3 DEF AddItems
  <2> QED
    BY <2>1 DEF IsIndex
<1> QED
  BY <1>1, <1>2, <1>3 DEF IsIndex, Keeps

\* What is copied from a module is an index.
LEMMA CopiedIsIndex ==
  ASSUME NEW src, NEW vis PROVE IsIndex(Copied(src, vis))
  BY DEF Copied, IsIndex

(***************************************************************************)
(* The inductive invariant: entries are well-formed, a module that was     *)
(* visited in the first pass has its own items under their names, and one  *)
(* that was not is empty.                                                  *)
(***************************************************************************)
Visited(k) == phase # "base" \/ k < at

IndexInv ==
    /\ crate \in Crates
    /\ phase \in {"base", "glob", "done"}
    /\ at \in 1..Len(Preorder)
    /\ DOMAIN index = Mods
    /\ \A m \in Mods : IsIndex(index[m])
    /\ \A k \in 1..Len(Preorder) :
         /\ Visited(k) => Keeps(crate.decls[Preorder[k]], index[Preorder[k]])
         /\ ~Visited(k) => DOMAIN index[Preorder[k]] = {}

\* The positions of modules are those of the sequence.
LEMMA Positions ==
  /\ Len(Preorder) \in Nat \ {0} /\ DOMAIN Preorder = 1..Len(Preorder)
  /\ \A k \in 1..Len(Preorder) : Preorder[k] \in Mods
  /\ \A m \in Mods : \E k \in 1..Len(Preorder) : Preorder[k] = m
<1>1. Preorder \in Seq(Mods) /\ Preorder # << >>
  BY PreorderAssumption
<1>2. Len(Preorder) \in Nat \ {0} /\ DOMAIN Preorder = 1..Len(Preorder)
  BY <1>1
<1>3. Mods = {Preorder[k] : k \in DOMAIN Preorder}
  BY DEF Mods, ToSet
<1> QED
  BY <1>2, <1>3

\* The invariant holds before the first module is visited.
LEMMA IndexInvInit == Init => IndexInv
<1> SUFFICES ASSUME Init PROVE IndexInv
  OBVIOUS
<1>1. \A k \in 1..Len(Preorder) : ~Visited(k)
  BY Positions DEF Init, Visited
<1>2. \A m \in Mods : DOMAIN index[m] = {}
  BY DEF Init
<1>3. \A m \in Mods : IsIndex(index[m])
  BY <1>2 DEF IsIndex
<1>4. at \in 1..Len(Preorder)
  BY Positions DEF Init
<1> QED
  BY <1>1, <1>2, <1>3, <1>4, Positions DEF Init, IndexInv

\* Keeping is transitive.
LEMMA KeepsTransitive ==
  ASSUME NEW a, NEW b, NEW c, Keeps(a, b), Keeps(b, c) PROVE Keeps(a, c)
  BY DEF Keeps

\* An index keeps itself.
LEMMA KeepsItself == ASSUME NEW a PROVE Keeps(a, a)
  BY DEF Keeps

(***************************************************************************)
(* One module's index is changed by AddItems, in either pass.              *)
(***************************************************************************)
\* Only the index at hand changes, by keeping what it had.
GrowsAt(m, old, new) ==
    /\ DOMAIN new = DOMAIN old
    /\ \A k \in DOMAIN old : k # m => new[k] = old[k]
    /\ IsIndex(new[m]) /\ Keeps(old[m], new[m])

\* Replacing the index of one module by a larger one is such a change.
LEMMA AddingGrows ==
  ASSUME NEW old, NEW m \in DOMAIN old, NEW new,
         IsIndex(old[m]), IsIndex(new)
  PROVE  GrowsAt(m, old, [old EXCEPT ![m] = AddItems(@, new)])
<1>1. IsIndex(AddItems(old[m], new)) /\ Keeps(old[m], AddItems(old[m], new))
  BY AddItemsKeeps
<1> QED
  BY <1>1 DEF GrowsAt

\* A grown index is one, and keeps the entries of every module.
LEMMA GrownKeeps ==
  ASSUME NEW old, NEW new, NEW m \in DOMAIN old, GrowsAt(m, old, new),
         \A k \in DOMAIN old : IsIndex(old[k])
  PROVE  \A k \in DOMAIN old : IsIndex(new[k]) /\ Keeps(old[k], new[k])
  BY KeepsItself DEF GrowsAt

\* Copying from a module lets the index at hand grow.
LEMMA SubmodGrows ==
  ASSUME IndexInv, Submod PROVE Dst \in Mods /\ GrowsAt(Dst, index, index')
<1>1. Dst \in Mods
  BY Positions DEF IndexInv, Dst
<1>2. IsIndex(Copied(Src, Head(todo).vis))
  BY CopiedIsIndex
<1> QED
  BY <1>1, <1>2, AddingGrows DEF Submod, IndexInv

\* The first pass fills an empty index, with the module's own items first.
LEMMA BaseGrows ==
  ASSUME IndexInv, Base
  PROVE  /\ Dst \in Mods /\ GrowsAt(Dst, index, index')
         /\ Keeps(crate.decls[Dst], index'[Dst])
<1>1. Dst \in Mods /\ DOMAIN index[Dst] = {} /\ IsIndex(index[Dst])
  BY Positions DEF IndexInv, Base, Visited, Dst
<1>2. IsIndex(crate.decls[Dst]) /\ IsIndex(crate.named[Dst])
  BY <1>1, CratesAssumption DEF IndexInv, IsIndex
<1> DEFINE filled == AddItems(crate.decls[Dst], crate.named[Dst])
<1>3. IsIndex(filled) /\ Keeps(crate.decls[Dst], filled)
  BY <1>2, AddItemsKeeps
<1>4. index' = [index EXCEPT ![Dst] = filled]
  BY DEF Base
<1>5. Keeps(index[Dst], filled)
  BY <1>1 DEF Keeps
<1> HIDE DEF filled
<1> QED
  BY <1>1, <1>3, <1>4, <1>5 DEF GrowsAt, IndexInv

\* The index grows, or nothing of it changes, in every step.
LEMMA StepGrows ==
  ASSUME IndexInv, [Next]_vars
  PROVE  \/ Dst \in Mods /\ GrowsAt(Dst, index, index')
         \/ UNCHANGED index
<1>1. CASE Base
  BY <1>1, BaseGrows
<1>2. CASE Submod
  BY <1>2, SubmodGrows
<1>3. CASE UseStmt \/ EndModule \/ SkipUse \/ AvoidRecursion \/ Leave \/ UNCHANGED vars
  BY <1>3 DEF UseStmt, EndModule, SkipUse, AvoidRecursion, Leave, vars
<1> QED
  BY <1>1, <1>2, <1>3 DEF Next

\* No step takes an entry from any module or gives it another item.
LEMMA StepKeeps ==
  ASSUME IndexInv, [Next]_vars
  PROVE  DOMAIN index' = Mods /\ \A m \in Mods : IsIndex(index'[m]) /\ Keeps(index[m], index'[m])
<1>1. CASE Dst \in Mods /\ GrowsAt(Dst, index, index')
  <2>1. \A k \in DOMAIN index : IsIndex(index'[k]) /\ Keeps(index[k], index'[k])
    BY <1>1, GrownKeeps DEF IndexInv
  <2> QED
    BY <1>1, <2>1 DEF IndexInv, GrowsAt
<1>2. CASE UNCHANGED index
  BY <1>2, KeepsItself DEF IndexInv
<1> QED
  BY <1>1, <1>2, StepGrows

\* The traversal: modules once visited stay so.
Traversed ==
    /\ crate' = crate
    /\ phase' \in {"base", "glob", "done"} /\ at' \in 1..Len(Preorder)
    /\ phase # "base" => phase' # "base"
    /\ phase = "base" /\ phase' = "base" => at <= at'

\* Every step is one of the traversal.
LEMMA StepTraverses ==
  ASSUME IndexInv, [Next]_vars PROVE Traversed
<1>1. CASE Base
  BY <1>1, Positions DEF Base, IndexInv, Traversed
<1>2. CASE EndModule
  BY <1>2, Positions DEF EndModule, IndexInv, Traversed
<1>3. CASE UseStmt \/ SkipUse \/ AvoidRecursion \/ Submod \/ Leave \/ UNCHANGED vars
  <2>1. crate' = crate /\ phase' = phase /\ at' = at
    BY <1>3 DEF UseStmt, SkipUse, AvoidRecursion, Submod, Leave, vars
  <2> QED
    BY <2>1, Positions DEF IndexInv, Traversed
<1> QED
  BY <1>1, <1>2, <1>3 DEF Next

\* The invariant is preserved.
LEMMA IndexInvNext == IndexInv /\ [Next]_vars => IndexInv'
<1> SUFFICES ASSUME IndexInv, [Next]_vars PROVE IndexInv'
  OBVIOUS
<1>1. /\ crate' = crate
      /\ phase' \in {"base", "glob", "done"} /\ at' \in 1..Len(Preorder)
  BY StepTraverses DEF Traversed
<1>2. DOMAIN index' = Mods /\ \A m \in Mods : IsIndex(index'[m]) /\ Keeps(index[m], index'[m])
  BY StepKeeps
<1>3. ASSUME NEW k \in 1..Len(Preorder)
      PROVE  /\ Visited(k)' => Keeps(crate.decls[Preorder[k]], index'[Preorder[k]])
             /\ ~Visited(k)' => DOMAIN index'[Preorder[k]] = {}
  <2>1. Preorder[k] \in Mods
    BY Positions
  <2>2. CASE Visited(k)
    <3>1. Keeps(crate.decls[Preorder[k]], index'[Preorder[k]])
      BY <1>2, <2>1, <2>2, KeepsTransitive DEF IndexInv
    <3>2. Visited(k)'
      BY <2>2, StepTraverses, Positions DEF Visited, Traversed, IndexInv
    <3> QED
      BY <3>1, <3>2
  <2>3. CASE ~Visited(k) /\ Base
    <3>1. phase = "base" /\ k \in Nat /\ at \in Nat /\ k >= at
      BY <2>3, Positions DEF Visited, IndexInv
    <3>2. CASE k = at
      <4>1. Keeps(crate.decls[Dst], index'[Dst])
        BY <2>3, BaseGrows
      <4>2. Visited(k)'
        BY <2>3, <3>2, Positions DEF Visited, Base
      <4> QED
        BY <3>2, <4>1, <4>2 DEF Dst
    <3>3. CASE k # at
      <4>1. ~Visited(k)'
        BY <2>3, <3>1, <3>3, Positions DEF Visited, Base
      <4>2. Preorder[k] # Dst
        BY <3>3, Positions, PreorderAssumption DEF Dst, IndexInv
      <4>3. index'[Preorder[k]] = index[Preorder[k]]
        BY <2>1, <2>3, <4>2, BaseGrows DEF GrowsAt, IndexInv
      <4> QED
        BY <2>3, <4>1, <4>3 DEF IndexInv
    <3> QED
      BY <3>2, <3>3
  <2>4. CASE ~Visited(k) /\ ~Base
    <3>1. phase = "base"
      BY <2>4 DEF Visited
    <3>2. UNCHANGED vars
      BY <2>4, <3>1 DEF Next, UseStmt, EndModule, SkipUse, AvoidRecursion, Submod, Leave, Starting
    <3> QED
      BY <2>4, <3>2 DEF vars, Visited, IndexInv
  <2> QED
    BY <2>2, <2>3, <2>4
<1> QED
  BY <1>1, <1>2, <1>3 DEF IndexInv, Visited

\* The invariant holds in every behaviour.
THEOREM IndexAlways == Spec => []IndexInv
  BY IndexInvInit, IndexInvNext, PTL DEF Spec

\* First come, first kept (_add_item): however many declarations and imports
\* bring a name to a module, its entry keeps its item.
THEOREM FirstStays == Spec => EntriesStay
<1>1. IndexInv /\ [Next]_vars =>
        [\A m \in Mods : \A n \in DOMAIN index[m] :
           n \in DOMAIN index'[m] /\ index'[m][n].path = index[m][n].path]_vars
  BY StepKeeps DEF Keeps
<1> QED
  BY <1>1, IndexAlways, PTL DEF Spec, EntriesStay

\* After the first pass a module's own items are what their names mean there,
\* whatever its named and glob imports bring (_add_item ignores the latter).
OwnItemsWin ==
    phase # "base" => \A m \in Mods : Keeps(crate.decls[m], index[m])

\* Declarations win over imports, in every tree and order.
THEOREM DeclarationsWin == Spec => []OwnItemsWin
<1>1. IndexInv => OwnItemsWin
  <2> SUFFICES ASSUME IndexInv, phase # "base", NEW m \in Mods
               PROVE  Keeps(crate.decls[m], index[m])
    BY DEF OwnItemsWin
  <2>1. PICK k \in 1..Len(Preorder) : Preorder[k] = m
    BY Positions
  <2> QED
    BY <2>1 DEF IndexInv, Visited
<1> QED
  BY <1>1, IndexAlways, PTL

(***************************************************************************)
(* The traversal of the globs: what is still to be done at each point.     *)
(***************************************************************************)
Calls == [mod : Mods, vis : Mods \cup {Global}, seen : BOOLEAN, return : BOOLEAN]

\* The globs of the module at hand, and how many of them have been begun.
Here == crate.globs[Dst]
Begun == Len(Here) - Len(uses)

\* A call is for one of them, on the way from its module.
Rightly(c) ==
    \E g \in ToSet(Here) : c.vis = g.vis /\ c.mod \in Following(crate, g.mod)

\* A module that is marked before its globs are followed has private ones only.
MarkedRightly(k) == populated[Preorder[k]] = 2 => ~HasPubWildcard(Preorder[k])

WalkInv ==
    /\ DOMAIN populated = Mods
    /\ uses \in Seq(Glob) /\ todo \in Seq(Calls)
    /\ phase # "glob" => uses = << >> /\ todo = << >>
    /\ phase = "base" => \A k \in 1..Len(Preorder) : k < at => MarkedRightly(k)
    /\ phase = "glob" =>
         /\ \A k \in 1..Len(Preorder) : k >= at => MarkedRightly(k)
         /\ Len(uses) <= Len(Here)
         /\ \A k \in 1..Len(uses) : uses[k] = Here[Begun + k]
         /\ \A i \in 1..Len(todo) : ~todo[i].return => Rightly(todo[i])

\* What is written in a crate.
LEMMA CrateFacts ==
  ASSUME NEW c \in Crates, NEW m \in Mods
  PROVE  /\ c.globs[m] \in Seq(Glob) /\ Len(c.globs[m]) \in Nat
         /\ ToSet(c.globs[m]) = {c.globs[m][k] : k \in 1..Len(c.globs[m])}
         /\ \A g \in ToSet(c.globs[m]) : g \in Glob /\ (g.private => g.vis = m)
<1>1. c.globs[m] \in Seq(Glob) /\ \A g \in ToSet(c.globs[m]) : g.private => g.vis = m
  BY CratesAssumption
<1>2. DOMAIN c.globs[m] = 1..Len(c.globs[m]) /\ Len(c.globs[m]) \in Nat
  BY <1>1
<1>3. \A k \in 1..Len(c.globs[m]) : c.globs[m][k] \in Glob
  BY <1>1
<1> QED
  BY <1>1, <1>2, <1>3 DEF ToSet

\* A module is among those that follow it, and what they import by globs too.
LEMMA FollowingFacts ==
  ASSUME NEW c \in Crates, NEW m \in Mods
  PROVE  /\ m \in Following(c, m)
         /\ Following(c, m) \subseteq Mods
         /\ \A s \in Following(c, m) : \A g \in ToSet(c.globs[s]) : g.mod \in Following(c, m)
<1>1. m \in Following(c, m) /\ Following(c, m) \subseteq Mods
  BY DEF Following
<1>2. ASSUME NEW s \in Following(c, m), NEW g \in ToSet(c.globs[s])
      PROVE  g.mod \in Following(c, m)
  <2>1. s \in Mods
    BY DEF Following
  <2>2. g.mod \in Mods
    BY <2>1, CrateFacts DEF Glob
  <2> QED
    BY <2>2, <1>2 DEF Following
<1> QED
  BY <1>1, <1>2

\* What follows a module that m imports follows m.
LEMMA FollowingGlob ==
  ASSUME NEW c \in Crates, NEW m \in Mods, NEW g \in ToSet(c.globs[m])
  PROVE  g.mod \in Mods /\ Following(c, g.mod) \subseteq Following(c, m)
<1>1. g.mod \in Mods
  BY CrateFacts DEF Glob
<1>2. g.mod \in Following(c, m)
  BY FollowingFacts
<1>3. Following(c, m) \in SUBSET Mods
  BY FollowingFacts
<1>4. \A k \in Following(c, m) : \A h \in ToSet(c.globs[k]) : h.mod \in Following(c, m)
  BY FollowingFacts
<1>5. \A s \in Following(c, g.mod) : s \in Following(c, m)
  BY <1>2, <1>3, <1>4 DEF Following
<1> QED
  BY <1>1, <1>5

\* Calls that are pushed in place of the head of a sequence of calls.
LEMMA Pushed ==
  ASSUME NEW S, NEW f \in Seq(S), NEW r \in S, NEW t \in Seq(S), t # << >>,
         NEW w, w = f \o <<r>> \o Tail(t)
  PROVE  /\ w \in Seq(S) /\ Len(w) = Len(f) + Len(t)
         /\ \A i \in 1..Len(f) : w[i] = f[i]
         /\ w[Len(f) + 1] = r
         /\ \A i \in 2..Len(t) : w[Len(f) + i] = t[i]
<1> DEFINE head == f \o <<r>>
<1>11. w = head \o Tail(t)
  OBVIOUS
<1>1. Len(f) \in Nat /\ Len(t) \in Nat \ {0}
  OBVIOUS
<1>2. head \in Seq(S) /\ Len(head) = Len(f) + 1
  OBVIOUS
<1>3. (\A i \in 1..Len(f) : head[i] = f[i]) /\ head[Len(f) + 1] = r
  BY <1>1
<1>4. Tail(t) \in Seq(S) /\ Len(Tail(t)) = Len(t) - 1 /\ \A i \in 1..(Len(t) - 1) : Tail(t)[i] = t[i + 1]
  BY <1>1
<1> HIDE DEF head
<1>5. w \in Seq(S) /\ Len(w) = Len(head) + Len(Tail(t))
  BY <1>2, <1>4, <1>11
<1>6. \A i \in 1..Len(head) : w[i] = head[i]
  BY <1>2, <1>4, <1>11
<1>7. \A i \in 1..Len(Tail(t)) : w[Len(head) + i] = Tail(t)[i]
  BY <1>2, <1>4, <1>11
<1>8. ASSUME NEW i \in 2..Len(t) PROVE w[Len(f) + i] = t[i]
  <2>1. i - 1 \in 1..Len(Tail(t)) /\ Len(head) + (i - 1) = Len(f) + i
    BY <1>1, <1>2, <1>4
  <2>2. w[Len(f) + i] = Tail(t)[i - 1]
    BY <1>7, <2>1
  <2>3. i - 1 \in 1..(Len(t) - 1) /\ (i - 1) + 1 = i
    BY <1>1
  <2>4. Tail(t)[i - 1] = t[i]
    BY <1>4, <2>3
  <2> QED
    BY <2>2, <2>4
<1>9. \A i \in 1..Len(f) : i \in 1..Len(head)
  BY <1>1, <1>2
<1>10. Len(f) + 1 \in 1..Len(head)
  BY <1>1, <1>2
<1>12. Len(w) = Len(f) + Len(t)
  BY <1>1, <1>2, <1>4, <1>5
<1> QED
  BY <1>3, <1>5, <1>6, <1>8, <1>9, <1>10, <1>12

\* Nothing is marked and nothing is to be done before the first module.
LEMMA WalkInvInit == Init => WalkInv
<1> SUFFICES ASSUME Init PROVE WalkInv
  OBVIOUS
<1>1. \A k \in 1..Len(Preorder) : ~(k < at)
  BY DEF Init
<1>2. uses = << >> /\ todo = << >> /\ phase = "base" /\ DOMAIN populated = Mods
  BY DEF Init
<1>3. << >> \in Seq(Glob) /\ << >> \in Seq(Calls)
  OBVIOUS
<1> QED
  BY <1>1, <1>2, <1>3 DEF WalkInv

\* The module at hand, and its globs.
LEMMA HereFacts ==
  ASSUME IndexInv
  PROVE  /\ at \in 1..Len(Preorder) /\ Dst \in Mods /\ crate \in Crates
         /\ Here \in Seq(Glob) /\ Len(Here) \in Nat
         /\ ToSet(Here) = {Here[k] : k \in 1..Len(Here)}
         /\ \A g \in ToSet(Here) : g \in Glob /\ (g.private => g.vis = Dst)
<1>1. at \in 1..Len(Preorder) /\ Dst \in Mods /\ crate \in Crates
  BY Positions DEF IndexInv, Dst
<1> QED
  BY <1>1, CrateFacts DEF Here

\* Whether a module has globs that others may follow depends on the crate only.
LEMMA SameMark ==
  ASSUME crate' = crate, NEW k, populated'[Preorder[k]] = populated[Preorder[k]], MarkedRightly(k)
  PROVE  MarkedRightly(k)'
  BY DEF MarkedRightly, HasPubWildcard

\* The marks are right after each step.
LEMMA MarksNext ==
  ASSUME IndexInv, WalkInv, [Next]_vars
  PROVE  /\ DOMAIN populated' = Mods
         /\ phase' = "base" => \A k \in 1..Len(Preorder) : k < at' => MarkedRightly(k)'
         /\ phase' = "glob" => \A k \in 1..Len(Preorder) : k >= at' => MarkedRightly(k)'
<1>0. crate' = crate /\ at \in 1..Len(Preorder) /\ Len(Preorder) \in Nat \ {0} /\ Dst \in Mods
  BY StepTraverses, HereFacts, Positions DEF Traversed
<1>1. CASE Base
  <2>1. DOMAIN populated' = Mods
    BY <1>1 DEF Base, WalkInv
  <2>2. ASSUME NEW k, k = at PROVE MarkedRightly(k)'
    <3>1. populated'[Preorder[k]] = IF HasPubWildcard(Preorder[k]) THEN 1 ELSE 2
      BY <1>0, <1>1, <2>2 DEF Base, WalkInv, Dst
    <3>2. populated'[Preorder[k]] = 2 => ~HasPubWildcard(Preorder[k])
      BY <3>1
    <3> QED
      BY <3>2, <1>0 DEF MarkedRightly, HasPubWildcard
  <2>3. ASSUME NEW k \in 1..Len(Preorder), k < at PROVE MarkedRightly(k)'
    <3>1. MarkedRightly(k)
      BY <1>1, <2>3 DEF WalkInv, Base
    <3>2. Preorder[k] # Dst
      BY <1>0, <2>3, Positions, PreorderAssumption DEF Dst
    <3>3. populated'[Preorder[k]] = populated[Preorder[k]]
      BY <1>1, <3>2, Positions DEF Base, WalkInv
    <3> QED
      BY <1>0, <3>1, <3>3, SameMark
  <2>4. \A k \in 1..Len(Preorder) : k <= at => MarkedRightly(k)'
    BY <1>0, <2>2, <2>3
  <2>5. (phase' = "base" /\ at' = at + 1) \/ (phase' = "glob" /\ at = Len(Preorder))
    BY <1>0, <1>1 DEF Base
  <2> QED
    BY <1>0, <2>1, <2>4, <2>5
<1>2. CASE EndModule
  <2>1. DOMAIN populated' = Mods
    BY <1>2 DEF EndModule, WalkInv
  <2>2. ASSUME NEW k \in 1..Len(Preorder), k > at PROVE MarkedRightly(k)'
    <3>1. MarkedRightly(k)
      BY <1>0, <1>2, <2>2 DEF WalkInv, EndModule
    <3>2. Preorder[k] # Dst
      BY <1>0, <2>2, Positions, PreorderAssumption DEF Dst
    <3>3. populated'[Preorder[k]] = populated[Preorder[k]]
      BY <1>2, <3>2, Positions DEF EndModule, WalkInv
    <3> QED
      BY <1>0, <3>1, <3>3, SameMark
  <2>3. (phase' = "glob" /\ at' = at + 1) \/ phase' = "done"
    BY <1>0, <1>2 DEF EndModule
  <2> QED
    BY <1>0, <2>1, <2>2, <2>3
<1>3. CASE UseStmt \/ SkipUse \/ AvoidRecursion \/ Submod \/ Leave \/ UNCHANGED vars
  <2>1. populated' = populated /\ phase' = phase /\ at' = at
    BY <1>3 DEF UseStmt, SkipUse, AvoidRecursion, Submod, Leave, vars
  <2>2. ASSUME NEW k, MarkedRightly(k) PROVE MarkedRightly(k)'
    BY <1>0, <2>1, <2>2, SameMark
  <2> QED
    BY <2>1, <2>2 DEF WalkInv
<1> QED
  BY <1>1, <1>2, <1>3 DEF Next

\* Where the calls that are to be done come from, when the module at hand stays.
LEMMA RightlyStays ==
  ASSUME crate' = crate, at' = at, NEW c
  PROVE  Here' = Here /\ (Rightly(c) => Rightly(c)')
  BY DEF Here, Dst, Rightly, Following

\* What is to be done is right when a module begins, or ends.
LEMMA BeginsRightly ==
  ASSUME IndexInv, WalkInv, [Next]_vars, Base \/ EndModule
  PROVE  /\ uses' \in Seq(Glob) /\ todo' = << >>
         /\ phase' # "glob" => uses' = << >>
         /\ phase' = "glob" => uses' = Here' /\ Len(uses') \in Nat
<1>0. crate' = crate /\ at \in 1..Len(Preorder) /\ Len(Preorder) \in Nat \ {0}
      /\ IndexInv'
  BY StepTraverses, HereFacts, Positions, IndexInvNext DEF Traversed
<1>1. CASE Base
  <2>1. todo = << >> /\ uses = << >>
    BY <1>1 DEF WalkInv, Base
  <2>2. CASE phase' = "glob"
    <3>1. uses' = crate.globs[Preorder[1]] /\ at' = 1
      BY <1>0, <1>1, <2>2 DEF Base
    <3>2. uses' = Here'
      BY <1>0, <3>1 DEF Here, Dst
    <3>3. Preorder[1] \in Mods
      BY Positions
    <3>4. uses' \in Seq(Glob)
      BY <3>1, <3>3, HereFacts, CrateFacts
    <3> QED
      BY <1>1, <2>1, <2>2, <3>2, <3>4 DEF Base
  <2>3. CASE phase' # "glob"
    BY <1>1, <2>1, <2>3 DEF Base, WalkInv
  <2> QED
    BY <2>2, <2>3
<1>2. CASE EndModule
  <2>1. CASE phase' = "glob"
    <3>1. uses' = crate.globs[Preorder[at + 1]] /\ at' = at + 1 /\ at + 1 \in 1..Len(Preorder)
      BY <1>0, <1>2, <2>1 DEF EndModule
    <3>2. uses' = Here'
      BY <1>0, <3>1 DEF Here, Dst
    <3>3. Preorder[at + 1] \in Mods
      BY <3>1, Positions
    <3>4. uses' \in Seq(Glob)
      BY <3>1, <3>3, HereFacts, CrateFacts
    <3> QED
      BY <1>2, <2>1, <3>2, <3>4 DEF EndModule
  <2>2. CASE phase' # "glob"
    BY <1>2, <2>2 DEF EndModule, WalkInv
  <2> QED
    BY <2>1, <2>2
<1> QED
  BY <1>1, <1>2

\* A glob of the module at hand is begun.
LEMMA UseStmtWalks ==
  ASSUME IndexInv, WalkInv, UseStmt
  PROVE  /\ uses # << >> /\ todo = << >> /\ phase = "glob"
         /\ uses' = Tail(uses) /\ uses' \in Seq(Glob) /\ Len(uses') = Len(uses) - 1
         /\ \A k \in 1..Len(uses') : uses'[k] = uses[k + 1]
         /\ Begun + 1 \in 1..Len(Here) /\ Begun' = Begun + 1
         /\ Head(uses) = Here[Begun + 1]
         /\ todo' \in Seq(Calls) /\ Len(todo') = 1
         /\ todo'[1] = Call(Here[Begun + 1].mod, Here[Begun + 1].vis, TRUE)
         /\ Here[Begun + 1].mod \in Mods
<1>1. /\ uses # << >> /\ todo = << >> /\ phase = "glob" /\ uses' = Tail(uses)
      /\ todo' = <<Call(Head(uses).mod, Head(uses).vis, TRUE)>>
      /\ crate' = crate /\ at' = at
  BY DEF UseStmt
<1>2. Len(uses) \in Nat \ {0} /\ uses \in Seq(Glob) /\ Len(uses) <= Len(Here)
  BY <1>1 DEF WalkInv
<1>3. /\ uses' \in Seq(Glob) /\ Len(uses') = Len(uses) - 1
      /\ \A k \in 1..Len(uses') : uses'[k] = uses[k + 1]
  BY <1>1, <1>2
<1>4. Here' = Here
  BY <1>1 DEF Here, Dst
<1>5. Len(Here) \in Nat
  BY HereFacts
<1>6. Begun + 1 \in 1..Len(Here) /\ Begun' = Begun + 1
  BY <1>2, <1>3, <1>4, <1>5 DEF Begun
<1>7. uses[1] = Here[Begun + 1]
  BY <1>1, <1>2 DEF WalkInv
<1>8. Head(uses) = uses[1]
  BY <1>2
<1>9. Here[Begun + 1] \in Glob
  BY <1>6, HereFacts
<1>10. Call(Here[Begun + 1].mod, Here[Begun + 1].vis, TRUE) \in Calls /\ Here[Begun + 1].mod \in Mods
  BY <1>9 DEF Call, Calls, Glob
<1>11. /\ todo' \in Seq(Calls) /\ Len(todo') = 1
       /\ todo'[1] = Call(Here[Begun + 1].mod, Here[Begun + 1].vis, TRUE)
  <2>1. \A c \in Calls : <<c>> \in Seq(Calls) /\ Len(<<c>>) = 1 /\ <<c>>[1] = c
    OBVIOUS
  <2> QED
    BY <1>1, <1>7, <1>8, <1>10, <2>1
<1> QED
  BY <1>1, <1>2, <1>3, <1>6, <1>7, <1>8, <1>10, <1>11

\* The head of what is to be done is left out or has been done.
LEMMA TailWalks ==
  ASSUME WalkInv, SkipUse \/ AvoidRecursion \/ Leave
  PROVE  /\ phase = "glob" /\ Len(todo) \in Nat \ {0} /\ todo' \in Seq(Calls)
         /\ Len(todo') = Len(todo) - 1 /\ Src = todo[1].mod
         /\ \A i \in 1..Len(todo') : todo'[i] = todo[i + 1]
<1>1. phase = "glob" /\ todo # << >> /\ todo' = Tail(todo) /\ todo \in Seq(Calls)
  BY DEF SkipUse, AvoidRecursion, Leave, Starting, WalkInv
<1> QED
  BY <1>1 DEF Src

\* A module is copied from, and its globs are to be followed.
LEMMA SubmodWalks ==
  ASSUME IndexInv, WalkInv, Submod
  PROVE  LET f == Followed(Src)
         IN /\ phase = "glob" /\ Len(todo) \in Nat \ {0}
            /\ todo[1] \in Calls /\ ~todo[1].return /\ Src = todo[1].mod /\ Src \in Mods
            /\ f \in Seq(Glob) /\ Len(f) \in Nat
            /\ f # << >> => populated[Src] # 2
            /\ populated[Src] # 2 => f = crate.globs[Src]
            /\ todo' \in Seq(Calls) /\ Len(todo') = Len(f) + Len(todo)
            /\ \A i \in 1..Len(f) :
                  todo'[i] = Call(f[i].mod, todo[1].vis, Visible(f[i].vis, Dst))
            /\ todo'[Len(f) + 1] = Return(Src)
            /\ \A i \in 2..Len(todo) : todo'[Len(f) + i] = todo[i]
<1> DEFINE f == Followed(Src)
           called == [k \in DOMAIN f |-> Call(f[k].mod, todo[1].vis, Visible(f[k].vis, Dst))]
<1>1. phase = "glob" /\ todo # << >> /\ todo \in Seq(Calls) /\ ~Head(todo).return
  BY DEF Submod, Starting, WalkInv
<1>2. Len(todo) \in Nat \ {0} /\ Head(todo) = todo[1] /\ todo[1] \in Calls
  BY <1>1
<1>3. Src = todo[1].mod /\ Src \in Mods
  BY <1>2 DEF Src, Calls
<1>4. /\ f \in Seq(Glob)
      /\ f # << >> => populated[Src] # 2
      /\ populated[Src] # 2 => f = crate.globs[Src]
  BY <1>3, CrateFacts DEF Followed, IndexInv
<1>5. todo' = called \o <<Return(Src)>> \o Tail(todo)
  BY <1>2 DEF Submod
<1>6. Return(Src) \in Calls
  BY <1>3 DEF Return, Calls
<1> HIDE DEF f
<1>7. Len(f) \in Nat /\ DOMAIN f = 1..Len(f) /\ \A i \in 1..Len(f) : f[i] \in Glob
  BY <1>4
<1>8. \A i \in 1..Len(f) : Call(f[i].mod, todo[1].vis, Visible(f[i].vis, Dst)) \in Calls
  <2> SUFFICES ASSUME NEW i \in 1..Len(f)
               PROVE  Call(f[i].mod, todo[1].vis, Visible(f[i].vis, Dst)) \in Calls
    OBVIOUS
  <2>1. f[i].mod \in Mods /\ todo[1].vis \in Mods \cup {Global}
    BY <1>2, <1>7 DEF Glob, Calls
  <2>2. Visible(f[i].vis, Dst) \in BOOLEAN
    BY DEF Visible, IsPrefix
  <2> QED
    BY <2>1, <2>2 DEF Call, Calls
<1>9. called \in Seq(Calls) /\ Len(called) = Len(f)
      /\ \A i \in 1..Len(f) : called[i] = Call(f[i].mod, todo[1].vis, Visible(f[i].vis, Dst))
  BY <1>7, <1>8
<1> HIDE DEF called
<1>10. /\ todo' \in Seq(Calls) /\ Len(todo') = Len(called) + Len(todo)
       /\ \A i \in 1..Len(called) : todo'[i] = called[i]
       /\ todo'[Len(called) + 1] = Return(Src)
       /\ \A i \in 2..Len(todo) : todo'[Len(called) + i] = todo[i]
  <2>1. called \in Seq(Calls) /\ Return(Src) \in Calls /\ todo \in Seq(Calls) /\ todo # << >>
    BY <1>1, <1>6, <1>9
  <2>2. \A r \in Calls : todo' = called \o <<r>> \o Tail(todo) =>
          /\ todo' \in Seq(Calls) /\ Len(todo') = Len(called) + Len(todo)
          /\ \A i \in 1..Len(called) : todo'[i] = called[i]
          /\ todo'[Len(called) + 1] = r
          /\ \A i \in 2..Len(todo) : todo'[Len(called) + i] = todo[i]
    BY <2>1, Pushed
  <2> QED
    BY <1>5, <2>1, <2>2
<1>11. /\ todo' \in Seq(Calls) /\ Len(todo') = Len(f) + Len(todo)
       /\ \A i \in 1..Len(f) : todo'[i] = called[i]
       /\ todo'[Len(f) + 1] = Return(Src)
       /\ \A i \in 2..Len(todo) : todo'[Len(f) + i] = todo[i]
  BY <1>9, <1>10
<1>12. /\ phase = "glob" /\ Len(todo) \in Nat \ {0}
       /\ todo[1] \in Calls /\ ~todo[1].return /\ Src = todo[1].mod /\ Src \in Mods
       /\ f \in Seq(Glob) /\ Len(f) \in Nat
  BY <1>1, <1>2, <1>3, <1>4, <1>7
<1>13. \A i \in 1..Len(f) : todo'[i] = Call(f[i].mod, todo[1].vis, Visible(f[i].vis, Dst))
  BY <1>9, <1>11
<1>14. f = Followed(Src)
  BY DEF f
<1> QED
  BY <1>4, <1>11, <1>12, <1>13, <1>14, Zenon

\* Every call that is to be done is for a glob of the module at hand.
LEMMA CallsNext ==
  ASSUME IndexInv, WalkInv, [Next]_vars, ~Base, ~EndModule, phase' = "glob"
  PROVE  /\ todo' \in Seq(Calls)
         /\ \A i \in 1..Len(todo') : ~todo'[i].return => Rightly(todo[i])'
<1>0. crate' = crate /\ at' = at /\ phase = "glob" /\ todo \in Seq(Calls) /\ Len(todo) \in Nat
      /\ \A i \in 1..Len(todo) : ~todo[i].return => Rightly(todo[i])
  <2>1. crate' = crate /\ at' = at /\ phase = "glob"
    BY DEF Next, UseStmt, SkipUse, AvoidRecursion, Submod, Leave, Starting, vars
  <2> QED
    BY <2>1 DEF WalkInv
<1>1. CASE UseStmt
  <2>1. Here[Begun + 1] \in ToSet(Here) /\ Here[Begun + 1].mod \in Mods /\ crate \in Crates
    BY <1>1, UseStmtWalks, HereFacts
  <2>2. Here[Begun + 1].mod \in Following(crate, Here[Begun + 1].mod)
    BY <2>1, FollowingFacts
  <2>3. /\ todo' \in Seq(Calls) /\ Len(todo') = 1
        /\ todo'[1] = Call(Here[Begun + 1].mod, Here[Begun + 1].vis, TRUE)
    BY <1>1, UseStmtWalks
  <2>4. Rightly(Call(Here[Begun + 1].mod, Here[Begun + 1].vis, TRUE))
    BY <2>1, <2>2 DEF Rightly, Call
  <2>5. ASSUME NEW c, c = Call(Here[Begun + 1].mod, Here[Begun + 1].vis, TRUE)
        PROVE  Rightly(c)'
    BY <1>0, <2>4, <2>5, RightlyStays
  <2>6. ASSUME NEW i \in 1..Len(todo') PROVE Rightly(todo[i])'
    <3>0. i = 1
      BY <2>3, <2>6
    <3>1. i = 1 /\ todo'[i] = Call(Here[Begun + 1].mod, Here[Begun + 1].vis, TRUE)
      BY <2>3, <3>0
    <3>2. \A c : c = todo'[i] => Rightly(c)'
      BY <2>5, <3>1
    <3> QED
      BY <3>2 DEF Rightly
  <2> QED
    BY <2>3, <2>6
<1>2. CASE SkipUse \/ AvoidRecursion \/ Leave
  <2>1. /\ Len(todo) \in Nat \ {0} /\ todo' \in Seq(Calls) /\ Len(todo') = Len(todo) - 1
        /\ \A i \in 1..Len(todo') : todo'[i] = todo[i + 1]
    BY <1>2, TailWalks
  <2>2. ASSUME NEW i \in 1..Len(todo'), ~todo'[i].return PROVE Rightly(todo[i])'
    <3>1. i + 1 \in 1..Len(todo) /\ todo'[i] = todo[i + 1]
      BY <2>1
    <3>2. Rightly(todo[i + 1])
      BY <1>0, <2>2, <3>1
    <3>3. ASSUME NEW c, c = todo[i + 1] PROVE Rightly(c)'
      BY <1>0, <3>2, <3>3, RightlyStays
    <3> QED
      BY <3>1, <3>3 DEF Rightly
  <2> QED
    BY <2>1, <2>2
<1>3. CASE Submod
  <2> DEFINE f == Followed(Src)
  <2>1. /\ Len(todo) \in Nat \ {0}
        /\ todo[1] \in Calls /\ ~todo[1].return /\ Src = todo[1].mod /\ Src \in Mods
        /\ f \in Seq(Glob) /\ Len(f) \in Nat /\ (f # << >> => f = crate.globs[Src])
        /\ todo' \in Seq(Calls) /\ Len(todo') = Len(f) + Len(todo)
        /\ \A i \in 1..Len(f) :
              todo'[i] = Call(f[i].mod, todo[1].vis, Visible(f[i].vis, Dst))
        /\ todo'[Len(f) + 1] = Return(Src)
        /\ \A i \in 2..Len(todo) : todo'[Len(f) + i] = todo[i]
    BY <1>3, SubmodWalks
  <2> HIDE DEF f
  <2>2. PICK g \in ToSet(Here) : todo[1].vis = g.vis /\ Src \in Following(crate, g.mod)
    BY <1>0, <2>1 DEF Rightly
  <2>3. ASSUME NEW i \in 1..Len(f) PROVE Rightly(todo'[i])
    <3>1. f[i] \in ToSet(crate.globs[Src]) /\ crate \in Crates /\ g.mod \in Mods
      <4>1. f = crate.globs[Src]
        BY <2>1, <2>3
      <4>3. ToSet(crate.globs[Src]) = {crate.globs[Src][k] : k \in 1..Len(crate.globs[Src])}
        BY <2>1, HereFacts, CrateFacts
      <4>2. f[i] \in ToSet(crate.globs[Src])
        BY <2>3, <4>1, <4>3
      <4> QED
        BY <4>2, HereFacts DEF Glob
    <3>2. f[i].mod \in Following(crate, g.mod)
      BY <2>2, <3>1, FollowingFacts
    <3>3. todo'[i].vis = todo[1].vis /\ todo'[i].mod = f[i].mod
      <4>1. todo'[i] = Call(f[i].mod, todo[1].vis, Visible(f[i].vis, Dst))
        BY <2>1, <2>3
      <4> QED
        BY <4>1 DEF Call
    <3> QED
      BY <2>2, <3>2, <3>3 DEF Rightly
  <2>4. ASSUME NEW i \in 1..Len(todo'), ~todo'[i].return PROVE Rightly(todo[i])'
    <3>1. Rightly(todo'[i])
      <4>1. CASE i \in 1..Len(f)
        BY <2>3, <4>1
      <4>2. CASE i = Len(f) + 1
        BY <2>1, <2>4, <4>2 DEF Return
      <4>3. CASE i - Len(f) \in 2..Len(todo)
        <5>1. todo'[i] = todo[i - Len(f)] /\ i - Len(f) \in 1..Len(todo)
          <6>1. Len(f) + (i - Len(f)) = i
            BY <2>1
          <6> QED
            BY <2>1, <4>3, <6>1
        <5> QED
          BY <1>0, <2>4, <5>1
      <4> QED
        BY <2>1, <4>1, <4>2, <4>3
    <3>2. ASSUME NEW c, c = todo'[i] PROVE Rightly(c)'
      BY <1>0, <3>1, <3>2, RightlyStays
    <3> QED
      BY <3>2 DEF Rightly
  <2> QED
    BY <2>1, <2>4
<1>4. CASE UNCHANGED vars
  <2>1. todo' = todo
    BY <1>4 DEF vars
  <2>2. ASSUME NEW c, Rightly(c) PROVE Rightly(c)'
    BY <1>0, <2>2, RightlyStays
  <2>3. ASSUME NEW i \in 1..Len(todo), ~todo[i].return PROVE Rightly(todo[i])'
    <3>1. \A c : c = todo[i] => Rightly(c)'
      BY <1>0, <2>2, <2>3
    <3> QED
      BY <2>1, <3>1 DEF Rightly
  <2> QED
    BY <1>0, <2>1, <2>3
<1> QED
  BY <1>1, <1>2, <1>3, <1>4 DEF Next

\* The globs that are not begun are the last ones, when the module stays.
LEMMA UsesNext ==
  ASSUME IndexInv, WalkInv, [Next]_vars, ~Base, ~EndModule
  PROVE  /\ uses' \in Seq(Glob)
         /\ phase' = phase
         /\ phase' = "glob" =>
              Len(uses') <= Len(Here') /\ \A k \in 1..Len(uses') : uses'[k] = Here'[Begun' + k]
<1>0. crate' = crate /\ at' = at /\ phase' = phase
  BY DEF Next, UseStmt, SkipUse, AvoidRecursion, Submod, Leave, vars
<1>1. Here' = Here /\ Len(Here) \in Nat /\ uses \in Seq(Glob) /\ Len(uses) \in Nat
  BY <1>0, HereFacts DEF Here, Dst, WalkInv
<1>2. CASE UseStmt
  <2>1. /\ uses' \in Seq(Glob) /\ Len(uses') = Len(uses) - 1 /\ phase = "glob"
        /\ \A k \in 1..Len(uses') : uses'[k] = uses[k + 1]
        /\ Begun' = Begun + 1
    BY <1>2, UseStmtWalks
  <2>2. /\ Len(uses) <= Len(Here)
        /\ \A k \in 1..Len(uses) : uses[k] = Here[Begun + k]
    BY <2>1 DEF WalkInv
  <2>3. ASSUME NEW k \in 1..Len(uses') PROVE uses'[k] = Here'[Begun' + k]
    <3>1. k + 1 \in 1..Len(uses) /\ Begun + (k + 1) = Begun' + k
      BY <1>1, <2>1, <2>3 DEF Begun
    <3> QED
      BY <1>1, <2>1, <2>2, <2>3, <3>1
  <2> QED
    BY <1>0, <1>1, <2>1, <2>2, <2>3
<1>3. CASE ~UseStmt
  <2>1. uses' = uses
    BY <1>3 DEF Next, UseStmt, SkipUse, AvoidRecursion, Submod, Leave, vars
  <2> QED
    BY <1>0, <1>1, <2>1 DEF WalkInv, Begun
<1> QED
  BY <1>2, <1>3

\* The traversal goes as it should.
LEMMA WalkInvNext == IndexInv /\ WalkInv /\ [Next]_vars => WalkInv'
<1> SUFFICES ASSUME IndexInv, WalkInv, [Next]_vars PROVE WalkInv'
  OBVIOUS
<1>1. /\ DOMAIN populated' = Mods
      /\ phase' = "base" => \A k \in 1..Len(Preorder) : k < at' => MarkedRightly(k)'
      /\ phase' = "glob" => \A k \in 1..Len(Preorder) : k >= at' => MarkedRightly(k)'
  BY MarksNext
<1>2. CASE Base \/ EndModule
  <2>1. /\ uses' \in Seq(Glob) /\ todo' = << >>
        /\ phase' # "glob" => uses' = << >>
        /\ phase' = "glob" => uses' = Here' /\ Len(uses') \in Nat
    BY <1>2, BeginsRightly
  <2>2. todo' \in Seq(Calls) /\ Len(todo') = 0
    BY <2>1
  <2>3. ASSUME phase' = "glob"
        PROVE  /\ Len(uses') <= Len(Here')
               /\ \A k \in 1..Len(uses') : uses'[k] = Here'[Begun' + k]
               /\ \A i \in 1..Len(todo') : ~todo'[i].return => Rightly(todo[i])'
    <3>1. Begun' = 0
      BY <2>1, <2>3 DEF Begun
    <3> QED
      BY <2>1, <2>2, <2>3, <3>1
  <2> QED
    BY <1>1, <2>1, <2>2, <2>3 DEF WalkInv
<1>3. CASE ~Base /\ ~EndModule
  <2>1. /\ uses' \in Seq(Glob) /\ phase' = phase
        /\ phase' = "glob" =>
             Len(uses') <= Len(Here') /\ \A k \in 1..Len(uses') : uses'[k] = Here'[Begun' + k]
    BY <1>3, UsesNext
  <2>2. CASE phase' = "glob"
    <3>1. /\ todo' \in Seq(Calls)
          /\ \A i \in 1..Len(todo') : ~todo'[i].return => Rightly(todo[i])'
      BY <1>3, <2>2, CallsNext
    <3> QED
      BY <1>1, <2>1, <2>2, <3>1 DEF WalkInv
  <2>3. CASE phase' # "glob"
    <3>1. uses' = << >> /\ todo' = << >>
      <4>1. uses = << >> /\ todo = << >> /\ UNCHANGED vars
        BY <1>3, <2>1, <2>3 DEF WalkInv, Next, UseStmt, SkipUse, AvoidRecursion, Submod, Leave, Starting
      <4> QED
        BY <4>1 DEF vars
    <3>2. todo' \in Seq(Calls)
      BY <3>1
    <3> QED
      BY <1>1, <2>1, <2>3, <3>1, <3>2 DEF WalkInv
  <2> QED
    BY <2>2, <2>3
<1> QED
  BY <1>2, <1>3

\* A module that comes before another one is not within it.
LEMMA EarlierDoesNotSee ==
  ASSUME NEW j \in 1..Len(Preorder), NEW k \in 1..Len(Preorder), k < j
  PROVE  ~Visible(Preorder[j], Preorder[k])
<1>1. Preorder[j] # Global
  BY Positions, GlobalAssumption
<1>2. ~IsPrefix(Preorder[j], Preorder[k])
  BY Positions, PreorderAssumption
<1> QED
  BY <1>1, <1>2 DEF Visible

\* A module that is complete while its own globs are followed has none that
\* others may follow, so that a module before it sees nothing new in it.
THEOREM CompleteStays == Spec => CompleteIsFinal
<1> DEFINE Stays(k, m) ==
             phase = "glob" /\ populated[m] = 2 =>
               \A n \in DOMAIN index'[m] :
                 Visible(index'[m][n].vis, Preorder[k]) =>
                   n \in DOMAIN index[m] /\ Visible(index[m][n].vis, Preorder[k])
<1>1. ASSUME IndexInv, WalkInv, [Next]_vars,
             NEW k \in 1..at, NEW m \in Mods \ {Preorder[k]}
      PROVE  Stays(k, m)
  <2>0. at \in 1..Len(Preorder) /\ Dst \in Mods /\ k \in 1..Len(Preorder) /\ DOMAIN index = Mods
    BY <1>1, HereFacts, Positions DEF IndexInv
  <2>1. CASE ~Submod \/ m # Dst
    <3>1. phase = "glob" => index'[m] = index[m]
      BY <1>1, <2>1 DEF Next, Base, UseStmt, EndModule, SkipUse, AvoidRecursion, Submod, Leave, vars, IndexInv
    <3> QED
      BY <3>1
  <2>2. CASE Submod /\ m = Dst /\ populated[Dst] = 2
    <3>1. phase = "glob" /\ ~HasPubWildcard(Dst)
      BY <1>1, <2>0, <2>2, SubmodWalks DEF WalkInv, MarkedRightly, Dst
    <3>2. \A g \in ToSet(Here) : g.vis = Dst
      BY <1>1, <3>1, HereFacts DEF HasPubWildcard, Here
    <3>3. Head(todo).vis = Dst
      <4>1. Len(todo) \in Nat \ {0} /\ ~todo[1].return /\ todo \in Seq(Calls)
        BY <1>1, <2>2, SubmodWalks DEF WalkInv
      <4>2. Rightly(todo[1]) /\ Head(todo) = todo[1]
        BY <1>1, <3>1, <4>1 DEF WalkInv
      <4> QED
        BY <3>2, <4>2 DEF Rightly
    <3>4. ~Visible(Dst, Preorder[k])
      <4>1. k < at
        BY <1>1, <2>0, <2>2 DEF Dst
      <4> QED
        BY <2>0, <4>1, EarlierDoesNotSee DEF Dst
    <3>5. index'[Dst] = AddItems(index[Dst], Copied(Src, Dst))
      BY <2>0, <2>2, <3>3 DEF Submod
    <3>6. ASSUME NEW n \in DOMAIN index'[Dst], Visible(index'[Dst][n].vis, Preorder[k])
          PROVE  n \in DOMAIN index[Dst] /\ Visible(index[Dst][n].vis, Preorder[k])
      <4> DEFINE old == index[Dst]  new == Copied(Src, Dst)
      <4>1. \A j \in DOMAIN new : new[j].vis = Dst
        BY DEF Copied
      <4>2. IsIndex(old)
        BY <1>1, <2>0 DEF IndexInv
      <4> HIDE DEF old, new
      <4>3. n \in DOMAIN old \/ n \in DOMAIN new
        BY <3>5, <3>6 DEF AddItems, old, new
      <4>4. CASE n \notin DOMAIN old
        <5>1. index'[Dst][n] = new[n]
          BY <3>5, <4>3, <4>4 DEF AddItems, old, new
        <5> QED
          BY <3>4, <3>6, <4>1, <4>3, <4>4, <5>1
      <4>5. CASE n \in DOMAIN old
        <5>1. \/ index'[Dst][n] = old[n]
              \/ n \in DOMAIN new /\ index'[Dst][n] = [old[n] EXCEPT !.vis = Union(@, new[n].vis)]
          BY <3>5, <4>5 DEF AddItems, old, new
        <5>2. index'[Dst][n] = old[n] \/ index'[Dst][n].vis \in {old[n].vis, Dst}
          BY <4>1, <4>2, <4>5, <5>1 DEF IsIndex, Union
        <5> QED
          BY <3>4, <3>6, <4>5, <5>2 DEF old
      <4> QED
        BY <4>4, <4>5 DEF old
    <3> QED
      BY <2>2, <3>6
  <2> QED
    BY <2>1, <2>2
<1>2. IndexInv /\ WalkInv /\ [Next]_vars =>
        [\A k \in 1..at : \A m \in Mods \ {Preorder[k]} : Stays(k, m)]_vars
  <2> HIDE DEF Stays
  <2> QED
    BY <1>1
<1>3. Spec => [](IndexInv /\ WalkInv)
  BY IndexInvInit, IndexInvNext, WalkInvInit, WalkInvNext, PTL DEF Spec
<1> QED
  BY <1>2, <1>3, PTL DEF Spec, CompleteIsFinal

(***************************************************************************)
(* What is in the index has come there from where it was written.          *)
(***************************************************************************)
Written(c, m) == Own(c, m) \cup ByName(c, m)

\* What may come to a module is written in one that follows it.
LEMMA ComesFrom ==
  ASSUME NEW c \in Crates, NEW m \in Mods, NEW b \in Incoming(c, m)
  PROVE  \E s \in Following(c, m) : \E w \in Written(c, s) : w.name = b.name /\ w.path = b.path
<1>1. CASE b \in Own(c, m) \cup ByName(c, m)
  BY <1>1, FollowingFacts DEF Written
<1>2. CASE b \notin Own(c, m) \cup ByName(c, m)
  <2>1. PICK g \in ToSet(c.globs[m]) :
          b \in {Bound(w.name, w.path, Sees(g.vis)) :
                   w \in UNION {Own(c, s) \cup ByName(c, s) : s \in Following(c, g.mod)}}
    BY <1>2 DEF Incoming
  <2>2. PICK w \in UNION {Own(c, s) \cup ByName(c, s) : s \in Following(c, g.mod)} :
          b = Bound(w.name, w.path, Sees(g.vis))
    BY <2>1
  <2>3. PICK s \in Following(c, g.mod) : w \in Own(c, s) \cup ByName(c, s)
    BY <2>2
  <2>4. s \in Following(c, m)
    BY FollowingGlob
  <2> QED
    BY <2>2, <2>3, <2>4 DEF Written, Bound
<1> QED
  BY <1>1, <1>2

\* What is written in a module that follows one of m's globs may come to m.
LEMMA ComesTo ==
  ASSUME NEW c \in Crates, NEW m \in Mods, NEW g \in ToSet(c.globs[m]),
         NEW s \in Following(c, g.mod), NEW w \in Written(c, s)
  PROVE  Bound(w.name, w.path, Sees(g.vis)) \in Incoming(c, m)
<1>1. w \in UNION {Own(c, t) \cup ByName(c, t) : t \in Following(c, g.mod)}
  BY DEF Written
<1> QED
  BY <1>1 DEF Incoming

\* An entry that was added, or was there, has its item and visibility from
\* either side.
LEMMA AddItemsFrom ==
  ASSUME NEW list, NEW new, IsIndex(list), IsIndex(new), NEW n \in DOMAIN AddItems(list, new)
  PROVE  LET e == AddItems(list, new)[n]
         IN \/ n \in DOMAIN list /\ e.path = list[n].path /\ e.vis = list[n].vis
            \/ n \in DOMAIN new /\ e.path = new[n].path /\ e.vis = new[n].vis
<1> DEFINE e == AddItems(list, new)[n]
<1>1. n \in DOMAIN list \/ n \in DOMAIN new
  BY DEF AddItems
<1>2. CASE n \notin DOMAIN list
  BY <1>1, <1>2 DEF AddItems
<1>3. CASE n \in DOMAIN list
  <2>1. \/ e = list[n]
        \/ /\ n \in DOMAIN new /\ new[n].path = list[n].path
           /\ e = [list[n] EXCEPT !.vis = Union(@, new[n].vis)]
    BY <1>3 DEF AddItems
  <2>2. DOMAIN list[n] = {"path", "vis"}
    BY <1>3 DEF IsIndex
  <2>3. \A u, v : Union(u, v) = u \/ Union(u, v) = v
    BY DEF Union
  <2>4. CASE e = list[n]
    BY <1>3, <2>4
  <2>5. CASE e # list[n]
    <3> DEFINE u == Union(list[n].vis, new[n].vis)
    <3>1. e = [list[n] EXCEPT !.vis = u] /\ n \in DOMAIN new /\ new[n].path = list[n].path
      BY <2>1, <2>5
    <3>2. u = list[n].vis \/ u = new[n].vis
      BY <2>3
    <3> HIDE DEF u
    <3>3. e.path = list[n].path /\ e.vis = u
      BY <2>2, <3>1
    <3> QED
      BY <1>3, <3>1, <3>2, <3>3
  <2> QED
    BY <2>4, <2>5
<1> QED
  BY <1>2, <1>3

\* An entry of a module that may have come there.
MayCome(c, m, n, path, vis) ==
    \E b \in Incoming(c, m) : b.name = n /\ b.path = path /\ b.seen = Sees(vis)

SourceInv ==
    \A m \in Mods : \A n \in DOMAIN index[m] :
        MayCome(crate, m, n, index[m][n].path, index[m][n].vis)

\* What is copied for a call may come to the module at hand.
LEMMA CopiedMayCome ==
  ASSUME IndexInv, WalkInv, SourceInv, Submod, NEW n \in DOMAIN Copied(Src, Head(todo).vis)
  PROVE  MayCome(crate, Dst, n, Copied(Src, Head(todo).vis)[n].path,
                 Copied(Src, Head(todo).vis)[n].vis)
<1> DEFINE path == index[Src][n].path
<1>0. crate \in Crates /\ Dst \in Mods
  BY HereFacts
<1>1. Len(todo) \in Nat \ {0} /\ todo \in Seq(Calls) /\ ~todo[1].return /\ phase = "glob"
      /\ Src \in Mods /\ Src = todo[1].mod
  BY SubmodWalks DEF WalkInv
<1>2. Rightly(todo[1]) /\ Head(todo) = todo[1]
  BY <1>1 DEF WalkInv
<1>3. PICK g \in ToSet(Here) : Head(todo).vis = g.vis /\ Src \in Following(crate, g.mod)
  BY <1>1, <1>2 DEF Rightly
<1>4. /\ n \in DOMAIN index[Src]
      /\ Copied(Src, Head(todo).vis)[n].path = path
      /\ Copied(Src, Head(todo).vis)[n].vis = g.vis
  BY <1>3 DEF Copied
<1>5. PICK b \in Incoming(crate, Src) : b.name = n /\ b.path = path
  BY <1>1, <1>4 DEF SourceInv, MayCome
<1>6. PICK s \in Following(crate, Src) : \E w \in Written(crate, s) : w.name = n /\ w.path = path
  BY <1>0, <1>1, <1>5, ComesFrom
<1>7. PICK w \in Written(crate, s) : w.name = n /\ w.path = path
  BY <1>6
<1>8. s \in Following(crate, g.mod)
  <2>1. g.mod \in Mods
    BY <1>3, HereFacts DEF Glob
  <2>2. Following(crate, g.mod) \in SUBSET Mods
    BY <1>0, <2>1, FollowingFacts
  <2>3. \A k \in Following(crate, g.mod) : \A h \in ToSet(crate.globs[k]) :
           h.mod \in Following(crate, g.mod)
    BY <1>0, <2>1, FollowingFacts
  <2> QED
    BY <1>3, <2>2, <2>3, <1>6 DEF Following
<1>9. Bound(n, path, Sees(g.vis)) \in Incoming(crate, Dst)
  BY <1>0, <1>3, <1>7, <1>8, ComesTo DEF Here
<1> HIDE DEF path
<1>10. LET b2 == Bound(n, path, Sees(g.vis))
       IN b2.name = n /\ b2.path = path /\ b2.seen = Sees(g.vis)
  BY DEF Bound
<1> QED
  BY <1>4, <1>9, <1>10 DEF MayCome

\* What is written in a module may come to it.
LEMMA WrittenMayCome ==
  ASSUME NEW c, NEW m
  PROVE  /\ \A n \in DOMAIN c.decls[m] : MayCome(c, m, n, c.decls[m][n].path, c.decls[m][n].vis)
         /\ \A n \in DOMAIN c.named[m] : MayCome(c, m, n, c.named[m][n].path, c.named[m][n].vis)
<1>1. ASSUME NEW n, NEW p, NEW v, Bound(n, p, Sees(v)) \in Incoming(c, m)
      PROVE  MayCome(c, m, n, p, v)
  BY <1>1 DEF MayCome, Bound
<1>2. \A n \in DOMAIN c.decls[m] :
        Bound(n, c.decls[m][n].path, Sees(c.decls[m][n].vis)) \in Incoming(c, m)
  BY DEF Incoming, Own
<1>3. \A n \in DOMAIN c.named[m] :
        Bound(n, c.named[m][n].path, Sees(c.named[m][n].vis)) \in Incoming(c, m)
  BY DEF Incoming, ByName
<1> QED
  BY <1>1, <1>2, <1>3

\* Entries have come from where they were written, in every step.
LEMMA SourceInvNext == IndexInv /\ WalkInv /\ SourceInv /\ [Next]_vars => SourceInv'
<1> SUFFICES ASSUME IndexInv, WalkInv, SourceInv, [Next]_vars PROVE SourceInv'
  OBVIOUS
<1>4. crate' = crate
  BY StepTraverses DEF Traversed
<1> SUFFICES ASSUME NEW m \in Mods, NEW n \in DOMAIN index'[m]
             PROVE  MayCome(crate, m, n, index'[m][n].path, index'[m][n].vis)
  BY <1>4 DEF SourceInv
<1>0. crate \in Crates /\ Dst \in Mods /\ DOMAIN index = Mods /\ IsIndex(index[Dst])
  BY HereFacts DEF IndexInv
<1>1. CASE Base /\ m = Dst
  <2>1. index'[m] = AddItems(crate.decls[m], crate.named[m])
    BY <1>0, <1>1 DEF Base
  <2>2. IsIndex(crate.decls[m]) /\ IsIndex(crate.named[m])
    BY <1>0, CratesAssumption DEF IsIndex
  <2> QED
    BY <2>1, <2>2, AddItemsFrom, WrittenMayCome
<1>2. CASE Submod /\ m = Dst
  <2> DEFINE new == Copied(Src, Head(todo).vis)
  <2>1. index'[m] = AddItems(index[m], new)
    BY <1>0, <1>2 DEF Submod
  <2>2. IsIndex(new)
    BY CopiedIsIndex
  <2>3. \A k \in DOMAIN new : MayCome(crate, m, k, new[k].path, new[k].vis)
    BY <1>2, CopiedMayCome
  <2> HIDE DEF new
  <2> QED
    BY <1>0, <1>2, <2>1, <2>2, <2>3, AddItemsFrom DEF SourceInv
<1>3. CASE ~(Base /\ m = Dst) /\ ~(Submod /\ m = Dst)
  <2>1. index'[m] = index[m]
    BY <1>0, <1>3 DEF Next, Base, UseStmt, EndModule, SkipUse, AvoidRecursion, Submod, Leave, vars
  <2> QED
    BY <2>1 DEF SourceInv
<1> QED
  BY <1>1, <1>2, <1>3

(***************************************************************************)
(* Following globs from a module: the modules that lead to one that shows  *)
(* a name, through modules whose globs are followed (open), and not        *)
(* through those of A.                                                     *)
(***************************************************************************)
Leads(c, d, shows, open, G, s) ==
    \/ s \in shows
    \/ s \in open /\ \E g \in ToSet(c.globs[s]) : Visible(g.vis, d) /\ g.mod \in G

Finds(c, d, shows, open, A) ==
    {s \in Mods : \A G \in SUBSET Mods :
        (\A t \in Mods \ A : Leads(c, d, shows, open, G, t) => t \in G) => s \in G}

\* Modules outside A that lead to those that do, do.
LEMMA FindsMore ==
  ASSUME NEW c, NEW d, NEW shows, NEW open, NEW A, NEW t \in Mods \ A,
         Leads(c, d, shows, open, Finds(c, d, shows, open, A), t)
  PROVE  t \in Finds(c, d, shows, open, A)
<1> DEFINE F == Finds(c, d, shows, open, A)
<1>1. ASSUME NEW G \in SUBSET Mods,
             \A s \in Mods \ A : Leads(c, d, shows, open, G, s) => s \in G
      PROVE  t \in G
  <2>1. F \subseteq G
    BY <1>1 DEF Finds
  <2> HIDE DEF F
  <2>2. Leads(c, d, shows, open, F, t)
    BY DEF F
  <2>3. Leads(c, d, shows, open, G, t)
    BY <2>1, <2>2 DEF Leads
  <2> QED
    BY <1>1, <2>3
<1> QED
  BY <1>1 DEF Finds

\* None of A does.
LEMMA FindsOutside ==
  ASSUME NEW c, NEW d, NEW shows, NEW open, NEW A
  PROVE  Finds(c, d, shows, open, A) \subseteq Mods \ A
<1>1. Mods \ A \in SUBSET Mods
  OBVIOUS
<1> QED
  BY <1>1 DEF Finds

\* With fewer modules to avoid, more lead there.
LEMMA FindsWithFewer ==
  ASSUME NEW c, NEW d, NEW shows, NEW open, NEW A, NEW B, A \subseteq B
  PROVE  Finds(c, d, shows, open, B) \subseteq Finds(c, d, shows, open, A)
<1> DEFINE F == Finds(c, d, shows, open, A)
<1>1. F \in SUBSET Mods
  BY DEF Finds
<1>2. \A t \in Mods \ B : Leads(c, d, shows, open, F, t) => t \in F
  <2>1. \A t \in Mods \ B : t \in Mods \ A
    OBVIOUS
  <2> QED
    BY <2>1, FindsMore
<1> HIDE DEF F
<1>3. Finds(c, d, shows, open, B) \subseteq F
  BY <1>1, <1>2 DEF Finds
<1> QED
  BY <1>3 DEF F

\* A module that does not show the name itself leads on by one of its globs, on
\* a way that does not come back to it.
LEMMA FindsOn ==
  ASSUME NEW c, NEW d, NEW shows, NEW open, NEW A, NEW x \in Finds(c, d, shows, open, A),
         x \notin shows
  PROVE  /\ x \in open
         /\ \E g \in ToSet(c.globs[x]) :
              Visible(g.vis, d) /\ g.mod \in Finds(c, d, shows, open, A \cup {x})
<1> DEFINE F == Finds(c, d, shows, open, A \cup {x})
<1>1. F \subseteq Mods /\ x \notin F
  BY FindsOutside
<1>2. \A t \in Mods \ (A \cup {x}) : Leads(c, d, shows, open, F, t) => t \in F
  BY FindsMore
<1> HIDE DEF F
<1> SUFFICES ASSUME ~(x \in open /\ \E g \in ToSet(c.globs[x]) : Visible(g.vis, d) /\ g.mod \in F)
             PROVE  FALSE
  BY DEF F
<1>3. ~Leads(c, d, shows, open, F, x)
  BY DEF Leads
<1>4. \A t \in Mods \ A : Leads(c, d, shows, open, F, t) => t \in F
  BY <1>2, <1>3
<1>5. x \in F
  BY <1>1, <1>4 DEF Finds
<1> QED
  BY <1>1, <1>5

(***************************************************************************)
(* What the globs that are begun lead to is there, or a call leads to it   *)
(* by a way that avoids the modules whose calls have not returned by then. *)
(***************************************************************************)
Shows(n) == {s \in Mods : n \in DOMAIN index[s] /\ Visible(index[s][n].vis, Dst)}
Open == {s \in Mods : populated[s] # 2}
FindsNow(n, A) == Finds(crate, Dst, Shows(n), Open, A)

StackAt(i) == stack \ {todo[j].mod : j \in {k \in 1..(i - 1) : todo[k].return}}
Pending(n) ==
    \E i \in 1..Len(todo) :
        ~todo[i].return /\ todo[i].seen /\ todo[i].mod \in FindsNow(n, StackAt(i))

FollowInv ==
    /\ stack \subseteq {todo[j].mod : j \in {k \in 1..Len(todo) : todo[k].return}}
    /\ phase = "glob" =>
         \A k \in 1..Begun : \A n :
           n \in DOMAIN index[Dst] \/ Here[k].mod \notin FindsNow(n, {}) \/ Pending(n)
\* As long as a name is not there, other modules lead to it as before.
LEMMA LeadsAsBefore ==
  ASSUME IndexInv, WalkInv, [Next]_vars, phase = "glob", ~EndModule
  PROVE  /\ crate' = crate /\ Dst' = Dst /\ Here' = Here /\ Open' = Open /\ phase' = "glob"
         /\ \A n : n \notin DOMAIN index'[Dst] =>
              n \notin DOMAIN index[Dst] /\ Shows(n)' = Shows(n)
<1>1. crate' = crate /\ at' = at /\ populated' = populated /\ phase' = "glob"
  BY DEF Next, Base, UseStmt, SkipUse, AvoidRecursion, Submod, Leave, vars
<1>2. Dst' = Dst /\ Here' = Here /\ Open' = Open /\ Dst \in Mods
  BY <1>1, HereFacts DEF Dst, Here, Open
<1>3. ASSUME NEW n, n \notin DOMAIN index'[Dst]
      PROVE  n \notin DOMAIN index[Dst] /\ Shows(n)' = Shows(n)
  <2>1. n \notin DOMAIN index[Dst]
    BY <1>2, <1>3, StepKeeps DEF Keeps
  <2>2. \A s \in Mods : s # Dst => index'[s] = index[s]
    BY StepGrows DEF GrowsAt, IndexInv
  <2> QED
    BY <1>2, <1>3, <2>1, <2>2 DEF Shows
<1> QED
  BY <1>1, <1>2, <1>3

\* The modules whose calls have not returned are those whose returns are to be done.
LEMMA StackNext ==
  ASSUME IndexInv, WalkInv, FollowInv, [Next]_vars
  PROVE  stack' \subseteq {todo'[j].mod : j \in {k \in 1..Len(todo') : todo'[k].return}}
<1> DEFINE R(t) == {t[j].mod : j \in {k \in 1..Len(t) : t[k].return}}
<1>0. stack \subseteq R(todo)
  BY DEF FollowInv
<1>1. CASE todo = << >>
  <2>1. stack = {}
    BY <1>0, <1>1
  <2>2. stack' = {}
    BY <1>1, <2>1 DEF Next, Base, UseStmt, EndModule, SkipUse, AvoidRecursion, Submod, Leave, Starting, vars
  <2> QED
    BY <2>2
<1>2. CASE Submod
  <2> DEFINE f == Followed(Src)
  <2>1. /\ Len(todo) \in Nat \ {0} /\ ~todo[1].return /\ Len(f) \in Nat
        /\ Len(todo') = Len(f) + Len(todo)
        /\ todo'[Len(f) + 1] = Return(Src)
        /\ \A i \in 2..Len(todo) : todo'[Len(f) + i] = todo[i]
    BY <1>2, SubmodWalks
  <2>2. stack' = stack \cup {Src}
    BY <1>2 DEF Submod
  <2> HIDE DEF f
  <2>3. Src \in R(todo')
    BY <2>1 DEF Return
  <2>4. ASSUME NEW x \in stack PROVE x \in R(todo')
    <3>1. PICK j \in 1..Len(todo) : todo[j].return /\ x = todo[j].mod
      BY <1>0
    <3>2. j \in 2..Len(todo)
      BY <2>1, <3>1
    <3>3. Len(f) + j \in 1..Len(todo') /\ todo'[Len(f) + j] = todo[j]
      BY <2>1, <3>2
    <3> QED
      BY <3>1, <3>3
  <2> QED
    BY <2>2, <2>3, <2>4
<1>3. CASE SkipUse \/ AvoidRecursion \/ Leave
  <2>1. /\ Len(todo) \in Nat \ {0} /\ Len(todo') = Len(todo) - 1 /\ Src = todo[1].mod
        /\ \A i \in 1..Len(todo') : todo'[i] = todo[i + 1]
    BY <1>3, TailWalks
  <2>2. stack' \subseteq stack /\ (todo[1].return => Src \notin stack')
    <3>1. Head(todo) = todo[1]
      BY <2>1 DEF WalkInv
    <3> QED
      BY <1>3, <3>1 DEF SkipUse, AvoidRecursion, Leave, Starting
  <2>3. ASSUME NEW x \in stack' PROVE x \in R(todo')
    <3>1. PICK j \in 1..Len(todo) : todo[j].return /\ x = todo[j].mod
      BY <1>0, <2>2
    <3>2. j # 1
      BY <2>1, <2>2, <3>1
    <3>3. j - 1 \in 1..Len(todo') /\ todo'[j - 1] = todo[j]
      BY <2>1, <3>2
    <3> QED
      BY <3>1, <3>3
  <2> QED
    BY <2>3
<1>4. CASE UNCHANGED vars
  BY <1>0, <1>4 DEF vars
<1>5. CASE Base \/ UseStmt \/ EndModule
  BY <1>1, <1>5 DEF Base, UseStmt, EndModule, WalkInv
<1> QED
  BY <1>1, <1>2, <1>3, <1>4, <1>5 DEF Next

\* A call among those to be done next leads to a name if it did before, by a way
\* that avoids what will not have returned by then.
LEMMA PendingBy ==
  ASSUME IndexInv, WalkInv, [Next]_vars, phase = "glob", ~EndModule,
         NEW n, n \notin DOMAIN index'[Dst],
         NEW i \in 1..Len(todo'), ~todo'[i].return, todo'[i].seen,
         NEW A, todo'[i].mod \in FindsNow(n, A),
         \A x \in stack' : x \in A \/ \E j \in 1..(i - 1) : todo'[j].return /\ x = todo'[j].mod
  PROVE  Pending(n)'
<1> DEFINE B == stack' \ {todo'[j].mod : j \in {k \in 1..(i - 1) : todo'[k].return}}
<1>1. B \subseteq A'
  <2>1. \A x \in B : x \in A
    OBVIOUS
  <2> QED
    BY <2>1
<1>2. FindsNow(n, A) = Finds(crate', Dst', Shows(n)', Open', A)
  BY LeadsAsBefore DEF FindsNow
<1> HIDE DEF B
<1>3. todo'[i].mod \in Finds(crate', Dst', Shows(n)', Open', B)
  BY <1>1, <1>2, FindsWithFewer
<1> QED
  BY <1>3 DEF Pending, FindsNow, StackAt, B

\* A call that leads to a name is done, and then the name is there, or one of
\* those that take its place leads there.
LEMMA PendingNext ==
  ASSUME IndexInv, WalkInv, [Next]_vars, phase = "glob", ~EndModule,
         NEW n, n \notin DOMAIN index'[Dst], Pending(n)
  PROVE  Pending(n)'
<1>1. PICK i \in 1..Len(todo) :
        ~todo[i].return /\ todo[i].seen /\ todo[i].mod \in FindsNow(n, StackAt(i))
  BY DEF Pending
<1>2. todo \in Seq(Calls) /\ Len(todo) \in Nat \ {0} /\ i \in Nat \ {0}
  BY <1>1 DEF WalkInv
<1>3. Head(todo) = todo[1] /\ Src = todo[1].mod
  BY <1>2 DEF Src
<1>4. todo[i].mod \in Mods /\ todo[i].mod \notin StackAt(i)
  BY <1>1, FindsOutside DEF FindsNow
<1>5. CASE SkipUse \/ AvoidRecursion \/ Leave
  <2>1. /\ Len(todo') = Len(todo) - 1
        /\ \A j \in 1..Len(todo') : todo'[j] = todo[j + 1]
    BY <1>5, TailWalks
  <2>2. i # 1
    <3>1. CASE i = 1
      <4>1. StackAt(i) = stack
        BY <1>2, <3>1 DEF StackAt
      <4> QED
        BY <1>1, <1>3, <1>4, <1>5, <3>1, <4>1 DEF SkipUse, AvoidRecursion, Leave
    <3> QED
      BY <3>1
  <2>3. i - 1 \in 1..Len(todo') /\ todo'[i - 1] = todo[i]
    BY <1>2, <2>1, <2>2
  <2>4. ASSUME NEW x \in stack', x \notin StackAt(i)
        PROVE  \E j \in 1..((i - 1) - 1) : todo'[j].return /\ x = todo'[j].mod
    <3>1. x \in stack /\ (todo[1].return => x # Src)
      BY <1>3, <1>5 DEF SkipUse, AvoidRecursion, Leave, Starting
    <3>2. PICK j \in 1..(i - 1) : todo[j].return /\ x = todo[j].mod
      BY <2>4, <3>1 DEF StackAt
    <3>3. j # 1
      BY <1>3, <3>1, <3>2
    <3>4. j - 1 \in 1..((i - 1) - 1) /\ j - 1 \in 1..Len(todo') /\ todo'[j - 1] = todo[j]
      BY <1>2, <2>1, <3>2, <3>3
    <3> QED
      BY <3>2, <3>4
  <2> QED
    BY <1>1, <2>3, <2>4, PendingBy
<1>6. CASE Submod
  <2> DEFINE f == Followed(Src)
  <2>1. /\ ~todo[1].return /\ Len(f) \in Nat /\ Src \in Mods
        /\ Len(todo') = Len(f) + Len(todo)
        /\ populated[Src] # 2 => f = crate.globs[Src]
        /\ \A j \in 1..Len(f) : todo'[j] = Call(f[j].mod, todo[1].vis, Visible(f[j].vis, Dst))
        /\ todo'[Len(f) + 1] = Return(Src)
        /\ \A j \in 2..Len(todo) : todo'[Len(f) + j] = todo[j]
    BY <1>6, SubmodWalks
  <2>2. stack' = stack \cup {Src} /\ Src \notin stack
    BY <1>6 DEF Submod
  <2> HIDE DEF f
  <2>3. CASE i # 1
    <3>1. i \in 2..Len(todo)
      BY <1>2, <1>1, <2>3
    <3>2. Len(f) + i \in 1..Len(todo') /\ todo'[Len(f) + i] = todo[i]
      BY <2>1, <3>1
    <3>3. ASSUME NEW x \in stack', x \notin StackAt(i)
          PROVE  \E j \in 1..((Len(f) + i) - 1) : todo'[j].return /\ x = todo'[j].mod
      <4>1. CASE x = Src
        <5>1. Len(f) + 1 \in 1..((Len(f) + i) - 1)
          BY <2>1, <3>1
        <5> QED
          BY <2>1, <4>1, <5>1 DEF Return
      <4>2. CASE x # Src
        <5>1. PICK j \in 1..(i - 1) : todo[j].return /\ x = todo[j].mod
          BY <2>2, <3>3, <4>2 DEF StackAt
        <5>2. j \in 2..Len(todo) /\ Len(f) + j \in 1..((Len(f) + i) - 1)
          BY <2>1, <3>1, <5>1
        <5>3. todo'[Len(f) + j] = todo[j]
          BY <2>1, <5>2
        <5> QED
          BY <5>1, <5>2, <5>3
      <4> QED
        BY <4>1, <4>2
    <3> QED
      BY <1>1, <3>2, <3>3, PendingBy
  <2>4. CASE i = 1
    <3>1. StackAt(i) = stack
      BY <1>2, <2>4 DEF StackAt
    <3>2. Src \in Finds(crate, Dst, Shows(n), Open, stack)
      BY <1>1, <1>3, <2>4, <3>1 DEF FindsNow
    <3>3. Src \notin Shows(n)
      <4>1. Dst \in DOMAIN index
        BY HereFacts DEF IndexInv
      <4>2. DOMAIN Copied(Src, Head(todo).vis) \subseteq DOMAIN index'[Dst]
        BY <1>6, <4>1 DEF Submod, AddItems
      <4> QED
        BY <4>2 DEF Shows, Copied
    <3>4. PICK g \in ToSet(crate.globs[Src]) :
            Visible(g.vis, Dst) /\ g.mod \in Finds(crate, Dst, Shows(n), Open, stack \cup {Src})
      BY <3>2, <3>3, FindsOn
    <3>5. Src \in Open
      BY <3>2, <3>3, FindsOn
    <3>6. f = crate.globs[Src]
      BY <2>1, <3>5 DEF Open
    <3>7. PICK j \in 1..Len(f) : f[j] = g
      <4>1. ToSet(crate.globs[Src]) = {crate.globs[Src][k] : k \in 1..Len(crate.globs[Src])}
        BY <2>1, HereFacts, CrateFacts
      <4> QED
        BY <3>6, <4>1
    <3>8. j \in 1..Len(todo') /\ todo'[j] = Call(g.mod, todo[1].vis, Visible(g.vis, Dst))
      BY <1>2, <2>1, <3>7
    <3>9. ~todo'[j].return /\ todo'[j].seen /\ todo'[j].mod = g.mod
      BY <3>4, <3>8 DEF Call
    <3>10. todo'[j].mod \in FindsNow(n, stack \cup {Src})
      BY <3>4, <3>9 DEF FindsNow
    <3>11. \A x \in stack' : x \in stack \cup {Src}
      BY <2>2
    <3> QED
      BY <3>8, <3>9, <3>10, <3>11, PendingBy
  <2> QED
    BY <2>3, <2>4
<1>7. CASE UNCHANGED vars
  <2>1. \A x \in stack' : x \in StackAt(i) \/ \E j \in 1..(i - 1) : todo'[j].return /\ x = todo'[j].mod
    BY <1>7 DEF StackAt, vars
  <2>2. todo' = todo
    BY <1>7 DEF vars
  <2> QED
    BY <1>1, <2>1, <2>2, PendingBy
<1>8. CASE Base \/ UseStmt
  BY <1>2, <1>8 DEF Base, UseStmt
<1> QED
  BY <1>5, <1>6, <1>7, <1>8 DEF Next

\* The invariant of following is preserved.
LEMMA FollowInvNext == IndexInv /\ WalkInv /\ FollowInv /\ [Next]_vars => FollowInv'
<1> SUFFICES ASSUME IndexInv, WalkInv, FollowInv, [Next]_vars PROVE FollowInv'
  OBVIOUS
<1>1. stack' \subseteq {todo'[j].mod : j \in {k \in 1..Len(todo') : todo'[k].return}}
  BY StackNext
<1> SUFFICES ASSUME phase' = "glob", NEW k \in 1..Begun', NEW n,
                    n \notin DOMAIN index'[Dst'], Here'[k].mod \in FindsNow(n, {})'
             PROVE  Pending(n)'
  BY <1>1 DEF FollowInv
<1>2. CASE Base \/ EndModule
  <2>1. uses' = Here' /\ Len(uses') \in Nat
    BY <1>2, BeginsRightly
  <2> QED
    BY <2>1 DEF Begun
<1>3. CASE ~Base /\ ~EndModule
  <2>1. phase = "glob"
    BY <1>3, UsesNext
  <2>2. /\ crate' = crate /\ Dst' = Dst /\ Here' = Here /\ Open' = Open
        /\ n \notin DOMAIN index'[Dst]
        /\ n \notin DOMAIN index[Dst] /\ Shows(n)' = Shows(n)
    BY <1>3, <2>1, LeadsAsBefore
  <2>3. Here[k].mod \in FindsNow(n, {})
    BY <2>2 DEF FindsNow
  <2>4. CASE UseStmt
    <3>1. /\ todo = << >> /\ Begun' = Begun + 1 /\ Begun + 1 \in 1..Len(Here)
          /\ todo' \in Seq(Calls) /\ Len(todo') = 1
          /\ todo'[1] = Call(Here[Begun + 1].mod, Here[Begun + 1].vis, TRUE)
      BY <2>4, UseStmtWalks
    <3>2. stack' = {}
      BY <2>4, <3>1 DEF UseStmt, FollowInv
    <3>3. k = Begun + 1
      <4>1. ~Pending(n)
        BY <3>1 DEF Pending
      <4>2. k \notin 1..Begun
        BY <2>1, <2>2, <2>3, <4>1 DEF FollowInv
      <4>3. Begun \in Int
        BY <3>1, HereFacts DEF WalkInv, Begun
      <4> QED
        BY <3>1, <4>2, <4>3
    <3>4. /\ ~todo'[1].return /\ todo'[1].seen /\ todo'[1].mod = Here[k].mod
          /\ 1 \in 1..Len(todo')
      BY <3>1, <3>3 DEF Call
    <3>5. todo'[1].mod \in FindsNow(n, {})
      BY <2>3, <3>4
    <3> QED
      BY <1>3, <2>1, <2>2, <3>2, <3>4, <3>5, PendingBy
  <2>5. CASE ~UseStmt
    <3>1. Begun' = Begun
      BY <1>3, <2>2, <2>5 DEF Begun, Next, SkipUse, AvoidRecursion, Submod, Leave, vars
    <3>2. Pending(n)
      BY <2>1, <2>2, <2>3, <3>1 DEF FollowInv
    <3> QED
      BY <1>3, <2>1, <2>2, <3>2, PendingNext
  <2> QED
    BY <2>4, <2>5
<1> QED
  BY <1>2, <1>3

(***************************************************************************)
(* After the first pass a module has what it binds itself.                 *)
(***************************************************************************)
Binds(c, m, list) ==
    \A b \in Explicit(c, m) : b.name \in DOMAIN list /\ list[b.name].path = b.path

OwnInv == \A k \in 1..Len(Preorder) : Visited(k) => Binds(crate, Preorder[k], index[Preorder[k]])

\* What is bound is kept.
LEMMA BindsKept ==
  ASSUME NEW c, NEW m, NEW a, NEW b, Binds(c, m, a), Keeps(a, b) PROVE Binds(c, m, b)
  BY DEF Binds, Keeps

\* The first pass binds declarations, and names that are only imported.
LEMMA BaseBinds ==
  ASSUME NEW c \in Crates, NEW m \in Mods
  PROVE  Binds(c, m, AddItems(c.decls[m], c.named[m]))
<1> DEFINE all == AddItems(c.decls[m], c.named[m])
<1>1. IsIndex(c.decls[m]) /\ IsIndex(c.named[m])
  BY CratesAssumption DEF IsIndex
<1>2. Keeps(c.decls[m], all)
  BY <1>1, AddItemsKeeps
<1>3. \A n \in DOMAIN c.named[m] \ DOMAIN c.decls[m] : n \in DOMAIN all /\ all[n] = c.named[m][n]
  BY DEF AddItems
<1> HIDE DEF all
<1>4. ASSUME NEW b \in Own(c, m) PROVE b.name \in DOMAIN all /\ all[b.name].path = b.path
  BY <1>2 DEF Own, Bound, Keeps
<1>5. ASSUME NEW b \in ByName(c, m), b.name \notin DOMAIN c.decls[m]
      PROVE  b.name \in DOMAIN all /\ all[b.name].path = b.path
  <2>1. PICK n \in DOMAIN c.named[m] : b = Bound(n, c.named[m][n].path, Sees(c.named[m][n].vis))
    BY DEF ByName
  <2>2. b.name = n /\ b.path = c.named[m][n].path
    BY <2>1 DEF Bound
  <2> QED
    BY <1>3, <1>5, <2>2
<1> QED
  BY <1>4, <1>5 DEF Binds, Explicit, all

\* What a module binds itself stays.
LEMMA OwnInvNext == IndexInv /\ OwnInv /\ [Next]_vars => OwnInv'
<1> SUFFICES ASSUME IndexInv, OwnInv, [Next]_vars PROVE OwnInv'
  OBVIOUS
<1>1. crate' = crate
  BY StepTraverses DEF Traversed
<1> SUFFICES ASSUME NEW k \in 1..Len(Preorder), Visited(k)'
             PROVE  Binds(crate, Preorder[k], index'[Preorder[k]])
  BY <1>1 DEF OwnInv
<1>2. Preorder[k] \in Mods /\ at \in 1..Len(Preorder) /\ Len(Preorder) \in Nat
  BY Positions, HereFacts
<1>3. CASE Visited(k)
  BY <1>2, <1>3, StepKeeps, BindsKept DEF OwnInv
<1>4. CASE ~Visited(k)
  <2>1. Base /\ k = at
    <3>1. phase = "base" /\ k >= at
      BY <1>2, <1>4 DEF Visited
    <3>2. Base
      <4>1. Base \/ UNCHANGED vars
        BY <3>1 DEF Next, UseStmt, EndModule, SkipUse, AvoidRecursion, Submod, Leave, Starting
      <4> QED
        BY <1>4, <4>1 DEF vars, Visited
    <3>3. k < at + 1
      BY <1>2, <3>2 DEF Visited, Base
    <3> QED
      BY <1>2, <3>1, <3>2, <3>3
  <2>2. index'[Preorder[k]] = AddItems(crate.decls[Preorder[k]], crate.named[Preorder[k]])
    BY <1>2, <2>1 DEF Base, Dst, IndexInv
  <2> QED
    BY <1>2, <2>2, HereFacts, BaseBinds
<1> QED
  BY <1>3, <1>4

(***************************************************************************)
(* Induction, with a set in place of a predicate: the induction theorems   *)
(* of the library take an operator.                                        *)
(***************************************************************************)
\* A set of numbers has a least one: the sets 0..x are well-founded.
LEMMA LeastNumber ==
  ASSUME NEW T, T \subseteq Nat, T # {}
  PROVE  \E x \in T : \A y \in T : x <= y
<1> DEFINE D == {0..x : x \in T}
           S == UNION D
           R == StrictSubsetOrdering(S)
<1>1. D \subseteq SUBSET S /\ D # {}
  <2>1. PICK x \in T : TRUE
    OBVIOUS
  <2>2. 0..x \in D
    OBVIOUS
  <2> QED
    BY <2>2
<1>2. \A d \in D : IsFiniteSet(d)
  <2>1. \A x \in T : x \in Int /\ 0 \in Int
    OBVIOUS
  <2> QED
    BY <2>1, FS_Interval
<1> HIDE DEF S, R
<1>3. PICK d \in D : \A e \in D : ~ (<<e, d>> \in R)
  <2> HIDE DEF D
  <2>1. IsWellFoundedOn(R, FiniteSubsetsOf(S))
    BY FS_StrictSubsetOrderingWellFounded DEF R
  <2>2. D \subseteq FiniteSubsetsOf(S)
    BY <1>1, <1>2 DEF FiniteSubsetsOf
  <2> QED
    BY <1>1, <2>1, <2>2, WFMin
<1>4. \A e \in D : e \subseteq d => e = d
  <2> HIDE DEF D
  <2> QED
    BY <1>1, <1>3 DEF StrictSubsetOrdering, R
<1>5. PICK x \in T : d = 0..x
  OBVIOUS
<1>6. ASSUME NEW y \in T, y < x PROVE FALSE
  <2>1. 0..y \in D /\ 0..y \subseteq 0..x
    BY <1>6
  <2>2. 0..y = 0..x
    BY <1>4, <1>5, <2>1
  <2>3. x \in 0..x
    BY <1>5
  <2> QED
    BY <1>6, <2>2, <2>3
<1> QED
  BY <1>5, <1>6

\* A set with 0, and with n + 1 when with n, has all numbers.
LEMMA AllNumbers ==
  ASSUME NEW T, 0 \in T, \A n \in Nat : n \in T => n + 1 \in T
  PROVE  Nat \subseteq T
<1> SUFFICES ASSUME Nat \ T # {} PROVE FALSE
  OBVIOUS
<1> DEFINE U == Nat \ T
<1>1. PICK x \in U : \A y \in U : x <= y
  <2>1. U \subseteq Nat /\ U # {}
    OBVIOUS
  <2> HIDE DEF U
  <2> QED
    BY <2>1, LeastNumber
<1>2. x \in Nat /\ x # 0
  BY <1>1
<1>3. x - 1 \in Nat /\ x - 1 \notin U
  BY <1>1, <1>2
<1> QED
  BY <1>1, <1>2, <1>3

(***************************************************************************)
(* Meanings are what its definition says, round by round.                  *)
(***************************************************************************)
First(c) == [m \in Mods |-> Explicit(c, m)]
More(c, r) == [m \in Mods |-> r[m] \cup Brought(c, m, r)]
IsRounds(c, g, n) == g = [k \in 0..n |-> IF k = 0 THEN First(c) ELSE More(c, g[k - 1])]

\* There are functions that satisfy it.
LEMMA RoundsExist ==
  ASSUME NEW c
  PROVE  \A n \in Nat : \E g : IsRounds(c, g, n)
<1> DEFINE T == {n \in Nat : \E g : IsRounds(c, g, n)}
<1>1. 0 \in T
  <2> DEFINE g == [k \in 0..0 |-> First(c)]
  <2>1. g = [k \in 0..0 |-> IF k = 0 THEN First(c) ELSE More(c, g[k - 1])]
    <3> HIDE DEF First
    <3> QED
      OBVIOUS
  <2> QED
    BY <2>1 DEF IsRounds
<1>2. ASSUME NEW n \in Nat, n \in T PROVE n + 1 \in T
  <2>1. PICK g : g = [k \in 0..n |-> IF k = 0 THEN First(c) ELSE More(c, g[k - 1])]
    BY <1>2 DEF IsRounds
  <2> DEFINE h == [k \in 0..(n + 1) |-> IF k <= n THEN g[k] ELSE More(c, g[n])]
             l == [k \in 0..(n + 1) |-> IF k = 0 THEN First(c) ELSE More(c, h[k - 1])]
  <2>2. ASSUME NEW k \in 0..(n + 1) PROVE h[k] = l[k]
    <3>1. CASE k = 0
      BY <2>1, <3>1
    <3>2. CASE k \in 1..n
      <4>1. k \in 0..n /\ k # 0 /\ k - 1 \in 0..(n + 1) /\ k - 1 <= n /\ k <= n
        BY <3>2
      <4>2. g[k] = More(c, g[k - 1])
        BY <2>1, <4>1
      <4>3. h[k] = g[k] /\ h[k - 1] = g[k - 1]
        BY <4>1
      <4>4. l[k] = More(c, h[k - 1])
        BY <4>1
      <4> QED
        BY <4>2, <4>3, <4>4
    <3>3. CASE k = n + 1
      <4>1. k # 0 /\ k - 1 = n /\ n \in 0..(n + 1) /\ n <= n /\ ~(k <= n)
        BY <3>3
      <4>2. h[n] = g[n] /\ h[k] = More(c, g[n])
        BY <4>1
      <4>3. l[k] = More(c, h[k - 1])
        BY <4>1
      <4> QED
        BY <4>1, <4>2, <4>3
    <3> QED
      BY <3>1, <3>2, <3>3
  <2>3. h = l
    BY <2>2
  <2>4. IsRounds(c, h, n + 1)
    BY <2>3 DEF IsRounds
  <2> HIDE DEF h, l
  <2> QED
    BY <2>4
<1>3. Nat \subseteq T
  <2> HIDE DEF T
  <2> QED
    BY <1>1, <1>2, AllNumbers
<1> QED
  BY <1>3

\* The last round is what globs mean.
LEMMA MeaningsIsRound ==
  ASSUME NEW c
  PROVE  \E g : /\ Meanings(c) = g[Len(Preorder)]
                /\ g[0] = First(c)
                /\ \A k \in 1..Len(Preorder) : g[k] = More(c, g[k - 1])
<1> DEFINE Is(g) == g = [k \in 0..Len(Preorder) |->
                           IF k = 0 THEN First(c) ELSE More(c, g[k - 1])]
           g0 == CHOOSE g : Is(g)
<1>1. Len(Preorder) \in Nat
  BY Positions
<1>2. \E g : Is(g)
  BY <1>1, RoundsExist DEF IsRounds
<1>3. Is(g0)
  <2> HIDE DEF Is
  <2> QED
    BY <1>2
<1>4. Meanings(c) = g0[Len(Preorder)]
  BY DEF Meanings, First, More
<1> HIDE DEF g0
<1>5. g0[0] = First(c) /\ \A k \in 1..Len(Preorder) : g0[k] = More(c, g0[k - 1])
  BY <1>1, <1>3
<1> QED
  BY <1>4, <1>5

\* Globs bring more from more bindings.
LEMMA BroughtMore ==
  ASSUME NEW c, NEW m \in Mods, NEW r, NEW t, \A k \in Mods : r[k] \subseteq t[k],
         \A k \in Mods : \A g \in ToSet(c.globs[k]) : g.mod \in Mods
  PROVE  Brought(c, m, r) \subseteq Brought(c, m, t)
<1> SUFFICES ASSUME NEW x \in Brought(c, m, r) PROVE x \in Brought(c, m, t)
  OBVIOUS
<1>1. PICK g \in ToSet(c.globs[m]) :
        \E d \in r[g.mod] : /\ m \in d.seen /\ d.name \notin {e.name : e \in Explicit(c, m)}
                            /\ x = Bound(d.name, d.path, d.seen \cap Sees(g.vis))
  BY DEF Brought
<1>2. g.mod \in Mods
  OBVIOUS
<1> DEFINE Own1 == {e.name : e \in Explicit(c, m)}
           By(h) == {Bound(b.name, b.path, b.seen \cap Sees(h.vis)) :
                       b \in {d \in t[h.mod] : m \in d.seen /\ d.name \notin Own1}}
<1>3. x \in By(g)
  BY <1>1, <1>2
<1>4. Brought(c, m, t) = UNION {By(h) : h \in ToSet(c.globs[m])}
  BY DEF Brought
<1> HIDE DEF By
<1> QED
  BY <1>3, <1>4

\* Meanings are the least bindings with what modules bind themselves and what
\* globs bring: sets with these, as far as they are meanings, have all of them.
LEMMA MeaningsLeast ==
  ASSUME NEW c, NEW T,
         \A m \in Mods : Explicit(c, m) \cap Meanings(c)[m] \subseteq T[m],
         \A m \in Mods : Brought(c, m, T) \cap Meanings(c)[m] \subseteq T[m],
         \A m \in Mods : \A g \in ToSet(c.globs[m]) : g.mod \in Mods
  PROVE  \A m \in Mods : Meanings(c)[m] \subseteq T[m]
<1> DEFINE N == Len(Preorder)
<1>0. N \in Nat
  BY Positions
<1>1. PICK g : /\ Meanings(c) = g[N]
               /\ g[0] = First(c)
               /\ \A k \in 1..N : g[k] = More(c, g[k - 1])
  BY MeaningsIsRound
<1> HIDE DEF N
<1>2. \A k \in 1..N : \A m \in Mods : g[k][m] = g[k - 1][m] \cup Brought(c, m, g[k - 1])
  BY <1>1 DEF More
<1>3. \A k \in 0..N : \A m \in Mods : g[k][m] \subseteq Meanings(c)[m]
  <2> DEFINE U == {j \in Nat : j <= N => \A m \in Mods : g[N - j][m] \subseteq Meanings(c)[m]}
  <2>1. 0 \in U
    BY <1>0, <1>1
  <2>2. ASSUME NEW j \in Nat, j \in U PROVE j + 1 \in U
    <3> SUFFICES ASSUME j + 1 <= N, NEW m \in Mods
                 PROVE  g[N - (j + 1)][m] \subseteq Meanings(c)[m]
      OBVIOUS
    <3>1. N - j \in 1..N /\ (N - j) - 1 = N - (j + 1) /\ j <= N
      BY <1>0
    <3>2. g[N - j][m] = g[N - (j + 1)][m] \cup Brought(c, m, g[N - (j + 1)])
      BY <1>2, <3>1
    <3>3. g[N - j][m] \subseteq Meanings(c)[m]
      BY <2>2, <3>1
    <3> QED
      BY <3>2, <3>3
  <2>3. Nat \subseteq U
    <3> HIDE DEF U
    <3> QED
      BY <2>1, <2>2, AllNumbers
  <2>4. ASSUME NEW k \in 0..N, NEW m \in Mods PROVE g[k][m] \subseteq Meanings(c)[m]
    <3>1. N - k \in Nat /\ N - k <= N /\ N - (N - k) = k
      BY <1>0
    <3>2. N - k \in U
      BY <2>3, <3>1
    <3> QED
      BY <3>1, <3>2
  <2> QED
    BY <2>4
<1>4. \A k \in 0..N : \A m \in Mods : g[k][m] \subseteq T[m]
  <2> DEFINE V == {k \in Nat : k <= N => \A m \in Mods : g[k][m] \subseteq T[m]}
  <2>1. 0 \in V
    <3> SUFFICES ASSUME NEW m \in Mods PROVE g[0][m] \subseteq T[m]
      OBVIOUS
    <3>1. g[0][m] = Explicit(c, m) /\ g[0][m] \subseteq Meanings(c)[m]
      BY <1>0, <1>1, <1>3 DEF First
    <3> QED
      BY <3>1
  <2>2. ASSUME NEW k \in Nat, k \in V PROVE k + 1 \in V
    <3> SUFFICES ASSUME k + 1 <= N, NEW m \in Mods PROVE g[k + 1][m] \subseteq T[m]
      OBVIOUS
    <3>1. k + 1 \in 1..N /\ (k + 1) - 1 = k /\ k <= N /\ k + 1 \in 0..N
      BY <1>0
    <3>2. g[k + 1][m] = g[k][m] \cup Brought(c, m, g[k])
      BY <1>2, <3>1
    <3>3. \A l \in Mods : g[k][l] \subseteq T[l]
      BY <2>2, <3>1
    <3>4. Brought(c, m, g[k]) \subseteq Brought(c, m, T)
      BY <3>3, BroughtMore
    <3>5. Brought(c, m, g[k]) \subseteq Meanings(c)[m]
      BY <1>3, <3>1, <3>2
    <3> QED
      BY <3>2, <3>3, <3>4, <3>5
  <2>3. Nat \subseteq V
    <3> HIDE DEF V
    <3> QED
      BY <2>1, <2>2, AllNumbers
  <2> QED
    BY <1>0, <2>3
<1> QED
  BY <1>0, <1>1, <1>4

\* What a name means in a module may come to it.
LEMMA MeaningsMayCome ==
  ASSUME NEW c \in Crates, NEW m \in Mods, NEW b \in Meanings(c)[m]
  PROVE  b.path \in Paths(Incoming(c, m), b.name)
<1> DEFINE T == [k \in Mods |-> {d \in Meanings(c)[k] : d.path \in Paths(Incoming(c, k), d.name)}]
<1>1. ASSUME NEW k \in Mods, NEW d \in Explicit(c, k) \cap Meanings(c)[k] PROVE d \in T[k]
  <2>1. d \in Incoming(c, k)
    BY DEF Explicit, Incoming
  <2> QED
    BY <2>1 DEF Paths
<1>2. ASSUME NEW k \in Mods, NEW d \in Brought(c, k, T) \cap Meanings(c)[k] PROVE d \in T[k]
  <2>0. PICK g \in ToSet(c.globs[k]) : \E e \in T[g.mod] :
          d = Bound(e.name, e.path, e.seen \cap Sees(g.vis))
    <3> HIDE DEF T
    <3> QED
      BY DEF Brought
  <2>1. PICK e \in T[g.mod] : d = Bound(e.name, e.path, e.seen \cap Sees(g.vis))
    BY <2>0
  <2>2. g.mod \in Mods
    BY FollowingGlob
  <2>3. PICK x \in Incoming(c, g.mod) : x.name = e.name /\ x.path = e.path
    BY <2>1, <2>2 DEF Paths
  <2>9. PICK s \in Following(c, g.mod) : \E w \in Written(c, s) : w.name = e.name /\ w.path = e.path
    BY <2>2, <2>3, ComesFrom
  <2>4. PICK w \in Written(c, s) : w.name = e.name /\ w.path = e.path
    BY <2>9
  <2>5. Bound(w.name, w.path, Sees(g.vis)) \in Incoming(c, k)
    BY ComesTo
  <2>6. /\ Bound(w.name, w.path, Sees(g.vis)).name = d.name
        /\ Bound(w.name, w.path, Sees(g.vis)).path = d.path
    BY <2>1, <2>4 DEF Bound
  <2>7. d.path \in Paths(Incoming(c, k), d.name)
    BY <2>5, <2>6 DEF Paths
  <2> QED
    BY <2>7
<1>3. \A k \in Mods : \A g \in ToSet(c.globs[k]) : g.mod \in Mods
  BY FollowingGlob
<1>4. Meanings(c)[m] \subseteq T[m]
  <2> HIDE DEF T
  <2>1. \A k \in Mods : Explicit(c, k) \cap Meanings(c)[k] \subseteq T[k]
    BY <1>1
  <2>2. \A k \in Mods : Brought(c, k, T) \cap Meanings(c)[k] \subseteq T[k]
    BY <1>2
  <2> QED
    BY <1>3, <2>1, <2>2, MeaningsLeast
<1> QED
  BY <1>4

\* What has one meaning in a module has it in those it gets it from.
LEMMA OneMeaning ==
  ASSUME NEW c \in Crates, NEW m \in Mods, NEW g \in ToSet(c.globs[m]), NEW n, NEW p,
         Paths(Incoming(c, m), n) = {p}
  PROVE  \A q \in Paths(Incoming(c, g.mod), n) :
           q = p /\ Bound(n, p, Sees(g.vis)) \in Incoming(c, m)
<1> SUFFICES ASSUME NEW q \in Paths(Incoming(c, g.mod), n)
             PROVE  q = p /\ Bound(n, p, Sees(g.vis)) \in Incoming(c, m)
  OBVIOUS
<1>1. g.mod \in Mods
  BY FollowingGlob
<1>2. PICK x \in Incoming(c, g.mod) : x.name = n /\ x.path = q
  BY DEF Paths
<1>6. PICK s \in Following(c, g.mod) : \E w \in Written(c, s) : w.name = n /\ w.path = q
  BY <1>1, <1>2, ComesFrom
<1>3. PICK w \in Written(c, s) : w.name = n /\ w.path = q
  BY <1>6
<1>4. Bound(n, q, Sees(g.vis)) \in Incoming(c, m)
  BY <1>3, ComesTo
<1>5. q \in Paths(Incoming(c, m), n)
  <2>1. Bound(n, q, Sees(g.vis)).name = n /\ Bound(n, q, Sees(g.vis)).path = q
    BY DEF Bound
  <2> QED
    BY <1>4, <2>1 DEF Paths
<1> QED
  BY <1>4, <1>5

(***************************************************************************)
(* A module whose globs are done has all that its names mean.              *)
(***************************************************************************)
Finished(k) == phase = "done" \/ (phase = "glob" /\ k < at)
Present(c, m, list) == \A b \in Meanings(c)[m] : Clear(c, m, b) => b.name \in DOMAIN list

DoneInv ==
    OneVisibility(crate) =>
      \A k \in 1..Len(Preorder) :
        Finished(k) => Present(crate, Preorder[k], index[Preorder[k]])

\* A module that binds or has got an item that the module at hand may see shows it.
LEMMA EntryShows ==
  ASSUME IndexInv, SourceInv, OneVisibility(crate),
         NEW s \in Mods, NEW b \in Incoming(crate, s), Dst \in b.seen,
         b.name \in DOMAIN index[s], index[s][b.name].path = b.path
  PROVE  s \in Shows(b.name)
<1>1. PICK d \in Incoming(crate, s) :
        d.name = b.name /\ d.path = b.path /\ d.seen = Sees(index[s][b.name].vis)
  BY DEF SourceInv, MayCome
<1>2. d.seen = b.seen
  BY <1>1 DEF OneVisibility
<1>3. Visible(index[s][b.name].vis, Dst)
  BY <1>1, <1>2 DEF Sees
<1> QED
  BY <1>3 DEF Shows

\* What leads on by a glob that the module at hand may see is found through a
\* module that it follows, or that is complete.
LEMMA GlobLeads ==
  ASSUME IndexInv, WalkInv, SourceInv, DoneInv, OneVisibility(crate), phase = "glob",
         NEW s \in Mods, s # Dst, NEW g \in ToSet(crate.globs[s]), NEW b \in Meanings(crate)[s],
         Paths(Incoming(crate, s), b.name) = {b.path},
         Bound(b.name, b.path, Sees(g.vis)) \in Incoming(crate, s),
         Dst \in Sees(g.vis), g.mod \in FindsNow(b.name, {})
  PROVE  s \in FindsNow(b.name, {})
<1>0. crate \in Crates /\ at \in 1..Len(Preorder) /\ Dst \in Mods /\ Len(Preorder) \in Nat
  BY HereFacts, Positions
<1>1. ASSUME s \in Shows(b.name) PROVE s \in FindsNow(b.name, {})
  BY <1>1, FindsMore DEF FindsNow, Leads
<1>2. CASE s \in Open
  <2>1. Visible(g.vis, Dst)
    BY DEF Sees
  <2> QED
    BY <1>2, <2>1, FindsMore DEF FindsNow, Leads
<1>3. CASE s \notin Open
  <2>1. PICK k \in 1..Len(Preorder) : Preorder[k] = s
    BY Positions
  <2>2. populated[s] = 2 /\ k # at
    BY <1>3, <2>1 DEF Open, Dst
  <2>3. CASE k < at
    <3>1. b.name \in DOMAIN index[s]
      BY <2>1, <2>3 DEF DoneInv, Finished, Present, Clear
    <3>2. PICK d \in Incoming(crate, s) : d.name = b.name /\ d.path = index[s][b.name].path
      BY <3>1 DEF SourceInv, MayCome
    <3>3. index[s][b.name].path = b.path
      BY <3>2 DEF Paths
    <3> DEFINE e == Bound(b.name, b.path, Sees(g.vis))
    <3>4. e \in Incoming(crate, s) /\ e.name = b.name /\ e.path = b.path /\ Dst \in e.seen
      BY DEF Bound
    <3> HIDE DEF e
    <3>5. s \in Shows(e.name)
      BY <3>1, <3>3, <3>4, EntryShows
    <3> QED
      BY <1>1, <3>4, <3>5
  <2>4. CASE k > at
    <3>1. ~HasPubWildcard(s)
      BY <1>0, <2>1, <2>2, <2>4 DEF WalkInv, MarkedRightly
    <3>2. g.vis = s
      BY <1>0, <3>1, CrateFacts DEF HasPubWildcard
    <3>3. ~Visible(s, Dst)
      BY <1>0, <2>1, <2>4, EarlierDoesNotSee DEF Dst
    <3> QED
      BY <3>2, <3>3 DEF Sees
  <2> QED
    BY <1>0, <2>2, <2>3, <2>4
<1> QED
  BY <1>2, <1>3

\* When the globs of the module at hand are done, all that names mean is there.
LEMMA EndPresent ==
  ASSUME IndexInv, WalkInv, SourceInv, OwnInv, FollowInv, DoneInv, OneVisibility(crate),
         EndModule
  PROVE  Present(crate, Dst, index[Dst])
<1> DEFINE There == DOMAIN index[Dst]
           One(s, b) == Paths(Incoming(crate, s), b.name) = {b.path}
           Had(s, b) == /\ Dst \in b.seen => b.name \in There \/ s \in FindsNow(b.name, {})
                        /\ s = Dst => b.name \in There
           T == [s \in Mods |-> {b \in Meanings(crate)[s] : One(s, b) => Had(s, b)}]
<1>0. crate \in Crates /\ Dst \in Mods /\ phase = "glob" /\ at \in 1..Len(Preorder)
  BY HereFacts DEF EndModule
<1>1. ASSUME NEW g \in ToSet(Here), NEW n, g.mod \in FindsNow(n, {}) PROVE n \in There
  <2>1. todo = << >> /\ Begun = Len(Here)
    BY HereFacts DEF EndModule, Begun
  <2>2. PICK k \in 1..Begun : g = Here[k]
    BY <2>1, HereFacts
  <2>3. ~Pending(n)
    BY <2>1 DEF Pending
  <2> QED
    BY <1>0, <1>1, <2>2, <2>3 DEF FollowInv
<1>2. ASSUME NEW s \in Mods, NEW b \in Explicit(crate, s)
      PROVE  b.name \in DOMAIN index[s] /\ index[s][b.name].path = b.path
  <2>1. PICK k \in 1..Len(Preorder) : Preorder[k] = s
    BY Positions
  <2>2. Visited(k)
    BY <1>0 DEF Visited
  <2> QED
    BY <2>1, <2>2 DEF OwnInv, Binds
<1>3. ASSUME NEW s \in Mods, NEW b \in Explicit(crate, s) PROVE Had(s, b)
  <2>1. b \in Incoming(crate, s)
    BY DEF Explicit, Incoming
  <2>2. ASSUME Dst \in b.seen PROVE s \in FindsNow(b.name, {})
    <3>1. s \in Shows(b.name)
      BY <1>2, <2>1, <2>2, EntryShows
    <3> QED
      BY <3>1, FindsMore DEF FindsNow, Leads
  <2> QED
    BY <1>2, <2>2
<1>4. ASSUME NEW s \in Mods, NEW b \in Brought(crate, s, T) \cap Meanings(crate)[s], One(s, b)
      PROVE  Had(s, b)
  <2>1. PICK g \in ToSet(crate.globs[s]) : \E d \in T[g.mod] :
          s \in d.seen /\ b = Bound(d.name, d.path, d.seen \cap Sees(g.vis))
    <3> HIDE DEF T
    <3> QED
      BY DEF Brought
  <2>2. PICK d \in T[g.mod] : s \in d.seen /\ b = Bound(d.name, d.path, d.seen \cap Sees(g.vis))
    BY <2>1
  <2>3. g.mod \in Mods
    BY <1>0, FollowingGlob
  <2>4. d \in Meanings(crate)[g.mod] /\ (One(g.mod, d) => Had(g.mod, d))
    BY <2>3
  <2>5. b.name = d.name /\ b.path = d.path /\ b.seen = d.seen \cap Sees(g.vis)
    BY <2>2 DEF Bound
  <2>6. d.path \in Paths(Incoming(crate, g.mod), b.name)
    BY <1>0, <2>3, <2>4, <2>5, MeaningsMayCome
  <2>7. \A q \in Paths(Incoming(crate, g.mod), b.name) :
           q = b.path /\ Bound(b.name, b.path, Sees(g.vis)) \in Incoming(crate, s)
    BY <1>0, <1>4, OneMeaning
  <2>8. Had(g.mod, d)
    <3>1. One(g.mod, d)
      BY <2>5, <2>6, <2>7
    <3> QED
      BY <2>4, <3>1
  <2> HIDE DEF T
  <2>9. CASE s = Dst
    <3>1. b.name \in There \/ g.mod \in FindsNow(b.name, {})
      BY <2>2, <2>5, <2>8, <2>9
    <3>2. b.name \in There
      BY <1>1, <2>9, <3>1 DEF Here
    <3> QED
      BY <3>2
  <2>10. CASE s # Dst
    <3> SUFFICES ASSUME Dst \in b.seen, b.name \notin There PROVE s \in FindsNow(b.name, {})
      BY <2>10
    <3>1. g.mod \in FindsNow(b.name, {}) /\ Dst \in Sees(g.vis)
      BY <2>5, <2>8
    <3>2. Bound(b.name, b.path, Sees(g.vis)) \in Incoming(crate, s)
      BY <2>6, <2>7
    <3> QED
      BY <1>0, <1>4, <2>10, <3>1, <3>2, GlobLeads
  <2> QED
    BY <2>9, <2>10
<1>5. Meanings(crate)[Dst] \subseteq T[Dst]
  <2>1. \A s \in Mods : Explicit(crate, s) \cap Meanings(crate)[s] \subseteq T[s]
    BY <1>3
  <2>2. \A s \in Mods : Brought(crate, s, T) \cap Meanings(crate)[s] \subseteq T[s]
    BY <1>4
  <2>3. \A s \in Mods : \A g \in ToSet(crate.globs[s]) : g.mod \in Mods
    BY <1>0, FollowingGlob
  <2> HIDE DEF T
  <2> QED
    BY <1>0, <2>1, <2>2, <2>3, MeaningsLeast
<1>6. ASSUME NEW b \in Meanings(crate)[Dst], Clear(crate, Dst, b) PROVE b.name \in There
  <2>1. CASE b \in Explicit(crate, Dst)
    BY <1>0, <1>2, <2>1
  <2>2. CASE One(Dst, b)
    BY <1>0, <1>5, <2>2
  <2> QED
    BY <1>6, <2>1, <2>2 DEF Clear
<1> QED
  BY <1>6 DEF Present

\* A module is done when its globs are.
LEMMA DoneInvNext ==
  IndexInv /\ WalkInv /\ SourceInv /\ OwnInv /\ FollowInv /\ DoneInv /\ [Next]_vars => DoneInv'
<1> SUFFICES ASSUME IndexInv, WalkInv, SourceInv, OwnInv, FollowInv, DoneInv, [Next]_vars
             PROVE  DoneInv'
  OBVIOUS
<1>1. crate' = crate
  BY StepTraverses DEF Traversed
<1> SUFFICES ASSUME OneVisibility(crate), NEW k \in 1..Len(Preorder), Finished(k)'
             PROVE  Present(crate, Preorder[k], index'[Preorder[k]])
  BY <1>1 DEF DoneInv
<1>2. Preorder[k] \in Mods /\ at \in 1..Len(Preorder) /\ Len(Preorder) \in Nat
  BY Positions, HereFacts
<1>3. ASSUME Present(crate, Preorder[k], index[Preorder[k]])
      PROVE  Present(crate, Preorder[k], index'[Preorder[k]])
  <2>1. Keeps(index[Preorder[k]], index'[Preorder[k]])
    BY <1>2, StepKeeps
  <2> QED
    BY <1>3, <2>1 DEF Present, Keeps
<1>4. CASE Finished(k)
  BY <1>3, <1>4 DEF DoneInv
<1>5. CASE ~Finished(k)
  <2>1. EndModule /\ k = at
    <3>1. CASE EndModule
      BY <1>2, <1>5, <3>1 DEF EndModule, Finished
    <3>2. CASE Base
      BY <1>2, <3>2 DEF Base, Finished
    <3>3. CASE ~EndModule /\ ~Base
      BY <1>5, <3>3 DEF Next, UseStmt, SkipUse, AvoidRecursion, Submod, Leave, vars, Finished
    <3> QED
      BY <3>1, <3>2, <3>3
  <2>2. Present(crate, Preorder[k], index[Preorder[k]])
    BY <2>1, EndPresent DEF Dst
  <2> QED
    BY <1>3, <2>2
<1> QED
  BY <1>4, <1>5

\* The inductive invariant.
GlobInv == IndexInv /\ WalkInv /\ SourceInv /\ OwnInv /\ FollowInv /\ DoneInv

\* It holds at the start, where nothing is there yet.
LEMMA GlobInvInit == Init => GlobInv
<1> SUFFICES ASSUME Init PROVE GlobInv
  OBVIOUS
<1>1. IndexInv /\ WalkInv
  BY IndexInvInit, WalkInvInit
<1>2. SourceInv
  BY DEF Init, SourceInv
<1>3. \A k \in 1..Len(Preorder) : ~Visited(k) /\ ~Finished(k)
  BY DEF Init, Visited, Finished
<1>4. FollowInv
  BY DEF Init, FollowInv
<1> QED
  BY <1>1, <1>2, <1>3, <1>4 DEF GlobInv, OwnInv, DoneInv

\* It is preserved.
LEMMA GlobInvNext == GlobInv /\ [Next]_vars => GlobInv'
  BY IndexInvNext, WalkInvNext, SourceInvNext, OwnInvNext, FollowInvNext, DoneInvNext
  DEF GlobInv

\* What the invariant says when all globs are done.
LEMMA NothingMissingThen == GlobInv => NothingMissing
<1> SUFFICES ASSUME GlobInv, phase = "done", OneVisibility(crate),
                    NEW m \in Mods, NEW b \in Meanings(crate)[m], Clear(crate, m, b)
             PROVE  b.name \in DOMAIN index[m] /\ index[m][b.name].path = b.path
  BY DEF NothingMissing
<1>1. PICK k \in 1..Len(Preorder) : Preorder[k] = m
  BY Positions
<1>2. Visited(k) /\ Finished(k)
  BY DEF Visited, Finished
<1>3. CASE b \in Explicit(crate, m)
  BY <1>1, <1>2, <1>3 DEF GlobInv, OwnInv, Binds
<1>4. CASE Paths(Incoming(crate, m), b.name) = {b.path}
  <2>1. b.name \in DOMAIN index[m]
    BY <1>1, <1>2 DEF GlobInv, DoneInv, Present
  <2>2. PICK d \in Incoming(crate, m) : d.name = b.name /\ d.path = index[m][b.name].path
    BY <2>1 DEF GlobInv, SourceInv, MayCome
  <2> QED
    BY <1>4, <2>1, <2>2 DEF Paths
<1> QED
  BY <1>3, <1>4 DEF Clear

\* Whatever the modules, their order and their globs, cycles among them too,
\* every name with one meaning is in the index in the end and has that meaning:
\* the recursion guard leaves out only what another way leads to, and a module
\* that is complete has all that following its globs would bring.
THEOREM NothingIsMissing == Spec => []NothingMissing
  BY GlobInvInit, GlobInvNext, NothingMissingThen, PTL DEF Spec
=============================================================================
