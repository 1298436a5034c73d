-------------------------- MODULE MirBuilderProofs --------------------------
(***************************************************************************)
(* What merge_state has to get right where two paths meet: the state it    *)
(* leaves describes the slot on both of them.                              *)
(***************************************************************************)
EXTENDS MirBuilder, TLAPS

\* A state that may refer to n drop flags.
StatesOver(n) == {Invalid, Valid} \cup {Optional(f) : f \in 1..n}

\* Where the drop flags have these values, does the state say whether the
\* slot holds a value that has to be dropped?
Describes(state, flags, live) ==
    IF state.is = "Optional" THEN flags[state.flag] = live
    ELSE live = (state.is = "Valid")

\* On the path that ends here: if "new" described the slot, the merged state
\* does, after the SetDropFlag that merge_state appends to the block.
THEOREM MergeOnThisPath ==
    ASSUME NEW b, NEW n \in Nat,
           NextFlag(b) = n + 1,
           NEW old \in StatesOver(n), NEW new \in StatesOver(n),
           NEW flags \in [1..(n + 1) -> BOOLEAN], NEW live \in BOOLEAN,
           Describes(new, flags, live)
    PROVE  Describes(Merged(b, old, new),
                     IF old = new \/ Reuses(b, old, new) THEN flags
                     ELSE FlagsAfter(flags,
                             Setting(Merged(b, old, new).flag, new)),
                     live)
<1>1. CASE old = new
  BY <1>1 DEF Merged
<1>2. CASE old # new /\ Reuses(b, old, new)
  BY <1>2 DEF Merged, Reuses, Valid
<1>3. CASE old # new /\ ~Reuses(b, old, new)
  <2> DEFINE s == Merged(b, old, new)
             set == Setting(s.flag, new)
  <2>1. s.is = "Optional" /\ s.flag \in 1..(n + 1)
    BY <1>3 DEF Merged, StatesOver, Optional, Invalid, Valid
  <2>2. set.flag = s.flag
    BY DEF Setting, CopyFlag, SetFlag, Stmt
  <2>3. (IF set.other = 0 THEN set.val ELSE flags[set.other]) = live
    <3>1. CASE new.is = "Optional"
      <4>1. new.flag \in 1..n
        BY <3>1 DEF StatesOver, Optional, Invalid, Valid
      <4>2. set.other = new.flag
        BY <3>1 DEF Setting, CopyFlag, Stmt
      <4>3. flags[new.flag] = live
        BY <3>1 DEF Describes
      <4> QED BY <4>1, <4>2, <4>3
    <3>2. CASE new.is # "Optional"
      BY <3>2 DEF Setting, SetFlag, Stmt, Describes
    <3> QED BY <3>1, <3>2
  <2>4. FlagsAfter(flags, set)[s.flag] = live
    BY <2>1, <2>2, <2>3 DEF FlagsAfter
  <2> QED BY <1>3, <2>1, <2>4 DEF Describes
<1> QED BY <1>1, <1>2, <1>3

\* On the paths merged before: if "old" described the slot there, the merged
\* state does, because a new flag keeps its default on them.  The exception
\* is a flag taken over from the other path, whose default says nothing about
\* the value it has by now.
THEOREM MergeOnOtherPaths ==
    ASSUME NEW b, NEW n \in Nat, NextFlag(b) = n + 1,
           NEW old \in StatesOver(n), NEW new \in StatesOver(n),
           NEW flags \in [1..(n + 1) -> BOOLEAN], NEW live \in BOOLEAN,
           flags[n + 1] = (old = Valid),
           ~Reuses(b, old, new),
           Describes(old, flags, live)
    PROVE  Describes(Merged(b, old, new), flags, live)
<1>1. CASE old = new \/ old.is = "Optional"
  BY <1>1 DEF Merged
<1>2. CASE old # new /\ old.is # "Optional"
  <2>1. Merged(b, old, new) = Optional(n + 1)
    BY <1>2 DEF Merged
  <2>2. live = (old = Valid)
    BY <1>2 DEF Describes, StatesOver, Invalid, Valid, Optional
  <2> QED BY <2>1, <2>2 DEF Describes, Optional
<1> QED BY <1>1, <1>2
=============================================================================
