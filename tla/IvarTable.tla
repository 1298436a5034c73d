----------------------------- MODULE IvarTable -----------------------------
(***************************************************************************)
(* The table of inference variables (HMTypeInferrence::m_ivars in          *)
(* hir_typeck/helpers.cpp) and the operations type inference performs on   *)
(* it.  A slot is an alias of another slot, or a root with a type; the     *)
(* type of a root nobody knows yet is the slot itself, written Infer(i).   *)
(***************************************************************************)
EXTENDS Naturals, Sequences

VARIABLES
    alias,  \* the slot a slot is an alias of; 0 for a root (~0u)
    type,   \* the type of a root; Null for an alias
    class   \* is the unknown type of a root that of a literal?

table == <<alias, type, class>>

Classes == {"None", "Integer", "Float"}
Slots == 1..Len(alias)
IsAlias(i) == alias[i] # 0

\* Types are terms; only Infer terms name a slot.
Term(con, args) == [con |-> con, slot |-> 0, args |-> args]
Infer(i) == [con |-> "infer", slot |-> i, args |-> << >>]
Null == Term("null", << >>)

(***************************************************************************)
(* get_pointed_ivar follows aliases until it finds a root.                 *)
(***************************************************************************)
Closed(S) == \A k \in S : IsAlias(k) => alias[k] \in S

\* The slots a lookup of i visits: those in every closed set around i.
Visited(i) == {k \in Slots : \A S \in SUBSET Slots : i \in S /\ Closed(S) => k \in S}

PointedIvar(i) == CHOOSE r \in Visited(i) : ~IsAlias(r)

Unknown(i) == ~IsAlias(i) /\ type[i] = Infer(i)

\* check_type_class_primitive: which primitive types a literal may have.
Integers32 == {"i32", "u8"}
FitsPrimitive(ic, ty) ==
    \/ ic = "None"
    \/ ic = "Integer" /\ ty.con \in Integers32
    \/ ic = "Float" /\ ty.con = "f64"

\* What set_ivar_to lets an unknown type of a class become: also `!`.
Fits(ic, ty) == FitsPrimitive(ic, ty) \/ ty.con = "!"

(***************************************************************************)
(* The operations.                                                         *)
(***************************************************************************)
NewIvar(ic) ==
    /\ alias' = Append(alias, 0)
    /\ type' = Append(type, Infer(Len(alias) + 1))
    /\ class' = Append(class, ic)

\* Mutants: only equal classes are unified; the class of right is forgotten;
\* the type of right stays.
CanUnify_SameClass(left, right) == class[PointedIvar(left)] = class[PointedIvar(right)]

IvarUnify_ForgetsClass(left, right) ==
    LET r == PointedIvar(right)
    IN /\ Unknown(r)
       /\ alias' = [alias EXCEPT ![r] = left]
       /\ type' = [type EXCEPT ![r] = Null]
       /\ UNCHANGED class

\* ivar_unify: what is unknown becomes an alias of left, whose class, or whose
\* type, has to suit that of right.
CanUnify(left, right) ==
    LET l == PointedIvar(left)
        ic == class[PointedIvar(right)]
    IN ic = "None" \/ IF Unknown(l) THEN class[l] \in {"None", ic}
                      ELSE FitsPrimitive(ic, type[l])

IvarUnify(left, right) ==
    LET l == PointedIvar(left)
        r == PointedIvar(right)
    IN /\ left # right
       /\ Unknown(r) /\ CanUnify(left, right)
       /\ alias' = [alias EXCEPT ![r] = left]
       /\ type' = [type EXCEPT ![r] = Null]
       /\ class' = [class EXCEPT ![l] = IF class[r] # "None" THEN class[r] ELSE @]

\* Is a type known at its top?
Known(ty) == ty.con \notin {"infer", "null"}

\* set_ivar_to, for a type that is known at its top.
SetIvarTo(slot, ty) ==
    LET root == PointedIvar(slot)
    IN /\ Known(ty)
       /\ Unknown(root) /\ Fits(class[root], ty)
       /\ type' = [type EXCEPT ![root] = ty]
       /\ UNCHANGED <<alias, class>>

\* Mutant: an alias is set to what follows its target.
CompactIvar_TooFar(i, ty) ==
    /\ alias' = [alias EXCEPT ![i] = IF IsAlias(i) THEN alias[alias[i]] ELSE 0]
    /\ type' = IF IsAlias(i) THEN type ELSE [type EXCEPT ![i] = ty]
    /\ IsAlias(i) \/ IF Unknown(i) THEN ty = type[i] ELSE Known(ty)
    /\ UNCHANGED class

\* One round of compact_ivars: a slot's chain is shortened to one step, or its
\* type is rewritten to ty, where what is unknown stays unknown.
CompactIvar(i, ty) ==
    /\ alias' = [alias EXCEPT ![i] = IF IsAlias(i) THEN PointedIvar(i) ELSE 0]
    /\ type' = IF IsAlias(i) THEN type ELSE [type EXCEPT ![i] = ty]
    /\ IsAlias(i) \/ IF Unknown(i) THEN ty = type[i] ELSE Known(ty)
    /\ UNCHANGED class

\* apply_defaults: i32 and f64 for literals that are still unknown.
Default == [ic \in {"Integer", "Float"} |-> Term(IF ic = "Integer" THEN "i32" ELSE "f64", << >>)]
Defaulted(i) == Unknown(i) /\ class[i] # "None"
ApplyDefaults ==
    /\ type' = [i \in Slots |-> IF Defaulted(i) THEN Default[class[i]] ELSE type[i]]
    /\ UNCHANGED <<alias, class>>

TableInit == alias = << >> /\ type = << >> /\ class = << >>

TableNext ==
    \/ \E ic \in Classes : NewIvar(ic)
    \/ \E left, right \in Slots :
          PointedIvar(left) # PointedIvar(right) /\ IvarUnify(left, right)
    \/ \E slot \in Slots : SetIvarTo(slot, type'[slot])
    \/ \E i \in Slots : CompactIvar(i, type'[i])
    \/ ApplyDefaults

TableSpec == TableInit /\ [][TableNext]_table

(***************************************************************************)
(* Properties of the table.                                                *)
(***************************************************************************)
\* Every entry is an alias of an existing slot or a root with a type, which is
\* unknown or known.
TableTypeOK ==
    /\ alias \in Seq(Nat) /\ class \in Seq(Classes)
    /\ type = [i \in Slots |-> type[i]] /\ Len(class) = Len(alias)
    /\ \A i \in Slots : alias[i] \in 0..Len(alias)
    /\ \A i \in Slots : IF IsAlias(i) THEN type[i] = Null
                                       ELSE Unknown(i) \/ Known(type[i])

\* Aliases never form a loop: every set of slots has one that is a root or
\* points out of the set, so that the BUG "Loop detected in ivar list" of
\* get_pointed_ivar and compact_ivars is never reached.
NoAliasLoop == \A C \in SUBSET Slots : C # {} => \E i \in C : alias[i] \notin C

\* Two variables once equated have the same root for ever: unification,
\* compaction and defaults never separate them (ivar_unify, compact_ivars).
EquatedStayEqual ==
    [][\A i, j \in Slots : PointedIvar(i) = PointedIvar(j)
                             => PointedIvar(i)' = PointedIvar(j)']_table
=============================================================================
