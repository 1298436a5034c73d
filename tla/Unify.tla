------------------------------- MODULE Unify -------------------------------
(***************************************************************************)
(* Equating types during type inference (Context::equate_types in          *)
(* hir_typeck/expr_cs.cpp), and the passes of Typecheck_Code_CS around it. *)
(* The recursion of equate_types_inner is a stack of the equations still   *)
(* to be looked at; what a pass equates is any pair of types over the      *)
(* variables made so far.                                                  *)
(***************************************************************************)
EXTENDS IvarTable, SequencesExt

CONSTANTS
    MaxIvars,       \* variables of a function body
    MaxEquations,   \* calls of equate_types
    MaxCalls,       \* calls of equate_types_inner the stack has room for
    MaxNesting,     \* how deep types nest
    Constructors,   \* the names of what types are built with (TypeData)
    TypesOver(_)    \* the types that are equated, given the variables' classes

ASSUME BoundsAssumption == {MaxIvars, MaxEquations, MaxCalls, MaxNesting} \subseteq Nat
ASSUME ConstructorsAssumption ==
    {"i32", "f64"} \subseteq Constructors /\ Constructors \cap {"infer", "null"} = {}

VARIABLES
    todo,       \* the calls of equate_types(_inner) not answered yet
    phase,      \* "rules", then "pass", "check" and "compact" in turn, then
                \* "done"; "error" when the compiler stops with an error
    at,         \* the slot compact_ivars has come to
    changed,    \* m_has_changed
    equated,    \* number of calls so far
    born        \* what each variable was made for: its first class

vars == <<alias, type, class, todo, phase, at, changed, equated, born>>

IsInfer(t) == t.con = "infer"
Never == Term("!", << >>)

\* Mutant: an unknown type is named by the variable asked about.
GetType_Unresolved(t) ==
    IF IsInfer(t) /\ ~IsInfer(type[PointedIvar(t.slot)]) THEN type[PointedIvar(t.slot)] ELSE t

\* get_type: the root's type for a variable, any other type as it stands.
GetType(t) == IF IsInfer(t) THEN type[PointedIvar(t.slot)] ELSE t

\* TypeRef: a variable, or a constructor with its arguments, which nest.
TypesOf(arguments) ==
    [con : {"infer"}, slot : Nat, args : {<< >>}]
      \cup [con : Constructors, slot : {0}, args : arguments]

Nested[n \in 0..MaxNesting] == TypesOf(IF n = 0 THEN {<< >>} ELSE Seq(Nested[n - 1]))
TypeRefs == Nested[MaxNesting]

\* The variables in a type (visit_ty_with).
Vars(t) ==
    LET named[s \in TypeRefs] ==
          IF IsInfer(s) THEN {s.slot} ELSE UNION {named[s.args[k]] : k \in DOMAIN s.args}
    IN named[t]

\* A type with other types for its variables.
Subst(t, to) ==
    LET subst[s \in TypeRefs] ==
          IF IsInfer(s) THEN to[s.slot]
          ELSE Term(s.con, [k \in DOMAIN s.args |-> subst[s.args[k]]])
    IN subst[t]

\* The classes of a function's variables, and the types it equates: over them.
Made == UNION {[1..n -> Classes] : n \in 0..MaxIvars}

ASSUME TypesAssumption ==
    \A made \in Made : \A t \in TypesOver(made) : t \in TypeRefs /\ Vars(t) \subseteq DOMAIN made

Call(l, r, top) == [l |-> l, r |-> r, top |-> top]
Idle == phase \in {"rules", "pass"} /\ todo = << >>

Init ==
    /\ TableInit
    /\ todo = << >> /\ phase = "rules" /\ at = 1 /\ changed = FALSE
    /\ equated = 0 /\ born = << >>

\* add_ivars on a type without a variable.
AddIvar(ic) ==
    /\ Idle
    /\ Len(alias) < MaxIvars
    /\ NewIvar(ic)
    /\ born' = Append(born, ic)
    /\ changed' = TRUE
    /\ UNCHANGED <<todo, phase, at, equated>>

EquateTypes(l, r) ==
    /\ Idle
    /\ equated < MaxEquations
    /\ todo' = <<Call(l, r, TRUE)>>
    /\ equated' = equated + 1
    /\ UNCHANGED <<alias, type, class, phase, at, changed, born>>

(***************************************************************************)
(* One call.  The outer function looks both types up, lets `!` pass for    *)
(* any known type, and goes on with what it found.                         *)
(***************************************************************************)
Here == Head(todo)
L == GetType(Here.l)
R == GetType(Here.r)
Equal == Here.l = Here.r \/ L = R

Answer == todo' = Tail(todo) /\ UNCHANGED <<phase, at, equated, born>>
Instead(calls) == /\ todo' = calls \o Tail(todo)
                  /\ UNCHANGED <<alias, type, class, phase, at, changed, equated, born>>
Reject == phase' = "error" /\ UNCHANGED <<alias, type, class, todo, at, changed, equated, born>>

AlreadyEqual == Equal /\ Answer /\ UNCHANGED <<alias, type, class, changed>>

\* `!` says nothing of a type that is known.
Dropped(c) ==
    /\ c.top
    /\ \/ GetType(c.l) = Never /\ ~IsInfer(GetType(c.r))
       \/ GetType(c.r) = Never /\ ~IsInfer(GetType(c.l))

NeverIgnored == ~Equal /\ Dropped(Here) /\ Answer /\ UNCHANGED <<alias, type, class, changed>>

\* Mutant: the outer function calls itself.
EnterInner_Outer == ~Equal /\ Here.top /\ ~Dropped(Here) /\ Instead(<<Call(L, R, TRUE)>>)

EnterInner == ~Equal /\ Here.top /\ ~Dropped(Here) /\ Instead(<<Call(L, R, FALSE)>>)

Inner == Here.top = FALSE /\ ~Equal

\* Two unknown types: right becomes an alias of left.
BothUnknown ==
    /\ Inner /\ IsInfer(L) /\ IsInfer(R)
    /\ IF CanUnify(L.slot, R.slot)
       THEN IvarUnify(L.slot, R.slot) /\ changed' = TRUE /\ Answer
       ELSE Reject

\* The lambda set_ivar: a type that names the variable itself is a bug.
SetIvar(i, ty) ==
    IF i \in Vars(ty) \/ ~Fits(class[i], ty) THEN Reject
    ELSE SetIvarTo(i, ty) /\ changed' = TRUE /\ Answer

OneUnknown ==
    /\ Inner
    /\ \/ IsInfer(R) /\ ~IsInfer(L) /\ SetIvar(R.slot, L)
       \/ IsInfer(L) /\ ~IsInfer(R) /\ SetIvar(L.slot, R)

\* Two known types: the same constructor, and then their arguments in order.
\* A `!` on the right is let through, unless a variable stands for it, whose
\* value set_ivar_to does not overwrite.
Matches(l, r) == l.con = r.con /\ Len(l.args) = Len(r.args)

\* Mutant: only the first arguments are compared.
Decompose_FirstOnly ==
    /\ Inner /\ ~IsInfer(L) /\ ~IsInfer(R)
    /\ IF ~Matches(L, R) THEN Reject
       ELSE Instead(IF L.args = << >> THEN << >> ELSE <<Call(L.args[1], R.args[1], FALSE)>>)

Decompose ==
    /\ Inner /\ ~IsInfer(L) /\ ~IsInfer(R)
    /\ IF R = Never
       THEN IF IsInfer(Here.r) THEN Reject
            ELSE Answer /\ UNCHANGED <<alias, type, class, changed>>
       ELSE IF Matches(L, R)
            THEN Instead([k \in DOMAIN L.args |-> Call(L.args[k], R.args[k], FALSE)])
            ELSE Reject

\* get_pointed_ivar asserts that a variable is in the table.
InTable(t) == IsInfer(t) => t.slot \in Slots

EquateStep ==
    /\ phase \in {"rules", "pass"} /\ todo # << >> /\ Len(todo) <= MaxCalls
    /\ IF ~InTable(Here.l) \/ ~InTable(Here.r) THEN Reject
       ELSE \/ AlreadyEqual \/ NeverIgnored \/ EnterInner
            \/ BothUnknown \/ OneUnknown \/ Decompose

(***************************************************************************)
(* The end of a pass: defaults if nothing changed, and compaction.         *)
(***************************************************************************)
\* The roots whose types are named in the type of the root i.
Names(i) == {PointedIvar(k) : k \in Vars(type[i])}

\* Mutant: only a type that names its own variable is found.
NoTypeLoop_Direct == \A i \in Slots : ~IsAlias(i) /\ ~Unknown(i) => i \notin Names(i)

\* check_for_loops: following the known types of roots comes to an end.
NoTypeLoop ==
    \A C \in SUBSET {i \in Slots : ~IsAlias(i) /\ ~Unknown(i)} :
        C # {} => \E i \in C : Names(i) \cap C = {}

\* expand_ivars: each variable in a type is replaced by its root's type.
Expanded(t, ty) == Subst(t, [i \in Slots |-> ty[PointedIvar(i)]])

EndRules ==
    /\ Idle /\ phase = "rules"
    /\ phase' = IF changed THEN "pass" ELSE "done"
    /\ changed' = FALSE
    /\ UNCHANGED <<alias, type, class, todo, at, equated, born>>

Defaults ==
    /\ Idle /\ phase = "pass"
    /\ phase' = "check"
    /\ IF changed THEN UNCHANGED <<alias, type, class, changed>>
       ELSE ApplyDefaults /\ changed' = (\E i \in Slots : Defaulted(i))
    /\ UNCHANGED <<todo, at, equated, born>>

CheckForLoops ==
    /\ phase = "check"
    /\ IF NoTypeLoop
       THEN /\ phase' = "compact" /\ at' = 1
            /\ UNCHANGED <<alias, type, class, todo, changed, equated, born>>
       ELSE Reject

\* TraitResolution::compact_ivars, slot by slot.
Compact ==
    /\ phase = "compact" /\ at \in Slots
    /\ LET ty == IF IsAlias(at) THEN Null ELSE Expanded(type[at], type)
       IN ty \in TypeRefs \cup {Null} /\ CompactIvar(at, ty)
    /\ at' = at + 1
    /\ UNCHANGED <<todo, phase, changed, equated, born>>

\* The end of a pass: the test of the loop around it (take_changed).
EndPass ==
    /\ phase = "compact" /\ at \notin Slots
    /\ phase' = IF changed THEN "pass" ELSE "done"
    /\ changed' = FALSE
    /\ at' = 1
    /\ UNCHANGED <<alias, type, class, todo, equated, born>>

Next ==
    \/ \E ic \in Classes : AddIvar(ic)
    \/ \E l, r \in TypesOver(born) : EquateTypes(l, r)
    \/ EquateStep
    \/ EndRules \/ Defaults \/ CheckForLoops \/ Compact \/ EndPass

Spec == Init /\ [][Next]_vars

\* The compiler goes on with what it has begun.
FairSpec == /\ Spec /\ WF_vars(EquateStep)
            /\ WF_vars(EndRules \/ Defaults \/ CheckForLoops \/ Compact \/ EndPass)

(***************************************************************************)
(* Properties that need no meaning of types (UnifyProps has the others).    *)
(***************************************************************************)
\* At the end every literal has a type of its class, also when variables of
\* other expressions were equated with it before and after (ty_class).
LiteralsTyped ==
    phase = "done" =>
      \A i \in Slots : LET ty == GetType(Infer(i))
                       IN born[i] # "None" => ~IsInfer(ty) /\ Fits(born[i], ty)

\* The table behaves as the table alone promises: whatever calls make of it,
\* only roots are unified, and only unknown ones are set.
TableRespected == TableSpec
=============================================================================
