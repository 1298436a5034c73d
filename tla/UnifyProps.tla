----------------------------- MODULE UnifyProps -----------------------------
(***************************************************************************)
(* Properties of type inference.                                           *)
(***************************************************************************)
EXTENDS Unify

CONSTANT Grounds    \* some types without variables

ASSUME GroundsAssumption ==
    Grounds \subseteq TypeRefs /\ \A g \in Grounds : g.con = "!" => g = Never

(***************************************************************************)
(* What the table and the calls not answered yet stand for: the ways to    *)
(* give every variable one of Grounds under which they hold.               *)
(***************************************************************************)
Ivars == 1..MaxIvars
Valuations == [Ivars -> Grounds]

Value(t, v) == Subst(t, v)

Agree(l, r) == {v \in Valuations : Value(l, v) = Value(r, v)}
OfClass(i, ic) == {v \in Valuations : Fits(ic, v[i])}
ByDefault(I, ic) == {v \in Valuations : \A i \in I : v[i] = Default[ic[i]]}

Holds(i, v) ==
    IF IsAlias(i) THEN v[i] = v[alias[i]]
    ELSE IF Unknown(i) THEN Fits(class[i], v[i])
    ELSE v[i] = Value(type[i], v)

Meaning ==
    LET calls == {d \in ToSet(todo) : ~Dropped(d)}
    IN {v \in Valuations : /\ \A i \in Slots : Holds(i, v)
                          /\ \A c \in calls : Value(c.l, v) = Value(c.r, v)}

\* The constraints a program can state: equations, literals, and defaults.
Constraints ==
    {Agree(l, r) : l, r \in UNION {TypesOver(made) : made \in Made}}
      \cup {OfClass(i, ic) : i \in Ivars, ic \in Classes}
      \cup {ByDefault(I, ic) : I \in SUBSET Ivars, ic \in [Ivars -> {"Integer", "Float"}]}

Equations == INSTANCE TypeEquations WITH sols <- Meaning

(***************************************************************************)
(* Properties.                                                             *)
(***************************************************************************)
\* Every call of equate_types narrows the types of the variables by exactly
\* what it says, and no step of its recursion, no unification of variables, no
\* class of a literal and no compaction adds or forgets anything.
NothingLostOrAdded == Equations!Spec

\* The compiler rejects only equations that no types satisfy in which literals
\* are numbers.
ErrorsJustified ==
    phase = "error" =>
      \A v \in Meaning : \E i \in Slots : born[i] # "None" /\ v[i] = Never

\* Among any of the variables with a known type there is one whose type names
\* none of them.
FiniteTypes ==
    \A C \in SUBSET {i \in Slots : ~IsAlias(i) /\ ~Unknown(i)} :
        C # {} => \E i \in C : \A k \in Vars(type[i]) : PointedIvar(k) \notin C

\* When a function's types are done, each is finite, although ivar_unify ("TODO:
\* Assert that setting this won't cause a loop") and set_ivar do not look through
\* aliases, and compaction rewrites types after the check.
TypesFinite == phase = "done" => FiniteTypes

\* Every equation is answered or rejected, a contradictory one too, unless by
\* then a type contains itself: following such types need not end before
\* check_for_loops finds out.
Answered ==
    (todo # << >>) ~> (todo = << >> \/ phase = "error" \/ ~FiniteTypes)
=============================================================================
