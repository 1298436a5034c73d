----------------------------- MODULE GlobIndex -----------------------------
(***************************************************************************)
(* The index of names of each module (resolve/index.cpp): the items and    *)
(* named imports of every module first, then the glob imports, module by   *)
(* module in pre-order.  A module stands for its absolute path.  The       *)
(* index's four namespaces are filled alike; one is modelled.  Enums and   *)
(* modules of other crates are modules whose items are public and that     *)
(* have no globs of their own.                                             *)
(***************************************************************************)
EXTENDS Naturals, Sequences, SequencesExt

CONSTANTS
    Preorder,   \* the crate's modules, a parent before its children
    Global,     \* the visibility of `pub`; others are the path they name
    Crates      \* what may be written in the modules

Mods == ToSet(Preorder)

ASSUME PreorderAssumption ==
    /\ Preorder \in Seq(Mods) /\ Preorder # << >>
    /\ \A j, k \in DOMAIN Preorder : Preorder[j] = Preorder[k] => j = k
    /\ \A j, k \in DOMAIN Preorder : IsPrefix(Preorder[j], Preorder[k]) => j <= k

ASSUME GlobalAssumption == Global \notin Mods

\* Every name that is declared or imported has a path and a visibility; a glob
\* without `pub` is for its own module.
Glob == [mod : Mods, vis : Mods \cup {Global}, private : BOOLEAN]

ASSUME CratesAssumption ==
    \A c \in Crates : \A m \in Mods :
        /\ \A n \in DOMAIN c.decls[m] : DOMAIN c.decls[m][n] = {"path", "vis"}
        /\ \A n \in DOMAIN c.named[m] : DOMAIN c.named[m][n] = {"path", "vis"}
        /\ c.globs[m] \in Seq(Glob)
        /\ \A g \in ToSet(c.globs[m]) : g.private => g.vis = m

VARIABLES
    crate,      \* decls, named: [Mods -> [names -> entries]], and globs
    index,      \* m_namespace_items (and the like) of each module
    populated,  \* m_index_populated of each module
    phase,      \* "base", "glob", "done"
    at,         \* the position of the module at hand in Preorder
    uses,       \* its glob imports that are still to be done
    todo,       \* the calls of Wildcard__submod left of the one at hand
    stack       \* the modules whose call has not returned

vars == <<crate, index, populated, phase, at, uses, todo, stack>>

(***************************************************************************)
(* Visibility (ast/ast.cpp).                                               *)
(***************************************************************************)
Visible(vis, from) == vis = Global \/ IsPrefix(vis, from)

VisContains(vis, x) == vis = Global \/ Visible(x, vis)

\* inplace_union; for two visibilities of one module the last case, a TODO of
\* the code, does not arise.
Union(vis, x) == IF VisContains(vis, x) THEN vis ELSE x

(***************************************************************************)
(* _add_item, for each name in new: the first entry of a name stays.       *)
(***************************************************************************)
\* A mutant: the last import of a name wins.
AddItems_LastWins(list, new) ==
    [n \in DOMAIN list \cup DOMAIN new |-> IF n \in DOMAIN new THEN new[n] ELSE list[n]]

AddItems(list, new) ==
    [n \in DOMAIN list \cup DOMAIN new |->
        IF n \notin DOMAIN list THEN new[n]
        ELSE IF n \in DOMAIN new /\ new[n].path = list[n].path
             THEN [list[n] EXCEPT !.vis = Union(@, new[n].vis)]
             ELSE list[n]]

(***************************************************************************)
(* Resolve_Index_Module_Base.                                              *)
(***************************************************************************)
\* A mutant: only `pub` counts, not `pub(crate)`.
HasPubWildcard_FullyPublic(m) == \E g \in ToSet(crate.globs[m]) : g.vis = Global

HasPubWildcard(m) == \E g \in ToSet(crate.globs[m]) : ~g.private

Dst == Preorder[at]

Init ==
    /\ crate \in Crates
    /\ index = [m \in Mods |-> << >>]
    /\ populated = [m \in Mods |-> 0]
    /\ phase = "base" /\ at = 1
    /\ uses = << >> /\ todo = << >> /\ stack = {}

Base ==
    /\ phase = "base"
    /\ index' = [index EXCEPT ![Dst] = AddItems(crate.decls[Dst], crate.named[Dst])]
    /\ populated' = [populated EXCEPT ![Dst] = IF HasPubWildcard(Dst) THEN 1 ELSE 2]
    /\ IF at < Len(Preorder)
       THEN at' = at + 1 /\ UNCHANGED <<phase, uses>>
       ELSE at' = 1 /\ phase' = "glob" /\ uses' = crate.globs[Preorder[1]]
    /\ UNCHANGED <<crate, todo, stack>>

(***************************************************************************)
(* Resolve_Index_Module_Wildcard: each glob of the module at hand.         *)
(***************************************************************************)
\* A call for a glob that the module at hand may see, or may not.
Call(mod, vis, seen) == [mod |-> mod, vis |-> vis, seen |-> seen, return |-> FALSE]
Return(mod) == [mod |-> mod, vis |-> Global, seen |-> TRUE, return |-> TRUE]

\* A mutant: the glob is tried again until its module is complete.
UseStmt_UntilComplete ==
    /\ phase = "glob" /\ todo = << >> /\ uses # << >>
    /\ todo' = <<Call(Head(uses).mod, Head(uses).vis, TRUE)>>
    /\ uses' = IF populated[Head(uses).mod] = 2 THEN Tail(uses) ELSE uses
    /\ UNCHANGED <<crate, index, populated, phase, at, stack>>

UseStmt ==
    /\ phase = "glob" /\ todo = << >> /\ uses # << >>
    /\ todo' = <<Call(Head(uses).mod, Head(uses).vis, TRUE)>>
    /\ uses' = Tail(uses)
    /\ UNCHANGED <<crate, index, populated, phase, at, stack>>

EndModule ==
    /\ phase = "glob" /\ todo = << >> /\ uses = << >>
    /\ populated' = [populated EXCEPT ![Dst] = 2]
    /\ IF at < Len(Preorder)
       THEN at' = at + 1 /\ uses' = crate.globs[Preorder[at + 1]] /\ UNCHANGED phase
       ELSE phase' = "done" /\ UNCHANGED <<at, uses>>
    /\ UNCHANGED <<crate, index, todo, stack>>

(***************************************************************************)
(* Resolve_Index_Module_Wildcard__submod: what the module at hand may see  *)
(* of src is copied, and then what the globs of src bring.                 *)
(***************************************************************************)
Src == Head(todo).mod
Starting == phase = "glob" /\ todo # << >> /\ ~Head(todo).return

Copied(src, vis) ==
    [n \in {k \in DOMAIN index[src] : Visible(index[src][k].vis, Dst)} |->
        [path |-> index[src][n].path, vis |-> vis]]

\* A mutant: only what the module has by now is copied.
Followed_Never(src) == << >>

\* The globs of src that are looked at, in order.
Followed(src) == IF populated[src] = 2 THEN << >> ELSE crate.globs[src]

SkipUse ==
    /\ Starting /\ ~Head(todo).seen
    /\ todo' = Tail(todo)
    /\ UNCHANGED <<crate, index, populated, phase, at, uses, stack>>

AvoidRecursion ==
    /\ Starting /\ Head(todo).seen /\ Src \in stack
    /\ todo' = Tail(todo)
    /\ UNCHANGED <<crate, index, populated, phase, at, uses, stack>>

Submod ==
    LET vis == Head(todo).vis
        globs == Followed(Src)
    IN /\ Starting /\ Head(todo).seen /\ Src \notin stack
       /\ stack' = stack \cup {Src}
       /\ index' = [index EXCEPT ![Dst] = AddItems(@, Copied(Src, vis))]
       /\ todo' = [k \in DOMAIN globs |-> Call(globs[k].mod, vis, Visible(globs[k].vis, Dst))]
                    \o <<Return(Src)>> \o Tail(todo)
       /\ UNCHANGED <<crate, populated, phase, at, uses>>

Leave ==
    /\ phase = "glob" /\ todo # << >> /\ Head(todo).return
    /\ stack' = stack \ {Src}
    /\ todo' = Tail(todo)
    /\ UNCHANGED <<crate, index, populated, phase, at, uses>>

Next == Base \/ UseStmt \/ EndModule \/ SkipUse \/ AvoidRecursion \/ Submod \/ Leave

Spec == Init /\ [][Next]_vars

\* A single thread that does not wait for anything.
FairSpec == Spec /\ WF_vars(Next)
=============================================================================
