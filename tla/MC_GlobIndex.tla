---------------------------- MODULE MC_GlobIndex ----------------------------
(***************************************************************************)
(* Instances of GlobIndex for TLC: the root with modules a and b, and a    *)
(* module within a.                                                        *)
(***************************************************************************)
EXTENDS GlobIndexProps

R == << >>
A == <<"a">>
B == <<"b">>
AC == <<"a", "c">>
Tree == <<R, A, AC, B>>
Four == {R, A, B, AC}

Entry(path, vis) == [path |-> path, vis |-> vis]
Item(m) == Append(m, "x")
Nothing == [m \in Four |-> << >>]

\* One name, declared in at most two modules, publicly or not, and perhaps
\* imported by name into a third.
Decls ==
    {[m \in Four |-> IF m \in DOMAIN d THEN "x" :> Entry(Item(m), d[m]) ELSE << >>] :
       d \in UNION {{v \in [D -> Four \cup {Global}] : \A m \in D : v[m] \in {m, Global}} :
                      D \in {E \in SUBSET Four : Cardinality(E) \in 1..2}}}
Named(d) ==
    {[Nothing EXCEPT ![m] = "x" :> Entry(Item(s), v)] :
       m \in {k \in Four : d[k] = << >>},
       s \in {k \in Four : d[k] # << >> /\ d[k]["x"].vis = Global},
       v \in {R, Global}}

\* Globs of other modules: private, public, or pub(crate).
GlobChoices(pub) ==
    {g \in [of : Four, mod : Four, vis : Four \cup {Global}, private : BOOLEAN] :
       g.of # g.mod /\ IF g.private THEN g.vis = g.of ELSE g.vis \in pub}
ToGlob(g) == [mod |-> g.mod, vis |-> g.vis, private |-> g.private]
OfModule(gs, m) == LET own == SelectSeq(gs, LAMBDA g : g.of = m)
                   IN [k \in DOMAIN own |-> ToGlob(own[k])]
Globs(n, pub) ==
    {[m \in Four |-> OfModule(gs, m)] : gs \in UNION {[1..k -> GlobChoices(pub)] : k \in 0..n}}

\* Three globs, no named import and no two declarations of which one is
\* private; or two globs that may be pub(crate).
FewDecls == {d \in Decls : \/ Cardinality({m \in Four : d[m] # << >>}) = 1
                           \/ \A m \in Four : d[m] # << >> => d[m]["x"].vis = Global}
Crates3 == [decls : FewDecls, named : {Nothing}, globs : Globs(3, {Global})]
Crates2 ==
    UNION {[decls : {d}, named : Named(d) \cup {Nothing}, globs : Globs(2, {R, Global})] :
             d \in Decls}
SomeCrates == Crates3 \cup Crates2

\* The root imports all of a and of b.  The x of a is the x of b, privately, and
\* hides the x of the module within a, of which a exports all.
ShadowCrate ==
    {[decls |-> [m \in Four |-> IF m \in {B, AC} THEN "x" :> Entry(Item(m), Global) ELSE << >>],
      named |-> [Nothing EXCEPT ![A] = "x" :> Entry(Item(B), A)],
      globs |-> [m \in Four |->
        CASE m = R -> <<[mod |-> A, vis |-> R, private |-> TRUE],
                        [mod |-> B, vis |-> R, private |-> TRUE]>>
          [] m = A -> <<[mod |-> AC, vis |-> Global, private |-> FALSE]>>
          [] OTHER -> << >>]]}

\* Two globs, of which one may be pub(crate).
TwiceCrates == [decls : Decls, named : {Nothing}, globs : Globs(2, {R, Global})]
=============================================================================
