--------------------------- MODULE GlobIndexProps ---------------------------
(***************************************************************************)
(* Properties of the index, and what glob imports mean: the least sets of  *)
(* bindings closed under them.                                             *)
(***************************************************************************)
EXTENDS GlobIndex

Sees(vis) == {m \in Mods : Visible(vis, m)}
Bound(name, path, seen) == [name |-> name, path |-> path, seen |-> seen]

\* What module m of the crate c declares, and imports by name.
Own(c, m) ==
    {Bound(n, c.decls[m][n].path, Sees(c.decls[m][n].vis)) : n \in DOMAIN c.decls[m]}
ByName(c, m) ==
    {Bound(n, c.named[m][n].path, Sees(c.named[m][n].vis)) : n \in DOMAIN c.named[m]}

\* What m binds itself: its declarations win.
Explicit(c, m) == Own(c, m) \cup {b \in ByName(c, m) : b.name \notin DOMAIN c.decls[m]}

\* A glob brings what its module binds and the importer may see, unless the
\* importer binds the name itself; others see it if they see both the import
\* and what is imported.
Brought(c, m, bindings) ==
    UNION {{Bound(b.name, b.path, b.seen \cap Sees(g.vis)) :
              b \in {d \in bindings[g.mod] :
                       m \in d.seen /\ d.name \notin {e.name : e \in Explicit(c, m)}}} :
             g \in ToSet(c.globs[m])}

\* What globs bring through chains of up to as many globs as there are modules.
Meanings(c) ==
    LET Round[k \in 0..Len(Preorder)] ==
          IF k = 0 THEN [m \in Mods |-> Explicit(c, m)]
          ELSE [m \in Mods |-> Round[k - 1][m] \cup Brought(c, m, Round[k - 1])]
    IN Round[Len(Preorder)]

\* The modules to which chains of globs lead from m, of whatever visibility.
Following(c, m) ==
    {s \in Mods : \A S \in SUBSET Mods :
        m \in S /\ (\A k \in S : \A g \in ToSet(c.globs[k]) : g.mod \in S) => s \in S}

\* Everything that may come to m: what is written in it, and what is written in
\* the modules that its globs lead to, also where a module on the way binds the
\* name itself.
Incoming(c, m) ==
    Own(c, m) \cup ByName(c, m)
      \cup UNION {{Bound(b.name, b.path, Sees(g.vis)) :
                     b \in UNION {Own(c, s) \cup ByName(c, s) : s \in Following(c, g.mod)}} :
                   g \in ToSet(c.globs[m])}

\* The paths bound to a name in a set of bindings.
Paths(bindings, n) == {b.path : b \in {d \in bindings : d.name = n}}

\* The binding b of m cannot be taken for another one: m binds the name itself,
\* or whatever may come to m under it is the same item.
Clear(c, m, b) == b \in Explicit(c, m) \/ Paths(Incoming(c, m), b.name) = {b.path}

\* No module imports an item twice, by name or by globs, with different
\* visibilities.
OneVisibility(c) ==
    \A m \in Mods : \A b, d \in Incoming(c, m) :
        b.name = d.name /\ b.path = d.path => b.seen = d.seen

(***************************************************************************)
(* Properties.                                                             *)
(***************************************************************************)
\* A name with one meaning is there in the end and has that meaning, whatever
\* the order of the modules and however their globs form cycles: neither the
\* recursion guard nor the mark of a module as complete loses what a glob
\* brings.
NothingMissing ==
    phase = "done" /\ OneVisibility(crate) =>
      \A m \in Mods : \A b \in Meanings(crate)[m] :
        Clear(crate, m, b) => b.name \in DOMAIN index[m] /\ index[m][b.name].path = b.path

\* Only what globs bring is imported by them.  It is not so: what is copied gets
\* the visibility of the import, also where the item's own is less; and the globs
\* of a module that is not complete are followed also for names that the module
\* binds for itself.
OnlyMeanings ==
    phase = "done" =>
      \A m \in Mods : \A n \in DOMAIN index[m] :
        index[m][n].path \in Paths(Meanings(crate)[m], n)

\* What a module that is marked as complete shows to a module whose globs have
\* been followed, or are being followed, does not grow any more: they have not
\* followed its own globs.  (A module with private globs only is marked before
\* they are done; they add nothing that a module before it could see.)
CompleteIsFinal ==
    [][\A k \in 1..at : \A m \in Mods \ {Preorder[k]} :
         phase = "glob" /\ populated[m] = 2 =>
           \A n \in DOMAIN index'[m] :
             Visible(index'[m][n].vis, Preorder[k]) =>
               n \in DOMAIN index[m] /\ Visible(index[m][n].vis, Preorder[k])]_vars

\* An import never takes an entry's place nor its item: first come, first kept.
EntriesStay ==
    [][\A m \in Mods : \A n \in DOMAIN index[m] :
         n \in DOMAIN index'[m] /\ index'[m][n].path = index[m][n].path]_vars

\* Importing an item once more never hides it from a module that saw it
\* (item.hpp: inplace_union "Updates this visibility such that `contains(x)`
\* returns true").
NeverHidden ==
    [][\A m \in Mods : \A n \in DOMAIN index[m] :
         Sees(index[m][n].vis) \subseteq Sees(index'[m][n].vis)]_vars

\* Globs of modules that import each other are followed to an end.
Ends == <>(phase = "done")
=============================================================================
