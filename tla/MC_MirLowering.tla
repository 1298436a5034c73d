--------------------------- MODULE MC_MirLowering ---------------------------
(***************************************************************************)
(* Instances of MirLowering for TLC: kinds of bodies.  Slot 1 is the       *)
(* argument, 2 and 3 are variables.                                        *)
(***************************************************************************)
EXTENDS MirLowering

\* Nothing is assigned again once it was moved.
Once == [args |-> {1}, locals |-> {2, 3}, ops |-> 5, splits |-> 2, loops |-> 1,
         late |-> FALSE, again |-> FALSE, anyloop |-> FALSE]

\* One variable, set and moved at will, without an if inside an if.
Again == [args |-> {}, locals |-> {2}, ops |-> 7, splits |-> 1, loops |-> 2,
          late |-> TRUE, again |-> TRUE, anyloop |-> FALSE]

\* One variable, set and moved at will, in nested ifs.
Nested == [args |-> {}, locals |-> {2}, ops |-> 6, splits |-> 2, loops |-> 0,
           late |-> FALSE, again |-> TRUE, anyloop |-> FALSE]

OnceOrAgain == {Once, Again}
NestedOnly == {Nested}
=============================================================================
