--------------------------- MODULE TypeEquations ---------------------------
(***************************************************************************)
(* What type inference means: of all the ways to give the variables types, *)
(* those that are left once some equations were asked for, some variables  *)
(* were made for literals, and some literals got their default.            *)
(***************************************************************************)
CONSTANTS Valuations, Constraints   \* Constraints: sets of valuations

VARIABLE sols

Init == sols = Valuations
Ask ==
    LET open == sols
        left == sols'
    IN /\ left # open
       /\ \E c \in Constraints : left = open \cap c
Spec == Init /\ [][Ask]_sols
=============================================================================
