------------------------------ MODULE MC_Unify ------------------------------
(***************************************************************************)
(* Instances of Unify for TLC.                                             *)
(***************************************************************************)
EXTENDS UnifyProps

I32 == Term("i32", << >>)
F64 == Term("f64", << >>)
Slice(t) == Term("slice", <<t>>)
Tuple(t, u) == Term("tuple", <<t, u>>)

\* Three variables, of which some are those of literals; nothing is equated
\* before there are three.
SomeTypes(made) ==
    CASE made = <<"None", "None", "None">> ->
           {Infer(1), Infer(2), Infer(3), Slice(Infer(1)),
            Tuple(Infer(1), Infer(2)), Tuple(Infer(3), F64)}
      [] made = <<"None", "Integer", "Integer">> ->
           {Infer(1), Infer(2), Infer(3), I32, Never, Slice(Infer(1))}
      [] made = <<"Integer", "None", "Float">> ->
           {Infer(1), Infer(2), Infer(3), F64, Never}
      [] OTHER -> {}
SomeGrounds == {I32, F64, Never, Slice(I32), Slice(Slice(F64)), Tuple(I32, F64)}
=============================================================================
