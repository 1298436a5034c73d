---------------------------- MODULE MC_ConstArith ----------------------------
(***************************************************************************)
(* The constant evaluator's arithmetic with words of three bits: signed    *)
(* and unsigned types narrower than a word (i8 to i32), as wide as a word  *)
(* (i64) and as wide as two (i128).                                        *)
(***************************************************************************)
EXTENDS ConstArith

AllWidths == [signed : BOOLEAN, bits : {2, 3, 6}]
Narrow == [signed : {TRUE}, bits : {3}]
=============================================================================
