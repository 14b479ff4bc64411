------------------------------ MODULE GoValues ------------------------------
(* The value that stands for Go's nil pointer, the zero time and a missing *)
(* annotation or object.                                                   *)
EXTENDS Integers

CONSTANT Nil

ASSUME NilAssumption == Nil \notin Int
=============================================================================
