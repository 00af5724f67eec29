------------------------------- MODULE Slices -------------------------------
(***************************************************************************)
(* How n items are divided into s slices: by the row group operator of the *)
(* Parquet scan (runtime/src/operators/parquet_scan_impl.cpp) and by the   *)
(* operators that split their input for the workers of a parallel map      *)
(* (generate/src/code_gen/operators/Split*Operator.h).                     *)
(***************************************************************************)
EXTENDS Integers

(* Mutant: the slices have the rounded size n / s. *)
SliceStartRounded(k, n, s) == k * (n \div s)

(* The first item, counted from zero, of slice k; integers round down. *)
SliceStart(k, n, s) == (k * n) \div s

(* The items of the slices k, ..., l - 1. *)
Slice(k, l, n, s) == {i \in 0 .. n - 1 : SliceStart(k, n, s) <= i /\ i < SliceStart(l, n, s)}
=============================================================================
