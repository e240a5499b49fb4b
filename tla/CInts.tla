------------------------------- MODULE CInts -------------------------------
(***************************************************************************)
(* The sized C integer types, with their widths as constants so that their *)
(* boundaries are reached with small numbers.                              *)
(***************************************************************************)
EXTENDS Integers

CONSTANTS W8, W16, W32, W64   \* bits of int8_t, int16_t, int32_t, int64_t

ASSUME WidthAssumption ==
    /\ {W8, W16, W32, W64} \subseteq Nat
    /\ 1 < W8 /\ W8 < W16 /\ W16 < W32 /\ W32 < W64

Signed   == {"INT8", "INT16", "INT32", "INT64"}
Unsigned == {"UINT8", "UINT16", "UINT32", "UINT64"}
IntTypes == Signed \cup Unsigned

Width == [INT8 |-> W8, INT16 |-> W16, INT32 |-> W32, INT64 |-> W64,
          UINT8 |-> W8, UINT16 |-> W16, UINT32 |-> W32, UINT64 |-> W64]

MaxOf(T) == IF T \in Signed THEN 2^(Width[T] - 1) - 1 ELSE 2^Width[T] - 1
MinOf(T) == IF T \in Signed THEN -(2^(Width[T] - 1)) ELSE 0

RangeOf(T) == MinOf(T) .. MaxOf(T)

(* A C conversion of n to the integer type T. *)
Cast(T, n) ==
    LET m == n % 2^Width[T]
    IN  IF m > MaxOf(T) THEN m - 2^Width[T] ELSE m
=============================================================================
