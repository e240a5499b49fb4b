------------------------- MODULE ScalarValue_proofs -------------------------
(***************************************************************************)
(* Proofs about ScalarValue: for integer types of any widths, any scalar,  *)
(* any number of wrappers of it and any order of calls.                    *)
(***************************************************************************)
EXTENDS ScalarValue, FiniteSetTheorems, FunctionTheorems, TLAPS

-----------------------------------------------------------------------------
(* Powers of two.  The provers know nothing of them; a power of two is the *)
(* number of subsets of a finite set, of which the library has theorems.   *)

\* A power of two is the number of subsets of an interval.
LEMMA PowerCounts ==
    ASSUME NEW n \in Nat
    PROVE  /\ IsFiniteSet(1 .. n) /\ Cardinality(1 .. n) = n
           /\ IsFiniteSet(SUBSET (1 .. n)) /\ Cardinality(SUBSET (1 .. n)) = 2^n
           /\ 2^n \in Nat /\ 2^n >= 1
  <1>1. IsFiniteSet(1 .. n) /\ Cardinality(1 .. n) = n
    BY FS_Interval
  <1>2. IsFiniteSet(SUBSET (1 .. n)) /\ Cardinality(SUBSET (1 .. n)) = 2^n
    BY <1>1, FS_SUBSET
  <1>3. 2^n \in Nat
    BY <1>2, FS_CardinalityType
  <1>4. 2^n # 0
    BY <1>2, FS_EmptySet
  <1> QED
    BY <1>1, <1>2, <1>3, <1>4

\* 2^(m+n) = 2^m * 2^n: a subset of an interval is one of its beginning and
\* one of the rest.
LEMMA PowerAdds ==
    ASSUME NEW m \in Nat, NEW n \in Nat
    PROVE  2^(m + n) = 2^m * 2^n
  <1> DEFINE A == 1 .. m
             B == m + 1 .. m + n
             C == 1 .. m + n
             P == (SUBSET A) \X (SUBSET B)
             f == [p \in P |-> p[1] \cup p[2]]
  <1>1. IsFiniteSet(B) /\ Cardinality(B) = n
    BY FS_Interval
  <1>2. IsFiniteSet(SUBSET B) /\ Cardinality(SUBSET B) = 2^n
    BY <1>1, FS_SUBSET
  <1>3. IsFiniteSet(SUBSET A) /\ Cardinality(SUBSET A) = 2^m
    BY PowerCounts
  <1>4. IsFiniteSet(P) /\ Cardinality(P) = 2^m * 2^n
    <2> DEFINE X == SUBSET A
               Y == SUBSET B
    <2>1. IsFiniteSet(X) /\ IsFiniteSet(Y)
      BY <1>2, <1>3
    <2> HIDE DEF X, Y
    <2>2. IsFiniteSet(X \X Y) /\ Cardinality(X \X Y) = Cardinality(X) * Cardinality(Y)
      BY <2>1, FS_Product
    <2> QED
      BY <1>2, <1>3, <2>2 DEF X, Y
  <1>5. A \cup B = C /\ A \cap B = {}
    OBVIOUS
  <1> HIDE DEF A, B, C
  <1>6. f \in [P -> SUBSET C]
    BY <1>5
  <1>7. ASSUME NEW p \in P, NEW q \in P, f[p] = f[q] PROVE p = q
    <2>1. p[1] = f[p] \cap A /\ p[2] = f[p] \cap B
      BY <1>5
    <2>2. q[1] = f[q] \cap A /\ q[2] = f[q] \cap B
      BY <1>5
    <2>3. p = <<p[1], p[2]>> /\ q = <<q[1], q[2]>>
      OBVIOUS
    <2> QED
      BY <1>7, <2>1, <2>2, <2>3
  <1>8. ASSUME NEW S \in SUBSET C PROVE \E p \in P : f[p] = S
    <2>1. <<S \cap A, S \cap B>> \in P
      OBVIOUS
    <2>2. f[<<S \cap A, S \cap B>>] = S
      BY <1>5, <2>1
    <2> QED
      BY <2>1, <2>2
  <1> HIDE DEF f, P
  <1>9. ExistsBijection(P, SUBSET C)
    <2>1. f \in Bijection(P, SUBSET C)
      BY <1>6, <1>7, <1>8, Fun_IsBij
    <2> QED
      BY <2>1, Fun_ExistsBij
  <1>10. Cardinality(SUBSET C) = 2^m * 2^n
    BY <1>4, <1>9, FS_Bijection
  <1>11. Cardinality(SUBSET C) = 2^(m + n)
    <2>1. m + n \in Nat
      OBVIOUS
    <2> QED
      BY <2>1, PowerCounts DEF C
  <1> QED
    BY <1>10, <1>11

\* The next power is twice as large.
LEMMA PowerDoubles ==
    ASSUME NEW n \in Nat, n > 0
    PROVE  2^n = 2 * 2^(n - 1)
  <1>1. n - 1 \in Nat /\ 1 + (n - 1) = n
    OBVIOUS
  <1>2. 2^1 = 2
    OBVIOUS
  <1> QED
    BY <1>1, <1>2, PowerAdds

\* A larger exponent gives at least twice the power, and a multiple of it.
LEMMA PowerGrows ==
    ASSUME NEW m \in Nat, NEW n \in Nat, m < n
    PROVE  /\ 2^n >= 2 * 2^m
           /\ \E k \in Nat : k >= 1 /\ 2^n = k * 2^m
  <1> DEFINE k == 2^(n - m)
             j == 2^(n - m - 1)
  <1>1. n - m \in Nat /\ n - m > 0 /\ (n - m) + m = n /\ n - m - 1 \in Nat
    OBVIOUS
  <1>2. k \in Nat /\ k >= 1 /\ j \in Nat /\ j >= 1
    BY <1>1, PowerCounts
  <1>3. k = 2 * j
    BY <1>1, PowerDoubles
  <1>4. 2^n = k * 2^m
    BY <1>1, PowerAdds
  <1>5. 2^m \in Nat /\ 2^m >= 1
    BY PowerCounts
  <1> HIDE DEF k, j
  <1>6. k >= 2
    BY <1>2, <1>3
  <1>7. k * 2^m >= 2 * 2^m
    BY <1>5, <1>6, <1>2
  <1> QED
    BY <1>2, <1>4, <1>7

-----------------------------------------------------------------------------
(* The ranges of the integer types, in terms of the numbers a signed type  *)
(* has below zero.                                                         *)

Half(W) == 2^(W - 1)

\* Each width doubles, at least, the range of the narrower one.
LEMMA Halves ==
    /\ Half(W8) \in Nat /\ Half(W16) \in Nat /\ Half(W32) \in Nat /\ Half(W64) \in Nat
    /\ Half(W8) >= 2
    /\ Half(W16) >= 2 * Half(W8)
    /\ Half(W32) >= 2 * Half(W16)
    /\ Half(W64) >= 2 * Half(W32)
    /\ 2^W8 = 2 * Half(W8) /\ 2^W16 = 2 * Half(W16)
    /\ 2^W32 = 2 * Half(W32) /\ 2^W64 = 2 * Half(W64)
  <1>1. /\ W8 \in Nat /\ W16 \in Nat /\ W32 \in Nat /\ W64 \in Nat
        /\ W8 > 0 /\ W16 > 0 /\ W32 > 0 /\ W64 > 0
        /\ W8 - 1 \in Nat /\ W16 - 1 \in Nat /\ W32 - 1 \in Nat /\ W64 - 1 \in Nat
        /\ 0 < W8 - 1 /\ W8 - 1 < W16 - 1 /\ W16 - 1 < W32 - 1 /\ W32 - 1 < W64 - 1
    BY WidthAssumption
  <1>2. /\ 2^(W8 - 1) \in Nat /\ 2^(W16 - 1) \in Nat
        /\ 2^(W32 - 1) \in Nat /\ 2^(W64 - 1) \in Nat
    BY <1>1, PowerCounts
  <1>3. 2^0 = 1
    OBVIOUS
  <1>4. 2^(W8 - 1) >= 2
    <2>1. 2^(W8 - 1) >= 2 * 2^0
      BY <1>1, PowerGrows
    <2> QED
      BY <1>2, <1>3, <2>1
  <1>5. 2^(W16 - 1) >= 2 * 2^(W8 - 1)
    BY <1>1, PowerGrows
  <1>6. 2^(W32 - 1) >= 2 * 2^(W16 - 1)
    BY <1>1, PowerGrows
  <1>7. 2^(W64 - 1) >= 2 * 2^(W32 - 1)
    BY <1>1, PowerGrows
  <1>8. 2^W8 = 2 * 2^(W8 - 1) /\ 2^W16 = 2 * 2^(W16 - 1)
    BY <1>1, PowerDoubles
  <1>9. 2^W32 = 2 * 2^(W32 - 1) /\ 2^W64 = 2 * 2^(W64 - 1)
    BY <1>1, PowerDoubles
  <1> QED
    BY <1>2, <1>4, <1>5, <1>6, <1>7, <1>8, <1>9 DEF Half

\* The bounds of the eight types.
LEMMA Bounds ==
    /\ MinOf("INT8")  = -Half(W8)  /\ MaxOf("INT8")  = Half(W8) - 1
    /\ MinOf("INT16") = -Half(W16) /\ MaxOf("INT16") = Half(W16) - 1
    /\ MinOf("INT32") = -Half(W32) /\ MaxOf("INT32") = Half(W32) - 1
    /\ MinOf("INT64") = -Half(W64) /\ MaxOf("INT64") = Half(W64) - 1
    /\ MinOf("UINT8")  = 0 /\ MaxOf("UINT8")  = 2 * Half(W8) - 1
    /\ MinOf("UINT16") = 0 /\ MaxOf("UINT16") = 2 * Half(W16) - 1
    /\ MinOf("UINT32") = 0 /\ MaxOf("UINT32") = 2 * Half(W32) - 1
    /\ MinOf("UINT64") = 0 /\ MaxOf("UINT64") = 2 * Half(W64) - 1
  <1>1. \A T \in Signed : MinOf(T) = -Half(Width[T]) /\ MaxOf(T) = Half(Width[T]) - 1
    BY DEF MinOf, MaxOf, Half
  <1>2. \A T \in Unsigned : MinOf(T) = 0 /\ MaxOf(T) = 2^Width[T] - 1
    BY DEF MinOf, MaxOf, Signed, Unsigned
  <1>3. /\ Width["INT8"] = W8 /\ Width["INT16"] = W16
        /\ Width["INT32"] = W32 /\ Width["INT64"] = W64
        /\ Width["UINT8"] = W8 /\ Width["UINT16"] = W16
        /\ Width["UINT32"] = W32 /\ Width["UINT64"] = W64
    BY DEF Width
  <1>4. /\ MinOf("INT8")  = -Half(W8)  /\ MaxOf("INT8")  = Half(W8) - 1
        /\ MinOf("INT16") = -Half(W16) /\ MaxOf("INT16") = Half(W16) - 1
        /\ MinOf("INT32") = -Half(W32) /\ MaxOf("INT32") = Half(W32) - 1
        /\ MinOf("INT64") = -Half(W64) /\ MaxOf("INT64") = Half(W64) - 1
    BY <1>1, <1>3 DEF Signed
  <1>5. /\ MinOf("UINT8")  = 0 /\ MaxOf("UINT8")  = 2^W8 - 1
        /\ MinOf("UINT16") = 0 /\ MaxOf("UINT16") = 2^W16 - 1
        /\ MinOf("UINT32") = 0 /\ MaxOf("UINT32") = 2^W32 - 1
        /\ MinOf("UINT64") = 0 /\ MaxOf("UINT64") = 2^W64 - 1
    BY <1>2, <1>3 DEF Unsigned
  <1> QED
    BY <1>4, <1>5, Halves

\* The remainder of a multiple of P and a rest.
LEMMA ModUnique ==
    ASSUME NEW q \in Int, NEW P \in Nat, NEW s \in Int, 0 <= s, s < P
    PROVE  (q * P + s) % P = s
  OBVIOUS

\* A number below P is its own remainder.
LEMMA ModSmall ==
    ASSUME NEW n \in Int, NEW P \in Nat, 0 <= n, n < P
    PROVE  n % P = n
  OBVIOUS

\* A negative number not below -P wraps once.
LEMMA ModNegative ==
    ASSUME NEW n \in Int, NEW P \in Nat, n < 0, -P <= n
    PROVE  n % P = n + P
  <1>1. n = (-1) * P + (n + P) /\ n + P \in Int /\ 0 <= n + P /\ n + P < P
    OBVIOUS
  <1> QED
    BY <1>1, ModUnique

\* Reduction by a multiple of P does not change the remainder by P.
LEMMA ModOfMod ==
    ASSUME NEW n \in Int, NEW P \in Nat, NEW k \in Nat, P >= 1, k >= 1
    PROVE  (n % (k * P)) % P = n % P
  <1> DEFINE M == k * P
             r == n % M
             q == n \div M
             s == r % P
             t == r \div P
  <1>1. M \in Nat /\ M >= 1
    OBVIOUS
  <1> HIDE DEF M
  <1>2. q \in Int /\ r \in Int /\ n = q * M + r
    BY <1>1
  <1> HIDE DEF q, r
  <1>3. t \in Int /\ s \in Int /\ r = t * P + s /\ 0 <= s /\ s < P
    BY <1>2
  <1> HIDE DEF t, s
  <1>4. n = (q * k + t) * P + s
    BY <1>2, <1>3 DEF M
  <1>5. q * k + t \in Int
    BY <1>2, <1>3
  <1>6. n % P = s
    BY <1>3, <1>4, <1>5, ModUnique
  <1> QED
    BY <1>6 DEF s, r, M

\* A number of the type T is recovered from its 64 bits by a conversion to T.
LEMMA CastRight ==
    ASSUME NEW T \in IntTypes, NEW n \in Int, MinOf(T) <= n, n <= MaxOf(T)
    PROVE  Cast(T, n % 2^W64) = n
  <1> DEFINE P == 2^Width[T]
  <1>1. /\ Width[T] \in Nat /\ Width[T] > 0
        /\ Width[T] = W64 \/ Width[T] < W64
    BY WidthAssumption DEF Width, IntTypes, Signed, Unsigned
  <1>2. P \in Nat /\ P >= 1
    BY <1>1, PowerCounts
  <1>3. P = 2 * 2^(Width[T] - 1) /\ 2^(Width[T] - 1) \in Nat /\ 2^(Width[T] - 1) >= 1
    <2>1. Width[T] - 1 \in Nat
      BY <1>1
    <2> QED
      BY <1>1, <2>1, PowerDoubles, PowerCounts
  <1>4. PICK k \in Nat : k >= 1 /\ 2^W64 = k * P
    <2>1. CASE Width[T] = W64
      BY <1>2, <2>1
    <2>2. CASE Width[T] < W64
      <3>1. W64 \in Nat
        BY WidthAssumption
      <3> QED
        BY <1>1, <2>2, <3>1, PowerGrows
    <2> QED
      BY <1>1, <2>1, <2>2
  <1>5. (n % 2^W64) % P = n % P
    BY <1>2, <1>4, ModOfMod
  <1> DEFINE m == (n % 2^W64) % P
  <1> HIDE DEF P
  <1>6. Cast(T, n % 2^W64) = IF m > MaxOf(T) THEN m - P ELSE m
    BY DEF Cast, P
  <1>10. m = n % P
    BY <1>5
  <1> HIDE DEF m
  <1>7. CASE T \in Signed
    <2>1. MinOf(T) = -(2^(Width[T] - 1)) /\ MaxOf(T) = 2^(Width[T] - 1) - 1
      BY <1>7 DEF MinOf, MaxOf
    <2>2. CASE n >= 0
      <3>1. n % P = n
        BY <1>2, <1>3, <2>1, <2>2, ModSmall
      <3> QED
        BY <1>3, <1>6, <1>10, <2>1, <3>1
    <2>3. CASE n < 0
      <3>1. n % P = n + P
        <4>1. -P <= n
          BY <1>3, <2>1
        <4> QED
          BY <1>2, <2>3, <4>1, ModNegative
      <3>2. n + P > MaxOf(T)
        BY <1>3, <2>1
      <3> QED
        BY <1>2, <1>3, <1>6, <1>10, <2>1, <3>1, <3>2
    <2> QED
      BY <2>2, <2>3
  <1>8. CASE T \notin Signed
    <2>1. MinOf(T) = 0 /\ MaxOf(T) = P - 1
      BY <1>8 DEF MinOf, MaxOf, P
    <2>2. n % P = n
      BY <1>2, <2>1, ModSmall
    <2> QED
      BY <1>2, <1>6, <1>10, <2>1, <2>2
  <1> QED
    BY <1>7, <1>8

-----------------------------------------------------------------------------
(* Wrappers that hold an integer. *)

InRange(T, n) == MinOf(T) <= n /\ n <= MaxOf(T)

(* The wrapper v has an integer type that holds n, and the 64 bits of n. *)
Holds(v, n) == v.type \in IntTypes /\ InRange(v.type, n) /\ v.u = n % 2^W64

\* Every integer type is within the numbers int64 and uint64 hold.
LEMMA Widest ==
    ASSUME NEW T \in IntTypes, NEW n \in Int, InRange(T, n)
    PROVE  /\ -Half(W64) <= n /\ n < 2 * Half(W64)
           /\ T \in Signed => InRange("INT64", n)
           /\ T \in Unsigned => InRange("UINT64", n)
  BY Bounds, Halves DEF InRange, IntTypes, Signed, Unsigned

\* What scalar.u and scalar.i of such a wrapper are.
LEMMA Contents ==
    ASSUME NEW v, NEW n \in Int, Holds(v, n)
    PROVE  /\ v.u = IF n >= 0 THEN n ELSE n + 2 * Half(W64)
           /\ v.u \in 0 .. MaxOf("UINT64")
           /\ v.type \in Signed => ScalarI(v) = n
           /\ v.type \in Unsigned => n >= 0
  <1>1. -Half(W64) <= n /\ n < 2 * Half(W64)
    BY Widest DEF Holds
  <1>2. 2^W64 = 2 * Half(W64) /\ Half(W64) \in Nat /\ Half(W64) >= 1
    BY Halves
  <1>3. v.u = IF n >= 0 THEN n ELSE n + 2 * Half(W64)
    <2>1. CASE n >= 0
      BY <1>1, <1>2, <2>1, ModSmall DEF Holds
    <2>2. CASE n < 0
      <3>1. 2 * Half(W64) \in Nat /\ -(2 * Half(W64)) <= n
        BY <1>1, <1>2
      <3>2. n % (2 * Half(W64)) = n + 2 * Half(W64)
        BY <2>2, <3>1, ModNegative
      <3> QED
        BY <1>2, <2>2, <3>2 DEF Holds
    <2> QED
      BY <2>1, <2>2
  <1>4. v.u \in 0 .. MaxOf("UINT64")
    BY <1>1, <1>2, <1>3, Bounds
  <1>5. v.type \in Signed => ScalarI(v) = n
    <2>1. v.type \in Signed => InRange("INT64", n)
      BY Widest DEF Holds
    <2>2. "INT64" \in IntTypes
      BY DEF IntTypes, Signed
    <2>3. InRange("INT64", n) => Cast("INT64", n % 2^W64) = n
      BY <2>2, CastRight DEF InRange
    <2> QED
      BY <2>1, <2>3 DEF Holds, ScalarI
  <1>6. v.type \in Unsigned => n >= 0
    <2>1. v.type \in Unsigned => InRange("UINT64", n)
      BY Widest DEF Holds
    <2> QED
      BY <2>1, Bounds DEF InRange
  <1> QED
    BY <1>3, <1>4, <1>5, <1>6

\* as_int8 of a wrapper that holds n overflows exactly when n does not fit.
LEMMA AsInt8 ==
    ASSUME NEW v, NEW n \in Int, Holds(v, n)
    PROVE  asdf_value_as_int8(v) = Answer(~InRange("INT8", n), Cast("INT8", v.u))
  BY Contents, Bounds, Halves
  DEF asdf_value_as_int8, Holds, InRange, IntTypes, Signed, Unsigned

\* as_int16 of a wrapper that holds n overflows exactly when n does not fit.
LEMMA AsInt16 ==
    ASSUME NEW v, NEW n \in Int, Holds(v, n)
    PROVE  asdf_value_as_int16(v) = Answer(~InRange("INT16", n), Cast("INT16", v.u))
  BY Contents, Bounds, Halves
  DEF asdf_value_as_int16, Holds, InRange, IntTypes, Signed, Unsigned

\* as_int32 of a wrapper that holds n overflows exactly when n does not fit.
LEMMA AsInt32 ==
    ASSUME NEW v, NEW n \in Int, Holds(v, n)
    PROVE  asdf_value_as_int32(v) = Answer(~InRange("INT32", n), Cast("INT32", v.u))
  BY Contents, Bounds, Halves
  DEF asdf_value_as_int32, Holds, InRange, IntTypes, Signed, Unsigned

\* as_int64 of a wrapper that holds n overflows exactly when n does not fit.
LEMMA AsInt64 ==
    ASSUME NEW v, NEW n \in Int, Holds(v, n)
    PROVE  asdf_value_as_int64(v) = Answer(~InRange("INT64", n), Cast("INT64", v.u))
  <1>1. v.type \in Signed => InRange("INT64", n)
    BY Contents, Bounds, Halves DEF Holds, InRange, Signed, Unsigned
  <1>2. v.type \in Unsigned => (v.u > MaxOf("INT64") <=> ~InRange("INT64", n))
    BY Contents, Bounds, Halves DEF Holds, InRange, Signed, Unsigned
  <1> QED
    BY <1>1, <1>2
    DEF asdf_value_as_int64, Answer, Holds, IntTypes, Signed, Unsigned, ScalarI

\* as_uint8 of a wrapper that holds n overflows exactly when n does not fit.
LEMMA AsUint8 ==
    ASSUME NEW v, NEW n \in Int, Holds(v, n)
    PROVE  asdf_value_as_uint8(v) = Answer(~InRange("UINT8", n), Cast("UINT8", v.u))
  <1>1. v.type = "UINT8" => InRange("UINT8", n)
    BY Contents, Bounds, Halves DEF Holds, InRange, Signed, Unsigned
  <1>2. v.type \in Unsigned => (v.u > MaxOf("UINT8") <=> ~InRange("UINT8", n))
    BY Contents, Bounds, Halves DEF Holds, InRange, Signed, Unsigned
  <1>3. v.type = "INT8" => (ScalarI(v) < 0 <=> ~InRange("UINT8", n))
    BY Contents, Bounds, Halves DEF Holds, InRange, Signed, Unsigned
  <1>4. v.type \in Signed => (ScalarI(v) < 0 \/ ScalarI(v) > MaxOf("UINT8") <=> ~InRange("UINT8", n))
    BY Contents, Bounds, Halves DEF Holds, InRange, Signed, Unsigned
  <1> QED
    BY <1>1, <1>2, <1>3, <1>4
    DEF asdf_value_as_uint8, Answer, Holds, IntTypes, Signed, Unsigned

\* as_uint16 of a wrapper that holds n overflows exactly when n does not fit.
LEMMA AsUint16 ==
    ASSUME NEW v, NEW n \in Int, Holds(v, n)
    PROVE  asdf_value_as_uint16(v) = Answer(~InRange("UINT16", n), Cast("UINT16", v.u))
  <1>1. v.type \in {"UINT16", "UINT8"} => InRange("UINT16", n)
    BY Contents, Bounds, Halves DEF Holds, InRange, Signed, Unsigned
  <1>2. v.type \in Unsigned => (v.u > MaxOf("UINT16") <=> ~InRange("UINT16", n))
    BY Contents, Bounds, Halves DEF Holds, InRange, Signed, Unsigned
  <1>3. v.type \in {"INT16", "INT8"} => (ScalarI(v) < 0 <=> ~InRange("UINT16", n))
    BY Contents, Bounds, Halves DEF Holds, InRange, Signed, Unsigned
  <1>4. v.type \in Signed => (ScalarI(v) < 0 \/ ScalarI(v) > MaxOf("UINT16") <=> ~InRange("UINT16", n))
    BY Contents, Bounds, Halves DEF Holds, InRange, Signed, Unsigned
  <1> QED
    BY <1>1, <1>2, <1>3, <1>4
    DEF asdf_value_as_uint16, Answer, Holds, IntTypes, Signed, Unsigned

\* as_uint32 of a wrapper that holds n overflows exactly when n does not fit.
LEMMA AsUint32 ==
    ASSUME NEW v, NEW n \in Int, Holds(v, n)
    PROVE  asdf_value_as_uint32(v) = Answer(~InRange("UINT32", n), Cast("UINT32", v.u))
  <1>1. v.type \in {"UINT32", "UINT16", "UINT8"} => InRange("UINT32", n)
    BY Contents, Bounds, Halves DEF Holds, InRange, Signed, Unsigned
  <1>2. v.type \in {"INT32", "INT16", "INT8"} => (ScalarI(v) < 0 <=> ~InRange("UINT32", n))
    BY Contents, Bounds, Halves DEF Holds, InRange, Signed, Unsigned
  <1>3. v.type \in {"UINT64", "INT64"} => (v.u > MaxOf("UINT32") <=> ~InRange("UINT32", n))
    BY Contents, Bounds, Halves DEF Holds, InRange, Signed, Unsigned
  <1> QED
    BY <1>1, <1>2, <1>3
    DEF asdf_value_as_uint32, Answer, Holds, IntTypes, Signed, Unsigned

\* as_uint64 of a wrapper that holds n overflows exactly when n does not fit.
LEMMA AsUint64 ==
    ASSUME NEW v, NEW n \in Int, Holds(v, n)
    PROVE  asdf_value_as_uint64(v) = Answer(~InRange("UINT64", n), Cast("UINT64", v.u))
  <1>1. v.type \in Unsigned => InRange("UINT64", n)
    BY Contents, Bounds, Halves DEF Holds, InRange, Signed, Unsigned
  <1>2. v.type \in Signed => (ScalarI(v) < 0 <=> ~InRange("UINT64", n))
    BY Contents, Bounds, Halves DEF Holds, InRange, Signed, Unsigned
  <1>3. Cast("UINT64", v.u) = v.u
    <2>1. v.u \in Int /\ 0 <= v.u /\ v.u <= MaxOf("UINT64")
      BY Contents, Bounds, Halves
    <2>2. "UINT64" \in IntTypes /\ MinOf("UINT64") = 0
      BY Bounds DEF IntTypes, Unsigned
    <2>3. v.u % 2^W64 = v.u
      <3>1. 2^W64 \in Nat /\ v.u < 2^W64
        BY <2>1, Bounds, Halves
      <3> QED
        BY <2>1, <3>1, ModSmall
    <2> QED
      BY <2>1, <2>2, <2>3, CastRight
  <1> QED
    BY <1>1, <1>2, <1>3
    DEF asdf_value_as_uint64, Answer, Holds, IntTypes, Signed, Unsigned

\* asdf_value_as_type asks the accessor of the type.
LEMMA AsTypeInt ==
    ASSUME NEW v
    PROVE  /\ asdf_value_as_type(v)["INT8"] = asdf_value_as_int8(v)
           /\ asdf_value_as_type(v)["INT16"] = asdf_value_as_int16(v)
           /\ asdf_value_as_type(v)["INT32"] = asdf_value_as_int32(v)
           /\ asdf_value_as_type(v)["INT64"] = asdf_value_as_int64(v)
           /\ asdf_value_as_type(v)["UINT8"] = asdf_value_as_uint8(v)
           /\ asdf_value_as_type(v)["UINT16"] = asdf_value_as_uint16(v)
           /\ asdf_value_as_type(v)["UINT32"] = asdf_value_as_uint32(v)
           /\ asdf_value_as_type(v)["UINT64"] = asdf_value_as_uint64(v)
  <1>1. IntTypes \subseteq AsFunctions \ {"SCALAR"}
    BY DEF AsFunctions, IntTypes, Signed, Unsigned
  <1>2. asdf_value_as_type(v)["INT8"] = asdf_value_as_int8(v)
    BY <1>1 DEF asdf_value_as_type, IntTypes, Signed, Unsigned
  <1>3. asdf_value_as_type(v)["INT16"] = asdf_value_as_int16(v)
    BY <1>1 DEF asdf_value_as_type, IntTypes, Signed, Unsigned
  <1>4. asdf_value_as_type(v)["INT32"] = asdf_value_as_int32(v)
    BY <1>1 DEF asdf_value_as_type, IntTypes, Signed, Unsigned
  <1>5. asdf_value_as_type(v)["INT64"] = asdf_value_as_int64(v)
    BY <1>1 DEF asdf_value_as_type, IntTypes, Signed, Unsigned
  <1>6. asdf_value_as_type(v)["UINT8"] = asdf_value_as_uint8(v)
    BY <1>1 DEF asdf_value_as_type, IntTypes, Signed, Unsigned
  <1>7. asdf_value_as_type(v)["UINT16"] = asdf_value_as_uint16(v)
    BY <1>1 DEF asdf_value_as_type, IntTypes, Signed, Unsigned
  <1>8. asdf_value_as_type(v)["UINT32"] = asdf_value_as_uint32(v)
    BY <1>1 DEF asdf_value_as_type, IntTypes, Signed, Unsigned
  <1>9. asdf_value_as_type(v)["UINT64"] = asdf_value_as_uint64(v)
    BY <1>1 DEF asdf_value_as_type, IntTypes, Signed, Unsigned
  <1> QED
    BY <1>2, <1>3, <1>4, <1>5, <1>6, <1>7, <1>8, <1>9

\* A wrapper that holds n answers as_<type> with n, or with OVERFLOW.
LEMMA AsHeld ==
    ASSUME NEW v, NEW n \in Int, Holds(v, n), NEW T \in IntTypes,
           NEW r \in asdf_value_as_type(v)[T]
    PROVE  /\ r.err = IF InRange(T, n) THEN "OK" ELSE "OVERFLOW"
           /\ InRange(T, n) => r.out = n
  <1>1. asdf_value_as_type(v)[T] = Answer(~InRange(T, n), Cast(T, v.u))
    BY AsInt8, AsInt16, AsInt32, AsInt64, AsUint8, AsUint16, AsUint32, AsUint64, AsTypeInt
    DEF IntTypes, Signed, Unsigned
  <1>2. r.err = IF InRange(T, n) THEN "OK" ELSE "OVERFLOW"
    BY <1>1 DEF Answer
  <1>3. r.out = Cast(T, v.u)
    BY <1>1 DEF Answer
  <1>4. InRange(T, n) => Cast(T, v.u) = n
    BY CastRight DEF InRange, Holds
  <1> QED
    BY <1>2, <1>3, <1>4

\* A wrapper whose type is no integer type mismatches.
LEMMA AsOther ==
    ASSUME NEW v, v.type \notin IntTypes, NEW T \in IntTypes,
           NEW r \in asdf_value_as_type(v)[T]
    PROVE  r.err = "TYPE_MISMATCH"
  <1>1. asdf_value_as_int8(v) = Mismatch
    BY DEF IntTypes, Signed, Unsigned, asdf_value_as_int8
  <1>2. asdf_value_as_int16(v) = Mismatch
    BY DEF IntTypes, Signed, Unsigned, asdf_value_as_int16
  <1>3. asdf_value_as_int32(v) = Mismatch
    BY DEF IntTypes, Signed, Unsigned, asdf_value_as_int32
  <1>4. asdf_value_as_int64(v) = Mismatch
    BY DEF IntTypes, Signed, Unsigned, asdf_value_as_int64
  <1>5. asdf_value_as_uint8(v) = Mismatch
    BY DEF IntTypes, Signed, Unsigned, asdf_value_as_uint8
  <1>6. asdf_value_as_uint16(v) = Mismatch
    BY DEF IntTypes, Signed, Unsigned, asdf_value_as_uint16
  <1>7. asdf_value_as_uint32(v) = Mismatch
    BY DEF IntTypes, Signed, Unsigned, asdf_value_as_uint32
  <1>8. asdf_value_as_uint64(v) = Mismatch
    BY DEF IntTypes, Signed, Unsigned, asdf_value_as_uint64
  <1>9. asdf_value_as_type(v)[T] = Mismatch
    BY <1>1, <1>2, <1>3, <1>4, <1>5, <1>6, <1>7, <1>8, AsTypeInt
    DEF IntTypes, Signed, Unsigned
  <1> QED
    BY <1>9 DEF Mismatch

\* is_int8 of a wrapper that holds n is true only if n fits.
LEMMA IsInt8 ==
    ASSUME NEW v, NEW n \in Int, Holds(v, n), asdf_value_is_int8(v)
    PROVE  InRange("INT8", n)
  BY Contents, Bounds, Halves
  DEF asdf_value_is_int8, Holds, InRange, IntTypes, Signed, Unsigned

\* is_int16 of a wrapper that holds n is true only if n fits.
LEMMA IsInt16 ==
    ASSUME NEW v, NEW n \in Int, Holds(v, n), asdf_value_is_int16(v)
    PROVE  InRange("INT16", n)
  BY Contents, Bounds, Halves
  DEF asdf_value_is_int16, Holds, InRange, IntTypes, Signed, Unsigned

\* is_int32 of a wrapper that holds n is true only if n fits.
LEMMA IsInt32 ==
    ASSUME NEW v, NEW n \in Int, Holds(v, n), asdf_value_is_int32(v)
    PROVE  InRange("INT32", n)
  BY Contents, Bounds, Halves
  DEF asdf_value_is_int32, Holds, InRange, IntTypes, Signed, Unsigned

\* is_int64 of a wrapper that holds n is true only if n fits.
LEMMA IsInt64 ==
    ASSUME NEW v, NEW n \in Int, Holds(v, n), asdf_value_is_int64(v)
    PROVE  InRange("INT64", n)
  BY Contents, Bounds, Halves
  DEF asdf_value_is_int64, Holds, InRange, IntTypes, Signed, Unsigned

\* is_uint16 of a wrapper that holds n is true only if n fits.
LEMMA IsUint16 ==
    ASSUME NEW v, NEW n \in Int, Holds(v, n), asdf_value_is_uint16(v)
    PROVE  InRange("UINT16", n)
  BY Contents, Bounds, Halves
  DEF asdf_value_is_uint16, Holds, InRange, IntTypes, Signed, Unsigned

\* is_uint32 of a wrapper that holds n is true only if n fits.
LEMMA IsUint32 ==
    ASSUME NEW v, NEW n \in Int, Holds(v, n), asdf_value_is_uint32(v)
    PROVE  InRange("UINT32", n)
  BY Contents, Bounds, Halves
  DEF asdf_value_is_uint32, Holds, InRange, IntTypes, Signed, Unsigned

\* is_uint64 of a wrapper that holds n is true only if n fits.
LEMMA IsUint64 ==
    ASSUME NEW v, NEW n \in Int, Holds(v, n), asdf_value_is_uint64(v)
    PROVE  InRange("UINT64", n)
  BY Contents, Bounds, Halves
  DEF asdf_value_is_uint64, Holds, InRange, IntTypes, Signed, Unsigned

-----------------------------------------------------------------------------
(* Inference. *)

WrapType ==
    [type : ValueTypes, err : Errors, u : 0 .. MaxOf("UINT64"), d : Reals, b : BOOLEAN,
     attached : BOOLEAN]

\* Smallest finds a type that holds the number, if the widest type does.
LEMMA SmallestHolds ==
    ASSUME NEW Types, NEW n \in Int, NEW a \in Types, NEW b \in Types, NEW c \in Types,
           NEW d \in Types, Types = {a, b, c, d},
           Width[a] = W8, Width[b] = W16, Width[c] = W32, Width[d] = W64,
           InRange(d, n)
    PROVE  /\ Smallest(Types, n) \in Types /\ InRange(Smallest(Types, n), n)
           /\ \A S \in Types : InRange(S, n) => Width[Smallest(Types, n)] <= Width[S]
  <1> DEFINE Best(T) == /\ MinOf(T) <= n /\ n <= MaxOf(T)
                        /\ \A S \in Types : MinOf(S) <= n /\ n <= MaxOf(S) => Width[T] <= Width[S]
  <1>1. /\ W8 \in Nat /\ W16 \in Nat /\ W32 \in Nat /\ W64 \in Nat
        /\ W8 <= W8 /\ W8 <= W16 /\ W8 <= W32 /\ W8 <= W64
        /\ W16 <= W16 /\ W16 <= W32 /\ W16 <= W64
        /\ W32 <= W32 /\ W32 <= W64 /\ W64 <= W64
    BY WidthAssumption
  <1>2. \E T \in Types : Best(T)
    <2>1. CASE InRange(a, n)
      <3>1. Best(a)
        BY <1>1, <2>1 DEF InRange
      <3> QED
        BY <3>1
    <2>2. CASE ~InRange(a, n) /\ InRange(b, n)
      <3>1. Best(b)
        BY <1>1, <2>2 DEF InRange
      <3> QED
        BY <3>1
    <2>3. CASE ~InRange(a, n) /\ ~InRange(b, n) /\ InRange(c, n)
      <3>1. Best(c)
        BY <1>1, <2>3 DEF InRange
      <3> QED
        BY <3>1
    <2>4. CASE ~InRange(a, n) /\ ~InRange(b, n) /\ ~InRange(c, n)
      <3>1. Best(d)
        BY <1>1, <2>4 DEF InRange
      <3> QED
        BY <3>1
    <2> QED
      BY <2>1, <2>2, <2>3, <2>4
  <1>3. Smallest(Types, n) = CHOOSE T \in Types : Best(T)
    BY DEF Smallest
  <1> HIDE DEF Best
  <1>4. Smallest(Types, n) \in Types /\ Best(Smallest(Types, n))
    BY <1>2, <1>3
  <1> QED
    BY <1>4 DEF Best, InRange

\* The unsigned type chosen for a magnitude, the signed one for a negative number.
LEMMA SmallestOfKind ==
    ASSUME NEW n \in Int
    PROVE  /\ InRange("UINT64", n) =>
                Smallest(Unsigned, n) \in Unsigned /\ InRange(Smallest(Unsigned, n), n)
           /\ InRange("INT64", n) =>
                /\ Smallest(Signed, n) \in Signed /\ InRange(Smallest(Signed, n), n)
                /\ \A S \in Signed : InRange(S, n) => Width[Smallest(Signed, n)] <= Width[S]
  <1>1. /\ Width["INT8"] = W8 /\ Width["INT16"] = W16
        /\ Width["INT32"] = W32 /\ Width["INT64"] = W64
        /\ Width["UINT8"] = W8 /\ Width["UINT16"] = W16
        /\ Width["UINT32"] = W32 /\ Width["UINT64"] = W64
    BY DEF Width
  <1>2. InRange("UINT64", n) =>
            Smallest(Unsigned, n) \in Unsigned /\ InRange(Smallest(Unsigned, n), n)
    BY <1>1, SmallestHolds DEF Unsigned
  <1>3. InRange("INT64", n) =>
            /\ Smallest(Signed, n) \in Signed /\ InRange(Smallest(Signed, n), n)
            /\ \A S \in Signed : InRange(S, n) => Width[Smallest(Signed, n)] <= Width[S]
    BY <1>1, SmallestHolds DEF Signed
  <1> QED
    BY <1>2, <1>3

\* The number an integer text denotes.
LEMMA NumberType ==
    ASSUME node \in NodeType
    PROVE  /\ Number \in Int /\ node.mag \in Nat /\ node.neg \in BOOLEAN
           /\ ~node.neg => Number = node.mag /\ Number >= 0
           /\ node.neg => Number = -node.mag /\ Number <= 0
  <1>1. node.mag \in Nat /\ node.neg \in BOOLEAN
    BY DEF NodeType
  <1>2. /\ ~node.neg => Number = node.mag
        /\ node.neg => Number = -node.mag
    BY DEF Number
  <1> QED
    BY <1>1, <1>2

(* A wrapper with a signed type has it for a number that is not positive,  *)
(* and no smaller signed type holds the number.                            *)
Least(v, n) ==
    v.type \in Signed =>
        /\ n <= 0
        /\ \A S \in Signed : InRange(S, n) => Width[v.type] <= Width[S]

(* The numbers some integer type holds. *)
Held(n) == MinOf("INT64") <= n /\ n <= MaxOf("UINT64")

\* Inference of an integer text: the wrapper holds its number, or the number
\* fits no type.
LEMMA InferInt ==
    ASSUME node \in NodeType, node.form = "int", NEW v \in WrapType
    PROVE  LET w == asdf_value_infer_int(v)
           IN  /\ w \in WrapType
               /\ Held(Number) => w.err = "OK" /\ Holds(w, Number) /\ Least(w, Number)
               /\ ~Held(Number) => w.err = "OVERFLOW" /\ w.type = "UNKNOWN"
  <1> DEFINE w == asdf_value_infer_int(v)
  <1>1. /\ Half(W64) \in Nat /\ Half(W64) >= 2 /\ 2^W64 = 2 * Half(W64)
        /\ MinOf("INT64") = -Half(W64) /\ MaxOf("INT64") = Half(W64) - 1
        /\ MinOf("UINT64") = 0 /\ MaxOf("UINT64") = 2 * Half(W64) - 1
    BY Halves, Bounds
  <1>2. /\ "UNKNOWN" \in ValueTypes /\ IntTypes \subseteq ValueTypes
        /\ "OK" \in Errors /\ "OVERFLOW" \in Errors
        /\ Signed \subseteq IntTypes /\ Unsigned \subseteq IntTypes
    BY DEF ValueTypes, Errors, IntTypes
  <1>3. CASE node.mag > MaxOf("UINT64")
    <2>1. w = [v EXCEPT !.type = "UNKNOWN", !.err = "OVERFLOW"]
      BY <1>3 DEF asdf_value_infer_int, asdf_yaml_scalar_is_int
    <2>2. ~Held(Number)
      BY <1>1, <1>3, NumberType DEF Held
    <2> QED
      BY <1>2, <2>1, <2>2 DEF WrapType
  <1>4. CASE ~(node.mag > MaxOf("UINT64")) /\ ~node.neg
    <2>1. w = [v EXCEPT !.type = Smallest(Unsigned, node.mag), !.u = node.mag, !.err = "OK"]
      BY <1>4 DEF asdf_value_infer_int, asdf_yaml_scalar_is_int
    <2>2. /\ InRange("UINT64", node.mag) /\ Held(Number) /\ Number = node.mag
          /\ node.mag \in 0 .. MaxOf("UINT64")
      BY <1>1, <1>4, NumberType DEF Held, InRange
    <2>3. /\ Smallest(Unsigned, node.mag) \in Unsigned
          /\ InRange(Smallest(Unsigned, node.mag), node.mag)
      BY <2>2, NumberType, SmallestOfKind
    <2>4. node.mag % 2^W64 = node.mag
      <3>1. 2^W64 \in Nat /\ 0 <= node.mag /\ node.mag < 2^W64
        BY <1>1, <2>2
      <3> QED
        BY <3>1, NumberType, ModSmall
    <2>5. w \in WrapType
      BY <1>2, <2>1, <2>2, <2>3 DEF WrapType
    <2>6. w.err = "OK" /\ Holds(w, Number)
      BY <1>2, <2>1, <2>2, <2>3, <2>4 DEF WrapType, Holds
    <2>7. Least(w, Number)
      BY <2>1, <2>3 DEF Least, WrapType, Signed, Unsigned
    <2> QED
      BY <2>2, <2>5, <2>6, <2>7
  <1>5. CASE ~(node.mag > MaxOf("UINT64")) /\ node.neg /\ node.mag > MaxOf("INT64") + 1
    <2>1. w = [v EXCEPT !.type = "UNKNOWN", !.err = "OVERFLOW"]
      BY <1>5 DEF asdf_value_infer_int, asdf_yaml_scalar_is_int
    <2>2. ~Held(Number)
      BY <1>1, <1>5, NumberType DEF Held
    <2> QED
      BY <1>2, <2>1, <2>2 DEF WrapType
  <1>6. CASE ~(node.mag > MaxOf("UINT64")) /\ node.neg /\ ~(node.mag > MaxOf("INT64") + 1)
    <2>1. w = [v EXCEPT !.type = Smallest(Signed, -node.mag), !.u = (-node.mag) % 2^W64,
                        !.err = "OK"]
      BY <1>6 DEF asdf_value_infer_int, asdf_yaml_scalar_is_int
    <2>2. InRange("INT64", -node.mag) /\ Held(Number) /\ Number = -node.mag /\ -node.mag \in Int
      BY <1>1, <1>6, NumberType DEF Held, InRange
    <2>3. /\ Smallest(Signed, -node.mag) \in Signed
          /\ InRange(Smallest(Signed, -node.mag), -node.mag)
          /\ \A S \in Signed :
                InRange(S, -node.mag) => Width[Smallest(Signed, -node.mag)] <= Width[S]
      BY <2>2, SmallestOfKind
    <2>4. (-node.mag) % 2^W64 \in 0 .. MaxOf("UINT64")
      BY <1>1, <2>2
    <2>5. w \in WrapType
      BY <1>2, <2>1, <2>3, <2>4 DEF WrapType
    <2>6. w.err = "OK" /\ Holds(w, Number)
      BY <1>2, <2>1, <2>2, <2>3 DEF WrapType, Holds
    <2>7. Least(w, Number)
      <3>1. w.type = Smallest(Signed, -node.mag)
        BY <2>1 DEF WrapType
      <3>2. Number <= 0
        BY <1>6, NumberType
      <3> QED
        BY <2>2, <2>3, <3>1, <3>2 DEF Least
    <2> QED
      BY <2>2, <2>5, <2>6, <2>7
  <1> QED
    BY <1>3, <1>4, <1>5, <1>6, NumberType

\* Fits, for an integer type, in terms of the number.
LEMMA FitsInt ==
    ASSUME NEW T \in IntTypes
    PROVE  Fits(T) <=> (Meaning = "int" /\ InRange(T, Number))
  BY DEF Fits, InRange

\* A number no 64 bits hold fits no integer type.
LEMMA HeldFits ==
    ASSUME node \in NodeType, ~Held(Number), NEW T \in IntTypes
    PROVE  ~InRange(T, Number)
  <1>1. InRange(T, Number) => -Half(W64) <= Number /\ Number < 2 * Half(W64)
    BY Widest, NumberType
  <1> QED
    BY <1>1, Bounds, Halves, NumberType DEF Held

\* A number that fits some integer type is held by 64 bits.
LEMMA FitsHeld ==
    ASSUME node \in NodeType, NEW T \in IntTypes, InRange(T, Number)
    PROVE  Held(Number)
  BY HeldFits

(* What an inference i yields of a node by what the node denotes. *)
Outcome(i) ==
    /\ i.v \in WrapType
    /\ Meaning \in {"malformed", "string", "null", "bool", "float", "int"}
    /\ Meaning = "malformed" => i.err = "PARSE_FAILURE" /\ i.v.type = "UNKNOWN"
    /\ Meaning = "string" => i.err = "OK" /\ i.v.type = "STRING"
    /\ Meaning = "null" => i.err = "OK" /\ i.v.type = "NULL"
    /\ Meaning = "bool" => i.err = "OK" /\ i.v.type = "BOOL"
    /\ Meaning = "float" => /\ i.v.type = "DOUBLE" /\ i.v.d = node.real
                            /\ i.err = IF node.real = "over" THEN "OVERFLOW" ELSE "OK"
    /\ Meaning = "int" /\ Held(Number) =>
         i.err = "OK" /\ Holds(i.v, Number) /\ Least(i.v, Number)
    /\ Meaning = "int" /\ ~Held(Number) => i.err = "OVERFLOW" /\ i.v.type = "UNKNOWN"

\* What the steps of the inference other than that of integers yield.
LEMMA InferOthers ==
    ASSUME node \in NodeType, NEW v \in WrapType
    PROVE  /\ asdf_value_infer_null(v) \in WrapType
           /\ asdf_value_infer_bool(v) \in WrapType
           /\ asdf_value_infer_float(v, TRUE) \in WrapType
           /\ asdf_value_infer_float(v, FALSE) \in WrapType
           /\ node.form # "int" => asdf_value_infer_int(v) \in WrapType
  <1>1. /\ "UNKNOWN" \in ValueTypes /\ "NULL" \in ValueTypes /\ "BOOL" \in ValueTypes
        /\ "DOUBLE" \in ValueTypes /\ "OK" \in Errors /\ "PARSE_FAILURE" \in Errors
        /\ "OVERFLOW" \in Errors
    BY DEF ValueTypes, Errors
  <1>2. node.truth \in BOOLEAN /\ node.real \in Reals
    BY DEF NodeType
  <1>3. asdf_value_infer_null(v) \in WrapType
    BY <1>1 DEF asdf_value_infer_null, WrapType
  <1>4. asdf_value_infer_bool(v) \in WrapType
    BY <1>1, <1>2 DEF asdf_value_infer_bool, WrapType
  <1>5. asdf_value_infer_float(v, TRUE) \in WrapType
    BY <1>1, <1>2 DEF asdf_value_infer_float, WrapType
  <1>6. asdf_value_infer_float(v, FALSE) \in WrapType
    BY <1>1, <1>2 DEF asdf_value_infer_float, WrapType
  <1>7. node.form # "int" => asdf_value_infer_int(v) \in WrapType
    BY <1>1 DEF asdf_value_infer_int, asdf_yaml_scalar_is_int, WrapType
  <1> QED
    BY <1>3, <1>4, <1>5, <1>6, <1>7

\* The inference of a plain scalar with a common schema tag.
LEMMA TaggedOutcome ==
    ASSUME node \in NodeType, node.style = "plain",
           node.tag \in {"null", "bool", "int", "float"}, NEW v \in WrapType
    PROVE  Outcome([v |-> InferTagged(v), err |-> InferTagged(v).err])
  <1>1. CASE node.tag = "null"
    <2>1. InferTagged(v) = asdf_value_infer_null(v)
      BY <1>1 DEF InferTagged
    <2>2. Meaning = IF node.form = "null" THEN "null" ELSE "malformed"
      BY <1>1 DEF Meaning, FormFitsTag
    <2>3. asdf_value_infer_null(v) \in WrapType
      BY InferOthers
    <2> QED
      BY <2>1, <2>2, <2>3 DEF Outcome, asdf_value_infer_null, WrapType
  <1>2. CASE node.tag = "bool"
    <2>1. InferTagged(v) = asdf_value_infer_bool(v)
      BY <1>2 DEF InferTagged
    <2>2. Meaning = IF node.form = "bool" \/ node.spell = "digit"
                    THEN "bool" ELSE "malformed"
      BY <1>2, NumberType DEF Meaning, FormFitsTag
    <2>3. asdf_value_infer_bool(v) \in WrapType
      BY InferOthers
    <2> QED
      BY <2>1, <2>2, <2>3 DEF Outcome, asdf_value_infer_bool, WrapType
  <1>3. CASE node.tag = "int"
    <2>1. InferTagged(v) = asdf_value_infer_int(v)
      BY <1>3 DEF InferTagged
    <2>2. Meaning = IF node.form = "int" THEN "int" ELSE "malformed"
      BY <1>3 DEF Meaning, FormFitsTag
    <2>3. CASE node.form = "int"
      BY <2>1, <2>2, <2>3, InferInt DEF Outcome
    <2>4. CASE node.form # "int"
      <3>1. asdf_value_infer_int(v) \in WrapType
        BY <2>4, InferOthers
      <3>2. /\ asdf_value_infer_int(v).err = "PARSE_FAILURE"
            /\ asdf_value_infer_int(v).type = "UNKNOWN"
        BY <2>4 DEF asdf_value_infer_int, asdf_yaml_scalar_is_int, WrapType
      <3> QED
        BY <2>1, <2>2, <2>4, <3>1, <3>2 DEF Outcome
    <2> QED
      BY <2>3, <2>4
  <1>4. CASE node.tag = "float"
    <2>1. InferTagged(v) = asdf_value_infer_float(v, TRUE)
      BY <1>4 DEF InferTagged
    <2>2. Meaning = IF node.form = "float" \/ node.spell \in {"digit", "decimal"}
                    THEN "float" ELSE "malformed"
      BY <1>4 DEF Meaning, FormFitsTag
    <2>3. asdf_value_infer_float(v, TRUE) \in WrapType
      BY InferOthers
    <2> QED
      BY <2>1, <2>2, <2>3 DEF Outcome, asdf_value_infer_float, WrapType
  <1> QED
    BY <1>1, <1>2, <1>3, <1>4

\* The inference of a plain scalar without one.
LEMMA UntaggedOutcome ==
    ASSUME node \in NodeType, node.style = "plain",
           node.tag \in {"none", "other"}, NEW v \in WrapType
    PROVE  Outcome([v |-> InferUntagged(v), err |-> InferUntagged(v).err])
  <1> DEFINE n == asdf_value_infer_null(v)
             i == asdf_value_infer_int(n)
             b == asdf_value_infer_bool(i)
             f == asdf_value_infer_float(b, FALSE)
             s == [f EXCEPT !.type = "STRING", !.err = "OK"]
  <1>1. Meaning = IF node.form = "other" THEN "string" ELSE node.form
    BY DEF Meaning
  <1>2. node.form \in {"null", "bool", "int", "float", "other"}
    BY DEF NodeType
  <1>3. n \in WrapType
    BY InferOthers
  <1>4. n.err = (IF node.form = "null" THEN "OK" ELSE "PARSE_FAILURE")
        /\ (node.form = "null" => n.type = "NULL")
    BY DEF asdf_value_infer_null, WrapType
  <1>5. InferUntagged(v) = IF n.err = "OK" THEN n
                           ELSE IF i.err \in {"OK", "OVERFLOW"} THEN i
                           ELSE IF b.err = "OK" THEN b
                           ELSE IF f.err \in {"OK", "OVERFLOW"} THEN f ELSE s
    BY DEF InferUntagged, Recognised
  <1> HIDE DEF n
  <1>6. CASE node.form = "null"
    BY <1>1, <1>3, <1>4, <1>5, <1>6 DEF Outcome
  <1>7. CASE node.form = "int"
    <2>1. /\ i \in WrapType
          /\ Held(Number) => i.err = "OK" /\ Holds(i, Number) /\ Least(i, Number)
          /\ ~Held(Number) => i.err = "OVERFLOW" /\ i.type = "UNKNOWN"
      BY <1>3, <1>7, InferInt
    <2> QED
      BY <1>1, <1>4, <1>5, <1>7, <2>1 DEF Outcome
  <1>8. CASE node.form \in {"bool", "float", "other"}
    <2>1. i \in WrapType
      BY <1>3, <1>8, InferOthers
    <2>2. i.err = "PARSE_FAILURE"
      BY <1>3, <1>8 DEF asdf_value_infer_int, asdf_yaml_scalar_is_int, WrapType
    <2> HIDE DEF i
    <2>3. b \in WrapType
      BY <2>1, InferOthers
    <2>4. b.err = (IF node.form = "bool" THEN "OK" ELSE "PARSE_FAILURE")
          /\ (node.form = "bool" => b.type = "BOOL")
      <3>1. node.spell # "digit"
        BY <1>8 DEF NodeType
      <3> QED
        BY <1>8, <2>1, <3>1 DEF asdf_value_infer_bool, WrapType
    <2> HIDE DEF b
    <2>5. CASE node.form = "bool"
      BY <1>1, <1>4, <1>5, <1>8, <2>2, <2>3, <2>4, <2>5 DEF Outcome
    <2>6. CASE node.form # "bool"
      <3>1. f \in WrapType
        BY <2>3, InferOthers
      <3>2. /\ node.form = "float" =>
                 /\ f.type = "DOUBLE" /\ f.d = node.real
                 /\ f.err = IF node.real = "over" THEN "OVERFLOW" ELSE "OK"
            /\ node.form # "float" => f.err = "PARSE_FAILURE"
        BY <1>8, <2>3 DEF asdf_value_infer_float, WrapType
      <3> HIDE DEF f
      <3>3. s \in WrapType /\ s.type = "STRING" /\ s.err = "OK"
        BY <3>1 DEF WrapType, ValueTypes, Errors
      <3> HIDE DEF s
      <3>4. CASE node.form = "float"
        BY <1>1, <1>4, <1>5, <1>8, <2>2, <2>4, <2>6, <3>1, <3>2, <3>4 DEF Outcome
      <3>5. CASE node.form = "other"
        BY <1>1, <1>4, <1>5, <1>8, <2>2, <2>4, <2>6, <3>2, <3>3, <3>5 DEF Outcome
      <3> QED
        BY <1>8, <2>6, <3>4, <3>5
    <2> QED
      BY <2>5, <2>6
  <1> QED
    BY <1>2, <1>6, <1>7, <1>8

\* What the first inference of a wrapper yields.
LEMMA FreshOutcome ==
    ASSUME node \in NodeType, NEW v \in WrapType, v.type = "SCALAR", v.err = "UNKNOWN"
    PROVE  Outcome(asdf_value_infer_scalar_type(v))
  <1> DEFINE i == asdf_value_infer_scalar_type(v)
  <1>1. /\ node.style \in {"plain", "quoted"}
        /\ node.tag \in {"none", "other", "null", "bool", "int", "float", "str"}
    BY DEF NodeType
  <1>2. CASE node.style # "plain"
    <2> DEFINE s == [v EXCEPT !.type = "STRING", !.err = "OK"]
    <2>1. i = [v |-> s, err |-> "OK"]
      BY <1>2 DEF asdf_value_infer_scalar_type
    <2>2. Meaning = "string"
      BY <1>2 DEF Meaning
    <2>3. s \in WrapType /\ s.type = "STRING"
      BY DEF WrapType, ValueTypes, Errors
    <2> HIDE DEF s
    <2> QED
      BY <2>1, <2>2, <2>3 DEF Outcome
  <1>3. CASE node.style = "plain" /\ node.tag = "str"
    <2>1. InferTagged(v) = [v EXCEPT !.type = "STRING"]
      BY <1>3 DEF InferTagged
    <2> DEFINE s == [v EXCEPT !.type = "STRING"]
    <2>2. i = [v |-> s, err |-> "OK"]
      BY <1>3, <2>1 DEF asdf_value_infer_scalar_type
    <2>3. Meaning = "string"
      BY <1>3 DEF Meaning
    <2>4. s \in WrapType /\ s.type = "STRING"
      BY DEF WrapType, ValueTypes
    <2> HIDE DEF s
    <2> QED
      BY <2>2, <2>3, <2>4 DEF Outcome
  <1>4. CASE node.style = "plain" /\ node.tag \in {"null", "bool", "int", "float"}
    <2>1. i = [v |-> InferTagged(v), err |-> InferTagged(v).err]
      BY <1>4 DEF asdf_value_infer_scalar_type
    <2> QED
      BY <1>4, <2>1, TaggedOutcome
  <1>5. CASE node.style = "plain" /\ node.tag \in {"none", "other"}
    <2>1. i = [v |-> InferUntagged(v), err |-> InferUntagged(v).err]
      BY <1>5 DEF asdf_value_infer_scalar_type
    <2> QED
      BY <1>5, <2>1, UntaggedOutcome
  <1> QED
    BY <1>1, <1>2, <1>3, <1>4, <1>5

-----------------------------------------------------------------------------
(* The is_<type> accessors; is_uint8 accepts every unsigned number. *)

\* asdf_value_is_type asks the accessor of the type.
LEMMA IsTypeInt ==
    ASSUME NEW v
    PROVE  /\ asdf_value_is_type(v)["INT8"] = asdf_value_is_int8(v)
           /\ asdf_value_is_type(v)["INT16"] = asdf_value_is_int16(v)
           /\ asdf_value_is_type(v)["INT32"] = asdf_value_is_int32(v)
           /\ asdf_value_is_type(v)["INT64"] = asdf_value_is_int64(v)
           /\ asdf_value_is_type(v)["UINT16"] = asdf_value_is_uint16(v)
           /\ asdf_value_is_type(v)["UINT32"] = asdf_value_is_uint32(v)
           /\ asdf_value_is_type(v)["UINT64"] = asdf_value_is_uint64(v)
  <1>1. IntTypes \subseteq IsFunctions
    BY DEF IsFunctions
  <1>2. asdf_value_is_type(v)["INT8"] = asdf_value_is_int8(v)
    BY <1>1 DEF asdf_value_is_type, IntTypes, Signed, Unsigned
  <1>3. asdf_value_is_type(v)["INT16"] = asdf_value_is_int16(v)
    BY <1>1 DEF asdf_value_is_type, IntTypes, Signed, Unsigned
  <1>4. asdf_value_is_type(v)["INT32"] = asdf_value_is_int32(v)
    BY <1>1 DEF asdf_value_is_type, IntTypes, Signed, Unsigned
  <1>5. asdf_value_is_type(v)["INT64"] = asdf_value_is_int64(v)
    BY <1>1 DEF asdf_value_is_type, IntTypes, Signed, Unsigned
  <1>6. asdf_value_is_type(v)["UINT16"] = asdf_value_is_uint16(v)
    BY <1>1 DEF asdf_value_is_type, IntTypes, Signed, Unsigned
  <1>7. asdf_value_is_type(v)["UINT32"] = asdf_value_is_uint32(v)
    BY <1>1 DEF asdf_value_is_type, IntTypes, Signed, Unsigned
  <1>8. asdf_value_is_type(v)["UINT64"] = asdf_value_is_uint64(v)
    BY <1>1 DEF asdf_value_is_type, IntTypes, Signed, Unsigned
  <1> QED
    BY <1>2, <1>3, <1>4, <1>5, <1>6, <1>7, <1>8

\* is_<type> is true of a wrapper that holds n only if n fits.
LEMMA IsHeld ==
    ASSUME NEW v, NEW n \in Int, Holds(v, n), NEW T \in IntTypes \ {"UINT8"},
           asdf_value_is_type(v)[T]
    PROVE  InRange(T, n)
  BY IsInt8, IsInt16, IsInt32, IsInt64, IsUint16, IsUint32, IsUint64, IsTypeInt
  DEF IntTypes, Signed, Unsigned

\* It is false of a wrapper whose type is no integer type.
LEMMA IsOther ==
    ASSUME NEW v, v.type \notin IntTypes, NEW T \in IntTypes \ {"UINT8"}
    PROVE  ~asdf_value_is_type(v)[T]
  <1>1. ~asdf_value_is_int8(v)
    BY DEF IntTypes, Signed, Unsigned, asdf_value_is_int8
  <1>2. ~asdf_value_is_int16(v)
    BY DEF IntTypes, Signed, Unsigned, asdf_value_is_int16
  <1>3. ~asdf_value_is_int32(v)
    BY DEF IntTypes, Signed, Unsigned, asdf_value_is_int32
  <1>4. ~asdf_value_is_int64(v)
    BY DEF IntTypes, Signed, Unsigned, asdf_value_is_int64
  <1>5. ~asdf_value_is_uint16(v)
    BY DEF IntTypes, Signed, Unsigned, asdf_value_is_uint16
  <1>6. ~asdf_value_is_uint32(v)
    BY DEF IntTypes, Signed, Unsigned, asdf_value_is_uint32
  <1>7. ~asdf_value_is_uint64(v)
    BY DEF IntTypes, Signed, Unsigned, asdf_value_is_uint64
  <1> QED
    BY <1>1, <1>2, <1>3, <1>4, <1>5, <1>6, <1>7, IsTypeInt
    DEF IntTypes, Signed, Unsigned

\* It is true of a number that fits if the wrapper has the least type for it.
LEMMA IsLeast ==
    ASSUME NEW v, NEW n \in Int, Holds(v, n), Least(v, n),
           NEW T \in IntTypes \ {"UINT8"}, InRange(T, n)
    PROVE  asdf_value_is_type(v)[T]
  <1>1. /\ Width["INT8"] = W8 /\ Width["INT16"] = W16
        /\ Width["INT32"] = W32 /\ Width["INT64"] = W64
        /\ W8 \in Nat /\ W16 \in Nat /\ W32 \in Nat /\ W64 \in Nat
        /\ W8 < W16 /\ W16 < W32 /\ W32 < W64
    BY WidthAssumption DEF Width
  <1>2. v.type \in Signed \cup Unsigned
    BY DEF Holds, IntTypes
  <1>3. CASE v.type \in Unsigned
    <2>1. v.u = n /\ n >= 0
      BY <1>3, Contents
    <2>2. InRange("INT8", n) => asdf_value_is_int8(v)
      BY <1>3, <2>1, Bounds, Halves DEF InRange, asdf_value_is_int8, IntTypes, Signed, Unsigned
    <2>3. InRange("INT16", n) => asdf_value_is_int16(v)
      BY <1>3, <2>1, Bounds, Halves DEF InRange, asdf_value_is_int16, IntTypes, Signed, Unsigned
    <2>4. InRange("INT32", n) => asdf_value_is_int32(v)
      BY <1>3, <2>1, Bounds, Halves DEF InRange, asdf_value_is_int32, IntTypes, Signed, Unsigned
    <2>5. InRange("INT64", n) => asdf_value_is_int64(v)
      BY <1>3, <2>1, Bounds, Halves DEF InRange, asdf_value_is_int64, IntTypes, Signed, Unsigned
    <2>6. InRange("UINT16", n) => asdf_value_is_uint16(v)
      BY <1>3, <2>1, Bounds, Halves DEF InRange, asdf_value_is_uint16, IntTypes, Signed, Unsigned
    <2>7. InRange("UINT32", n) => asdf_value_is_uint32(v)
      BY <1>3, <2>1, Bounds, Halves DEF InRange, asdf_value_is_uint32, IntTypes, Signed, Unsigned
    <2>8. InRange("UINT64", n) => asdf_value_is_uint64(v)
      BY <1>3, <2>1, Bounds, Halves DEF InRange, asdf_value_is_uint64, IntTypes, Signed, Unsigned
    <2> QED
      BY <2>2, <2>3, <2>4, <2>5, <2>6, <2>7, <2>8, IsTypeInt
      DEF IntTypes, Signed, Unsigned
  <1>4. CASE v.type \in Signed
    <2>1. /\ ScalarI(v) = n /\ n <= 0
          /\ n >= 0 => n = 0
      BY <1>4, Contents DEF Least
    <2>2. \A S \in Signed : InRange(S, n) => Width[v.type] <= Width[S]
      BY <1>4 DEF Least
    <2>3. InRange("INT8", n) => asdf_value_is_int8(v)
      BY <1>1, <1>4, <2>1, <2>2, Bounds, Halves
      DEF InRange, asdf_value_is_int8, IntTypes, Signed, Unsigned
    <2>4. InRange("INT16", n) => asdf_value_is_int16(v)
      BY <1>1, <1>4, <2>1, <2>2, Bounds, Halves
      DEF InRange, asdf_value_is_int16, IntTypes, Signed, Unsigned
    <2>5. InRange("INT32", n) => asdf_value_is_int32(v)
      BY <1>1, <1>4, <2>1, <2>2, Bounds, Halves
      DEF InRange, asdf_value_is_int32, IntTypes, Signed, Unsigned
    <2>6. InRange("INT64", n) => asdf_value_is_int64(v)
      BY <1>1, <1>4, <2>1, <2>2, Bounds, Halves
      DEF InRange, asdf_value_is_int64, IntTypes, Signed, Unsigned
    <2>7. InRange("UINT16", n) => asdf_value_is_uint16(v)
      BY <1>1, <1>4, <2>1, <2>2, Bounds, Halves
      DEF InRange, asdf_value_is_uint16, IntTypes, Signed, Unsigned
    <2>8. InRange("UINT32", n) => asdf_value_is_uint32(v)
      BY <1>1, <1>4, <2>1, <2>2, Bounds, Halves
      DEF InRange, asdf_value_is_uint32, IntTypes, Signed, Unsigned
    <2>9. InRange("UINT64", n) => asdf_value_is_uint64(v)
      BY <1>1, <1>4, <2>1, <2>2, Bounds, Halves
      DEF InRange, asdf_value_is_uint64, IntTypes, Signed, Unsigned
    <2> QED
      BY <2>3, <2>4, <2>5, <2>6, <2>7, <2>8, <2>9, IsTypeInt
      DEF IntTypes, Signed, Unsigned
  <1> QED
    BY <1>2, <1>3, <1>4

-----------------------------------------------------------------------------
(* The inductive invariant: every wrapper agrees with the node, whatever   *)
(* was asked of it before.                                                 *)

(* An integer type is one that holds the node's number; a wrapper not yet  *)
(* inferred has no error; any other type says that no integer type holds   *)
(* what the node denotes.                                                  *)
SoundFor(v, meaning, n) ==
    /\ v.type \in IntTypes => meaning = "int" /\ Holds(v, n)
    /\ v.type = "SCALAR" => v.err = "UNKNOWN"
    /\ v.type \notin IntTypes \cup {"SCALAR"} =>
         \A T \in IntTypes : ~(meaning = "int" /\ InRange(T, n))

Sound(v) == SoundFor(v, Meaning, Number)

Wrappers ==
    /\ node \in NodeType
    /\ inTree \in BOOLEAN
    /\ val \in [Values -> WrapType \cup {None}]
    /\ \A w \in Values : val[w] # None => SoundFor(val[w], Meaning, Number)

\* Inference keeps a wrapper sound, and fails only where no integer fits.
LEMMA InferSound ==
    ASSUME node \in NodeType, NEW v \in WrapType, Sound(v)
    PROVE  LET i == asdf_value_infer_scalar_type(v)
           IN  /\ i.v \in WrapType
               /\ i.v.type # "SCALAR"
               /\ Sound(i.v)
               /\ i.err # "OK" => i.err \in {"PARSE_FAILURE", "OVERFLOW"}
               /\ i.err # "OK" => \A T \in IntTypes : ~Fits(T)
               /\ i.err = "OVERFLOW" => Meaning \in {"int", "float"}
  <1> DEFINE i == asdf_value_infer_scalar_type(v)
  <1>1. CASE v.type # "SCALAR"
    <2>1. i = [v |-> v, err |-> "OK"]
      BY <1>1 DEF asdf_value_infer_scalar_type
    <2> QED
      BY <1>1, <2>1
  <1>2. CASE v.type = "SCALAR"
    <2>1. Outcome(i)
      BY <1>2, FreshOutcome DEF Sound, SoundFor
    <2> HIDE DEF i
    <2>2. i.v \in WrapType
      BY <2>1 DEF Outcome
    <2>3. {"UNKNOWN", "STRING", "NULL", "BOOL", "DOUBLE", "SCALAR"} \cap IntTypes = {}
      BY DEF IntTypes, Signed, Unsigned
    <2>4. CASE Meaning = "int" /\ Held(Number)
      <3>1. i.err = "OK" /\ Holds(i.v, Number)
        BY <2>1, <2>4 DEF Outcome
      <3>2. i.v.type \in IntTypes
        BY <3>1 DEF Holds
      <3> QED
        BY <2>2, <2>3, <2>4, <3>1, <3>2 DEF Sound, SoundFor, i
    <2>5. CASE ~(Meaning = "int" /\ Held(Number))
      <3>1. \A T \in IntTypes : ~Fits(T)
        BY <2>5, FitsInt, HeldFits
      <3>2. i.v.type \in {"UNKNOWN", "STRING", "NULL", "BOOL", "DOUBLE"}
        BY <2>1, <2>5 DEF Outcome
      <3>3. Sound(i.v)
        BY <2>3, <3>1, <3>2, FitsInt DEF Sound, SoundFor
      <3>4. i.err # "OK" => i.err \in {"PARSE_FAILURE", "OVERFLOW"}
        BY <2>1, <2>5 DEF Outcome
      <3>5. i.err = "OVERFLOW" => Meaning \in {"int", "float"}
        BY <2>1, <2>5 DEF Outcome
      <3>6. i.v.type # "SCALAR"
        BY <3>2
      <3> QED
        BY <2>2, <3>1, <3>3, <3>4, <3>5, <3>6 DEF i
    <2> QED
      BY <2>4, <2>5
  <1> QED
    BY <1>1, <1>2

(* The answers asdf_value_as_<type> may give of the wrapper v. *)
AsAnswers(v, T) ==
    LET i == asdf_value_infer_scalar_type(v)
    IN  IF i.err = "OK" THEN asdf_value_as_type(i.v)[T]
        ELSE IF T = "NULL" THEN Mismatch
        ELSE {[err |-> i.err, out |-> "unset"]}

\* An answer about an integer type is right.
LEMMA AsSound ==
    ASSUME node \in NodeType, NEW v \in WrapType, Sound(v), NEW T \in IntTypes,
           NEW r \in AsAnswers(v, T)
    PROVE  /\ r.err = "OK" <=> Fits(T)
           /\ r.err = "OK" => r.out = Number
           /\ r.err = "OVERFLOW" => Meaning \in {"int", "float"} /\ ~Fits(T)
  <1> DEFINE i == asdf_value_infer_scalar_type(v)
  <1>1. /\ i.v \in WrapType
        /\ i.v.type # "SCALAR"
        /\ Sound(i.v)
        /\ i.err # "OK" => i.err \in {"PARSE_FAILURE", "OVERFLOW"}
        /\ i.err # "OK" => \A S \in IntTypes : ~Fits(S)
        /\ i.err = "OVERFLOW" => Meaning \in {"int", "float"}
    BY InferSound
  <1>2. T # "NULL"
    BY DEF IntTypes, Signed, Unsigned
  <1>3. r \in IF i.err = "OK" THEN asdf_value_as_type(i.v)[T]
              ELSE {[err |-> i.err, out |-> "unset"]}
    BY <1>2 DEF AsAnswers
  <1> HIDE DEF i
  <1>4. CASE i.err # "OK"
    <2>1. r.err = i.err
      BY <1>3, <1>4
    <2> QED
      BY <1>1, <1>4, <2>1
  <1>5. CASE i.err = "OK" /\ i.v.type \in IntTypes
    <2>1. Meaning = "int" /\ Holds(i.v, Number)
      BY <1>1, <1>5 DEF Sound, SoundFor
    <2>2. r \in asdf_value_as_type(i.v)[T]
      BY <1>3, <1>5
    <2>3. /\ r.err = IF InRange(T, Number) THEN "OK" ELSE "OVERFLOW"
          /\ InRange(T, Number) => r.out = Number
      BY <2>1, <2>2, NumberType, AsHeld
    <2>4. Fits(T) <=> InRange(T, Number)
      BY <2>1, FitsInt
    <2> QED
      BY <2>1, <2>3, <2>4
  <1>6. CASE i.err = "OK" /\ i.v.type \notin IntTypes
    <2>1. ~Fits(T)
      BY <1>1, <1>6, FitsInt DEF Sound, SoundFor
    <2>2. r \in asdf_value_as_type(i.v)[T]
      BY <1>3, <1>6
    <2>3. r.err = "TYPE_MISMATCH"
      BY <1>6, <2>2, AsOther
    <2> QED
      BY <2>1, <2>3
  <1> QED
    BY <1>4, <1>5, <1>6

\* So is an answer of is_<type>.
LEMMA IsSound ==
    ASSUME node \in NodeType, NEW v \in WrapType, Sound(v), NEW T \in IntTypes \ {"UINT8"}
    PROVE  LET i == asdf_value_infer_scalar_type(v)
               answer == i.err = "OK" /\ asdf_value_is_type(i.v)[T]
           IN  /\ answer => Fits(T)
               /\ v.type = "SCALAR" /\ Fits(T) => answer
  <1> DEFINE i == asdf_value_infer_scalar_type(v)
  <1>1. /\ i.v.type # "SCALAR"
        /\ Sound(i.v)
    BY InferSound
  <1>2. v.type = "SCALAR" => Outcome(i)
    BY FreshOutcome DEF Sound, SoundFor
  <1> HIDE DEF i
  <1>3. ASSUME i.err = "OK", asdf_value_is_type(i.v)[T] PROVE Fits(T)
    <2>1. i.v.type \in IntTypes
      BY <1>3, IsOther
    <2>2. Meaning = "int" /\ Holds(i.v, Number)
      BY <1>1, <2>1 DEF Sound, SoundFor
    <2>3. InRange(T, Number)
      BY <1>3, <2>2, NumberType, IsHeld
    <2> QED
      BY <2>2, <2>3, FitsInt
  <1>4. ASSUME v.type = "SCALAR", Fits(T) PROVE i.err = "OK" /\ asdf_value_is_type(i.v)[T]
    <2>1. Meaning = "int" /\ InRange(T, Number)
      BY <1>4, FitsInt
    <2>2. Held(Number)
      BY <2>1, FitsHeld
    <2>3. i.err = "OK" /\ Holds(i.v, Number) /\ Least(i.v, Number)
      BY <1>2, <1>4, <2>1, <2>2 DEF Outcome
    <2> QED
      BY <2>1, <2>3, NumberType, IsLeast
  <1> QED
    BY <1>3, <1>4 DEF i

(* The error the documentation promises of the first question. *)
FirstError(T) ==
    IF Meaning = "malformed" THEN "PARSE_FAILURE"
    ELSE IF Fits(T) THEN "OK"
    ELSE IF \/ Meaning = "int" /\ T # "FLOAT"
            \/ Meaning = "int" /\ \A S \in IntTypes : ~Fits(S)
            \/ Meaning = "float" /\ T \in {"FLOAT", "DOUBLE"}
            \/ Meaning = "float" /\ node.real = "over"
         THEN "OVERFLOW"
    ELSE "TYPE_MISMATCH"

\* FLOAT and DOUBLE are no integer types.
LEMMA RealTypes ==
    /\ "FLOAT" \notin IntTypes /\ "DOUBLE" \notin IntTypes
    /\ "FLOAT" \in AsFunctions \ {"SCALAR"} /\ "DOUBLE" \in AsFunctions \ {"SCALAR"}
    /\ \A T \in NumberTypes : T # "NULL" /\ (T \in IntTypes \/ T = "FLOAT" \/ T = "DOUBLE")
    /\ \A t \in {"STRING", "NULL", "BOOL", "UNKNOWN"} : t \notin IntTypes
  BY DEF IntTypes, Signed, Unsigned, AsFunctions, NumberTypes

\* asdf_value_as_type asks as_float and as_double.
LEMMA AsTypeReal ==
    ASSUME NEW v
    PROVE  /\ asdf_value_as_type(v)["FLOAT"] = asdf_value_as_float(v)
           /\ asdf_value_as_type(v)["DOUBLE"] = asdf_value_as_double(v)
  <1>1. {"FLOAT", "DOUBLE"} \subseteq AsFunctions \ {"SCALAR"}
    BY DEF AsFunctions
  <1>2. asdf_value_as_type(v)["FLOAT"] = asdf_value_as_float(v)
    BY <1>1 DEF asdf_value_as_type
  <1>3. asdf_value_as_type(v)["DOUBLE"] = asdf_value_as_double(v)
    BY <1>1 DEF asdf_value_as_type
  <1> QED
    BY <1>2, <1>3

\* When a number of the tree fits a floating point type.
LEMMA FitsReal ==
    /\ Fits("FLOAT") <=> (Meaning = "float" /\ node.real \in {"float", "special"})
    /\ Fits("DOUBLE") <=> (\/ Meaning = "float" /\ node.real \in {"float", "special", "double"}
                           \/ Meaning = "int" /\ Held(Number))
  <1>1. Fits("FLOAT") <=> (Meaning = "float" /\ node.real \in {"float", "special"})
    BY RealTypes DEF Fits
  <1>2. Fits("DOUBLE") <=> (\/ Meaning = "float" /\ node.real \in {"float", "special", "double"}
                            \/ Meaning = "int" /\ Held(Number))
    BY RealTypes DEF Fits, Held
  <1> QED
    BY <1>1, <1>2

\* The first question about a number is answered by the rules.
LEMMA FirstSound ==
    ASSUME node \in NodeType, NEW v \in WrapType, v.type = "SCALAR", v.err = "UNKNOWN",
           NEW T \in NumberTypes, NEW r \in AsAnswers(v, T)
    PROVE  r.err = FirstError(T)
  <1> DEFINE i == asdf_value_infer_scalar_type(v)
  <1>1. Outcome(i)
    BY FreshOutcome
  <1>2. r \in IF i.err = "OK" THEN asdf_value_as_type(i.v)[T]
              ELSE {[err |-> i.err, out |-> "unset"]}
    BY RealTypes DEF AsAnswers
  <1> HIDE DEF i
  <1>3. i.err # "OK" => r.err = i.err
    BY <1>2
  <1>4. i.err = "OK" => r \in asdf_value_as_type(i.v)[T]
    BY <1>2
  <1>10. i.err = "OK" /\ T = "FLOAT" => r \in asdf_value_as_float(i.v)
    BY <1>4, AsTypeReal
  <1>11. i.err = "OK" /\ T = "DOUBLE" => r \in asdf_value_as_double(i.v)
    BY <1>4, AsTypeReal
  <1>5. CASE Meaning = "malformed"
    BY <1>1, <1>3, <1>5 DEF Outcome, FirstError
  <1>6. CASE Meaning \in {"string", "null", "bool"}
    <2>1. i.err = "OK" /\ i.v.type \in {"STRING", "NULL", "BOOL"}
      BY <1>1, <1>6 DEF Outcome
    <2>2. ~Fits(T) /\ FirstError(T) = "TYPE_MISMATCH"
      <3>1. ~Fits(T)
        BY <1>6, FitsInt, FitsReal, RealTypes
      <3> QED
        BY <1>6, <3>1 DEF FirstError
    <2>3. CASE T \in IntTypes
      BY <1>4, <2>1, <2>2, <2>3, AsOther, RealTypes
    <2>4. CASE T = "FLOAT"
      <3>1. asdf_value_as_float(i.v) = Mismatch
        BY <2>1 DEF asdf_value_as_float
      <3>2. r.err = "TYPE_MISMATCH"
        BY <1>10, <2>1, <2>4, <3>1 DEF Mismatch
      <3> QED
        BY <2>2, <3>2
    <2>5. CASE T = "DOUBLE"
      <3>1. asdf_value_as_double(i.v) = Mismatch
        BY <2>1 DEF asdf_value_as_double, Signed, Unsigned
      <3>2. r.err = "TYPE_MISMATCH"
        BY <1>11, <2>1, <2>5, <3>1 DEF Mismatch
      <3> QED
        BY <2>2, <3>2
    <2> QED
      BY <2>3, <2>4, <2>5, RealTypes
  <1>7. CASE Meaning = "float"
    <2>1. /\ i.v.type = "DOUBLE" /\ i.v.d = node.real
          /\ i.err = IF node.real = "over" THEN "OVERFLOW" ELSE "OK"
      BY <1>1, <1>7 DEF Outcome
    <2>2. node.real \in {"float", "double", "over", "special"}
      BY DEF NodeType, Reals
    <2>3. CASE node.real = "over"
      <3>1. ~Fits(T)
        BY <1>7, <2>3, FitsInt, FitsReal, RealTypes
      <3>2. FirstError(T) = "OVERFLOW"
        BY <1>7, <2>3, <3>1 DEF FirstError
      <3> QED
        BY <1>3, <2>1, <2>3, <3>2
    <2>4. CASE node.real # "over" /\ T \in IntTypes
      <3>1. ~Fits(T)
        BY <1>7, <2>4, FitsInt
      <3>2. FirstError(T) = "TYPE_MISMATCH"
        BY <1>7, <2>4, <3>1, RealTypes DEF FirstError
      <3>3. r.err = "TYPE_MISMATCH"
        BY <1>4, <2>1, <2>4, AsOther, RealTypes
      <3> QED
        BY <3>2, <3>3
    <2>5. CASE node.real # "over" /\ T = "FLOAT"
      <3>1. FirstError(T) = IF node.real = "double" THEN "OVERFLOW" ELSE "OK"
        BY <1>7, <2>2, <2>5, FitsReal DEF FirstError
      <3>2. r.err = IF node.real = "double" THEN "OVERFLOW" ELSE "OK"
        BY <1>10, <2>1, <2>5 DEF asdf_value_as_float, Answer
      <3> QED
        BY <3>1, <3>2
    <2>6. CASE node.real # "over" /\ T = "DOUBLE"
      <3>1. FirstError(T) = "OK"
        BY <1>7, <2>2, <2>6, FitsReal DEF FirstError
      <3>2. r.err = "OK"
        BY <1>11, <2>1, <2>6 DEF asdf_value_as_double, Answer
      <3> QED
        BY <3>1, <3>2
    <2> QED
      BY <2>3, <2>4, <2>5, <2>6, RealTypes
  <1>8. CASE Meaning = "int" /\ Held(Number)
    <2>1. i.err = "OK" /\ Holds(i.v, Number)
      BY <1>1, <1>8 DEF Outcome
    <2>2. i.v.type \in IntTypes /\ Fits(i.v.type)
      BY <1>8, <2>1, FitsInt DEF Holds
    <2>3. CASE T \in IntTypes
      <3>1. FirstError(T) = IF InRange(T, Number) THEN "OK" ELSE "OVERFLOW"
        BY <1>8, <2>3, FitsInt, RealTypes DEF FirstError
      <3>2. r.err = IF InRange(T, Number) THEN "OK" ELSE "OVERFLOW"
        BY <1>4, <2>1, <2>3, NumberType, AsHeld
      <3> QED
        BY <3>1, <3>2
    <2>4. CASE T = "FLOAT"
      <3>1. FirstError(T) = "TYPE_MISMATCH"
        BY <1>8, <2>2, <2>4, FitsReal DEF FirstError
      <3>2. r.err = "TYPE_MISMATCH"
        <4>1. i.v.type # "FLOAT" /\ i.v.type # "DOUBLE"
          BY <2>2, RealTypes
        <4>2. asdf_value_as_float(i.v) = Mismatch
          BY <4>1 DEF asdf_value_as_float
        <4> QED
          BY <1>10, <2>1, <2>4, <4>2 DEF Mismatch
      <3> QED
        BY <3>1, <3>2
    <2>5. CASE T = "DOUBLE"
      <3>1. FirstError(T) = "OK"
        BY <1>8, <2>5, FitsReal DEF FirstError
      <3>2. r.err = "OK"
        BY <1>11, <2>1, <2>2, <2>5 DEF asdf_value_as_double, Answer, IntTypes
      <3> QED
        BY <3>1, <3>2
    <2> QED
      BY <2>3, <2>4, <2>5, RealTypes
  <1>9. CASE Meaning = "int" /\ ~Held(Number)
    <2>1. \A S \in IntTypes : ~Fits(S)
      BY <1>9, FitsInt, HeldFits
    <2>2. ~Fits(T)
      BY <1>9, <2>1, FitsReal, RealTypes
    <2>3. FirstError(T) = "OVERFLOW"
      BY <1>9, <2>1, <2>2 DEF FirstError
    <2> QED
      BY <1>1, <1>3, <1>9, <2>3 DEF Outcome
  <1> QED
    BY <1>1, <1>5, <1>6, <1>7, <1>8, <1>9 DEF Outcome

-----------------------------------------------------------------------------
(* The invariant holds at first and every operation keeps it. *)

Calls == {"none", "is", "as", "type"}

Answers == res.call \in Calls /\ AsIntRight /\ IsIntRight /\ FirstAnswerRight

ScalarInv == Wrappers /\ Answers

\* No question asked: every property of the answers holds.
LEMMA NothingAsked ==
    ASSUME res = NoResult
    PROVE  Answers
  <1>1. res.call = "none"
    BY DEF NoResult
  <1> QED
    BY <1>1 DEF Answers, Calls, AsIntRight, IsIntRight, FirstAnswerRight

\* The same of the next state.
LEMMA NothingAskedNext ==
    ASSUME res' = NoResult
    PROVE  Answers'
  <1>1. res'.call = "none"
    BY DEF NoResult
  <1> QED
    BY <1>1 DEF Answers, Calls, AsIntRight, IsIntRight, FirstAnswerRight

\* A wrapper just made is sound.
LEMMA Created ==
    ASSUME NEW a \in BOOLEAN
    PROVE  LET c == asdf_value_create(a)
           IN  c \in WrapType /\ c # None /\ c.type = "SCALAR" /\ c.err = "UNKNOWN"
               /\ \A m, n : SoundFor(c, m, n)
  <1> DEFINE c == asdf_value_create(a)
  <1>1. 0 \in 0 .. MaxOf("UINT64")
    BY Bounds, Halves
  <1>2. c \in WrapType
    BY <1>1 DEF asdf_value_create, WrapType, ValueTypes, Errors, Reals
  <1>3. c.type = "SCALAR" /\ c.err = "UNKNOWN"
    BY DEF asdf_value_create
  <1>4. None.type = "none"
    BY DEF None
  <1>5. "SCALAR" \notin IntTypes
    BY DEF IntTypes, Signed, Unsigned
  <1> HIDE DEF c
  <1>6. \A m, n : SoundFor(c, m, n)
    BY <1>3, <1>5 DEF SoundFor
  <1>7. c # None
    BY <1>3, <1>4
  <1> QED
    BY <1>2, <1>3, <1>6, <1>7 DEF c

\* A wrapper is not None.
LEMMA WrapNotNone ==
    ASSUME NEW v \in WrapType
    PROVE  v # None
  <1>1. v.type \in ValueTypes
    BY DEF WrapType
  <1>2. None.type = "none" /\ "none" \notin ValueTypes
    BY DEF None, ValueTypes, IntTypes, Signed, Unsigned
  <1> QED
    BY <1>1, <1>2

\* One wrapper, and no other, in the first state.
LEMMA OneWrapper ==
    ASSUME node \in NodeType, inTree = FALSE, NEW w \in Values, NEW v \in WrapType,
           SoundFor(v, Meaning, Number), val = [x \in Values |-> IF x = w THEN v ELSE None]
    PROVE  Wrappers
  BY DEF Wrappers

\* The initial states.
LEMMA ScalarInit ==
    ASSUME Init
    PROVE  ScalarInv
  <1>1. Answers
    BY NothingAsked DEF Init
  <1>2. CASE InitTree
    <2>1. node \in NodeType
      BY <1>2, NodesAssumption DEF InitTree
    <2> QED
      BY <1>1, <1>2, <2>1 DEF InitTree, ScalarInv, Wrappers
  <1>3. CASE InitCreated
    <2>1. PICK w \in Values, v \in UNION {
                {asdf_value_of(T, n) : n \in {m \in Numbers : MinOf(T) <= m /\ m <= MaxOf(T)}} :
                    T \in IntTypes} :
              /\ val = [x \in Values |-> IF x = w THEN v ELSE None]
              /\ LET n == IF v.type \in Signed THEN ScalarI(v) ELSE v.u
                 IN  node = IntNode("none", n < 0, IF n < 0 THEN -n ELSE n)
      BY <1>3 DEF InitCreated
    <2>2. PICK T \in IntTypes, n \in Numbers :
              v = asdf_value_of(T, n) /\ MinOf(T) <= n /\ n <= MaxOf(T)
      BY <2>1
    <2>3. n \in Int
      BY NumbersAssumption
    <2> DEFINE c == asdf_value_create(FALSE)
    <2>4. c \in WrapType
      BY Created
    <2>5. v = [c EXCEPT !.type = T, !.u = n % 2^W64]
      BY <2>2 DEF asdf_value_of
    <2> HIDE DEF c
    <2>6. v.type = T /\ v.u = n % 2^W64
      BY <2>4, <2>5 DEF WrapType
    <2>7. Holds(v, n)
      BY <2>2, <2>6 DEF Holds, InRange
    <2>8. v \in WrapType
      <3>1. v.u \in 0 .. MaxOf("UINT64")
        BY <2>3, <2>7, Contents
      <3>2. T \in ValueTypes
        BY DEF ValueTypes
      <3> QED
        BY <2>4, <2>5, <2>6, <3>1, <3>2 DEF WrapType
    <2>9. n = IF v.type \in Signed THEN ScalarI(v) ELSE v.u
      <3>1. v.type \in Signed \cup Unsigned
        BY <2>7 DEF Holds, IntTypes
      <3>2. CASE v.type \in Signed
        BY <2>3, <2>7, <3>2, Contents
      <3>3. CASE v.type \notin Signed
        <4>1. n >= 0
          BY <2>3, <2>7, <3>1, <3>3, Contents
        <4>2. v.u = n
          BY <2>3, <2>7, <4>1, Contents
        <4> QED
          BY <3>3, <4>2
      <3> QED
        BY <3>2, <3>3
    <2>10. node = IntNode("none", n < 0, IF n < 0 THEN -n ELSE n)
      BY <2>1, <2>9
    <2>11. node.style = "plain" /\ node.tag = "none" /\ node.form = "int"
           /\ node.neg = (n < 0) /\ node.mag = IF n < 0 THEN -n ELSE n
      <3>1. node = [style |-> "plain", tag |-> "none", form |-> "int", neg |-> n < 0,
                    mag |-> IF n < 0 THEN -n ELSE n,
                    spell |-> IF ~(n < 0) /\ (IF n < 0 THEN -n ELSE n) \in {0, 1}
                              THEN "digit" ELSE "decimal",
                    real |-> "float", truth |-> (IF n < 0 THEN -n ELSE n) = 1]
        BY <2>10 DEF IntNode
      <3> QED
        BY <3>1
    <2>12. node \in NodeType
      <3>1. (n < 0) \in BOOLEAN /\ (IF n < 0 THEN -n ELSE n) \in Nat
        BY <2>3
      <3> QED
        BY <2>10, <3>1 DEF IntNode, NodeType, Reals
    <2>13. Meaning = "int" /\ Number = n
      <3>1. Meaning = "int"
        BY <2>11 DEF Meaning
      <3>2. CASE n < 0
        <4>1. node.neg /\ node.mag = -n
          BY <2>11, <3>2
        <4> QED
          BY <2>3, <3>1, <4>1 DEF Number
      <3>3. CASE ~(n < 0)
        <4>1. ~node.neg /\ node.mag = n
          BY <2>11, <3>3
        <4> QED
          BY <3>1, <4>1 DEF Number
      <3> QED
        BY <3>2, <3>3
    <2>14. SoundFor(v, Meaning, Number)
      <3>1. v.type \in IntTypes /\ "SCALAR" \notin IntTypes
        BY <2>6 DEF IntTypes, Signed, Unsigned
      <3> QED
        BY <2>7, <2>13, <3>1 DEF SoundFor
    <2>15. Wrappers
      BY <1>3, <2>1, <2>8, <2>12, <2>14, OneWrapper DEF InitCreated
    <2> QED
      BY <1>1, <2>15 DEF ScalarInv
  <1>4. CASE InitFloat
    <2>1. PICK w \in Values, T \in {"FLOAT", "DOUBLE"}, r \in Reals \ {"over"} :
              /\ val = [x \in Values |-> IF x = w THEN asdf_value_of_float(T, r) ELSE None]
              /\ node = TextNode("none", "float", r, FALSE)
      BY <1>4 DEF InitFloat
    <2> DEFINE c == asdf_value_create(FALSE)
               v == asdf_value_of_float(T, r)
    <2>2. c \in WrapType
      BY Created
    <2>3. v = [c EXCEPT !.type = T, !.d = r]
      BY DEF asdf_value_of_float
    <2> HIDE DEF c, v
    <2>4. v \in WrapType /\ v.type = T
      BY <2>2, <2>3 DEF WrapType, ValueTypes
    <2>5. node \in NodeType /\ node.style = "plain" /\ node.tag = "none" /\ node.form = "float"
      BY <2>1 DEF TextNode, NodeType
    <2>6. Meaning = "float"
      BY <2>5 DEF Meaning
    <2>7. SoundFor(v, Meaning, Number)
      BY <2>4, <2>6, RealTypes DEF SoundFor
    <2>8. Wrappers
      BY <1>4, <2>1, <2>4, <2>5, <2>7, OneWrapper DEF InitFloat, v
    <2> QED
      BY <1>1, <2>8 DEF ScalarInv
  <1>5. CASE InitBool
    <2>1. PICK w \in Values, b \in BOOLEAN :
              /\ val = [x \in Values |-> IF x = w THEN asdf_value_of_bool(b) ELSE None]
              /\ node = TextNode("none", "bool", "float", b)
      BY <1>5 DEF InitBool
    <2> DEFINE c == asdf_value_create(FALSE)
               v == asdf_value_of_bool(b)
    <2>2. c \in WrapType
      BY Created
    <2>3. v = [c EXCEPT !.type = "BOOL", !.b = b]
      BY DEF asdf_value_of_bool
    <2> HIDE DEF c, v
    <2>4. v \in WrapType /\ v.type = "BOOL"
      BY <2>2, <2>3 DEF WrapType, ValueTypes
    <2>5. node \in NodeType /\ node.style = "plain" /\ node.tag = "none" /\ node.form = "bool"
      BY <2>1 DEF TextNode, NodeType, Reals
    <2>6. Meaning = "bool"
      BY <2>5 DEF Meaning
    <2>7. SoundFor(v, Meaning, Number)
      BY <2>4, <2>6, RealTypes DEF SoundFor
    <2>8. Wrappers
      BY <1>5, <2>1, <2>4, <2>5, <2>7, OneWrapper DEF InitBool, v
    <2> QED
      BY <1>1, <2>8 DEF ScalarInv
  <1> QED
    BY <1>2, <1>3, <1>4, <1>5 DEF Init

\* The node does not change, and neither does what it denotes.
LEMMA SameNode ==
    ASSUME UNCHANGED node
    PROVE  Meaning' = Meaning /\ Number' = Number
  BY DEF Meaning, FormFitsTag, Number

\* Nor what fits.
LEMMA SameFits ==
    ASSUME UNCHANGED node, NEW T
    PROVE  Fits(T)' <=> Fits(T)
  BY SameNode DEF Fits

\* A step that stores a sound wrapper, or none, at w.
LEMMA StoreSound ==
    ASSUME Wrappers, UNCHANGED node, inTree' \in BOOLEAN, NEW w \in Values,
           NEW v \in WrapType \cup {None}, v # None => Sound(v), val' = [val EXCEPT ![w] = v]
    PROVE  Wrappers'
  <1>1. Meaning' = Meaning /\ Number' = Number
    BY SameNode
  <1>2. node' \in NodeType /\ val' \in [Values -> WrapType \cup {None}]
    BY DEF Wrappers
  <1>3. ASSUME NEW x \in Values, val'[x] # None
        PROVE  SoundFor(val'[x], Meaning, Number)
    <2>1. CASE x = w
      BY <1>3, <2>1 DEF Wrappers, Sound
    <2>2. CASE x # w
      BY <1>3, <2>2 DEF Wrappers
    <2> QED
      BY <2>1, <2>2
  <1> QED
    BY <1>1, <1>2, <1>3 DEF Wrappers

\* The operations that make and destroy wrappers ask nothing.
LEMMA MakeStep ==
    ASSUME ScalarInv, NEW w \in Values, NEW x \in Values,
           \/ GetValue(w) \/ Destroy(w) \/ SetValue(w) \/ Copy(w, x) \/ CopyDeep(w, x)
    PROVE  ScalarInv'
  <1>1. /\ UNCHANGED node /\ res' = NoResult /\ Wrappers
        /\ val \in [Values -> WrapType \cup {None}] /\ inTree \in BOOLEAN /\ inTree' \in BOOLEAN
    BY DEF ScalarInv, Wrappers, GetValue, Destroy, SetValue, Copy, CopyDeep
  <1>2. Answers'
    BY <1>1, NothingAskedNext
  <1>3. \A a \in BOOLEAN : /\ asdf_value_create(a) \in WrapType
                           /\ Sound(asdf_value_create(a))
    BY Created DEF Sound
  <1>4. CASE GetValue(w)
    <2>1. val' = [val EXCEPT ![w] = asdf_value_create(TRUE)]
      BY <1>4 DEF GetValue
    <2>2. Wrappers'
      BY <1>1, <1>3, <2>1, StoreSound
    <2> QED
      BY <1>2, <2>2 DEF ScalarInv
  <1>5. CASE Destroy(w) \/ SetValue(w)
    <2>1. val' = [val EXCEPT ![w] = None]
      BY <1>5 DEF Destroy, SetValue
    <2>2. Wrappers'
      BY <1>1, <2>1, StoreSound
    <2> QED
      BY <1>2, <2>2 DEF ScalarInv
  <1>6. CASE Copy(w, x)
    <2> DEFINE c == IF val[w].attached THEN val[w] ELSE asdf_value_create(FALSE)
    <2>1. val' = [val EXCEPT ![x] = c] /\ val[w] # None
      BY <1>6 DEF Copy
    <2>2. val[w] \in WrapType /\ Sound(val[w])
      BY <1>1, <2>1 DEF Wrappers, Sound
    <2>3. c \in WrapType /\ Sound(c)
      BY <1>3, <2>2
    <2> HIDE DEF c
    <2>4. Wrappers'
      BY <1>1, <2>1, <2>3, StoreSound
    <2> QED
      BY <1>2, <2>4 DEF ScalarInv
  <1>7. CASE CopyDeep(w, x)
    <2>1. val' = [val EXCEPT ![x] = asdf_value_create(FALSE)]
      BY <1>7 DEF CopyDeep
    <2>2. Wrappers'
      BY <1>1, <1>3, <2>1, StoreSound
    <2> QED
      BY <1>2, <2>2 DEF ScalarInv
  <1> QED
    BY <1>4, <1>5, <1>6, <1>7

\* A question stores the wrapper after inference.
LEMMA AskSound ==
    ASSUME Wrappers, UNCHANGED <<node, inTree>>, NEW w \in Values, val[w] # None,
           val' = [val EXCEPT ![w] = asdf_value_infer_scalar_type(val[w]).v]
    PROVE  Wrappers' /\ val[w] \in WrapType /\ Sound(val[w])
  <1>1. val[w] \in WrapType /\ Sound(val[w]) /\ node \in NodeType /\ inTree' \in BOOLEAN
    BY DEF Wrappers, Sound
  <1> DEFINE v == asdf_value_infer_scalar_type(val[w]).v
  <1>2. v \in WrapType /\ Sound(v)
    BY <1>1, InferSound
  <1>3. val' = [val EXCEPT ![w] = v]
    OBVIOUS
  <1> HIDE DEF v
  <1>4. Wrappers'
    BY <1>1, <1>2, <1>3, StoreSound
  <1> QED
    BY <1>1, <1>4

\* asdf_value_is_<type>.
LEMMA IsStep ==
    ASSUME ScalarInv, NEW w \in Values, NEW T \in IsFunctions, IsType(w, T)
    PROVE  ScalarInv'
  <1> DEFINE i == asdf_value_infer_scalar_type(val[w])
             answer == i.err = "OK" /\ asdf_value_is_type(i.v)[T]
  <1>1. /\ UNCHANGED <<node, inTree>> /\ val[w] # None /\ Wrappers
        /\ val' = [val EXCEPT ![w] = i.v]
        /\ res' = [call |-> "is", T |-> T, fresh |-> val[w].type = "SCALAR", answer |-> answer]
    BY DEF IsType, ScalarInv
  <1>2. Wrappers' /\ val[w] \in WrapType /\ Sound(val[w]) /\ node \in NodeType
    BY <1>1, AskSound DEF Wrappers
  <1>3. T \in IntTypes \ {"UINT8"} => /\ answer => Fits(T)
                                      /\ val[w].type = "SCALAR" /\ Fits(T) => answer
    BY <1>2, IsSound
  <1>4. Fits(T)' <=> Fits(T)
    BY <1>1, SameFits
  <1> HIDE DEF i, answer
  <1>5. /\ res'.call = "is" /\ res'.T = T /\ res'.answer = answer
        /\ res'.fresh = (val[w].type = "SCALAR")
    BY <1>1
  <1>6. IsIntRight'
    <2>1. ASSUME T \in IntTypes \ {"UINT8"}
          PROVE  /\ res'.answer => Fits(T)'
                 /\ res'.fresh /\ Fits(T)' => res'.answer
      BY <1>3, <1>4, <1>5, <2>1
    <2> QED
      BY <1>5, <2>1 DEF IsIntRight
  <1>7. AsIntRight' /\ FirstAnswerRight' /\ res'.call \in Calls
    BY <1>5 DEF AsIntRight, FirstAnswerRight, Calls
  <1> QED
    BY <1>2, <1>6, <1>7 DEF ScalarInv, Answers

\* asdf_value_as_<type>.
LEMMA AsStep ==
    ASSUME ScalarInv, NEW w \in Values, NEW T \in AsFunctions \ {"SCALAR"}, AsType(w, T)
    PROVE  ScalarInv'
  <1> DEFINE i == asdf_value_infer_scalar_type(val[w])
  <1>1. /\ UNCHANGED <<node, inTree>> /\ val[w] # None /\ Wrappers
        /\ val' = [val EXCEPT ![w] = i.v]
    BY DEF AsType, ScalarInv
  <1>2. PICK r \in AsAnswers(val[w], T) :
            res' = [call |-> "as", T |-> T, fresh |-> val[w].type = "SCALAR",
                    err |-> r.err, out |-> r.out]
    BY DEF AsType, AsAnswers
  <1>3. Wrappers' /\ val[w] \in WrapType /\ Sound(val[w]) /\ node \in NodeType
    BY <1>1, AskSound DEF Wrappers
  <1> HIDE DEF i
  <1>4. /\ res'.call = "as" /\ res'.T = T /\ res'.err = r.err /\ res'.out = r.out
        /\ res'.fresh = (val[w].type = "SCALAR")
    BY <1>2
  <1>5. /\ Meaning' = Meaning /\ Number' = Number /\ node' = node
        /\ Fits(T)' <=> Fits(T)
        /\ \A S \in IntTypes : Fits(S)' <=> Fits(S)
    BY <1>1, SameNode, SameFits
  <1>6. AsIntRight'
    <2>1. ASSUME T \in IntTypes
          PROVE  /\ res'.err = "OK" <=> Fits(T)'
                 /\ res'.err = "OK" => res'.out = Number'
                 /\ res'.err = "OVERFLOW" => Meaning' \in {"int", "float"} /\ ~Fits(T)'
      <3>1. /\ r.err = "OK" <=> Fits(T)
            /\ r.err = "OK" => r.out = Number
            /\ r.err = "OVERFLOW" => Meaning \in {"int", "float"} /\ ~Fits(T)
        BY <1>3, <2>1, AsSound
      <3> QED
        BY <1>4, <1>5, <3>1
    <2>2. Fits(T)' \in BOOLEAN
      BY DEF Fits
    <2> QED
      BY <1>4, <2>1, <2>2 DEF AsIntRight
  <1>7. FirstAnswerRight'
    <2>1. ASSUME T \in NumberTypes, val[w].type = "SCALAR"
          PROVE  res'.err = FirstError(T)'
      <3>1. val[w].err = "UNKNOWN"
        BY <1>3, <2>1 DEF Sound, SoundFor
      <3>2. r.err = FirstError(T)
        BY <1>3, <2>1, <3>1, FirstSound
      <3>3. FirstError(T)' = FirstError(T)
        BY <1>5 DEF FirstError
      <3> QED
        BY <1>4, <3>2, <3>3
    <2> QED
      BY <1>4, <2>1 DEF FirstAnswerRight, FirstError
  <1>8. IsIntRight' /\ res'.call \in Calls
    BY <1>4 DEF IsIntRight, Calls
  <1> QED
    BY <1>3, <1>6, <1>7, <1>8 DEF ScalarInv, Answers

\* The text of the scalar, and its type: no answer about a number.
LEMMA OtherStep ==
    ASSUME ScalarInv, NEW w \in Values, AsScalar(w) \/ GetType(w)
    PROVE  ScalarInv'
  <1>1. CASE AsScalar(w)
    <2>1. res'.call = "as" /\ res'.T = "SCALAR"
      BY <1>1 DEF AsScalar
    <2>2. "SCALAR" \notin IntTypes /\ "SCALAR" \notin NumberTypes
      BY DEF NumberTypes, IntTypes, Signed, Unsigned
    <2>3. Answers'
      BY <2>1, <2>2 DEF Answers, Calls, AsIntRight, IsIntRight, FirstAnswerRight
    <2>4. Wrappers'
      <3>1. UNCHANGED <<node, inTree, val>> /\ Wrappers
        BY <1>1 DEF AsScalar, ScalarInv
      <3>2. Meaning' = Meaning /\ Number' = Number
        BY <3>1, SameNode
      <3> QED
        BY <3>1, <3>2 DEF Wrappers
    <2> QED
      BY <2>3, <2>4 DEF ScalarInv
  <1>2. CASE GetType(w)
    <2>1. /\ UNCHANGED <<node, inTree>> /\ val[w] # None /\ Wrappers
          /\ val' = [val EXCEPT ![w] = asdf_value_infer_scalar_type(val[w]).v]
          /\ res'.call = "type"
      BY <1>2 DEF GetType, ScalarInv
    <2>2. Wrappers'
      BY <2>1, AskSound
    <2>3. Answers'
      BY <2>1 DEF Answers, Calls, AsIntRight, IsIntRight, FirstAnswerRight
    <2> QED
      BY <2>2, <2>3 DEF ScalarInv
  <1> QED
    BY <1>1, <1>2

\* Every step keeps the invariant.
LEMMA ScalarStep ==
    ASSUME ScalarInv, [Next]_vars
    PROVE  ScalarInv'
  <1>1. CASE UNCHANGED vars
    <2>1. UNCHANGED <<node, inTree, val, res>>
      BY <1>1 DEF vars
    <2>2. Meaning' = Meaning /\ Number' = Number
      BY <2>1, SameNode
    <2>3. \A T : Fits(T)' <=> Fits(T)
      BY <2>1, SameFits
    <2>4. Wrappers'
      BY <2>1, <2>2 DEF ScalarInv, Wrappers
    <2>5. AsIntRight' /\ IsIntRight' /\ FirstAnswerRight' /\ res'.call \in Calls
      BY <2>1, <2>2, <2>3 DEF ScalarInv, Answers, AsIntRight, IsIntRight, FirstAnswerRight, Fits
    <2> QED
      BY <2>4, <2>5 DEF ScalarInv, Answers
  <1>2. CASE \E w \in Values : GetValue(w) \/ Destroy(w) \/ SetValue(w)
    BY <1>2, MakeStep
  <1>3. CASE \E w, x \in Values : Copy(w, x) \/ CopyDeep(w, x)
    BY <1>3, MakeStep
  <1>4. CASE \E w \in Values : AsScalar(w) \/ GetType(w)
    BY <1>4, OtherStep
  <1>5. CASE \E w \in Values : \E T \in IsFunctions : IsType(w, T)
    BY <1>5, IsStep
  <1>6. CASE \E w \in Values : \E T \in AsFunctions \ {"SCALAR"} : AsType(w, T)
    BY <1>6, AsStep
  <1> QED
    BY <1>1, <1>2, <1>3, <1>4, <1>5, <1>6 DEF Next

\* Whatever wrappers of a scalar are made, copied, set into the tree or
\* destroyed, and whatever was asked of them before, as_<int type> answers OK
\* exactly for a number the type holds, with that number, and OVERFLOW only for
\* one it does not hold (src/value.c); for integer types of any widths.
THEOREM AsIntIsRight == Spec => []AsIntRight
  <1>1. Init => ScalarInv
    BY ScalarInit
  <1>2. ScalarInv /\ [Next]_vars => ScalarInv'
    BY ScalarStep
  <1>3. ScalarInv => AsIntRight
    BY DEF ScalarInv, Answers
  <1> QED
    BY <1>1, <1>2, <1>3, PTL DEF Spec

\* is_<int type> is true only of a number the type holds, and asked first it is
\* true of every such number, whichever wrapper is asked.
THEOREM IsIntIsRight == Spec => []IsIntRight
  <1>1. Init => ScalarInv
    BY ScalarInit
  <1>2. ScalarInv /\ [Next]_vars => ScalarInv'
    BY ScalarStep
  <1>3. ScalarInv => IsIntRight
    BY DEF ScalarInv, Answers
  <1> QED
    BY <1>1, <1>2, <1>3, PTL DEF Spec

\* The first question asked of a wrapper is answered by the documented rules,
\* for every scalar, tag and number type.
THEOREM FirstAnswerIsRight == Spec => []FirstAnswerRight
  <1>1. Init => ScalarInv
    BY ScalarInit
  <1>2. ScalarInv /\ [Next]_vars => ScalarInv'
    BY ScalarStep
  <1>3. ScalarInv => FirstAnswerRight
    BY DEF ScalarInv, Answers
  <1> QED
    BY <1>1, <1>2, <1>3, PTL DEF Spec

\* The fields of a wrapper keep their types, and a wrapper typed as an integer
\* holds a number of that type.
THEOREM ScalarTypes == Spec => []TypeOK
  <1>1. Init => ScalarInv
    BY ScalarInit
  <1>2. ScalarInv /\ [Next]_vars => ScalarInv'
    BY ScalarStep
  <1>3. ASSUME ScalarInv PROVE TypeOK
    <2>1. inTree \in BOOLEAN /\ res.call \in Calls
      BY <1>3 DEF ScalarInv, Wrappers, Answers
    <2>2. ASSUME NEW w \in Values, val[w] # None
          PROVE  /\ val[w].type \in ValueTypes
                 /\ val[w].err \in Errors
                 /\ val[w].u \in 0 .. MaxOf("UINT64")
                 /\ val[w].d \in Reals /\ val[w].b \in BOOLEAN /\ val[w].attached \in BOOLEAN
                 /\ val[w].type \in Unsigned => val[w].u <= MaxOf(val[w].type)
                 /\ val[w].type \in Signed =>
                      /\ MinOf(val[w].type) <= ScalarI(val[w])
                      /\ ScalarI(val[w]) <= MaxOf(val[w].type)
      <3>1. val[w] \in WrapType /\ SoundFor(val[w], Meaning, Number) /\ node \in NodeType
        BY <1>3, <2>2 DEF ScalarInv, Wrappers
      <3>2. Number \in Int
        BY <3>1, NumberType
      <3>3. val[w].type \in IntTypes => Holds(val[w], Number)
        BY <3>1 DEF SoundFor
      <3>4. val[w].type \in Unsigned =>
              val[w].u = Number /\ val[w].u <= MaxOf(val[w].type)
        <4>1. ASSUME val[w].type \in Unsigned
              PROVE  val[w].u = Number /\ val[w].u <= MaxOf(val[w].type)
          <5>1. Holds(val[w], Number)
            BY <3>3, <4>1 DEF IntTypes
          <5>2. Number >= 0
            BY <3>2, <4>1, <5>1, Contents
          <5>3. val[w].u = Number
            BY <3>2, <5>1, <5>2, Contents
          <5> QED
            BY <5>1, <5>3 DEF Holds, InRange
        <4> QED
          BY <4>1
      <3>5. val[w].type \in Signed =>
              MinOf(val[w].type) <= ScalarI(val[w]) /\ ScalarI(val[w]) <= MaxOf(val[w].type)
        <4>1. ASSUME val[w].type \in Signed
              PROVE  MinOf(val[w].type) <= ScalarI(val[w])
                     /\ ScalarI(val[w]) <= MaxOf(val[w].type)
          <5>1. Holds(val[w], Number)
            BY <3>3, <4>1 DEF IntTypes
          <5>2. ScalarI(val[w]) = Number
            BY <3>2, <4>1, <5>1, Contents
          <5> QED
            BY <5>1, <5>2 DEF Holds, InRange
        <4> QED
          BY <4>1
      <3>6. /\ val[w].type \in ValueTypes /\ val[w].err \in Errors
            /\ val[w].u \in 0 .. MaxOf("UINT64")
            /\ val[w].d \in Reals /\ val[w].b \in BOOLEAN /\ val[w].attached \in BOOLEAN
        BY <3>1 DEF WrapType
      <3> QED
        BY <3>4, <3>5, <3>6
    <2> QED
      BY <2>1, <2>2 DEF TypeOK, Calls
  <1> QED
    BY <1>1, <1>2, <1>3, PTL DEF Spec
=============================================================================
