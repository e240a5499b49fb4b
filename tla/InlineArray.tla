---------------------------- MODULE InlineArray ----------------------------
(***************************************************************************)
(* Arrays kept in the YAML tree as nested sequences (src/core/ndarray.c):  *)
(* the walk that finds the shape and the element type when the array is    *)
(* read, the one that fills a C buffer when its data is first asked for,   *)
(* and the one that writes a buffer as nested sequences.                   *)
(*                                                                         *)
(* An element of a buffer is the number it holds; the widths of the        *)
(* integer types are constants (CInts).  64-bit overflow of the number of  *)
(* elements is out of reach of a document that fits in memory.             *)
(***************************************************************************)
EXTENDS CInts, SequencesExt

\* YAML nodes: a scalar of the kind its text makes it, or a sequence.
Scalar(kind, num) == [kind |-> kind, num |-> num, kids |-> <<>>]
IntOf(num)        == Scalar("int", num)
List(kids)        == [kind |-> "seq", num |-> 0, kids |-> kids]

IsSeq(v) == v.kind = "seq"

ScalarTypes == IntTypes \cup {"BOOL8", "FLOAT64"}

-----------------------------------------------------------------------------
(* Type inference *)

\* ndarray_type_inf_t after update_type_inference was called on each of a set
\* of scalars.  An integer text has a signed type only if it is negative.
TypeInference(scalars) ==
    LET Has(kind) == \E e \in scalars : e.kind = kind
        Negative  == {e.num : e \in {x \in scalars : x.kind = "int" /\ x.num < 0}}
        Natural   == {e.num : e \in {x \in scalars : x.kind = "int" /\ x.num >= 0}}
    IN  [hasString |-> Has("string"), hasFloat |-> Has("float"),
         hasSigned |-> Negative # {}, hasUint |-> Natural # {},
         intMin |-> Min({MaxOf("INT64")} \cup Negative), uintMax |-> Max({0} \cup Natural)]

SignedOf   == [n \in {8, 16, 32} |-> CASE n = 8 -> "INT8" [] n = 16 -> "INT16" [] n = 32 -> "INT32"]
UnsignedOf == [n \in {8, 16, 32} |-> CASE n = 8 -> "UINT8" [] n = 16 -> "UINT16" [] n = 32 -> "UINT32"]

\* Mutant of infer_scalar_datatype: a signed type is chosen by the least
\* number alone.
InferByMinimum(inf) ==
    LET Fits(n) == IF inf.hasSigned
                   THEN inf.intMin >= MinOf(SignedOf[n])
                   ELSE inf.uintMax <= MaxOf(UnsignedOf[n])
        fitting == {n \in {8, 16, 32} : Fits(n)}
    IN  IF inf.hasString THEN "UNKNOWN"
        ELSE IF inf.hasFloat THEN "FLOAT64"
        ELSE IF ~inf.hasSigned /\ ~inf.hasUint THEN "BOOL8"
        ELSE IF fitting = {} THEN (IF inf.hasSigned THEN "INT64" ELSE "UINT64")
        ELSE IF inf.hasSigned THEN SignedOf[Min(fitting)] ELSE UnsignedOf[Min(fitting)]

infer_scalar_datatype(inf) ==
    LET Fits(n) == IF inf.hasSigned
                   THEN inf.intMin >= MinOf(SignedOf[n]) /\ inf.uintMax <= MaxOf(SignedOf[n])
                   ELSE inf.uintMax <= MaxOf(UnsignedOf[n])
        fitting == {n \in {8, 16, 32} : Fits(n)}
    IN  IF inf.hasString THEN "UNKNOWN"
        ELSE IF inf.hasFloat THEN "FLOAT64"
        ELSE IF ~inf.hasSigned /\ ~inf.hasUint THEN "BOOL8"
        ELSE IF fitting = {} THEN (IF inf.hasSigned THEN "INT64" ELSE "UINT64")
        ELSE IF inf.hasSigned THEN SignedOf[Min(fitting)] ELSE UnsignedOf[Min(fitting)]

-----------------------------------------------------------------------------
(* Reading *)

RECURSIVE Level(_, _)
RECURSIVE ShapeFrom(_, _)
RECURSIVE LeafElements(_, _, _)

\* The sequences at a depth below v that are not empty.
Level(v, depth) ==
    {s \in IF depth = 0 THEN {v}
           ELSE UNION {Range(t.kids) : t \in Level(v, depth - 1)} :
        IsSeq(s) /\ s.kids # <<>>}

\* Every row at one depth is as long as the first one met there.
SameLength(S) == \A s, t \in S : Len(s.kids) = Len(t.kids)

\* All the elements of a row are sequences, or none is.
OneKind(s) == \A x, y \in Range(s.kids) : IsSeq(x) = IsSeq(y)

\* The first sequence met at a depth gives the extent there; an empty one
\* gives none.
ShapeFrom(v, depth) ==
    LET S == Level(v, depth)
    IN  IF S = {} THEN <<>>
        ELSE <<Max({Len(s.kids) : s \in S})>> \o ShapeFrom(v, depth + 1)

\* The walk gives up at the first row that is jagged or mixed: which one it
\* is makes no difference.
infer_inline_array_datatype(v) ==
    LET shape  == ShapeFrom(v, 0)
        levels == {Level(v, d) : d \in 0 .. Len(shape)}
    IN  [ok    |-> \A S \in levels : SameLength(S) /\ \A s \in S : OneKind(s),
         shape |-> shape,
         inf   |-> TypeInference({e \in UNION {Range(s.kids) : s \in UNION levels} : ~IsSeq(e)})]

\* as_bool, as_<int type> and as_double of a scalar answer something.  A BOOL8
\* takes any unsigned 8-bit number: another than 0 and 1 leaves a byte that is
\* no bool.
Converts(e, T) ==
    CASE T = "BOOL8"   -> e.kind = "bool" \/ (e.kind = "int" /\ e.num \in RangeOf("UINT8"))
      [] T = "FLOAT64" -> e.kind \in {"int", "float"}
      [] OTHER         -> e.kind = "int" /\ e.num \in RangeOf(T)

\* parse_inline_array_level: the elements the walk comes to at the last of
\* ndim levels, in its order.  A scalar met above that level has no elements.
LeafElements(v, depth, ndim) ==
    IF depth = ndim - 1 THEN v.kids
    ELSE FlattenSeq([i \in DOMAIN v.kids |-> LeafElements(v.kids[i], depth + 1, ndim)])

Size(shape) == IF shape = <<>> THEN 0
               ELSE LET P[i \in 0 .. Len(shape)] == IF i = 0 THEN 1 ELSE P[i - 1] * shape[i]
                    IN  P[Len(shape)]

\* asdf_ndarray_parse_inline_data into a buffer of Size(shape) elements, all
\* zero: mmap made it.
parse_inline_data(v, shape, T) ==
    LET elems == LeafElements(v, 0, Len(shape))
    IN  [ok |-> \A e \in Range(elems) : Converts(e, T), written |-> Len(elems),
         data |-> [i \in 1 .. Size(shape) |-> IF i <= Len(elems) THEN elems[i].num ELSE 0]]

-----------------------------------------------------------------------------
(* Writing *)

ElementKind(T) == CASE T = "BOOL8" -> "bool" [] T = "FLOAT64" -> "float" [] OTHER -> "int"

Product(shape, depth) == Size(SubSeq(shape, depth + 1, Len(shape)))

RECURSIVE serialize_seq_level(_, _, _, _, _)

\* The sequence for the sub-array at `depth` whose first element is data[off + 1]:
\* *elem_offset moves on by the elements of a sub-array.
serialize_seq_level(data, shape, T, depth, off) ==
    IF shape = <<>> THEN List(<<>>)
    ELSE List([i \in 1 .. shape[depth + 1] |->
                    IF depth = Len(shape) - 1
                    THEN Scalar(ElementKind(T), data[off + i])
                    ELSE serialize_seq_level(data, shape, T, depth + 1,
                                             off + (i - 1) * Product(shape, depth + 1))])

-----------------------------------------------------------------------------
(* What an array is, for the properties *)

RECURSIVE FirstShape(_)
RECURSIVE HasShape(_, _)
RECURSIVE At(_, _)

\* The extents along the first elements.
FirstShape(v) ==
    IF ~IsSeq(v) THEN <<>>
    ELSE IF v.kids = <<>> THEN <<0>>
    ELSE <<Len(v.kids)>> \o FirstShape(v.kids[1])

\* v is nested as deep as the shape, and every row of a dimension is as long
\* as the shape says.
HasShape(v, shape) ==
    IF shape = <<>> THEN ~IsSeq(v)
    ELSE IsSeq(v) /\ Len(v.kids) = shape[1] /\ \A i \in DOMAIN v.kids : HasShape(v.kids[i], Tail(shape))

\* The element of v at an index vector, counted from 0.
At(v, idx) == IF idx = <<>> THEN v ELSE At(v.kids[idx[1] + 1], Tail(idx))

Indices(shape) == {idx \in [DOMAIN shape -> 0 .. Max({0} \cup {shape[d] : d \in DOMAIN shape})] :
                      \A d \in DOMAIN shape : idx[d] < shape[d]}

\* Where C keeps the element at an index vector.
RowMajor(shape, idx) ==
    LET O[d \in 0 .. Len(shape)] == IF d = 0 THEN 0 ELSE O[d - 1] * shape[d] + idx[d]
    IN  O[Len(shape)]
=============================================================================
