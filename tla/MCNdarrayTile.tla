--------------------------- MODULE MCNdarrayTile ---------------------------
(***************************************************************************)
(* A small instance of NdarrayTile.  The arrays cover 0 to 3 dimensions,   *)
(* an empty one, one whose data is short and one without a conversion; the *)
(* elements of each go round the values of its datatype.  One array per    *)
(* integer type, read as every type, covers the conversion table.          *)
(* MCWrapping are arrays whose size or strides do not fit 64 bits, or with *)
(* an extent of 0 behind others, with some data all the same; the last of  *)
(* MCOrigins is UINT64_MAX.                                                *)
(***************************************************************************)
EXTENDS NdarrayTile

ArrayOf(shape, T, n) ==
    LET values == IF T \in IntTypes THEN RangeOf(T) ELSE {0}
        low == IF T \in IntTypes THEN MinOf(T) ELSE 0
    IN  [shape |-> shape, type |-> T,
         elems |-> [i \in 1 .. n |-> low + ((3 * (i - 1)) % Cardinality(values))]]

MCWrapping ==
    {ArrayOf(<<8, 8>>, "INT8", 3), ArrayOf(<<2, 16>>, "INT8", 2), ArrayOf(<<1, 1, 0>>, "INT8", 2)}

MCArrays ==
    {ArrayOf(<<2, 2, 3>>, "INT16", 12), ArrayOf(<<3, 3>>, "UINT8", 9),
     ArrayOf(<<>>, "INT8", 0), ArrayOf(<<0, 2>>, "INT8", 0), ArrayOf(<<2, 2>>, "INT8", 3),
     ArrayOf(<<2, 2>>, "COMPLEX", 4), ArrayOf(<<2>>, "ASCII", 2)}
    \cup {LET n == Min({2 ^ Width[T], 2 ^ W64 - 1}) IN ArrayOf(<<n>>, T, n) : T \in IntTypes}
    \cup MCWrapping

MCFewArrays == {ArrayOf(<<3, 3>>, "UINT8", 9), ArrayOf(<<8, 8>>, "INT8", 3)}

MCOrigins == 0 .. 3 \cup {2 ^ W64 - 1}

MCExtents == 0 .. 3

MCDstTypes == IntTypes \cup {"SOURCE"}
=============================================================================
