----------------------------- MODULE MCNdarray -----------------------------
(* Two files, an input with an array in a block and one in the tree, and an *)
(* output; two ndarray objects.                                             *)
EXTENDS Ndarray

CONSTANT Calls

I(num) == IntOf(num)
F(num) == Scalar("float", num)
B(num) == Scalar("bool", num)
S      == Scalar("string", 0)
N      == Scalar("null", 0)

Elems == {I(-1), I(1), I(MaxOf("INT8")), I(MaxOf("INT8") + 1), I(MinOf("INT8") - 1),
          I(MaxOf("UINT8") + 1), I(MaxOf("INT16") + 1), I(MaxOf("INT64")), I(MaxOf("UINT64")),
          F(7), B(1), S, N}

\* Rows of two elements, two rows, three levels; rows that are jagged, mixed
\* or empty.
Rows    == {List(<<x, y>>) : x, y \in Elems}
Nested  == {List(<<List(<<x, I(2)>>), List(<<I(3), y>>)>>) : x, y \in {I(-1), I(9), F(7)}}
Odd     == {List(<<>>), List(<<List(<<>>)>>), List(<<List(<<>>), List(<<>>)>>),
            List(<<List(<<I(1)>>), List(<<>>)>>), List(<<List(<<>>), List(<<I(1)>>)>>),
            List(<<List(<<I(1)>>), List(<<I(1), I(2)>>)>>), List(<<List(<<I(1)>>), I(1)>>),
            List(<<I(1), List(<<I(1)>>)>>),
            List(<<List(<<I(1), I(2)>>), List(<<List(<<I(3)>>), List(<<I(4)>>)>>)>>),
            List(<<List(<<List(<<I(1), I(2)>>)>>), List(<<List(<<I(3), I(4)>>)>>)>>)}

Start(n, inMode, outStorage, node, T, offset) ==
    [calls   |-> n,
     mode    |-> [f \in Files |-> IF f = "in" THEN inMode ELSE "w"],
     storage |-> [f \in Files |-> IF f = "out" THEN outStorage ELSE "default"],
     tree    |-> [f \in Files |-> [p \in Paths |->
                    IF f = "out" THEN NoEntry
                    ELSE IF p = "block" THEN BlockEntry(1, <<2>>, "UINT8", offset)
                    ELSE InlineEntry(node, T)]],
     blocks  |-> [f \in Files |-> IF f = "in" THEN <<InInput(<<5, 6, 7>>)>> ELSE <<>>]]

Two == List(<<I(1), I(2)>>)

MCStarts ==
    {Start(Calls, "rw", "default", Two, "none", 0), Start(Calls, "r", "inline", Two, "none", 0)}
      \cup {Start(5, "rw", "default", Two, "FLOAT64", 1)}
      \cup {Start(3, "rw", "default", v, "none", 0) : v \in Rows}
      \cup {Start(4, "rw", "default", v, "none", 0) : v \in Nested \cup Odd}
MCShapes == {<<1, 2>>}
MCTypes  == {"UINT8"}
MCTargets == {<<"out", "inline">>, <<"in", "block">>}
MCFills  == {<<>>, <<3, 2, 3, 2>>}
Symmetry == Permutations(Arrays)
=============================================================================
