--------------------------- MODULE MCScalarValue ---------------------------
(***************************************************************************)
(* A small instance of ScalarValue: integer types of 2, 3, 4 and 5 bits,   *)
(* every integer from beyond the smallest int64 to beyond the largest      *)
(* uint64, and every other kind of text, under every tag.                  *)
(***************************************************************************)
EXTENDS ScalarValue, TLC

MCTags == {"none", "other", "null", "bool", "int", "float", "str"}

MCInts ==
    {IntNode("none", neg, m) : neg \in BOOLEAN, m \in 0 .. 2^W64 + 1}
    \cup {IntNode(t, neg, m) : t \in MCTags, neg \in BOOLEAN, m \in {0, 1, 2^W64}}

MCTexts ==
    {TextNode(t, "float", r, FALSE) : t \in MCTags, r \in Reals}
    \cup {TextNode(t, f, "float", FALSE) : t \in MCTags, f \in {"null", "bool", "other"}}

(* 0x1, 01, 1:30 and 08, under every tag. *)
MCSpelled ==
    {Spelled(IntNode(t, FALSE, m), s) : t \in MCTags, m \in {1, 2^W64}, s \in {"decimal", "other"}}
    \cup {Spelled(TextNode(t, "other", "float", FALSE), "decimal") : t \in MCTags}

MCNodes ==
    MCInts \cup MCTexts \cup MCSpelled
    \cup {Quoted(IntNode("none", FALSE, 1)), Quoted(TextNode("int", "other", "float", FALSE))}

(* The boundaries of the eight integer types, and their neighbours. *)
MCNumbers ==
    {n \in -(2^(W64 - 1)) .. 2^W64 - 1 :
        \E T \in IntTypes, d \in {-1, 0, 1} : n + d \in {MinOf(T), MaxOf(T)}}

MCSymmetry == Permutations(Values)
=============================================================================
