---------------------------- MODULE MCFindIter ----------------------------
(***************************************************************************)
(* All the trees of up to NodeCount nodes, numbered so that a parent comes *)
(* before its children; a leaf may be a scalar, an empty container or an   *)
(* alias that does not resolve.                                            *)
(***************************************************************************)
EXTENDS FindIter

CONSTANT NodeCount

Ups(n) == {up \in [2 .. n -> 1 .. n] : \A i \in 2 .. n : up[i] < i}

Kinds(n, up) ==
    {kind \in [1 .. n -> {"mapping", "sequence", "scalar", "unresolved"}] :
        /\ kind[1] # "unresolved"
        /\ \A i \in 2 .. n : kind[up[i]] \in {"mapping", "sequence"}}

TreeOf(n, up, kind) ==
    [kind |-> kind,
     up   |-> [i \in 1 .. n |-> IF i = 1 THEN 0 ELSE up[i]],
     kids |-> [i \in 1 .. n |-> SetToSortSeq({j \in 2 .. n : up[j] = i}, <)]]

(* Two containers below the root, both with children of their own. *)
TwoBranches ==
    TreeOf(7, [i \in 2 .. 7 |-> CASE i \in {2, 3} -> 1 [] i \in {4, 5} -> 2 [] i \in {6, 7} -> 3],
           [i \in 1 .. 7 |-> IF i = 2 THEN "sequence" ELSE IF i \in {1, 3, 5} THEN "mapping" ELSE "scalar"])

MCTrees ==
    {TwoBranches} \cup
    UNION {UNION {{TreeOf(n, up, kind) : kind \in Kinds(n, up)} : up \in Ups(n)} :
              n \in 1 .. NodeCount}

(* The predicate matches everything, one node, or every other node. *)
MCPreds == {1 .. 7, {NodeCount}, {n \in 1 .. 7 : n % 2 = 0}}

MCMaxDepths == {-1, 0, 1}
=============================================================================
