----------------------------- MODULE MCContainers -----------------------------
EXTENDS Containers, TLC

CONSTANTS MaxCalls    \* bound on the calls of a behaviour

MCNodes == 1 .. 7

Doc(nodes) == [node |-> [n \in MCNodes |-> IF n \in DOMAIN nodes THEN nodes[n] ELSE FreeNode],
               calls |-> MaxCalls]

With(kind, kids) == [Empty(kind) EXCEPT !.kids = kids]

EmptySeq == [Empty("seq") EXCEPT !.flow = TRUE]

\* An empty document, one with an empty sequence in it, and one with a
\* mapping and a sequence.
MCStarts == {
    Doc(<<Empty("map")>>),
    Doc(<<With("map", <<Kid("a", 2)>>), EmptySeq>>),
    Doc(<<With("map", <<Kid("a", 2), Kid("b", 3)>>),
          With("map", <<Kid("b", 4)>>), EmptySeq,
          Scalar(1)>>)}

Symmetry == Permutations(Handles)
=============================================================================
