----------------------------- MODULE MCEmitter -----------------------------
\* Files to open for Emitter.
EXTENDS Emitter, TLC

\* A new file, an input whose block is moved when it is written, some without a
\* tree, some read-only.
New(tree, opts) == [mode |-> "w", stream |-> FALSE, tree |-> tree, opts |-> opts, blocks |-> <<>>]
Old(mode, tree, opts, bs) ==
    [mode |-> mode, stream |-> TRUE, tree |-> tree, opts |-> opts, blocks |-> bs]

MCInputs ==
    {New(3, {"noindex"}),
     Old("rw", 3, {}, <<[at |-> 7, comp |-> TRUE]>>),
     Old("rw", 0, {"empty"}, <<[at |-> 2, comp |-> FALSE]>>),
     Old("r", 0, {}, <<[at |-> 2, comp |-> FALSE]>>),
     Old("r", 1, {}, <<[at |-> 4, comp |-> TRUE], [at |-> 7, comp |-> FALSE]>>)}

\* Buffers are only compared with each other.
BufferSymmetry == Permutations(Buffers)
=============================================================================
