----------------------------- MODULE FindIter -----------------------------
(***************************************************************************)
(* The tree search of src/value.c: asdf_find_iter_t walks the containers   *)
(* below a root value depth first or breadth first, over a stack (or       *)
(* queue) of frames, each with its own container iterator, and hands the   *)
(* caller one matching value at a time.                                    *)
(*                                                                         *)
(* The wrappers (asdf_value_t) are the heap of the model: a container      *)
(* iterator owns the wrapper of its current child and frees it on its next *)
(* step; a depth-first frame borrows the wrapper of its parent's iterator; *)
(* a breadth-first frame owns a copy.  The array of frames grows when it   *)
(* is full and is modelled as a sequence.                                  *)
(***************************************************************************)
EXTENDS Integers, Sequences, SequencesExt, FiniteSets

CONSTANTS
    Trees,      \* the trees searched: kind and children of every node
    MaxDepths,  \* values of max_depth, -1 for no limit
    Preds       \* the sets of nodes a predicate may match

(* A document is a tree: its nodes are numbered from the root, a parent     *)
(* before its children, and a node is the child of one node, at one index.  *)
(* asdf_value_create puts what an alias stands for in its place, so with an *)
(* alias to a container around it (if libfyaml resolves one) the code goes  *)
(* down without end: such documents, and shared nodes, are left out here.   *)
ASSUME TreesAssumption ==
    /\ MaxDepths \subseteq Int
    /\ \A t \in Trees :
        /\ IsFiniteSet(DOMAIN t.kind)
        /\ DOMAIN t.kind = 1 .. Cardinality(DOMAIN t.kind)
        /\ DOMAIN t.kind # {}
        /\ \A n \in DOMAIN t.kind :
            /\ t.kids[n] \in Seq(DOMAIN t.kind)
            /\ \A i \in DOMAIN t.kids[n] : t.kids[n][i] # 1 /\ t.up[t.kids[n][i]] = n
            /\ \A i, j \in DOMAIN t.kids[n] : t.kids[n][i] = t.kids[n][j] => i = j
        /\ \A n \in DOMAIN t.kind \ {1} :
            /\ t.up[n] \in DOMAIN t.kind /\ t.up[n] < n
            /\ \E i \in DOMAIN t.kids[t.up[n]] : t.kids[t.up[n]][i] = n

VARIABLES
    tree,    \* the document: kind, kids and up (parent) of every node
    opts,    \* depth_first, descend_pred, max_depth and pred
    frames,  \* impl->frames
    heap,    \* the wrappers allocated and not yet freed
    value,   \* iter->value, or NoValue
    found,   \* the nodes handed to the caller so far, in order
    result,  \* what asdf_value_find_ex returned, or NoValue
    pc       \* idle: in the caller; busy: inside asdf_value_find_iter_next; done

vars == <<tree, opts, frames, heap, value, found, result, pc>>

Root == 1
NoValue == [of |-> "none", node |-> 0]

(* A wrapper is named after the node it wraps and who made it: the caller  *)
(* (the root), a container iterator, or asdf_value_copy.                   *)
Wrapper(of, n) == [of |-> of, node |-> n]
RootValue == Wrapper("caller", Root)

Nodes == DOMAIN tree.kind
IsContainer(n) == tree.kind[n] \in {"mapping", "sequence"}

DescendPred(n) ==
    CASE opts.descend = "all"      -> TRUE
      [] opts.descend = "mapping"  -> tree.kind[n] = "mapping"
      [] opts.descend = "sequence" -> tree.kind[n] = "sequence"

-----------------------------------------------------------------------------
(* asdf_container_iter_init and the iterators below it: before the first   *)
(* child, with no current value.                                           *)
asdf_container_iter_init == [index |-> 0, value |-> NoValue]

Frame(container, owns, visited, depth) ==
    [container |-> container, owns |-> owns, visited |-> visited, depth |-> depth,
     iter |-> asdf_container_iter_init]

(* Mutant of PushRefused: the limit is off by one. *)
PushRefusedAtLimit(n, depth) ==
    \/ opts.max_depth >= 0 /\ depth >= opts.max_depth
    \/ Len(frames) > 0 /\ ~DescendPred(n)

(* asdf_find_iter_push_frame refuses a container below the maximum depth   *)
(* or one that descend_pred rejects; the root is pushed with no frame yet  *)
(* and is not asked.                                                       *)
PushRefused(n, depth) ==
    \/ opts.max_depth >= 0 /\ depth > opts.max_depth
    \/ Len(frames) > 0 /\ ~DescendPred(n)

(* Mutant of PopOwns: the copies a breadth-first search owns are not freed. *)
PopOwnsIterOnly(f) == {f.iter.value}

(* asdf_find_iter_pop_frame frees the iterator, with the wrapper it owns,  *)
(* and the container if the frame owns it.                                 *)
PopOwns(f) == {f.iter.value} \cup (IF f.owns THEN {f.container} ELSE {})

Top == IF opts.depth_first THEN Len(frames) ELSE 1

TypeOfInit ==
    /\ tree \in Trees
    /\ opts \in [depth_first : BOOLEAN, descend : {"all", "mapping", "sequence"},
                 max_depth : MaxDepths, pred : Preds]

(* asdf_find_iter_create; a root that is no container has no iterator (see *)
(* FindScalar).                                                            *)
Init ==
    /\ TypeOfInit
    /\ frames = IF IsContainer(Root) THEN <<Frame(RootValue, FALSE, FALSE, 0)>> ELSE <<>>
    /\ heap = {RootValue}
    /\ value = NoValue
    /\ found = <<>>
    /\ result = NoValue
    /\ pc = "idle"

(* asdf_value_find_iter_next begins: the previous value is forgotten. *)
FindIterNext ==
    /\ pc = "idle" /\ IsContainer(Root) /\ result = NoValue
    /\ pc' = "busy"
    /\ value' = NoValue
    /\ UNCHANGED <<tree, opts, frames, heap, found, result>>

(* The loop of asdf_value_find_iter_next: the value a step found is handed *)
(* to the caller if the predicate matches, else the search goes on.        *)
Yield(w) ==
    IF w # NoValue /\ w.node \in opts.pred
    THEN value' = w /\ found' = Append(found, w.node) /\ pc' = "idle"
    ELSE UNCHANGED <<value, found, pc>>

(* A container not yet visited is the value itself. *)
StepVisit ==
    /\ pc = "busy" /\ frames # <<>> /\ ~frames[Top].visited
    /\ frames' = [frames EXCEPT ![Top].visited = TRUE]
    /\ Yield(frames[Top].container)
    /\ UNCHANGED <<tree, opts, heap, result>>

(* asdf_container_iter_next: the next child is wrapped and the previous    *)
(* wrapper freed.                                                          *)
NextChild(f) == tree.kids[f.container.node][f.iter.index + 1]

(* A child that cannot be wrapped (an alias that does not resolve) ends the *)
(* iteration like the end of the container.                                *)
HasNext(f) ==
    /\ f.iter.index < Len(tree.kids[f.container.node])
    /\ tree.kind[NextChild(f)] # "unresolved"

(* Mutant of Advanced: the iterator is not moved on. *)
AdvancedNot(f) == [f EXCEPT !.iter.value = Wrapper("iter", NextChild(f))]

Advanced(f) ==
    [f EXCEPT !.iter = [index |-> @.index + 1, value |-> Wrapper("iter", NextChild(f))]]

HeapAdvanced(f) == (heap \ {f.iter.value}) \cup {Wrapper("iter", NextChild(f))}

(* Depth first, a child that is a container is pushed with the wrapper the *)
(* iterator owns, or passed over; nothing is yielded yet.                  *)
StepDfs ==
    /\ pc = "busy" /\ opts.depth_first /\ frames # <<>> /\ frames[Top].visited
    /\ HasNext(frames[Top])
    /\ LET f == frames[Top]
           n == NextChild(f)
           w == Wrapper("iter", n)
           advanced == [frames EXCEPT ![Top] = Advanced(f)]
       IN  /\ heap' = HeapAdvanced(f)
           /\ frames' = IF IsContainer(n) /\ ~PushRefused(n, f.depth + 1)
                        THEN Append(advanced, Frame(w, FALSE, FALSE, f.depth + 1))
                        ELSE advanced
           /\ Yield(IF IsContainer(n) THEN NoValue ELSE w)
    /\ UNCHANGED <<tree, opts, result>>

(* Mutant of StepBfs: the wrapper of the iterator is pushed without a copy. *)
StepBfsNoCopy ==
    /\ pc = "busy" /\ ~opts.depth_first /\ frames # <<>> /\ frames[Top].visited
    /\ HasNext(frames[Top])
    /\ LET f == frames[Top]
           n == NextChild(f)
           w == Wrapper("iter", n)
           pushed == IsContainer(n) /\ ~PushRefused(n, f.depth + 1)
           advanced == [frames EXCEPT ![Top] = Advanced(f)]
       IN  /\ heap' = HeapAdvanced(f)
           /\ frames' = IF pushed THEN Append(advanced, Frame(w, FALSE, TRUE, f.depth + 1))
                        ELSE advanced
           /\ Yield(IF IsContainer(n) /\ ~pushed THEN NoValue ELSE w)
    /\ UNCHANGED <<tree, opts, result>>

(* Breadth first, a container is copied before it is pushed, and yielded   *)
(* at once; if the push is refused the copy stays allocated.               *)
StepBfs ==
    /\ pc = "busy" /\ ~opts.depth_first /\ frames # <<>> /\ frames[Top].visited
    /\ HasNext(frames[Top])
    /\ LET f == frames[Top]
           n == NextChild(f)
           copy == Wrapper("copy", n)
           pushed == IsContainer(n) /\ ~PushRefused(n, f.depth + 1)
           advanced == [frames EXCEPT ![Top] = Advanced(f)]
       IN  /\ heap' = HeapAdvanced(f) \cup (IF IsContainer(n) THEN {copy} ELSE {})
           /\ frames' = IF pushed THEN Append(advanced, Frame(copy, TRUE, TRUE, f.depth + 1))
                        ELSE advanced
           /\ Yield(IF IsContainer(n) /\ ~pushed THEN NoValue ELSE Wrapper("iter", n))
    /\ UNCHANGED <<tree, opts, result>>

(* The iterator is exhausted (and frees itself with its last value) and    *)
(* the frame is popped.                                                    *)
StepPop ==
    /\ pc = "busy" /\ frames # <<>> /\ frames[Top].visited
    /\ ~HasNext(frames[Top])
    /\ heap' = heap \ PopOwns(frames[Top])
    /\ frames' = RemoveAt(frames, Top)
    /\ UNCHANGED <<tree, opts, value, found, result, pc>>

(* No frame is left: asdf_value_find_iter_next frees the iterator and      *)
(* answers false.                                                          *)
Exhausted ==
    /\ pc = "busy" /\ frames = <<>>
    /\ pc' = "done"
    /\ UNCHANGED <<tree, opts, frames, heap, value, found, result>>

AllOwned == UNION {PopOwns(frames[i]) : i \in DOMAIN frames}

(* asdf_find_iter_destroy, the caller leaving the loop early. *)
DestroyIter ==
    /\ pc = "idle" /\ IsContainer(Root) /\ result = NoValue
    /\ heap' = heap \ AllOwned
    /\ frames' = <<>>
    /\ value' = NoValue
    /\ pc' = "done"
    /\ UNCHANGED <<tree, opts, found, result>>

(* asdf_value_find_ex: the first value found is copied and the iterator    *)
(* destroyed.                                                              *)
FindEx ==
    /\ pc = "idle" /\ IsContainer(Root) /\ result = NoValue /\ Len(found) = 1
    /\ result' = Wrapper("result", value.node)
    /\ heap' = (heap \ AllOwned) \cup {Wrapper("result", value.node)}
    /\ frames' = <<>>
    /\ value' = NoValue
    /\ pc' = "done"
    /\ UNCHANGED <<tree, opts, found>>

(* asdf_value_find_ex of a scalar: the root itself, if it matches. *)
FindScalar ==
    /\ pc = "idle" /\ ~IsContainer(Root)
    /\ IF Root \in opts.pred
       THEN /\ result' = Wrapper("result", Root)
            /\ heap' = heap \cup {Wrapper("result", Root)}
            /\ found' = <<Root>>
       ELSE UNCHANGED <<result, heap, found>>
    /\ pc' = "done"
    /\ UNCHANGED <<tree, opts, frames, value>>

Step == StepVisit \/ StepDfs \/ StepBfs \/ StepPop \/ Exhausted

Next == FindIterNext \/ Step \/ DestroyIter \/ FindEx \/ FindScalar

(* The caller calls when it likes; a call runs to its end. *)
Spec == Init /\ [][Next]_vars /\ WF_vars(Step)

-----------------------------------------------------------------------------
(* The reference: which nodes a search reports, and in which order. *)

(* The indexes that lead from the root to n. *)
Path ==
    LET path[n \in Nodes] ==
            IF n = Root THEN <<>>
            ELSE Append(path[tree.up[n]],
                        CHOOSE i \in DOMAIN tree.kids[tree.up[n]] :
                            tree.kids[tree.up[n]][i] = n)
    IN  path

AtOrAbove(n) == {m \in Nodes : IsPrefix(Path[m], Path[n])}

(* The containers a search enters: the root, and every other one within    *)
(* max_depth that descend_pred accepts.                                    *)
Entered(n) ==
    /\ IsContainer(n)
    /\ n = Root \/ DescendPred(n)
    /\ opts.max_depth < 0 \/ Len(Path[n]) <= opts.max_depth

(* The iteration of a container reaches n: neither n nor a child before it *)
(* is unresolved.                                                          *)
Reached(n) ==
    n = Root \/ \A i \in 1 .. Path[n][Len(Path[n])] :
        tree.kind[tree.kids[tree.up[n]][i]] # "unresolved"

(* Every container above n is entered, and n itself if it is one. *)
Reported(n) ==
    /\ n \in opts.pred
    /\ \A m \in AtOrAbove(n) : Reached(m)
    /\ \A m \in AtOrAbove(n) : m # n \/ IsContainer(n) => Entered(m)

Before(p, q) ==
    \/ IsStrictPrefix(p, q)
    \/ \E i \in DOMAIN p \cap DOMAIN q :
        p[i] < q[i] /\ \A j \in 1 .. i - 1 : p[j] = q[j]

Earlier(m, n) ==
    IF opts.depth_first THEN Before(Path[m], Path[n])
    ELSE \/ Len(Path[m]) < Len(Path[n])
         \/ Len(Path[m]) = Len(Path[n]) /\ Before(Path[m], Path[n])

(* The members of S, in order: i - 1 of them are earlier than the i-th.    *)
EarlierFirst(S) ==
    [i \in 1 .. Cardinality(S) |->
        CHOOSE n \in S : Cardinality({m \in S : Earlier(m, n)}) = i - 1]

(* The nodes of the tree a search reports, in order. *)
Expected == EarlierFirst({n \in Nodes : IsContainer(Root) /\ Reported(n)})

(* The containers a search meets and refuses to enter. *)
Refused(n) ==
    /\ IsContainer(n) /\ ~Entered(n)
    /\ \A m \in AtOrAbove(n) \ {n} : Entered(m)

-----------------------------------------------------------------------------
(* The values the variables may have; the frames of a depth-first search   *)
(* are the path to the container being read.                               *)
TypeOK ==
    /\ pc \in {"idle", "busy", "done"}
    /\ \A i \in DOMAIN frames :
        /\ frames[i].container.node \in Nodes /\ IsContainer(frames[i].container.node)
        /\ frames[i].depth = Len(Path[frames[i].container.node])
        /\ frames[i].iter.index \in 0 .. Len(tree.kids[frames[i].container.node])
    /\ opts.depth_first => \A i \in 2 .. Len(frames) :
        tree.up[frames[i].container.node] = frames[i - 1].container.node

(* Nothing freed is used: the value in the caller's hands, the container   *)
(* of every frame and the value of every iterator are allocated, so that   *)
(* iter->value stays valid until the next call; and no wrapper has two     *)
(* owners: popping every frame frees each wrapper once.                    *)
NoDangling ==
    /\ value # NoValue => value \in heap
    /\ \A i \in DOMAIN frames :
        /\ frames[i].container \in heap
        /\ frames[i].iter.value \in heap \cup {NoValue}
    /\ RootValue \in heap
    /\ \A i, j \in DOMAIN frames : i # j =>
        (PopOwns(frames[i]) \cap PopOwns(frames[j])) \subseteq {NoValue}

(* The search reports the nodes of the reference in its order: at every    *)
(* moment a prefix of it, and all of it when the iterator is exhausted.    *)
OrderRight ==
    IsContainer(Root) =>
        /\ IsPrefix(found, Expected)
        /\ (pc = "busy" /\ frames = <<>>) => found = Expected

(* Once the search is over only the caller's values are allocated, but for *)
(* the copies of the containers a breadth-first search refused.            *)
FreedButRefused ==
    pc = "done" =>
        \A w \in heap \ {RootValue, result} :
            ~opts.depth_first /\ w.of = "copy" /\ Refused(w.node)

(* Once the search is over only the caller's values are allocated, as      *)
(* include/asdf/value.h says of an exhausted or destroyed iterator.        *)
AllFreed == pc = "done" => heap \subseteq {RootValue, result}

(* Every call of asdf_value_find_iter_next returns, on a document without  *)
(* an alias to a container it is in (TreesAssumption).                     *)
CallReturns == pc = "busy" ~> pc # "busy"
=============================================================================
