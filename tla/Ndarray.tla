------------------------------ MODULE Ndarray ------------------------------
(***************************************************************************)
(* The ndarray object (src/core/ndarray.c): read from the tree of a file   *)
(* or built by the client, its data found lazily in a binary block or in   *)
(* the YAML tree, copied between files, and written to a tree, by which    *)
(* the file takes its data over.                                           *)
(*                                                                         *)
(* Of a block this module keeps what the ndarray depends on: whether it is *)
(* detached or a view of a file's block, and which buffer holds its data   *)
(* (compression and mapping: BlockStore).  A data buffer is a sequence of  *)
(* elements.  Allocations do not fail; byte order and strides, which no    *)
(* function here interprets, are left out.                                 *)
(***************************************************************************)
EXTENDS InlineArray

CONSTANTS
    Arrays,        \* ndarray objects of the client
    Buffers,       \* data buffers the library can allocate (bound)
    Files, Paths,
    Null, Free,    \* a NULL pointer; a buffer that is not allocated
    Starts,        \* how the files may be: [mode, tree, blocks, storage], and
                   \* how many calls the client makes then: calls (bound)
    Shapes, Types, \* of the arrays a client builds
    Fills,         \* the elements it fills them with, or none
    Targets,       \* the paths it sets arrays at
    MaxBlocks,     \* bound: blocks of a file
    Liberties      \* what a client does beyond the rules (see MayFill ... MayClose)

ASSUME NdarrayAssumption ==
    /\ MaxBlocks \in Nat /\ Buffers \subseteq Nat /\ Targets \subseteq Files \X Paths
    /\ Liberties \subseteq {"set unread", "set foreign", "set unreadable",
                            "fill view", "replace", "copy changed", "copy dataless",
                            "copy outlives"}

VARIABLES
    open, mode,   \* is the file open; its mode
    storage,      \* config->emitter.array_storage
    tree,         \* what the tree holds at each path
    blocks,       \* file->blocks
    mem,          \* the data buffers
    nd,           \* the ndarrays
    calls, call,  \* the calls the client may still make; the last one
    wild,         \* history: NULL was read as data
    shown         \* history: what a client can see (Shown, below)

vars == <<open, mode, storage, tree, blocks, mem, nd, calls, call, wild, shown>>

\* A path of the tree: no array, a mapping with a source, or inline data
\* (a plain sequence has no datatype).
NoEntry == [kind |-> "none"]
BlockEntry(source, shape, T, offset) ==
    [kind |-> "block", source |-> source, shape |-> shape, T |-> T, offset |-> offset]
InlineEntry(node, T) == [kind |-> "inline", node |-> node, T |-> T]

\* A block of a file: its data in a buffer, or still in the input (`lit`).
InBuffer(b)   == [buf |-> b, lit |-> <<>>]
InInput(data) == [buf |-> Null, lit |-> data]

\* asdf_block_t.  `buf` is a buffer of its own, which a view gets only by
\* DataAlloc.
NoBlock         == [st |-> "none", buf |-> Null, file |-> Null, index |-> 0]
DetachedBlock(b) == [NoBlock EXCEPT !.st = "detached", !.buf = b]
ViewOf(f, i)    == [NoBlock EXCEPT !.st = "view", !.file = f, !.index = i]

\* internal->inline_data: a value on a node of a tree.  asdf_value_copy of an
\* attached value is another handle on the same node.
NoInline == [file |-> Null, path |-> Null, node |-> List(<<>>), live |-> FALSE]
OnNode(f, p, node) == [file |-> f, path |-> p, node |-> node, live |-> TRUE]

HasInline(n) == n.inl.file # Null

\* asdf_ndarray_t with its internal data (`internal`: whether there is any).
\* `made`: by the library, or by the client; `changed`: the client has filled
\* one that was read from the tree.
NoArray == [made |-> "no", shape |-> <<>>, T |-> "UINT8", offset |-> 0, source |-> 0,
            internal |-> FALSE, file |-> Null, block |-> NoBlock, inl |-> NoInline,
            storage |-> "default", changed |-> FALSE]

Bare(n) == [n EXCEPT !.internal = FALSE, !.file = Null, !.block = NoBlock,
                     !.inl = NoInline, !.storage = "default", !.changed = FALSE]

Fresh   == Min({b \in Buffers : mem[b] = Free})
CanMake == \E b \in Buffers : mem[b] = Free

\* asdf_block_data.  The data of the input was mapped when the view was
\* opened, and the cached mapping comes before a buffer of the view's own.
BlockData(bk, bks, m) ==
    IF bk.st = "detached" THEN IF bk.buf = Null THEN <<>> ELSE m[bk.buf]
    ELSE LET info == bks[bk.file][bk.index]
         IN  IF info.buf = Null THEN info.lit
             ELSE m[IF bk.buf = Null THEN info.buf ELSE bk.buf]

\* asdf_block_destroy: a detached block frees its buffer.
Freed(bk, m) == IF bk.st = "detached" /\ bk.buf # Null THEN [m EXCEPT ![bk.buf] = Free] ELSE m

-----------------------------------------------------------------------------
(* Reading *)

\* asdf_ndarray_deserialize, the two kinds of it: whether the entry is
\* accepted, and the ndarray made.
DeserializeInline(f, p, e) ==
    LET w == infer_inline_array_datatype(e.node)
        T == IF e.T = "none" THEN infer_scalar_datatype(w.inf) ELSE e.T
    IN  [ok |-> w.ok /\ T # "UNKNOWN",
         n  |-> [NoArray EXCEPT !.made = "lib", !.shape = w.shape, !.T = T, !.internal = TRUE,
                                !.file = f, !.inl = OnNode(f, p, e.node), !.storage = "inline"]]

DeserializeBlock(f, e) ==
    [ok |-> TRUE,
     n  |-> [NoArray EXCEPT !.made = "lib", !.shape = e.shape, !.T = e.T, !.offset = e.offset,
                            !.source = e.source, !.internal = TRUE, !.file = f,
                            !.storage = "internal"]]

Deserialize(f, p, e) ==
    IF e.kind = "inline" THEN DeserializeInline(f, p, e) ELSE DeserializeBlock(f, e)

Get(a, f, p) ==
    /\ open[f] /\ nd[a].made = "no" /\ tree[f][p].kind # "none"
    /\ Deserialize(f, p, tree[f][p]).ok
    /\ nd' = [nd EXCEPT ![a] = Deserialize(f, p, tree[f][p]).n]
    /\ UNCHANGED <<open, mode, storage, tree, blocks, mem, wild>>

\* asdf_ndarray_data_impl: the block an ndarray has, or the one it gets when
\* its data is first asked for.  A failed conversion frees the buffer again.
Materialize(n) ==
    LET r == parse_inline_data(n.inl.node, n.shape, n.T)
        No == [ok |-> FALSE, block |-> NoBlock, mem |-> mem]
    IN  IF ~n.internal THEN No
        ELSE IF n.block.st # "none" THEN [ok |-> TRUE, block |-> n.block, mem |-> mem]
        ELSE IF HasInline(n)
        THEN IF Size(n.shape) = 0
             THEN [ok |-> TRUE, block |-> DetachedBlock(Null), mem |-> mem]
             ELSE IF ~r.ok THEN No
             ELSE [ok |-> TRUE, block |-> DetachedBlock(Fresh),
                   mem |-> [mem EXCEPT ![Fresh] = r.data]]
        ELSE IF n.file # Null /\ n.source \in DOMAIN blocks[n.file]
        THEN [ok |-> TRUE, block |-> ViewOf(n.file, n.source), mem |-> mem]
        ELSE No

Data(a) ==
    /\ nd[a].internal /\ nd[a].block.st = "none" /\ CanMake
    /\ LET m == Materialize(nd[a])
       IN  /\ m.ok
           /\ nd' = [nd EXCEPT ![a].block = m.block]
           /\ mem' = m.mem
    /\ UNCHANGED <<open, mode, storage, tree, blocks, wild>>

-----------------------------------------------------------------------------
(* Building *)

\* The client declares an ndarray with a shape and a datatype.
Declare(a, shape, T) ==
    /\ nd[a].made = "no"
    /\ nd' = [nd EXCEPT ![a] = [NoArray EXCEPT !.made = "user", !.shape = shape, !.T = T]]
    /\ UNCHANGED <<open, mode, storage, tree, blocks, mem, wild>>

Zeros(shape) == [i \in 1 .. Size(shape) |-> 0]

\* Rule: an ndarray whose data was asked for in a file's block is not filled
\* before it was deallocated.  The buffer would be one of the view alone, which
\* nobody frees; the data mapped before hides it, and a write names the old
\* block.
MayFill(n) == n.block.st = "view" => "fill view" \in Liberties

\* asdf_ndarray_data_alloc and, with elements to copy, asdf_ndarray_data_copy.
\* Called again it yields the same buffer; one of another size is dropped for
\* a new one.  A read-back ndarray without a block gets one of its own.
DataAlloc(a, elems) ==
    LET n    == nd[a]
        size == Size(n.shape)
        bk   == IF n.block.st = "none" THEN DetachedBlock(Null) ELSE n.block
        b    == IF bk.buf = Null /\ size > 0 THEN Fresh ELSE bk.buf
        kept == IF bk.buf # Null /\ Len(mem[b]) = size THEN mem[b] ELSE Zeros(n.shape)
    IN  /\ n.made # "no" /\ MayFill(n) /\ CanMake
        /\ nd' = [nd EXCEPT ![a].internal = TRUE, ![a].block = [bk EXCEPT !.buf = b],
                            ![a].changed = HasInline(n)]
        /\ mem' = IF size = 0 THEN mem
                  ELSE [mem EXCEPT ![b] = IF elems = <<>> THEN kept ELSE SubSeq(elems, 1, size)]
        /\ UNCHANGED <<open, mode, storage, tree, blocks, wild>>

\* asdf_ndarray_data_dealloc: nothing without a block.
DataDealloc(a) ==
    /\ nd[a].internal /\ nd[a].block.st # "none"
    /\ mem' = Freed(nd[a].block, mem)
    /\ nd' = [nd EXCEPT ![a] = Bare(@)]
    /\ UNCHANGED <<open, mode, storage, tree, blocks, wild>>

\* asdf_ndarray_storage_set: only inline storage makes the internal data.
StorageSet(a, s) ==
    /\ nd[a].made # "no" /\ nd[a].storage # s /\ (nd[a].internal \/ s = "inline")
    /\ nd' = [nd EXCEPT ![a].internal = TRUE, ![a].storage = s]
    /\ UNCHANGED <<open, mode, storage, tree, blocks, mem, wild>>

\* asdf_ndarray_destroy (deinit); a client's own ndarray goes out of scope
\* once its data is deallocated.
Destroy(a) ==
    /\ nd[a].made = "lib" \/ (nd[a].made = "user" /\ nd[a].block.st # "detached")
    /\ mem' = Freed(nd[a].block, mem)
    /\ nd' = [nd EXCEPT ![a] = NoArray]
    /\ UNCHANGED <<open, mode, storage, tree, blocks, wild>>

-----------------------------------------------------------------------------
(* Copying *)

Dataless(n) == \/ ~n.internal
               \/ n.block.st = "none" /\ ~HasInline(n) /\ n.file = Null

\* What the copy of n for file f has, if the source's data can be read.
CopyMeta(n, f) ==
    [NoArray EXCEPT !.made = "lib", !.shape = n.shape, !.T = n.T, !.offset = n.offset,
                    !.source = n.source, !.internal = TRUE, !.file = f, !.storage = n.storage]

\* asdf_ndarray_copy_impl: inline data first, else the bytes of the block, in
\* a block of the copy's own.
CopyOf(n, f) ==
    LET m    == Materialize(n)
        data == BlockData(m.block, blocks, mem)
        c    == CopyMeta(n, f)
    IN  IF HasInline(n) THEN [ok |-> TRUE, n |-> [c EXCEPT !.inl = n.inl], mem |-> mem]
        ELSE IF Dataless(n) THEN [ok |-> TRUE, n |-> c, mem |-> mem]
        ELSE IF ~m.ok THEN [ok |-> FALSE, n |-> c, mem |-> mem]
        ELSE IF data = <<>> THEN
            [ok |-> TRUE, n |-> [c EXCEPT !.block = DetachedBlock(Null)], mem |-> mem]
        ELSE [ok |-> TRUE, n |-> [c EXCEPT !.block = DetachedBlock(Fresh)],
              mem |-> [mem EXCEPT ![Fresh] = data]]

\* Rules: the data of an inline array is copied as it was read, so the client
\* has not changed it; a dataless array is not copied (its copy would read
\* block `source` of the file it is for).
MayCopy(n) ==
    /\ HasInline(n) /\ n.changed => "copy changed" \in Liberties
    /\ Dataless(n) => "copy dataless" \in Liberties

Copy(a, b, f) ==
    /\ open[f] /\ nd[a].made # "no" /\ nd[b].made = "no" /\ CanMake
    /\ MayCopy(nd[a])
    /\ CopyOf(nd[a], f).ok
    /\ nd' = [nd EXCEPT ![b] = CopyOf(nd[a], f).n]
    /\ mem' = CopyOf(nd[a], f).mem
    /\ UNCHANGED <<open, mode, storage, tree, blocks, wild>>

-----------------------------------------------------------------------------
(* Writing *)

\* Mutant of HasData: only a block counts.
HasBlock(n) == n.internal /\ n.block.st # "none"

HasData(n)  == n.internal /\ (n.block.st # "none" \/ HasInline(n))
Consumed(n) == n.internal /\ n.block.st = "detached"

WriteInline(n, f) ==
    IF storage[f] # "default" THEN storage[f] = "inline"
    ELSE n.internal /\ n.storage = "inline"

\* What serializing leaves behind: the entry, the ndarray, the file's blocks
\* and the buffers; `wild` if NULL was read for the data.
Result(ok, entry, n, bks, m, wildly) ==
    [ok |-> ok, entry |-> entry, n |-> n, blocks |-> bks, mem |-> m, wild |-> wildly]

\* All the elements of the block from its start, in the ndarray's shape.
SerializeInline(n, f) ==
    LET m    == Materialize(n)
        data == IF m.ok THEN BlockData(m.block, blocks, m.mem) ELSE Zeros(n.shape)
    IN  Result(TRUE, InlineEntry(serialize_seq_level(data, n.shape, n.T, 0, 0), n.T),
               [n EXCEPT !.block = m.block], blocks[f], m.mem, ~m.ok /\ Size(n.shape) > 0)

\* A detached block is appended, which a file open for reading refuses; a
\* block of a file is named by its index.
SerializeBlock(n, f) ==
    LET m    == Materialize(n)
        seen == [n EXCEPT !.block = m.block]
        Named(bk, bks) ==
            Result(TRUE, BlockEntry(bk.index, n.shape, n.T, n.offset), [n EXCEPT !.block = bk],
                   bks, m.mem, FALSE)
    IN  IF ~m.ok \/ (m.block.st = "detached" /\ mode[f] = "r")
        THEN Result(FALSE, NoEntry, seen, blocks[f], m.mem, FALSE)
        ELSE IF m.block.st = "detached"
        THEN Named(ViewOf(f, Len(blocks[f]) + 1), Append(blocks[f], InBuffer(m.block.buf)))
        ELSE Named(m.block, blocks[f])

\* Mutant of Consume: the block is let go of, whoever owns its buffer.
ConsumeForgets(r) == [r EXCEPT !.n = Bare(@)]

\* asdf_ndarray_serialize_consume: a block that is still detached is freed.
Consume(r) == [r EXCEPT !.n = Bare(@), !.mem = Freed(r.n.block, @)]

\* asdf_ndarray_serialize
Serialize(n, f) ==
    LET r == IF ~HasData(n) THEN Result(TRUE, InlineEntry(List(<<>>), n.T), n, blocks[f], mem, FALSE)
             ELSE IF WriteInline(n, f) THEN SerializeInline(n, f)
             ELSE SerializeBlock(n, f)
    IN  IF r.ok /\ Consumed(n) THEN Consume(r) ELSE r

Unread(n)  == n.internal /\ n.block.st = "none" /\ ~HasInline(n) /\ n.file # Null
Foreign(n, f) == n.block.st = "view" /\ n.block.file # f
RefersTo(n, f, p) == n.inl.file = f /\ n.inl.path = p /\ n.inl.live

\* Rules for asdf_set_ndarray.  "set unread": an ndarray read from a block is
\* written once its data was asked for (else as an empty array).  "set
\* foreign": to another file goes a copy (else the index is that of the other
\* file's block).  "set unreadable": not inline data that cannot be converted.
\* "replace": no path is set from which an inline array was read that is
\* still in use.
MaySet(a, f, p) ==
    LET n == nd[a]
    IN  /\ Unread(n) => "set unread" \in Liberties
        /\ Foreign(n, f) /\ ~WriteInline(n, f) => "set foreign" \in Liberties
        /\ HasData(n) /\ ~Materialize(n).ok => "set unreadable" \in Liberties
        /\ \A x \in Arrays : RefersTo(nd[x], f, p) =>
              (x = a /\ Consumed(n)) \/ "replace" \in Liberties

Orphaned(arrays, f, P) ==
    [x \in Arrays |-> IF arrays[x].inl.file = f /\ arrays[x].inl.path \in P
                      THEN [arrays[x] EXCEPT !.inl.live = FALSE] ELSE arrays[x]]

\* asdf_set_ndarray: serialize, then put the node into the tree, replacing
\* the one there; the tree of a file open for reading is not changed, nor is
\* one that has no place for the path.
Set(f, p, a, placed) ==
    LET r    == Serialize(nd[a], f)
        done == r.ok /\ mode[f] # "r" /\ placed
    IN  /\ open[f] /\ nd[a].made # "no" /\ CanMake
        /\ Len(blocks[f]) < MaxBlocks
        /\ MaySet(a, f, p)
        /\ call' = <<"set", f, p, a, done>>
        /\ tree' = IF done THEN [tree EXCEPT ![f][p] = r.entry] ELSE tree
        /\ nd' = LET arrays == [nd EXCEPT ![a] = r.n]
                 IN  IF done THEN Orphaned(arrays, f, {p}) ELSE arrays
        /\ blocks' = [blocks EXCEPT ![f] = r.blocks]
        /\ mem' = r.mem
        /\ wild' = (wild \/ r.wild)
        /\ UNCHANGED <<open, mode, storage>>

-----------------------------------------------------------------------------
(* Closing a file *)

\* The arrays of the file are destroyed before it is closed; "copy outlives":
\* the copies for other files are kept.
MayClose(f) ==
    \A x \in Arrays :
        /\ nd[x].file # f /\ nd[x].block.file # f
        /\ nd[x].inl.file = f => "copy outlives" \in Liberties

\* asdf_close: the tree and the blocks go, with the buffers they own.
CloseFile(f) ==
    /\ open[f] /\ MayClose(f)
    /\ open' = [open EXCEPT ![f] = FALSE]
    /\ mem' = [b \in Buffers |-> IF \E i \in DOMAIN blocks[f] : blocks[f][i].buf = b
                                 THEN Free ELSE mem[b]]
    /\ blocks' = [blocks EXCEPT ![f] = <<>>]
    /\ tree' = [tree EXCEPT ![f] = [p \in Paths |-> NoEntry]]
    /\ nd' = Orphaned(nd, f, Paths)
    /\ UNCHANGED <<mode, storage, wild>>

-----------------------------------------------------------------------------
(* What a client sees *)

\* The elements of an ndarray of n's shape in a block: asdf_ndarray_data
\* returns the start of the block's data, whatever the offset.
Elements(n, data) ==
    [shape |-> n.shape,
     data  |-> [i \in 1 .. Size(n.shape) |-> IF i <= Len(data) THEN data[i] ELSE 0]]

Nothing    == [shape |-> <<>>, data |-> <<>>]
None       == [shape |-> <<-1>>, data |-> <<>>]
Unreadable == [shape |-> <<-2>>, data |-> <<>>]
Lost       == [shape |-> <<-3>>, data |-> <<>>]

\* What a client gets of an ndarray if it asks for its data now, in a state
\* s = [tree, blocks, mem, nd].
ValueOf(n, s) ==
    LET r == parse_inline_data(n.inl.node, n.shape, n.T)
    IN  IF n.made = "no" \/ Dataless(n) THEN None
        ELSE IF n.block.st # "none" THEN Elements(n, BlockData(n.block, s.blocks, s.mem))
        ELSE IF HasInline(n)
        THEN IF ~n.inl.live THEN Lost
             ELSE IF ~r.ok THEN Unreadable ELSE [shape |-> n.shape, data |-> r.data]
        ELSE IF n.source \in DOMAIN s.blocks[n.file]
        THEN Elements(n, BlockData(ViewOf(n.file, n.source), s.blocks, s.mem))
        ELSE Unreadable

\* What a client gets of an array in the tree.
ValueAt(f, p, s) ==
    LET d == Deserialize(f, p, s.tree[f][p])
    IN  IF s.tree[f][p].kind = "none" THEN None
        ELSE IF d.ok THEN ValueOf(d.n, s) ELSE None

Shown(s) == [val |-> [a \in Arrays |-> ValueOf(s.nd[a], s)],
             doc |-> [f \in Files |-> [p \in Paths |-> ValueAt(f, p, s)]]]

-----------------------------------------------------------------------------
Init ==
    /\ \E s \in Starts : /\ mode = s.mode /\ storage = s.storage
                         /\ tree = s.tree /\ blocks = s.blocks /\ calls = s.calls
    /\ open = [f \in Files |-> TRUE]
    /\ mem = [b \in Buffers |-> Free]
    /\ nd = [a \in Arrays |-> NoArray]
    /\ wild = FALSE /\ call = <<>>
    /\ shown = Shown([tree |-> tree, blocks |-> blocks, mem |-> mem, nd |-> nd])

Step ==
    \/ \E a \in Arrays :
          \/ \E f \in Files, p \in Paths : call' = <<"get", a, f, p>> /\ Get(a, f, p)
          \/ call' = <<"data", a>> /\ Data(a)
          \/ \E shape \in Shapes, T \in Types : call' = <<"declare", a>> /\ Declare(a, shape, T)
          \/ \E elems \in Fills :
                call' = <<IF elems = <<>> THEN "alloc" ELSE "fill", a>> /\ DataAlloc(a, elems)
          \/ call' = <<"dealloc", a>> /\ DataDealloc(a)
          \/ call' = <<"destroy", a>> /\ Destroy(a)
          \/ \E s \in {"inline", "internal"} : call' = <<"storage", a>> /\ StorageSet(a, s)
          \/ \E b \in Arrays, f \in Files : call' = <<"copy", a, b>> /\ Copy(a, b, f)
          \/ \E f \in Files, p \in Paths, placed \in BOOLEAN :
                <<f, p>> \in Targets /\ Set(f, p, a, placed)
    \/ \E f \in Files : call' = <<"close", f>> /\ CloseFile(f)

Next ==
    /\ calls > 0 /\ calls' = calls - 1
    /\ Step
    /\ \E s \in {[tree |-> tree', blocks |-> blocks', mem |-> mem', nd |-> nd']} :
          shown' = Shown(s)

Spec == Init /\ [][Next]_vars

-----------------------------------------------------------------------------
(* Properties *)

FilledByClient(v) ==
    /\ v \notin {None, Unreadable, Lost}
    /\ \/ v.data = [i \in 1 .. Size(v.shape) |-> 0]
       \/ \E elems \in Fills : IsPrefix(v.data, elems)

Abstract == INSTANCE Arrays WITH
    val <- shown.val, doc <- shown.doc, Filled <- FilledByClient

\* Lazy reading, the sharing of blocks between objects and files, and the
\* transfer of buffers when an array is written or copied cannot be seen by a
\* client that follows the rules: every call of the ndarray functions changes
\* the one object or path it is about, to the value it should have.
Implements == Abstract!Spec

Owners(b) == {a \in Arrays : nd[a].block.st = "detached" /\ nd[a].block.buf = b}
FileOwners(b) == {<<f, i>> \in Files \X (1 .. MaxBlocks) :
                    i \in DOMAIN blocks[f] /\ blocks[f][i].buf = b}

\* A data buffer is freed exactly once: it has one owner, the ndarray it was
\* allocated for or the file that took it over, and no owner keeps a buffer
\* that is free, whatever order arrays are read, filled, copied, written and
\* destroyed in, the calls that fail half-way included.
OneOwner ==
    \A b \in Buffers :
        Cardinality(Owners(b)) + Cardinality(FileOwners(b)) = IF mem[b] = Free THEN 0 ELSE 1

Rectangular(v, shape) == Size(shape) > 0 /\ HasShape(v, shape)

\* The elements of v, of one kind, that some type of the library can hold.
Holdable(v, shape) ==
    LET elems == {At(v, idx) : idx \in Indices(shape)}
        OfKind(K) == \A e \in elems : e.kind \in K
    IN  \/ OfKind({"bool"})
        \/ OfKind({"int", "float"}) /\ \E e \in elems : e.kind = "float"
        \/ OfKind({"int"}) /\ \E T \in IntTypes : \A e \in elems : e.num \in RangeOf(T)

\* asdf_ndarray_deserialize_inline and parse_inline_array_level: a plain
\* nested sequence that is rectangular, of numbers or of bools, is read with
\* its own shape and a type that holds them all, and every element is where C
\* keeps it; and whatever was accepted, no more elements are written than the
\* buffer has.
InlineRight ==
    \A f \in Files, p \in Paths : tree[f][p].kind = "inline" =>
        LET v == tree[f][p].node
            d == DeserializeInline(f, p, tree[f][p])
            r == parse_inline_data(v, d.n.shape, d.n.T)
        IN  /\ d.ok /\ Size(d.n.shape) > 0 => r.written <= Size(d.n.shape)
            /\ LET shape == FirstShape(v)
               IN  Rectangular(v, shape) /\ tree[f][p].T = "none" /\ Holdable(v, shape) =>
                    /\ d.ok /\ d.n.shape = shape /\ r.ok
                    /\ \A idx \in Indices(shape) :
                          r.data[RowMajor(shape, idx) + 1] = At(v, idx).num

\* Stated by the comment on infer_inline_array_datatype ("no jagged arrays"):
\* what is accepted is rectangular.
NoJagged ==
    \A f \in Files, p \in Paths :
        tree[f][p].kind = "inline" /\ DeserializeInline(f, p, tree[f][p]).ok =>
            LET shape == DeserializeInline(f, p, tree[f][p]).n.shape
            IN  shape = <<>> \/ HasShape(tree[f][p].node, shape)

\* Stated by the return value of asdf_set_ndarray ("otherwise an error if an
\* inconsistency ... prevents serialization"): an array whose data cannot be
\* read is refused, and NULL is not taken for its data.
NoWildRead == ~wild

\* Stated of asdf_ndarray_t.offset ("offset into the binary block where the
\* array data begins"): the data of an array in a file's block is what the
\* block has from there on.
OffsetApplied ==
    \A a \in Arrays : nd[a].block.st = "view" =>
        LET data == BlockData(nd[a].block, blocks, mem)
        IN  \A i \in DOMAIN shown.val[a].data :
                nd[a].offset + i <= Len(data) =>
                    shown.val[a].data[i] = data[nd[a].offset + i]

\* Stated for asdf_ndarray_copy ("the copy is fully independent of src and its
\* file"): what a copy holds is there for as long as the copy is.
CopyIndependent == \A a \in Arrays : shown.val[a] # Lost
=============================================================================
