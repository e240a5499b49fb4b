----------------------------- MODULE BlockStore -----------------------------
(***************************************************************************)
(* The binary blocks of an open file: file->blocks, the handles a client   *)
(* holds on blocks (asdf_block_t), and who owns the memory behind them.    *)
(* The user-facing functions of src/src/block.c, with the parts of         *)
(* asdf_close and asdf_file_parser in src/src/file.c that they rely on.    *)
(*                                                                         *)
(* The contents of a block are named by where they come from: a buffer of  *)
(* the caller's, one the library allocated, or the number of a block of    *)
(* the input file.  Failing allocations are not modelled.                  *)
(***************************************************************************)
EXTENDS Integers, Sequences, FiniteSets

CONSTANTS
    Handles,      \* asdf_block_t objects
    Buffers,      \* data buffers the library can allocate (bound)
    Caller,       \* data buffers of the caller's
    Null, Garbage,
    Inputs,       \* what is opened: [mode, stream, tree, opts, blocks]
    MaxBlocks,    \* bound: blocks of the file
    Sizes,        \* allocated sizes a client reserves
    Packings,     \* does already-compressed data name its compression?
    Rebuild,      \* may data be set through a handle that was read or appended?
    Reuse         \* may the input's data of a block be used once it was written?

ASSUME StoreAssumption ==
    /\ Buffers \cap Caller = {} /\ Null \notin Buffers \cup Caller
    /\ Garbage \notin Buffers \cup Caller \cup {Null}
    /\ \A v \in Buffers \cup Caller \cup {Null, Garbage} : v \notin Nat
    /\ MaxBlocks \in Nat /\ Sizes \subseteq Nat
    /\ Rebuild \in BOOLEAN /\ Reuse \in BOOLEAN /\ Packings \subseteq BOOLEAN
    /\ \A f \in Inputs : /\ f.mode \in {"r", "w", "rw"}
                         /\ f.stream \in BOOLEAN
                         /\ f.tree \in Nat /\ f.opts \subseteq {"empty", "noindex"}
                         /\ f.blocks \in Seq([at : Nat, comp : BOOLEAN])
                         /\ ~f.stream => f.blocks = <<>>
                         /\ Len(f.blocks) <= MaxBlocks
                         /\ \A i, j \in DOMAIN f.blocks :
                               f.blocks[i].at = f.blocks[j].at => i = j

VARIABLES
    in, open,     \* the input (fixed); whether the file is still open
    parsed,       \* the parser is done and its infos were copied
    blocks,       \* file->blocks
    truth,        \* history: what each of them is meant to hold
    handle,       \* the client's handles
    heap          \* buffers that are allocated

storeVars == <<in, open, parsed, blocks, truth, handle, heap>>

\* asdf_block_info_t: `owned` data is freed with the info, `packed` data is
\* compressed already, `comp` stands for header.compression, `wcomp` for a
\* write_compressor; `out`: the positions are those in a file written.
Info(data, owned, packed, comp, dpos) ==
    [data |-> data, owned |-> owned, packed |-> packed, comp |-> comp,
     wcomp |-> FALSE, alloc |-> 0, hpos |-> -1, dpos |-> dpos, out |-> FALSE]

NoPos == -1

\* A header takes two units of the file (magic and size; the fields), the
\* stored data one.
HeadLen == 2
DataAt(i) == in.blocks[i].at + HeadLen

\* The infos the parser has for the input's blocks.
InputInfos ==
    [i \in DOMAIN in.blocks |->
        [Info(Null, FALSE, FALSE, in.blocks[i].comp, DataAt(i))
         EXCEPT !.alloc = 1, !.hpos = in.blocks[i].at]]

\* asdf_block_count: parse to the end, and copy the parser's infos.
Counted    == IF parsed THEN blocks ELSE InputInfos
CountTruth == IF parsed THEN truth ELSE [i \in DOMAIN in.blocks |-> i]

\* What open_mem finds of the input at position p, and what it holds once
\* decompressed if the header says `comp`.
RawAt(p)         == IF \E i \in DOMAIN in.blocks : DataAt(i) = p
                    THEN CHOOSE i \in DOMAIN in.blocks : DataAt(i) = p ELSE Garbage
DecodedAt(p, comp) == LET i == RawAt(p) IN
                      IF i # Garbage /\ in.blocks[i].comp = comp THEN i ELSE Garbage

HasInput(info) == info.dpos >= 0 /\ in.stream

-----------------------------------------------------------------------------
(* Handles *)

\* asdf_block_t: `map` is what the mapping of the input it keeps open shows,
\* `dest` what comp_state was opened for; `saw` (what
\* the last read gave) and `want` (what it was to give) are history.
NoHandle == [st |-> "closed", info |-> Info(Null, FALSE, FALSE, FALSE, NoPos),
             index |-> 0, map |-> Null, dest |-> Null, saw |-> Null, want |-> Null]


Detached(h) == handle[h].st = "detached"
View(h)     == handle[h].st = "view"

Unread(h) == handle[h].map = Null /\ handle[h].dest = Null

\* Clients build the data of a block before they append or read it.
MayBuild(h) == \/ Detached(h) /\ (Rebuild \/ Unread(h))
               \/ View(h) /\ Rebuild

\* asdf_block_info_deinit: the heap without the info's own buffer.
Released(info) == IF info.owned THEN heap \ {info.data} ELSE heap

\* asdf_block_create(data) and asdf_block_create(NULL, 0).
Create(h, data) ==
    /\ handle[h].st = "closed"
    /\ handle' = [handle EXCEPT ![h] =
                    [NoHandle EXCEPT !.st = "detached", !.saw = data, !.want = data,
                                     !.info = Info(data, FALSE, FALSE, FALSE, NoPos)]]
    /\ UNCHANGED <<in, open, parsed, blocks, truth, heap>>

\* asdf_block_destroy of a block that was never appended; asdf_block_close.
Destroy(h) ==
    /\ Detached(h)
    /\ heap' = Released(handle[h].info)
    /\ handle' = [handle EXCEPT ![h] = NoHandle]
    /\ UNCHANGED <<in, open, parsed, blocks, truth>>

Close(h) ==
    /\ View(h)
    /\ handle' = [handle EXCEPT ![h] = NoHandle]
    /\ UNCHANGED <<in, open, parsed, blocks, truth, heap>>

\* The info of h gets new data; what it owned before is freed.
SetInfo(h, info, data) ==
    /\ MayBuild(h)
    /\ handle' = [handle EXCEPT ![h].info = info, ![h].saw = data, ![h].want = data]
    /\ UNCHANGED <<in, open, parsed, blocks, truth>>

\* asdf_block_data_alloc of another size than there is (of the same size it
\* changes nothing), also from asdf_block_create(NULL, size).
DataAlloc(h, b) ==
    /\ b \notin heap
    /\ heap' = Released(handle[h].info) \cup {b}
    /\ SetInfo(h, [handle[h].info EXCEPT !.data = b, !.owned = TRUE, !.packed = FALSE], b)

DataSet(h, c) ==
    /\ heap' = Released(handle[h].info)
    /\ SetInfo(h, [handle[h].info EXCEPT !.data = c, !.owned = FALSE, !.packed = FALSE], c)

\* asdf_block_data_set_compressed, with a compression or with none.
DataSetCompressed(h, c, comp) ==
    /\ heap' = Released(handle[h].info)
    /\ SetInfo(h, [handle[h].info EXCEPT !.data = c, !.owned = FALSE, !.packed = TRUE,
                                         !.comp = comp, !.wcomp = FALSE], c)

\* Mutant of CompressionSet: the compression goes to the input's header.
CompressionSetHeader(h) ==
    /\ Detached(h) \/ View(h)
    /\ handle' = [handle EXCEPT ![h].info.comp = TRUE]
    /\ blocks' = IF View(h) THEN [blocks EXCEPT ![handle[h].index].comp = TRUE] ELSE blocks
    /\ UNCHANGED <<in, open, parsed, truth, heap>>

\* asdf_block_compression_set and asdf_block_allocated_size_set: to the
\* handle's info, and to that of the file if the block is part of it.
CompressionSet(h) ==
    /\ Detached(h) \/ View(h)
    /\ handle' = [handle EXCEPT ![h].info.wcomp = TRUE]
    /\ blocks' = IF View(h) THEN [blocks EXCEPT ![handle[h].index].wcomp = TRUE] ELSE blocks
    /\ UNCHANGED <<in, open, parsed, truth, heap>>

AllocatedSizeSet(h, n) ==
    /\ Detached(h) \/ View(h)
    /\ handle' = [handle EXCEPT ![h].info.alloc = n]
    /\ blocks' = IF View(h) THEN [blocks EXCEPT ![handle[h].index].alloc = n] ELSE blocks
    /\ UNCHANGED <<in, open, parsed, truth, heap>>

\* Mutant of AppendBlock: the handle goes on to own the data.
AppendShared(h) ==
    /\ open /\ Detached(h)
    /\ in.mode # "r"
    /\ Len(Counted) < MaxBlocks
    /\ parsed' = TRUE
    /\ blocks' = Append(Counted, handle[h].info)
    /\ truth' = Append(CountTruth, handle[h].want)
    /\ handle' = [handle EXCEPT ![h].st = "view", ![h].index = Len(Counted) + 1]
    /\ UNCHANGED <<in, open, heap>>

\* asdf_block_append: the file's info takes over what the handle owned.
AppendBlock(h) ==
    /\ open /\ Detached(h)
    /\ in.mode # "r"
    /\ Len(Counted) < MaxBlocks
    /\ parsed' = TRUE
    /\ blocks' = Append(Counted, handle[h].info)
    /\ truth' = Append(CountTruth, handle[h].want)
    /\ handle' = [handle EXCEPT ![h].st = "view", ![h].index = Len(Counted) + 1,
                                ![h].info.owned = FALSE]
    /\ UNCHANGED <<in, open, heap>>

\* asdf_block_open: a view on block i, which owns nothing.
OpenBlock(h, i) ==
    /\ open /\ handle[h].st = "closed"
    /\ i \in DOMAIN Counted
    /\ parsed' = TRUE
    /\ blocks' = Counted /\ truth' = CountTruth
    /\ handle' = [handle EXCEPT ![h] =
                    [NoHandle EXCEPT !.st = "view", !.index = i,
                                     !.saw = CountTruth[i], !.want = CountTruth[i],
                                     !.info = [Counted[i] EXCEPT !.owned = FALSE]]]
    /\ UNCHANGED <<in, open, heap>>

\* asdf_block_count on its own.
Count ==
    /\ open /\ ~parsed
    /\ parsed' = TRUE
    /\ blocks' = Counted /\ truth' = CountTruth
    /\ UNCHANGED <<in, open, handle, heap>>
\* asdf_block_data and asdf_block_data_raw (decompress = FALSE): the mapping
\* of the input the handle has, the data in memory, a new mapping.
Read(h, decompress) ==
    LET hd     == handle[h]
        info   == hd.info
        mapped == hd.map # Null
        opens  == ~mapped /\ info.data = Null /\ HasInput(info)
        map    == IF opens THEN RawAt(info.dpos) ELSE hd.map
        packed == ~mapped /\ info.data # Null /\ info.packed
        unpack == decompress /\ info.comp /\ (mapped \/ opens \/ packed)
        dest   == IF ~unpack THEN hd.dest
                  ELSE IF hd.dest # Null THEN hd.dest
                  ELSE IF packed THEN info.data ELSE DecodedAt(info.dpos, info.comp)
        val    == IF unpack THEN dest ELSE IF mapped \/ opens THEN map ELSE info.data
    IN  /\ hd.st # "closed"
        /\ opens /\ info.out => Reuse
        /\ handle' = [handle EXCEPT ![h].map = map, ![h].dest = dest, ![h].saw = val]
        /\ UNCHANGED <<in, open, parsed, blocks, truth, heap>>

\* asdf_close, once the client has closed its views: what the file's infos
\* own is freed.
CloseFile ==
    /\ open
    /\ \A h \in Handles : ~View(h)
    /\ open' = FALSE
    /\ heap' = heap \ {blocks[i].data : i \in {j \in DOMAIN blocks : blocks[j].owned}}
    /\ blocks' = <<>> /\ truth' = <<>>
    /\ UNCHANGED <<in, parsed, handle>>

StoreInit ==
    /\ in \in Inputs
    /\ open = TRUE /\ parsed = ~in.stream
    /\ blocks = <<>> /\ truth = <<>>
    /\ handle = [h \in Handles |-> NoHandle]
    /\ heap = {}

StoreNext ==
    \/ \E h \in Handles :
          \/ \E c \in Caller \cup {Null} : Create(h, c)
          \/ Destroy(h) \/ Close(h)
          \/ \E b \in Buffers : DataAlloc(h, b)
          \/ \E c \in Caller : DataSet(h, c)
          \/ \E c \in Caller, comp \in Packings : DataSetCompressed(h, c, comp)
          \/ CompressionSet(h)
          \/ \E n \in Sizes : AllocatedSizeSet(h, n)
          \/ AppendBlock(h)
          \/ \E i \in 1 .. MaxBlocks : OpenBlock(h, i)
          \/ \E decompress \in BOOLEAN : Read(h, decompress)
    \/ Count
    \/ CloseFile

-----------------------------------------------------------------------------
(* Properties *)

Values == Buffers \cup Caller \cup {Null, Garbage} \cup 1 .. MaxBlocks

InfoType == [data : Buffers \cup Caller \cup {Null}, owned : BOOLEAN, packed : BOOLEAN,
             comp : BOOLEAN, wcomp : BOOLEAN, alloc : Nat,
             hpos : Int, dpos : Int, out : BOOLEAN]

StoreTypeOK ==
    /\ in \in Inputs /\ open \in BOOLEAN /\ parsed \in BOOLEAN
    /\ blocks \in Seq(InfoType) /\ Len(blocks) <= MaxBlocks
    /\ truth \in Seq(Values) /\ Len(truth) = Len(blocks)
    /\ handle \in [Handles -> [st : {"closed", "detached", "view"}, info : InfoType,
                               index : 0 .. MaxBlocks, map : Values, dest : Values,
                               saw : Values, want : Values]]
    /\ heap \subseteq Buffers

\* Who frees buffer b: the file's infos (asdf_close) and the handles
\* (asdf_block_destroy) that have it with data_owned set.
FileOwners(b)   == {i \in DOMAIN blocks : blocks[i].owned /\ blocks[i].data = b}
HandleOwners(b) == {h \in Handles : handle[h].info.owned /\ handle[h].info.data = b}

\* Every buffer asdf_block_data_alloc made is freed exactly once: while it is
\* allocated one info owns it, the file's or a detached handle's, whatever
\* order blocks are built, appended, destroyed and the file closed in; and no
\* info a client or the emitter can still read points to a freed buffer.
OneOwner ==
    /\ \A b \in heap : Cardinality(FileOwners(b)) + Cardinality(HandleOwners(b)) = 1
    /\ \A i \in DOMAIN blocks : blocks[i].data \in Buffers => blocks[i].data \in heap
    /\ \A h \in Handles : handle[h].info.data \in Buffers => handle[h].info.data \in heap

\* asdf_block_data and asdf_block_data_raw give the data of the block they
\* are asked for: what was last set, or what the input file has for it.
ReadsRight == \A h \in Handles : handle[h].saw = handle[h].want
=============================================================================
