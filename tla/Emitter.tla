------------------------------ MODULE Emitter ------------------------------
(***************************************************************************)
(* Writing a file: the state machine of src/src/emitter.c, the writing of  *)
(* one block (asdf_block_info_write, src/src/block.c), the three           *)
(* asdf_write_to_* functions of src/src/file.c and the growing output      *)
(* buffer of mem_write (src/src/stream.c), on top of the blocks of         *)
(* BlockStore.  A write is one call: clients wait while it runs.           *)
(*                                                                         *)
(* The output is a sequence of units.  The version comments take one each, *)
(* the tree as many as its length, a block its header's two, its stored    *)
(* data and its padding.  What libfyaml prints is not modelled.            *)
(***************************************************************************)
EXTENDS BlockStore

CONSTANTS
    Page,        \* units in a memory page
    BufSizes,    \* sizes of the buffers clients pass to asdf_write_to_mem
    MaxWrites    \* bound: writes of one file

ASSUME EmitterAssumption == Page \in Nat \ {0} /\ BufSizes \subseteq Nat /\ MaxWrites \in Nat

VARIABLES
    em,          \* the emitter
    out,         \* what is in the output, up to the stream's position
    cap          \* size of a memory output

emVars == <<em, out, cap>>
vars   == <<storeVars, emVars>>

\* asdf_emitter_t: `next` is the block emit_blocks writes next, `est` the
\* estimate of asdf_write_to_mem, `sized` whether it looked at the size again
\* after the tree, `sent` (history) how many units were written.
NoEmitter == [st |-> "NONE", sink |-> "file", next |-> 1, est |-> 0,
              sized |-> FALSE, sent |-> 0, writes |-> 0]

EmitterStates == {"NONE", "INITIAL", "ASDF_VERSION", "STANDARD_VERSION", "TREE",
                  "BLOCKS", "BLOCK_INDEX", "END", "ERROR", "CRASH"}

-----------------------------------------------------------------------------
(* The output stream *)

\* Mutant of MemGrown: the buffer is grown only once it is overrun.
MemGrownLate(n) == IF Len(out) + n > cap + 1 THEN Len(out) + n ELSE cap

\* mem_write, n times one unit: the size of a resizeable buffer.
MemGrown(n) ==
    IF Len(out) >= cap THEN cap + n
    ELSE IF Len(out) + n >= cap THEN Len(out) + n + 1 ELSE cap

\* asdf_stream_write of units cs, all of them; then the emitter goes on to e.
\* A file may be full, a fixed buffer is when it has no room.
Fits(cs)   == em.sink = "mem" => Len(out) + Len(cs) <= cap
Write(cs, e) ==
    /\ Fits(cs)
    /\ out' = out \o cs
    /\ cap' = IF em.sink = "malloc" THEN MemGrown(Len(cs)) ELSE cap
    /\ em' = [e EXCEPT !.sent = em.sent + Len(cs)]

\* A write that comes short.  What is in the output then is of no use.
CanFail(cs) == em.sink = "file" \/ ~Fits(cs)
WriteFails ==
    /\ em' = [em EXCEPT !.st = "ERROR"]
    /\ out' = <<>> /\ UNCHANGED cap

Writes(cs, st) == \/ Write(cs, [em EXCEPT !.st = st])
                  \/ CanFail(cs) /\ WriteFails

Unit(k) == [k |-> k]
Units(k, n) == [i \in 1 .. n |-> Unit(k)]

-----------------------------------------------------------------------------
(* The states before the blocks *)

\* asdf_emitter_should_emit and asdf_emitter_should_emit_tree; in.tree is 0
\* when the tree is missing, or empty and not to be emitted.
ShouldEmitTree == in.tree > 0
ShouldEmit     == ShouldEmitTree \/ Len(blocks) > 0 \/ "empty" \in in.opts

EmitInitial ==
    /\ em.st = "INITIAL"
    /\ em' = [em EXCEPT !.st = IF ShouldEmit THEN "ASDF_VERSION" ELSE "END"]
    /\ UNCHANGED <<storeVars, out, cap>>

EmitAsdfVersion ==
    /\ em.st = "ASDF_VERSION"
    /\ Writes(Units("version", 1), "STANDARD_VERSION")
    /\ UNCHANGED storeVars

EmitStandardVersion ==
    /\ em.st = "STANDARD_VERSION"
    /\ Writes(Units("standard", 1), "TREE")
    /\ UNCHANGED storeVars

EmitTree ==
    /\ em.st = "TREE"
    /\ Writes(Units("tree", in.tree), "BLOCKS")
    /\ UNCHANGED storeVars

-----------------------------------------------------------------------------
(* Blocks and the block index *)

\* asdf_block_info_write: where the data come from, and what is written.
Source(info) ==
    IF info.data # Null THEN info.data
    ELSE IF HasInput(info) THEN
         IF info.wcomp THEN DecodedAt(info.dpos, info.comp) ELSE RawAt(info.dpos)
    ELSE Null
SourcePacked(info) == IF info.data # Null THEN info.packed ELSE HasInput(info) /\ info.comp

Used(info)      == IF Source(info) = Null THEN 0 ELSE 1
Allocated(info) == IF info.alloc < Used(info) THEN Used(info) ELSE info.alloc

Stored(info) ==
    [k |-> "data", val |-> Source(info),
     comp |-> Source(info) # Null /\ (info.wcomp \/ SourcePacked(info))]

HeadUnits(info) == <<[k |-> "head", alloc |-> Allocated(info)], Unit("fields")>>

\* Mutant of BlockUnits: no padding up to the allocated size.
BlockUnitsUnpadded(info) ==
    HeadUnits(info) \o (IF Used(info) = 1 THEN <<Stored(info)>> ELSE <<>>)

BlockUnits(info) ==
    HeadUnits(info) \o (IF Used(info) = 1 THEN <<Stored(info)>> ELSE <<>>)
                    \o Units("pad", Allocated(info) - Used(info))

\* Data handed over as compressed, without a compression, that a compressor
\* is set for: no comp_state is opened, and its `dest` is read all the same.
Unopened(info) == info.wcomp /\ SourcePacked(info) /\ ~info.comp

\* Where the header and the data come to be in the output.
Placed(info) == [info EXCEPT !.hpos = Len(out), !.dpos = Len(out) + HeadLen, !.out = TRUE]

\* emit_blocks first parses the rest of an input that nobody parsed.
CountBlocks ==
    /\ em.st = "BLOCKS" /\ (em.sink = "malloc" => em.sized)
    /\ ~parsed /\ Len(blocks) = 0
    /\ Count
    /\ UNCHANGED emVars

\* Mutant of EmitBlock: the position of the header is taken after it.
EmitBlockLate ==
    /\ em.st = "BLOCKS" /\ (em.sink = "malloc" => em.sized)
    /\ parsed /\ em.next <= Len(blocks)
    /\ LET info == blocks[em.next]
       IN  /\ Write(BlockUnits(info), [em EXCEPT !.next = em.next + 1])
           /\ blocks' = [blocks EXCEPT ![em.next] =
                            [Placed(info) EXCEPT !.hpos = Len(out) + HeadLen]]
    /\ UNCHANGED <<in, open, parsed, truth, handle, heap>>

\* One block.  It fails before anything is written (input not mapped,
\* compressor), in the header or in the data; the info keeps what is set.
EmitBlock ==
    /\ em.st = "BLOCKS" /\ (em.sink = "malloc" => em.sized)
    /\ parsed /\ em.next <= Len(blocks)
    /\ LET info == blocks[em.next]
       IN  IF Unopened(info)
           THEN em' = [em EXCEPT !.st = "CRASH"] /\ UNCHANGED <<blocks, out, cap>>
           ELSE \/ /\ Write(BlockUnits(info), [em EXCEPT !.next = em.next + 1])
                   /\ blocks' = [blocks EXCEPT ![em.next] = Placed(info)]
                \/ /\ info.wcomp \/ (info.data = Null /\ HasInput(info))
                   /\ WriteFails
                   /\ UNCHANGED blocks
                \/ /\ CanFail(BlockUnits(info)) /\ WriteFails
                   /\ \E placed \in {[info EXCEPT !.hpos = Len(out)], Placed(info)} :
                          blocks' = [blocks EXCEPT ![em.next] = placed]
    /\ UNCHANGED <<in, open, parsed, truth, handle, heap>>

\* Mutant of BlocksEmitted: blocks nobody counted are left out.
BlocksEmittedUncounted ==
    /\ em.st = "BLOCKS" /\ (em.sink = "malloc" => em.sized)
    /\ em.next > Len(blocks)
    /\ em' = [em EXCEPT !.st = "BLOCK_INDEX"]
    /\ UNCHANGED <<storeVars, out, cap>>

\* All blocks are written.
BlocksEmitted ==
    /\ em.st = "BLOCKS" /\ (em.sink = "malloc" => em.sized)
    /\ parsed \/ Len(blocks) > 0
    /\ em.next > Len(blocks)
    /\ em' = [em EXCEPT !.st = "BLOCK_INDEX"]
    /\ UNCHANGED <<storeVars, out, cap>>

EmitBlockIndex ==
    /\ em.st = "BLOCK_INDEX"
    /\ IF "noindex" \in in.opts \/ Len(blocks) = 0
       THEN em' = [em EXCEPT !.st = "END"] /\ UNCHANGED <<out, cap>>
       ELSE Writes(<<Unit("index"), [k |-> "offsets", at |-> [i \in DOMAIN blocks |-> blocks[i].hpos]]>>,
                   "END")
    /\ UNCHANGED storeVars

-----------------------------------------------------------------------------
(* asdf_write_to_file, asdf_write_to_fp, asdf_write_to_mem *)

\* asdf_file_estimate_blocks_size: of a header only the magic and the size.
EstimateOf(info) == IF info.wcomp THEN 0
                    ELSE 1 + (IF info.alloc = 0 THEN Used(info) ELSE info.alloc)

\* The sum over the file's blocks.
BlocksSize ==
    LET sum[i \in 0 .. Len(blocks)] == IF i = 0 THEN 0 ELSE sum[i - 1] + EstimateOf(blocks[i])
    IN  sum[Len(blocks)]

\* A client that writes the file again would have blocks of the input read
\* from where they are in the output.
MayWrite ==
    /\ open /\ em.st = "NONE" /\ em.writes < MaxWrites
    /\ \A i \in DOMAIN blocks : blocks[i].out /\ blocks[i].data = Null => Reuse

Start(sink, est, size) ==
    /\ MayWrite
    /\ em' = [NoEmitter EXCEPT !.st = "INITIAL", !.sink = sink, !.est = est,
                               !.writes = em.writes + 1]
    /\ out' = <<>> /\ cap' = size
    /\ UNCHANGED storeVars

WriteToFile == Start("file", 0, 0)

\* Into the caller's buffer, or one that is allocated: an estimate for the
\* blocks, a page for the tree and one for the block index.
WriteToMem ==
    \/ \E size \in BufSizes : Start("mem", 0, size)
    \/ Start("malloc", BlocksSize,
             BlocksSize + (IF "noindex" \in in.opts THEN Page ELSE 2 * Page))

\* After the tree the buffer is made larger for the blocks.  The output is a
\* new stream at the old position, or at the buffer's end if that is before.
ResizeForBlocks ==
    /\ em.st = "BLOCKS" /\ em.sink = "malloc" /\ ~em.sized
    /\ em' = [em EXCEPT !.sized = TRUE]
    /\ IF cap - Len(out) < em.est
       THEN LET new == cap + em.est - Len(out)
            IN  /\ cap' = new
                /\ out' = IF new < Len(out) THEN SubSeq(out, 1, new) ELSE out
       ELSE UNCHANGED <<cap, out>>
    /\ UNCHANGED storeVars

\* The emitter is destroyed, the caller has the output.
EndWrite ==
    /\ em.st \in {"END", "ERROR"}
    /\ em' = [NoEmitter EXCEPT !.writes = em.writes]
    /\ out' = <<>> /\ cap' = 0
    /\ UNCHANGED storeVars

-----------------------------------------------------------------------------

Init == StoreInit /\ em = NoEmitter /\ out = <<>> /\ cap = 0

Client == em.st = "NONE" /\ StoreNext /\ UNCHANGED emVars

Next ==
    \/ Client
    \/ WriteToFile \/ WriteToMem \/ EndWrite
    \/ EmitInitial \/ EmitAsdfVersion \/ EmitStandardVersion \/ EmitTree
    \/ ResizeForBlocks \/ CountBlocks \/ EmitBlock \/ BlocksEmitted
    \/ EmitBlockIndex

Spec == Init /\ [][Next]_vars

-----------------------------------------------------------------------------
(* Properties *)

TypeOK ==
    /\ StoreTypeOK
    /\ em.st \in EmitterStates /\ em.sink \in {"file", "mem", "malloc"}
    /\ em.next \in 1 .. MaxBlocks + 1 /\ em.est \in Nat /\ em.sent \in Nat
    /\ em.sized \in BOOLEAN /\ em.writes \in 0 .. MaxWrites
    /\ \A p \in DOMAIN out :
          \/ out[p] \in [k : {"version", "standard", "tree", "fields", "pad", "index"}]
          \/ out[p] \in [k : {"head"}, alloc : Nat]
          \/ out[p] \in [k : {"data"}, val : Values, comp : BOOLEAN]
          \/ out[p] \in [k : {"offsets"}, at : Seq(Int)]
    /\ cap \in Nat

\* asdf_write_to_mem and mem_write keep the output within the buffer: never
\* is more in it than it was last allocated for.
OutputFits == em.sink # "file" => Len(out) <= cap

\* ResizeForBlocks cut off what was already written.
Cut == em.sent # Len(out)

\* The buffer of asdf_write_to_mem keeps what was written to it.
NothingCut == em.st \in {"BLOCKS", "BLOCK_INDEX", "END"} => ~Cut

IsData(u) == u.k = "data"
IsHead(u) == u.k = "head"
Heads     == {p \in DOMAIN out : IsHead(out[p])}

\* A write that succeeds has put the data of every block in the output, each
\* once, in the file's order, and no other data: those of appended blocks and
\* those still in the input; also when nobody had counted the input's blocks before.  (The blocks of
\* an input without a tree are not written unless someone did.)
BlocksWritten ==
    em.st = "END" /\ ~Cut /\ (parsed \/ in.tree > 0) =>
        LET full == {i \in DOMAIN CountTruth : CountTruth[i] # Null}
            data == {p \in DOMAIN out : IsData(out[p])}
        IN  \E at \in [full -> data] :
               /\ {at[i] : i \in full} = data
               /\ \A i, j \in full : i < j => at[i] < at[j]
               /\ \A i \in full : out[at[i]].val = CountTruth[i]

\* The blocks of the output chain: the allocated size in a header leads to
\* the next header, or to the index, or to the end.
HeadersChain ==
    em.st = "END" /\ ~Cut =>
        \A p \in Heads :
            LET q == p + HeadLen + out[p].alloc
            IN  \/ q = Len(out) + 1
                \/ q \in DOMAIN out /\ out[q].k \in {"head", "index"}

\* The block index written lists the positions of all headers in order, for
\* whatever was written before and however the buffer had to grow.
IndexRight ==
    em.st = "END" /\ ~Cut =>
        \A p \in DOMAIN out :
            out[p].k = "offsets" =>
                /\ {out[p].at[i] + 1 : i \in DOMAIN out[p].at} = Heads
                /\ \A i, j \in DOMAIN out[p].at : i < j => out[p].at[i] < out[p].at[j]
=============================================================================
