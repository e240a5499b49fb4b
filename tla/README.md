# A TLA+ model of libasdf

libasdf reads and writes ASDF files: a few comment lines, a YAML tree, a
sequence of binary blocks and an optional block index. This directory models
the parts of the library that keep state and can get it wrong: how blocks are
decompressed while threads read them, how a stream is buffered, how a file is
parsed, who owns the memory behind a block, how a file is written, what a
scalar of the tree is converted to, how a tree is searched, who frees its nodes
when containers are changed, how a path is parsed, what becomes of an array
that is read, copied and written, and how tiles of an array are read.

TLC checks the models on small instances; TLAPS proves the main results of
eight of them for every instance. Source paths are relative to the repository.

    tlc -workers 2 -config MCLazyDecomp.cfg MCLazyDecomp
    tlapm LazyDecomp_proofs.tla

`PROJECT.json` lists components, runs, mutants (a changed definition that makes
a property fail), hazards, findings and theorems, and maps each definition to
the lines it models.

## 1. Inventory

| Component | State | Operations | Interacts with |
|---|---|---|---|
| Decompression (`src/compression/*`) | mapping, work buffer, progress, status, stop flag, eventfd, a thread per lazy block | open (eager, lazy), page-fault handler, close; zlib, bzip2 and LZ4 callbacks | readers through page faults; block store; kernel |
| userfaultfd probe (`compression.c`) | three process-wide atomics | probe, open | every thread that opens a compressed block |
| File stream (`src/stream.c`) | `FILE` offset, buffer with position and fill, `file_pos`, capture buffer | next, consume, readline, scan, seek, tell, capture, skip without seeking | parser, libfyaml, blocks |
| Memory stream (`src/stream.c`) | pointer, size, position | the same, and growing writes | writer, `asdf_open_mem` |
| Parser (`src/parser.c`) | state, tree and block positions, block index vector, error | `asdf_parser_parse`: one event per call | stream, libfyaml, file |
| Blocks (`src/block.c`) | `file->blocks`, client handles, cached mappings, decompression state, buffers | create, set or allocate data, compression, append, open, read, close | parser (finds them), emitter (writes them), decompression |
| Emitter (`src/emitter.c`) | state, output position | version lines, tree, blocks, index | stream, blocks |
| File (`src/file.c`) | tree, parser, emitter, stream | open, three write functions, close | all of the above |
| Scalar values (`src/value.c`, `src/yaml.c`) | wrappers of a node with cached type, error and number | create, infer, `is_<type>`, `as_<type>`, copy, insert | file, schemas |
| Search (`src/value.c`) | frames, container iterators, wrappers they own or borrow | init, next, destroy, find | values |
| Containers (`src/value.c`) | libfyaml nodes, in the document, in a loose container or detached; handles on them, uncounted | create, get, copy, parent, set, append, pop, update, style, destroy | file, schemas, ndarray |
| Paths (`src/yaml.c`) | none | parse a string into components | getters and setters of the file |
| ndarray object (`src/core/ndarray.c`) | shape, type, offset; a block (detached or a view) or inline data, found when first asked for | get, data, fill, storage, copy, set, dealloc, destroy | blocks, containers, file |
| ndarray tiles (`src/core/ndarray*.c`) | odometer; table of conversions | read tiles, convert | blocks |
| Schemas, time, tags, versions | none or little | parsing and serialization | values |
| Context, errors, log, extension and compressor registries | reference counts, process-wide tables | create, retain, release, look up | everything |

**What is hard.** The page-fault handler runs beside any number of readers and
a closing owner. The probe is lock free. A stream's buffer, its position and
the scan window are kept by hand and must agree for every order of calls; a
token may lie across a boundary. The parser may take block positions from an
index it cannot trust. A block's buffer changes owner on append while the
handle lives on, and reading caches a mapping. A write happens in steps that
can fail, into a buffer sized before the blocks are known. Handles on nodes are
not counted: who frees a node depends on where it is at that moment. The data of
an array is found late, and goes over to the file, is freed or stays when the
array is written, depending on how the array came by it.

**What correctness means.**

- decompression: a reader gets the data or an error is recorded; no page is
  filled twice; every blocked reader is released; close comes to an end;
- probe: nobody uses flags that are not published, all threads agree;
- stream: the buffer is a window of the file, the position told is the real
  one, a scan finds the first token, captured bytes are those passed over;
- parser: events in the order of the format, blocks of the file reported once
  each, recorded index equal to the blocks found, the parser ends;
- blocks: each buffer has one owner until it is freed, a read returns what was
  set or what is in the input;
- emitter: all blocks are in the output, headers lead to each other, the index
  is right, nothing is written behind a buffer's end;
- scalars: a conversion succeeds exactly if the number fits and then gives that
  number, whatever was asked of the wrapper before;
- search: the matching nodes in order, no wrapper used after it is freed;
- containers: each node has one place or one handle that frees it, and an update
  keeps the order and gives the values it promises;
- paths: exactly the well-formed strings are accepted, none is read past its end;
- ndarray, the object: each buffer has one owner, and a client that follows the
  rules sees a plain value that is set, copied and read back;
- ndarray, tiles: a tile holds the elements asked for, each converted to the nearest
  number of the datatype, and an overflow is reported.

The hazards in `PROJECT.json` give the line where each of these could go wrong.

## 2. Modules

| Module | Models | State and actions |
|---|---|---|
| `LazyDecomp` | `compression/compression.c`, `zlib.c`, `bzp2.c`, `lz4.c` | The mapping as pages `missing`/`data`/`zeros`. The owner opens (`OpenEager`, `OpenLazy`, failures) and closes in three steps (stop flag, eventfd, join). The handler is a loop of `HandlerCheck`, the outcomes of poll, `WakeFilled` or `DecompChunk` and `CopyChunk`, up to `HandlerExit`. Readers `Touch` a page and `Access` it once it is there. Codecs differ in how they report the end, a short and a corrupt stream. |
| `UffdProbe` | the probe in `compression.c` | One action per atomic load or store, per thread. |
| `FileStream` | `file_*` in `stream.c` | `buf`, `pos`, `avail`, `size`, `fp` as in the code, contents of the buffer as file offsets. `Next_`, `Consume`, `Readline`, seeks, a scan as a loop of steps, skipping as a loop of steps, capture. |
| `Parser` | `parser.c`, `block_read_info` and the block index of `block.c` | A file is a sequence of items (version lines, comments, tree text, markers, blocks, padding, index). One action per outcome of a parser state. Of the stream below it keeps `used` (the buffer may hold bytes already passed) and `lost` (`asdf_stream_tell` is wrong, after `stream.c:296` or a long comment), and lets the buffer of a file or pipe end inside a marker (`MayCut`); `misled` records that the parser has gone by a wrong position, `HANG` that a loop finds the same place for ever. |
| `BlockStore` | the functions of `block.c` on handles, with `asdf_close` and `asdf_file_parser` | `blocks`, `handle`, `heap`; contents named by where they come from; `truth` records what a block is meant to hold. |
| `Emitter` | `emitter.c`, write functions of `file.c`, `mem_write`, `asdf_block_write` | Extends `BlockStore`: the client acts between writes, one action per emitter state or block; the output is a sequence of units. |
| `ScalarValue` | the scalar part of `value.c`, recognisers of `yaml.c` | A node (style, tag, what its text denotes, and for a number how it is spelled: one digit, decimal, or hexadecimal, octal and base 60) and its wrappers. Accessors are operators that return the changed wrapper and the answer; actions call them in any order, copy, insert and destroy. |
| `FindIter` | the find iterator of `value.c` and the container iterators below it | `frames`, `heap` of wrappers, the value in the caller's hands. One action per outcome of a step, early end, `asdf_value_find_ex`. |
| `NdarrayTile` | `asdf_ndarray_read_*` of `ndarray.c`, `ndarray_convert.c` | A request is checked, with sums and products modulo 2^`W64` as in the code, then copied at once (one row) or row by row with `odometer` and `src`; every entry remembers the element it came from. A copy that leaves the data or the buffer ends in `UNDEFINED`. |
| `Containers` | mappings, sequences and handles of `value.c` | `node` (what libfyaml has), `value` (the client's handles). One action per function; scalars and copies are new nodes, `wild` records the use of a freed one. |
| `YamlPath` | `asdf_yaml_path_parse` of `yaml.c` | The string, the pointer `p`, the components so far; one action per iteration. |
| `InlineArray` | the walks over nested sequences in `ndarray.c` | Operators: shape and type inference, conversion to a buffer, writing as sequences. |
| `Ndarray` | the ndarray functions of `ndarray.c`, with `asdf_set_ndarray` and `asdf_close` as far as they concern it | `nd` (objects), `tree` (entries at paths), `blocks`, `mem` (buffers). One action per function; `Serialize` and `CopyOf` follow the code's branches, failures half-way included. |
| `Arrays` | the abstract specification of an ndarray | An object and a path have a value or none; get, set and copy move values, fill and alloc give an object one. `Ndarray` implements it (property `Implements`). |
| `CInts` | (C) | Sized integer types, with widths as constants. |
| `Minimum` | (mathematics) | Every nonempty set of naturals has a least element; used by the proofs about scans, paths, sums and trees. |
| `*_proofs` | | Theorems. |
| `MC*` | | Instances for TLC. |

**Data left out.** Bytes of payloads, YAML contents (a tree has a length, is
well-formed or not), checksums, log text, failing allocations in the block
store. A block header is two units and stored data one, a page is the unit of
decompression, a file position an item in `Parser` and a byte in `FileStream`.
`NdarrayTile` counts elements (so that it wraps where the code does for elements of
one byte; wider ones wrap earlier) and leaves out floating point types and byte order.
`Ndarray` leaves out byte order, strides and compression settings, and keeps of a
block whether it is detached and which buffer it has; `BlockStore` has the rest.
`Containers` has no tags and no extension values. The index that a component of
`YamlPath` spells is its key.

**External parts**, modelled from their use: the kernel's userfaultfd and
poll, zlib/bzip2/LZ4, libfyaml's reading of a document and its nodes, `fread` and
`fseeko`.

## 3. Runs

| Run | Shows |
|---|---|
| `lazy` | `NoCopyOverFilled`: `UFFDIO_COPY` never meets a filled page; `ReadsAreData`: what a reader sees is data, unless an error is recorded, the block is being closed, or the stream ends early or is cut off in a way the codec does not report (a corrupt one it reports); `FaultsResolved`: a reader blocked on a page is released; `CloseReturns`: close ends. |
| `uffd_probe` | `OpenSucceeds`: flags are used only once published and accepted; `SameAnswer`. |
| `stream` | `Window`: the buffer holds the file's bytes at the right offsets; `ScanFindsFirst`; `TellExact`; `CaptureExact`; `LoopsEnd`: scans and skips come to an end. |
| `parser` | On well-formed and on damaged files: `IndexRecordsBlocks`: the recorded index is the positions of the blocks found; `EventOrder` (an action property); `SoundBlocksFound`: exactly the file's blocks are found, if the index is right, absent, or found out and discarded (`IndexHarmless`) and the stream can do what the options need (`StreamSuffices`) and has not told a wrong position that the parser went by (`misled`); `SoundTreeEndIsPos`: the stream is behind the tree whatever libfyaml read ahead, if the tree's end can be known (`TreeEndKnown`), with the same exception; `SoundTerminates`: the sound files of the instance are parsed to their end, unless the buffer ends inside the directive or the end marker (`CutOff`), which it cannot do in memory. |
| `emitter` | `OneOwner`, `ReadsRight`, `OutputFits`, `BlocksWritten`, `HeadersChain`, `IndexRight`. |
| `scalar` | `AsIntRight`: `as_<int type>` gives OK exactly for a number that fits, and that number; `IsIntRight`: `is_<int type>` is true only of numbers `as_<int type>` accepts; `FirstAnswerRight`: the first answer about a node is the right type, overflow included. |
| `find` | `NoDangling`: nothing freed is used or freed again; `OrderRight`: the nodes reported are those of a reference definition, in its order; `FreedButRefused`: what stays allocated after a search; `CallReturns`. |
| `tile` | `OdometerRight`: at each row, pointer, odometer and entries written agree; `TileRight`: the elements, their conversions for all 64 pairs of integer types, what an overflow reported means, and who is left with the buffer; a request that goes past the bounds is refused and nothing outside the data is read, unless a 64-bit sum or product of the request or the array wraps around (`NoWrap`). |
| `path` | `InBounds`: the pointer stays in the string; `SplitRight`: a path is accepted just when it is a list of texts that spell components, and then has these components (paths with a backslash outside quotes excepted, see `EscapeOutside` below); `Ends`. |
| `ndarray` | `OneOwner`: every buffer is freed once, by the array or by the file; `InlineRight`: rectangular inline data is read with its shape, a type that holds it and every element in place, and nothing is written behind the buffer; `Implements`: the refinement of `Arrays`. |
| `containers` | `OneOwner`: every node has one place, or one handle that frees it, and no handle is on a freed node; `EmptyShown`: no empty container is written as a null; `UpdateRight`: what an update leaves in the mapping. |

`TypeOK` of a module describes its state; it is not listed in the runs, where the
properties above say more (in `LazyDecomp` it is proved as a part of `Inv`).

One run shows a disagreement between the code and what it says of itself:

| Run | Violated | What happens |
|---|---|---|
| `emitter_cut` | `NothingCut` | `asdf_write_to_mem` shrinks its buffer below what is written (`file.c:434`). |

These configurations show further ones in the same way, run by hand (with
`-continue` where one has several properties):

| Configuration | Violated | What happens |
|---|---|---|
| `MCLazyDecomp_4gib` | `ReadsAreData` | Eager zlib and bzip2 pass the destination size as 32 bits (`compression/zlib.c:127`, `compression/bzp2.c:145`): of 2^32 bytes or more only the remainder is filled, and success is returned. |
| `MCFileStream_overrun` | `LineInBuffer` | After a line as long as the buffer the next `file_readline` returns bytes behind its end (`stream.c:179`). |
| `MCParser_middle` | `BlocksFound` | A wrong entry in the middle of the index loses a block and reports its neighbour twice (`parser.c:1007`). |
| `MCParser_drift` | `BlocksFound` | Padding behind the tree that goes beyond the end of the buffer: `file_scan` counts the bytes before the position again (`stream.c:296`), the block is recorded at a wrong position, and the seek over it goes wrong, so the next one is lost. |
| `MCNdarrayTile_freed` | `OutOfBoundsRefused` | `origin + shape` wraps around in `check_bounds` (`ndarray.c:1848`), and so does the number of elements that the data must cover: a request outside the array is accepted. |
| | `OverflowReported` | The main loop keeps only the last row's overflow (`asdf_ndarray_read_tile_main_loop`). |
| | `DstNotFreed` | A tile of several rows whose last row overflows is returned in a buffer that was freed (`free(new_buf)` in `asdf_ndarray_read_tile_ndim`). |
| `MCParser_falseend` | `Terminates` | A tree line that begins with `...` and goes on is scanned for ever (`parser.c:324`). So is a true end marker or `%YAML` line of which the buffer holds only the beginning, because `asdf_stream_next` asked for 0 bytes does not read on (`parser.c:244`, `:311`): the same configuration with `Files <- MCThree`, a well-formed file. |
| `MCScalarValue_again` | `OverflowReported` | The second conversion of a number that overflowed no longer says so (`value.c:1760`). |
| `MCFindIter_leak` | `AllFreed` | A breadth-first search leaks its copy of a container it refuses to enter (`asdf_find_iter_next_bfs`). |
| `MCContainers_findings` | `CopyDetached` | `asdf_value_copy` of a value in the document is a second handle on the same node, not the deep copy that `include/asdf/value.h:206` promises. |
| | `StyleTaken` | The style that was set is not stored, so flow cannot be changed back to block (`value.c:430`). |
| `MCYamlPath_findings` | `EscapeRead` | The second of two backslashes is read as the start of another escape (`yaml.c:1045`). |
| | `LengthRight` | White space that was skipped is not counted, so the next component starts too early (`yaml.c:1069`). |
| | `EscapeOutside` | Outside quotes a backslash escapes nothing: `\[` is an invalid path and `a\/b` two components (`yaml.c:1021`), where `docs/usage/values.rst:120-122` says that these characters must be escaped there. |
| `MCNdarray_findings` | `CopyIndependent` | The copy of an inline array refers to the node of the source (`asdf_ndarray_copy_impl`). |
| | `NoJagged` | Jagged inline data is accepted (`ndarray.c:390`). |
| | `NoWildRead` | Inline data that cannot be converted is written from a NULL pointer (`asdf_ndarray_serialize_inline_data`). |
| | `OffsetApplied` | The offset of an array is not applied (`asdf_ndarray_data_impl`). |
| `MCNdarray_view` | `OneOwner` | `asdf_ndarray_data_alloc` on an array read from a block allocates into a view: nobody frees the buffer (`ndarray.c:1657`, `block.c:510`). `Implements` fails as well: what is filled in is hidden by the cached mapping (`block.c:691`), and a set writes the old block. |

### Bounds, and why they are enough

- `LazyDecomp`: 2 readers, 3 pages, chunks of 2 pages. Two readers are what it
  takes to fault in the same chunk; 3 pages are two chunks, the last not whole
  (the invariants are proved for any number). Streams end at the mapping's end or two
  pages before it, cleanly, cut off or corrupt. Five configurations: lazy, and
  every reason for falling back to eager. `UIntPages` stands for 2^32 bytes: 8
  (more than any size here), and 4 with 5 pages in `MCLazyDecomp_4gib`.
- `UffdProbe`: 3 threads (symmetric), every kernel.
- `FileStream`: 5 bytes, a buffer of 2 (it must grow once), requests of up to
  3, tokens of 1 and 2 bytes inside, across and cut off at a boundary, a line
  longer than the buffer; seekable or not.
- `Parser`: all combinations of preamble, tree, blocks and index of the
  operators in `MCParser`; at most 2 YAML events; an index vector of 2 entries,
  so that it is resized; all streams and options. Wherever the buffer of a file
  or pipe can have ended inside a line, or a scan can have slid it, both outcomes
  are taken, so no buffer size has to be chosen. `CHECK_DEADLOCK FALSE` in
  `parser` because the code aborts in one state (`ABORT`) and loops in others (`HANG`).
  `MCParser_middle` reads from memory, so that nothing else can go wrong.
- `Emitter`: one handle (reused), two library buffers and one of the caller's,
  two blocks, two writes, five inputs (new; existing with and without a tree,
  read-only or not, one and two blocks). A page of 2 units and a tree of 3
  make memory outputs grow. A fixed buffer of 9 units is exceeded by some
  outputs.
- `ScalarValue`: integer types of 2, 3, 4 and 5 bits, so that the conversions
  between all of them meet every bound; every integer of up to one bit more;
  every spelling of a number, every other text and every tag; two wrappers, one for
  a copy.
- `FindIter`: all trees of up to 4 nodes and one of 7 with two levels of
  containers; depth limits none, 0 and 1; predicates that match all, one and
  every other node.
- `NdarrayTile`: arrays of 0 to 3 dimensions, empty, short of data, without a
  conversion; origins and extents 0 to 3, so that every request inside and just
  outside occurs, and origin 2^`W64` - 1, from which every extent but 0 wraps; arrays
  whose number of elements, or that of a dimension below them, wraps to 0 or to less
  than the data; integer types of 2 to 5 bits, one array per type with all its
  values. `MCNdarrayTile_freed` has a few of these arrays.
- `YamlPath`: all strings of up to 4 of 9 characters (one of each class the code
  tells apart; two digits for ten) and up to three of 14 component texts with a
  `/` between them, so that quotes, brackets and escapes stand beside separators.
- `Ndarray`: an input with an array in a block and one in the tree, an output,
  two array objects, three buffers, up to 6 calls (each buffer can change hands
  and its array be written, copied or destroyed again); a buffer that is allocated is
  filled at once or left as it is. 188 documents of inline
  data: all pairs of 13 elements around the bounds of the types, nested, jagged,
  mixed and empty rows. Integer types of 3 to 6 bits.
- `Containers`: three handles (symmetric), seven nodes, two keys, two scalars,
  five calls, from an empty document, one with an empty sequence and one with a
  mapping in a mapping. Three handles are what it takes to have two on one node
  and one on its container.

`CHECK_DEADLOCK FALSE` in the last six because a client may stop (a parsed path
has nothing more to do).

### Fairness

- `LazyDecomp`: weak fairness of the handler, of an owner that has begun to
  close, and of a reader whose page is there: the kernel's scheduler and the
  library's own threads. Nobody has to open, touch or close. Interrupted and
  failing polls are not fair.
- `FileStream`: weak fairness of the loops inside a call, which nothing stops.
- `FindIter`: weak fairness of the steps inside a call.
- `YamlPath`: weak fairness of the loop, one call.
- `Parser`: weak fairness of `Next`: a client calls `asdf_parser_parse` until
  it is done.

### What the passing runs leave out

Each of these is modelled and switched off by a constant or excluded in the
property, because the property fails with it:

- `Rebuild`: data set through a handle that was appended or opened. It changes
  only the handle's copy of the block; a buffer allocated this way is freed by
  nobody (`OneOwner` fails), and a mapping read before is returned again
  (`ReadsRight` fails).
- `Reuse`: using the input's data of a block after a write. The write stores
  the output's positions in the block (`block.c:263`), so a later read or a
  second write of an input block looks at the wrong place (`ReadsRight`,
  `BlocksWritten` fail).
- `Packings` with `FALSE`: already-compressed data without a compression name,
  then a compressor: `block.c:249` dereferences a state that was never opened
  (the emitter ends in `CRASH`).
- `RefillEmpty`: the refill of `MCFileStream_overrun`.
- `SetupFaults` with `"thread"`: `pthread_create` fails, which
  `compression.c:753` ignores: readers and the closing owner wait for ever.
- Input with blocks but no tree that nobody has parsed: nothing is written
  (`BlocksWritten` says so).
- A buffer that was cut (`emitter_cut`): the later properties of that output
  are not claimed.
- A zlib or bzip2 stream that ends early or is cut off, which the library does not
  report, leaves zeros (`ReadsAreData` names it, `ShortUnnoticed`). A corrupt one is
  an error, which open returns without recording it on the file if it decompresses
  eagerly (`compression.c:992`).
- A position that the stream has told wrong and the parser has gone by (`misled`),
  and a marker that the buffer cuts in two (`CutOff`): `MCParser_drift` and
  `MCParser_falseend` show what happens then.
- A request or an array whose sizes wrap around in 64 bits (`TileRight`, `NoWrap`):
  `MCNdarrayTile_freed`.
- A path with a backslash outside quotes (`SplitRight`): `MCYamlPath_findings`.
- A document with an alias to a container that the alias is in. `asdf_value_create_ex`
  resolves aliases at once (`value.c:69-90`), so if libfyaml resolves this one a search
  goes down without end; `TreesAssumption` of `FindIter` excludes it, and `CallReturns`
  is about the other documents.

### Rules for clients

`Containers` and `Ndarray` have a constant `Liberties`: what a client does
although a property fails with it. In the passing runs it is empty, so that the
elements are the rules that the API asks for, most of them nowhere written down.

| `Containers` | Without the rule |
|---|---|
| `pop held` | A popped node that another handle is on has two owners. |
| `parent loose` | So has the parent of a value in a container that is not in the document. |
| `replace held`, `destroy held` | A handle is left on a node that was freed with what it was in. |
| `pop last` | A container of the document that is emptied is read back as null. |
| `style attached`, `style held` | The handle goes over to a detached copy, and the root is freed; other handles are left on freed nodes. |
| `style copy` | In a copy the style is not initialized (`malloc` in `asdf_value_copy_impl` and `asdf_value_copy_shallow`): any outcome. |
| `update within` | A mapping updated with one inside it uses values it has just replaced. |
| `give attached` | A value that is in the document or in a container already is put into another one: its node is in two places, or libfyaml refuses it. |
| `no memory` | A set or append that fails uses the handle up and loses the node; `asdf_ndarray_serialize` then destroys it again. |

| `Ndarray` | Without the rule |
|---|---|
| `set unread` | An array in a block whose data nobody asked for is written as an empty array (`has_data`). |
| `set foreign` | An array of another file's block is written with that file's block index. |
| `set unreadable` | See `MCNdarray_findings`, `NoWildRead`. |
| `fill view` | See `MCNdarray_view`. |
| `replace` | A path is set from which an inline array in use was read: its node is freed. |
| `copy changed` | The copy of an inline array that was filled anew has the old data. |
| `copy dataless` | The copy of an array without data reads block `source` of the file it is for. |
| `copy outlives` | See `MCNdarray_findings`, `CopyIndependent`. |

### Other disagreements met while modelling

No run is about these:

- `docs/usage/compression.rst` describes a memory threshold for disk-backed
  data, eager mode for `AUTO` and one page as the default chunk; see
  `compression.c:877-911` and `:665` (1024 pages).
- When setting up lazy mode fails before the thread exists, the failure path
  joins a thread that was never created (`compression.c:697`, comment at 768);
  the model records it in `stray`.
- `file_readline` does not count the rest of a long line that it skips, and
  cuts short lines at the end of the buffer; comments at `stream.c:111-114` and
  `:310` do not describe the guard at 118 and the slide at 296.
- A gap at the end or the beginning of the index loses blocks as well
  (`MCGap`, `MCShort`, `MCFirst`, `MCNegative` in `MCParser`); an invalid
  directive behind padding is scanned for ever (`MCBadStart`); a tree that the
  file's end closes leaves the stream elsewhere (`MCOpenEnd`).
- A corrupt index produces an event of type `NONE` (`parser.c:882`).
- `asdf_block_compression_set` with `""` is an error although documented.
- `asdf_value_is_uint8` is true of every unsigned number (`value.c:2313`; `IsIntRight`
  leaves it out), `asdf_value_is_uint32` compares an `INT64` with `UINT16_MAX`, the
  narrow signed tests read `scalar.u` of negative numbers, and `asdf_value_as_bool`
  accepts any `UINT8` although its comment says 0 and 1.
- A container that `descend_pred` or `max_depth` refuses is not shown to the
  search predicate either, and an alias that does not resolve ends the iteration
  of its container silently.
- `include/asdf/core/ndarray.h:486` says that without a conversion the data of a
  tile is copied, where the code returns an error.
- `asdf_set_ndarray` a second time writes an empty array, because the first call
  took the data, where `ndarray.c:1369-1372` says that "the same ndarray
  serialized more than once" has its index reused; on a file open for reading the
  call fails but the data of an array to be written inline is gone.
- Text between a `]` and the next `/` of a path is skipped silently.
- `mem_readline` without a final newline consumes one byte too many.

## 4. Proofs

Every theorem is for all values of the constants that satisfy the modules'
assumptions.

**`LazyDecomp_proofs`** assumes `Fits` (sizes below 2^32 bytes; `MCLazyDecomp_4gib` shows
that it is needed). `Invariance`: `Spec => []Inv`, where `Inv` is the conjunction of

- `TypeOK`;
- `Lifecycle`: which phases of owner and handler go together; without it a
  handler that runs after close could not be excluded;
- `FilledPrefix`: the pages filled are those below `progress`, less the chunk
  in the work buffer, which is why the handler, which only compares a fault
  with its progress, never copies twice;
- `DoneIsComplete`: status `DONE` means that the whole mapping was produced or
  that the stream fell short unnoticed;
- `Contents`: a page of zeros, or one still missing when the handler has left,
  has one of the excuses of `ReadsAreData`;
- `ReadsAreData`.

`CopyNeverCollides` and `ReadersGetData` follow.

The same module proves the probe of `UffdProbe` right, for any number of threads and
every kernel. `ProbeInv` ties what each thread knows to the three atomics: behind its
store of the flags, they are final. `ProbeFinal` is its invariance; `FlagsPublished`
and `AnswersAgree` follow.

**`Parser_proofs`**, for any file, stream and options. `EventsInOrder`: the event
property is about two successive events, and follows from an invariant that
says which last event each parser state allows. `IndexCorrect`: the recorded
index follows from an invariant about the vector's size and types and the
blocks found so far, through resizing and discarding. `TreeEndReached`: `TreeInv` says that
once the end of the tree is recorded the stream is at it (`AtTreeEnd`), also after
libfyaml has read ahead and been set back, unless the parser was misled by then, and that a tree that the parser has to search itself has an
end marker or a block ahead. Its hypothesis `TreeEndKnown` is about the file and the
options only: YAML events on a stream that can seek, or no events and a tree that a
marker or a block closes (`MCOpenEnd` of section 3 is the other case). The cases of a
document without an end mark, of a position told wrong and of a marker that the buffer
ends in are part of the steps proved (`YamlEndTyped`, `DocumentEnd`, `TreeFastEnd`).
`BlocksAreFound`: every block of a well-formed file is reported and listed once, in
order, under `StreamSuffices` and `IndexHarmless`, which again are about the file and the
options, and as long as `misled` is false; section 3 names configurations that violate
`BlocksFound` without the second and the third. That a position is wrong only behind a
scan or a comment that may have lost it, and right again behind a seek, is in the
actions, not assumed. `misled` never becomes false again, so a step is only looked at
when it was and stays false (`SoundBefore`). `SearchInv`
says, for each state, that no block has been passed by unreported: before the blocks
there is none before the stream's position (`Untouched`); among them those reported are
the ones before it (`Passed`); and the infos are the blocks reported or, with an index in
use, agree with the index as far as the blocks go, which has the file's blocks
(`Listed`). The scan and the index then lead to the same next block (`ScanNext`,
`IndexNext`), and neither finds one just when none is left (`NoneAhead`).

**`YamlPath_proofs`**, for any set of strings. Each kind of component is shown to
end inside the string or at its end (`AnyStays`, `MapStays`, `SeqStays`), so the
pointer does (`PointerStays`), and each moves it on (`PointerAdvances`), which is
why the loop ends.

**`FileStream_proofs`**, for any file, buffer size, tokens and order of calls, without
the refill of `MCFileStream_overrun` (`~RefillEmpty`): with it a line is longer than
the buffer and none of the invariants survives. `Inv` is the conjunction of

- `TypeOK` and a buffer that never shrinks;
- `Kept`: `Window`, `TellExact` and `CaptureExact` together, because a refill or a
  slide keeps each of them only if the buffer and the position agreed before;
- `ScanUnderWay`: in the middle of a scan, every occurrence at or after the scan's
  start is at or after the window's position, and the window has not been slid since
  the start or still holds as many bytes as the longest token needs; this is the strengthening that `ScanFindsFirst` rests on;
- `ScanFindsFirst`.

`WindowRight`, `ScanRight`, `TellRight` and `CaptureRight` follow.

**`Emitter_proofs`**, for any inputs, handles, buffers, page sizes and numbers of blocks
and writes. Four invariants, each on top of those before:

- `StoreAndOutput`: types, `ViewsPlaced` (a view is of a block of the file),
  `OutputFits`, and without `Rebuild` `Ownership`: every owned buffer is allocated,
  no two infos own the same one, every allocated one is owned, and a view has the
  data of its block. `OneOwner` alone says nothing of what a view holds when its
  block gives up the buffer. That the estimated size of the output is a number
  needs the existence of a recursive sum, shown by a least counterexample
  (`SumExists`). `TypeCorrect`, `OutputWithinBuffer` and `BuffersOwnedOnce` follow;
- `ReadInv`: what a block or a handle refers to is what `truth` records, cached
  mappings included. `ReadsGiveTheBlock` follows without `Rebuild` and `Reuse`;
  section 3 says what these two do and why the property fails with them;
- `LayoutInv`: how far the headers written so far chain and that they are those of
  the blocks before `next`, so that the index written from the blocks' positions
  lists them. `BlocksChain` and `IndexListsHeaders` follow, for every client.
- `DataInv`, on `ReadInv`: the data units of the output are those of the first blocks,
  each at the position its info has, and the positions of the blocks still to be written
  are those of the input. The order is a bijection between blocks and data units,
  so no sequence has to be filtered. `BlocksAreWritten` follows, without `Rebuild` and
  `Reuse`.

They use `StoreAssumption` of `BlockStore`: a pointer is no block position, two blocks
of an input do not start at the same place (each has a header of its own, which the
parser moves past), and the bound on blocks leaves room for the input's.

**`ScalarValue_proofs`**, for any widths, numbers and nodes. `res` is the last call's
result, so the properties are about a wrapper in whatever state earlier calls have left
it. The invariant is that every wrapper agrees with its node: a wrapper that was never
asked has no error; one of an integer type holds the node's number as its 64 bits,
signed or unsigned as the type says, and the type is the least that holds it; one of
another type has a node that no integer type fits. A power of two is
counted as a number of subsets, so that what the proof needs of the bounds (they
grow with the width) comes from the library's facts about cardinalities. `AsIntIsRight`, `IsIntIsRight`
and `FirstAnswerIsRight` follow; `ScalarTypes` is the type invariant.

**`FindIter_proofs`**, for any document, options and predicate. `TreesAssumption` says
that a document is a tree with numbered nodes: documents with an alias to a node shown
elsewhere in them are outside (section 3 says what such a search does). The paths of the reference are recursive: that they
exist, tell nodes apart and extend the parent's is shown first (`PathFacts`,
`PathInjective`, `AboveChild`). `Inv` is the conjunction of

- `FramesOK`: each frame is about a container that the search enters, at its depth,
  and its iterator's wrapper is the child it is at. Depth first the frames form a
  `Stack` in which each borrows the wrapper of the one above, so only the last one
  may be advanced or popped. Breadth first they form a `Queue` of at most two levels
  in which no container is twice: a queued child of a queued container has been
  passed by its iterator;
- `Heaped`: what frames use is allocated, and what is allocated is the caller's,
  owned by a frame, or the copy of a refused container;
- the value in the caller's hands is allocated, and there is none inside a call.

`SearchInvariant` is its invariance; `NothingDangles`, `FreedAtEnd`,
`DepthFirstFreesAll` and `TypeCorrect` follow.

`ReportedInOrder` (`OrderRight`) needs `OrderInv` on top. A frame has a `Cursor`, a
place in the order of paths: its container's own path before that is visited, then
the path of the child its iterator comes to next. What the search has `Passed` is
what is before the cursor of the top frame. `OrderInv` says that the nodes reported
are exactly those that the reference reports among the ones passed (`FoundAmong`),
in its order (`Sorted`) and with none left out (`Gapless`), and where the frames are
(`Placed`): their containers are open, what their iterators have passed could be
read, and breadth first the queue holds, in order, every open container passed
since the head. Every step passes at most one node that the reference can report,
the one it yields: what else it passes, the children behind an alias that does not
resolve and what is below a container refused, is never met. That a level of the
queue is finished before the next begins, and that a popped frame leaves nothing
behind, are the two places where the order of the frames is needed. The reference
orders its nodes by how many are earlier, so that no sequence has to be sorted:
the i-th node reported has i - 1 earlier ones (`FoundPrefix`).

Each invariant was also checked by TLC on the instances of section 3 or smaller ones.

**Only model-checked:**

- liveness (`FaultsResolved`, `CloseReturns`, `LoopsEnd`, `SoundTerminates`,
  `CallReturns`, `Ends`), which TLAPS does not do;
- what a recursively defined function or a sequence operator of the library
  computes for every input, which needs an induction over data that the installed
  provers cannot instantiate: `OdometerRight` and `TileRight` of `NdarrayTile`
  (products and sums over the dimensions), `InlineRight`;
- `Containers`, `Ndarray` and its refinement of `Arrays`, whose modules use
  recursive operators;
- `SplitRight` of `YamlPath`.

## 5. Not modelled

Schemas, time, context, error and log, extension and compressor registries, tags
and versions, the parsing of datatypes: planned, see below. Setting a value at a
path (`asdf_node_insert_at`) is left out because what it does depends on how
libfyaml inserts, copies and refuses nodes, which the code in the repository does
not show.
The command line tool only prints; the portability layer has no state. In the
modelled components: checksums, compress callbacks (opaque in `Emitter`), what
goes into the tree, payload and allocation of parser events, the read side of
memory streams.

## 6. Plan

1. Done: `LazyDecomp`, `UffdProbe`, `FileStream`, `Parser`, `BlockStore`,
   `Emitter`, `ScalarValue`, `FindIter`, `NdarrayTile`, `YamlPath`, `Containers`, `InlineArray`,
   `Ndarray` and the refinement of `Arrays`, with their runs; proofs for the
   first seven, for `FindIter` and for `YamlPath`.
2. Next, in this order:
   - more abstract specifications: a byte stream with a position, implemented by
     `FileStream`; block data that is there or not, implemented by
     `LazyDecomp`; a file as a list of blocks, implemented by `Emitter`;
   - the read side of memory streams; byte order of arrays;
   - context reference counts and lazily built tables (conversion table,
     registries) with threads;
   - calendar functions of `time`, tags and versions as pure functions;
   - checksums of blocks.
3. Proofs: `OneOwner` of `Ndarray`, once its operators on inline data are functions.
