------------------------------- MODULE Parser -------------------------------
(***************************************************************************)
(* The event parser: asdf_parser_parse and the handlers of its states in   *)
(* src/src/parser.c, with asdf_block_info_read of src/src/block.c.         *)
(*                                                                         *)
(* A file is a sequence of items, each the bytes from one place the parser *)
(* stops at to the next: a header line, the directive that opens the tree, *)
(* tree text, a document end marker, a block with its data, padding, the   *)
(* block index.  The stream's position is the number of the next item.     *)
(* Stream calls are those FileStream describes, with what they lack: a     *)
(* file's or pipe's buffer may end inside a line the parser looks at, and  *)
(* the position it tells may be wrong.  Where it may, both happen here.    *)
(* libfyaml is external.                                                   *)
(***************************************************************************)
EXTENDS Integers, Sequences

CONSTANTS
    Files,      \* [items, index, yamlOK]: contents of the files parsed
    Setups,     \* [stream, opts]: "file" and "mem" seek, "pipe" does not;
                \* opts may hold "BUFFER_TREE" and "EMIT_YAML_EVENTS"
    MaxYaml,    \* bound: YAML events inside a document
    IndexSize   \* ASDF_DEFAULT_BLOCK_INDEX_SIZE

\* A directive, end marker, index header or block may turn out not to be one:
\* "%YAML " with no version, "..." or "#ASDF BLOCK INDEX" with something else
\* than a newline behind it, block magic with a bad header, a header whose
\* allocated size cannot be sought over.  The index's header is one in the last
\* two pages of the file, where it is looked for.
Readable == {"block", "streamed", "huge"}
Magic    == Readable \cup {"badblock"}
Kinds    == Magic \cup {"asdf", "std", "comment", "blank", "directive",
                        "baddirective", "text", "docend", "falseend", "pad",
                        "index", "falseindex"}

\* Entries of a block index are item numbers, or one of these.
Negative == -1
NotInt   == -2

\* A position that was told wrong: that of no item.
Astray == -3

ASSUME ParserAssumption ==
    /\ \A f \in Files : /\ f.items \in Seq(Kinds)
                        /\ f.index \in Seq(Int) /\ f.indexOK \in BOOLEAN
                        /\ f.yamlOK \in BOOLEAN
    /\ Setups \subseteq [stream : {"file", "mem", "pipe"},
                          opts : SUBSET {"BUFFER_TREE", "EMIT_YAML_EVENTS"}]
    /\ MaxYaml \in Nat /\ IndexSize \in Nat \ {0}

VARIABLES
    file, stream, opts,   \* what is parsed, and how: fixed
    state, pos,           \* parser->state; where the stream really stands
    used,                 \* the buffer may hold bytes before pos (buf_pos > 0)
    lost,                 \* asdf_stream_tell is wrong
    misled,               \* history: the parser has gone by a wrong position
    err, done,            \* an error is set on the context; parser->done
    tree,                 \* parser->tree
    yamls,                \* YAML events so far
    index, icap,          \* parser->block.index: entries and capacity
    hasIndex,             \* parser->block.has_index
    infos,                \* parser->block.infos: header positions, 0 if empty
    count, found,         \* parser->block.count, .found
    outside,              \* an element past a vector's size was accessed
    last,                 \* type of the last event
    blocks                \* header positions of the block events so far

fixed     == <<file, stream, opts>>
told      == <<used, lost, misled>>
treeVars  == <<tree, yamls>>
blockVars == <<index, icap, hasIndex, infos, count, found, outside, blocks>>
vars == <<file, stream, opts, state, pos, used, lost, misled, err, done, tree,
          yamls, index, icap, hasIndex, infos, count, found, outside, last,
          blocks>>

-----------------------------------------------------------------------------
(* The stream *)

EOF      == Len(file.items) + 1
Kind(p)  == IF p \in 1 .. EOF - 1 THEN file.items[p] ELSE "eof"
Seekable == stream # "pipe"

\* asdf_parser_scan_tokens from item p for an item of one of the kinds K: the
\* first one, EOF if there is none.
Hits(K, p)   == {q \in 1 .. EOF - 1 : q >= p /\ Kind(q) \in K}
ScanTo(K, p) == IF Hits(K, p) = {} THEN EOF
                ELSE CHOOSE q \in Hits(K, p) : \A r \in Hits(K, p) : q <= r

\* Whether the position told is wrong after a scan: file_scan, when it slides its
\* buffer, counts the bytes before the position again.
Scanned == IF stream # "mem" /\ used THEN {lost, TRUE} ELSE {lost}

\* asdf_stream_tell at item p, if it is wrong (l) or not.
Tell(p, l) == IF l THEN Astray ELSE p

\* asdf_stream_next(stream, 0) does not fill up the buffer while there is a byte
\* left in it, so it may end inside the line of item q the scan has stopped at.
MayCut(q) == stream # "mem" /\ (used \/ q # pos)

\* Mutant of SoughtTo: the stream stays where libfyaml's reading left it.
SoughtNowhere(p) == EOF

\* asdf_stream_seek(SEEK_SET) to item p.  A pipe only moves forward, by the
\* offset it is given.
SoughtTo(p) ==
    LET to == IF Seekable THEN p ELSE pos + (p - 1)
    IN  IF to > EOF THEN EOF ELSE to

\* A seek empties the buffer, and the position is known again; what a pipe skips
\* is read and consumed.
Sought ==
    /\ used' = (used /\ ~Seekable)
    /\ lost' = (lost /\ ~Seekable)

Buffering == "BUFFER_TREE" \in opts
Emitting  == "EMIT_YAML_EVENTS" \in opts

\* The parser looks for the item it stands at again and again: parser->state is
\* kept, but asdf_parser_parse does not return.
GoesRound(q) ==
    /\ pos' = q
    /\ state' = "HANG"
    /\ UNCHANGED <<fixed, told, err, done, treeVars, blockVars, last>>

\* A handler returns ASDF_PARSE_ERROR.
Fail ==
    /\ err' = TRUE
    /\ state' = "ERROR"
    /\ UNCHANGED <<fixed, done, treeVars, blockVars, last>>

-----------------------------------------------------------------------------
(* Header and comments *)

\* parse_version_comment for the state's line: readline, then compare.
ParseVersion(from, line, event, to) ==
    /\ state = from
    /\ pos' = IF pos < EOF THEN pos + 1 ELSE pos
    /\ used' = TRUE
    /\ UNCHANGED <<lost, misled>>
    /\ \/ /\ Kind(pos) = line
          /\ state' = to /\ last' = event
          /\ UNCHANGED <<fixed, err, done, treeVars, blockVars>>
       \/ Kind(pos) # line /\ Fail

ParseAsdfVersion ==
    ParseVersion("ASDF_VERSION", "asdf", "ASDF_VERSION", "STANDARD_VERSION")
ParseStandardVersion ==
    ParseVersion("STANDARD_VERSION", "std", "STANDARD_VERSION", "COMMENT")

\* parse_comment: a blank line is skipped, a comment is an event, anything
\* else (or the end of the file) goes on.  file_readline does not count the part
\* of a comment that is not in its buffer.
ParseComment ==
    /\ state = "COMMENT"
    /\ pos' = IF Kind(pos) \in {"blank", "comment"} THEN pos + 1 ELSE pos
    /\ state' = IF Kind(pos) \in {"blank", "comment"} THEN state ELSE "BLOCK_INDEX"
    /\ last' = IF Kind(pos) = "comment" THEN "COMMENT" ELSE last
    /\ lost' \in IF Kind(pos) = "comment" /\ stream # "mem" THEN {lost, TRUE} ELSE {lost}
    /\ UNCHANGED <<used, misled>>
    /\ UNCHANGED <<fixed, err, done, treeVars, blockVars>>

-----------------------------------------------------------------------------
(* Block index *)

\* asdf_block_info_read at item p, with e saying whether an error is set: it
\* looks at the context's error after consuming the magic.
Reads(p, e) == ~e /\ Kind(p) \in Readable

\* validate_block for the index entry p: does the seek fail, is the block
\* valid, and is an error set afterwards?
SeekFails(p)   == p < 0 /\ stream = "file"
Valid(p, e)    == Kind(p) \in Magic /\ Reads(p, e)
ErrAfter(p, e) == e \/ SeekFails(p) \/ (Kind(p) \in Magic /\ ~Reads(p, e))

\* Entries pushed before one that is not a number.
Pushed ==
    LET bad == {i \in DOMAIN file.index : file.index[i] = NotInt}
    IN  IF bad = {} THEN file.index
        ELSE SubSeq(file.index, 1, (CHOOSE i \in bad : \A j \in bad : i <= j) - 1)

Increasing(s) == \A i, j \in DOMAIN s : i < j => s[i] < s[j]

\* validate_block_index: order, first entry, last entry.
IndexValid ==
    LET s == file.index
    IN  IF s = <<>> THEN TRUE
        ELSE Increasing(s) /\ Valid(s[1], err) /\ Valid(s[Len(s)], err)

\* The error the validation leaves behind: the last entry is only looked at
\* if the first one is good.
ErrAfterIndex ==
    LET s == file.index
    IN  IF s = <<>> \/ ~Increasing(s) THEN err
        ELSE IF Valid(s[1], err) THEN ErrAfter(s[Len(s)], err)
        ELSE ErrAfter(s[1], err)

\* The header of the index parse_find_block_index finds, if there is one.
IndexMark == ScanTo({"index", "falseindex"}, 1)
HasIndex  == Seekable /\ Kind(IndexMark) = "index"

\* Where the stream is set back to behind the comments: if one of them was not
\* counted in full, to a place in them.
BehindComments ==
    {p \in 1 .. pos : \A q \in p .. pos - 1 : Kind(q) \in {"blank", "comment"}}
SetBack ==
    /\ state = "BLOCK_INDEX"
    /\ pos' \in IF lost /\ Seekable THEN BehindComments ELSE {pos}
    /\ Sought
    /\ UNCHANGED misled

\* parse_block_index when there is nothing to read an index from.
NoBlockIndex ==
    /\ SetBack
    /\ ~Seekable \/ IndexMark = EOF
    /\ state' = "TREE_OR_BLOCK"
    /\ UNCHANGED <<fixed, err, done, treeVars, blockVars, last>>

\* parse_find_block_index stops at what only begins like the header of an index,
\* and scans again from there.
FindFalseIndex ==
    /\ state = "BLOCK_INDEX"
    /\ Seekable /\ Kind(IndexMark) = "falseindex"
    /\ GoesRound(IndexMark)

\* The index is no YAML sequence, or one of its items is no number: the result
\* is still that of parse_find_block_index, so an event of no type is returned.
CorruptBlockIndex ==
    /\ SetBack
    /\ HasIndex
    /\ ~file.indexOK \/ Pushed # file.index
    /\ index' = IF file.indexOK THEN Pushed ELSE <<>>
    /\ icap' = IF file.indexOK THEN Len(file.index) ELSE 0
    /\ last' = "NONE"
    /\ state' = "TREE_OR_BLOCK"
    /\ UNCHANGED <<fixed, err, done, treeVars, hasIndex, infos, count, found,
                   outside, blocks>>

\* The index is read; if it is valid the first and last block are known.  The
\* entries of one that is not stay behind.
ParseBlockIndex ==
    /\ SetBack
    /\ HasIndex
    /\ file.indexOK /\ Pushed = file.index
    /\ index' = file.index /\ icap' = Len(file.index)
    /\ err' = ErrAfterIndex
    /\ \/ /\ IndexValid
          /\ hasIndex' = TRUE
          /\ infos' = [i \in DOMAIN file.index |->
                         IF i \in {1, Len(file.index)} THEN file.index[i] ELSE 0]
          /\ count' = Len(file.index)
          /\ last' = "BLOCK_INDEX"
       \/ /\ ~IndexValid
          /\ UNCHANGED <<hasIndex, infos, count, last>>
    /\ state' = "TREE_OR_BLOCK"
    /\ UNCHANGED <<fixed, done, treeVars, found, outside, blocks>>

-----------------------------------------------------------------------------
(* Tree *)

\* parse_tree_or_block: what the position, or the scan from it, shows first.
TreeOrBlock(q) ==
    /\ state = "TREE_OR_BLOCK"
    /\ pos' = q
    /\ used' = (used \/ q # pos)
    /\ lost' \in Scanned
    /\ UNCHANGED <<fixed, err, done, yamls, blockVars>>

NextPart == ScanTo({"directive", "baddirective"} \cup Magic, pos)

FindTree ==
    /\ Kind(NextPart) = "directive"
    /\ TreeOrBlock(NextPart)
    /\ tree' = [tree EXCEPT !.start = Tell(NextPart, lost'), !.has = 1]
    /\ misled' = (misled \/ lost')
    /\ state' = "TREE"
    /\ last' = "TREE_START"

FindBlock ==
    /\ Kind(NextPart) \in Magic
    /\ TreeOrBlock(NextPart)
    /\ tree' = [tree EXCEPT !.has = 0]
    /\ state' = "BLOCK"
    /\ UNCHANGED <<misled, last>>

\* Neither; the scan has used up the stream.
FindNothing ==
    /\ NextPart = EOF
    /\ TreeOrBlock(EOF)
    /\ state' = "END"
    /\ UNCHANGED <<misled, tree, last>>

\* The scan stops at a directive that is not valid, or is not there in full, and
\* starts again there.
FindBadDirective ==
    /\ state = "TREE_OR_BLOCK"
    /\ \/ Kind(NextPart) = "baddirective"
       \/ Kind(NextPart) = "directive" /\ MayCut(NextPart)
    /\ GoesRound(NextPart)

\* parse_tree buffers the tree if it is told to or has to.
FastTree == Buffering \/ ~Emitting \/ ~Seekable

TreeMark == ScanTo({"docend", "falseend"} \cup Magic, pos)

\* parse_tree_fast finds a line that only begins like a document end marker, or
\* is not there in full, and scans again from there.
TreeFalseEnd ==
    /\ state = "TREE"
    /\ FastTree
    /\ \/ Kind(TreeMark) = "falseend"
       \/ Kind(TreeMark) = "docend" /\ MayCut(TreeMark)
    /\ GoesRound(TreeMark)

\* The stream's position and tree.end after parse_tree_fast.
PosAfterTree == IF Kind(TreeMark) = "docend" THEN TreeMark + 1 ELSE TreeMark
TreeEnd(l)   == IF TreeMark = EOF THEN 0 ELSE Tell(PosAfterTree, l)

\* parse_tree with parse_tree_fast, without and with YAML events to follow.
\* Consuming the marker fails if an error was set before.  With the position, the
\* bytes captured for libfyaml are wrong as well.
ParseTreeFast ==
    /\ state = "TREE"
    /\ FastTree
    /\ Kind(TreeMark) # "falseend"
    /\ pos' = PosAfterTree
    /\ used' = TRUE
    /\ lost' \in Scanned
    /\ misled' = (misled \/ lost')
    /\ \/ /\ Kind(TreeMark) = "docend" /\ err
          /\ Fail
       \/ /\ ~(Kind(TreeMark) = "docend" /\ err)
          /\ tree' = [tree EXCEPT !.end = TreeEnd(lost'), !.found = ~Emitting]
          /\ state' = IF Emitting THEN "YAML" ELSE "PADDING"
          /\ last' = IF Emitting THEN last ELSE "TREE_END"
          /\ UNCHANGED <<fixed, err, done, yamls, blockVars>>

\* parse_tree hands the stream to libfyaml.
ParseTreeYaml ==
    /\ state = "TREE"
    /\ ~FastTree
    /\ state' = "YAML"
    /\ UNCHANGED <<fixed, told, pos, err, done, treeVars, blockVars, last>>

\* Where libfyaml ends the document (external): behind the marker.  The end of a
\* document without one has no mark, and the parser takes the start of the tree.
\* Block data is not valid YAML.
DocMark   == ScanTo({"docend"} \cup Magic, tree.start)
YamlEnd   == IF Kind(DocMark) = "docend" THEN DocMark + 1 ELSE tree.start
YamlFails == ~file.yamlOK \/ (Kind(DocMark) \in Magic /\ ~Buffering)

\* The assertion at the head of parse_yaml; the process ends if it fails.
YamlAllowed == Emitting /\ (Buffering \/ Seekable)

YamlAbort ==
    /\ state = "YAML"
    /\ ~YamlAllowed
    /\ state' = "ABORT"
    /\ UNCHANGED <<fixed, told, pos, err, done, treeVars, blockVars, last>>

\* parse_yaml returns an event of the document.
YamlEvent ==
    /\ state = "YAML" /\ YamlAllowed
    /\ ~tree.found
    /\ yamls < MaxYaml
    /\ yamls' = yamls + 1
    /\ last' = "YAML"
    /\ UNCHANGED <<fixed, told, state, pos, err, done, tree, blockVars>>

\* libfyaml reports an error before the document has ended.
YamlError ==
    /\ state = "YAML" /\ YamlAllowed
    /\ ~tree.found
    /\ YamlFails \/ lost
    /\ misled' = (misled \/ lost)
    /\ UNCHANGED <<pos, used, lost>>
    /\ Fail

\* The document ends: the end of the tree is known, and the stream is set
\* back to it.  With bytes before the tree captured, that is too far.
YamlDocumentEnd ==
    /\ state = "YAML" /\ YamlAllowed
    /\ ~tree.found
    /\ ~YamlFails
    /\ tree' = [tree EXCEPT !.end = Tell(YamlEnd, lost), !.found = TRUE]
    /\ pos' \in IF lost THEN pos .. EOF ELSE {SoughtTo(YamlEnd)}
    /\ Sought
    /\ misled' = (misled \/ lost)
    /\ last' = "YAML"
    /\ UNCHANGED <<fixed, state, err, done, yamls, blockVars>>

\* The YAML stream ends, or libfyaml fails on what follows the document.
YamlStreamEnd ==
    /\ state = "YAML" /\ YamlAllowed
    /\ tree.found /\ ~tree.done
    /\ tree' = [tree EXCEPT !.done = TRUE]
    /\ last' = "YAML"
    /\ UNCHANGED <<fixed, told, state, pos, err, done, yamls, blockVars>>

YamlTreeEnd ==
    /\ state = "YAML" /\ YamlAllowed
    /\ tree.done
    /\ state' = "PADDING"
    /\ last' = "TREE_END"
    /\ UNCHANGED <<fixed, told, pos, err, done, treeVars, blockVars>>

\* Mutant of ParsePadding: what follows the tree is looked at as at first.
ParsePaddingAgain ==
    /\ state = "PADDING"
    /\ state' = "TREE_OR_BLOCK"
    /\ UNCHANGED <<fixed, told, pos, err, done, treeVars, blockVars, last>>

ParsePadding ==
    /\ state = "PADDING"
    /\ state' = "BLOCK"
    /\ UNCHANGED <<fixed, told, pos, err, done, treeVars, blockVars, last>>

-----------------------------------------------------------------------------
(* Blocks *)

\* What looking for a block comes to: its header position (0: none), and the
\* position, error and infos it leaves.
Found(b, p, e, inf, out) == [at |-> b, pos |-> p, err |-> e, infos |-> inf, out |-> out]

\* Mutant of UseIndex: an index that was discarded is used all the same.
UseAnyIndex == found < Len(index)

UseIndex == hasIndex /\ found < Len(index)

\* block_from_index: the info that is already there, or validate_block.
BlockFromIndex ==
    LET i == found + 1
        p == index[i]
    IN  IF found < count
        THEN Found(infos[i], pos, err, infos, outside)
        ELSE LET out == outside \/ i > Len(infos)
                 to  == IF SeekFails(p) THEN pos
                        ELSE IF p < 0 \/ p > EOF THEN EOF ELSE p
             IN  IF Valid(p, err) /\ i <= Len(infos)
                 THEN Found(p, p, err, [infos EXCEPT ![i] = p], out)
                 ELSE Found(0, to, ErrAfter(p, err), infos, out)

\* parse_new_block: a block at the position, or the next one a scan finds.
NewBlock(a) ==
    LET here == Kind(a.pos) \in Magic
        q == IF here /\ Reads(a.pos, a.err) THEN a.pos
             ELSE ScanTo(Magic, IF here THEN a.pos + 1 ELSE a.pos)
        e == a.err \/ (here /\ q # a.pos)
    IN  IF q # EOF /\ Reads(q, e)
        THEN Found(q, q, e, Append(a.infos, q), a.out)
        ELSE Found(0, EOF, e \/ q # EOF, a.infos, a.out)

FindNextBlock ==
    LET a == IF UseIndex THEN BlockFromIndex ELSE Found(0, pos, err, infos, outside)
    IN  IF a.at # 0 THEN a ELSE NewBlock(a)

\* An entry that did not lead to a block is marked as invalid.
MarkedIndex ==
    IF UseIndex /\ BlockFromIndex.at = 0 THEN [index EXCEPT ![found + 1] = Negative]
    ELSE index

\* block_from_index has set the stream to a place.
IndexSeeks ==
    UseIndex /\ IF found < count THEN infos[found + 1] # 0 ELSE ~SeekFails(index[found + 1])

\* Whether the position is told wrong at the block that was found: a scan for it is
\* one from here, or from where the stream was set to.
Searched ==
    IF IndexSeeks THEN {FALSE}
    ELSE IF FindNextBlock.at = pos THEN {lost} ELSE Scanned

\* asdf_block_index_resize when the capacity does not suffice: it is doubled,
\* and so is the size.
Capacity == IF icap >= found + 1 THEN icap
            ELSE IF icap = 0 THEN IndexSize ELSE 2 * icap
Resized(s) == IF icap >= found + 1 THEN s
              ELSE [i \in 1 .. Capacity |-> IF i <= Len(s) THEN s[i] ELSE Negative]

\* parse_block finds none.
NoMoreBlocks ==
    /\ state = "BLOCK"
    /\ FindNextBlock.at = 0
    /\ pos' = FindNextBlock.pos /\ err' = FindNextBlock.err
    /\ used' = TRUE /\ lost' \in Searched
    /\ outside' = FindNextBlock.out
    /\ index' = MarkedIndex /\ icap' = Len(MarkedIndex)
    /\ state' = "END"
    /\ UNCHANGED <<fixed, misled, done, treeVars, hasIndex, infos, count, found, last,
                   blocks>>

\* The header position asdf_block_info_read is told at the block b, and where a
\* seek over the block leads: with a wrong position, too far.  A streamed block
\* lasts to the end of the file; "SEEK_END, 0" does not move a pipe.
InfosTold(b, l) == IF l THEN [b.infos EXCEPT ![Len(b.infos)] = Astray] ELSE b.infos
BlockEnds(b, l) ==
    IF ~Seekable THEN {b.at + 1}
    ELSE IF Kind(b.at) = "streamed" THEN {EOF}
    ELSE IF l THEN b.at + 1 .. EOF ELSE {b.at + 1}

\* Mutant of ParseBlock: the entry of a block is only written when it is new.
ParseBlockUnrecorded ==
    LET b == FindNextBlock
    IN  /\ state = "BLOCK"
        /\ b.at # 0
        /\ infos' = b.infos
        /\ found' = found + 1 /\ count' = found + 1
        /\ icap' = Capacity
        /\ index' = Resized(MarkedIndex)
        /\ outside' = b.out
        /\ pos' \in BlockEnds(b, FALSE)
        /\ err' = b.err
        /\ last' = "BLOCK" /\ blocks' = Append(blocks, b.at)
        /\ UNCHANGED <<fixed, told, done, state, treeVars, hasIndex>>

\* Mutant of ParseBlock: the block is neither counted nor skipped.
ParseBlockInPlace ==
    /\ state = "BLOCK"
    /\ FindNextBlock.at # 0
    /\ pos' = FindNextBlock.at
    /\ last' = "BLOCK"
    /\ UNCHANGED <<fixed, told, state, err, done, treeVars, blockVars>>

\* parse_block finds one, records its position in the index and moves on to
\* its end.
ParseBlock ==
    LET b == FindNextBlock
        s == Resized(MarkedIndex)
    IN  /\ state = "BLOCK"
        /\ b.at # 0
        /\ \E l \in Searched :
             /\ infos' = InfosTold(b, l)
             /\ index' = IF found < Len(s) THEN [s EXCEPT ![found + 1] = Tell(b.at, l)]
                         ELSE s
             /\ used' = ~Seekable /\ lost' = (l /\ ~Seekable)
             /\ misled' = (misled \/ l)
             /\ \/ /\ Kind(b.at) = "huge"
                   /\ pos' = b.at /\ err' = TRUE
                   /\ state' = "ERROR"
                   /\ UNCHANGED <<last, blocks>>
                \/ /\ Kind(b.at) # "huge"
                   /\ pos' \in BlockEnds(b, l)
                   /\ err' = b.err
                   /\ last' = "BLOCK" /\ blocks' = Append(blocks, Tell(b.at, l))
                   /\ UNCHANGED state
        /\ found' = found + 1 /\ count' = found + 1
        /\ icap' = Capacity
        /\ outside' = (b.out \/ found >= Len(s))
        /\ UNCHANGED <<fixed, done, treeVars, hasIndex>>

-----------------------------------------------------------------------------
(* The ends *)

ParseEnd ==
    /\ state = "END"
    /\ done' = TRUE
    /\ last' = IF done THEN last ELSE "END"
    /\ UNCHANGED <<fixed, told, state, pos, err, treeVars, blockVars>>

ParseError ==
    /\ state = "ERROR"
    /\ done' = TRUE
    /\ UNCHANGED <<fixed, told, state, pos, err, treeVars, blockVars, last>>

Init ==
    /\ file \in Files
    /\ \E s \in Setups : stream = s.stream /\ opts = s.opts
    /\ state = "ASDF_VERSION" /\ pos = 1
    /\ used = FALSE /\ lost = FALSE /\ misled = FALSE
    /\ err = FALSE /\ done = FALSE
    /\ tree = [start |-> 0, end |-> 0, found |-> FALSE, done |-> FALSE, has |-> -1]
    /\ yamls = 0
    /\ index = <<>> /\ icap = 0 /\ hasIndex = FALSE
    /\ infos = <<>> /\ count = 0 /\ found = 0 /\ outside = FALSE
    /\ last = "NONE" /\ blocks = <<>>

Next ==
    \/ ParseAsdfVersion \/ ParseStandardVersion \/ ParseComment
    \/ NoBlockIndex \/ FindFalseIndex \/ CorruptBlockIndex \/ ParseBlockIndex
    \/ FindTree \/ FindBlock \/ FindNothing \/ FindBadDirective
    \/ TreeFalseEnd \/ ParseTreeFast \/ ParseTreeYaml
    \/ YamlAbort \/ YamlEvent \/ YamlError \/ YamlDocumentEnd
    \/ YamlStreamEnd \/ YamlTreeEnd
    \/ ParsePadding \/ NoMoreBlocks \/ ParseBlock
    \/ ParseEnd \/ ParseError

Spec == Init /\ [][Next]_vars

\* The client calls asdf_parser_parse until the parser is done.
FairSpec == Spec /\ WF_vars(Next)

-----------------------------------------------------------------------------
(* Properties *)

\* Every variable has its type.
TypeOK ==
    /\ file \in Files
    /\ [stream |-> stream, opts |-> opts] \in Setups
    /\ state \in {"ASDF_VERSION", "STANDARD_VERSION", "COMMENT", "BLOCK_INDEX",
                  "TREE_OR_BLOCK", "TREE", "YAML", "PADDING", "BLOCK", "END",
                  "ERROR", "ABORT", "HANG"}
    /\ pos \in 1 .. EOF
    /\ used \in BOOLEAN /\ lost \in BOOLEAN /\ misled \in BOOLEAN
    /\ err \in BOOLEAN /\ done \in BOOLEAN
    /\ tree \in [start : {Astray} \cup 0 .. EOF, end : {Astray} \cup 0 .. EOF, found : BOOLEAN,
                 done : BOOLEAN, has : {-1, 0, 1}]
    /\ yamls \in 0 .. MaxYaml
    /\ index \in Seq(Int) /\ icap \in Nat /\ hasIndex \in BOOLEAN
    /\ infos \in Seq({Astray} \cup 0 .. EOF) /\ count \in Nat /\ found \in Nat
    /\ outside \in BOOLEAN
    /\ last \in {"NONE", "ASDF_VERSION", "STANDARD_VERSION", "COMMENT",
                 "BLOCK_INDEX", "TREE_START", "YAML", "TREE_END", "BLOCK", "END"}
    /\ blocks \in Seq({Astray} \cup 1 .. EOF)

\* Event b may follow event a; "NONE" is also that of a corrupt block index.
Preamble == {"STANDARD_VERSION", "COMMENT", "BLOCK_INDEX", "NONE"}
Follows(a, b) ==
    \/ a = "NONE" /\ b = "ASDF_VERSION"
    \/ a = "ASDF_VERSION" /\ b = "STANDARD_VERSION"
    \/ a = "STANDARD_VERSION" /\ b = "COMMENT"
    \/ a \in {"STANDARD_VERSION", "COMMENT"} /\ b \in {"BLOCK_INDEX", "NONE"}
    \/ a \in Preamble /\ b \in {"TREE_START", "BLOCK", "END"}
    \/ a = "TREE_START" /\ b \in {"YAML", "TREE_END"}
    \/ a = "YAML" /\ b = "TREE_END"
    \/ a = "TREE_END" /\ b \in {"BLOCK", "END"}
    \/ a = "BLOCK" /\ b = "END"

\* Clients (info, events, file.c) rely on the order of events: versions,
\* comments, block index, then a tree that is closed before the first block,
\* blocks, the end; whatever the file holds, and after every kind of failure.
EventOrder == [][Follows(last, last')]_last

\* The index in memory says where each block that was reported is, whether it
\* was read from the file, corrected or built up ("Update the block index with
\* the correct offset of the block"); unless an element past the size of a vector was
\* accessed (outside), as behind an index of which not all could be read.
IndexRecordsBlocks ==
    ~outside => \A i \in 1 .. Len(blocks) : i <= Len(index) /\ index[i] = blocks[i]

\* The blocks of the file; a streamed one is the last.
FileBlocks ==
    {p \in 1 .. EOF - 1 : Kind(p) \in Magic
                          /\ \A q \in 1 .. p - 1 : Kind(q) # "streamed"}

\* Header lines, block headers and, if its events are wanted, the tree can be
\* read.
WellFormed ==
    /\ Kind(1) = "asdf" /\ Kind(2) = "std"
    /\ \A p \in FileBlocks : Kind(p) \in {"block", "streamed"}
    /\ (Emitting /\ tree.start > 0) => ~YamlFails

\* A well-formed file is parsed to its end without an error, and each of its
\* blocks is reported and listed once, in order, whatever its block index says:
\* that is "only a hint" (asdf_block_count).
BlocksFound ==
    (state \in {"END", "ERROR"} /\ WellFormed) =>
        /\ state = "END" /\ ~err
        /\ blocks = infos
        /\ Increasing(infos)
        /\ {infos[i] : i \in DOMAIN infos} = FileBlocks

\* When the tree is closed the stream stands at its end, so that what follows
\* is looked at from there; and that is behind the document end marker if there is
\* one before the first block.
TreeEndIsPos ==
    state = "PADDING" =>
        /\ pos = tree.end
        /\ Kind(DocMark) = "docend" => tree.end = DocMark + 1

\* The stream can do what the options ask of it: set back to the end of the tree
\* libfyaml has read beyond, and left behind a streamed block.
StreamSuffices ==
    /\ Emitting => Seekable
    /\ \A p, q \in 1 .. EOF - 1 :
          ~Seekable /\ Kind(p) = "streamed" /\ p < q => Kind(q) \notin Magic

\* A block index that is found out when it is read, without an error: its entries
\* are out of order, or the first or the last one is not a block.
IndexFoundOut ==
    LET s == file.index
    IN  /\ s # <<>>
        /\ \A i \in DOMAIN s : ~SeekFails(s[i]) /\ Kind(s[i]) # "badblock"
        /\ ~Increasing(s) \/ Kind(s[1]) \notin Magic \/ Kind(s[Len(s)]) \notin Magic

\* No block index, none that can be read, one that is found out, or the right one.
IndexHarmless ==
    \/ ~HasIndex
    \/ ~file.indexOK \/ Pushed # file.index
    \/ IndexFoundOut
    \/ Increasing(file.index) /\ {file.index[i] : i \in DOMAIN file.index} = FileBlocks

\* BlocksFound, where it can be expected: asdf_parser_parse reports and lists each
\* block of a file once, in order, with no block index, the right one, one that is
\* found out or one that cannot be read, wherever the blocks are, with a tree or
\* without, whatever the options are; unless the stream has told it a wrong position,
\* as file_scan makes it (stream.c:296) when padding or a tree that is not at the
\* start of the buffer goes beyond its end, and file_readline in a comment that does.
SoundBlocksFound == StreamSuffices /\ IndexHarmless /\ ~misled => BlocksFound

\* A tree is closed by a document end marker or by a block.
TreesClose ==
    \A p \in 1 .. EOF - 1 : Kind(p) = "directive" =>
        \E q \in p .. EOF - 1 : Kind(q) \in {"docend"} \cup Magic

\* The end of the tree is known: from libfyaml, or from the parser's own search.
TreeEndKnown == IF Emitting THEN Seekable ELSE TreesClose

\* TreeEndIsPos, where it can be expected: however far libfyaml has read beyond the
\* end of the tree, which the stream then is set back to, and whatever the file is;
\* unless the stream has told a wrong position, as for SoundBlocksFound.
SoundTreeEndIsPos == TreeEndKnown /\ ~misled => TreeEndIsPos

\* Parsing comes to an end, however the client's calls are spread.
Terminates == <>done

\* The parser goes round at a directive or marker that is one, but that the buffer
\* of a file or pipe ends in.
CutOff ==
    state = "HANG" /\ stream # "mem" /\ Kind(pos) \in {"directive", "docend"}
=============================================================================
