---------------------------- MODULE Parser_proofs ----------------------------
(* Proofs for Parser: the order of events, the index in memory, the end of    *)
(* the tree and the blocks found, for every file, stream and option.          *)
EXTENDS Parser, Minimum, TLAPS

\* Which event was the last one in each state of the parser.
LastEvent ==
    /\ state = "ASDF_VERSION" => last = "NONE"
    /\ state = "STANDARD_VERSION" => last = "ASDF_VERSION"
    /\ state \in {"COMMENT", "BLOCK_INDEX"} => last \in {"STANDARD_VERSION", "COMMENT"}
    /\ state = "TREE_OR_BLOCK" => last \in Preamble
    /\ state = "TREE" => last = "TREE_START"
    /\ state = "YAML" => last \in {"TREE_START", "YAML"}
    /\ state = "PADDING" => last = "TREE_END"
    /\ state = "BLOCK" => last \in Preamble \cup {"TREE_END", "BLOCK"}
    /\ state = "END" => last \in Preamble \cup {"TREE_END", "BLOCK", "END"}
    /\ (state = "END" /\ ~done) => last # "END"
    /\ state \in {"ASDF_VERSION", "STANDARD_VERSION", "COMMENT", "BLOCK_INDEX",
                  "TREE_OR_BLOCK", "TREE", "YAML", "PADDING", "BLOCK", "END",
                  "ERROR", "ABORT", "HANG"}

\* The parser starts with no event.
LEMMA LastEventInit == Init => LastEvent
  BY DEF Init, LastEvent

\* A step of the parser keeps to it and reports only what may follow.
LEMMA LastEventNext ==
    ASSUME LastEvent, [Next]_vars
    PROVE  LastEvent' /\ (last' = last \/ Follows(last, last'))
  <1> USE DEF LastEvent, Follows, Preamble
  <1>1. CASE UNCHANGED vars
    BY <1>1 DEF vars
  <1>2. CASE ParseAsdfVersion \/ ParseStandardVersion
    BY <1>2 DEF ParseAsdfVersion, ParseStandardVersion, ParseVersion, Fail
  <1>3. CASE ParseComment
    BY <1>3 DEF ParseComment
  <1>4. CASE NoBlockIndex \/ CorruptBlockIndex
    BY <1>4 DEF NoBlockIndex, CorruptBlockIndex, SetBack
  <1>5. CASE ParseBlockIndex
    BY <1>5 DEF ParseBlockIndex, SetBack
  <1>6. CASE FindTree \/ FindBlock \/ FindNothing
    BY <1>6 DEF FindTree, FindBlock, FindNothing, TreeOrBlock
  <1>7. CASE FindFalseIndex \/ FindBadDirective \/ TreeFalseEnd \/ ParseTreeYaml
    BY <1>7 DEF FindFalseIndex, FindBadDirective, TreeFalseEnd, GoesRound, ParseTreeYaml
  <1>8. CASE ParseTreeFast
    BY <1>8 DEF ParseTreeFast, Fail
  <1>9. CASE YamlAbort \/ YamlEvent \/ YamlError
    BY <1>9 DEF YamlAbort, YamlEvent, YamlError, Fail
  <1>10. CASE YamlDocumentEnd \/ YamlStreamEnd \/ YamlTreeEnd
    BY <1>10 DEF YamlDocumentEnd, YamlStreamEnd, YamlTreeEnd
  <1>11. CASE ParsePadding
    BY <1>11 DEF ParsePadding
  <1>12. CASE NoMoreBlocks
    BY <1>12 DEF NoMoreBlocks
  <1>13. CASE ParseBlock
    <2>1. /\ state = "BLOCK"
          /\ \/ state' = "ERROR" /\ last' = last
             \/ state' = state /\ last' = "BLOCK"
          /\ done' = done
      BY <1>13 DEF ParseBlock
    <2>2. QED
      BY <2>1
  <1>14. CASE ParseEnd \/ ParseError
    BY <1>14 DEF ParseEnd, ParseError
  <1>15. QED
    BY <1>1, <1>2, <1>3, <1>4, <1>5, <1>6, <1>7, <1>8, <1>9, <1>10, <1>11,
       <1>12, <1>13, <1>14 DEF Next

\* Events come in the documented order whatever is in the file.
THEOREM EventsInOrder == Spec => EventOrder
  <1>1. Init => LastEvent
    BY LastEventInit
  <1>2. LastEvent /\ [Next]_vars => LastEvent' /\ [Follows(last, last')]_last
    BY LastEventNext
  <1>3. QED
    BY <1>1, <1>2, PTL DEF Spec, EventOrder

-----------------------------------------------------------------------------
(* The index in memory *)

\* Types of what the blocks' vectors hold.
VectorTypes ==
    /\ file \in Files
    /\ found \in Nat /\ count \in Nat /\ icap \in Nat
    /\ index \in Seq(Int) /\ infos \in Seq(Int) /\ blocks \in Seq(Int)
    /\ outside \in BOOLEAN

\* How far the vectors reach: a block has been counted when it was reported,
\* none before the blocks are parsed, and the capacity covers the entries.
VectorSizes ==
    /\ Len(blocks) <= found
    /\ state = "BLOCK" => Len(blocks) = found
    /\ state \in {"ASDF_VERSION", "STANDARD_VERSION", "COMMENT", "BLOCK_INDEX",
                  "TREE_OR_BLOCK", "TREE", "YAML", "PADDING"} => found = 0
    /\ Len(index) <= icap
    /\ (hasIndex /\ found < count) => found < Len(infos)

IndexInv == VectorTypes /\ VectorSizes /\ IndexRecordsBlocks

\* A block's magic is only read inside the file; a scan ends at an item or at
\* the end of the file.
LEMMA ScanType ==
    ASSUME file \in Files, NEW K, NEW p
    PROVE  /\ EOF \in Nat /\ ScanTo(K, p) \in Nat
           /\ Kind(p) \in Magic => p \in Nat
  <1>1. EOF \in Nat
    BY ParserAssumption DEF EOF
  <1>2. ASSUME Hits(K, p) = {} PROVE ScanTo(K, p) \in Nat
    BY <1>1, <1>2 DEF ScanTo
  <1>3. ASSUME Hits(K, p) # {} PROVE ScanTo(K, p) \in Nat
    <2>1. Hits(K, p) \subseteq Nat
      BY <1>1 DEF Hits
    <2>2. \E q \in Hits(K, p) : \A r \in Hits(K, p) : q <= r
      BY <1>3, <2>1, MinExists
    <2>3. ScanTo(K, p) \in Hits(K, p)
      BY <1>3, <2>2 DEF ScanTo
    <2>4. QED
      BY <1>1, <2>1, <2>3
  <1>4. Kind(p) \in Magic => p \in 1 .. EOF - 1
    BY DEF Kind, Magic, Readable
  <1>5. QED
    BY <1>1, <1>2, <1>3, <1>4

\* What looking for the next block returns, whichever way it was found.
LEMMA FindType ==
    ASSUME VectorTypes, VectorSizes
    PROVE  /\ FindNextBlock.at \in Int /\ FindNextBlock.infos \in Seq(Int)
           /\ Len(FindNextBlock.infos) >= Len(infos)
           /\ FindNextBlock.out \in BOOLEAN /\ (outside => FindNextBlock.out)
  <1> DEFINE Good(a) == /\ a.at \in Int /\ a.infos \in Seq(Int)
                        /\ Len(a.infos) >= Len(infos)
                        /\ a.out \in BOOLEAN /\ (outside => a.out)
  <1>2. ASSUME UseIndex PROVE Good(BlockFromIndex)
    <2>1. found + 1 \in 1 .. Len(index) /\ index[found + 1] \in Int
      BY <1>2 DEF UseIndex, VectorTypes
    <2>2. CASE found < count
      <3>1. found + 1 \in 1 .. Len(infos)
        BY <1>2, <2>2 DEF UseIndex, VectorTypes, VectorSizes
      <3>2. infos[found + 1] \in Int
        BY <3>1 DEF VectorTypes
      <3>3. BlockFromIndex = Found(infos[found + 1], pos, err, infos, outside)
        BY <2>2 DEF BlockFromIndex
      <3>4. QED
        BY <3>2, <3>3 DEF Found, VectorTypes
    <2>3. CASE ~(found < count) /\ Valid(index[found + 1], err) /\ found + 1 <= Len(infos)
      <3> DEFINE p == index[found + 1]
      <3>1. BlockFromIndex = Found(p, p, err, [infos EXCEPT ![found + 1] = p],
                                   outside \/ found + 1 > Len(infos))
        BY <2>3 DEF BlockFromIndex
      <3>2. /\ [infos EXCEPT ![found + 1] = p] \in Seq(Int)
            /\ Len([infos EXCEPT ![found + 1] = p]) = Len(infos)
        BY <2>1, <2>3 DEF VectorTypes
      <3>3. p \in Int
        BY <2>1
      <3> HIDE DEF p
      <3>4. QED
        BY <3>1, <3>2, <3>3 DEF Found, VectorTypes
    <2>4. CASE ~(found < count) /\ ~(Valid(index[found + 1], err) /\ found + 1 <= Len(infos))
      <3> DEFINE p == index[found + 1]
                 to == IF SeekFails(p) THEN pos
                       ELSE IF p < 0 \/ p > EOF THEN EOF ELSE p
      <3>1. BlockFromIndex = Found(0, to, ErrAfter(p, err), infos,
                                   outside \/ found + 1 > Len(infos))
        BY <2>4 DEF BlockFromIndex
      <3> HIDE DEF to, p
      <3>2. QED
        BY <3>1 DEF Found, VectorTypes
    <2>5. QED
      BY <2>2, <2>3, <2>4
  <1>3. ASSUME NEW a, Good(a) PROVE Good(NewBlock(a))
    <2> DEFINE here == Kind(a.pos) \in Magic
               q == IF here /\ Reads(a.pos, a.err) THEN a.pos
                    ELSE ScanTo(Magic, IF here THEN a.pos + 1 ELSE a.pos)
               e == a.err \/ (here /\ q # a.pos)
    <2>1. q \in Int
      BY ScanType DEF VectorTypes
    <2>2. \/ NewBlock(a) = Found(q, q, e, Append(a.infos, q), a.out)
          \/ NewBlock(a) = Found(0, EOF, e \/ q # EOF, a.infos, a.out)
      BY DEF NewBlock
    <2>3. Append(a.infos, q) \in Seq(Int) /\ Len(Append(a.infos, q)) >= Len(infos)
      BY <1>3, <2>1 DEF VectorTypes
    <2> HIDE DEF q, e
    <2>4. CASE NewBlock(a) = Found(q, q, e, Append(a.infos, q), a.out)
      <3>1. /\ NewBlock(a).at = q /\ NewBlock(a).out = a.out
            /\ NewBlock(a).infos = Append(a.infos, q)
        BY <2>4 DEF Found
      <3>2. QED
        BY <1>3, <2>1, <2>3, <3>1
    <2>5. CASE NewBlock(a) = Found(0, EOF, e \/ q # EOF, a.infos, a.out)
      <3>1. /\ NewBlock(a).at = 0 /\ NewBlock(a).out = a.out
            /\ NewBlock(a).infos = a.infos
        BY <2>5 DEF Found
      <3>2. QED
        BY <1>3, <3>1
    <2>6. QED
      BY <2>2, <2>4, <2>5
  <1>4. Good(Found(0, pos, err, infos, outside))
    BY DEF Found, VectorTypes
  <1>5. QED
    BY <1>2, <1>3, <1>4 DEF FindNextBlock

\* Marking an entry as invalid changes none of the blocks already reported.
LEMMA MarkKeeps ==
    ASSUME VectorTypes
    PROVE  /\ MarkedIndex \in Seq(Int) /\ Len(MarkedIndex) = Len(index)
           /\ \A i \in 1 .. Len(index) : i <= found => MarkedIndex[i] = index[i]
  <1>1. CASE UseIndex /\ BlockFromIndex.at = 0
    <2>1. MarkedIndex = [index EXCEPT ![found + 1] = Negative]
      BY <1>1 DEF MarkedIndex
    <2>2. /\ Negative \in Int /\ found \in Nat /\ index \in Seq(Int)
          /\ found + 1 \in 1 .. Len(index)
      BY <1>1 DEF Negative, VectorTypes, UseIndex
    <2>3. MarkedIndex \in Seq(Int) /\ Len(MarkedIndex) = Len(index)
      BY <2>1, <2>2
    <2>4. ASSUME NEW i \in 1 .. Len(index), i <= found
          PROVE  MarkedIndex[i] = index[i]
      <3>1. i # found + 1
        BY <2>2, <2>4
      <3>2. QED
        BY <2>1, <2>2, <3>1
    <2>5. QED
      BY <2>3, <2>4
  <1>2. CASE ~(UseIndex /\ BlockFromIndex.at = 0)
    BY <1>2 DEF MarkedIndex, VectorTypes
  <1>3. QED
    BY <1>1, <1>2

\* Growing the index keeps its entries and makes room for one more block, if
\* it had no gap before.
LEMMA ResizeKeeps ==
    ASSUME VectorTypes, NEW s \in Seq(Int), Len(s) <= icap
    PROVE  /\ Resized(s) \in Seq(Int) /\ Capacity \in Nat
           /\ Len(Resized(s)) <= Capacity /\ Len(s) <= Len(Resized(s))
           /\ \A i \in 1 .. Len(s) : Resized(s)[i] = s[i]
  <1>1. Capacity \in Nat /\ icap \in Nat /\ icap <= Capacity
    BY ParserAssumption DEF Capacity, VectorTypes
  <1>2. CASE icap >= found + 1
    BY <1>1, <1>2 DEF Resized, Capacity
  <1>3. CASE ~(icap >= found + 1)
    <2> DEFINE t == [i \in 1 .. Capacity |-> IF i <= Len(s) THEN s[i] ELSE Negative]
    <2>1. \A i \in 1 .. Capacity : (IF i <= Len(s) THEN s[i] ELSE Negative) \in Int
      BY <1>1 DEF Negative
    <2>2. t \in Seq(Int) /\ Len(t) = Capacity
      BY <1>1, <2>1
    <2>3. Resized(s) = t
      BY <1>3 DEF Resized
    <2>4. \A i \in 1 .. Len(s) : t[i] = s[i]
      BY <1>1
    <2> HIDE DEF t
    <2>5. QED
      BY <1>1, <2>2, <2>3, <2>4
  <1>4. QED
    BY <1>2, <1>3

\* The entries of an index that were read before one that is no number.
LEMMA PushedType ==
    ASSUME file \in Files
    PROVE  /\ file.index \in Seq(Int)
           /\ Pushed \in Seq(Int) /\ Len(Pushed) <= Len(file.index)
  <1> DEFINE s == file.index
             bad == {i \in DOMAIN s : s[i] = NotInt}
             k == CHOOSE i \in bad : \A j \in bad : i <= j
  <1>1. s \in Seq(Int)
    BY ParserAssumption
  <1>2. CASE bad = {}
    <2>1. Pushed = s
      BY <1>2 DEF Pushed
    <2>2. QED
      BY <1>1, <2>1
  <1>3. CASE bad # {}
    <2>1. bad \subseteq 1 .. Len(s) /\ bad \subseteq Nat
      BY <1>1
    <2>2. \E i \in bad : \A j \in bad : i <= j
      BY <1>3, <2>1, MinExists
    <2>3. k \in bad
      BY <2>2
    <2>4. Pushed = SubSeq(s, 1, k - 1)
      BY <1>3 DEF Pushed
    <2>5. k \in 1 .. Len(s)
      BY <2>1, <2>3
    <2> HIDE DEF k, bad, s
    <2>6. SubSeq(s, 1, k - 1) \in Seq(Int) /\ Len(SubSeq(s, 1, k - 1)) = k - 1
      BY <1>1, <2>5
    <2>7. s \in Seq(Int) /\ Pushed \in Seq(Int) /\ Len(Pushed) <= Len(s)
      BY <1>1, <2>4, <2>5, <2>6
    <2>8. QED
      BY <2>7 DEF s
  <1>4. QED
    BY <1>2, <1>3

\* Nothing has been found at first.
LEMMA IndexInvInit == Init => IndexInv
  <1> SUFFICES ASSUME Init PROVE IndexInv
    OBVIOUS
  <1>1. VectorTypes
    <2>1. file \in Files /\ outside \in BOOLEAN
      BY Zenon DEF Init
    <2>2. found \in Nat /\ count \in Nat /\ icap \in Nat
      BY DEF Init
    <2>3. index \in Seq(Int) /\ infos \in Seq(Int) /\ blocks \in Seq(Int)
      BY DEF Init
    <2>4. QED
      BY <2>1, <2>2, <2>3 DEF VectorTypes
  <1>2. VectorSizes
    BY DEF Init, VectorSizes
  <1>3. IndexRecordsBlocks
    BY DEF Init, IndexRecordsBlocks
  <1>4. QED
    BY <1>1, <1>2, <1>3 DEF IndexInv

\* Finding a block writes its entry behind those of the blocks before it.
LEMMA ParseBlockKeeps ==
    ASSUME IndexInv, ParseBlock
    PROVE  IndexInv'
  <1> DEFINE b == FindNextBlock
             s == Resized(MarkedIndex)
             n == found + 1
  <1>0. PICK l \in Searched :
           /\ infos' = InfosTold(b, l)
           /\ index' = IF found < Len(s) THEN [s EXCEPT ![n] = Tell(b.at, l)] ELSE s
           /\ \/ state' = "ERROR" /\ blocks' = blocks
              \/ state' = state /\ blocks' = Append(blocks, Tell(b.at, l))
    BY DEF ParseBlock
  <1> DEFINE t == Tell(b.at, l)
  <1>1. /\ state = "BLOCK" /\ file' = file /\ hasIndex' = hasIndex
        /\ infos' = InfosTold(b, l) /\ found' = n /\ count' = n /\ icap' = Capacity
        /\ index' = IF found < Len(s) THEN [s EXCEPT ![n] = t] ELSE s
        /\ outside' = (b.out \/ found >= Len(s))
        /\ \/ state' = "ERROR" /\ blocks' = blocks
           \/ state' = "BLOCK" /\ blocks' = Append(blocks, t)
    BY <1>0 DEF ParseBlock, fixed
  <1>2. /\ t \in Int /\ InfosTold(b, l) \in Seq(Int)
        /\ b.out \in BOOLEAN /\ (outside => b.out)
    <2>1. /\ b.at \in Int /\ b.infos \in Seq(Int)
          /\ b.out \in BOOLEAN /\ (outside => b.out)
      BY FindType DEF IndexInv
    <2>2. Astray \in Int
      BY DEF Astray
    <2> HIDE DEF b
    <2>3. t \in Int
      BY <2>1, <2>2 DEF Tell
    <2>4. PICK u : u = b.infos
      OBVIOUS
    <2>5. [u EXCEPT ![Len(u)] = Astray] \in Seq(Int)
      <3>1. u \in Seq(Int) /\ Len(u) \in Nat /\ DOMAIN u = 1 .. Len(u)
        BY <2>1, <2>4
      <3>2. CASE u = <<>>
        <4>1. [u EXCEPT ![Len(u)] = Astray] = u
          BY <3>1, <3>2
        <4>2. QED
          BY <3>1, <4>1
      <3>3. CASE u # <<>>
        <4>1. Len(u) \in 1 .. Len(u)
          BY <3>1, <3>3
        <4>2. QED
          BY <2>2, <3>1, <4>1
      <3>4. QED
        BY <3>2, <3>3
    <2>6. QED
      BY <2>1, <2>3, <2>4, <2>5 DEF InfosTold
  <1>3. /\ MarkedIndex \in Seq(Int) /\ Len(MarkedIndex) = Len(index)
        /\ \A i \in 1 .. Len(index) : i <= found => MarkedIndex[i] = index[i]
    BY MarkKeeps DEF IndexInv
  <1>4. /\ s \in Seq(Int) /\ Capacity \in Nat
        /\ Len(s) <= Capacity /\ Len(index) <= Len(s)
        /\ \A i \in 1 .. Len(index) : s[i] = MarkedIndex[i]
    BY <1>3, ResizeKeeps DEF IndexInv, VectorTypes, VectorSizes
  <1>5. /\ found \in Nat /\ blocks \in Seq(Int) /\ Len(blocks) = found
        /\ index \in Seq(Int) /\ file \in Files
    BY <1>1 DEF IndexInv, VectorTypes, VectorSizes
  <1> HIDE DEF b, s, t
  <1>6. index' \in Seq(Int) /\ Len(index') = Len(s)
    BY <1>1, <1>2, <1>4, <1>5
  <1>7. /\ blocks' \in Seq(Int) /\ Len(blocks') <= n
        /\ state' = "BLOCK" => Len(blocks') = n
        /\ \A i \in 1 .. Len(blocks') :
              IF i = n THEN blocks'[i] = t
              ELSE i \in 1 .. Len(blocks) /\ blocks'[i] = blocks[i]
    <2>1. CASE blocks' = blocks
      BY <1>1, <1>5, <2>1
    <2>2. CASE blocks' = Append(blocks, t)
      <3>1. t \in Int
        BY <1>2
      <3>2. QED
        BY <1>5, <2>2, <3>1
    <2>3. QED
      BY <1>1, <2>1, <2>2
  <1>8. VectorTypes'
    BY <1>1, <1>2, <1>4, <1>5, <1>6, <1>7 DEF VectorTypes
  <1>9. VectorSizes'
    BY <1>1, <1>4, <1>5, <1>6, <1>7 DEF VectorSizes
  <1>10. ASSUME ~outside', NEW i \in 1 .. Len(blocks')
         PROVE  i <= Len(index') /\ index'[i] = blocks'[i]
    <2>0. ~b.out /\ ~(found >= Len(s))
      BY <1>1, <1>10, Zenon
    <2>1. ~outside /\ found < Len(s)
      BY <1>2, <1>4, <1>5, <2>0
    <2>2. index' = [s EXCEPT ![n] = t]
      BY <1>1, <2>1
    <2>3. CASE i = n
      BY <1>4, <1>5, <1>6, <1>7, <2>1, <2>2, <2>3
    <2>4. CASE i # n
      <3>1. i \in 1 .. Len(blocks) /\ blocks'[i] = blocks[i]
        BY <1>7, <2>4
      <3>2. i <= Len(index) /\ index[i] = blocks[i]
        BY <2>1, <3>1 DEF IndexInv, IndexRecordsBlocks
      <3>3. i \in 1 .. Len(index) /\ i <= found /\ i \in 1 .. Len(s)
        BY <1>4, <1>5, <3>1, <3>2
      <3>4. s[i] = blocks[i]
        BY <1>3, <1>4, <3>2, <3>3
      <3>5. index'[i] = s[i]
        BY <1>4, <2>2, <2>4, <3>3
      <3>6. QED
        BY <1>6, <3>1, <3>3, <3>4, <3>5
    <2>5. QED
      BY <2>3, <2>4
  <1>11. QED
    BY <1>8, <1>9, <1>10 DEF IndexInv, IndexRecordsBlocks

\* Every step keeps the invariant; only those that read an index or find a
\* block touch it.
LEMMA IndexInvNext == IndexInv /\ [Next]_vars => IndexInv'
  <1> SUFFICES ASSUME IndexInv, [Next]_vars PROVE IndexInv'
    OBVIOUS
  <1> DEFINE Early == {"ASDF_VERSION", "STANDARD_VERSION", "COMMENT", "BLOCK_INDEX",
                       "TREE_OR_BLOCK", "TREE", "YAML", "PADDING"}
  <1>1. ASSUME UNCHANGED <<file, blockVars>>,
               state' \in Early \cup {"BLOCK"} =>
                  state' = state \/ state \in Early
        PROVE  IndexInv'
    <2>1. VectorTypes'
      BY <1>1 DEF IndexInv, VectorTypes, blockVars
    <2>2. VectorSizes'
      BY <1>1 DEF IndexInv, VectorTypes, VectorSizes, blockVars
    <2>3. IndexRecordsBlocks'
      BY <1>1 DEF IndexInv, IndexRecordsBlocks, blockVars
    <2>4. QED
      BY <2>1, <2>2, <2>3 DEF IndexInv
  <1>2. CASE UNCHANGED vars
    BY <1>1, <1>2 DEF vars, blockVars
  <1>3. CASE ParseAsdfVersion \/ ParseStandardVersion
    BY <1>1, <1>3 DEF ParseAsdfVersion, ParseStandardVersion, ParseVersion, Fail, fixed
  <1>4. CASE ParseComment \/ NoBlockIndex
    BY <1>1, <1>4 DEF ParseComment, NoBlockIndex, SetBack, fixed
  <1>5. CASE FindTree \/ FindBlock \/ FindNothing
    BY <1>1, <1>5 DEF FindTree, FindBlock, FindNothing, TreeOrBlock, fixed
  <1>6. CASE FindFalseIndex \/ FindBadDirective \/ TreeFalseEnd \/ ParseTreeYaml
    BY <1>1, <1>6 DEF FindFalseIndex, FindBadDirective, TreeFalseEnd, GoesRound, ParseTreeYaml,
       fixed
  <1>7. CASE ParseTreeFast
    BY <1>1, <1>7 DEF ParseTreeFast, Fail, fixed
  <1>8. CASE YamlAbort \/ YamlEvent \/ YamlError
    BY <1>1, <1>8 DEF YamlAbort, YamlEvent, YamlError, Fail, fixed
  <1>9. CASE YamlDocumentEnd \/ YamlStreamEnd \/ YamlTreeEnd
    BY <1>1, <1>9 DEF YamlDocumentEnd, YamlStreamEnd, YamlTreeEnd, fixed
  <1>10. CASE ParsePadding \/ ParseEnd \/ ParseError
    BY <1>1, <1>10 DEF ParsePadding, ParseEnd, ParseError, fixed
  <1>11. CASE CorruptBlockIndex \/ ParseBlockIndex
    <2>1. /\ state' = "TREE_OR_BLOCK" /\ state = "BLOCK_INDEX"
          /\ UNCHANGED <<file, found, outside, blocks>>
      BY <1>11 DEF CorruptBlockIndex, ParseBlockIndex, SetBack, fixed
    <2>2. found = 0 /\ Len(blocks) = 0
      BY <2>1 DEF IndexInv, VectorTypes, VectorSizes
    <2>3. file.index \in Seq(Int) /\ Pushed \in Seq(Int) /\ Len(Pushed) <= Len(file.index)
      BY PushedType DEF IndexInv, VectorTypes
    <2>4. index' \in Seq(Int) /\ icap' \in Nat /\ Len(index') <= icap'
      <3>1. \/ index' = Pushed /\ icap' = Len(file.index)
            \/ index' = <<>> /\ icap' = 0
            \/ index' = file.index /\ icap' = Len(file.index)
        <4>1. CASE CorruptBlockIndex
          BY <4>1 DEF CorruptBlockIndex
        <4>2. CASE ParseBlockIndex
          BY <4>2 DEF ParseBlockIndex
        <4>3. QED
          BY <1>11, <4>1, <4>2
      <3>2. CASE index' = Pushed /\ icap' = Len(file.index)
        <4>1. Len(file.index) \in Nat
          BY <2>3
        <4>2. QED
          BY <2>3, <3>2, <4>1
      <3>3. CASE index' = <<>> /\ icap' = 0
        BY <3>3
      <3>4. CASE index' = file.index /\ icap' = Len(file.index)
        <4>1. Len(file.index) \in Nat
          BY <2>3
        <4>2. QED
          BY <2>3, <3>4, <4>1
      <3>5. QED
        BY <3>1, <3>2, <3>3, <3>4
    <2>5. /\ infos' \in Seq(Int) /\ count' \in Nat
          /\ (hasIndex' /\ 0 < count') => 0 < Len(infos')
      <3> DEFINE t == [i \in DOMAIN file.index |->
                         IF i \in {1, Len(file.index)} THEN file.index[i] ELSE 0]
      <3>1. t \in Seq(Int) /\ Len(t) = Len(file.index)
        <4> DEFINE m == Len(file.index)
                   v(i) == IF i \in {1, m} THEN file.index[i] ELSE 0
        <4>1. m \in Nat /\ t = [i \in 1 .. m |-> v(i)]
          BY <2>3
        <4>2. \A i \in 1 .. m : v(i) \in Int
          BY <2>3
        <4> HIDE DEF m, v
        <4>3. [i \in 1 .. m |-> v(i)] \in Seq(Int) /\ Len([i \in 1 .. m |-> v(i)]) = m
          BY <4>1, <4>2
        <4>4. QED
          BY <4>1, <4>3 DEF m
      <3> HIDE DEF t
      <3>2. \/ UNCHANGED <<hasIndex, infos, count>>
            \/ infos' = t /\ count' = Len(file.index)
        BY <1>11 DEF CorruptBlockIndex, ParseBlockIndex, t
      <3>3. CASE UNCHANGED <<hasIndex, infos, count>>
        BY <2>2, <3>3 DEF IndexInv, VectorTypes, VectorSizes
      <3>4. CASE infos' = t /\ count' = Len(file.index)
        BY <2>3, <3>1, <3>4
      <3>5. QED
        BY <3>2, <3>3, <3>4
    <2>6. VectorTypes'
      BY <2>1, <2>4, <2>5 DEF IndexInv, VectorTypes
    <2>7. VectorSizes'
      BY <2>1, <2>2, <2>4, <2>5 DEF VectorSizes
    <2>8. IndexRecordsBlocks'
      BY <2>1, <2>2 DEF IndexRecordsBlocks
    <2>9. QED
      BY <2>6, <2>7, <2>8 DEF IndexInv
  <1>12. CASE NoMoreBlocks
    <2>1. /\ state' = "END" /\ index' = MarkedIndex /\ icap' = Len(MarkedIndex)
          /\ outside' = FindNextBlock.out
          /\ UNCHANGED <<file, hasIndex, infos, count, found, blocks>>
      BY <1>12 DEF NoMoreBlocks, fixed
    <2>2. FindNextBlock.out \in BOOLEAN /\ (outside => FindNextBlock.out)
      BY FindType DEF IndexInv
    <2>3. /\ MarkedIndex \in Seq(Int) /\ Len(MarkedIndex) = Len(index)
          /\ \A i \in 1 .. Len(index) : i <= found => MarkedIndex[i] = index[i]
      BY MarkKeeps DEF IndexInv
    <2>4. VectorTypes'
      BY <2>1, <2>2, <2>3 DEF IndexInv, VectorTypes
    <2>5. VectorSizes'
      BY <2>1, <2>3 DEF IndexInv, VectorTypes, VectorSizes
    <2>6. ASSUME ~outside', NEW i \in 1 .. Len(blocks')
          PROVE  i <= Len(index') /\ index'[i] = blocks'[i]
      <3>1. ~outside
        BY <2>1, <2>2, <2>6
      <3>2. i \in 1 .. Len(blocks) /\ blocks' = blocks
        BY <2>1
      <3>3. i <= Len(index) /\ index[i] = blocks[i]
        BY <3>1, <3>2 DEF IndexInv, IndexRecordsBlocks
      <3>4. i \in 1 .. Len(index) /\ i <= found
        BY <3>2, <3>3 DEF IndexInv, VectorTypes, VectorSizes
      <3>5. QED
        BY <2>1, <2>3, <3>2, <3>3, <3>4
    <2>7. QED
      BY <2>4, <2>5, <2>6 DEF IndexInv, IndexRecordsBlocks
  <1>13. CASE ParseBlock
    BY <1>13, ParseBlockKeeps
  <1>14. QED
    BY <1>2, <1>3, <1>4, <1>5, <1>6, <1>7, <1>8, <1>9, <1>10, <1>11, <1>12, <1>13
    DEF Next

\* For every file, stream and option the index in memory holds the position of
\* each block that was reported (IndexRecordsBlocks), whatever index the file
\* itself came with.
THEOREM IndexCorrect == Spec => []IndexRecordsBlocks
  <1>1. Init => IndexInv
    BY IndexInvInit
  <1>2. IndexInv /\ [Next]_vars => IndexInv'
    BY IndexInvNext
  <1>3. IndexInv => IndexRecordsBlocks
    BY DEF IndexInv
  <1>4. QED
    BY <1>1, <1>2, <1>3, PTL DEF Spec

-----------------------------------------------------------------------------
(* The end of the tree *)

\* Where a scan ends: at the first item of a kind in K, or at the end of the file.
LEMMA ScanFinds ==
    ASSUME file \in Files, NEW K, NEW p
    PROVE  /\ EOF \in Nat \ {0} /\ Kind(EOF) = "eof"
           /\ Hits(K, p) = {} => ScanTo(K, p) = EOF
           /\ Hits(K, p) # {} =>
                 /\ ScanTo(K, p) \in 1 .. EOF - 1 /\ ScanTo(K, p) >= p
                 /\ Kind(ScanTo(K, p)) \in K
                 /\ \A q \in Hits(K, p) : ScanTo(K, p) <= q
  <1>1. EOF \in Nat \ {0}
    BY ParserAssumption DEF EOF
  <1>2. Kind(EOF) = "eof"
    BY <1>1 DEF Kind
  <1>3. ASSUME Hits(K, p) = {} PROVE ScanTo(K, p) = EOF
    BY <1>3 DEF ScanTo
  <1>4. ASSUME Hits(K, p) # {}
        PROVE  /\ ScanTo(K, p) \in 1 .. EOF - 1 /\ ScanTo(K, p) >= p
               /\ Kind(ScanTo(K, p)) \in K
               /\ \A q \in Hits(K, p) : ScanTo(K, p) <= q
    <2>1. Hits(K, p) \subseteq Nat
      BY <1>1 DEF Hits
    <2>2. \E q \in Hits(K, p) : \A r \in Hits(K, p) : q <= r
      BY <1>4, <2>1, MinExists
    <2>3. ScanTo(K, p) \in Hits(K, p) /\ \A r \in Hits(K, p) : ScanTo(K, p) <= r
      BY <1>4, <2>2 DEF ScanTo
    <2>4. QED
      BY <2>3 DEF Hits
  <1>5. QED
    BY <1>1, <1>2, <1>3, <1>4

\* What is parsed does not change.
LEMMA FixedKept ==
    ASSUME UNCHANGED fixed
    PROVE  /\ file' = file /\ EOF' = EOF /\ \A p : Kind(p)' = Kind(p)
           /\ Emitting' = Emitting /\ Seekable' = Seekable
           /\ TreeEndKnown' = TreeEndKnown
           /\ StreamSuffices' = StreamSuffices /\ IndexHarmless' = IndexHarmless
           /\ FileBlocks' = FileBlocks
  <1> USE DEF fixed
  <1>1. file' = file /\ EOF' = EOF /\ \A p : Kind(p)' = Kind(p)
    BY DEF EOF, Kind
  <1>2. Emitting' = Emitting /\ Seekable' = Seekable
    BY DEF Emitting, Seekable
  <1>3. TreeEndKnown' = TreeEndKnown
    BY <1>1, <1>2 DEF TreeEndKnown, TreesClose
  <1>4. StreamSuffices' = StreamSuffices
    BY <1>1, <1>2 DEF StreamSuffices
  <1>5. FileBlocks' = FileBlocks
    BY <1>1 DEF FileBlocks
  <1>6. IndexHarmless' = IndexHarmless
    <2>1. HasIndex' = HasIndex
      BY DEF HasIndex, IndexMark, Seekable, ScanTo, Hits, Kind, EOF
    <2>2. QED
      BY <2>1 DEF IndexHarmless, Pushed, IndexFoundOut, SeekFails, Kind, EOF, FileBlocks
  <1>7. QED
    BY <1>1, <1>2, <1>3, <1>4, <1>5, <1>6

\* As long as the directive is the same one, so is what closes the document.
LEMMA DocMarkKept ==
    ASSUME UNCHANGED fixed, tree'.start = tree.start
    PROVE  DocMark' = DocMark /\ Kind(DocMark)' = Kind(DocMark)
  <1>0. PICK K : K = {"docend"} \cup Magic
    OBVIOUS
  <1>1. EOF' = EOF /\ \A p : Kind(p)' = Kind(p)
    BY FixedKept
  <1>2. PICK n : n = tree.start
    OBVIOUS
  <1>3. Hits(K, n)' = Hits(K, n)
    BY <1>1 DEF Hits
  <1>4. ScanTo(K, n)' = ScanTo(K, n)
    BY <1>1, <1>3 DEF ScanTo
  <1>5. DocMark = ScanTo(K, n)
    BY <1>0, <1>2 DEF DocMark
  <1>6. DocMark' = ScanTo(K, n)'
    BY <1>0, <1>2 DEF DocMark
  <1>7. PICK k : k = DocMark
    OBVIOUS
  <1>8. DocMark' = k /\ Kind(k)' = Kind(k)
    BY <1>1, <1>4, <1>5, <1>6, <1>7
  <1>9. QED
    BY <1>7, <1>8

TreeType == [start : Int, end : Int, found : BOOLEAN, done : BOOLEAN, has : {-1, 0, 1}]

AtTreeEnd == pos = tree.end /\ (Kind(DocMark) = "docend" => tree.end = DocMark + 1)

\* Before the tree's end is found nothing is said of it; then the stream is there,
\* and it stays there while libfyaml's stream ends.
TreeInv ==
    /\ file \in Files /\ tree \in TreeType
    /\ state \in {"ASDF_VERSION", "STANDARD_VERSION", "COMMENT", "BLOCK_INDEX",
                  "TREE_OR_BLOCK", "TREE"} => ~tree.found
    /\ tree.done => tree.found
    /\ state = "TREE" => Kind(pos) = "directive"
    /\ ~misled /\ state = "TREE" => tree.start = pos
    /\ ~misled /\ state \in {"TREE", "YAML"} => tree.start \in 1 .. EOF
    /\ TreeEndKnown /\ ~misled /\ ((state = "YAML" /\ tree.found) \/ state = "PADDING") =>
          AtTreeEnd

\* The updates of the tree's record.
LEMMA TreeUpdates ==
    ASSUME tree \in TreeType
    PROVE  /\ \A n \in Int : /\ [tree EXCEPT !.start = n, !.has = 1] \in TreeType
                             /\ [tree EXCEPT !.start = n, !.has = 1].found = tree.found
                             /\ [tree EXCEPT !.start = n, !.has = 1].done = tree.done
                             /\ [tree EXCEPT !.start = n, !.has = 1].start = n
           /\ \A n \in Int, b \in BOOLEAN :
                 /\ [tree EXCEPT !.end = n, !.found = b] \in TreeType
                 /\ [tree EXCEPT !.end = n, !.found = b].end = n
                 /\ [tree EXCEPT !.end = n, !.found = b].found = b
                 /\ [tree EXCEPT !.end = n, !.found = b].done = tree.done
                 /\ [tree EXCEPT !.end = n, !.found = b].start = tree.start
           /\ [tree EXCEPT !.has = 0] \in TreeType /\ [tree EXCEPT !.has = 0].found = tree.found
           /\ [tree EXCEPT !.has = 0].done = tree.done /\ [tree EXCEPT !.has = 0].start = tree.start
           /\ [tree EXCEPT !.done = TRUE] \in TreeType
           /\ [tree EXCEPT !.done = TRUE].found = tree.found
           /\ [tree EXCEPT !.done = TRUE].end = tree.end
           /\ [tree EXCEPT !.done = TRUE].start = tree.start
  BY DEF TreeType

\* Whatever the stream tells is a number.
LEMMA TellType ==
    ASSUME NEW p \in Int, NEW l
    PROVE  Tell(p, l) \in Int /\ (~l => Tell(p, l) = p)
  BY DEF Tell, Astray

\* parse_tree_fast finds the end of a tree that is closed, and the stream is there.
LEMMA TreeFastEnd ==
    ASSUME TreeInv, ParseTreeFast
    PROVE  TreeInv'
  <1>1. /\ state = "TREE" /\ UNCHANGED fixed /\ file \in Files /\ tree \in TreeType
        /\ Kind(TreeMark) # "falseend" /\ (~misled' => ~misled /\ ~lost')
    BY DEF ParseTreeFast, TreeInv, Fail
  <1>2. TreeEndKnown' = TreeEndKnown /\ file' = file /\ EOF' = EOF
    BY <1>1, FixedKept
  <1>3. ~tree.found /\ ~tree.done /\ Kind(pos) = "directive"
        /\ (~misled' => tree.start = pos /\ tree.start \in 1 .. EOF)
    BY <1>1 DEF TreeInv
  <1>4. CASE Fail
    BY <1>1, <1>2, <1>3, <1>4 DEF Fail, TreeInv, treeVars
  <1>5. CASE /\ pos' = PosAfterTree
             /\ tree' = [tree EXCEPT !.end = TreeEnd(lost'), !.found = ~Emitting]
             /\ state' = IF Emitting THEN "YAML" ELSE "PADDING"
    <2>1. EOF \in Nat \ {0} /\ TreeMark \in Nat
      BY <1>1, ScanFinds, ScanType DEF TreeMark
    <2>2. /\ PosAfterTree \in Nat /\ TreeEnd(lost') \in Int /\ (~Emitting) \in BOOLEAN
          /\ (TreeMark # EOF /\ ~lost' => TreeEnd(lost') = PosAfterTree)
      <3>1. PosAfterTree \in Nat
        BY <2>1 DEF PosAfterTree
      <3>2. Tell(PosAfterTree, lost') \in Int /\ (~lost' => Tell(PosAfterTree, lost') = PosAfterTree)
        BY <3>1, TellType
      <3>3. QED
        BY <3>1, <3>2 DEF TreeEnd
    <2>3. /\ tree' \in TreeType /\ tree'.end = TreeEnd(lost') /\ tree'.found = ~Emitting
          /\ tree'.done = tree.done /\ tree'.start = tree.start
      BY <1>1, <1>5, <2>2, TreeUpdates
    <2>4. CASE Emitting
      BY <1>2, <1>3, <1>5, <1>1, <2>3, <2>4 DEF TreeInv
    <2>5. CASE ~Emitting
      <3> DEFINE K == {"docend", "falseend"} \cup Magic
                 D == {"docend"} \cup Magic
      <3>0. pos \in 1 .. EOF - 1
        BY <1>3 DEF Kind
      <3>1. TreesClose => TreeMark # EOF
        <4> SUFFICES ASSUME TreesClose PROVE TreeMark # EOF
          OBVIOUS
        <4>1. PICK q \in pos .. EOF - 1 : Kind(q) \in D
          BY <1>3, <3>0 DEF TreesClose
        <4>2. q \in Hits(K, pos)
          BY <2>1, <3>0, <4>1 DEF Hits
        <4>3. ScanTo(K, pos) \in 1 .. EOF - 1
          BY <1>1, <4>2, ScanFinds
        <4>4. QED
          BY <2>1, <4>3 DEF TreeMark
      <3>2. ASSUME ~misled', Kind(DocMark) = "docend" PROVE TreeMark = DocMark
        <4>1. DocMark = ScanTo(D, pos) /\ TreeMark = ScanTo(K, pos)
          BY <1>3, <3>2 DEF DocMark, TreeMark
        <4>2. DocMark \in 1 .. EOF - 1 /\ Hits(D, pos) # {}
          <5>1. DocMark # EOF
            BY <1>1, <3>2, ScanFinds
          <5>2. QED
            BY <1>1, <4>1, <5>1, ScanFinds
        <4>3. DocMark \in Hits(K, pos)
          <5>1. DocMark >= pos
            BY <1>1, <4>1, <4>2, ScanFinds
          <5>2. QED
            BY <3>2, <4>2, <5>1 DEF Hits
        <4>4. /\ TreeMark \in 1 .. EOF - 1 /\ TreeMark >= pos /\ TreeMark <= DocMark
              /\ Kind(TreeMark) \in K
          BY <1>1, <4>1, <4>3, ScanFinds
        <4>5. TreeMark \in Hits(D, pos)
          BY <1>1, <4>4 DEF Hits
        <4>6. DocMark <= TreeMark
          BY <1>1, <4>1, <4>2, <4>5, ScanFinds
        <4>7. QED
          BY <2>1, <4>2, <4>4, <4>6
      <3>3. ASSUME TreeEndKnown', ~misled' PROVE AtTreeEnd'
        <4>1. pos' = tree'.end /\ tree'.end = PosAfterTree
          BY <1>1, <1>2, <1>5, <2>2, <2>3, <2>5, <3>1, <3>3 DEF TreeEndKnown
        <4>2. DocMark' = DocMark /\ Kind(DocMark)' = Kind(DocMark)
          BY <1>1, <2>3, DocMarkKept
        <4>3. Kind(DocMark) = "docend" => PosAfterTree = DocMark + 1
          BY <3>2, <3>3 DEF PosAfterTree
        <4>4. QED
          BY <4>1, <4>2, <4>3 DEF AtTreeEnd
      <3>4. QED
        BY <1>1, <1>2, <1>5, <2>3, <2>5, <3>3, <1>3 DEF TreeInv
    <2>6. QED
      BY <2>4, <2>5
  <1>6. QED
    BY <1>4, <1>5 DEF ParseTreeFast

YamlEndType ==
    /\ EOF \in Nat \ {0} /\ YamlEnd \in Int
    /\ tree.start \in 1 .. EOF => YamlEnd \in 1 .. EOF

\* libfyaml's end of the document is one of the tree's own file.
LEMMA YamlEndTyped ==
    ASSUME file \in Files, tree \in TreeType
    PROVE  YamlEndType
  <1>1. /\ EOF \in Nat \ {0} /\ Kind(EOF) = "eof"
        /\ DocMark = EOF \/ DocMark \in 1 .. EOF - 1
    BY ScanFinds DEF DocMark
  <1>2. tree.start \in Int
    BY DEF TreeType
  <1>3. CASE Kind(DocMark) = "docend"
    BY <1>1, <1>3 DEF YamlEnd, YamlEndType
  <1>4. CASE Kind(DocMark) # "docend"
    BY <1>1, <1>2, <1>4 DEF YamlEnd, YamlEndType
  <1>5. QED
    BY <1>3, <1>4

\* The stream is set back to where libfyaml has found the end of the document.
LEMMA DocumentEnd ==
    ASSUME TreeInv, YamlDocumentEnd
    PROVE  TreeInv'
  <1>1. /\ state = "YAML" /\ state' = state /\ UNCHANGED fixed /\ file \in Files /\ tree \in TreeType
        /\ Emitting /\ (~misled' => ~misled /\ ~lost /\ pos' = SoughtTo(YamlEnd))
        /\ tree' = [tree EXCEPT !.end = Tell(YamlEnd, lost), !.found = TRUE]
    BY DEF YamlDocumentEnd, YamlAllowed, TreeInv
  <1>2. TreeEndKnown' = TreeEndKnown /\ file' = file /\ EOF' = EOF
    BY <1>1, FixedKept
  <1>3. YamlEndType
    BY <1>1, YamlEndTyped
  <1>4. Seekable /\ ~misled' => SoughtTo(YamlEnd) = YamlEnd
    BY <1>1, <1>3 DEF SoughtTo, TreeInv, YamlEndType
  <1>5. /\ tree' \in TreeType /\ tree'.end = Tell(YamlEnd, lost) /\ tree'.found
        /\ tree'.start = tree.start /\ (~lost => tree'.end = YamlEnd)
    <2>1. YamlEnd \in Int
      BY <1>3 DEF YamlEndType
    <2>2. Tell(YamlEnd, lost) \in Int /\ (~lost => Tell(YamlEnd, lost) = YamlEnd)
      BY <2>1, TellType
    <2>3. QED
      BY <1>1, <2>2, TreeUpdates
  <1>6. ASSUME TreeEndKnown, ~misled' PROVE AtTreeEnd'
    <2>1. pos' = tree'.end /\ tree'.end = YamlEnd
      BY <1>1, <1>4, <1>5, <1>6 DEF TreeEndKnown
    <2>2. DocMark' = DocMark /\ Kind(DocMark)' = Kind(DocMark)
      BY <1>1, <1>5, DocMarkKept
    <2>3. Kind(DocMark) = "docend" => YamlEnd = DocMark + 1
      BY DEF YamlEnd
    <2>4. QED
      BY <2>1, <2>2, <2>3 DEF AtTreeEnd
  <1>7. QED
    BY <1>1, <1>2, <1>5, <1>6 DEF TreeInv

\* The parser stays where it is.
LEMMA EndKept ==
    ASSUME TreeInv, UNCHANGED <<fixed, tree, state, pos, misled>>
    PROVE  TreeInv'
  <1>1. TreeEndKnown' = TreeEndKnown /\ Kind(pos)' = Kind(pos) /\ EOF' = EOF /\ file' = file
    BY FixedKept DEF Kind, EOF, fixed
  <1>2. AtTreeEnd' = AtTreeEnd
    BY DocMarkKept DEF AtTreeEnd
  <1>3. QED
    BY <1>1, <1>2 DEF TreeInv

\* No step leaves the end of the tree.
LEMMA TreeInvNext == TreeInv /\ [Next]_vars => TreeInv'
  <1> SUFFICES ASSUME TreeInv, [Next]_vars PROVE TreeInv'
    OBVIOUS
  <1>0. file \in Files /\ tree \in TreeType
    BY DEF TreeInv
  <1>1. ASSUME UNCHANGED <<fixed, tree>>,
               state' \in {"ASDF_VERSION", "STANDARD_VERSION", "COMMENT", "BLOCK_INDEX",
                           "TREE_OR_BLOCK"} =>
                  state \in {"ASDF_VERSION", "STANDARD_VERSION", "COMMENT", "BLOCK_INDEX",
                             "TREE_OR_BLOCK"},
               state' \notin {"TREE", "YAML", "PADDING"}
        PROVE  TreeInv'
    BY <1>0, <1>1, FixedKept DEF TreeInv
  <1>2. CASE UNCHANGED vars
    <2>1. UNCHANGED <<fixed, tree, state, pos, misled>>
      BY <1>2 DEF vars, fixed
    <2>2. QED
      BY <2>1, EndKept
  <1>3. CASE ParseAsdfVersion \/ ParseStandardVersion
    BY <1>1, <1>3 DEF ParseAsdfVersion, ParseStandardVersion, ParseVersion, Fail, treeVars
  <1>4. CASE ParseComment \/ NoBlockIndex \/ CorruptBlockIndex
    BY <1>1, <1>4 DEF ParseComment, NoBlockIndex, CorruptBlockIndex, SetBack, treeVars
  <1>5. CASE ParseBlockIndex
    BY <1>1, <1>5 DEF ParseBlockIndex, SetBack, treeVars
  <1>6. CASE FindTree
    <2>1. /\ state = "TREE_OR_BLOCK" /\ state' = "TREE" /\ UNCHANGED fixed
          /\ pos' = NextPart /\ Kind(NextPart) = "directive"
          /\ tree' = [tree EXCEPT !.start = Tell(NextPart, lost'), !.has = 1]
          /\ (~misled' => ~lost')
      BY <1>6 DEF FindTree, TreeOrBlock
    <2>2. NextPart \in Nat /\ NextPart \in 1 .. EOF /\ EOF' = EOF
      <3>1. NextPart \in 1 .. EOF - 1 /\ EOF \in Nat
        BY <1>0, <2>1, ScanFinds DEF Kind
      <3>2. QED
        BY <2>1, <3>1, FixedKept
    <2>3. /\ tree' \in TreeType /\ tree'.found = tree.found /\ tree'.done = tree.done
          /\ (~misled' => tree'.start = NextPart)
      <3>1. Tell(NextPart, lost') \in Int /\ (~lost' => Tell(NextPart, lost') = NextPart)
        BY <2>2, TellType
      <3>2. QED
        BY <1>0, <2>1, <3>1, TreeUpdates
    <2>4. Kind(pos)' = "directive" /\ file' = file
      <3> DEFINE n == NextPart
      <3>1. PICK q : q = NextPart
        OBVIOUS
      <3>2. Kind(q)' = Kind(q) /\ file' = file
        BY <2>1, FixedKept
      <3>3. QED
        BY <2>1, <3>1, <3>2
    <2>5. QED
      BY <1>0, <2>1, <2>2, <2>3, <2>4 DEF TreeInv
  <1>7. CASE FindBlock
    <2>1. /\ state' = "BLOCK" /\ UNCHANGED fixed /\ tree' = [tree EXCEPT !.has = 0]
      BY <1>7 DEF FindBlock, TreeOrBlock
    <2>2. tree' \in TreeType /\ tree'.found = tree.found /\ tree'.done = tree.done
      BY <1>0, <2>1, TreeUpdates
    <2>3. QED
      BY <2>1, <2>2, FixedKept DEF TreeInv
  <1>8. CASE FindNothing
    BY <1>1, <1>8 DEF FindNothing, TreeOrBlock
  <1>9. CASE FindFalseIndex \/ FindBadDirective \/ TreeFalseEnd
    BY <1>1, <1>9 DEF FindFalseIndex, FindBadDirective, TreeFalseEnd, GoesRound, treeVars
  <1>10. CASE ParseTreeFast
    BY <1>10, TreeFastEnd
  <1>11. CASE ParseTreeYaml
    <2>1. /\ state = "TREE" /\ state' = "YAML" /\ UNCHANGED <<fixed, tree, misled>>
      BY <1>11 DEF ParseTreeYaml, treeVars, told
    <2>2. QED
      BY <2>1, FixedKept DEF TreeInv
  <1>12. CASE YamlAbort \/ YamlError
    BY <1>1, <1>12 DEF YamlAbort, YamlError, Fail, treeVars
  <1>13. CASE YamlEvent
    <2>1. UNCHANGED <<fixed, tree, state, pos, misled>>
      BY <1>13 DEF YamlEvent, told
    <2>2. QED
      BY <2>1, EndKept
  <1>14. CASE YamlDocumentEnd
    BY <1>14, DocumentEnd
  <1>15. CASE YamlStreamEnd
    <2>1. /\ state = "YAML" /\ UNCHANGED <<fixed, state, pos, misled>> /\ tree.found
          /\ tree' = [tree EXCEPT !.done = TRUE]
      BY <1>15 DEF YamlStreamEnd, told
    <2>2. /\ tree' \in TreeType /\ tree'.found = tree.found /\ tree'.end = tree.end
          /\ tree'.start = tree.start
      BY <1>0, <2>1, TreeUpdates
    <2>3. AtTreeEnd' = AtTreeEnd
      BY <2>1, <2>2, DocMarkKept DEF AtTreeEnd
    <2>4. QED
      BY <2>1, <2>2, <2>3, FixedKept DEF TreeInv
  <1>16. CASE YamlTreeEnd
    <2>1. /\ state = "YAML" /\ state' = "PADDING" /\ tree.done
          /\ UNCHANGED <<fixed, pos, tree, misled>>
      BY <1>16 DEF YamlTreeEnd, treeVars, told
    <2>2. AtTreeEnd' = AtTreeEnd
      BY <2>1, DocMarkKept DEF AtTreeEnd
    <2>3. QED
      BY <2>1, <2>2, FixedKept DEF TreeInv
  <1>17. CASE ParsePadding \/ ParseEnd \/ ParseError
    BY <1>1, <1>17 DEF ParsePadding, ParseEnd, ParseError, treeVars
  <1>18. CASE NoMoreBlocks
    BY <1>1, <1>18 DEF NoMoreBlocks, treeVars
  <1>19. CASE ParseBlock
    <2>1. /\ UNCHANGED <<fixed, tree>> /\ state' \in {"BLOCK", "ERROR"}
      BY <1>19 DEF ParseBlock, treeVars
    <2>2. QED
      BY <1>1, <2>1
  <1>20. QED
    BY <1>2, <1>3, <1>4, <1>5, <1>6, <1>7, <1>8, <1>9, <1>10, <1>11, <1>12, <1>13, <1>14,
       <1>15, <1>16, <1>17, <1>18, <1>19 DEF Next

\* For every file, stream and option the stream is at the end of the tree when the
\* parser goes on to what follows it, however far libfyaml has read, and if there is
\* a document end marker before the first block that is behind it; unless the stream
\* has told the parser a wrong position.
THEOREM TreeEndReached == Spec => []SoundTreeEndIsPos
  <1>1. Init => TreeInv
    <2> SUFFICES ASSUME Init PROVE TreeInv
      OBVIOUS
    <2>1. /\ file \in Files /\ state = "ASDF_VERSION"
          /\ tree = [start |-> 0, end |-> 0, found |-> FALSE, done |-> FALSE, has |-> -1]
      BY Zenon DEF Init
    <2>2. tree \in TreeType /\ ~tree.found /\ ~tree.done
      BY <2>1 DEF TreeType
    <2>3. QED
      BY <2>1, <2>2 DEF TreeInv
  <1>2. TreeInv => SoundTreeEndIsPos
    BY DEF TreeInv, SoundTreeEndIsPos, TreeEndIsPos, AtTreeEnd
  <1>3. QED
    BY <1>1, <1>2, TreeInvNext, PTL DEF Spec

-----------------------------------------------------------------------------
(* The blocks *)

\* The parser's states before it looks for blocks.
Early == {"ASDF_VERSION", "STANDARD_VERSION", "COMMENT", "BLOCK_INDEX", "TREE_OR_BLOCK",
          "TREE", "YAML", "PADDING"}

\* A file whose blocks can be found, as far as it is known in a state, and a stream
\* that has not misled the parser.
Sound == StreamSuffices /\ IndexHarmless /\ WellFormed /\ ~misled

\* No block comes before item p.
Clear(p) == \A q \in 1 .. EOF - 1 : q < p => Kind(q) \notin Magic

RightIndex ==
    Increasing(file.index) /\ {file.index[i] : i \in DOMAIN file.index} = FileBlocks

\* Before blocks are looked for none was passed by.
Untouched ==
    /\ state \in Early => blocks = <<>> /\ Clear(pos)
    /\ state \in {"ASDF_VERSION", "STANDARD_VERSION", "COMMENT", "BLOCK_INDEX"} => ~hasIndex
    /\ state \in {"TREE", "YAML"} => Clear(tree.start)
    /\ state = "ASDF_VERSION" => pos = 1
    /\ state = "STANDARD_VERSION" => pos = 2

\* The blocks reported are those before the stream's position, and nothing is to
\* be found behind a streamed block.
Passed ==
    /\ Increasing(blocks)
    /\ {blocks[i] : i \in DOMAIN blocks} = {q \in FileBlocks : q < pos}
    /\ \A r \in 1 .. EOF - 1 : r < pos /\ Kind(r) = "streamed" => Hits(Magic, pos) = {}

\* The infos are those of the blocks reported; with an index that was taken from
\* the file there are as many as it has entries.
Listed ==
    /\ ~hasIndex => infos = blocks
    /\ hasIndex => /\ RightIndex /\ index = file.index /\ icap = Len(index)
                   /\ Len(infos) = Len(index) /\ Len(blocks) = found /\ found <= Len(index)
                   /\ \A i \in 1 .. found : blocks[i] = index[i] /\ infos[i] = index[i]
                   /\ found < count /\ found < Len(index) => infos[found + 1] = index[found + 1]

AllFound ==
    /\ blocks = infos /\ Increasing(blocks)
    /\ {blocks[i] : i \in DOMAIN blocks} = FileBlocks

SoundInv ==
    /\ state # "ERROR" /\ err = FALSE /\ pos \in Nat
    /\ Untouched /\ Listed
    /\ state = "BLOCK" => Passed
    /\ state = "END" => AllFound

\* Every block is reported as the stream comes by it, whether a scan or the index
\* leads there.
SearchInv ==
    /\ file \in Files /\ tree \in TreeType
    /\ state \in {"ASDF_VERSION", "STANDARD_VERSION", "COMMENT", "BLOCK_INDEX",
                  "TREE_OR_BLOCK"} => tree.start = 0
    /\ ~misled /\ state \in {"TREE", "YAML"} => tree.start \in 1 .. EOF
    /\ Sound => SoundInv

\* Nor does what lies in it, from any item on.
LEMMA ScanKept ==
    ASSUME UNCHANGED fixed, NEW K, NEW p
    PROVE  /\ Hits(K, p)' = Hits(K, p) /\ ScanTo(K, p)' = ScanTo(K, p)
           /\ Clear(p)' = Clear(p) /\ RightIndex' = RightIndex
  <1>1. file' = file /\ EOF' = EOF /\ \A q : Kind(q)' = Kind(q)
    BY FixedKept
  <1>2. Hits(K, p)' = Hits(K, p)
    BY <1>1 DEF Hits
  <1>3. ScanTo(K, p)' = ScanTo(K, p)
    BY <1>1, <1>2 DEF ScanTo
  <1>4. Clear(p)' = Clear(p)
    BY <1>1 DEF Clear
  <1>5. RightIndex' = RightIndex
    BY <1>1, FixedKept DEF RightIndex, Increasing
  <1>6. QED
    BY <1>2, <1>3, <1>4, <1>5

\* What is known of a file only grows: the directive of its tree.
LEMMA SoundBefore ==
    ASSUME UNCHANGED fixed, tree'.start = tree.start \/ tree.start = 0, misled => misled', Sound'
    PROVE  Sound
  <1>1. /\ StreamSuffices /\ IndexHarmless /\ WellFormed' /\ ~misled
        /\ file' = file /\ FileBlocks' = FileBlocks /\ Emitting' = Emitting
        /\ \A q : Kind(q)' = Kind(q)
    BY FixedKept DEF Sound
  <1>2. Buffering' = Buffering
    BY DEF Buffering, fixed
  <1>3. Kind(1) = "asdf" /\ Kind(2) = "std" /\ \A p \in FileBlocks : Kind(p) \in {"block", "streamed"}
    BY <1>1 DEF WellFormed
  <1>4. ASSUME Emitting, tree.start > 0 PROVE ~YamlFails
    <2>1. tree'.start = tree.start
      BY <1>4
    <2>2. ~YamlFails'
      BY <1>1, <1>4, <2>1 DEF WellFormed
    <2>3. Kind(DocMark)' = Kind(DocMark)
      BY <2>1, DocMarkKept
    <2>4. QED
      BY <1>1, <1>2, <2>2, <2>3 DEF YamlFails
  <1>5. QED
    BY <1>1, <1>3, <1>4 DEF Sound, WellFormed

\* A scan that stops at blocks passes none, and neither does a step over an item
\* that is none.
LEMMA ClearOn ==
    ASSUME file \in Files, NEW p, p \in Nat, Clear(p)
    PROVE  /\ \A K : Magic \subseteq K =>
                  ScanTo(K, p) \in Nat /\ Clear(ScanTo(K, p))
           /\ Kind(p) \notin Magic => Clear(p + 1)
  <1>1. EOF \in Nat \ {0}
    BY ScanFinds
  <1>2. ASSUME NEW K, Magic \subseteq K
        PROVE  ScanTo(K, p) \in Nat /\ Clear(ScanTo(K, p))
    <2>1. ScanTo(K, p) \in Nat
      BY ScanType
    <2>2. ASSUME NEW q \in 1 .. EOF - 1, q < ScanTo(K, p), Kind(q) \in Magic, q >= p
          PROVE  FALSE
      <3>1. q \in Hits(K, p)
        BY <1>2, <2>2 DEF Hits
      <3>2. ScanTo(K, p) <= q
        BY <3>1, ScanFinds
      <3>3. QED
        BY <1>1, <2>1, <2>2, <3>2
    <2>3. \A q \in 1 .. EOF - 1 : q < ScanTo(K, p) => Kind(q) \notin Magic
      <3> SUFFICES ASSUME NEW q \in 1 .. EOF - 1, q < ScanTo(K, p), Kind(q) \in Magic
                   PROVE  FALSE
        OBVIOUS
      <3>1. CASE q < p
        BY <3>1 DEF Clear
      <3>2. CASE q >= p
        BY <2>2, <3>2
      <3>3. QED
        BY <1>1, <3>1, <3>2
    <2>4. QED
      BY <2>1, <2>3 DEF Clear
  <1>3. ASSUME Kind(p) \notin Magic PROVE Clear(p + 1)
    <2> SUFFICES ASSUME NEW q \in 1 .. EOF - 1, q < p + 1 PROVE Kind(q) \notin Magic
      BY DEF Clear
    <2>1. q < p \/ q = p
      BY <1>1
    <2>2. QED
      BY <1>3, <2>1 DEF Clear
  <1>4. QED
    BY <1>2, <1>3

\* The lists of blocks mean the same while nothing is done to them.
LEMMA ListedKept ==
    ASSUME Listed, UNCHANGED <<fixed, blockVars>>
    PROVE  Listed'
  <1>1. RightIndex' = RightIndex /\ file' = file
    BY ScanKept, FixedKept
  <1>2. UNCHANGED <<index, icap, hasIndex, infos, count, found, blocks>>
    BY DEF blockVars
  <1>3. QED
    BY <1>1, <1>2 DEF Listed

\* Before the blocks a step need only leave the stream where none has been passed.
LEMMA EarlyStep ==
    ASSUME SoundInv, UNCHANGED fixed, blocks' = blocks, Listed',
           state \in Early, state' \in Early, err' = FALSE, pos' \in Nat, Clear(pos)',
           state' \in {"TREE", "YAML"} => Clear(tree.start)',
           state' \in {"ASDF_VERSION", "STANDARD_VERSION", "COMMENT", "BLOCK_INDEX"} =>
              ~hasIndex',
           state' = "ASDF_VERSION" => pos' = 1,
           state' = "STANDARD_VERSION" => pos' = 2
    PROVE  SoundInv'
  <1>1. Untouched'
    BY DEF Untouched, SoundInv
  <1>2. QED
    BY <1>1 DEF SoundInv, Early

\* Where no block comes before the stream's position and none was reported, none
\* is missing.
LEMMA PassedAtFirst ==
    ASSUME file \in Files, NEW p, p \in Nat, Clear(p)
    PROVE  /\ {q \in FileBlocks : q < p} = {}
           /\ \A r \in 1 .. EOF - 1 : r < p => Kind(r) # "streamed"
  BY DEF Clear, FileBlocks, Magic, Readable

\* The first block is looked for where none was passed.
LEMMA BlocksBegin ==
    ASSUME SearchInv, SoundInv, state \in Early, state' = "BLOCK",
           UNCHANGED <<fixed, blockVars, err>>, pos' \in Nat, Clear(pos)'
    PROVE  SoundInv'
  <1>1. file' = file /\ FileBlocks' = FileBlocks /\ EOF' = EOF /\ \A q : Kind(q)' = Kind(q)
    BY FixedKept
  <1>2. blocks' = <<>> /\ Listed'
    BY ListedKept DEF SoundInv, Untouched, blockVars
  <1>3. PICK n : n = pos'
    OBVIOUS
  <1>4. Clear(n)
    <2>1. Clear(n)' = Clear(n)
      BY ScanKept
    <2>2. QED
      BY <1>3, <2>1
  <1>5. /\ {q \in FileBlocks : q < n} = {}
        /\ \A r \in 1 .. EOF - 1 : r < n => Kind(r) # "streamed"
    BY <1>3, <1>4, PassedAtFirst DEF SearchInv
  <1>6. Passed'
    <2>1. Increasing(blocks)'
      BY <1>2 DEF Increasing
    <2>2. {blocks'[i] : i \in DOMAIN blocks'} = {}
      BY <1>2
    <2>3. {q \in FileBlocks' : q < pos'} = {}
      BY <1>1, <1>3, <1>5
    <2>4. \A r \in 1 .. EOF' - 1 : ~(r < pos' /\ Kind(r)' = "streamed")
      BY <1>1, <1>3, <1>5
    <2>5. QED
      BY <2>1, <2>2, <2>3, <2>4 DEF Passed
  <1>7. QED
    BY <1>2, <1>6 DEF SoundInv, Untouched, Early

\* A parser that goes round finds nothing any more.
LEMMA NothingAfter ==
    ASSUME SoundInv, NEW q, q \in Nat, GoesRound(q)
    PROVE  SoundInv'
  <1>1. state' = "HANG" /\ pos' \in Nat /\ err' = FALSE /\ Listed'
    BY ListedKept DEF GoesRound, SoundInv
  <1>2. QED
    BY <1>1 DEF SoundInv, Untouched, Early

\* The header's lines and the comments are passed.
LEMMA HeaderClear ==
    ASSUME SearchInv, Sound, SoundInv,
           ParseAsdfVersion \/ ParseStandardVersion \/ ParseComment
    PROVE  SoundInv'
  <1>1. file \in Files /\ EOF \in Nat \ {0} /\ pos \in Nat /\ err = FALSE /\ UNCHANGED <<fixed, blockVars>>
    BY ScanFinds DEF SearchInv, SoundInv, ParseAsdfVersion, ParseStandardVersion, ParseComment,
       ParseVersion, Fail
  <1>2. Listed' /\ blocks' = blocks /\ hasIndex' = hasIndex
    BY <1>1, ListedKept DEF SoundInv, blockVars
  <1>3. Kind(1) = "asdf" /\ Kind(2) = "std" /\ 1 \in 1 .. EOF - 1 /\ 2 \in 1 .. EOF - 1
    <2>1. Kind(1) = "asdf" /\ Kind(2) = "std"
      BY DEF Sound, WellFormed
    <2>2. QED
      BY <2>1 DEF Kind
  <1>4. state \in {"ASDF_VERSION", "STANDARD_VERSION", "COMMENT"} /\ Clear(pos) /\ ~hasIndex
    BY DEF ParseAsdfVersion, ParseStandardVersion, ParseComment, ParseVersion, SoundInv,
       Untouched, Early
  <1>5. /\ err' = FALSE /\ pos' \in {pos, pos + 1} /\ (pos' # pos => Kind(pos) \notin Magic)
        /\ state' \in {"STANDARD_VERSION", "COMMENT", "BLOCK_INDEX"}
        /\ (state' = "STANDARD_VERSION" => pos' = 2)
    <2>1. CASE ParseAsdfVersion
      <3>1. state = "ASDF_VERSION" /\ pos = 1
        BY <2>1 DEF ParseAsdfVersion, ParseVersion, SoundInv, Untouched
      <3>2. pos' = 2 /\ state' = "STANDARD_VERSION" /\ err' = err
        BY <1>1, <1>3, <2>1, <3>1 DEF ParseAsdfVersion, ParseVersion
      <3>3. QED
        BY <1>1, <1>3, <3>1, <3>2 DEF Magic, Readable
    <2>2. CASE ParseStandardVersion
      <3>1. state = "STANDARD_VERSION" /\ pos = 2
        BY <2>2 DEF ParseStandardVersion, ParseVersion, SoundInv, Untouched
      <3>2. pos' = 3 /\ state' = "COMMENT" /\ err' = err
        BY <1>1, <1>3, <2>2, <3>1 DEF ParseStandardVersion, ParseVersion
      <3>3. QED
        BY <1>1, <1>3, <3>1, <3>2 DEF Magic, Readable
    <2>3. CASE ParseComment
      BY <1>1, <2>3 DEF ParseComment, Magic, Readable
    <2>4. QED
      BY <2>1, <2>2, <2>3
  <1>6. Clear(pos)'
    <2>1. PICK n : n = pos'
      OBVIOUS
    <2>2. Clear(n)
      <3>1. CASE n = pos
        BY <1>4, <3>1
      <3>2. CASE n # pos
        <4>1. n = pos + 1 /\ Kind(pos) \notin Magic
          BY <1>5, <2>1, <3>2
        <4>2. QED
          BY <1>1, <1>4, <4>1, ClearOn
      <3>3. QED
        BY <3>1, <3>2
    <2>3. Clear(n)' = Clear(n)
      BY <1>1, ScanKept
    <2>4. QED
      BY <2>1, <2>2, <2>3
  <1>7. QED
    <2>1. pos' \in Nat
      BY <1>1, <1>5
    <2>2. /\ state \in Early /\ state' \in Early /\ state' \notin {"TREE", "YAML"}
          /\ state' # "ASDF_VERSION" /\ ~hasIndex' /\ UNCHANGED fixed
      BY <1>1, <1>2, <1>4, <1>5 DEF Early
    <2>3. err' = FALSE /\ (state' = "STANDARD_VERSION" => pos' = 2)
      BY <1>5
    <2>4. QED
      BY <1>2, <1>6, <2>1, <2>2, <2>3, EarlyStep

\* An index that is harmless is found out without an error, or it is right.
LEMMA IndexJudged ==
    ASSUME file \in Files, Sound, err = FALSE, HasIndex,
           file.indexOK, Pushed = file.index
    PROVE  /\ ErrAfterIndex = FALSE
           /\ IndexValid <=> ~IndexFoundOut
           /\ IndexValid => RightIndex
  <1> DEFINE s == file.index
  <1>2. s \in Seq(Int)
    BY ParserAssumption
  <1>3. ASSUME IndexFoundOut PROVE ErrAfterIndex = FALSE /\ ~IndexValid
    <2>1. s # <<>> /\ 1 \in DOMAIN s /\ Len(s) \in DOMAIN s
      BY <1>2, <1>3 DEF IndexFoundOut
    <2>2. \A i \in DOMAIN s : ~SeekFails(s[i]) /\ Kind(s[i]) # "badblock"
      BY <1>3 DEF IndexFoundOut
    <2>3. \A i \in DOMAIN s : ~ErrAfter(s[i], err)
      BY <2>2 DEF ErrAfter, Reads, Magic
    <2>4. ~Increasing(s) \/ Kind(s[1]) \notin Magic \/ Kind(s[Len(s)]) \notin Magic
      BY <1>3 DEF IndexFoundOut
    <2>5. ~IndexValid
      BY <2>1, <2>4 DEF IndexValid, Valid
    <2>6. ErrAfter(s[1], err) = FALSE /\ ErrAfter(s[Len(s)], err) = FALSE
      BY <2>1, <2>3 DEF ErrAfter
    <2>7. ErrAfterIndex = FALSE
      BY <2>6 DEF ErrAfterIndex
    <2>8. QED
      BY <2>5, <2>7
  <1>4. ASSUME ~IndexFoundOut PROVE ErrAfterIndex = FALSE /\ IndexValid /\ RightIndex
    <2>1. RightIndex
      BY <1>4 DEF Sound, IndexHarmless, RightIndex
    <2>2. CASE s = <<>>
      BY <2>1, <2>2 DEF ErrAfterIndex, IndexValid
    <2>3. CASE s # <<>>
      <3>1. 1 \in DOMAIN s /\ Len(s) \in DOMAIN s /\ Increasing(s)
        BY <1>2, <2>1, <2>3 DEF RightIndex
      <3>2. \A i \in DOMAIN s : s[i] \in FileBlocks
        BY <2>1 DEF RightIndex
      <3>3. \A p \in FileBlocks : p \in 1 .. EOF - 1 /\ Kind(p) \in Readable
        BY DEF Sound, WellFormed, FileBlocks, Readable
      <3>4. \A i \in DOMAIN s : Valid(s[i], err) /\ ErrAfter(s[i], err) = FALSE
        <4> SUFFICES ASSUME NEW i \in DOMAIN s PROVE Valid(s[i], err) /\ ~ErrAfter(s[i], err)
          BY DEF ErrAfter
        <4>1. s[i] \in 1 .. EOF - 1 /\ Kind(s[i]) \in Readable
          BY <3>2, <3>3
        <4>2. EOF \in Nat
          BY ScanFinds
        <4>3. ~SeekFails(s[i])
          BY <4>1, <4>2 DEF SeekFails
        <4>4. QED
          BY <4>1, <4>3 DEF Valid, ErrAfter, Reads, Magic
      <3>5. QED
        BY <2>1, <2>3, <3>1, <3>4 DEF ErrAfterIndex, IndexValid
    <2>4. QED
      BY <2>2, <2>3
  <1>5. QED
    BY <1>3, <1>4

\* The block index leaves the lists empty or, if it is used, as long as it is.
LEMMA IndexTaken ==
    ASSUME SearchInv, IndexInv, Sound, SoundInv, NoBlockIndex \/ CorruptBlockIndex \/ ParseBlockIndex
    PROVE  SoundInv'
  <1>1. /\ file \in Files /\ state = "BLOCK_INDEX" /\ state' = "TREE_OR_BLOCK" /\ pos \in Nat /\ err = FALSE
        /\ UNCHANGED <<fixed, blocks, found, outside>> /\ ~hasIndex /\ Clear(pos)
        /\ blocks = <<>> /\ infos = <<>> /\ found = 0
    <2>1. state = "BLOCK_INDEX"
      BY DEF NoBlockIndex, CorruptBlockIndex, ParseBlockIndex, SetBack
    <2>2. ~hasIndex /\ Clear(pos) /\ blocks = <<>>
      BY <2>1 DEF SoundInv, Untouched, Early
    <2>3. infos = <<>> /\ found = 0
      BY <2>1, <2>2 DEF SoundInv, Listed, IndexInv, VectorSizes
    <2>4. QED
      BY <2>1, <2>2, <2>3 DEF NoBlockIndex, CorruptBlockIndex, ParseBlockIndex, SearchInv, SoundInv, blockVars
  <1>2. pos' \in Nat /\ Clear(pos)'
    <2>1. PICK n : n = pos'
      OBVIOUS
    <2>2. n = pos \/ n \in 1 .. pos
      BY <2>1 DEF NoBlockIndex, CorruptBlockIndex, ParseBlockIndex, SetBack, BehindComments
    <2>3. n \in Nat /\ n <= pos
      BY <1>1, <2>2
    <2>4. Clear(n)
      <3>1. EOF \in Nat
        BY <1>1, ScanFinds
      <3>2. QED
        BY <1>1, <2>3, <3>1 DEF Clear
    <2>5. Clear(n)' = Clear(n)
      BY <1>1, ScanKept
    <2>6. QED
      BY <2>1, <2>3, <2>4, <2>5
  <1>3. ASSUME err' = FALSE, ~hasIndex', infos' = infos PROVE SoundInv'
    <2>1. Listed'
      BY <1>1, <1>3 DEF Listed
    <2>2. QED
      BY <1>1, <1>2, <1>3, <2>1, EarlyStep DEF Early
  <1>4. CASE NoBlockIndex \/ CorruptBlockIndex
    BY <1>1, <1>3, <1>4 DEF NoBlockIndex, CorruptBlockIndex, blockVars
  <1>5. CASE ParseBlockIndex
    <2>1. ErrAfterIndex = FALSE /\ (IndexValid => RightIndex)
      BY <1>1, <1>5, IndexJudged DEF ParseBlockIndex
    <2>2. err' = FALSE
      <3>1. err' = ErrAfterIndex
        BY <1>5 DEF ParseBlockIndex
      <3>2. QED
        BY <2>1, <3>1
    <2>3. CASE ~IndexValid
      <3>1. hasIndex' = hasIndex /\ infos' = infos
        BY <1>5, <2>3 DEF ParseBlockIndex
      <3>2. QED
        BY <1>1, <1>3, <2>2, <3>1
    <2>4. CASE IndexValid
      <3> DEFINE s == file.index
                 t == [i \in DOMAIN s |-> IF i \in {1, Len(s)} THEN s[i] ELSE 0]
      <3>1. s \in Seq(Int)
        BY <1>1, ParserAssumption
      <3>2. /\ hasIndex' = TRUE /\ infos' = t /\ index' = s /\ icap' = Len(s)
        BY <1>5, <2>4 DEF ParseBlockIndex
      <3>3. Len(t) = Len(s) /\ (0 < Len(s) => t[1] = s[1])
        BY <3>1
      <3> HIDE DEF t
      <3>4. Len(blocks) = 0 /\ found = 0 /\ Len(s) \in Nat
        BY <1>1, <3>1
      <3>5. RightIndex' /\ file' = file
        BY <1>1, <2>1, <2>4, ScanKept, FixedKept
      <3>6. Listed'
        BY <1>1, <3>2, <3>3, <3>4, <3>5 DEF Listed
      <3>7. QED
        BY <1>1, <1>2, <2>2, <3>6, EarlyStep DEF Early
    <2>5. QED
      BY <2>3, <2>4
  <1>6. QED
    BY <1>4, <1>5

\* What is clear before a step is clear after it.
LEMMA ClearNext ==
    ASSUME UNCHANGED fixed, NEW n, Clear(n)
    PROVE  /\ pos' = n => Clear(pos)'
           /\ tree'.start = n => Clear(tree.start)'
  <1>1. Clear(n)' = Clear(n)
    BY ScanKept
  <1>2. QED
    BY <1>1

\* Without a tree or a block nothing is missing at the end.
LEMMA NothingFound ==
    ASSUME SearchInv, IndexInv, Sound, SoundInv, FindNothing
    PROVE  SoundInv'
  <1>1. /\ state = "TREE_OR_BLOCK" /\ state' = "END" /\ UNCHANGED <<fixed, blockVars, err>>
        /\ pos' = EOF /\ NextPart = EOF /\ file \in Files
    BY DEF FindNothing, TreeOrBlock, SearchInv
  <1>2. blocks = <<>> /\ Clear(pos) /\ err = FALSE /\ pos \in Nat /\ Listed
    BY <1>1 DEF SoundInv, Untouched, Early
  <1>3. EOF \in Nat /\ Clear(EOF)
    <2>1. Magic \subseteq {"directive", "baddirective"} \cup Magic
      OBVIOUS
    <2>2. QED
      BY <1>1, <1>2, <2>1, ClearOn DEF NextPart
  <1>4. FileBlocks = {}
    BY <1>3 DEF FileBlocks, Clear
  <1>5. infos = <<>>
    <2>1. CASE ~hasIndex
      BY <1>2, <2>1 DEF Listed
    <2>2. CASE hasIndex
      <3>1. /\ {index[i] : i \in DOMAIN index} = {} /\ index \in Seq(Int) /\ infos \in Seq(Int)
            /\ Len(infos) = Len(index)
        BY <1>2, <1>4, <2>2 DEF Listed, RightIndex, IndexInv, VectorTypes
      <3>2. Len(index) = 0
        <4>1. 1 \notin DOMAIN index
          BY <3>1
        <4>2. QED
          BY <3>1, <4>1
      <3>3. QED
        BY <3>1, <3>2
    <2>3. QED
      BY <2>1, <2>2
  <1>6. AllFound'
    <2>1. blocks' = <<>> /\ infos' = <<>> /\ FileBlocks' = {}
      BY <1>1, <1>2, <1>4, <1>5, FixedKept DEF blockVars
    <2>2. QED
      BY <2>1 DEF AllFound, Increasing
  <1>7. Listed'
    BY <1>1, <1>2, ListedKept
  <1>8. QED
    BY <1>1, <1>2, <1>3, <1>6, <1>7 DEF SoundInv, Untouched, Early

\* The scan for the tree stops at the first block.
LEMMA TreeSought ==
    ASSUME SearchInv, IndexInv, Sound, SoundInv, ~misled', FindTree \/ FindBlock
    PROVE  SoundInv'
  <1>1. /\ state = "TREE_OR_BLOCK" /\ UNCHANGED <<fixed, blockVars, err>>
        /\ pos' = NextPart /\ file \in Files
    BY DEF FindTree, FindBlock, TreeOrBlock, SearchInv
  <1>2. blocks = <<>> /\ Clear(pos) /\ err = FALSE /\ pos \in Nat /\ Listed
    BY <1>1 DEF SoundInv, Untouched, Early
  <1>3. NextPart \in Nat /\ Clear(NextPart)
    <2>1. Magic \subseteq {"directive", "baddirective"} \cup Magic
      OBVIOUS
    <2>2. QED
      BY <1>1, <1>2, <2>1, ClearOn DEF NextPart
  <1>4. pos' \in Nat /\ Clear(pos)' /\ err' = FALSE /\ blocks' = blocks
    <2>1. PICK n : n = NextPart
      OBVIOUS
    <2>2. Clear(pos)'
      BY <1>1, <1>3, <2>1, ClearNext
    <2>3. QED
      BY <1>1, <1>2, <1>3, <2>2 DEF blockVars
  <1>5. Listed'
    BY <1>1, <1>2, ListedKept
  <1>6. CASE FindTree
    <2>1. /\ state' = "TREE" /\ ~lost'
          /\ tree' = [tree EXCEPT !.start = Tell(NextPart, lost'), !.has = 1]
      BY <1>6 DEF FindTree
    <2>2. tree'.start = NextPart
      <3>1. Tell(NextPart, lost') = NextPart /\ NextPart \in Int
        BY <1>3, <2>1, TellType
      <3>2. QED
        BY <2>1, <3>1, TreeUpdates DEF SearchInv
    <2>3. Clear(tree.start)'
      <3>1. PICK n : n = NextPart
        OBVIOUS
      <3>2. QED
        BY <1>1, <1>3, <2>2, <3>1, ClearNext
    <2>4. state \in Early /\ state' \in Early
      BY <1>1, <2>1 DEF Early
    <2>5. QED
      BY <1>1, <1>4, <1>5, <2>1, <2>3, <2>4, EarlyStep
  <1>7. CASE FindBlock
    <2>1. state' = "BLOCK" /\ state \in Early
      BY <1>1, <1>7 DEF FindBlock, Early
    <2>2. QED
      BY <1>1, <1>4, <2>1, BlocksBegin
  <1>8. QED
    BY <1>6, <1>7

\* The search for the end of a tree passes no block.
LEMMA TreePassed ==
    ASSUME SearchInv, IndexInv, Sound, SoundInv, ParseTreeFast \/ ParseTreeYaml
    PROVE  SoundInv'
  <1>1. state = "TREE" /\ UNCHANGED <<fixed, blockVars>> /\ file \in Files /\ state \in Early
    BY DEF ParseTreeFast, ParseTreeYaml, Fail, SearchInv, Early
  <1>2. /\ blocks = <<>> /\ Clear(pos) /\ Clear(tree.start) /\ err = FALSE /\ pos \in Nat
        /\ Listed /\ blocks' = blocks
    BY <1>1 DEF SoundInv, Untouched, blockVars
  <1>3. Listed'
    BY <1>1, <1>2, ListedKept
  <1>4. TreeMark \in Nat /\ Clear(TreeMark)
    <2>1. Magic \subseteq {"docend", "falseend"} \cup Magic
      OBVIOUS
    <2>2. QED
      BY <1>1, <1>2, <2>1, ClearOn DEF TreeMark
  <1>5. PosAfterTree \in Nat /\ Clear(PosAfterTree)
    <2>1. CASE Kind(TreeMark) = "docend"
      <3>1. Kind(TreeMark) \notin Magic
        BY <2>1 DEF Magic, Readable
      <3>2. Clear(TreeMark + 1)
        BY <1>1, <1>4, <3>1, ClearOn
      <3>3. QED
        BY <1>4, <2>1, <3>2 DEF PosAfterTree
    <2>2. CASE Kind(TreeMark) # "docend"
      BY <1>4, <2>2 DEF PosAfterTree
    <2>3. QED
      BY <2>1, <2>2
  <1>6. ASSUME tree'.start = tree.start, state' \in {"TREE", "YAML", "PADDING"}, err' = err,
               NEW n, n \in Nat, Clear(n), pos' = n
        PROVE  SoundInv'
    <2>1. Clear(pos)' /\ pos' \in Nat /\ err' = FALSE
      BY <1>1, <1>2, <1>6, ClearNext
    <2>2. Clear(tree.start)'
      <3>1. PICK m : m = tree.start
        OBVIOUS
      <3>2. QED
        BY <1>1, <1>2, <1>6, <3>1, ClearNext
    <2>3. /\ state' \in Early
          /\ state' \notin {"ASDF_VERSION", "STANDARD_VERSION", "COMMENT", "BLOCK_INDEX"}
      BY <1>6 DEF Early
    <2>4. QED
      BY <1>1, <1>2, <1>3, <2>1, <2>2, <2>3, EarlyStep
  <1>8. CASE ParseTreeFast
    <2>1. /\ err' = err /\ pos' = PosAfterTree /\ state' \in {"YAML", "PADDING"}
          /\ tree' = [tree EXCEPT !.end = TreeEnd(lost'), !.found = ~Emitting]
      BY <1>2, <1>8 DEF ParseTreeFast
    <2>2. tree'.start = tree.start
      BY <2>1 DEF SearchInv, TreeType
    <2>3. PICK n : n = PosAfterTree
      OBVIOUS
    <2>4. QED
      BY <1>5, <1>6, <2>1, <2>2, <2>3
  <1>9. CASE ParseTreeYaml
    <2>1. tree' = tree /\ err' = err /\ pos' = pos /\ state' = "YAML"
      BY <1>9 DEF ParseTreeYaml, treeVars
    <2>2. PICK n : n = pos
      OBVIOUS
    <2>3. QED
      BY <1>2, <1>6, <2>1, <2>2
  <1>10. QED
    BY <1>8, <1>9

\* libfyaml's reading of the document passes no block that the stream is not set
\* back to.
LEMMA YamlPassed ==
    ASSUME SearchInv, IndexInv, Sound, SoundInv, ~misled',
           \/ YamlAbort \/ YamlEvent \/ YamlError
           \/ YamlDocumentEnd \/ YamlStreamEnd \/ YamlTreeEnd
    PROVE  SoundInv'
  <1>1. state = "YAML" /\ UNCHANGED <<fixed, blockVars>> /\ file \in Files /\ state \in Early
    BY DEF YamlAbort, YamlEvent, YamlError, YamlDocumentEnd, YamlStreamEnd, YamlTreeEnd,
       Fail, SearchInv, Early
  <1>2. /\ blocks = <<>> /\ Clear(pos) /\ Clear(tree.start) /\ err = FALSE /\ pos \in Nat
        /\ Listed /\ blocks' = blocks /\ tree \in TreeType /\ tree.start \in 1 .. EOF
    BY <1>1 DEF SoundInv, SearchInv, Sound, Untouched, blockVars
  <1>3. Listed'
    BY <1>1, <1>2, ListedKept
  <1>4. ASSUME tree'.start = tree.start, state' \in {"YAML", "PADDING"}, err' = err,
               NEW n, n \in Nat, Clear(n), pos' = n
        PROVE  SoundInv'
    <2>1. Clear(pos)' /\ pos' \in Nat /\ err' = FALSE
      BY <1>1, <1>2, <1>4, ClearNext
    <2>2. Clear(tree.start)'
      <3>1. PICK m : m = tree.start
        OBVIOUS
      <3>2. QED
        BY <1>1, <1>2, <1>4, <3>1, ClearNext
    <2>3. /\ state' \in Early
          /\ state' \notin {"ASDF_VERSION", "STANDARD_VERSION", "COMMENT", "BLOCK_INDEX"}
      BY <1>4 DEF Early
    <2>4. QED
      BY <1>1, <1>2, <1>3, <2>1, <2>2, <2>3, EarlyStep
  <1>5. CASE YamlAbort
    <2>1. state' = "ABORT" /\ err' = err /\ pos' = pos
      BY <1>5 DEF YamlAbort
    <2>2. QED
      BY <1>2, <1>3, <2>1 DEF SoundInv, Untouched, Early
  <1>6. CASE YamlError
    <2>1. tree.start > 0
      BY <1>1, <1>2, ScanFinds
    <2>2. ~lost /\ Emitting
      BY <1>6 DEF YamlError, YamlAllowed
    <2>3. ~YamlFails
      BY <2>1, <2>2 DEF Sound, WellFormed
    <2>4. QED
      BY <1>6, <2>2, <2>3 DEF YamlError
  <1>7. CASE YamlEvent \/ YamlStreamEnd \/ YamlTreeEnd
    <2>1. /\ tree'.start = tree.start /\ err' = err /\ pos' = pos /\ state' \in {"YAML", "PADDING"}
      <3>1. tree' = tree \/ tree' = [tree EXCEPT !.done = TRUE]
        BY <1>7 DEF YamlEvent, YamlStreamEnd, YamlTreeEnd, treeVars
      <3>2. tree'.start = tree.start
        BY <1>2, <3>1, TreeUpdates
      <3>3. QED
        BY <1>1, <1>7, <3>2 DEF YamlEvent, YamlStreamEnd, YamlTreeEnd
    <2>2. PICK n : n = pos
      OBVIOUS
    <2>3. QED
      BY <1>2, <1>4, <2>1, <2>2
  <1>8. CASE YamlDocumentEnd
    <2>1. /\ err' = err /\ pos' = SoughtTo(YamlEnd) /\ state' = "YAML" /\ Emitting /\ ~lost
          /\ tree' = [tree EXCEPT !.end = Tell(YamlEnd, lost), !.found = TRUE]
      BY <1>1, <1>8 DEF YamlDocumentEnd, YamlAllowed
    <2>2. YamlEndType
      BY <1>1, <1>2, YamlEndTyped
    <2>3. EOF \in Nat /\ YamlEnd \in Nat /\ YamlEnd <= EOF /\ tree.start \in Nat
      BY <1>2, <2>2 DEF YamlEndType
    <2>4. Clear(YamlEnd)
      <3>1. CASE Kind(DocMark) = "docend"
        <4>1. DocMark \in Nat /\ Clear(DocMark)
          <5>1. Magic \subseteq {"docend"} \cup Magic
            OBVIOUS
          <5>2. QED
            BY <1>1, <1>2, <2>3, <5>1, ClearOn DEF DocMark
        <4>2. Kind(DocMark) \notin Magic
          BY <3>1 DEF Magic, Readable
        <4>3. Clear(DocMark + 1)
          BY <1>1, <4>1, <4>2, ClearOn
        <4>4. QED
          BY <3>1, <4>3 DEF YamlEnd
      <3>2. CASE Kind(DocMark) # "docend"
        BY <1>2, <3>2 DEF YamlEnd
      <3>3. QED
        BY <3>1, <3>2
    <2>5. Tell(YamlEnd, lost) \in Int
      BY <2>3, TellType
    <2>6. SoughtTo(YamlEnd) = YamlEnd
      <3>1. Seekable
        BY <2>1 DEF Sound, StreamSuffices
      <3>2. QED
        BY <2>3, <3>1 DEF SoughtTo
    <2>7. tree'.start = tree.start
      BY <1>2, <2>1, <2>5, TreeUpdates
    <2>8. PICK n : n = YamlEnd
      OBVIOUS
    <2>9. QED
      BY <1>4, <2>1, <2>3, <2>4, <2>6, <2>7, <2>8
  <1>9. QED
    BY <1>5, <1>6, <1>7, <1>8

\* While blocks are looked for: the first block at or after the stream's position
\* is one of the file.
LEMMA BlockAhead ==
    ASSUME file \in Files, Sound, Passed, pos \in Nat, Hits(Magic, pos) # {}
    PROVE  LET q == ScanTo(Magic, pos)
           IN  /\ q \in FileBlocks /\ q >= pos /\ q \in 1 .. EOF - 1
               /\ Kind(q) \in {"block", "streamed"}
               /\ \A r \in FileBlocks : r < q => r < pos
               /\ \A r \in 1 .. q - 1 : Kind(r) # "streamed"
  <1> DEFINE q == ScanTo(Magic, pos)
  <1>1. /\ EOF \in Nat /\ q \in 1 .. EOF - 1 /\ q >= pos /\ Kind(q) \in Magic
        /\ \A r \in Hits(Magic, pos) : q <= r
    BY ScanFinds
  <1> HIDE DEF q
  <1>2. \A r \in 1 .. EOF - 1 : r < q /\ Kind(r) \in Magic => r < pos
    <2> SUFFICES ASSUME NEW r \in 1 .. EOF - 1, r < q, Kind(r) \in Magic, ~(r < pos)
                 PROVE  FALSE
      OBVIOUS
    <2>1. r \in Hits(Magic, pos)
      BY <1>1 DEF Hits
    <2>2. q <= r
      BY <1>1, <2>1
    <2>3. QED
      BY <1>1, <2>2
  <1>3. \A r \in 1 .. q - 1 : Kind(r) # "streamed"
    <2> SUFFICES ASSUME NEW r \in 1 .. q - 1, Kind(r) = "streamed" PROVE FALSE
      OBVIOUS
    <2>1. r \in 1 .. EOF - 1 /\ r < q
      BY <1>1
    <2>2. r < pos
      BY <1>2, <2>1 DEF Magic, Readable
    <2>3. QED
      BY <2>1, <2>2 DEF Passed
  <1>4. q \in FileBlocks
    BY <1>1, <1>3 DEF FileBlocks
  <1>5. Kind(q) \in {"block", "streamed"}
    BY <1>4 DEF Sound, WellFormed
  <1>6. \A r \in FileBlocks : r < q => r < pos
    BY <1>2 DEF FileBlocks
  <1>7. QED
    BY <1>1, <1>3, <1>4, <1>5, <1>6 DEF q

\* An index in use has an entry for the next block just when there is one.
LEMMA IndexAhead ==
    ASSUME file \in Files, Passed, Listed, hasIndex, index \in Seq(Int), blocks \in Seq(Int),
           found \in Nat, pos \in Nat
    PROVE  /\ \A p \in FileBlocks : p < pos => \E i \in 1 .. found : index[i] = p
           /\ \A i \in 1 .. Len(index) : index[i] \in FileBlocks
           /\ \A i \in 1 .. Len(index) : index[i] < pos <=> i <= found
           /\ \A p \in FileBlocks : \E i \in 1 .. Len(index) : index[i] = p
           /\ \A i, j \in 1 .. Len(index) : i < j => index[i] < index[j]
           /\ found <= Len(index)
  <1>1. /\ Increasing(index) /\ {index[i] : i \in DOMAIN index} = FileBlocks
        /\ Len(blocks) = found /\ found <= Len(index)
        /\ \A i \in 1 .. found : blocks[i] = index[i]
        /\ DOMAIN index = 1 .. Len(index) /\ DOMAIN blocks = 1 .. found
    <2>1. /\ RightIndex /\ index = file.index /\ Len(blocks) = found /\ found <= Len(index)
          /\ \A i \in 1 .. found : blocks[i] = index[i]
      BY DEF Listed
    <2>2. Increasing(index) /\ {index[i] : i \in DOMAIN index} = FileBlocks
      BY <2>1, Zenon DEF RightIndex
    <2>3. DOMAIN index = 1 .. Len(index) /\ DOMAIN blocks = 1 .. Len(blocks)
      OBVIOUS
    <2>4. QED
      BY <2>1, <2>2, <2>3
  <1>2. {blocks[i] : i \in DOMAIN blocks} = {q \in FileBlocks : q < pos}
    BY DEF Passed
  <1>3. \A i \in 1 .. Len(index) : index[i] \in FileBlocks
    BY <1>1
  <1>4. \A p \in FileBlocks : \E i \in 1 .. Len(index) : index[i] = p
    BY <1>1
  <1>5. \A i, j \in 1 .. Len(index) : i < j => index[i] < index[j]
    BY <1>1 DEF Increasing
  <1>6. \A p \in FileBlocks : p < pos => \E i \in 1 .. found : index[i] = p
    BY <1>1, <1>2
  <1>7. \A i \in 1 .. found : index[i] < pos
    BY <1>1, <1>2
  <1>8. \A i \in 1 .. Len(index) : index[i] < pos => i <= found
    <2> SUFFICES ASSUME NEW i \in 1 .. Len(index), index[i] < pos, ~(i <= found) PROVE FALSE
      OBVIOUS
    <2>1. PICK j \in 1 .. found : index[j] = index[i]
      BY <1>3, <1>6
    <2>2. j \in 1 .. Len(index) /\ j < i
      BY <1>1, <2>1
    <2>3. index[j] < index[i] /\ index[i] \in Int
      BY <1>5, <2>2
    <2>4. QED
      BY <2>1, <2>3
  <1>9. QED
    BY <1>1, <1>3, <1>4, <1>5, <1>6, <1>7, <1>8

\* With nothing ahead all blocks have been reported.
LEMMA NoneAhead ==
    ASSUME SearchInv, IndexInv, Sound, SoundInv, state = "BLOCK", Hits(Magic, pos) = {}
    PROVE  /\ FindNextBlock.at = 0 /\ FindNextBlock.err = FALSE /\ FindNextBlock.pos = EOF
           /\ ~UseIndex /\ AllFound
  <1>1. /\ file \in Files /\ Passed /\ Listed /\ err = FALSE /\ pos \in Nat
        /\ found \in Nat /\ Len(blocks) = found
        /\ index \in Seq(Int) /\ infos \in Seq(Int) /\ blocks \in Seq(Int)
    BY DEF SearchInv, SoundInv, IndexInv, VectorTypes, VectorSizes
  <1>2. EOF \in Nat \ {0} /\ Kind(EOF) = "eof" /\ ScanTo(Magic, pos) = EOF
    BY <1>1, ScanFinds
  <1>3. \A q \in FileBlocks : q < pos
    <2> SUFFICES ASSUME NEW q \in FileBlocks, ~(q < pos) PROVE FALSE
      OBVIOUS
    <2>1. q \in 1 .. EOF - 1 /\ Kind(q) \in Magic
      BY DEF FileBlocks
    <2>2. q \in Hits(Magic, pos)
      BY <1>1, <1>2, <2>1 DEF Hits
    <2>3. QED
      BY <2>2
  <1>4. Increasing(blocks) /\ {blocks[i] : i \in DOMAIN blocks} = FileBlocks
    BY <1>1, <1>3 DEF Passed
  <1>5. hasIndex => found = Len(index)
    <2> SUFFICES ASSUME hasIndex PROVE found = Len(index)
      OBVIOUS
    <2>1. /\ \A i \in 1 .. Len(index) : index[i] \in FileBlocks
          /\ \A i \in 1 .. Len(index) : index[i] < pos <=> i <= found
          /\ found <= Len(index)
      BY <1>1, IndexAhead
    <2>2. Len(index) \in Nat
      BY <1>1
    <2>3. CASE Len(index) = 0
      BY <1>1, <2>1, <2>3
    <2>4. CASE Len(index) > 0
      <3>1. Len(index) \in 1 .. Len(index)
        BY <2>2, <2>4
      <3>2. Len(index) <= found
        BY <1>3, <2>1, <3>1
      <3>3. QED
        BY <1>1, <2>1, <2>2, <3>2
    <2>5. QED
      BY <2>2, <2>3, <2>4
  <1>6. ~UseIndex
    BY <1>1, <1>5 DEF UseIndex
  <1>7. infos = blocks
    <2>1. CASE ~hasIndex
      BY <1>1, <2>1 DEF Listed
    <2>2. CASE hasIndex
      <3>1. Len(infos) = found /\ \A i \in 1 .. found : infos[i] = blocks[i]
        BY <1>1, <1>5, <2>2 DEF Listed
      <3>2. QED
        BY <1>1, <3>1
    <2>3. QED
      BY <2>1, <2>2
  <1>8. Kind(pos) \notin Magic
    <2> SUFFICES ASSUME Kind(pos) \in Magic PROVE FALSE
      OBVIOUS
    <2>1. pos \in 1 .. EOF - 1
      BY DEF Kind, Magic, Readable
    <2>2. pos \in Hits(Magic, pos)
      BY <1>1, <2>1 DEF Hits
    <2>3. QED
      BY <2>2
  <1>9. FindNextBlock = Found(0, EOF, FALSE, infos, outside)
    <2> DEFINE a == Found(0, pos, err, infos, outside)
    <2>1. FindNextBlock = NewBlock(a)
      BY <1>6 DEF FindNextBlock, Found
    <2>2. /\ a.pos = pos /\ a.err = FALSE /\ a.infos = infos /\ a.out = outside
      BY <1>1 DEF Found
    <2> HIDE DEF a
    <2>3. NewBlock(a) = Found(0, EOF, FALSE, infos, outside)
      BY <1>2, <1>8, <2>2 DEF NewBlock
    <2>4. QED
      BY <2>1, <2>3
  <1>10. QED
    BY <1>4, <1>6, <1>7, <1>9 DEF AllFound, Found

\* A scan finds the next block.
LEMMA ScanNext ==
    ASSUME SearchInv, IndexInv, Sound, SoundInv, state = "BLOCK", Hits(Magic, pos) # {}, ~UseIndex
    PROVE  LET q == ScanTo(Magic, pos)
           IN  ~hasIndex /\ FindNextBlock = Found(q, q, FALSE, Append(infos, q), outside)
  <1> DEFINE q == ScanTo(Magic, pos)
  <1>1. /\ file \in Files /\ Passed /\ Listed /\ err = FALSE /\ pos \in Nat
        /\ found \in Nat /\ index \in Seq(Int) /\ blocks \in Seq(Int)
    BY DEF SearchInv, SoundInv, IndexInv, VectorTypes
  <1>2. /\ q \in FileBlocks /\ q >= pos /\ q \in 1 .. EOF - 1
        /\ Kind(q) \in {"block", "streamed"}
    BY <1>1, BlockAhead
  <1>3. EOF \in Nat /\ \A r \in Hits(Magic, pos) : q <= r
    BY <1>1, ScanFinds
  <1>4. Kind(pos) \in Magic => q = pos
    <2> SUFFICES ASSUME Kind(pos) \in Magic PROVE q = pos
      OBVIOUS
    <2>1. pos \in 1 .. EOF - 1
      BY DEF Kind, Magic, Readable
    <2>2. pos \in Hits(Magic, pos)
      BY <1>1, <2>1 DEF Hits
    <2>3. q <= pos
      BY <1>3, <2>2
    <2>4. QED
      BY <1>1, <1>2, <1>3, <2>3
  <1>5. ~hasIndex
    <2> SUFFICES ASSUME hasIndex PROVE FALSE
      OBVIOUS
    <2>1. PICK i \in 1 .. Len(index) : index[i] = q
      BY <1>1, <1>2, IndexAhead
    <2>2. index[i] < pos <=> i <= found
      BY <1>1, <2>1, IndexAhead
    <2>3. ~(found < Len(index))
      BY DEF UseIndex
    <2>4. Len(index) \in Nat
      BY <1>1
    <2>5. q < pos
      BY <1>1, <2>1, <2>2, <2>3, <2>4
    <2>6. QED
      BY <1>1, <1>2, <1>3, <2>5
  <1>6. FindNextBlock = Found(q, q, FALSE, Append(infos, q), outside)
    <2> DEFINE a == Found(0, pos, err, infos, outside)
    <2>1. FindNextBlock = NewBlock(a)
      BY DEF FindNextBlock, Found
    <2>2. /\ a.pos = pos /\ a.err = FALSE /\ a.infos = infos /\ a.out = outside
      BY <1>1 DEF Found
    <2>3. q # EOF /\ Reads(q, FALSE)
      BY <1>2, <1>3 DEF Reads, Readable
    <2>4. q = ScanTo(Magic, pos)
      OBVIOUS
    <2> HIDE DEF a, q
    <2>5. CASE Kind(pos) \in Magic
      <3>1. q = pos /\ Reads(pos, FALSE)
        BY <1>4, <2>3, <2>5
      <3>2. QED
        BY <2>1, <2>2, <2>3, <2>5, <3>1 DEF NewBlock
    <2>6. CASE Kind(pos) \notin Magic
      BY <2>1, <2>2, <2>3, <2>4, <2>6 DEF NewBlock
    <2>7. QED
      BY <2>5, <2>6
  <1>7. QED
    BY <1>5, <1>6

\* The index leads to the same block as a scan.
LEMMA IndexNext ==
    ASSUME SearchInv, IndexInv, Sound, SoundInv, state = "BLOCK", UseIndex
    PROVE  LET q == ScanTo(Magic, pos)
               b == FindNextBlock
           IN  /\ Hits(Magic, pos) # {}
               /\ index[found + 1] = q /\ BlockFromIndex.at # 0
               /\ b.at = q /\ b.err = FALSE /\ b.infos = [infos EXCEPT ![found + 1] = q]
  <1> DEFINE q == ScanTo(Magic, pos)
             n == found + 1
             p == index[n]
  <1>1. /\ file \in Files /\ Passed /\ Listed /\ err = FALSE /\ pos \in Nat /\ hasIndex
        /\ found \in Nat /\ index \in Seq(Int) /\ infos \in Seq(Int) /\ blocks \in Seq(Int)
        /\ n \in 1 .. Len(index) /\ found < Len(index)
    BY DEF SearchInv, SoundInv, IndexInv, VectorTypes, UseIndex
  <1>2. p \in FileBlocks /\ ~(p < pos) /\ p \in Int
    <2>1. p \in FileBlocks /\ (p < pos <=> n <= found)
      BY <1>1, IndexAhead
    <2>2. QED
      BY <1>1, <2>1
  <1>3. p \in Hits(Magic, pos)
    <2>1. p \in 1 .. EOF - 1 /\ Kind(p) \in Magic
      BY <1>2 DEF FileBlocks
    <2>2. QED
      BY <1>1, <1>2, <2>1 DEF Hits
  <1>4. /\ q \in FileBlocks /\ q >= pos /\ q \in 1 .. EOF - 1
        /\ Kind(q) \in {"block", "streamed"} /\ \A r \in FileBlocks : r < q => r < pos
    BY <1>1, <1>3, BlockAhead
  <1>5. p = q
    <2>1. EOF \in Nat /\ q <= p
      BY <1>1, <1>3, ScanFinds
    <2>2. ~(q < p)
      <3> SUFFICES ASSUME q < p PROVE FALSE
        OBVIOUS
      <3>1. PICK i \in 1 .. Len(index) : index[i] = q
        BY <1>1, <1>4, IndexAhead
      <3>2. (index[i] < pos <=> i <= found) /\ (n < i => index[n] < index[i])
        BY <1>1, <3>1, IndexAhead
      <3>3. ~(i <= found)
        BY <1>1, <1>4, <2>1, <3>1, <3>2
      <3>4. i = n \/ n < i
        BY <1>1, <3>1, <3>3
      <3>5. QED
        BY <1>2, <1>4, <2>1, <3>1, <3>2, <3>4
    <2>3. QED
      BY <1>2, <1>4, <2>1, <2>2
  <1>6. /\ Len(infos) = Len(index) /\ (found < count => infos[n] = q)
    BY <1>1, <1>5 DEF Listed
  <1>7. q \in Int /\ q # 0 /\ EOF \in Nat
    BY <1>1, <1>4, ScanFinds
  <1>8. Valid(q, err)
    BY <1>1, <1>4 DEF Valid, Reads, Magic, Readable
  <1>9. BlockFromIndex.at = q /\ BlockFromIndex.err = FALSE /\ BlockFromIndex.infos = [infos EXCEPT ![n] = q]
    <2>1. CASE found < count
      <3>1. BlockFromIndex = Found(infos[n], pos, err, infos, outside)
        BY <2>1 DEF BlockFromIndex
      <3>2. infos = [infos EXCEPT ![n] = q]
        <4>1. infos[n] = q /\ n \in DOMAIN infos
          BY <1>1, <1>6, <2>1
        <4> HIDE DEF q, n
        <4>2. [infos EXCEPT ![n] = q] = infos
          BY <1>1, <4>1
        <4>3. QED
          BY <4>2
      <3> HIDE DEF q
      <3>3. QED
        BY <1>1, <1>6, <2>1, <3>1, <3>2 DEF Found
    <2>2. CASE ~(found < count)
      <3>1. n <= Len(infos) /\ Valid(index[n], err)
        BY <1>1, <1>5, <1>6, <1>8
      <3>2. BlockFromIndex = Found(index[n], index[n], err, [infos EXCEPT ![n] = index[n]],
                                   outside \/ n > Len(infos))
        BY <2>2, <3>1 DEF BlockFromIndex
      <3>3. index[n] = q
        BY <1>5
      <3> HIDE DEF q, n
      <3>4. QED
        BY <1>1, <3>2, <3>3 DEF Found
    <2>3. QED
      BY <2>1, <2>2
  <1>10. FindNextBlock = BlockFromIndex /\ BlockFromIndex.at # 0
    <2>1. BlockFromIndex.at # 0
      BY <1>7, <1>9
    <2>2. QED
      BY <2>1 DEF FindNextBlock
  <1>11. QED
    BY <1>3, <1>5, <1>9, <1>10

\* Behind a block only it has been passed in addition, and behind a streamed one
\* no other follows.
LEMMA BlockPassed ==
    ASSUME file \in Files, Sound, Passed, pos \in Nat, blocks \in Seq(Int),
           Hits(Magic, pos) # {}, NEW q, q = ScanTo(Magic, pos),
           NEW p, p = IF Kind(q) = "streamed" /\ Seekable THEN EOF ELSE q + 1
    PROVE  /\ p \in Nat /\ Increasing(Append(blocks, q))
           /\ {Append(blocks, q)[i] : i \in DOMAIN Append(blocks, q)} = {r \in FileBlocks : r < p}
           /\ \A r \in 1 .. EOF - 1 : r < p /\ Kind(r) = "streamed" => Hits(Magic, p) = {}
  <1> DEFINE s == Append(blocks, q)
  <1>1. /\ q \in FileBlocks /\ q >= pos /\ q \in 1 .. EOF - 1
        /\ \A r \in FileBlocks : r < q => r < pos
        /\ \A r \in 1 .. q - 1 : Kind(r) # "streamed"
    BY BlockAhead
  <1>2. EOF \in Nat \ {0}
    BY ScanFinds
  <1>3. p \in Nat /\ q < p
    BY <1>1, <1>2
  <1>4. /\ Increasing(blocks)
        /\ {blocks[i] : i \in DOMAIN blocks} = {r \in FileBlocks : r < pos}
    BY DEF Passed
  <1>5. /\ Len(s) = Len(blocks) + 1 /\ Len(blocks) \in Nat /\ DOMAIN s = 1 .. Len(s)
        /\ DOMAIN blocks = 1 .. Len(blocks)
        /\ s[Len(blocks) + 1] = q /\ \A i \in 1 .. Len(blocks) : s[i] = blocks[i]
    BY <1>1
  <1> HIDE DEF s
  <1>6. \A i \in 1 .. Len(blocks) : blocks[i] \in FileBlocks /\ blocks[i] < pos /\ blocks[i] \in Int
    <2>1. \A i \in DOMAIN blocks : blocks[i] \in Int
      OBVIOUS
    <2>2. QED
      BY <1>4, <1>5, <2>1
  <1>7. Increasing(s)
    <2> SUFFICES ASSUME NEW i \in DOMAIN s, NEW j \in DOMAIN s, i < j PROVE s[i] < s[j]
      BY DEF Increasing
    <2>1. i \in 1 .. Len(blocks) /\ s[i] = blocks[i]
      BY <1>5
    <2>2. CASE j = Len(blocks) + 1
      <3>1. s[j] = q /\ blocks[i] < pos /\ blocks[i] \in Int
        BY <1>5, <1>6, <2>1, <2>2
      <3>2. QED
        BY <1>1, <1>2, <2>1, <3>1
    <2>3. CASE j # Len(blocks) + 1
      <3>1. j \in 1 .. Len(blocks) /\ s[j] = blocks[j]
        BY <1>5, <2>3
      <3>2. QED
        BY <1>4, <1>5, <2>1, <3>1 DEF Increasing
    <2>4. QED
      BY <2>2, <2>3
  <1>8. \A r \in FileBlocks : r < p => r < pos \/ r = q
    <2> SUFFICES ASSUME NEW r \in FileBlocks, r < p, ~(r < pos), r # q PROVE FALSE
      OBVIOUS
    <2>1. r \in 1 .. EOF - 1 /\ \A t \in 1 .. r - 1 : Kind(t) # "streamed"
      BY DEF FileBlocks
    <2>2. ~(r < q)
      BY <1>1
    <2>3. q < r
      BY <1>1, <1>2, <2>1, <2>2
    <2>4. Kind(q) # "streamed"
      BY <1>1, <1>2, <2>1, <2>3
    <2>5. QED
      BY <1>1, <1>2, <2>1, <2>3, <2>4
  <1>9. {s[i] : i \in DOMAIN s} = {r \in FileBlocks : r < p}
    <2>1. ASSUME NEW i \in DOMAIN s PROVE s[i] \in FileBlocks /\ s[i] < p
      <3>1. CASE i = Len(blocks) + 1
        BY <1>1, <1>3, <1>5, <3>1
      <3>2. CASE i # Len(blocks) + 1
        <4>1. i \in 1 .. Len(blocks) /\ s[i] = blocks[i]
          BY <1>5, <3>2
        <4>2. blocks[i] \in FileBlocks /\ blocks[i] < pos /\ blocks[i] \in Int
          BY <1>6, <4>1
        <4>3. QED
          BY <1>1, <1>2, <1>3, <4>1, <4>2
      <3>3. QED
        BY <3>1, <3>2
    <2>2. ASSUME NEW r \in FileBlocks, r < p PROVE \E i \in DOMAIN s : s[i] = r
      <3>1. CASE r = q
        <4>1. Len(blocks) + 1 \in DOMAIN s
          BY <1>5
        <4>2. QED
          BY <1>5, <3>1, <4>1
      <3>2. CASE r < pos
        <4>1. r \in {blocks[i] : i \in DOMAIN blocks}
          BY <1>4, <3>2
        <4>2. PICK i \in DOMAIN blocks : blocks[i] = r
          BY <4>1
        <4>3. i \in DOMAIN s /\ s[i] = r
          BY <1>5, <4>2
        <4>4. QED
          BY <4>3
      <3>3. QED
        BY <1>8, <2>2, <3>1, <3>2
    <2>3. QED
      BY <2>1, <2>2
  <1>10. ASSUME NEW r \in 1 .. EOF - 1, r < p, Kind(r) = "streamed" PROVE Hits(Magic, p) = {}
    <2>1. CASE p = EOF
      BY <1>2, <2>1 DEF Hits
    <2>2. CASE p # EOF
      <3>1. p = q + 1 /\ ~(Kind(q) = "streamed" /\ Seekable)
        BY <2>2
      <3>2. r = q
        <4>1. r \notin 1 .. q - 1
          BY <1>1, <1>10
        <4>2. QED
          BY <1>1, <1>2, <1>10, <3>1, <4>1
      <3>3. ~Seekable /\ Kind(q) = "streamed"
        BY <1>10, <3>1, <3>2
      <3>4. \A t \in 1 .. EOF - 1 : q < t => Kind(t) \notin Magic
        BY <1>1, <3>3 DEF Sound, StreamSuffices
      <3>5. \A t \in 1 .. EOF - 1 : t >= p => q < t
        BY <1>1, <1>2, <3>1
      <3>6. QED
        BY <3>4, <3>5 DEF Hits
    <2>3. QED
      BY <2>1, <2>2
  <1>11. QED
    BY <1>3, <1>7, <1>9, <1>10 DEF s

\* Each block is reported, counted and listed.
LEMMA BlockTaken ==
    ASSUME SearchInv, IndexInv, Sound, SoundInv, ~misled', ParseBlock
    PROVE  SoundInv'
  <1> DEFINE b == FindNextBlock
             r == Resized(MarkedIndex)
             n == found + 1
  <1>0. PICK l \in Searched :
           /\ infos' = InfosTold(b, l)
           /\ index' = IF found < Len(r) THEN [r EXCEPT ![n] = Tell(b.at, l)] ELSE r
           /\ ~l
           /\ \/ Kind(b.at) = "huge"
              \/ /\ pos' \in BlockEnds(b, l) /\ err' = b.err /\ state' = state
                 /\ blocks' = Append(blocks, Tell(b.at, l))
    BY DEF ParseBlock
  <1>1. /\ file \in Files /\ Passed /\ Listed /\ err = FALSE /\ pos \in Nat /\ state = "BLOCK"
        /\ found \in Nat /\ Len(blocks) = found /\ icap \in Nat
        /\ index \in Seq(Int) /\ infos \in Seq(Int) /\ blocks \in Seq(Int)
        /\ UNCHANGED <<fixed, hasIndex>> /\ b.at # 0
    BY DEF SearchInv, SoundInv, IndexInv, VectorTypes, VectorSizes, ParseBlock
  <1>2. Hits(Magic, pos) # {}
    BY <1>1, NoneAhead
  <1>3. PICK q : q = ScanTo(Magic, pos)
    OBVIOUS
  <1>4. q \in FileBlocks /\ Kind(q) \in {"block", "streamed"} /\ q \in Nat
    <2>1. EOF \in Nat /\ q \in FileBlocks /\ q \in 1 .. EOF - 1 /\ Kind(q) \in {"block", "streamed"}
      BY <1>1, <1>2, <1>3, BlockAhead, ScanFinds
    <2>2. QED
      BY <2>1
  <1>5. /\ b.at = q /\ b.err = FALSE
        /\ \/ ~hasIndex /\ ~UseIndex /\ b.infos = Append(infos, q)
           \/ /\ hasIndex /\ UseIndex /\ index[n] = q /\ BlockFromIndex.at # 0
              /\ b.infos = [infos EXCEPT ![n] = q]
    <2>1. CASE UseIndex
      <3>1. /\ index[n] = q /\ BlockFromIndex.at # 0 /\ b.at = q /\ b.err = FALSE
            /\ b.infos = [infos EXCEPT ![n] = q]
        BY <1>1, <1>3, <2>1, IndexNext
      <3>2. QED
        BY <2>1, <3>1 DEF UseIndex
    <2>2. CASE ~UseIndex
      <3>1. ~hasIndex /\ b = Found(q, q, FALSE, Append(infos, q), outside)
        BY <1>1, <1>2, <1>3, <2>2, ScanNext
      <3> HIDE DEF b
      <3>2. QED
        BY <2>2, <3>1 DEF Found
    <2>3. QED
      BY <2>1, <2>2
  <1>6. /\ state' = "BLOCK" /\ err' = FALSE /\ blocks' = Append(blocks, q)
        /\ pos' = IF Kind(q) = "streamed" /\ Seekable THEN EOF ELSE q + 1
    <2>1. Kind(b.at) # "huge"
      BY <1>4, <1>5
    <2>2. /\ state' = state /\ err' = b.err /\ blocks' = Append(blocks, Tell(b.at, l))
          /\ pos' \in BlockEnds(b, l)
      BY <1>0, <2>1
    <2>3. BlockEnds(b, l) = {IF Kind(b.at) = "streamed" /\ Seekable THEN EOF ELSE b.at + 1}
      BY <1>0 DEF BlockEnds
    <2>4. Tell(b.at, l) = b.at
      BY <1>0 DEF Tell
    <2> HIDE DEF b
    <2>5. QED
      BY <1>1, <1>5, <2>2, <2>3, <2>4
  <1>7. /\ infos' = b.infos /\ found' = n /\ count' = n /\ icap' = Capacity
        /\ index' = IF found < Len(r) THEN [r EXCEPT ![n] = b.at] ELSE r
    <2>1. InfosTold(b, l) = b.infos /\ Tell(b.at, l) = b.at
      BY <1>0 DEF InfosTold, Tell
    <2>2. found' = n /\ count' = n /\ icap' = Capacity
      BY DEF ParseBlock
    <2> HIDE DEF b, r, n
    <2>3. QED
      BY <1>0, <2>1, <2>2
  <1>8. pos' \in Nat /\ Passed'
    <2>1. PICK p : p = IF Kind(q) = "streamed" /\ Seekable THEN EOF ELSE q + 1
      OBVIOUS
    <2> DEFINE s == Append(blocks, q)
    <2>2. /\ p \in Nat /\ Increasing(s)
          /\ {s[i] : i \in DOMAIN s} = {t \in FileBlocks : t < p}
          /\ \A t \in 1 .. EOF - 1 : t < p /\ Kind(t) = "streamed" => Hits(Magic, p) = {}
      <3>1. /\ file \in Files /\ Sound /\ Passed /\ pos \in Nat /\ blocks \in Seq(Int)
            /\ Hits(Magic, pos) # {}
        BY <1>1, <1>2
      <3>2. q = ScanTo(Magic, pos)
        BY <1>3
      <3> HIDE DEF b, r, n
      <3>3. QED
        BY ONLY <2>1, <3>1, <3>2, BlockPassed
    <2>3. /\ FileBlocks' = FileBlocks /\ EOF' = EOF /\ \A t : Kind(t)' = Kind(t)
          /\ Hits(Magic, p)' = Hits(Magic, p)
      BY <1>1, FixedKept, ScanKept
    <2>4. pos' = p /\ blocks' = s
      BY <1>6, <2>1
    <2> HIDE DEF s
    <2>5. Increasing(blocks)'
      BY <2>2, <2>4 DEF Increasing
    <2>6. {blocks[i] : i \in DOMAIN blocks}' = {t \in FileBlocks : t < pos}'
      BY <2>2, <2>3, <2>4
    <2>7. (\A t \in 1 .. EOF - 1 : t < pos /\ Kind(t) = "streamed" => Hits(Magic, pos) = {})'
      BY <2>2, <2>3, <2>4
    <2>8. QED
      BY <2>2, <2>4, <2>5, <2>6, <2>7 DEF Passed
  <1>9. Listed'
    <2>1. CASE ~hasIndex
      <3>1. infos = blocks /\ infos' = Append(infos, q) /\ ~hasIndex'
        BY <1>1, <1>5, <1>7, <2>1 DEF Listed
      <3>2. infos' = blocks'
        BY <1>6, <3>1
      <3>3. QED
        BY <3>1, <3>2 DEF Listed
    <2>2. CASE hasIndex
      <3>1. /\ UseIndex /\ index[n] = q /\ BlockFromIndex.at # 0 /\ infos' = [infos EXCEPT ![n] = q]
        BY <1>5, <1>7, <2>2
      <3>2. /\ RightIndex /\ index = file.index /\ icap = Len(index)
            /\ Len(infos) = Len(index) /\ found <= Len(index) /\ found < Len(index)
            /\ \A i \in 1 .. found : blocks[i] = index[i] /\ infos[i] = index[i]
        BY <1>1, <2>2, <3>1 DEF Listed, UseIndex
      <3>3. MarkedIndex = index
        BY <3>1 DEF MarkedIndex
      <3>4. icap >= n /\ n \in 1 .. Len(index)
        BY <1>1, <3>2
      <3>5. r = index /\ Capacity = icap
        BY <3>3, <3>4 DEF Resized, Capacity
      <3>6. index' = index /\ icap' = icap
        <4>1. index' = [index EXCEPT ![n] = q]
          BY <1>5, <1>7, <3>2, <3>5
        <4> HIDE DEF n
        <4>2. [index EXCEPT ![n] = q] = index
          BY <1>1, <3>1, <3>4
        <4>3. QED
          BY <1>7, <3>5, <4>1, <4>2
      <3>7. /\ Len(infos') = Len(infos) /\ infos'[n] = q
            /\ \A i \in 1 .. found : infos'[i] = infos[i]
        BY <1>1, <1>4, <3>1, <3>2, <3>4
      <3>8. /\ Len(blocks') = n /\ blocks'[n] = q
            /\ \A i \in 1 .. found : blocks'[i] = blocks[i]
        <4>1. blocks' = Append(blocks, q) /\ q \in Int
          BY <1>4, <1>6
        <4>2. blocks \in Seq(Int) /\ Len(blocks) = found
          BY <1>1
        <4> HIDE DEF b, r
        <4>3. QED
          BY <4>1, <4>2
      <3>9. \A i \in 1 .. n : blocks'[i] = index[i] /\ infos'[i] = index[i]
        <4> SUFFICES ASSUME NEW i \in 1 .. n PROVE blocks'[i] = index[i] /\ infos'[i] = index[i]
          OBVIOUS
        <4>1. i = n \/ i \in 1 .. found
          BY <1>1
        <4>2. QED
          BY <3>1, <3>2, <3>7, <3>8, <4>1
      <3>10. RightIndex' /\ file' = file /\ hasIndex'
        BY <1>1, <2>2, <3>2, ScanKept, FixedKept
      <3>11. found' = n /\ count' = n /\ n <= Len(index) /\ ~(n < n)
        BY <1>1, <1>7, <3>4
      <3> HIDE DEF n, r, b
      <3>12. QED
        BY <3>2, <3>6, <3>7, <3>8, <3>9, <3>10, <3>11 DEF Listed
    <2>3. QED
      BY <2>1, <2>2
  <1>10. QED
    BY <1>6, <1>8, <1>9 DEF SoundInv, Untouched, Early

\* When there is no further block all have been reported.
LEMMA BlocksEnd ==
    ASSUME SearchInv, IndexInv, Sound, SoundInv, NoMoreBlocks
    PROVE  SoundInv'
  <1>1. /\ state = "BLOCK" /\ FindNextBlock.at = 0 /\ file \in Files /\ pos \in Nat /\ Passed /\ Listed
        /\ UNCHANGED <<fixed, hasIndex, infos, count, found, blocks>> /\ state' = "END"
    BY DEF NoMoreBlocks, SearchInv, SoundInv
  <1>2. Hits(Magic, pos) = {}
    <2> SUFFICES ASSUME Hits(Magic, pos) # {} PROVE FALSE
      OBVIOUS
    <2> DEFINE q == ScanTo(Magic, pos)
    <2>1. EOF \in Nat /\ q \in 1 .. EOF - 1
      BY <1>1, ScanFinds
    <2>2. FindNextBlock.at = q
      <3>1. CASE UseIndex
        BY <1>1, <3>1, IndexNext
      <3>2. CASE ~UseIndex
        <4>1. FindNextBlock = Found(q, q, FALSE, Append(infos, q), outside)
          BY <1>1, <3>2, ScanNext
        <4> HIDE DEF q
        <4>2. QED
          BY <4>1 DEF Found
      <3>3. QED
        BY <3>1, <3>2
    <2> HIDE DEF q
    <2>3. QED
      BY <1>1, <2>1, <2>2
  <1>3. FindNextBlock.err = FALSE /\ FindNextBlock.pos = EOF /\ ~UseIndex /\ AllFound
    BY <1>1, <1>2, NoneAhead
  <1>4. /\ err' = FALSE /\ pos' = EOF /\ index' = index /\ icap' = Len(index)
    BY <1>3 DEF NoMoreBlocks, MarkedIndex
  <1>5. RightIndex' = RightIndex /\ file' = file /\ FileBlocks' = FileBlocks
    BY <1>1, ScanKept, FixedKept
  <1>6. Listed'
    BY <1>1, <1>4, <1>5 DEF Listed
  <1>7. AllFound'
    BY <1>1, <1>3, <1>5 DEF AllFound, Increasing
  <1>8. EOF \in Nat
    BY <1>1, ScanFinds
  <1>9. QED
    BY <1>1, <1>4, <1>6, <1>7, <1>8 DEF SoundInv, Untouched, Early

\* Nothing is lost while the parser stays where it is.
LEMMA FoundKept ==
    ASSUME SoundInv, UNCHANGED <<fixed, blockVars, state, pos, err, tree>>
    PROVE  SoundInv'
  <1>1. /\ file' = file /\ EOF' = EOF /\ FileBlocks' = FileBlocks /\ \A q : Kind(q)' = Kind(q)
    BY FixedKept
  <1>2. blocks' = blocks /\ infos' = infos /\ hasIndex' = hasIndex
    BY DEF blockVars
  <1>3. Listed'
    BY ListedKept DEF SoundInv
  <1>4. PICK n : n = pos
    OBVIOUS
  <1>5. PICK m : m = tree.start
    OBVIOUS
  <1>6. Clear(n)' = Clear(n) /\ Clear(m)' = Clear(m) /\ Hits(Magic, n)' = Hits(Magic, n)
    BY ScanKept
  <1>7. Clear(pos)' = Clear(pos) /\ Clear(tree.start)' = Clear(tree.start)
        /\ Hits(Magic, pos)' = Hits(Magic, pos)
    BY <1>4, <1>5, <1>6
  <1>8. Untouched'
    BY <1>2, <1>7 DEF SoundInv, Untouched
  <1>9. Passed' = Passed
    BY <1>1, <1>2, <1>7 DEF Passed, Increasing
  <1>10. AllFound' = AllFound
    BY <1>1, <1>2 DEF AllFound, Increasing
  <1>11. QED
    BY <1>3, <1>8, <1>9, <1>10 DEF SoundInv

\* The directive of the tree is found once.
LEMMA StartKept ==
    ASSUME SearchInv, Next
    PROVE  /\ UNCHANGED fixed /\ file' \in Files /\ tree' \in TreeType
           /\ tree'.start = tree.start \/ tree.start = 0
           /\ state' \in {"ASDF_VERSION", "STANDARD_VERSION", "COMMENT", "BLOCK_INDEX",
                          "TREE_OR_BLOCK"} => tree'.start = 0
           /\ ~misled' /\ state' \in {"TREE", "YAML"} => tree'.start \in 1 .. EOF'
           /\ misled => misled'
  <1> DEFINE Before == {"ASDF_VERSION", "STANDARD_VERSION", "COMMENT", "BLOCK_INDEX",
                        "TREE_OR_BLOCK"}
             Goal == /\ UNCHANGED fixed /\ file' \in Files /\ tree' \in TreeType
                     /\ tree'.start = tree.start \/ tree.start = 0
                     /\ state' \in Before => tree'.start = 0
                     /\ ~misled' /\ state' \in {"TREE", "YAML"} => tree'.start \in 1 .. EOF'
                     /\ misled => misled'
  <1>0. /\ file \in Files /\ tree \in TreeType
        /\ state \in Before => tree.start = 0
        /\ ~misled /\ state \in {"TREE", "YAML"} => tree.start \in 1 .. EOF
    BY DEF SearchInv
  <1>1. ASSUME UNCHANGED fixed, tree' \in TreeType, tree'.start = tree.start, misled => misled',
               state' \in Before => state \in Before,
               state' \in {"TREE", "YAML"} => state \in {"TREE", "YAML"}
        PROVE  Goal
    <2>1. EOF' = EOF /\ file' = file
      BY <1>1, FixedKept
    <2>2. QED
      BY <1>0, <1>1, <2>1
  <1>2. CASE ParseAsdfVersion \/ ParseStandardVersion
    <2>1. /\ UNCHANGED <<fixed, tree, misled>> /\ state \in Before
          /\ state' \in Before \cup {"ERROR"}
      BY <1>2 DEF ParseAsdfVersion, ParseStandardVersion, ParseVersion, Fail, treeVars
    <2>2. QED
      BY <1>0, <1>1, <2>1
  <1>3. CASE ParseComment \/ NoBlockIndex \/ CorruptBlockIndex \/ ParseBlockIndex
    <2>1. UNCHANGED <<fixed, tree, misled>> /\ state \in Before /\ state' \in Before
      BY <1>3 DEF ParseComment, NoBlockIndex, CorruptBlockIndex, ParseBlockIndex, SetBack, treeVars
    <2>2. QED
      BY <1>0, <1>1, <2>1
  <1>4. CASE FindTree
    <2>1. /\ state = "TREE_OR_BLOCK" /\ state' = "TREE" /\ UNCHANGED fixed
          /\ Kind(NextPart) = "directive" /\ misled' = (misled \/ lost')
          /\ tree' = [tree EXCEPT !.start = Tell(NextPart, lost'), !.has = 1]
      BY <1>4 DEF FindTree, TreeOrBlock
    <2>2. NextPart \in 1 .. EOF - 1 /\ EOF \in Nat
      BY <1>0, <2>1, ScanFinds DEF Kind
    <2>3. NextPart \in Int /\ NextPart \in 1 .. EOF
      BY <2>2
    <2>4. tree' \in TreeType /\ (~lost' => tree'.start = NextPart)
      <3>1. Tell(NextPart, lost') \in Int /\ (~lost' => Tell(NextPart, lost') = NextPart)
        BY <2>3, TellType
      <3>2. QED
        BY <1>0, <2>1, <3>1, TreeUpdates
    <2>5. EOF' = EOF /\ file' = file
      BY <2>1, FixedKept
    <2>6. QED
      BY <1>0, <2>1, <2>3, <2>4, <2>5
  <1>5. CASE FindBlock
    <2>1. state' = "BLOCK" /\ UNCHANGED <<fixed, misled>> /\ tree' = [tree EXCEPT !.has = 0]
      BY <1>5 DEF FindBlock, TreeOrBlock
    <2>2. tree' \in TreeType /\ tree'.start = tree.start
      BY <1>0, <2>1, TreeUpdates
    <2>3. QED
      BY <1>1, <2>1, <2>2
  <1>6. CASE FindNothing \/ FindFalseIndex \/ FindBadDirective \/ TreeFalseEnd
    <2>1. UNCHANGED <<fixed, tree, misled>> /\ state' \in {"END", "HANG"}
      BY <1>6 DEF FindNothing, FindFalseIndex, FindBadDirective, TreeFalseEnd, GoesRound,
         TreeOrBlock, treeVars, told
    <2>2. QED
      BY <1>0, <1>1, <2>1
  <1>7. CASE ParseTreeYaml
    BY <1>0, <1>1, <1>7 DEF ParseTreeYaml, treeVars, told
  <1>8. CASE ParseTreeFast
    <2>0. misled => misled'
      BY <1>8 DEF ParseTreeFast
    <2>1. CASE Fail
      BY <1>0, <1>1, <2>0, <2>1 DEF Fail, treeVars
    <2>2. CASE ~Fail
      <3>1. /\ UNCHANGED fixed /\ state = "TREE" /\ state' \in {"YAML", "PADDING"}
            /\ tree' = [tree EXCEPT !.end = TreeEnd(lost'), !.found = ~Emitting]
        BY <1>8, <2>2 DEF ParseTreeFast
      <3>2. TreeEnd(lost') \in Int /\ (~Emitting) \in BOOLEAN
        <4>1. PosAfterTree \in Int
          BY <1>0, ScanType DEF PosAfterTree, TreeMark
        <4>2. Tell(PosAfterTree, lost') \in Int
          BY <4>1, TellType
        <4>3. QED
          BY <4>2 DEF TreeEnd
      <3>3. tree' \in TreeType /\ tree'.start = tree.start
        BY <1>0, <3>1, <3>2, TreeUpdates
      <3>4. QED
        BY <1>1, <2>0, <3>1, <3>3
    <2>3. QED
      BY <2>1, <2>2
  <1>9. CASE YamlAbort \/ YamlEvent \/ YamlError \/ YamlTreeEnd
    <2>1. /\ UNCHANGED <<fixed, tree>> /\ state = "YAML" /\ (misled => misled')
          /\ state' \in {"ABORT", "YAML", "ERROR", "PADDING"}
      <3>1. CASE YamlError
        BY <3>1 DEF YamlError, Fail, treeVars
      <3>2. CASE YamlAbort \/ YamlEvent \/ YamlTreeEnd
        <4>1. misled' = misled
          BY <3>2 DEF YamlAbort, YamlEvent, YamlTreeEnd, told
        <4>2. QED
          BY <3>2, <4>1 DEF YamlAbort, YamlEvent, YamlTreeEnd, treeVars
      <3>3. QED
        BY <1>9, <3>1, <3>2
    <2>2. QED
      BY <1>0, <1>1, <2>1
  <1>10. CASE YamlDocumentEnd
    <2>1. /\ UNCHANGED <<fixed, state>> /\ state = "YAML" /\ (misled => misled')
          /\ tree' = [tree EXCEPT !.end = Tell(YamlEnd, lost), !.found = TRUE]
      BY <1>10 DEF YamlDocumentEnd
    <2>2. Tell(YamlEnd, lost) \in Int
      BY <1>0, YamlEndTyped, TellType DEF YamlEndType
    <2>3. tree' \in TreeType /\ tree'.start = tree.start
      BY <1>0, <2>1, <2>2, TreeUpdates
    <2>4. QED
      BY <1>1, <2>1, <2>3
  <1>11. CASE YamlStreamEnd
    <2>1. /\ UNCHANGED <<fixed, state, misled>> /\ state = "YAML"
          /\ tree' = [tree EXCEPT !.done = TRUE]
      BY <1>11 DEF YamlStreamEnd, told
    <2>2. tree' \in TreeType /\ tree'.start = tree.start
      BY <1>0, <2>1, TreeUpdates
    <2>3. QED
      BY <1>1, <2>1, <2>2
  <1>12. CASE ParsePadding \/ ParseEnd \/ ParseError
    BY <1>0, <1>1, <1>12 DEF ParsePadding, ParseEnd, ParseError, treeVars, told
  <1>13. CASE NoMoreBlocks
    BY <1>0, <1>1, <1>13 DEF NoMoreBlocks, treeVars
  <1>14. CASE ParseBlock
    <2>1. UNCHANGED <<fixed, tree>> /\ state' \in {"BLOCK", "ERROR"} /\ (misled => misled')
      BY <1>14 DEF ParseBlock, treeVars
    <2>2. QED
      BY <1>0, <1>1, <2>1
  <1>15. Goal
    BY <1>2, <1>3, <1>4, <1>5, <1>6, <1>7, <1>8, <1>9, <1>10, <1>11, <1>12, <1>13, <1>14 DEF Next
  <1>16. QED
    BY <1>15

\* No step passes a block by.
LEMMA SearchInvNext == SearchInv /\ IndexInv /\ [Next]_vars => SearchInv'
  <1> SUFFICES ASSUME SearchInv, IndexInv, [Next]_vars PROVE SearchInv'
    OBVIOUS
  <1>1. CASE UNCHANGED vars
    <2>1. UNCHANGED <<fixed, blockVars, state, pos, err, tree, misled>> /\ EOF' = EOF
      BY <1>1 DEF vars, fixed, blockVars, EOF
    <2>2. Sound' => Sound
      BY <2>1, SoundBefore
    <2>3. Sound' => SoundInv'
      BY <2>1, <2>2, FoundKept DEF SearchInv
    <2>4. QED
      BY <2>1, <2>3 DEF SearchInv, fixed
  <1>2. CASE Next
    <2>1. /\ UNCHANGED fixed /\ file' \in Files /\ tree' \in TreeType
          /\ tree'.start = tree.start \/ tree.start = 0
          /\ state' \in {"ASDF_VERSION", "STANDARD_VERSION", "COMMENT", "BLOCK_INDEX",
                         "TREE_OR_BLOCK"} => tree'.start = 0
          /\ ~misled' /\ state' \in {"TREE", "YAML"} => tree'.start \in 1 .. EOF'
          /\ misled => misled'
      BY <1>2, StartKept
    <2>2. ASSUME Sound' PROVE SoundInv'
      <3>1. Sound /\ SoundInv /\ ~misled'
        BY <2>1, <2>2, SoundBefore DEF SearchInv, Sound
      <3>2. CASE ParseAsdfVersion \/ ParseStandardVersion \/ ParseComment
        BY <3>1, <3>2, HeaderClear
      <3>3. CASE NoBlockIndex \/ CorruptBlockIndex \/ ParseBlockIndex
        BY <3>1, <3>3, IndexTaken
      <3>4. CASE FindTree \/ FindBlock
        BY <3>1, <3>4, TreeSought
      <3>5. CASE FindNothing
        BY <3>1, <3>5, NothingFound
      <3>6. CASE ParseTreeFast \/ ParseTreeYaml
        BY <3>1, <3>6, TreePassed
      <3>7. CASE \/ YamlAbort \/ YamlEvent \/ YamlError
                 \/ YamlDocumentEnd \/ YamlStreamEnd \/ YamlTreeEnd
        BY <3>1, <3>7, YamlPassed
      <3>8. CASE ParsePadding
        <4>1. /\ state \in Early /\ state' = "BLOCK" /\ UNCHANGED <<fixed, pos, err, blockVars>>
              /\ Clear(pos) /\ pos \in Nat
          BY <3>1, <3>8 DEF ParsePadding, Early, SoundInv, Untouched
        <4>2. Clear(pos)' /\ pos' \in Nat
          <5>1. PICK n : n = pos
            OBVIOUS
          <5>2. QED
            BY <4>1, <5>1, ClearNext
        <4>3. QED
          BY <3>1, <4>1, <4>2, BlocksBegin
      <3>9. CASE NoMoreBlocks
        BY <3>1, <3>9, BlocksEnd
      <3>10. CASE ParseBlock
        BY <3>1, <3>10, BlockTaken
      <3>11. CASE ParseEnd
        <4>1. UNCHANGED <<fixed, blockVars, state, pos, err, tree>>
          BY <3>11 DEF ParseEnd, treeVars
        <4>2. QED
          BY <3>1, <4>1, FoundKept
      <3>12. CASE ParseError
        BY <3>1, <3>12 DEF ParseError, SoundInv
      <3>13. CASE FindFalseIndex \/ FindBadDirective \/ TreeFalseEnd
        <4>1. PICK q \in {IndexMark, NextPart, TreeMark} : GoesRound(q)
          BY <3>13 DEF FindFalseIndex, FindBadDirective, TreeFalseEnd
        <4>2. IndexMark \in Nat /\ NextPart \in Nat /\ TreeMark \in Nat
          BY ScanType DEF SearchInv, IndexMark, NextPart, TreeMark
        <4>3. q \in Nat
          BY <4>1, <4>2
        <4>4. QED
          BY <3>1, <4>1, <4>3, NothingAfter
      <3>14. QED
        BY <1>2, <3>2, <3>3, <3>4, <3>5, <3>6, <3>7, <3>8, <3>9, <3>10, <3>11, <3>12, <3>13
        DEF Next
    <2>3. QED
      BY <2>1, <2>2 DEF SearchInv
  <1>3. QED
    BY <1>1, <1>2

\* For every file, stream and option each block of the file is reported and listed
\* once, in order, unless the index misleads the parser unnoticed, or the stream
\* cannot do what the options ask or has told it a wrong position: what a client that
\* walks or counts the blocks relies on.
THEOREM BlocksAreFound == Spec => []SoundBlocksFound
  <1>1. Init => SearchInv
    <2> SUFFICES ASSUME Init PROVE SearchInv
      OBVIOUS
    <2>1. /\ file \in Files /\ state = "ASDF_VERSION" /\ pos = 1 /\ err = FALSE
          /\ hasIndex = FALSE /\ infos = <<>> /\ blocks = <<>>
          /\ tree = [start |-> 0, end |-> 0, found |-> FALSE, done |-> FALSE, has |-> -1]
      BY Zenon DEF Init
    <2>2. tree \in TreeType /\ tree.start = 0
      BY <2>1 DEF TreeType
    <2>3. Clear(pos)
      BY <2>1 DEF Clear
    <2>4. Listed /\ Untouched
      BY <2>1, <2>3 DEF Listed, Untouched
    <2>5. QED
      BY <2>1, <2>2, <2>4 DEF SearchInv, SoundInv
  <1>2. SearchInv => SoundBlocksFound
    <2> SUFFICES ASSUME SearchInv, StreamSuffices, IndexHarmless, ~misled,
                        state \in {"END", "ERROR"}, WellFormed
                 PROVE  /\ state = "END" /\ ~err /\ blocks = infos /\ Increasing(infos)
                        /\ {infos[i] : i \in DOMAIN infos} = FileBlocks
      BY DEF SoundBlocksFound, BlocksFound
    <2>1. SoundInv
      BY DEF SearchInv, Sound
    <2>2. state = "END" /\ err = FALSE /\ AllFound
      BY <2>1 DEF SoundInv
    <2>3. QED
      BY <2>2 DEF AllFound
  <1>3. QED
    BY <1>1, <1>2, IndexInvInit, IndexInvNext, SearchInvNext, PTL DEF Spec
=============================================================================
