------------------------- MODULE LazyDecomp_proofs -------------------------
(***************************************************************************)
(* Proofs about LazyDecomp: for any number of readers, any size of the     *)
(* mapping and of the chunk, and any streams and configurations, as long   *)
(* as both sizes fit in the 32-bit counters of zlib and libbz2; and about  *)
(* UffdProbe, whose answer decides whether lazy mode can be had.           *)
(***************************************************************************)
EXTENDS LazyDecomp, UffdProbe, TLAPS

\* Sizes for which avail_out is not truncated.
Fits == NPages < UIntPages /\ ChunkPages < UIntPages

\* The callback can fill a buffer of the sizes it is given.
LEMMA RoomIsWhole ==
    ASSUME Fits, NEW n \in {NPages, ChunkPages}
    PROVE  AvailOut(n) = n /\ Room(n) = n
BY SizeAssumption DEF Fits, AvailOut, Room

\* What a successful call of the decompressor says about the stream: the end
\* is reported only when nothing is left, and unless the stream is short
\* without the codec being able to tell, a call that is not one after the end
\* filled the buffer or the rest of the mapping.
LEMMA DecompResult ==
    ASSUME Fits, TypeOK, NEW n \in {NPages, ChunkPages},
           NEW res \in Decomp(n), res # "ERR"
    PROVE  /\ res \in {"OK", "END"}
           /\ res = "END" =>
                 \/ status = "DONE" /\ src.codec # "lz4"
                 \/ src.pages <= progress + n /\ src.tail = "end" /\ src.codec # "lz4"
                 \/ progress + n >= NPages
           /\ (src.codec = "lz4" \/ status # "DONE") /\ ~ShortUnnoticed =>
                 \A p \in Pages : progress <= p /\ p < progress + n => p < src.pages
<1>0. /\ src.pages \in Nat /\ progress \in Nat /\ src.codec \in Codecs
      /\ n \in Nat \ {0} /\ NPages \in Nat
      /\ \A p \in Pages : p \in Nat /\ p < NPages
  BY SizeAssumption, SourceAssumption DEF TypeOK, Pages
<1>1. AvailOut(n) = n
  BY RoomIsWhole
<1>2. CASE src.codec = "zlib"
  <2>1. res \in Inflate(n)
    BY <1>1, <1>2 DEF Decomp
  <2>. QED  BY <2>1, <1>0, <1>2 DEF Inflate, Left, Results, ShortUnnoticed
<1>3. CASE src.codec = "bzp2"
  <2>1. res \in BzDecompress(n)
    BY <1>1, <1>3 DEF Decomp
  <2>. QED  BY <2>1, <1>0, <1>3 DEF BzDecompress, Left, Results, ShortUnnoticed
<1>4. CASE src.codec = "lz4"
  <2>1. res \in Lz4Blocks(n)
    BY <1>4 DEF Decomp
  <2>. QED  BY <2>1, <1>0, <1>4 DEF Lz4Blocks, Left, Pages
<1>. QED  BY <1>0, <1>2, <1>3, <1>4 DEF Codecs

\* Sizes and page numbers are what arithmetic needs them to be.
LEMMA Sizes ==
    /\ NPages \in Nat \ {0} /\ ChunkPages \in Nat \ {0}
    /\ 0 \in Pages
    /\ \A p \in Pages : p \in Nat /\ p < NPages
BY SizeAssumption DEF Pages

\* The initial state satisfies the invariant.
LEMMA InitInv == Init => Inv
<1>. SUFFICES ASSUME Init PROVE Inv
  OBVIOUS
<1>1. TypeOK
  BY Sizes DEF Init, TypeOK
<1>2. Lifecycle /\ FilledPrefix /\ DoneIsComplete /\ ReadsAreData
  BY DEF Init, Lifecycle, FilledPrefix, DoneIsComplete, ReadsAreData
<1>3. Contents
  BY DEF Init, Contents
<1>. QED  BY <1>1, <1>2, <1>3 DEF Inv

\* Every step preserves the invariant; the handler's two steps that move data
\* (DecompChunk, CopyChunk) carry the argument.
LEMMA NextInv == ASSUME Fits, Inv, [Next]_vars PROVE Inv'
<1>0. /\ TypeOK /\ Lifecycle /\ FilledPrefix /\ DoneIsComplete /\ Contents
      /\ ReadsAreData /\ src.pages \in Nat
  BY SourceAssumption DEF Inv, TypeOK
<1>1. CASE OpenFails
  <2>1. TypeOK'
    BY <1>0, <1>1, Sizes DEF OpenFails, Open, TypeOK
  <2>2. Lifecycle'
    BY <1>0, <1>1, Sizes DEF OpenFails, Open, Lifecycle, TypeOK
  <2>3. FilledPrefix'
    BY <1>0, <1>1, Sizes DEF OpenFails, Open, FilledPrefix, Lifecycle,
       TypeOK
  <2>4. DoneIsComplete'
    BY <1>0, <1>1, Sizes DEF OpenFails, Open, DoneIsComplete, Lifecycle,
       ShortUnnoticed
  <2>5. Contents'
    BY <1>0, <1>1, Sizes DEF OpenFails, Open, Contents, Lifecycle,
       FilledPrefix, DoneIsComplete, Excused, ShortUnnoticed, Chunk,
       TypeOK
  <2>6. ReadsAreData'
    BY <1>0, <1>1, Sizes DEF OpenFails, Open, ReadsAreData, Contents,
       Lifecycle, Excused, ShortUnnoticed, TypeOK
  <2>. QED  BY <2>1, <2>2, <2>3, <2>4, <2>5, <2>6 DEF Inv
<1>2. CASE OpenEager
  <2>0. PICK res \in Decomp(NPages) :
           IF res = "ERR"
           THEN UNCHANGED <<opc, mode, page, status, progress, err>>
           ELSE /\ opc' = "open" /\ mode' = "eager"
                /\ page' = [p \in Pages |-> Produced(p, 0, NPages)]
                /\ status' = StatusAfter(res)
                /\ progress' = NPages
                /\ err' = FALSE
    BY <1>2 DEF OpenEager
  <2>1. TypeOK'
    <3>1. page' \in [Pages -> {"missing", "data", "zeros"}]
      BY <1>0, <2>0 DEF TypeOK, Produced
    <3>2. /\ opc' \in {"closed", "open", "stopping", "signalled"}
          /\ mode' \in {"none", "eager", "lazy"}
      BY <1>0, <2>0 DEF TypeOK
    <3>3. status' \in {"INITIALIZED", "IN_PROGRESS", "DONE"} /\ progress' \in Nat
      BY <1>0, <2>0, Sizes DEF TypeOK, StatusAfter
    <3>4. err' \in BOOLEAN
      BY <1>0, <2>0 DEF TypeOK
    <3>5. /\ stop' \in BOOLEAN /\ rval' \in [Readers -> {"none", "data", "zeros", "trap"}]
          /\ UNCHANGED <<src, conf, evt, fault, got, rpc, rpg, stray, registered, hpc>>
      BY <1>2 DEF OpenEager, Open
    <3>. QED  BY <1>0, <3>1, <3>2, <3>3, <3>4, <3>5 DEF TypeOK
  <2>2. Lifecycle'
    BY <1>0, <1>2, <2>0 DEF OpenEager, Open, Lifecycle, TypeOK
  <2>3. FilledPrefix'
    BY <1>0, <1>2 DEF OpenEager, Open, FilledPrefix, Lifecycle
  <2>4. DoneIsComplete'
    BY <1>0, <1>2, <2>0, Sizes
       DEF OpenEager, Open, DoneIsComplete, Lifecycle, ShortUnnoticed
  <2>5. Contents'
    <3>1. CASE res = "ERR"
      BY <1>0, <1>2, <2>0, <3>1
         DEF OpenEager, Open, Contents, Lifecycle, Excused
    <3>2. CASE res # "ERR"
      <4>1. \A p \in Pages : page'[p] = "zeros" => ShortUnnoticed
        BY <1>0, <2>0, <3>2, Sizes, RoomIsWhole, DecompResult, <1>2
           DEF Produced, ShortUnnoticed, Lifecycle, OpenEager, Open
      <4>. QED
        BY <1>0, <1>2, <2>0, <3>2, <4>1
           DEF OpenEager, Open, Contents, Lifecycle, Excused, Produced,
               ShortUnnoticed
    <3>. QED  BY <3>1, <3>2
  <2>6. ReadsAreData'
    BY <1>2 DEF OpenEager, Open, ReadsAreData
  <2>. QED  BY <2>1, <2>2, <2>3, <2>4, <2>5, <2>6 DEF Inv
<1>3. CASE OpenLazy
  <2>1. TypeOK'
    BY <1>0, <1>3, Sizes DEF OpenLazy, Open, TypeOK
  <2>2. Lifecycle'
    BY <1>0, <1>3, Sizes DEF OpenLazy, Open, Lifecycle, TypeOK
  <2>3. FilledPrefix'
    BY <1>0, <1>3, Sizes DEF OpenLazy, Open, FilledPrefix, Lifecycle,
       TypeOK
  <2>4. DoneIsComplete'
    BY <1>0, <1>3, Sizes DEF OpenLazy, Open, DoneIsComplete, Lifecycle,
       ShortUnnoticed
  <2>5. Contents'
    BY <1>0, <1>3, Sizes DEF OpenLazy, Open, Contents, Lifecycle,
       FilledPrefix, DoneIsComplete, Excused, ShortUnnoticed, Chunk,
       TypeOK
  <2>6. ReadsAreData'
    BY <1>0, <1>3, Sizes DEF OpenLazy, Open, ReadsAreData, Contents,
       Lifecycle, Excused, ShortUnnoticed, TypeOK
  <2>. QED  BY <2>1, <2>2, <2>3, <2>4, <2>5, <2>6 DEF Inv
<1>4. CASE OpenLazyFails
  <2>1. TypeOK'
    BY <1>0, <1>4, Sizes DEF OpenLazyFails, Open, TypeOK
  <2>2. Lifecycle'
    BY <1>0, <1>4, Sizes DEF OpenLazyFails, Open, Lifecycle, TypeOK
  <2>3. FilledPrefix'
    BY <1>0, <1>4, Sizes DEF OpenLazyFails, Open, FilledPrefix,
       Lifecycle, TypeOK
  <2>4. DoneIsComplete'
    BY <1>0, <1>4, Sizes DEF OpenLazyFails, Open, DoneIsComplete,
       Lifecycle, ShortUnnoticed
  <2>5. Contents'
    BY <1>0, <1>4, Sizes DEF OpenLazyFails, Open, Contents, Lifecycle,
       FilledPrefix, DoneIsComplete, Excused, ShortUnnoticed, Chunk,
       TypeOK
  <2>6. ReadsAreData'
    BY <1>0, <1>4, Sizes DEF OpenLazyFails, Open, ReadsAreData,
       Contents, Lifecycle, Excused, ShortUnnoticed, TypeOK
  <2>. QED  BY <2>1, <2>2, <2>3, <2>4, <2>5, <2>6 DEF Inv
<1>5. CASE CloseEager
  <2>1. TypeOK'
    BY <1>0, <1>5, Sizes DEF CloseEager, Reset, readerVars, TypeOK
  <2>2. Lifecycle'
    BY <1>0, <1>5, Sizes DEF CloseEager, Reset, readerVars, Lifecycle,
       TypeOK
  <2>3. FilledPrefix'
    BY <1>0, <1>5, Sizes DEF CloseEager, Reset, readerVars,
       FilledPrefix, Lifecycle, TypeOK
  <2>4. DoneIsComplete'
    BY <1>0, <1>5, Sizes DEF CloseEager, Reset, readerVars,
       DoneIsComplete, Lifecycle, ShortUnnoticed
  <2>5. Contents'
    BY <1>0, <1>5, Sizes DEF CloseEager, Reset, readerVars, Contents,
       Lifecycle, FilledPrefix, DoneIsComplete, Excused, ShortUnnoticed,
       Chunk, TypeOK
  <2>6. ReadsAreData'
    BY <1>0, <1>5, Sizes DEF CloseEager, Reset, readerVars,
       ReadsAreData, Contents, Lifecycle, Excused, ShortUnnoticed,
       TypeOK
  <2>. QED  BY <2>1, <2>2, <2>3, <2>4, <2>5, <2>6 DEF Inv
<1>6. CASE CloseStop
  <2>1. TypeOK'
    BY <1>0, <1>6, Sizes DEF CloseStop, setupVars, handlerVars,
       readerVars, TypeOK
  <2>2. Lifecycle'
    BY <1>0, <1>6, Sizes DEF CloseStop, setupVars, handlerVars,
       readerVars, Lifecycle, TypeOK
  <2>3. FilledPrefix'
    BY <1>0, <1>6, Sizes DEF CloseStop, setupVars, handlerVars,
       readerVars, FilledPrefix, Lifecycle, TypeOK
  <2>4. DoneIsComplete'
    BY <1>0, <1>6, Sizes DEF CloseStop, setupVars, handlerVars,
       readerVars, DoneIsComplete, Lifecycle, ShortUnnoticed
  <2>5. Contents'
    BY <1>0, <1>6, Sizes DEF CloseStop, setupVars, handlerVars,
       readerVars, Contents, Lifecycle, FilledPrefix, DoneIsComplete,
       Excused, ShortUnnoticed, Chunk, TypeOK
  <2>6. ReadsAreData'
    BY <1>0, <1>6, Sizes DEF CloseStop, setupVars, handlerVars,
       readerVars, ReadsAreData, Contents, Lifecycle, Excused,
       ShortUnnoticed, TypeOK
  <2>. QED  BY <2>1, <2>2, <2>3, <2>4, <2>5, <2>6 DEF Inv
<1>7. CASE CloseSignal
  <2>1. TypeOK'
    BY <1>0, <1>7, Sizes DEF CloseSignal, setupVars, handlerVars,
       readerVars, TypeOK
  <2>2. Lifecycle'
    BY <1>0, <1>7, Sizes DEF CloseSignal, setupVars, handlerVars,
       readerVars, Lifecycle, TypeOK
  <2>3. FilledPrefix'
    BY <1>0, <1>7, Sizes DEF CloseSignal, setupVars, handlerVars,
       readerVars, FilledPrefix, Lifecycle, TypeOK
  <2>4. DoneIsComplete'
    BY <1>0, <1>7, Sizes DEF CloseSignal, setupVars, handlerVars,
       readerVars, DoneIsComplete, Lifecycle, ShortUnnoticed
  <2>5. Contents'
    BY <1>0, <1>7, Sizes DEF CloseSignal, setupVars, handlerVars,
       readerVars, Contents, Lifecycle, FilledPrefix, DoneIsComplete,
       Excused, ShortUnnoticed, Chunk, TypeOK
  <2>6. ReadsAreData'
    BY <1>0, <1>7, Sizes DEF CloseSignal, setupVars, handlerVars,
       readerVars, ReadsAreData, Contents, Lifecycle, Excused,
       ShortUnnoticed, TypeOK
  <2>. QED  BY <2>1, <2>2, <2>3, <2>4, <2>5, <2>6 DEF Inv
<1>8. CASE CloseJoin
  <2>1. TypeOK'
    BY <1>0, <1>8, Sizes DEF CloseJoin, Reset, readerVars, TypeOK
  <2>2. Lifecycle'
    BY <1>0, <1>8, Sizes DEF CloseJoin, Reset, readerVars, Lifecycle,
       TypeOK
  <2>3. FilledPrefix'
    BY <1>0, <1>8, Sizes DEF CloseJoin, Reset, readerVars, FilledPrefix,
       Lifecycle, TypeOK
  <2>4. DoneIsComplete'
    BY <1>0, <1>8, Sizes DEF CloseJoin, Reset, readerVars,
       DoneIsComplete, Lifecycle, ShortUnnoticed
  <2>5. Contents'
    BY <1>0, <1>8, Sizes DEF CloseJoin, Reset, readerVars, Contents,
       Lifecycle, FilledPrefix, DoneIsComplete, Excused, ShortUnnoticed,
       Chunk, TypeOK
  <2>6. ReadsAreData'
    BY <1>0, <1>8, Sizes DEF CloseJoin, Reset, readerVars, ReadsAreData,
       Contents, Lifecycle, Excused, ShortUnnoticed, TypeOK
  <2>. QED  BY <2>1, <2>2, <2>3, <2>4, <2>5, <2>6 DEF Inv
<1>9. CASE HandlerCheck
  <2>1. TypeOK'
    BY <1>0, <1>9, Sizes DEF HandlerCheck, setupVars, ownerVars,
       readerVars, TypeOK
  <2>2. Lifecycle'
    BY <1>0, <1>9, Sizes DEF HandlerCheck, setupVars, ownerVars,
       readerVars, Lifecycle, TypeOK
  <2>3. FilledPrefix'
    BY <1>0, <1>9, Sizes DEF HandlerCheck, setupVars, ownerVars,
       readerVars, FilledPrefix, Lifecycle, TypeOK
  <2>4. DoneIsComplete'
    BY <1>0, <1>9, Sizes DEF HandlerCheck, setupVars, ownerVars,
       readerVars, DoneIsComplete, Lifecycle, ShortUnnoticed
  <2>5. Contents'
    BY <1>0, <1>9, Sizes DEF HandlerCheck, setupVars, ownerVars,
       readerVars, Contents, Lifecycle, FilledPrefix, DoneIsComplete,
       Excused, ShortUnnoticed, Chunk, TypeOK
  <2>6. ReadsAreData'
    BY <1>0, <1>9, Sizes DEF HandlerCheck, setupVars, ownerVars,
       readerVars, ReadsAreData, Contents, Lifecycle, Excused,
       ShortUnnoticed, TypeOK
  <2>. QED  BY <2>1, <2>2, <2>3, <2>4, <2>5, <2>6 DEF Inv
<1>10. CASE PollExit
  <2>1. TypeOK'
    BY <1>0, <1>10, Sizes DEF PollExit, setupVars, ownerVars,
       readerVars, TypeOK
  <2>2. Lifecycle'
    BY <1>0, <1>10, Sizes DEF PollExit, setupVars, ownerVars,
       readerVars, Lifecycle, TypeOK
  <2>3. FilledPrefix'
    BY <1>0, <1>10, Sizes DEF PollExit, setupVars, ownerVars,
       readerVars, FilledPrefix, Lifecycle, TypeOK
  <2>4. DoneIsComplete'
    BY <1>0, <1>10, Sizes DEF PollExit, setupVars, ownerVars,
       readerVars, DoneIsComplete, Lifecycle, ShortUnnoticed
  <2>5. Contents'
    BY <1>0, <1>10, Sizes DEF PollExit, setupVars, ownerVars,
       readerVars, Contents, Lifecycle, FilledPrefix, DoneIsComplete,
       Excused, ShortUnnoticed, Chunk, TypeOK
  <2>6. ReadsAreData'
    BY <1>0, <1>10, Sizes DEF PollExit, setupVars, ownerVars,
       readerVars, ReadsAreData, Contents, Lifecycle, Excused,
       ShortUnnoticed, TypeOK
  <2>. QED  BY <2>1, <2>2, <2>3, <2>4, <2>5, <2>6 DEF Inv
<1>11. CASE PollFault
  <2>1. TypeOK'
    BY <1>0, <1>11, Sizes DEF PollFault, Pending, setupVars, ownerVars,
       TypeOK
  <2>2. Lifecycle'
    BY <1>0, <1>11, Sizes DEF PollFault, Pending, setupVars, ownerVars,
       Lifecycle, TypeOK
  <2>3. FilledPrefix'
    BY <1>0, <1>11, Sizes DEF PollFault, Pending, setupVars, ownerVars,
       FilledPrefix, Lifecycle, TypeOK
  <2>4. DoneIsComplete'
    BY <1>0, <1>11, Sizes DEF PollFault, Pending, setupVars, ownerVars,
       DoneIsComplete, Lifecycle, ShortUnnoticed
  <2>5. Contents'
    BY <1>0, <1>11, Sizes DEF PollFault, Pending, setupVars, ownerVars,
       Contents, Lifecycle, FilledPrefix, DoneIsComplete, Excused,
       ShortUnnoticed, Chunk, TypeOK
  <2>6. ReadsAreData'
    BY <1>0, <1>11, Sizes DEF PollFault, Pending, setupVars, ownerVars,
       ReadsAreData, Contents, Lifecycle, Excused, ShortUnnoticed,
       TypeOK
  <2>. QED  BY <2>1, <2>2, <2>3, <2>4, <2>5, <2>6 DEF Inv
<1>12. CASE WakeFilled
  <2>1. TypeOK'
    BY <1>0, <1>12, Sizes DEF WakeFilled, WokenBy, setupVars, ownerVars,
       TypeOK
  <2>2. Lifecycle'
    BY <1>0, <1>12, Sizes DEF WakeFilled, WokenBy, setupVars, ownerVars,
       Lifecycle, TypeOK
  <2>3. FilledPrefix'
    BY <1>0, <1>12, Sizes DEF WakeFilled, WokenBy, setupVars, ownerVars,
       FilledPrefix, Lifecycle, TypeOK
  <2>4. DoneIsComplete'
    BY <1>0, <1>12, Sizes DEF WakeFilled, WokenBy, setupVars, ownerVars,
       DoneIsComplete, Lifecycle, ShortUnnoticed
  <2>5. Contents'
    BY <1>0, <1>12, Sizes DEF WakeFilled, WokenBy, setupVars, ownerVars,
       Contents, Lifecycle, FilledPrefix, DoneIsComplete, Excused,
       ShortUnnoticed, Chunk, TypeOK
  <2>6. ReadsAreData'
    BY <1>0, <1>12, Sizes DEF WakeFilled, WokenBy, setupVars, ownerVars,
       ReadsAreData, Contents, Lifecycle, Excused, ShortUnnoticed,
       TypeOK
  <2>. QED  BY <2>1, <2>2, <2>3, <2>4, <2>5, <2>6 DEF Inv
<1>13. CASE DecompChunk
  <2>0. PICK res \in Decomp(ChunkPages) :
           IF res = "ERR"
           THEN /\ status' = "IN_PROGRESS" /\ err' = TRUE /\ hpc' = "exit"
                /\ UNCHANGED <<got, progress>>
           ELSE /\ status' = StatusAfter(res) /\ got' = progress
                /\ progress' = progress + ChunkPages
                /\ hpc' = "copy" /\ UNCHANGED err
    BY <1>13 DEF DecompChunk
  <2>00. /\ hpc = "decomp" /\ ~stop
         /\ UNCHANGED <<src, conf, opc, mode, stray, stop, page, registered,
                        evt, fault, rpc, rpg, rval>>
    BY <1>13 DEF DecompChunk, setupVars, ownerVars, readerVars
  <2>1. TypeOK'
    <3>1. progress + ChunkPages \in Nat /\ got' \in Nat /\ progress' \in Nat
      BY <1>0, <2>0, Sizes DEF TypeOK
    <3>2. status' \in {"INITIALIZED", "IN_PROGRESS", "DONE"}
      BY <2>0 DEF StatusAfter
    <3>3. err' \in BOOLEAN
      BY <1>0, <2>0 DEF TypeOK
    <3>. QED  BY <1>0, <2>0, <2>00, <3>1, <3>2, <3>3 DEF TypeOK
  <2>2. Lifecycle'
    BY <1>0, <2>0, <2>00 DEF Lifecycle, TypeOK
  <2>3. FilledPrefix'
    BY <1>0, <2>0, <2>00, Sizes DEF FilledPrefix, Lifecycle, TypeOK
  <2>4. DoneIsComplete'
    <3>1. CASE res = "END"
      <4>1. \/ progress + ChunkPages >= NPages
            \/ ShortUnnoticed
        <5>1. \/ status = "DONE"
              \/ src.pages <= progress + ChunkPages /\ src.tail = "end" /\ src.codec # "lz4"
              \/ progress + ChunkPages >= NPages
          BY <1>0, <3>1, DecompResult
        <5>2. progress \in Nat /\ src.codec \in Codecs
          BY <1>0, SourceAssumption DEF TypeOK
        <5>. QED  BY <1>0, <5>1, <5>2, Sizes DEF DoneIsComplete, ShortUnnoticed
      <4>. QED  BY <2>0, <2>00, <3>1, <4>1 DEF DoneIsComplete, ShortUnnoticed
    <3>2. CASE res # "END"
      BY <2>0, <3>2 DEF DoneIsComplete, StatusAfter
    <3>. QED  BY <3>1, <3>2
  <2>5. Contents'
    <3>1. CASE res = "ERR"
      BY <1>0, <2>0, <2>00, <3>1 DEF Contents, Excused, Lifecycle
    <3>2. CASE res # "ERR"
      <4>1. ~ShortUnnoticed => \A p \in Chunk' : p < src.pages
        <5>1. Chunk' = {p \in Pages : progress <= p /\ p < progress + ChunkPages}
          BY <2>0, <3>2 DEF Chunk, Pages
        <5>2. CASE status = "DONE" /\ ~ShortUnnoticed
          <6>1. progress >= NPages /\ progress \in Nat
            BY <1>0, <5>2 DEF DoneIsComplete, TypeOK
          <6>. QED  BY <5>1, <6>1, Sizes
        <5>3. CASE status # "DONE"
          BY <1>0, <5>1, <5>3, <3>2, DecompResult
        <5>. QED  BY <5>2, <5>3
      <4>. QED
        BY <1>0, <2>0, <2>00, <3>2, <4>1
           DEF Contents, Excused, ShortUnnoticed, Lifecycle
    <3>. QED  BY <3>1, <3>2
  <2>6. ReadsAreData'
    BY <1>0, <2>0, <2>00 DEF ReadsAreData, Excused, ShortUnnoticed
  <2>. QED  BY <2>1, <2>2, <2>3, <2>4, <2>5, <2>6 DEF Inv
<1>14. CASE StopFault
  <2>1. TypeOK'
    BY <1>0, <1>14, Sizes DEF StopFault, setupVars, ownerVars,
       readerVars, TypeOK
  <2>2. Lifecycle'
    BY <1>0, <1>14, Sizes DEF StopFault, setupVars, ownerVars,
       readerVars, Lifecycle, TypeOK
  <2>3. FilledPrefix'
    BY <1>0, <1>14, Sizes DEF StopFault, setupVars, ownerVars,
       readerVars, FilledPrefix, Lifecycle, TypeOK
  <2>4. DoneIsComplete'
    BY <1>0, <1>14, Sizes DEF StopFault, setupVars, ownerVars,
       readerVars, DoneIsComplete, Lifecycle, ShortUnnoticed
  <2>5. Contents'
    BY <1>0, <1>14, Sizes DEF StopFault, setupVars, ownerVars,
       readerVars, Contents, Lifecycle, FilledPrefix, DoneIsComplete,
       Excused, ShortUnnoticed, Chunk, TypeOK
  <2>6. ReadsAreData'
    BY <1>0, <1>14, Sizes DEF StopFault, setupVars, ownerVars,
       readerVars, ReadsAreData, Contents, Lifecycle, Excused,
       ShortUnnoticed, TypeOK
  <2>. QED  BY <2>1, <2>2, <2>3, <2>4, <2>5, <2>6 DEF Inv
<1>15. CASE CopyChunk
  <2>0. /\ hpc = "copy"
        /\ UNCHANGED <<src, conf, opc, mode, stray, stop, registered, evt, fault,
                       got, status, progress, rpg, rval>>
    BY <1>15 DEF CopyChunk, setupVars, ownerVars
  <2>00. \A p \in Chunk : p \in Pages /\ page[p] = "missing"
    BY <1>0, <2>0, Sizes DEF Chunk, FilledPrefix, Lifecycle, TypeOK
  <2>01. /\ page' = [p \in Pages |->
                        IF p \in Chunk THEN Produced(p, got, ChunkPages)
                        ELSE page[p]]
         /\ rpc' = IF HasFault THEN WokenBy(Chunk) ELSE rpc
         /\ hpc' = IF HasFault THEN "check" ELSE "decomp"
         /\ UNCHANGED err
    BY <1>15, <2>00 DEF CopyChunk
  <2>02. \A p \in Pages : Produced(p, got, ChunkPages) \in {"data", "zeros"}
    BY DEF Produced
  <2>1. TypeOK'
    <3>1. page' \in [Pages -> {"missing", "data", "zeros"}]
      BY <1>0, <2>01, <2>02 DEF TypeOK
    <3>2. rpc' \in [Readers -> {"idle", "try", "pending", "asleep"}]
      BY <1>0, <2>01 DEF TypeOK, WokenBy
    <3>. QED  BY <1>0, <2>0, <2>01, <3>1, <3>2 DEF TypeOK
  <2>2. Lifecycle'
    BY <1>0, <2>0, <2>01 DEF Lifecycle
  <2>3. FilledPrefix'
    BY <1>0, <2>0, <2>01, <2>02, Sizes
       DEF FilledPrefix, Lifecycle, TypeOK, Chunk
  <2>4. DoneIsComplete'
    BY <1>0, <2>0 DEF DoneIsComplete, ShortUnnoticed
  <2>5. Contents'
    <3>1. \A p \in Chunk : Produced(p, got, ChunkPages) = "zeros" => ShortUnnoticed
      <4>1. \A p \in Chunk : p < got + Room(ChunkPages) /\ p \in Nat /\ p < NPages
        BY RoomIsWhole, Sizes DEF Chunk
      <4>. QED
        BY <1>0, <2>0, <4>1, Sizes DEF Produced, ShortUnnoticed, Contents
    <3>. QED
      BY <1>0, <2>0, <2>01, <3>1
         DEF Contents, Excused, ShortUnnoticed, Lifecycle
  <2>6. ReadsAreData'
    BY <1>0, <2>0, <2>01 DEF ReadsAreData, Excused, ShortUnnoticed
  <2>. QED  BY <2>1, <2>2, <2>3, <2>4, <2>5, <2>6 DEF Inv
<1>16. CASE HandlerExit
  <2>1. TypeOK'
    BY <1>0, <1>16, Sizes DEF HandlerExit, WokenBy, setupVars,
       ownerVars, TypeOK
  <2>2. Lifecycle'
    BY <1>0, <1>16, Sizes DEF HandlerExit, WokenBy, setupVars,
       ownerVars, Lifecycle, TypeOK
  <2>3. FilledPrefix'
    BY <1>0, <1>16, Sizes DEF HandlerExit, WokenBy, setupVars,
       ownerVars, FilledPrefix, Lifecycle, TypeOK
  <2>4. DoneIsComplete'
    BY <1>0, <1>16, Sizes DEF HandlerExit, WokenBy, setupVars,
       ownerVars, DoneIsComplete, Lifecycle, ShortUnnoticed
  <2>5. Contents'
    BY <1>0, <1>16, Sizes DEF HandlerExit, WokenBy, setupVars,
       ownerVars, Contents, Lifecycle, FilledPrefix, DoneIsComplete,
       Excused, ShortUnnoticed, Chunk, TypeOK
  <2>6. ReadsAreData'
    BY <1>0, <1>16, Sizes DEF HandlerExit, WokenBy, setupVars,
       ownerVars, ReadsAreData, Contents, Lifecycle, Excused,
       ShortUnnoticed, TypeOK
  <2>. QED  BY <2>1, <2>2, <2>3, <2>4, <2>5, <2>6 DEF Inv
<1>17. CASE PollInterrupted
  <2>1. TypeOK'
    BY <1>0, <1>17, Sizes DEF PollInterrupted, setupVars, ownerVars,
       readerVars, TypeOK
  <2>2. Lifecycle'
    BY <1>0, <1>17, Sizes DEF PollInterrupted, setupVars, ownerVars,
       readerVars, Lifecycle, TypeOK
  <2>3. FilledPrefix'
    BY <1>0, <1>17, Sizes DEF PollInterrupted, setupVars, ownerVars,
       readerVars, FilledPrefix, Lifecycle, TypeOK
  <2>4. DoneIsComplete'
    BY <1>0, <1>17, Sizes DEF PollInterrupted, setupVars, ownerVars,
       readerVars, DoneIsComplete, Lifecycle, ShortUnnoticed
  <2>5. Contents'
    BY <1>0, <1>17, Sizes DEF PollInterrupted, setupVars, ownerVars,
       readerVars, Contents, Lifecycle, FilledPrefix, DoneIsComplete,
       Excused, ShortUnnoticed, Chunk, TypeOK
  <2>6. ReadsAreData'
    BY <1>0, <1>17, Sizes DEF PollInterrupted, setupVars, ownerVars,
       readerVars, ReadsAreData, Contents, Lifecycle, Excused,
       ShortUnnoticed, TypeOK
  <2>. QED  BY <2>1, <2>2, <2>3, <2>4, <2>5, <2>6 DEF Inv
<1>18. CASE PollError
  <2>1. TypeOK'
    BY <1>0, <1>18, Sizes DEF PollError, setupVars, ownerVars,
       readerVars, TypeOK
  <2>2. Lifecycle'
    BY <1>0, <1>18, Sizes DEF PollError, setupVars, ownerVars,
       readerVars, Lifecycle, TypeOK
  <2>3. FilledPrefix'
    BY <1>0, <1>18, Sizes DEF PollError, setupVars, ownerVars,
       readerVars, FilledPrefix, Lifecycle, TypeOK
  <2>4. DoneIsComplete'
    BY <1>0, <1>18, Sizes DEF PollError, setupVars, ownerVars,
       readerVars, DoneIsComplete, Lifecycle, ShortUnnoticed
  <2>5. Contents'
    BY <1>0, <1>18, Sizes DEF PollError, setupVars, ownerVars,
       readerVars, Contents, Lifecycle, FilledPrefix, DoneIsComplete,
       Excused, ShortUnnoticed, Chunk, TypeOK
  <2>6. ReadsAreData'
    BY <1>0, <1>18, Sizes DEF PollError, setupVars, ownerVars,
       readerVars, ReadsAreData, Contents, Lifecycle, Excused,
       ShortUnnoticed, TypeOK
  <2>. QED  BY <2>1, <2>2, <2>3, <2>4, <2>5, <2>6 DEF Inv
<1>19. CASE \E r \in Readers : Access(r)
  <2>1. TypeOK'
    BY <1>0, <1>19, Sizes DEF Access, setupVars, ownerVars, handlerVars,
       TypeOK
  <2>2. Lifecycle'
    BY <1>0, <1>19, Sizes DEF Access, setupVars, ownerVars, handlerVars,
       Lifecycle, TypeOK
  <2>3. FilledPrefix'
    BY <1>0, <1>19, Sizes DEF Access, setupVars, ownerVars, handlerVars,
       FilledPrefix, Lifecycle, TypeOK
  <2>4. DoneIsComplete'
    BY <1>0, <1>19, Sizes DEF Access, setupVars, ownerVars, handlerVars,
       DoneIsComplete, Lifecycle, ShortUnnoticed
  <2>5. Contents'
    BY <1>0, <1>19, Sizes DEF Access, setupVars, ownerVars, handlerVars,
       Contents, Lifecycle, FilledPrefix, DoneIsComplete, Excused,
       ShortUnnoticed, Chunk, TypeOK
  <2>6. ReadsAreData'
    BY <1>0, <1>19, Sizes DEF Access, setupVars, ownerVars, handlerVars,
       ReadsAreData, Contents, Lifecycle, Excused, ShortUnnoticed,
       TypeOK
  <2>. QED  BY <2>1, <2>2, <2>3, <2>4, <2>5, <2>6 DEF Inv
<1>20. CASE \E r \in Readers, p \in Pages : Touch(r, p)
  <2>1. TypeOK'
    BY <1>0, <1>20, Sizes DEF Touch, setupVars, ownerVars, handlerVars,
       TypeOK
  <2>2. Lifecycle'
    BY <1>0, <1>20, Sizes DEF Touch, setupVars, ownerVars, handlerVars,
       Lifecycle, TypeOK
  <2>3. FilledPrefix'
    BY <1>0, <1>20, Sizes DEF Touch, setupVars, ownerVars, handlerVars,
       FilledPrefix, Lifecycle, TypeOK
  <2>4. DoneIsComplete'
    BY <1>0, <1>20, Sizes DEF Touch, setupVars, ownerVars, handlerVars,
       DoneIsComplete, Lifecycle, ShortUnnoticed
  <2>5. Contents'
    BY <1>0, <1>20, Sizes DEF Touch, setupVars, ownerVars, handlerVars,
       Contents, Lifecycle, FilledPrefix, DoneIsComplete, Excused,
       ShortUnnoticed, Chunk, TypeOK
  <2>6. ReadsAreData'
    BY <1>0, <1>20, Sizes DEF Touch, setupVars, ownerVars, handlerVars,
       ReadsAreData, Contents, Lifecycle, Excused, ShortUnnoticed,
       TypeOK
  <2>. QED  BY <2>1, <2>2, <2>3, <2>4, <2>5, <2>6 DEF Inv
<1>21. CASE UNCHANGED vars
  <2>1. TypeOK'
    BY <1>0, <1>21, Sizes DEF vars, TypeOK
  <2>2. Lifecycle'
    BY <1>0, <1>21, Sizes DEF vars, Lifecycle, TypeOK
  <2>3. FilledPrefix'
    BY <1>0, <1>21, Sizes DEF vars, FilledPrefix, Lifecycle, TypeOK
  <2>4. DoneIsComplete'
    BY <1>0, <1>21, Sizes DEF vars, DoneIsComplete, Lifecycle,
       ShortUnnoticed
  <2>5. Contents'
    BY <1>0, <1>21, Sizes DEF vars, Contents, Lifecycle, FilledPrefix,
       DoneIsComplete, Excused, ShortUnnoticed, Chunk, TypeOK
  <2>6. ReadsAreData'
    BY <1>0, <1>21, Sizes DEF vars, ReadsAreData, Contents, Lifecycle,
       Excused, ShortUnnoticed, TypeOK
  <2>. QED  BY <2>1, <2>2, <2>3, <2>4, <2>5, <2>6 DEF Inv
<1>. QED
  BY <1>1, <1>2, <1>3, <1>4, <1>5, <1>6, <1>7, <1>8, <1>9, <1>10, <1>11,
     <1>12, <1>13, <1>14, <1>15, <1>16, <1>17, <1>18, <1>19, <1>20, <1>21
     DEF Next, Owner, Handler

\* TypeOK and the rest of the invariant hold in every reachable state.
THEOREM Invariance == ASSUME Fits PROVE Spec => []Inv
<1>1. Init => Inv
  BY InitInv
<1>2. Inv /\ [Next]_vars => Inv'
  BY NextInv
<1>. QED  BY <1>1, <1>2, PTL DEF Spec

\* handle_pagefault never copies a chunk over pages that are present: for any
\* number of concurrent readers UFFDIO_COPY cannot fail with EEXIST.
THEOREM CopyNeverCollides == ASSUME Fits PROVE Spec => []NoCopyOverFilled
<1>1. Inv => NoCopyOverFilled
  BY Sizes DEF Inv, NoCopyOverFilled, FilledPrefix, Lifecycle, Chunk, TypeOK
<1>. QED  BY <1>1, Invariance, PTL

\* Readers of the mapping get the decompressed data, or the failure is on
\* record: what the threads do in which order makes no difference.
THEOREM ReadersGetData == ASSUME Fits PROVE Spec => []ReadsAreData
<1>1. Inv => ReadsAreData
  BY DEF Inv
<1>. QED  BY <1>1, Invariance, PTL

-----------------------------------------------------------------------------
(* The probe that decides whether lazy mode can be had (UffdProbe), for any  *)
(* number of threads.                                                        *)
ProbeSafe == ProbeTypeOK /\ ProbeInv

\* The invariant holds before any thread has probed.
LEMMA ProbeStarts == ProbeInit => ProbeSafe
  BY DEF ProbeInit, ProbeSafe, ProbeTypeOK, Kernels, ProbeInv, BaseFlags, UserModeFlags

\* Each of a thread's atomic accesses preserves it, wherever the others are.
LEMMA ProbeStep == ProbeSafe /\ [ProbeNext]_probeVars => ProbeSafe'
  <1> SUFFICES ASSUME ProbeSafe, [ProbeNext]_probeVars PROVE ProbeSafe'
    OBVIOUS
  <1> USE DEF ProbeSafe, ProbeTypeOK, Kernels, ProbeInv, Goto, BaseFlags, UserModeFlags,
              ProbeFlags, Accepts
  <1>1. CASE UNCHANGED probeVars
    BY <1>1 DEF probeVars
  <1>2. ASSUME NEW t \in Threads, LoadProbed(t) PROVE ProbeSafe'
    BY <1>2 DEF LoadProbed
  <1>3. ASSUME NEW t \in Threads, StoreFlags(t) PROVE ProbeSafe'
    BY <1>3 DEF StoreFlags
  <1>4. ASSUME NEW t \in Threads, StoreAvailable(t) PROVE ProbeSafe'
    BY <1>4 DEF StoreAvailable
  <1>5. ASSUME NEW t \in Threads, StoreProbed(t) PROVE ProbeSafe'
    BY <1>5 DEF StoreProbed
  <1>6. ASSUME NEW t \in Threads, LoadAvailable(t) PROVE ProbeSafe'
    BY <1>6 DEF LoadAvailable
  <1>7. ASSUME NEW t \in Threads, UffdOpen(t) PROVE ProbeSafe'
    BY <1>7 DEF UffdOpen
  <1>8. ASSUME NEW t \in Threads, Again(t) PROVE ProbeSafe'
    BY <1>8 DEF Again
  <1>9. QED
    BY <1>1, <1>2, <1>3, <1>4, <1>5, <1>6, <1>7, <1>8 DEF ProbeNext

\* Once asdf_uffd_probed is set the other two atomics are final: what every
\* racing thread finds out about the kernel is the same.
THEOREM ProbeFinal == ProbeSpec => []ProbeInv
  <1>1. ProbeSafe => ProbeInv
    BY DEF ProbeSafe
  <1>2. QED
    BY ProbeStarts, ProbeStep, <1>1, PTL DEF ProbeSpec

\* asdf_uffd_open never runs with flags that were not published.
THEOREM FlagsPublished == ProbeSpec => []OpenSucceeds
  <1>1. ProbeSafe => OpenSucceeds
    BY DEF ProbeSafe, ProbeTypeOK, Kernels, ProbeInv, OpenSucceeds, BaseFlags, UserModeFlags,
           ProbeFlags, Accepts
  <1>2. QED
    BY ProbeStarts, ProbeStep, <1>1, PTL DEF ProbeSpec

\* No two threads come to different answers.
THEOREM AnswersAgree == ProbeSpec => []SameAnswer
  <1>1. ASSUME ProbeSafe PROVE SameAnswer
    <2>1. Accepts(ProbeFlags) <=> kernel.call
      BY <1>1 DEF ProbeSafe, ProbeTypeOK, Kernels, Accepts, ProbeFlags,
         BaseFlags, UserModeFlags
    <2>2. probed => (available <=> (Accepts(ProbeFlags) /\ kernel.register))
      BY <1>1 DEF ProbeSafe, ProbeInv
    <2>3. ASSUME NEW t \in Threads
          PROVE  /\ pc[t] \in {"open", "lazy", "eager"} => probed
                 /\ pc[t] \in {"open", "lazy"} => available
                 /\ pc[t] = "eager" => ~available
      BY <1>1 DEF ProbeSafe, ProbeInv
    <2>4. QED
      BY <2>1, <2>2, <2>3 DEF SameAnswer
  <1>2. QED
    BY ProbeStarts, ProbeStep, <1>1, PTL DEF ProbeSpec
=============================================================================
