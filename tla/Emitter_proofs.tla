--------------------------- MODULE Emitter_proofs ---------------------------
(* Proofs for BlockStore and Emitter: who owns the data of blocks, what reads *)
(* of a block give, and the layout of what is written, for any number of      *)
(* handles, buffers and blocks, any input file and any output.                *)
EXTENDS Emitter, FiniteSetTheorems, SequenceTheorems, Minimum, TLAPS

-----------------------------------------------------------------------------
(* The blocks: types and ownership *)

HandleType == [st : {"closed", "detached", "view"}, info : InfoType,
               index : 0 .. MaxBlocks, map : Values, dest : Values,
               saw : Values, want : Values]

\* Infos of blocks, and those of handles that are not part of the file yet, own
\* the library's buffers they point to, and nobody else does.
Owning ==
    /\ \A i \in DOMAIN blocks : /\ blocks[i].owned <=> blocks[i].data \in Buffers
                                /\ blocks[i].owned => blocks[i].data \in heap
    /\ \A h \in Handles :
          /\ handle[h].info.owned <=> Detached(h) /\ handle[h].info.data \in Buffers
          /\ handle[h].info.owned => handle[h].info.data \in heap
          /\ handle[h].st = "closed" => handle[h].info.data = Null

\* No two of them share a buffer.
Distinct ==
    /\ \A i, j \in DOMAIN blocks :
          blocks[i].owned /\ blocks[j].owned /\ blocks[i].data = blocks[j].data => i = j
    /\ \A g, h \in Handles :
          handle[g].info.owned /\ handle[h].info.owned
            /\ handle[g].info.data = handle[h].info.data => g = h
    /\ \A i \in DOMAIN blocks, h \in Handles :
          ~(blocks[i].owned /\ handle[h].info.owned /\ blocks[i].data = handle[h].info.data)

\* Nothing that is allocated is forgotten.
Covered ==
    \A b \in heap : \/ \E i \in DOMAIN blocks : blocks[i].owned /\ blocks[i].data = b
                    \/ \E h \in Handles : handle[h].info.owned /\ handle[h].info.data = b

\* A view points to what its block points to.
ViewsFollow ==
    \A h \in Handles : View(h) => /\ handle[h].index \in DOMAIN blocks
                                  /\ handle[h].info.data = blocks[handle[h].index].data

Ownership == Owning /\ Distinct /\ Covered /\ ViewsFollow

\* A view is on a block of the file.
ViewsPlaced == \A h \in Handles : View(h) => handle[h].index \in DOMAIN blocks

\* Ownership holds of clients that build the data of a block before they append
\* or read it, the rest of any client.
StoreInv ==
    /\ StoreTypeOK
    /\ ~parsed => blocks = <<>>
    /\ ViewsPlaced
    /\ ~Rebuild => Ownership

-----------------------------------------------------------------------------
(* The blocks: what a read gives *)

\* What info refers to is v: its own data, or a block of the input f.  Nothing is
\* known of a block of the input whose position was overwritten by a write.
Truthful(f, info, v) ==
    /\ info.out => info.dpos >= 0
    /\ info.data # Null => v = info.data
    /\ info.data = Null /\ ~f.stream => v = Null
    /\ info.data = Null /\ ~info.out /\ info.dpos < 0 => v = Null
    /\ info.data = Null /\ ~info.out /\ info.dpos >= 0 /\ f.stream =>
          /\ v \in DOMAIN f.blocks /\ info.dpos = f.blocks[v].at + HeadLen
          /\ info.comp = f.blocks[v].comp

\* What a handle has mapped or decompressed is what it is to give.
HandleTrue(f, hd) ==
    /\ hd.saw = hd.want
    /\ hd.st # "closed" => Truthful(f, hd.info, hd.want)
    /\ hd.map # Null => /\ hd.map = hd.want /\ hd.info.data = Null /\ hd.st # "closed"
                        /\ ~hd.info.out /\ hd.info.dpos >= 0 /\ f.stream
    /\ hd.dest # Null => hd.dest = hd.want
    /\ hd.st = "detached" => hd.info.dpos = NoPos /\ ~hd.info.out

ReadInv ==
    /\ \A i \in DOMAIN blocks : Truthful(in, blocks[i], truth[i])
    /\ \A h \in Handles : HandleTrue(in, handle[h])

-----------------------------------------------------------------------------
(* The output *)

UnitType == [k : {"version", "standard", "tree", "fields", "pad", "index"}]
            \cup [k : {"head"}, alloc : Nat]
            \cup [k : {"data"}, val : Values, comp : BOOLEAN]
            \cup [k : {"offsets"}, at : Seq(Int)]

EmitterType == [st : EmitterStates, sink : {"file", "mem", "malloc"},
                next : 1 .. MaxBlocks + 1, est : Nat, sized : BOOLEAN, sent : Nat,
                writes : 0 .. MaxWrites]

EmitterTypeOK == em \in EmitterType /\ out \in Seq(UnitType) /\ cap \in Nat

Before  == {"INITIAL", "ASDF_VERSION", "STANDARD_VERSION", "TREE"}
Writing == {"BLOCKS", "BLOCK_INDEX"}

\* Nothing of kind k is in the output.
None(k) == \A p \in DOMAIN out : out[p].k # k

\* The allocated size in each header leads to what follows the block.
Chained ==
    \A p \in DOMAIN out : out[p].k = "head" =>
        LET q == p + HeadLen + out[p].alloc
        IN  q = Len(out) + 1 \/ (q \in DOMAIN out /\ out[q].k \in {"head", "index"})

\* The headers are where the infos of the first n blocks say, in their order.
HeadersOf(n) ==
    /\ \A i \in 1 .. n : blocks[i].hpos + 1 \in DOMAIN out /\ out[blocks[i].hpos + 1].k = "head"
    /\ \A p \in DOMAIN out : out[p].k = "head" => \E i \in 1 .. n : p = blocks[i].hpos + 1
    /\ \A i, j \in 1 .. n : i < j => blocks[i].hpos < blocks[j].hpos

\* The data of the first n blocks that have any are where the infos say, in the
\* blocks' order, and there are no other data.
DataOf(n) ==
    /\ \A i \in 1 .. n : truth[i] # Null =>
          /\ blocks[i].dpos + 1 \in DOMAIN out
          /\ out[blocks[i].dpos + 1].k = "data" /\ out[blocks[i].dpos + 1].val = truth[i]
    /\ \A p \in DOMAIN out : out[p].k = "data" =>
          \E i \in 1 .. n : truth[i] # Null /\ p = blocks[i].dpos + 1
    /\ \A i, j \in 1 .. n :
          truth[i] # Null /\ truth[j] # Null /\ i < j => blocks[i].dpos < blocks[j].dpos

\* The positions of a block that is still to be written are those in the input,
\* unless its data are in memory.
Unwritten == \A i \in DOMAIN blocks : i >= em.next /\ blocks[i].data = Null => ~blocks[i].out

DataInv ==
    /\ em.st \in Before => None("data")
    /\ em.st = "BLOCKS" /\ em.sink = "malloc" /\ ~em.sized => None("data")
    /\ em.st \in Before \cup Writing => Unwritten
    /\ em.st \in Writing => DataOf(em.next - 1)
    /\ em.st = "BLOCK_INDEX" => parsed
    /\ em.st = "END" /\ (parsed \/ in.tree > 0) => parsed /\ DataOf(Len(blocks))

LayoutInv ==
    /\ em.st = "NONE" => em.sink = "file"
    /\ em.st \in Before => em.next = 1 /\ None("head")
    /\ em.st = "BLOCKS" /\ em.sink = "malloc" /\ ~em.sized => em.next = 1 /\ None("head")
    /\ em.st \in Writing => em.next <= Len(blocks) + 1 /\ HeadersOf(em.next - 1)
    /\ em.st = "BLOCK_INDEX" => em.next = Len(blocks) + 1
    /\ em.st \in Before \cup Writing => None("index") /\ None("offsets")
    /\ em.st \in Writing \cup {"END"} => Chained
    /\ em.st = "END" => IndexRight

-----------------------------------------------------------------------------
(* The input's blocks *)

\* The input is one of those of the model.
LEMMA InputFacts ==
    ASSUME in \in Inputs
    PROVE  /\ in.stream \in BOOLEAN /\ in.tree \in Nat
           /\ in.blocks \in Seq([at : Nat, comp : BOOLEAN])
           /\ Len(in.blocks) \in Nat /\ Len(in.blocks) <= MaxBlocks
           /\ ~in.stream => in.blocks = <<>>
           /\ \A i \in DOMAIN in.blocks : in.blocks[i].at \in Nat /\ in.blocks[i].comp \in BOOLEAN
           /\ \A i, j \in DOMAIN in.blocks : in.blocks[i].at = in.blocks[j].at => i = j
  <1>1. /\ in.stream \in BOOLEAN /\ in.tree \in Nat
        /\ in.blocks \in Seq([at : Nat, comp : BOOLEAN])
        /\ Len(in.blocks) <= MaxBlocks
        /\ ~in.stream => in.blocks = <<>>
        /\ \A i, j \in DOMAIN in.blocks : in.blocks[i].at = in.blocks[j].at => i = j
    <2>1. in.stream \in BOOLEAN /\ in.tree \in Nat
      BY StoreAssumption
    <2>2. in.blocks \in Seq([at : Nat, comp : BOOLEAN])
      BY StoreAssumption
    <2>3. Len(in.blocks) <= MaxBlocks
      BY StoreAssumption
    <2>4. ~in.stream => in.blocks = <<>>
      BY StoreAssumption
    <2>5. \A i, j \in DOMAIN in.blocks : in.blocks[i].at = in.blocks[j].at => i = j
      BY StoreAssumption
    <2> QED
      BY <2>1, <2>2, <2>3, <2>4, <2>5
  <1>2. \A i \in DOMAIN in.blocks : in.blocks[i] \in [at : Nat, comp : BOOLEAN]
    <2>1. in.blocks \in Seq([at : Nat, comp : BOOLEAN])
      BY <1>1
    <2> DEFINE B == [at : Nat, comp : BOOLEAN]
    <2> HIDE DEF B
    <2>2. in.blocks \in Seq(B)
      BY <2>1 DEF B
    <2>3. \A i \in DOMAIN in.blocks : in.blocks[i] \in B
      BY <2>2
    <2> QED
      BY <2>3 DEF B
  <1>3. \A i \in DOMAIN in.blocks : in.blocks[i].at \in Nat /\ in.blocks[i].comp \in BOOLEAN
    BY <1>2
  <1>4. Len(in.blocks) \in Nat
    BY <1>1
  <1> QED
    BY <1>1, <1>3, <1>4

\* The infos that asdf_block_count copies from the parser: no data yet, nothing
\* owned, the positions of the input.
LEMMA InputInfosFacts ==
    ASSUME in \in Inputs
    PROVE  /\ InputInfos \in Seq(InfoType) /\ Len(InputInfos) = Len(in.blocks)
           /\ DOMAIN InputInfos = DOMAIN in.blocks
           /\ \A i \in DOMAIN in.blocks :
                 /\ InputInfos[i].data = Null /\ ~InputInfos[i].owned /\ ~InputInfos[i].out
                 /\ InputInfos[i].dpos = DataAt(i) /\ InputInfos[i].comp = in.blocks[i].comp
                 /\ DataAt(i) \in Nat
  <1>1. /\ in.blocks \in Seq([at : Nat, comp : BOOLEAN]) /\ Len(in.blocks) \in Nat
        /\ DOMAIN in.blocks = 1 .. Len(in.blocks)
    BY InputFacts
  <1>2. ASSUME NEW i \in DOMAIN in.blocks
        PROVE  /\ InputInfos[i] \in InfoType
               /\ InputInfos[i].data = Null /\ ~InputInfos[i].owned /\ ~InputInfos[i].out
               /\ InputInfos[i].dpos = DataAt(i) /\ InputInfos[i].comp = in.blocks[i].comp
               /\ DataAt(i) \in Nat
    <2>1. in.blocks[i].at \in Nat /\ in.blocks[i].comp \in BOOLEAN
      BY InputFacts
    <2>2. DataAt(i) \in Nat
      BY <2>1 DEF DataAt, HeadLen
    <2>3. InputInfos[i] = [data |-> Null, owned |-> FALSE, packed |-> FALSE,
                           comp |-> in.blocks[i].comp, wcomp |-> FALSE, alloc |-> 1,
                           hpos |-> in.blocks[i].at, dpos |-> DataAt(i), out |-> FALSE]
      BY DEF InputInfos, Info
    <2> QED
      BY <2>1, <2>2, <2>3 DEF InfoType
  <1>3. InputInfos \in [1 .. Len(in.blocks) -> InfoType]
    BY <1>1, <1>2 DEF InputInfos
  <1>4. InputInfos \in Seq(InfoType) /\ Len(InputInfos) = Len(in.blocks)
    BY <1>1, <1>3
  <1> QED
    BY <1>1, <1>2, <1>3, <1>4

\* What a client has after asdf_block_count: the infos there were, or the input's.
LEMMA CountedFacts ==
    ASSUME StoreTypeOK
    PROVE  /\ Counted \in Seq(InfoType) /\ Len(Counted) <= MaxBlocks
           /\ CountTruth \in Seq(Values) /\ Len(CountTruth) = Len(Counted)
  <1>1. CASE parsed
    BY <1>1 DEF StoreTypeOK, Counted, CountTruth
  <1>2. CASE ~parsed
    <2>1. in \in Inputs
      BY DEF StoreTypeOK
    <2>2. /\ in.blocks \in Seq([at : Nat, comp : BOOLEAN]) /\ Len(in.blocks) \in Nat
          /\ DOMAIN in.blocks = 1 .. Len(in.blocks) /\ Len(in.blocks) <= MaxBlocks
          /\ MaxBlocks \in Nat
      BY <2>1, InputFacts, StoreAssumption
    <2>3. Counted = InputInfos /\ CountTruth = [i \in DOMAIN in.blocks |-> i]
      BY <1>2 DEF Counted, CountTruth
    <2>4. CountTruth \in [1 .. Len(in.blocks) -> Values]
      BY <2>2, <2>3 DEF Values
    <2>5. CountTruth \in Seq(Values) /\ Len(CountTruth) = Len(in.blocks)
      BY <2>2, <2>4
    <2> QED
      BY <2>1, <2>2, <2>3, <2>5, InputInfosFacts
  <1> QED
    BY <1>1, <1>2

\* Counting takes no block away.
LEMMA CountedKeeps ==
    ASSUME StoreTypeOK, ~parsed => blocks = <<>>
    PROVE  \A i \in DOMAIN blocks : i \in DOMAIN Counted /\ Counted[i] = blocks[i]
  <1>1. CASE parsed
    BY <1>1 DEF Counted
  <1>2. CASE ~parsed
    BY <1>2
  <1> QED
    BY <1>1, <1>2

-----------------------------------------------------------------------------
(* Types *)

\* The fields of an info, and the updates the library makes to it.
LEMMA InfoUpdates ==
    ASSUME NEW info \in InfoType
    PROVE  /\ info.data \in Buffers \cup Caller \cup {Null} /\ info.owned \in BOOLEAN
           /\ info.packed \in BOOLEAN /\ info.comp \in BOOLEAN /\ info.wcomp \in BOOLEAN
           /\ info.alloc \in Nat /\ info.hpos \in Int /\ info.dpos \in Int
           /\ info.out \in BOOLEAN
           /\ [info EXCEPT !.owned = FALSE] \in InfoType
           /\ [info EXCEPT !.wcomp = TRUE] \in InfoType
           /\ \A n \in Nat : [info EXCEPT !.alloc = n] \in InfoType
           /\ \A p \in Nat : [info EXCEPT !.hpos = p] \in InfoType
           /\ \A p, q \in Int : [info EXCEPT !.hpos = p, !.dpos = q, !.out = TRUE] \in InfoType
           /\ \A d \in Buffers \cup Caller :
                 /\ [info EXCEPT !.data = d, !.owned = TRUE, !.packed = FALSE] \in InfoType
                 /\ [info EXCEPT !.data = d, !.owned = FALSE, !.packed = FALSE] \in InfoType
                 /\ \A c \in BOOLEAN :
                       [info EXCEPT !.data = d, !.owned = FALSE, !.packed = TRUE, !.comp = c,
                                    !.wcomp = FALSE] \in InfoType
  <1>1. /\ info.data \in Buffers \cup Caller \cup {Null} /\ info.owned \in BOOLEAN
        /\ info.packed \in BOOLEAN /\ info.comp \in BOOLEAN /\ info.wcomp \in BOOLEAN
        /\ info.alloc \in Nat /\ info.hpos \in Int /\ info.dpos \in Int
        /\ info.out \in BOOLEAN
    BY DEF InfoType
  <1>2. /\ [info EXCEPT !.owned = FALSE] \in InfoType
        /\ [info EXCEPT !.wcomp = TRUE] \in InfoType
    BY DEF InfoType
  <1>3. ASSUME NEW n \in Nat
        PROVE  [info EXCEPT !.alloc = n] \in InfoType /\ [info EXCEPT !.hpos = n] \in InfoType
    BY DEF InfoType
  <1>4. ASSUME NEW p \in Int, NEW q \in Int
        PROVE  [info EXCEPT !.hpos = p, !.dpos = q, !.out = TRUE] \in InfoType
    BY DEF InfoType
  <1>5. ASSUME NEW d \in Buffers \cup Caller
        PROVE  /\ [info EXCEPT !.data = d, !.owned = TRUE, !.packed = FALSE] \in InfoType
               /\ [info EXCEPT !.data = d, !.owned = FALSE, !.packed = FALSE] \in InfoType
    BY DEF InfoType
  <1>6. ASSUME NEW d \in Buffers \cup Caller, NEW c \in BOOLEAN
        PROVE  [info EXCEPT !.data = d, !.owned = FALSE, !.packed = TRUE, !.comp = c,
                            !.wcomp = FALSE] \in InfoType
    BY DEF InfoType
  <1> QED
    BY <1>1, <1>2, <1>3, <1>4, <1>5, <1>6

\* A new handle has its type.
LEMMA NewInfo ==
    ASSUME NEW d \in Caller \cup {Null}
    PROVE  Info(d, FALSE, FALSE, FALSE, NoPos) \in InfoType
  BY DEF Info, InfoType, NoPos

\* What handle[h] and the functions made from it by an update are.
LEMMA HandleUpdates ==
    ASSUME NEW hd \in HandleType
    PROVE  /\ hd.st \in {"closed", "detached", "view"} /\ hd.info \in InfoType
           /\ hd.index \in 0 .. MaxBlocks /\ hd.map \in Values /\ hd.dest \in Values
           /\ hd.saw \in Values /\ hd.want \in Values
           /\ \A info \in InfoType :
                 /\ [hd EXCEPT !.info = info] \in HandleType
                 /\ \A v \in Values : [hd EXCEPT !.info = info, !.saw = v, !.want = v] \in HandleType
                 /\ \A i \in 0 .. MaxBlocks :
                       [hd EXCEPT !.st = "view", !.index = i, !.info = info] \in HandleType
           /\ \A m, d, v \in Values : [hd EXCEPT !.map = m, !.dest = d, !.saw = v] \in HandleType
  BY DEF HandleType

\* A closed handle has its type.
LEMMA NoHandleType == NoHandle \in HandleType
  <1>1. Info(Null, FALSE, FALSE, FALSE, NoPos) \in InfoType
    BY NewInfo
  <1>2. 0 \in 0 .. MaxBlocks /\ Null \in Values
    BY StoreAssumption DEF Values
  <1> QED
    BY <1>1, <1>2 DEF NoHandle, HandleType

\* StoreTypeOK in terms of the types above.
LEMMA StoreTypes ==
    StoreTypeOK <=>
        /\ in \in Inputs /\ open \in BOOLEAN /\ parsed \in BOOLEAN
        /\ blocks \in Seq(InfoType) /\ Len(blocks) <= MaxBlocks
        /\ truth \in Seq(Values) /\ Len(truth) = Len(blocks)
        /\ handle \in [Handles -> HandleType]
        /\ heap \subseteq Buffers
  BY DEF StoreTypeOK, HandleType

\* A call that changes one handle leaves the others alone.
LEMMA OneHandle ==
    ASSUME handle \in [Handles -> HandleType], NEW h \in Handles, NEW hd \in HandleType,
           handle' = [handle EXCEPT ![h] = hd]
    PROVE  /\ handle' \in [Handles -> HandleType]
           /\ handle'[h] = hd
           /\ \A g \in Handles : g # h => handle'[g] = handle[g]
  OBVIOUS

\* An update of one info of the file's.
LEMMA OneBlock ==
    ASSUME blocks \in Seq(InfoType), NEW i \in DOMAIN blocks, NEW info \in InfoType,
           blocks' = [blocks EXCEPT ![i] = info]
    PROVE  /\ blocks' \in Seq(InfoType) /\ Len(blocks') = Len(blocks)
           /\ DOMAIN blocks' = DOMAIN blocks
           /\ blocks'[i] = info
           /\ \A j \in DOMAIN blocks : j # i => blocks'[j] = blocks[j]
  OBVIOUS

\* What the infos counted have to do with those the file has.
LEMMA CountedOwns ==
    ASSUME StoreTypeOK, ~parsed => blocks = <<>>, Owning
    PROVE  /\ \A i \in DOMAIN blocks : i \in DOMAIN Counted /\ Counted[i] = blocks[i]
           /\ \A i \in DOMAIN Counted :
                 /\ Counted[i].owned <=> Counted[i].data \in Buffers
                 /\ Counted[i].owned => i \in DOMAIN blocks
  <1>1. CASE parsed
    BY <1>1 DEF Counted, Owning
  <1>2. CASE ~parsed
    <2>1. Counted = InputInfos /\ blocks = <<>>
      BY <1>2 DEF Counted
    <2>2. \A i \in DOMAIN InputInfos : InputInfos[i].data = Null /\ ~InputInfos[i].owned
      BY InputInfosFacts DEF StoreTypeOK
    <2>3. Null \notin Buffers
      BY StoreAssumption
    <2> QED
      BY <2>1, <2>2, <2>3
  <1> QED
    BY <1>1, <1>2

-----------------------------------------------------------------------------
(* Ownership *)

\* A step that changes no data, no owner and no handle's state.
LEMMA SameOwners ==
    ASSUME Ownership, heap' = heap,
           DOMAIN blocks' = DOMAIN blocks,
           \A i \in DOMAIN blocks : /\ blocks'[i].data = blocks[i].data
                                    /\ blocks'[i].owned = blocks[i].owned,
           \A h \in Handles : /\ handle'[h].st = handle[h].st
                              /\ handle'[h].info.data = handle[h].info.data
                              /\ handle'[h].info.owned = handle[h].info.owned
                              /\ handle'[h].index = handle[h].index
    PROVE  Ownership'
  <1>1. Owning'
    BY DEF Ownership, Owning, Detached
  <1>2. Distinct'
    BY DEF Ownership, Distinct
  <1>3. Covered'
    BY DEF Ownership, Covered
  <1>4. ViewsFollow'
    BY DEF Ownership, ViewsFollow, View
  <1> QED
    BY <1>1, <1>2, <1>3, <1>4 DEF Ownership

\* Each buffer in the heap has exactly one owner.
LEMMA OwnershipMeans ==
    ASSUME Ownership, StoreTypeOK
    PROVE  OneOwner
  <1>1. ASSUME NEW b \in heap
        PROVE  Cardinality(FileOwners(b)) + Cardinality(HandleOwners(b)) = 1
    <2>1. CASE \E i \in DOMAIN blocks : blocks[i].owned /\ blocks[i].data = b
      <3>1. PICK i \in DOMAIN blocks : blocks[i].owned /\ blocks[i].data = b
        BY <2>1
      <3>2. FileOwners(b) = {i}
        BY <3>1 DEF FileOwners, Ownership, Distinct
      <3>3. HandleOwners(b) = {}
        BY <3>1 DEF HandleOwners, Ownership, Distinct
      <3>4. Cardinality({i}) = 1
        BY FS_Singleton
      <3>5. Cardinality({}) = 0
        BY FS_EmptySet
      <3> QED
        BY <3>2, <3>3, <3>4, <3>5
    <2>2. CASE ~ \E i \in DOMAIN blocks : blocks[i].owned /\ blocks[i].data = b
      <3>1. PICK h \in Handles : handle[h].info.owned /\ handle[h].info.data = b
        BY <2>2 DEF Ownership, Covered
      <3>2. HandleOwners(b) = {h}
        BY <3>1 DEF HandleOwners, Ownership, Distinct
      <3>3. FileOwners(b) = {}
        BY <2>2 DEF FileOwners
      <3>4. Cardinality({h}) = 1
        BY FS_Singleton
      <3>5. Cardinality({}) = 0
        BY FS_EmptySet
      <3> QED
        BY <3>2, <3>3, <3>4, <3>5
    <2> QED
      BY <2>1, <2>2
  <1>2. \A i \in DOMAIN blocks : blocks[i].data \in Buffers => blocks[i].data \in heap
    BY DEF Ownership, Owning
  <1>3. ASSUME NEW h \in Handles, handle[h].info.data \in Buffers
        PROVE  handle[h].info.data \in heap
    <2>1. CASE Detached(h)
      BY <2>1, <1>3 DEF Ownership, Owning
    <2>2. CASE View(h)
      BY <2>2, <1>2, <1>3 DEF Ownership, ViewsFollow
    <2>3. CASE handle[h].st = "closed"
      <3>1. Null \notin Buffers
        BY StoreAssumption
      <3> QED
        BY <2>3, <3>1, <1>3 DEF Ownership, Owning
    <2>4. handle[h].st \in {"closed", "detached", "view"}
      BY StoreTypes, HandleUpdates
    <2> QED
      BY <2>1, <2>2, <2>3, <2>4 DEF Detached, View
  <1> QED
    BY <1>1, <1>2, <1>3 DEF OneOwner

\* A call that gives a handle new data, creates, destroys or closes it: what
\* the handle owned is freed, and what it owns from then on is newly allocated.
LEMMA NewData ==
    ASSUME ~Rebuild, StoreInv, NEW h \in Handles, NEW hd \in HandleType,
           handle' = [handle EXCEPT ![h] = hd], blocks' = blocks,
           hd.st # "view", hd.st = "closed" => hd.info.data = Null,
           hd.info.owned <=> hd.st = "detached" /\ hd.info.data \in Buffers,
           hd.info.owned => hd.info.data \notin heap,
           heap' = Released(handle[h].info) \cup (IF hd.info.owned THEN {hd.info.data} ELSE {})
    PROVE  Ownership'
  <1>1. /\ handle'[h] = hd
        /\ \A g \in Handles : g # h => handle'[g] = handle[g]
    BY OneHandle, StoreTypes DEF StoreInv
  <1>2. Owning /\ Distinct /\ Covered /\ ViewsFollow
    BY DEF StoreInv, Ownership
  <1>3. \A b \in heap : b \in heap' \/ (handle[h].info.owned /\ b = handle[h].info.data)
    BY DEF Released
  <1>4. \A b \in heap' : \/ b \in heap /\ ~(handle[h].info.owned /\ b = handle[h].info.data)
                         \/ hd.info.owned /\ b = hd.info.data
    BY DEF Released
  <1>5. hd.info.owned => hd.info.data \in heap'
    OBVIOUS
  <1> HIDE DEF Released
  <1>6. Owning'
    <2>1. ASSUME NEW i \in DOMAIN blocks
          PROVE  /\ blocks[i].owned <=> blocks[i].data \in Buffers
                 /\ blocks[i].owned => blocks[i].data \in heap'
      BY <1>2, <1>3 DEF Owning, Distinct
    <2>2. ASSUME NEW g \in Handles
          PROVE  /\ handle'[g].info.owned <=> handle'[g].st = "detached" /\ handle'[g].info.data \in Buffers
                 /\ handle'[g].info.owned => handle'[g].info.data \in heap'
                 /\ handle'[g].st = "closed" => handle'[g].info.data = Null
      <3>1. CASE g = h
        BY <3>1, <1>1, <1>5
      <3>2. CASE g # h
        BY <3>2, <1>1, <1>2, <1>3 DEF Owning, Distinct, Detached
      <3> QED
        BY <3>1, <3>2
    <2> QED
      BY <2>1, <2>2 DEF Owning, Detached
  <1>7. Distinct'
    <2>1. ASSUME NEW f \in Handles, NEW g \in Handles, handle'[f].info.owned,
                 handle'[g].info.owned, handle'[f].info.data = handle'[g].info.data
          PROVE  f = g
      BY <2>1, <1>1, <1>2 DEF Owning, Distinct
    <2>2. ASSUME NEW i \in DOMAIN blocks, NEW g \in Handles, blocks[i].owned,
                 handle'[g].info.owned, blocks[i].data = handle'[g].info.data
          PROVE  FALSE
      BY <2>2, <1>1, <1>2 DEF Owning, Distinct
    <2> QED
      BY <2>1, <2>2, <1>2 DEF Distinct
  <1>8. Covered'
    <2> SUFFICES ASSUME NEW b \in heap'
                 PROVE  \/ \E i \in DOMAIN blocks : blocks[i].owned /\ blocks[i].data = b
                        \/ \E g \in Handles : handle'[g].info.owned /\ handle'[g].info.data = b
      BY DEF Covered
    <2>1. CASE hd.info.owned /\ b = hd.info.data
      BY <2>1, <1>1
    <2>2. CASE b \in heap /\ ~(handle[h].info.owned /\ b = handle[h].info.data)
      BY <2>2, <1>1, <1>2 DEF Covered
    <2> QED
      BY <2>1, <2>2, <1>4
  <1>9. ViewsFollow'
    BY <1>1, <1>2 DEF ViewsFollow, View
  <1> QED
    BY <1>6, <1>7, <1>8, <1>9 DEF Ownership

\* asdf_block_count gives the file infos that own nothing.
LEMMA CountOwners ==
    ASSUME ~Rebuild, StoreInv, blocks' = Counted, handle' = handle, heap' = heap
    PROVE  Ownership'
  <1>1. Owning /\ Distinct /\ Covered /\ ViewsFollow
    BY DEF StoreInv, Ownership
  <1>2. /\ \A i \in DOMAIN blocks : i \in DOMAIN blocks' /\ blocks'[i] = blocks[i]
        /\ \A i \in DOMAIN blocks' : /\ blocks'[i].owned <=> blocks'[i].data \in Buffers
                                     /\ blocks'[i].owned => i \in DOMAIN blocks
    BY <1>1, CountedOwns DEF StoreInv
  <1>3. Owning'
    BY <1>1, <1>2 DEF Owning, Detached
  <1>4. Distinct'
    BY <1>1, <1>2 DEF Distinct
  <1>5. Covered'
    BY <1>1, <1>2 DEF Covered
  <1>6. ViewsFollow'
    BY <1>1, <1>2 DEF ViewsFollow, View
  <1> QED
    BY <1>3, <1>4, <1>5, <1>6 DEF Ownership

\* asdf_block_open: the view owns nothing and points to what the block does.
LEMMA OpenOwners ==
    ASSUME ~Rebuild, StoreInv, NEW h \in Handles, NEW hd \in HandleType, handle[h].st = "closed",
           blocks' = Counted, heap' = heap, handle' = [handle EXCEPT ![h] = hd],
           hd.st = "view", ~hd.info.owned, hd.index \in DOMAIN Counted,
           hd.info.data = Counted[hd.index].data
    PROVE  Ownership'
  <1>1. Owning /\ Distinct /\ Covered /\ ViewsFollow
    BY DEF StoreInv, Ownership
  <1>2. /\ \A i \in DOMAIN blocks : i \in DOMAIN blocks' /\ blocks'[i] = blocks[i]
        /\ \A i \in DOMAIN blocks' : /\ blocks'[i].owned <=> blocks'[i].data \in Buffers
                                     /\ blocks'[i].owned => i \in DOMAIN blocks
    BY <1>1, CountedOwns DEF StoreInv
  <1>3. /\ handle'[h] = hd
        /\ \A g \in Handles : g # h => handle'[g] = handle[g]
    BY OneHandle, StoreTypes DEF StoreInv
  <1>4. ~handle[h].info.owned
    BY <1>1 DEF Owning, Detached
  <1>5. Owning'
    BY <1>1, <1>2, <1>3 DEF Owning, Detached
  <1>6. Distinct'
    BY <1>1, <1>2, <1>3 DEF Distinct
  <1>7. Covered'
    BY <1>1, <1>2, <1>3, <1>4 DEF Covered
  <1>8. ViewsFollow'
    BY <1>1, <1>2, <1>3 DEF ViewsFollow, View
  <1> QED
    BY <1>5, <1>6, <1>7, <1>8 DEF Ownership

\* asdf_block_append: the file's info is the owner from then on.
LEMMA AppendOwners ==
    ASSUME ~Rebuild, StoreInv, NEW h \in Handles, NEW hd \in HandleType, Detached(h),
           blocks' = Append(Counted, handle[h].info), heap' = heap,
           handle' = [handle EXCEPT ![h] = hd],
           hd.st = "view", ~hd.info.owned, hd.index = Len(Counted) + 1,
           hd.info.data = handle[h].info.data
    PROVE  Ownership'
  <1> DEFINE n == Len(Counted) + 1
  <1>1. Owning /\ Distinct /\ Covered /\ ViewsFollow
    BY DEF StoreInv, Ownership
  <1>2. /\ \A i \in DOMAIN blocks : i \in DOMAIN Counted /\ Counted[i] = blocks[i]
        /\ \A i \in DOMAIN Counted : /\ Counted[i].owned <=> Counted[i].data \in Buffers
                                     /\ Counted[i].owned => i \in DOMAIN blocks
    BY <1>1, CountedOwns DEF StoreInv
  <1>3. /\ handle'[h] = hd
        /\ \A g \in Handles : g # h => handle'[g] = handle[g]
    BY OneHandle, StoreTypes DEF StoreInv
  <1>4. Counted \in Seq(InfoType)
    BY CountedFacts DEF StoreInv
  <1>5. /\ DOMAIN blocks' = DOMAIN Counted \cup {n} /\ n \notin DOMAIN Counted
        /\ blocks'[n] = handle[h].info
        /\ \A i \in DOMAIN Counted : blocks'[i] = Counted[i]
    BY <1>4
  <1>6. hd.index = n
    OBVIOUS
  <1> HIDE DEF n
  <1>7. \A i \in DOMAIN blocks' : (i \in DOMAIN blocks /\ i # n /\ blocks'[i] = blocks[i])
                               \/ (i # n /\ ~blocks'[i].owned /\ blocks'[i].data \notin Buffers) \/ i = n
    BY <1>2, <1>5
  <1>8. \A i \in DOMAIN blocks : i \in DOMAIN blocks' /\ blocks'[i] = blocks[i]
    BY <1>2, <1>5
  <1>9. n \in DOMAIN blocks' /\ blocks'[n] = handle[h].info
    BY <1>5
  <1>10. Owning'
    <2>1. ASSUME NEW i \in DOMAIN blocks'
          PROVE  /\ blocks'[i].owned <=> blocks'[i].data \in Buffers
                 /\ blocks'[i].owned => blocks'[i].data \in heap
      BY <1>1, <1>7, <1>9 DEF Owning
    <2>2. \A g \in Handles :
             /\ handle'[g].info.owned <=> handle'[g].st = "detached" /\ handle'[g].info.data \in Buffers
             /\ handle'[g].info.owned => handle'[g].info.data \in heap
             /\ handle'[g].st = "closed" => handle'[g].info.data = Null
      BY <1>1, <1>3 DEF Owning, Detached
    <2> QED
      BY <2>1, <2>2 DEF Owning, Detached
  <1>11. Distinct'
    <2>1. \A i, j \in DOMAIN blocks' :
             blocks'[i].owned /\ blocks'[j].owned /\ blocks'[i].data = blocks'[j].data => i = j
      BY <1>1, <1>7, <1>9 DEF Distinct
    <2>2. \A f, g \in Handles :
             handle'[f].info.owned /\ handle'[g].info.owned
               /\ handle'[f].info.data = handle'[g].info.data => f = g
      BY <1>1, <1>3 DEF Distinct
    <2>3. \A i \in DOMAIN blocks', g \in Handles :
             ~(blocks'[i].owned /\ handle'[g].info.owned /\ blocks'[i].data = handle'[g].info.data)
      BY <1>1, <1>3, <1>7, <1>9 DEF Distinct
    <2> QED
      BY <2>1, <2>2, <2>3 DEF Distinct
  <1>12. Covered'
    BY <1>1, <1>3, <1>8, <1>9 DEF Covered
  <1>13. ViewsFollow'
    BY <1>1, <1>3, <1>6, <1>8, <1>9 DEF ViewsFollow, View
  <1> QED
    BY <1>10, <1>11, <1>12, <1>13 DEF Ownership

-----------------------------------------------------------------------------
(* The steps of the store *)

\* What the calls that change one handle make of it.
LEMMA HandleShapes ==
    ASSUME handle \in [Handles -> HandleType], NEW h \in Handles
    PROVE  /\ \A info, v : [handle EXCEPT ![h].info = info, ![h].saw = v, ![h].want = v] =
                           [handle EXCEPT ![h] = [handle[h] EXCEPT !.info = info, !.saw = v, !.want = v]]
           /\ [handle EXCEPT ![h].info.wcomp = TRUE] =
              [handle EXCEPT ![h] = [handle[h] EXCEPT !.info = [handle[h].info EXCEPT !.wcomp = TRUE]]]
           /\ \A n : [handle EXCEPT ![h].info.alloc = n] =
              [handle EXCEPT ![h] = [handle[h] EXCEPT !.info = [handle[h].info EXCEPT !.alloc = n]]]
           /\ \A i : [handle EXCEPT ![h].st = "view", ![h].index = i, ![h].info.owned = FALSE] =
              [handle EXCEPT ![h] = [handle[h] EXCEPT !.st = "view", !.index = i,
                                        !.info = [handle[h].info EXCEPT !.owned = FALSE]]]
           /\ \A m, d, v : [handle EXCEPT ![h].map = m, ![h].dest = d, ![h].saw = v] =
              [handle EXCEPT ![h] = [handle[h] EXCEPT !.map = m, !.dest = d, !.saw = v]]
  <1>1. ASSUME NEW info, NEW v
        PROVE  [handle EXCEPT ![h].info = info, ![h].saw = v, ![h].want = v] =
               [handle EXCEPT ![h] = [handle[h] EXCEPT !.info = info, !.saw = v, !.want = v]]
    OBVIOUS
  <1>2. [handle EXCEPT ![h].info.wcomp = TRUE] =
        [handle EXCEPT ![h] = [handle[h] EXCEPT !.info = [handle[h].info EXCEPT !.wcomp = TRUE]]]
    OBVIOUS
  <1>3. ASSUME NEW n
        PROVE  [handle EXCEPT ![h].info.alloc = n] =
               [handle EXCEPT ![h] = [handle[h] EXCEPT !.info = [handle[h].info EXCEPT !.alloc = n]]]
    OBVIOUS
  <1>4. ASSUME NEW i
        PROVE  [handle EXCEPT ![h].st = "view", ![h].index = i, ![h].info.owned = FALSE] =
               [handle EXCEPT ![h] = [handle[h] EXCEPT !.st = "view", !.index = i,
                                         !.info = [handle[h].info EXCEPT !.owned = FALSE]]]
    OBVIOUS
  <1>5. ASSUME NEW m, NEW d, NEW v
        PROVE  [handle EXCEPT ![h].map = m, ![h].dest = d, ![h].saw = v] =
               [handle EXCEPT ![h] = [handle[h] EXCEPT !.map = m, !.dest = d, !.saw = v]]
    OBVIOUS
  <1> QED
    BY <1>1, <1>2, <1>3, <1>4, <1>5

\* Where only the handle and the heap change, types and the invariant's other
\* parts are the handle's and the heap's.
LEMMA HandleStep ==
    ASSUME StoreInv, NEW h \in Handles, NEW hd \in HandleType,
           handle' = [handle EXCEPT ![h] = hd], heap' \subseteq Buffers,
           hd.st = "view" => hd.index \in DOMAIN blocks, ~Rebuild => Ownership',
           UNCHANGED <<in, open, parsed, blocks, truth>>
    PROVE  StoreInv'
  <1>1. /\ handle' \in [Handles -> HandleType] /\ handle'[h] = hd
        /\ \A g \in Handles : g # h => handle'[g] = handle[g]
    BY StoreTypes, OneHandle DEF StoreInv
  <1>2. StoreTypeOK'
    BY <1>1 DEF StoreInv, StoreTypeOK, HandleType, InfoType, Values
  <1>3. ViewsPlaced'
    BY <1>1 DEF StoreInv, ViewsPlaced, View
  <1> QED
    BY <1>2, <1>3 DEF StoreInv

\* asdf_block_create.
LEMMA CreateStep ==
    ASSUME StoreInv, NEW h \in Handles, NEW c \in Caller \cup {Null}, Create(h, c)
    PROVE  StoreInv'
  <1> DEFINE hd == [NoHandle EXCEPT !.st = "detached", !.saw = c, !.want = c,
                                    !.info = Info(c, FALSE, FALSE, FALSE, NoPos)]
  <1>1. hd \in HandleType
    BY NoHandleType, NewInfo DEF HandleType, Values
  <1>2. /\ hd.st = "detached" /\ ~hd.info.owned /\ hd.info.data \notin Buffers
    BY StoreAssumption DEF NoHandle, Info
  <1>3. handle' = [handle EXCEPT ![h] = hd] /\ UNCHANGED <<in, open, parsed, blocks, truth, heap>>
    BY DEF Create
  <1> HIDE DEF hd
  <1>4. ASSUME ~Rebuild PROVE Ownership'
    <2>1. ~handle[h].info.owned
      BY <1>4 DEF StoreInv, Ownership, Owning, Create, Detached
    <2>2. heap' = Released(handle[h].info) \cup (IF hd.info.owned THEN {hd.info.data} ELSE {})
      BY <1>2, <1>3, <2>1 DEF Released
    <2> QED
      BY <1>1, <1>2, <1>3, <1>4, <2>2, NewData
  <1>5. heap' \subseteq Buffers
    BY <1>3 DEF StoreInv, StoreTypeOK
  <1> QED
    BY <1>1, <1>2, <1>3, <1>4, <1>5, HandleStep

\* asdf_block_destroy and asdf_block_close.
LEMMA DestroyStep ==
    ASSUME StoreInv, NEW h \in Handles, Destroy(h) \/ Close(h)
    PROVE  StoreInv'
  <1>1. NoHandle.st = "closed" /\ ~NoHandle.info.owned /\ NoHandle.info.data = Null
    BY DEF NoHandle, Info
  <1>2. handle' = [handle EXCEPT ![h] = NoHandle] /\ UNCHANGED <<in, open, parsed, blocks, truth>>
    BY DEF Destroy, Close
  <1>3. ASSUME ~Rebuild PROVE Ownership'
    <2>1. heap' = Released(handle[h].info)
      <3>1. CASE Destroy(h)
        BY <3>1 DEF Destroy
      <3>2. CASE Close(h)
        <4>1. ~handle[h].info.owned /\ heap' = heap
          BY <1>3, <3>2 DEF StoreInv, Ownership, Owning, Close, View, Detached
        <4> QED
          BY <4>1 DEF Released
      <3> QED
        BY <3>1, <3>2
    <2>2. heap' = Released(handle[h].info) \cup (IF NoHandle.info.owned THEN {NoHandle.info.data} ELSE {})
      BY <1>1, <2>1
    <2> QED
      BY <1>1, <1>2, <1>3, <2>2, NoHandleType, NewData
  <1>4. heap' \subseteq Buffers
    BY DEF StoreInv, StoreTypeOK, Released, Destroy, Close
  <1> QED
    BY <1>1, <1>2, <1>3, <1>4, NoHandleType, HandleStep

\* asdf_block_data_alloc.
LEMMA DataAllocStep ==
    ASSUME StoreInv, NEW h \in Handles, NEW b \in Buffers, DataAlloc(h, b)
    PROVE  StoreInv'
  <1> DEFINE info == [handle[h].info EXCEPT !.data = b, !.owned = TRUE, !.packed = FALSE]
             hd   == [handle[h] EXCEPT !.info = info, !.saw = b, !.want = b]
  <1>1. handle \in [Handles -> HandleType] /\ handle[h] \in HandleType /\ heap \subseteq Buffers
    BY StoreTypes DEF StoreInv
  <1>2. handle[h].info \in InfoType
    BY <1>1, HandleUpdates
  <1>3. info \in InfoType /\ b \in Values
    BY <1>2, InfoUpdates DEF Values
  <1>4. hd \in HandleType
    BY <1>1, <1>3, HandleUpdates
  <1>5. handle' = [handle EXCEPT ![h] = hd]
    BY <1>1, HandleShapes DEF DataAlloc, SetInfo
  <1>6. hd.st = handle[h].st /\ hd.index = handle[h].index /\ hd.info.owned /\ hd.info.data = b
    BY <1>1, <1>2 DEF HandleType, InfoType
  <1>7. UNCHANGED <<in, open, parsed, blocks, truth>> /\ b \notin heap
        /\ heap' = Released(handle[h].info) \cup {b}
    BY DEF DataAlloc, SetInfo
  <1> HIDE DEF hd, info
  <1>8. ASSUME ~Rebuild PROVE Ownership'
    <2>1. handle[h].st = "detached"
      BY <1>8 DEF DataAlloc, SetInfo, MayBuild, Detached
    <2> QED
      BY <1>4, <1>5, <1>6, <1>7, <1>8, <2>1, NewData
  <1>9. heap' \subseteq Buffers
    BY <1>1, <1>7 DEF Released
  <1>10. hd.st = "view" => hd.index \in DOMAIN blocks
    BY <1>6 DEF StoreInv, ViewsPlaced, View
  <1> QED
    BY <1>4, <1>5, <1>7, <1>8, <1>9, <1>10, HandleStep

\* asdf_block_data_set and asdf_block_data_set_compressed.
LEMMA DataSetStep ==
    ASSUME StoreInv, NEW h \in Handles, NEW c \in Caller,
           DataSet(h, c) \/ \E comp \in Packings : DataSetCompressed(h, c, comp)
    PROVE  StoreInv'
  <1>1. handle \in [Handles -> HandleType] /\ handle[h] \in HandleType /\ heap \subseteq Buffers
    BY StoreTypes DEF StoreInv
  <1>2. handle[h].info \in InfoType
    BY <1>1, HandleUpdates
  <1>3. PICK info \in InfoType : SetInfo(h, info, c) /\ info.data = c /\ ~info.owned
    <2>1. CASE DataSet(h, c)
      <3> DEFINE i == [handle[h].info EXCEPT !.data = c, !.owned = FALSE, !.packed = FALSE]
      <3>1. i \in InfoType
        BY <1>2, InfoUpdates
      <3>2. i.data = c /\ ~i.owned
        BY <1>2 DEF InfoType
      <3>3. SetInfo(h, i, c)
        BY <2>1 DEF DataSet
      <3> HIDE DEF i
      <3> QED
        BY <3>1, <3>2, <3>3
    <2>2. ASSUME NEW comp \in Packings, DataSetCompressed(h, c, comp)
          PROVE  \E info \in InfoType : SetInfo(h, info, c) /\ info.data = c /\ ~info.owned
      <3> DEFINE i == [handle[h].info EXCEPT !.data = c, !.owned = FALSE, !.packed = TRUE,
                                             !.comp = comp, !.wcomp = FALSE]
      <3>1. comp \in BOOLEAN
        BY StoreAssumption
      <3>2. i \in InfoType
        BY <1>2, <3>1, InfoUpdates
      <3>3. i.data = c /\ ~i.owned
        BY <1>2 DEF InfoType
      <3>4. SetInfo(h, i, c)
        BY <2>2 DEF DataSetCompressed
      <3> HIDE DEF i
      <3> QED
        BY <3>2, <3>3, <3>4
    <2> QED
      BY <2>1, <2>2
  <1> DEFINE hd == [handle[h] EXCEPT !.info = info, !.saw = c, !.want = c]
  <1>4. hd \in HandleType
    BY <1>1, HandleUpdates DEF Values
  <1>5. handle' = [handle EXCEPT ![h] = hd]
    BY <1>1, <1>3, HandleShapes DEF SetInfo
  <1>6. hd.st = handle[h].st /\ hd.index = handle[h].index /\ hd.info = info
    BY <1>1, <1>3 DEF HandleType
  <1>7. /\ UNCHANGED <<in, open, parsed, blocks, truth>>
        /\ heap' = Released(handle[h].info) /\ info.data \notin Buffers
    BY <1>3, StoreAssumption DEF SetInfo, DataSet, DataSetCompressed
  <1> HIDE DEF hd
  <1>8. ASSUME ~Rebuild PROVE Ownership'
    <2>1. handle[h].st = "detached"
      BY <1>3, <1>8 DEF SetInfo, MayBuild, Detached
    <2> QED
      BY <1>3, <1>4, <1>5, <1>6, <1>7, <1>8, <2>1, NewData
  <1>9. heap' \subseteq Buffers
    BY <1>1, <1>7 DEF Released
  <1>10. hd.st = "view" => hd.index \in DOMAIN blocks
    BY <1>6 DEF StoreInv, ViewsPlaced, View
  <1> QED
    BY <1>4, <1>5, <1>7, <1>8, <1>9, <1>10, HandleStep

\* A call that changes neither the data nor the owner of an info, in the handle
\* and, for a view, in the file.
LEMMA MarkStep ==
    ASSUME StoreInv, NEW h \in Handles, NEW f, NEW g,
           f \in InfoType, f.data = handle[h].info.data, f.owned = handle[h].info.owned,
           View(h) => /\ g \in InfoType
                      /\ g.data = blocks[handle[h].index].data
                      /\ g.owned = blocks[handle[h].index].owned,
           handle' = [handle EXCEPT ![h] = [handle[h] EXCEPT !.info = f]],
           blocks' = IF View(h) THEN [blocks EXCEPT ![handle[h].index] = g] ELSE blocks,
           UNCHANGED <<in, open, parsed, truth, heap>>
    PROVE  StoreInv'
  <1> DEFINE hd == [handle[h] EXCEPT !.info = f]
  <1>1. handle \in [Handles -> HandleType] /\ handle[h] \in HandleType
        /\ blocks \in Seq(InfoType)
    BY StoreTypes DEF StoreInv
  <1>2. hd \in HandleType
    BY <1>1, HandleUpdates
  <1>3. hd.st = handle[h].st /\ hd.index = handle[h].index /\ hd.info = f
    BY <1>1 DEF HandleType
  <1>4. handle' = [handle EXCEPT ![h] = hd]
    OBVIOUS
  <1> HIDE DEF hd
  <1>5. /\ handle' \in [Handles -> HandleType] /\ handle'[h] = hd
        /\ \A k \in Handles : k # h => handle'[k] = handle[k]
    BY <1>1, <1>2, <1>4, OneHandle
  <1>6. \A k \in Handles : /\ handle'[k].st = handle[k].st
                           /\ handle'[k].info.data = handle[k].info.data
                           /\ handle'[k].info.owned = handle[k].info.owned
                           /\ handle'[k].index = handle[k].index
    BY <1>3, <1>5
  <1>7. /\ blocks' \in Seq(InfoType) /\ Len(blocks') = Len(blocks) /\ DOMAIN blocks' = DOMAIN blocks
        /\ \A i \in DOMAIN blocks : /\ blocks'[i].data = blocks[i].data
                                    /\ blocks'[i].owned = blocks[i].owned
    <2>1. CASE View(h)
      <3>1. handle[h].index \in DOMAIN blocks
        BY <2>1 DEF StoreInv, ViewsPlaced
      <3>2. blocks' = [blocks EXCEPT ![handle[h].index] = g] /\ g \in InfoType
        BY <2>1
      <3>3. /\ blocks' \in Seq(InfoType) /\ Len(blocks') = Len(blocks)
            /\ DOMAIN blocks' = DOMAIN blocks /\ blocks'[handle[h].index] = g
            /\ \A j \in DOMAIN blocks : j # handle[h].index => blocks'[j] = blocks[j]
        BY <1>1, <3>1, <3>2, OneBlock
      <3> QED
        BY <2>1, <3>3
    <2>2. CASE ~View(h)
      BY <2>2, <1>1
    <2> QED
      BY <2>1, <2>2
  <1>8. /\ ~Rebuild => Ownership'
        /\ ViewsPlaced'
    <2>1. ASSUME ~Rebuild PROVE Ownership'
      BY <1>6, <1>7, <2>1, SameOwners DEF StoreInv
    <2>2. ViewsPlaced'
      BY <1>6, <1>7 DEF StoreInv, ViewsPlaced, View
    <2> QED
      BY <2>1, <2>2
  <1>9. StoreTypeOK'
    BY <1>5, <1>7 DEF StoreInv, StoreTypeOK, HandleType, InfoType, Values
  <1>10. (~parsed => blocks = <<>>)'
    <2>1. ASSUME ~parsed PROVE blocks' = <<>>
      <3>1. blocks = <<>>
        BY <2>1 DEF StoreInv
      <3>2. Len(blocks') = 0 /\ blocks' \in Seq(InfoType)
        BY <1>7, <3>1
      <3> QED
        BY <3>2
    <2> QED
      BY <2>1
  <1> QED
    BY <1>8, <1>9, <1>10 DEF StoreInv

\* asdf_block_compression_set and asdf_block_allocated_size_set.
LEMMA SetStep ==
    ASSUME StoreInv, NEW h \in Handles,
           CompressionSet(h) \/ \E n \in Sizes : AllocatedSizeSet(h, n)
    PROVE  StoreInv'
  <1>1. handle \in [Handles -> HandleType] /\ handle[h].info \in InfoType
    BY StoreTypes, HandleUpdates DEF StoreInv
  <1>2. ASSUME View(h)
        PROVE  handle[h].index \in DOMAIN blocks /\ blocks[handle[h].index] \in InfoType
    <2>1. blocks \in Seq(InfoType)
      BY StoreTypes DEF StoreInv
    <2>2. handle[h].index \in DOMAIN blocks
      BY <1>2 DEF StoreInv, ViewsPlaced
    <2> QED
      BY <2>1, <2>2
  <1> DEFINE i == handle[h].index
  <1>3. CASE CompressionSet(h)
    <2> DEFINE f == [handle[h].info EXCEPT !.wcomp = TRUE]
               g == [blocks[i] EXCEPT !.wcomp = TRUE]
    <2>1. f \in InfoType /\ f.data = handle[h].info.data /\ f.owned = handle[h].info.owned
      BY <1>1 DEF InfoType
    <2>2. View(h) => g \in InfoType /\ g.data = blocks[i].data /\ g.owned = blocks[i].owned
      BY <1>2 DEF InfoType
    <2>3. handle' = [handle EXCEPT ![h] = [handle[h] EXCEPT !.info = f]]
      BY <1>1, <1>3, HandleShapes DEF CompressionSet
    <2>4. blocks' = IF View(h) THEN [blocks EXCEPT ![i] = g] ELSE blocks
      BY <1>3 DEF CompressionSet
    <2>5. UNCHANGED <<in, open, parsed, truth, heap>>
      BY <1>3 DEF CompressionSet
    <2> HIDE DEF f, g
    <2> QED
      BY <2>1, <2>2, <2>3, <2>4, <2>5, MarkStep
  <1>4. ASSUME NEW n \in Sizes, AllocatedSizeSet(h, n)
        PROVE  StoreInv'
    <2> DEFINE f == [handle[h].info EXCEPT !.alloc = n]
               g == [blocks[i] EXCEPT !.alloc = n]
    <2>0. n \in Nat
      BY StoreAssumption
    <2>1. f \in InfoType /\ f.data = handle[h].info.data /\ f.owned = handle[h].info.owned
      BY <1>1, <2>0 DEF InfoType
    <2>2. View(h) => g \in InfoType /\ g.data = blocks[i].data /\ g.owned = blocks[i].owned
      BY <1>2, <2>0 DEF InfoType
    <2>3. handle' = [handle EXCEPT ![h] = [handle[h] EXCEPT !.info = f]]
      BY <1>1, <1>4, HandleShapes DEF AllocatedSizeSet
    <2>4. blocks' = IF View(h) THEN [blocks EXCEPT ![i] = g] ELSE blocks
      BY <1>4 DEF AllocatedSizeSet
    <2>5. UNCHANGED <<in, open, parsed, truth, heap>>
      BY <1>4 DEF AllocatedSizeSet
    <2> HIDE DEF f, g
    <2> QED
      BY <2>1, <2>2, <2>3, <2>4, <2>5, MarkStep
  <1> QED
    BY <1>3, <1>4

\* What open_mem and the decompression of it give: a block of the input, or
\* garbage where no block is.
LEMMA RawFacts ==
    ASSUME in \in Inputs, NEW p
    PROVE  /\ RawAt(p) \in DOMAIN in.blocks \cup {Garbage} /\ RawAt(p) \in Values
           /\ \A c : DecodedAt(p, c) \in {RawAt(p), Garbage} /\ DecodedAt(p, c) \in Values
  <1>1. RawAt(p) \in DOMAIN in.blocks \cup {Garbage}
    BY DEF RawAt
  <1>2. DOMAIN in.blocks \subseteq Values /\ Garbage \in Values
    <2>1. /\ DOMAIN in.blocks = 1 .. Len(in.blocks) /\ Len(in.blocks) \in Nat
          /\ Len(in.blocks) <= MaxBlocks /\ MaxBlocks \in Nat
      BY InputFacts, StoreAssumption
    <2> QED
      BY <2>1 DEF Values
  <1>3. \A c : DecodedAt(p, c) \in {RawAt(p), Garbage}
    BY DEF DecodedAt
  <1> QED
    BY <1>1, <1>2, <1>3

\* asdf_block_data and asdf_block_data_raw.
LEMMA ReadStep ==
    ASSUME StoreInv, NEW h \in Handles, NEW decompress \in BOOLEAN, Read(h, decompress)
    PROVE  StoreInv'
  <1>1. handle \in [Handles -> HandleType] /\ handle[h] \in HandleType /\ in \in Inputs
    BY StoreTypes DEF StoreInv
  <1>2. /\ handle[h].info \in InfoType /\ handle[h].map \in Values /\ handle[h].dest \in Values
        /\ handle[h].info.data \in Values
    <2>1. handle[h].info \in InfoType /\ handle[h].map \in Values /\ handle[h].dest \in Values
      BY <1>1, HandleUpdates
    <2> QED
      BY <2>1, InfoUpdates DEF Values
  <1>3. PICK m \in Values, d \in Values, v \in Values :
            handle' = [handle EXCEPT ![h].map = m, ![h].dest = d, ![h].saw = v]
    BY <1>1, <1>2, RawFacts DEF Read
  <1> DEFINE hd == [handle[h] EXCEPT !.map = m, !.dest = d, !.saw = v]
  <1>4. hd \in HandleType
    BY <1>1, HandleUpdates
  <1>5. handle' = [handle EXCEPT ![h] = hd]
    BY <1>1, <1>3, HandleShapes
  <1>6. hd.st = handle[h].st /\ hd.index = handle[h].index /\ hd.info = handle[h].info
    BY <1>1 DEF HandleType
  <1>7. UNCHANGED <<in, open, parsed, blocks, truth, heap>>
    BY DEF Read
  <1> HIDE DEF hd
  <1>8. ASSUME ~Rebuild PROVE Ownership'
    <2>1. \A k \in Handles : /\ handle'[k].st = handle[k].st
                             /\ handle'[k].info.data = handle[k].info.data
                             /\ handle'[k].info.owned = handle[k].info.owned
                             /\ handle'[k].index = handle[k].index
      BY <1>1, <1>4, <1>5, <1>6, OneHandle
    <2> QED
      BY <1>7, <1>8, <2>1, SameOwners DEF StoreInv
  <1>9. heap' \subseteq Buffers
    BY <1>7 DEF StoreInv, StoreTypeOK
  <1>10. hd.st = "view" => hd.index \in DOMAIN blocks
    BY <1>6 DEF StoreInv, ViewsPlaced, View
  <1> QED
    BY <1>4, <1>5, <1>7, <1>8, <1>9, <1>10, HandleStep

\* asdf_block_append.
LEMMA AppendStep ==
    ASSUME StoreInv, NEW h \in Handles, AppendBlock(h)
    PROVE  StoreInv'
  <1> DEFINE n  == Len(Counted) + 1
             hd == [handle[h] EXCEPT !.st = "view", !.index = n,
                                     !.info = [handle[h].info EXCEPT !.owned = FALSE]]
  <1>1. handle \in [Handles -> HandleType] /\ handle[h] \in HandleType
    BY StoreTypes DEF StoreInv
  <1>2. handle[h].info \in InfoType /\ handle[h].want \in Values
    BY <1>1, HandleUpdates
  <1>3. /\ Counted \in Seq(InfoType) /\ CountTruth \in Seq(Values)
        /\ Len(CountTruth) = Len(Counted)
    BY CountedFacts DEF StoreInv
  <1>4. n \in 0 .. MaxBlocks /\ MaxBlocks \in Nat
    BY <1>3, StoreAssumption DEF AppendBlock
  <1>5. hd \in HandleType
    <2>1. [handle[h].info EXCEPT !.owned = FALSE] \in InfoType
      BY <1>2, InfoUpdates
    <2> QED
      BY <1>1, <1>4, <2>1, HandleUpdates
  <1>6. hd.st = "view" /\ hd.index = n /\ ~hd.info.owned /\ hd.info.data = handle[h].info.data
    BY <1>1, <1>2 DEF HandleType, InfoType
  <1>7. handle' = [handle EXCEPT ![h] = hd]
    BY <1>1, HandleShapes DEF AppendBlock
  <1>8. /\ blocks' = Append(Counted, handle[h].info) /\ truth' = Append(CountTruth, handle[h].want)
        /\ UNCHANGED <<in, open, heap>> /\ parsed' = TRUE /\ Detached(h)
    BY DEF AppendBlock
  <1> HIDE DEF hd
  <1>9. ASSUME ~Rebuild PROVE Ownership'
    BY <1>5, <1>6, <1>7, <1>8, <1>9, AppendOwners
  <1>10. blocks' \in Seq(InfoType) /\ Len(blocks') = n
    BY <1>2, <1>3, <1>8
  <1>11. truth' \in Seq(Values) /\ Len(truth') = n
    BY <1>2, <1>3, <1>8
  <1>12. handle' \in [Handles -> HandleType]
    BY <1>1, <1>5, <1>7, OneHandle
  <1>13. StoreTypeOK'
    <2>1. in' \in Inputs /\ open' \in BOOLEAN /\ heap' \subseteq Buffers
      BY <1>8 DEF StoreInv, StoreTypeOK
    <2> QED
      BY <1>4, <1>8, <1>10, <1>11, <1>12, <2>1 DEF StoreTypeOK, HandleType, InfoType, Values
  <1>14. ViewsPlaced'
    <2>1. \A i \in DOMAIN blocks : i \in DOMAIN Counted
      BY CountedKeeps DEF StoreInv
    <2>2. DOMAIN Counted = 1 .. Len(Counted) /\ DOMAIN blocks' = 1 .. n /\ Len(Counted) \in Nat
      BY <1>3, <1>10
    <2>3. /\ handle'[h] = hd
          /\ \A g \in Handles : g # h => handle'[g] = handle[g]
      BY <1>1, <1>5, <1>7, OneHandle
    <2>4. DOMAIN Counted \subseteq DOMAIN blocks' /\ n \in DOMAIN blocks'
      BY <2>2
    <2> HIDE DEF n
    <2> QED
      BY <1>6, <2>1, <2>3, <2>4 DEF StoreInv, ViewsPlaced, View
  <1> QED
    BY <1>8, <1>9, <1>13, <1>14 DEF StoreInv

\* asdf_block_open.
LEMMA OpenStep ==
    ASSUME StoreInv, NEW h \in Handles, NEW i \in 1 .. MaxBlocks, OpenBlock(h, i)
    PROVE  StoreInv'
  <1> DEFINE hd == [NoHandle EXCEPT !.st = "view", !.index = i,
                                    !.saw = CountTruth[i], !.want = CountTruth[i],
                                    !.info = [Counted[i] EXCEPT !.owned = FALSE]]
  <1>1. handle \in [Handles -> HandleType]
    BY StoreTypes DEF StoreInv
  <1>2. /\ Counted \in Seq(InfoType) /\ CountTruth \in Seq(Values)
        /\ Len(CountTruth) = Len(Counted) /\ Len(Counted) <= MaxBlocks
    BY CountedFacts DEF StoreInv
  <1>3. i \in DOMAIN Counted /\ Counted[i] \in InfoType /\ CountTruth[i] \in Values
    BY <1>2 DEF OpenBlock
  <1>4. [Counted[i] EXCEPT !.owned = FALSE] \in InfoType
    BY <1>3, InfoUpdates
  <1>5. hd \in HandleType
    <2>1. i \in 0 .. MaxBlocks
      BY StoreAssumption
    <2> QED
      BY <1>3, <1>4, <2>1, NoHandleType DEF HandleType
  <1>6. hd.st = "view" /\ hd.index = i /\ ~hd.info.owned /\ hd.info.data = Counted[i].data
    BY <1>3 DEF NoHandle, InfoType
  <1>7. /\ handle' = [handle EXCEPT ![h] = hd] /\ handle[h].st = "closed"
        /\ blocks' = Counted /\ truth' = CountTruth
        /\ UNCHANGED <<in, open, heap>> /\ parsed' = TRUE
    BY DEF OpenBlock
  <1> HIDE DEF hd
  <1>8. ASSUME ~Rebuild PROVE Ownership'
    BY <1>3, <1>5, <1>6, <1>7, <1>8, OpenOwners
  <1>9. handle' \in [Handles -> HandleType]
    BY <1>1, <1>5, <1>7, OneHandle
  <1>10. StoreTypeOK'
    <2>1. in' \in Inputs /\ open' \in BOOLEAN /\ heap' \subseteq Buffers
      BY <1>7 DEF StoreInv, StoreTypeOK
    <2> QED
      BY <1>2, <1>7, <1>9, <2>1 DEF StoreTypeOK, HandleType, InfoType, Values
  <1>11. ViewsPlaced'
    <2>1. \A j \in DOMAIN blocks : j \in DOMAIN Counted
      BY CountedKeeps DEF StoreInv
    <2>2. /\ handle'[h] = hd
          /\ \A g \in Handles : g # h => handle'[g] = handle[g]
      BY <1>1, <1>5, <1>7, OneHandle
    <2> QED
      BY <1>3, <1>6, <1>7, <2>1, <2>2 DEF StoreInv, ViewsPlaced, View
  <1> QED
    BY <1>7, <1>8, <1>10, <1>11 DEF StoreInv

\* asdf_block_count, called by a client or by emit_blocks.
LEMMA CountStep ==
    ASSUME StoreInv, Count
    PROVE  StoreInv'
  <1>1. /\ Counted \in Seq(InfoType) /\ CountTruth \in Seq(Values)
        /\ Len(CountTruth) = Len(Counted) /\ Len(Counted) <= MaxBlocks
    BY CountedFacts DEF StoreInv
  <1>2. /\ blocks' = Counted /\ truth' = CountTruth
        /\ UNCHANGED <<in, open, handle, heap>> /\ parsed' = TRUE
    BY DEF Count
  <1>3. ASSUME ~Rebuild PROVE Ownership'
    BY <1>2, <1>3, CountOwners
  <1>4. StoreTypeOK'
    BY <1>1, <1>2 DEF StoreInv, StoreTypeOK, HandleType, InfoType, Values
  <1>5. ViewsPlaced'
    <2>1. \A j \in DOMAIN blocks : j \in DOMAIN Counted
      BY CountedKeeps DEF StoreInv
    <2> QED
      BY <1>2, <2>1 DEF StoreInv, ViewsPlaced, View
  <1> QED
    BY <1>2, <1>3, <1>4, <1>5 DEF StoreInv

\* asdf_close: what is left belongs to handles that were never appended.
LEMMA CloseFileStep ==
    ASSUME StoreInv, CloseFile
    PROVE  StoreInv'
  <1>1. /\ blocks' = <<>> /\ truth' = <<>> /\ open' = FALSE
        /\ UNCHANGED <<in, parsed, handle>>
        /\ \A h \in Handles : ~View(h)
    BY DEF CloseFile
  <1>2. heap' \subseteq heap
    BY DEF CloseFile
  <1>3. ASSUME ~Rebuild PROVE Ownership'
    <2>1. Owning /\ Distinct /\ Covered
      BY <1>3 DEF StoreInv, Ownership
    <2>2. \A b \in heap : b \in heap' <=> ~ \E i \in DOMAIN blocks : blocks[i].owned /\ blocks[i].data = b
      BY DEF CloseFile
    <2>3. DOMAIN blocks' = {}
      BY <1>1
    <2>4. Owning'
      <3>1. ASSUME NEW h \in Handles, handle[h].info.owned
            PROVE  handle[h].info.data \in heap'
        BY <3>1, <2>1, <2>2 DEF Owning, Distinct
      <3> QED
        BY <1>1, <2>1, <2>3, <3>1 DEF Owning, Detached
    <2>5. Distinct'
      BY <1>1, <2>1, <2>3 DEF Distinct
    <2>6. Covered'
      BY <1>1, <1>2, <2>1, <2>2 DEF Covered
    <2>7. ViewsFollow'
      BY <1>1 DEF ViewsFollow, View
    <2> QED
      BY <2>4, <2>5, <2>6, <2>7 DEF Ownership
  <1>4. ViewsPlaced'
    BY <1>1 DEF ViewsPlaced, View
  <1>5. StoreTypeOK'
    <2>1. <<>> \in Seq(InfoType) /\ Len(<<>>) = 0 /\ <<>> \in Seq(Values) /\ MaxBlocks \in Nat
      BY StoreAssumption
    <2>2. in \in Inputs /\ parsed \in BOOLEAN /\ handle \in [Handles -> HandleType] /\ heap \subseteq Buffers
      BY StoreTypes DEF StoreInv
    <2>3. heap' \subseteq Buffers
      BY <1>2, <2>2
    <2>4. blocks' \in Seq(InfoType) /\ Len(blocks') <= MaxBlocks
      BY <1>1, <2>1
    <2>5. truth' \in Seq(Values) /\ Len(truth') = Len(blocks')
      BY <1>1, <2>1
    <2> QED
      BY <1>1, <2>2, <2>3, <2>4, <2>5 DEF StoreTypeOK, HandleType, InfoType, Values
  <1> QED
    BY <1>1, <1>3, <1>4, <1>5 DEF StoreInv

\* asdf_block_info_write changes positions only.
LEMMA EmitBlockStep ==
    ASSUME StoreInv, EmitBlock, em.next \in Nat \ {0}, Len(out) \in Nat
    PROVE  StoreInv'
  <1>1. blocks \in Seq(InfoType) /\ em.next \in DOMAIN blocks /\ blocks[em.next] \in InfoType
    BY StoreTypes DEF StoreInv, EmitBlock
  <1> DEFINE info == blocks[em.next]
  <1>2. Placed(info) \in InfoType /\ [info EXCEPT !.hpos = Len(out)] \in InfoType
    <2> DEFINE p == Len(out)
               q == Len(out) + HeadLen
    <2>1. p \in Int /\ q \in Int /\ p \in Nat
      BY DEF HeadLen
    <2>2. Placed(info) = [info EXCEPT !.hpos = p, !.dpos = q, !.out = TRUE]
      BY DEF Placed
    <2>3. info \in InfoType
      BY <1>1
    <2> HIDE DEF p, q, info
    <2>4. [info EXCEPT !.hpos = p, !.dpos = q, !.out = TRUE] \in InfoType
      BY <2>1, <2>3, InfoUpdates
    <2>5. [info EXCEPT !.hpos = p] \in InfoType
      BY <2>1, <2>3, InfoUpdates
    <2> QED
      BY <2>2, <2>4, <2>5 DEF p
  <1>3. /\ Placed(info).data = info.data /\ Placed(info).owned = info.owned
        /\ [info EXCEPT !.hpos = Len(out)].data = info.data
        /\ [info EXCEPT !.hpos = Len(out)].owned = info.owned
    BY <1>1 DEF Placed, InfoType
  <1>4. PICK new \in InfoType :
            /\ blocks' = [blocks EXCEPT ![em.next] = new]
            /\ new.data = info.data /\ new.owned = info.owned
    <2>1. blocks' = blocks => blocks' = [blocks EXCEPT ![em.next] = info]
      BY <1>1
    <2> QED
      BY <1>1, <1>2, <1>3, <2>1 DEF EmitBlock
  <1>5. UNCHANGED <<in, open, parsed, truth, handle, heap>>
    BY DEF EmitBlock
  <1>6. /\ blocks' \in Seq(InfoType) /\ Len(blocks') = Len(blocks)
        /\ DOMAIN blocks' = DOMAIN blocks /\ blocks'[em.next] = new
        /\ \A j \in DOMAIN blocks : j # em.next => blocks'[j] = blocks[j]
    BY <1>1, <1>4, OneBlock
  <1>7. ASSUME ~Rebuild PROVE Ownership'
    <2>1. \A i \in DOMAIN blocks : /\ blocks'[i].data = blocks[i].data
                                   /\ blocks'[i].owned = blocks[i].owned
      BY <1>4, <1>6
    <2> QED
      BY <1>5, <1>6, <1>7, <2>1, SameOwners DEF StoreInv
  <1>8. StoreTypeOK'
    BY <1>5, <1>6 DEF StoreInv, StoreTypeOK, HandleType, InfoType, Values
  <1>9. parsed'
    BY <1>5 DEF EmitBlock
  <1>10. ViewsPlaced'
    BY <1>5, <1>6 DEF StoreInv, ViewsPlaced, View
  <1> QED
    BY <1>7, <1>8, <1>9, <1>10 DEF StoreInv

-----------------------------------------------------------------------------
(* The estimate of the blocks' size *)

\* A recursively defined sum of natural numbers over 1 .. n exists and is one.
LEMMA SumExists ==
    ASSUME NEW n \in Nat, NEW e, \A i \in 1 .. n : e[i] \in Nat
    PROVE  LET s == CHOOSE f : f = [i \in 0 .. n |-> IF i = 0 THEN 0 ELSE f[i - 1] + e[i]]
           IN  s[n] \in Nat
  <1> DEFINE Sums(f, m) == /\ f \in [0 .. m -> Nat] /\ f[0] = 0
                           /\ \A i \in 1 .. m : f[i] = f[i - 1] + e[i]
             S == {m \in 0 .. n : ~ \E f : Sums(f, m)}
  <1>1. S = {}
    <2> SUFFICES ASSUME S # {} PROVE FALSE
      OBVIOUS
    <2>1. S \subseteq Nat
      OBVIOUS
    <2>2. PICK m \in S : \A y \in S : m <= y
      <3> HIDE DEF S
      <3> QED
        BY <2>1, MinExists
    <2>3. m \in 0 .. n /\ ~ \E f : Sums(f, m)
      OBVIOUS
    <2>4. CASE m = 0
      <3>1. Sums([i \in 0 .. 0 |-> 0], 0)
        OBVIOUS
      <3> QED
        BY <2>3, <2>4, <3>1
    <2>5. CASE m # 0
      <3>1. m - 1 \in 0 .. n /\ m - 1 \notin S /\ m \in Nat /\ m \in 1 .. n
        <4>1. m \in Nat /\ m \in 1 .. n /\ m - 1 \in 0 .. n
          BY <2>3, <2>5
        <4>2. m - 1 \in S => m <= m - 1
          BY <2>2
        <4> HIDE DEF S
        <4> QED
          BY <4>1, <4>2
      <3>2. PICK f : Sums(f, m - 1)
        BY <3>1
      <3> DEFINE g == [i \in 0 .. m |-> IF i < m THEN f[i] ELSE f[m - 1] + e[m]]
      <3>3. f[m - 1] \in Nat /\ e[m] \in Nat /\ f[0] = 0 /\ f \in [0 .. m - 1 -> Nat]
        BY <3>1, <3>2
      <3>4. g \in [0 .. m -> Nat]
        BY <3>1, <3>3
      <3>5. g[0] = 0
        BY <3>1, <3>3
      <3>6. ASSUME NEW i \in 1 .. m PROVE g[i] = g[i - 1] + e[i]
        <4>1. CASE i < m
          <5>1. i \in 1 .. m - 1 /\ i - 1 \in 0 .. m /\ i - 1 < m
            BY <3>1, <4>1
          <5>2. f[i] = f[i - 1] + e[i]
            BY <3>2, <5>1
          <5> QED
            BY <4>1, <5>1, <5>2
        <4>2. CASE i = m
          BY <3>1, <4>2
        <4> QED
          BY <3>1, <4>1, <4>2
      <3>7. Sums(g, m)
        BY <3>4, <3>5, <3>6
      <3> QED
        BY <2>3, <3>7
    <2> QED
      BY <2>4, <2>5
  <1>2. n \in 0 .. n
    OBVIOUS
  <1>3. PICK g : Sums(g, n)
    BY <1>1, <1>2
  <1> DEFINE F(f) == [i \in 0 .. n |-> IF i = 0 THEN 0 ELSE f[i - 1] + e[i]]
             s == CHOOSE f : f = F(f)
  <1>4. g = F(g)
    BY <1>3
  <1>5. s = F(s)
    <2> HIDE DEF F
    <2> QED
      BY <1>4
  <1>6. \A i \in 0 .. n : s[i] = IF i = 0 THEN 0 ELSE s[i - 1] + e[i]
    <2> HIDE DEF s
    <2> QED
      BY <1>5
  <1> DEFINE T == {i \in 0 .. n : s[i] \notin Nat}
  <1>7. T = {}
    <2> HIDE DEF s
    <2> SUFFICES ASSUME T # {} PROVE FALSE
      OBVIOUS
    <2>1. T \subseteq Nat
      OBVIOUS
    <2>2. PICK m \in T : \A y \in T : m <= y
      <3> HIDE DEF T
      <3> QED
        BY <2>1, MinExists
    <2>3. m \in 0 .. n /\ s[m] \notin Nat
      OBVIOUS
    <2>4. m # 0
      BY <2>3, <1>6
    <2>5. m - 1 \in 0 .. n /\ m \in 1 .. n
      BY <2>3, <2>4
    <2>6. m - 1 \in T => m <= m - 1
      BY <2>2
    <2>7. m - 1 \notin T
      BY <2>3, <2>6
    <2>8. s[m - 1] \in Nat
      BY <2>5, <2>7
    <2>9. s[m] = s[m - 1] + e[m] /\ e[m] \in Nat
      BY <1>6, <2>4, <2>3, <2>5
    <2> QED
      BY <2>3, <2>8, <2>9
  <1>8. s[n] \in Nat
    BY <1>2, <1>7
  <1> QED
    BY <1>8

\* The estimate of asdf_write_to_mem is a natural number.
LEMMA BlocksSizeNat ==
    ASSUME blocks \in Seq(InfoType)
    PROVE  BlocksSize \in Nat
  <1> DEFINE e == [i \in DOMAIN blocks |-> EstimateOf(blocks[i])]
             n == Len(blocks)
  <1>1. n \in Nat /\ DOMAIN blocks = 1 .. n
    OBVIOUS
  <1>2. \A i \in 1 .. n : e[i] \in Nat
    <2> TAKE i \in 1 .. n
    <2>1. blocks[i] \in InfoType
      BY <1>1
    <2>2. blocks[i].alloc \in Nat
      BY <2>1, InfoUpdates
    <2> QED
      BY <1>1, <2>2 DEF EstimateOf, Used
  <1>3. BlocksSize = (CHOOSE f : f = [i \in 0 .. n |-> IF i = 0 THEN 0 ELSE f[i - 1] + e[i]])[n]
    <2>1. \A f : [i \in 0 .. n |-> IF i = 0 THEN 0 ELSE f[i - 1] + EstimateOf(blocks[i])]
                 = [i \in 0 .. n |-> IF i = 0 THEN 0 ELSE f[i - 1] + e[i]]
      BY <1>1
    <2> QED
      BY <2>1 DEF BlocksSize
  <1> HIDE DEF e, n
  <1> QED
    BY <1>1, <1>2, <1>3, SumExists

-----------------------------------------------------------------------------
(* What is written *)

\* n units of one kind.
LEMMA UnitsFacts ==
    ASSUME NEW k \in {"version", "standard", "tree", "fields", "pad", "index"}, NEW n \in Nat
    PROVE  /\ Units(k, n) \in Seq(UnitType) /\ Len(Units(k, n)) = n
           /\ \A i \in 1 .. n : Units(k, n)[i].k = k
  <1>1. Unit(k) \in UnitType /\ Unit(k).k = k
    BY DEF Unit, UnitType
  <1>2. Units(k, n) = [i \in 1 .. n |-> Unit(k)]
    BY DEF Units
  <1> HIDE DEF Unit, UnitType
  <1> DEFINE u == Unit(k)
             U == UnitType
  <1>3. u \in U /\ u.k = k
    BY <1>1
  <1> HIDE DEF u, U
  <1>4. [i \in 1 .. n |-> u] \in [1 .. n -> U]
    BY <1>3
  <1>5. [i \in 1 .. n |-> u] \in Seq(U) /\ Len([i \in 1 .. n |-> u]) = n
    BY <1>4
  <1>6. \A i \in 1 .. n : [j \in 1 .. n |-> u][i].k = k
    BY <1>3
  <1> QED
    BY <1>2, <1>5, <1>6 DEF u, U

\* What asdf_block_info_write takes from an info.
LEMMA SourceFacts ==
    ASSUME in \in Inputs, NEW info \in InfoType
    PROVE  /\ Source(info) \in Values /\ Used(info) \in {0, 1} /\ Allocated(info) \in Nat
           /\ Used(info) <= Allocated(info) /\ Stored(info) \in UnitType
           /\ Stored(info).k = "data"
  <1>1. Source(info) \in Values
    <2>1. info.data \in Values /\ Null \in Values
      BY InfoUpdates DEF Values
    <2> QED
      BY <2>1, RawFacts DEF Source
  <1>2. info.alloc \in Nat /\ info.wcomp \in BOOLEAN
    BY InfoUpdates
  <1>3. Used(info) \in {0, 1}
    BY DEF Used
  <1>4. Allocated(info) \in Nat /\ Used(info) <= Allocated(info)
    BY <1>2, <1>3 DEF Allocated
  <1>5. Stored(info) \in [k : {"data"}, val : Values, comp : BOOLEAN]
    <2>1. (Source(info) # Null /\ (info.wcomp \/ SourcePacked(info))) \in BOOLEAN
      OBVIOUS
    <2> QED
      BY <1>1, <2>1 DEF Stored
  <1>6. Stored(info).k = "data"
    BY DEF Stored
  <1> QED
    BY <1>1, <1>3, <1>4, <1>5, <1>6 DEF UnitType

\* The units of a block: its header first, and no other header among them; as
\* many as the header's allocated size says.
LEMMA BlockUnitsFacts ==
    ASSUME in \in Inputs, NEW info \in InfoType
    PROVE  /\ BlockUnits(info) \in Seq(UnitType)
           /\ Allocated(info) \in Nat
           /\ Len(BlockUnits(info)) = HeadLen + Allocated(info)
           /\ BlockUnits(info)[1].k = "head" /\ BlockUnits(info)[1].alloc = Allocated(info)
           /\ \A p \in 2 .. Len(BlockUnits(info)) :
                 BlockUnits(info)[p].k \notin {"head", "index", "offsets"}
           /\ Used(info) = 1 => BlockUnits(info)[3] = Stored(info)
           /\ \A p \in 1 .. Len(BlockUnits(info)) :
                 BlockUnits(info)[p].k = "data" => p = 3 /\ Used(info) = 1
  <1> DEFINE a == HeadUnits(info)
             b == IF Used(info) = 1 THEN <<Stored(info)>> ELSE <<>>
             c == Units("pad", Allocated(info) - Used(info))
  <1>1. /\ Used(info) \in {0, 1} /\ Allocated(info) \in Nat /\ Used(info) <= Allocated(info)
        /\ Stored(info) \in UnitType /\ Stored(info).k = "data"
    BY SourceFacts
  <1>2. /\ a \in Seq(UnitType) /\ Len(a) = 2 /\ a[1].k = "head" /\ a[1].alloc = Allocated(info)
        /\ a[2].k = "fields"
    <2>1. [k |-> "head", alloc |-> Allocated(info)] \in UnitType /\ Unit("fields") \in UnitType
      BY <1>1 DEF UnitType, Unit
    <2>2. Unit("fields").k = "fields"
      BY DEF Unit
    <2> DEFINE x == [k |-> "head", alloc |-> Allocated(info)]
               y == Unit("fields")
               U == UnitType
    <2>3. x \in U /\ y \in U /\ x.k = "head" /\ x.alloc = Allocated(info) /\ y.k = "fields" /\ a = <<x, y>>
      BY <2>1, <2>2 DEF HeadUnits
    <2> HIDE DEF x, y, U, a
    <2>4. a \in Seq(U) /\ Len(a) = 2 /\ a[1] = x /\ a[2] = y
      BY <2>3
    <2> QED
      BY <2>3, <2>4 DEF U
  <1>3. /\ b \in Seq(UnitType) /\ Len(b) = Used(info) /\ \A p \in 1 .. Len(b) : b[p].k = "data"
        /\ Used(info) = 1 => b[1] = Stored(info)
    <2> DEFINE x == Stored(info)
               U == UnitType
    <2>1. x \in U /\ x.k = "data"
      BY <1>1
    <2>2. b = IF Used(info) = 1 THEN <<x>> ELSE <<>>
      OBVIOUS
    <2> HIDE DEF x, U, b
    <2>3. CASE Used(info) = 1
      <3>1. b = <<x>>
        BY <2>2, <2>3
      <3>2. b \in Seq(U) /\ Len(b) = 1 /\ b[1] = x
        BY <2>1, <3>1
      <3> QED
        BY <2>1, <2>3, <3>2 DEF U, x
    <2>4. CASE Used(info) = 0
      <3>1. b = <<>>
        BY <2>2, <2>4
      <3>2. b \in Seq(U) /\ Len(b) = 0
        BY <3>1
      <3> QED
        BY <2>4, <3>2 DEF U
    <2> QED
      BY <1>1, <2>3, <2>4
  <1>4. /\ c \in Seq(UnitType) /\ Len(c) = Allocated(info) - Used(info)
        /\ \A p \in 1 .. Len(c) : c[p].k = "pad"
    <2>1. Allocated(info) - Used(info) \in Nat
      BY <1>1
    <2> QED
      BY <2>1, UnitsFacts
  <1>5. BlockUnits(info) = a \o b \o c
    BY DEF BlockUnits
  <1> DEFINE U == UnitType
             w == BlockUnits(info)
             A == Allocated(info)
             n == Used(info)
  <1>6. a \in Seq(U) /\ b \in Seq(U) /\ c \in Seq(U) /\ w = (a \o b) \o c
    BY <1>2, <1>3, <1>4, <1>5
  <1>7. Len(a) = 2 /\ Len(b) = n /\ Len(c) = A - n /\ A \in Nat /\ n \in Nat /\ n <= A
    BY <1>1, <1>2, <1>3, <1>4
  <1> HIDE DEF U, w, A, n, a, b, c
  <1> DEFINE ab == a \o b
  <1>8. /\ ab \in Seq(U) /\ Len(ab) = 2 + n
        /\ \A p \in 1 .. 2 + n : ab[p] = IF p <= 2 THEN a[p] ELSE b[p - 2]
    <2>1. /\ a \o b \in Seq(U) /\ Len(a \o b) = Len(a) + Len(b)
          /\ \A p \in 1 .. Len(a) + Len(b) : (a \o b)[p] = IF p <= Len(a) THEN a[p] ELSE b[p - Len(a)]
      BY <1>6, ConcatProperties
    <2> QED
      BY <2>1, <1>7
  <1> HIDE DEF ab
  <1>9. w = ab \o c
    BY <1>6 DEF ab
  <1>10. /\ ab \o c \in Seq(U) /\ Len(ab \o c) = Len(ab) + Len(c)
        /\ \A p \in 1 .. Len(ab) + Len(c) :
              (ab \o c)[p] = IF p <= Len(ab) THEN ab[p] ELSE c[p - Len(ab)]
    BY <1>6, <1>8, ConcatProperties
  <1>11. w \in Seq(U) /\ Len(w) = 2 + A
    BY <1>7, <1>8, <1>9, <1>10
  <1>12. \A p \in 1 .. Len(w) : w[p] = IF p <= 2 THEN a[p] ELSE IF p <= 2 + n THEN b[p - 2]
                                      ELSE c[p - (2 + n)]
    <2> TAKE p \in 1 .. Len(w)
    <2>1. w[p] = IF p <= 2 + n THEN ab[p] ELSE c[p - (2 + n)]
      BY <1>7, <1>11, <1>8, <1>9, <1>10
    <2>2. p <= 2 + n => ab[p] = IF p <= 2 THEN a[p] ELSE b[p - 2]
      BY <1>7, <1>11, <1>8
    <2> QED
      BY <1>7, <1>11, <2>1, <2>2
  <1>13. w[1] = a[1]
    BY <1>7, <1>11, <1>12
  <1>14. ASSUME NEW p \in 2 .. Len(w)
         PROVE  w[p].k \in {"fields", "data", "pad"}
    <2>1. CASE p = 2
      <3>1. w[p] = a[2]
        BY <1>11, <1>12, <2>1
      <3> QED
        BY <3>1, <1>2
    <2>2. CASE p > 2 /\ p <= 2 + n
      <3>1. w[p] = b[p - 2] /\ p - 2 \in 1 .. Len(b)
        BY <1>7, <1>11, <1>12, <2>2
      <3> QED
        BY <3>1, <1>3
    <2>3. CASE p > 2 + n
      <3>1. w[p] = c[p - (2 + n)] /\ p - (2 + n) \in 1 .. Len(c)
        BY <1>7, <1>11, <1>12, <2>3
      <3> QED
        BY <3>1, <1>4
    <2> QED
      BY <1>7, <1>11, <2>1, <2>2, <2>3
  <1>15. n = 1 => w[3] = Stored(info)
    <2>1. n = 1 => w[3] = b[1]
      BY <1>7, <1>11, <1>12
    <2> QED
      BY <1>3, <2>1 DEF n
  <1>16. ASSUME NEW p \in 1 .. Len(w), w[p].k = "data"
         PROVE  p = 3 /\ n = 1
    <2>1. p # 1
      BY <1>2, <1>13, <1>16
    <2>2. p # 2
      <3>1. p = 2 => w[p] = a[2]
        BY <1>11, <1>12
      <3> QED
        BY <1>2, <1>16, <3>1
    <2>3. p <= 2 + n
      <3>1. p > 2 + n => w[p] = c[p - (2 + n)] /\ p - (2 + n) \in 1 .. Len(c)
        BY <1>7, <1>11, <1>12
      <3>2. p \in Int
        BY <1>11
      <3>3. p > 2 + n => w[p].k = "pad"
        BY <1>4, <3>1
      <3> QED
        BY <1>7, <1>16, <3>2, <3>3
    <2>4. n \in {0, 1}
      BY <1>1 DEF n
    <2> QED
      BY <1>11, <2>1, <2>2, <2>3, <2>4
  <1> QED
    BY <1>2, <1>7, <1>11, <1>13, <1>14, <1>15, <1>16 DEF U, w, A, n, HeadLen

-----------------------------------------------------------------------------
(* Types of the output, and its bounds *)

\* The fields of the emitter, and the updates of a write.
LEMMA EmitterUpdates ==
    ASSUME NEW e \in EmitterType
    PROVE  /\ e.st \in EmitterStates /\ e.sink \in {"file", "mem", "malloc"}
           /\ e.next \in 1 .. MaxBlocks + 1 /\ e.est \in Nat /\ e.sized \in BOOLEAN
           /\ e.sent \in Nat /\ e.writes \in 0 .. MaxWrites
           /\ \A st \in EmitterStates : /\ [e EXCEPT !.st = st] \in EmitterType
                                        /\ [e EXCEPT !.st = st].sink = e.sink
           /\ \A n \in 1 .. MaxBlocks + 1 : /\ [e EXCEPT !.next = n] \in EmitterType
                                            /\ [e EXCEPT !.next = n].sink = e.sink
           /\ \A n \in Nat : /\ [e EXCEPT !.sent = n] \in EmitterType
                             /\ [e EXCEPT !.sent = n].sink = e.sink
           /\ [e EXCEPT !.sized = TRUE] \in EmitterType
           /\ [e EXCEPT !.sized = TRUE].sink = e.sink
  <1>1. /\ e.st \in EmitterStates /\ e.sink \in {"file", "mem", "malloc"}
        /\ e.next \in 1 .. MaxBlocks + 1 /\ e.est \in Nat /\ e.sized \in BOOLEAN
        /\ e.sent \in Nat /\ e.writes \in 0 .. MaxWrites
    BY DEF EmitterType
  <1>2. ASSUME NEW st \in EmitterStates
        PROVE  [e EXCEPT !.st = st] \in EmitterType /\ [e EXCEPT !.st = st].sink = e.sink
    BY DEF EmitterType
  <1>3. ASSUME NEW n \in 1 .. MaxBlocks + 1
        PROVE  [e EXCEPT !.next = n] \in EmitterType /\ [e EXCEPT !.next = n].sink = e.sink
    BY DEF EmitterType
  <1>4. ASSUME NEW n \in Nat
        PROVE  [e EXCEPT !.sent = n] \in EmitterType /\ [e EXCEPT !.sent = n].sink = e.sink
    BY DEF EmitterType
  <1>5. [e EXCEPT !.sized = TRUE] \in EmitterType /\ [e EXCEPT !.sized = TRUE].sink = e.sink
    BY DEF EmitterType
  <1> QED
    BY <1>1, <1>2, <1>3, <1>4, <1>5

\* A write of units keeps the types, and what it adds is within the buffer: a
\* fixed one has room for it, one that may grow is grown by mem_write.
LEMMA WriteKeeps ==
    ASSUME EmitterTypeOK, OutputFits, NEW cs \in Seq(UnitType), NEW e \in EmitterType,
           e.sink = em.sink, Write(cs, e)
    PROVE  EmitterTypeOK' /\ OutputFits'
  <1> DEFINE U == UnitType
  <1>1. /\ em \in EmitterType /\ em.sent \in Nat /\ out \in Seq(U) /\ cap \in Nat /\ cs \in Seq(U)
        /\ em.sink \in {"file", "mem", "malloc"}
    BY EmitterUpdates DEF EmitterTypeOK
  <1> HIDE DEF U
  <1>2. Len(cs) \in Nat /\ Len(out) \in Nat
    BY <1>1
  <1>3. em' \in EmitterType /\ em'.sink = em.sink
    <2>1. em.sent + Len(cs) \in Nat
      BY <1>1, <1>2
    <2> QED
      BY <2>1, EmitterUpdates DEF Write
  <1>4. out' \in Seq(U) /\ Len(out') = Len(out) + Len(cs)
    <2>1. out' = out \o cs
      BY DEF Write
    <2> QED
      BY <1>1, <2>1, ConcatProperties
  <1>5. cap' \in Nat /\ (em.sink # "file" => Len(out') <= cap')
    <2>1. CASE em.sink = "malloc"
      BY <1>1, <1>2, <1>4, <2>1 DEF Write, MemGrown, OutputFits
    <2>2. CASE em.sink = "mem"
      BY <1>1, <1>2, <1>4, <2>2 DEF Write, Fits
    <2>3. CASE em.sink = "file"
      BY <1>1, <2>3 DEF Write
    <2> QED
      BY <1>1, <2>1, <2>2, <2>3
  <1> QED
    BY <1>3, <1>4, <1>5 DEF EmitterTypeOK, OutputFits, EmitterType, EmitterStates, UnitType, Values, U

\* A write that fails leaves nothing of use.
LEMMA FailKeeps ==
    ASSUME EmitterTypeOK, WriteFails
    PROVE  EmitterTypeOK' /\ OutputFits'
  <1>1. "ERROR" \in EmitterStates
    BY DEF EmitterStates
  <1>2. em' \in EmitterType
    BY <1>1, EmitterUpdates DEF EmitterTypeOK, WriteFails
  <1>3. out' \in Seq(UnitType) /\ Len(out') = 0
    BY DEF WriteFails
  <1>4. cap' = cap /\ cap \in Nat
    BY DEF WriteFails, EmitterTypeOK
  <1> QED
    BY <1>2, <1>3, <1>4 DEF EmitterTypeOK, OutputFits, EmitterType, EmitterStates, UnitType, Values

\* Writes: either of the two.
LEMMA WritesKeeps ==
    ASSUME EmitterTypeOK, OutputFits, NEW cs \in Seq(UnitType), NEW st \in EmitterStates,
           Writes(cs, st)
    PROVE  EmitterTypeOK' /\ OutputFits'
  <1>1. [em EXCEPT !.st = st] \in EmitterType /\ [em EXCEPT !.st = st].sink = em.sink
    BY EmitterUpdates DEF EmitterTypeOK
  <1>2. CASE Write(cs, [em EXCEPT !.st = st])
    BY <1>1, <1>2, WriteKeeps
  <1>3. CASE WriteFails
    BY <1>3, FailKeeps
  <1> QED
    BY <1>2, <1>3 DEF Writes

\* The emitter goes on to state st and writes nothing.
LEMMA GoesOn ==
    ASSUME EmitterTypeOK, OutputFits, NEW st \in EmitterStates,
           em' = [em EXCEPT !.st = st], UNCHANGED <<out, cap>>
    PROVE  EmitterTypeOK' /\ OutputFits'
  <1>1. em' \in EmitterType /\ em'.sink = em.sink
    BY EmitterUpdates DEF EmitterTypeOK
  <1> QED
    BY <1>1 DEF EmitterTypeOK, OutputFits, EmitterType, EmitterStates, UnitType, Values

\* The beginning and the end of a write.
LEMMA StartKeeps ==
    ASSUME EmitterTypeOK, NEW sink \in {"file", "mem", "malloc"}, NEW est \in Nat, NEW size \in Nat,
           Start(sink, est, size)
    PROVE  EmitterTypeOK' /\ OutputFits'
  <1>1. /\ em.writes \in 0 .. MaxWrites /\ em.writes < MaxWrites /\ MaxWrites \in Nat
        /\ MaxBlocks \in Nat
    BY EmitterUpdates, EmitterAssumption, StoreAssumption DEF EmitterTypeOK, Start, MayWrite
  <1>2. em.writes + 1 \in 0 .. MaxWrites /\ 1 \in 1 .. MaxBlocks + 1
    BY <1>1
  <1> DEFINE n == em.writes + 1
  <1>3. em' = [st |-> "INITIAL", sink |-> sink, next |-> 1, est |-> est, sized |-> FALSE,
               sent |-> 0, writes |-> n]
    BY DEF Start, NoEmitter
  <1>4. n \in 0 .. MaxWrites
    BY <1>2
  <1> HIDE DEF n
  <1>5. em' \in EmitterType
    BY <1>2, <1>3, <1>4 DEF EmitterType, EmitterStates
  <1>6. out' \in Seq(UnitType) /\ Len(out') = 0 /\ cap' = size
    BY DEF Start
  <1> QED
    BY <1>5, <1>6 DEF EmitterTypeOK, OutputFits, EmitterType, EmitterStates, UnitType, Values

\* asdf_write_to_file, asdf_write_to_fp and asdf_write_to_mem.
LEMMA WriteToKeeps ==
    ASSUME StoreInv, EmitterTypeOK, WriteToFile \/ WriteToMem
    PROVE  EmitterTypeOK' /\ OutputFits'
  <1>1. CASE WriteToFile
    BY <1>1, StartKeeps DEF WriteToFile
  <1>2. ASSUME NEW size \in BufSizes, Start("mem", 0, size)
        PROVE  EmitterTypeOK' /\ OutputFits'
    BY <1>2, StartKeeps, EmitterAssumption
  <1>3. CASE Start("malloc", BlocksSize, BlocksSize + (IF "noindex" \in in.opts THEN Page ELSE 2 * Page))
    <2>1. BlocksSize \in Nat
      BY BlocksSizeNat, StoreTypes DEF StoreInv
    <2>2. BlocksSize + (IF "noindex" \in in.opts THEN Page ELSE 2 * Page) \in Nat
      BY <2>1, EmitterAssumption
    <2> QED
      BY <1>3, <2>1, <2>2, StartKeeps
  <1> QED
    BY <1>1, <1>2, <1>3 DEF WriteToMem

\* The emitter's destruction.
LEMMA EndWriteKeeps ==
    ASSUME EmitterTypeOK, EndWrite
    PROVE  EmitterTypeOK' /\ OutputFits'
  <1>1. em.writes \in 0 .. MaxWrites /\ 1 \in 1 .. MaxBlocks + 1
    <2>1. em.writes \in 0 .. MaxWrites /\ MaxBlocks \in Nat
      BY EmitterUpdates, StoreAssumption DEF EmitterTypeOK
    <2> QED
      BY <2>1
  <1> DEFINE n == em.writes
  <1>2. em' = [st |-> "NONE", sink |-> "file", next |-> 1, est |-> 0, sized |-> FALSE,
               sent |-> 0, writes |-> n]
    BY DEF EndWrite, NoEmitter
  <1>3. n \in 0 .. MaxWrites
    BY <1>1
  <1> HIDE DEF n
  <1>4. em' \in EmitterType
    BY <1>1, <1>2, <1>3 DEF EmitterType, EmitterStates
  <1>5. out' \in Seq(UnitType) /\ Len(out') = 0 /\ cap' = 0
    BY DEF EndWrite
  <1> QED
    BY <1>4, <1>5 DEF EmitterTypeOK, OutputFits, EmitterType, EmitterStates, UnitType, Values

\* The states before the blocks.
LEMMA HeadKeeps ==
    ASSUME StoreInv, EmitterTypeOK, OutputFits,
           EmitInitial \/ EmitAsdfVersion \/ EmitStandardVersion \/ EmitTree \/ BlocksEmitted
    PROVE  EmitterTypeOK' /\ OutputFits'
  <1>1. {"ASDF_VERSION", "STANDARD_VERSION", "TREE", "BLOCKS", "BLOCK_INDEX", "END"} \subseteq EmitterStates
    BY DEF EmitterStates
  <1>2. CASE EmitInitial
    <2>1. PICK st \in EmitterStates : em' = [em EXCEPT !.st = st]
      BY <1>1, <1>2 DEF EmitInitial
    <2> QED
      BY <1>2, <2>1, GoesOn DEF EmitInitial
  <1>3. CASE EmitAsdfVersion
    <2>1. Units("version", 1) \in Seq(UnitType)
      BY UnitsFacts
    <2> QED
      BY <1>1, <1>3, <2>1, WritesKeeps DEF EmitAsdfVersion
  <1>4. CASE EmitStandardVersion
    <2>1. Units("standard", 1) \in Seq(UnitType)
      BY UnitsFacts
    <2> QED
      BY <1>1, <1>4, <2>1, WritesKeeps DEF EmitStandardVersion
  <1>5. CASE EmitTree
    <2>1. in.tree \in Nat
      BY InputFacts, StoreTypes DEF StoreInv
    <2>2. Units("tree", in.tree) \in Seq(UnitType)
      BY <2>1, UnitsFacts
    <2> QED
      BY <1>1, <1>5, <2>2, WritesKeeps DEF EmitTree
  <1>6. CASE BlocksEmitted
    BY <1>1, <1>6, GoesOn DEF BlocksEmitted
  <1> QED
    BY <1>2, <1>3, <1>4, <1>5, <1>6

\* asdf_write_to_mem after the tree: where the buffer is cut, so is the output.
LEMMA ResizeKeeps ==
    ASSUME EmitterTypeOK, OutputFits, ResizeForBlocks
    PROVE  EmitterTypeOK' /\ OutputFits'
  <1> DEFINE U == UnitType
  <1>1. em \in EmitterType /\ out \in Seq(U) /\ cap \in Nat /\ em.est \in Nat
    BY EmitterUpdates DEF EmitterTypeOK
  <1>2. em' \in EmitterType
    BY EmitterUpdates DEF EmitterTypeOK, ResizeForBlocks
  <1> HIDE DEF U
  <1>3. Len(out) \in Nat /\ Len(out) <= cap
    BY <1>1 DEF OutputFits, ResizeForBlocks
  <1>4. out' \in Seq(U) /\ cap' \in Nat /\ Len(out') <= cap'
    <2>1. CASE cap - Len(out) < em.est
      <3> DEFINE new == cap + em.est - Len(out)
      <3>1. new \in Nat
        BY <1>1, <1>3
      <3>2. cap' = new /\ out' = IF new < Len(out) THEN SubSeq(out, 1, new) ELSE out
        BY <2>1 DEF ResizeForBlocks
      <3> HIDE DEF new
      <3>3. CASE new < Len(out)
        <4>1. SubSeq(out, 1, new) \in Seq(U) /\ Len(SubSeq(out, 1, new)) = new
          <5>1. 1 \in Int /\ new \in Int /\ \A i \in 1 .. new : out[i] \in U
            BY <1>1, <1>3, <3>1, <3>3
          <5>2. /\ SubSeq(out, 1, new) \in Seq(U)
                /\ Len(SubSeq(out, 1, new)) = IF 1 <= new THEN new - 1 + 1 ELSE 0
            BY <5>1, SubSeqProperties
          <5> QED
            BY <3>1, <5>2
        <4> QED
          BY <3>1, <3>2, <3>3, <4>1
      <3>4. CASE ~(new < Len(out))
        BY <1>1, <1>3, <3>1, <3>2, <3>4
      <3> QED
        BY <3>3, <3>4
    <2>2. CASE ~(cap - Len(out) < em.est)
      BY <1>1, <1>3, <2>2 DEF ResizeForBlocks
    <2> QED
      BY <2>1, <2>2
  <1> QED
    BY <1>2, <1>4 DEF EmitterTypeOK, OutputFits, EmitterType, EmitterStates, UnitType, Values, U

\* emit_blocks, one block.
LEMMA EmitBlockKeeps ==
    ASSUME StoreInv, EmitterTypeOK, OutputFits, EmitBlock
    PROVE  EmitterTypeOK' /\ OutputFits'
  <1>1. /\ em \in EmitterType /\ em.next \in 1 .. MaxBlocks + 1
        /\ blocks \in Seq(InfoType) /\ Len(blocks) <= MaxBlocks /\ in \in Inputs /\ MaxBlocks \in Nat
    BY EmitterUpdates, StoreTypes, StoreAssumption DEF StoreInv, EmitterTypeOK
  <1>2. em.next \in DOMAIN blocks /\ em.next + 1 \in 1 .. MaxBlocks + 1
    BY <1>1 DEF EmitBlock
  <1> DEFINE info == blocks[em.next]
             n    == em.next + 1
  <1>3. info \in InfoType
    BY <1>1, <1>2
  <1>4. BlockUnits(info) \in Seq(UnitType)
    BY <1>1, <1>3, BlockUnitsFacts
  <1>5. CASE em' = [em EXCEPT !.st = "CRASH"] /\ UNCHANGED <<out, cap>>
    BY <1>5, GoesOn DEF EmitterStates
  <1>6. CASE Write(BlockUnits(info), [em EXCEPT !.next = n])
    <2>1. n \in 1 .. MaxBlocks + 1
      BY <1>2
    <2> HIDE DEF n
    <2>2. [em EXCEPT !.next = n] \in EmitterType /\ [em EXCEPT !.next = n].sink = em.sink
      BY <1>1, <2>1, EmitterUpdates
    <2> QED
      BY <1>4, <1>6, <2>2, WriteKeeps
  <1>7. CASE WriteFails
    BY <1>7, FailKeeps
  <1> QED
    BY <1>5, <1>6, <1>7 DEF EmitBlock

\* The units of the block index.
LEMMA IndexUnits ==
    ASSUME blocks \in Seq(InfoType)
    PROVE  <<Unit("index"), [k |-> "offsets", at |-> [i \in DOMAIN blocks |-> blocks[i].hpos]]>>
              \in Seq(UnitType)
  <1> DEFINE at == [i \in DOMAIN blocks |-> blocks[i].hpos]
             x  == Unit("index")
             y  == [k |-> "offsets", at |-> at]
  <1>1. at \in Seq(Int)
    <2>1. ASSUME NEW i \in 1 .. Len(blocks) PROVE blocks[i].hpos \in Int
      <3>1. blocks[i] \in InfoType
        OBVIOUS
      <3> QED
        BY <3>1, InfoUpdates
    <2>2. at \in [1 .. Len(blocks) -> Int] /\ Len(blocks) \in Nat
      BY <2>1
    <2> HIDE DEF at
    <2> QED
      BY <2>2
  <1> HIDE DEF at
  <1>2. x \in UnitType /\ y \in UnitType
    <2>1. x \in [k : {"version", "standard", "tree", "fields", "pad", "index"}]
      BY DEF Unit
    <2>2. y \in [k : {"offsets"}, at : Seq(Int)]
      BY <1>1
    <2> QED
      BY <2>1, <2>2 DEF UnitType
  <1>3. <<x, y>> \in Seq(UnitType)
    <2> HIDE DEF x, y
    <2> QED
      BY <1>2
  <1> QED
    BY <1>3 DEF at

\* The block index.
LEMMA IndexKeeps ==
    ASSUME StoreInv, EmitterTypeOK, OutputFits, EmitBlockIndex
    PROVE  EmitterTypeOK' /\ OutputFits'
  <1> DEFINE cs == <<Unit("index"), [k |-> "offsets", at |-> [i \in DOMAIN blocks |-> blocks[i].hpos]]>>
  <1>1. cs \in Seq(UnitType)
    BY StoreTypes, IndexUnits DEF StoreInv
  <1>2. "END" \in EmitterStates
    BY DEF EmitterStates
  <1>3. CASE em' = [em EXCEPT !.st = "END"] /\ UNCHANGED <<out, cap>>
    BY <1>2, <1>3, GoesOn
  <1>4. ASSUME Writes(cs, "END") PROVE EmitterTypeOK' /\ OutputFits'
    <2> HIDE DEF cs
    <2> QED
      BY <1>1, <1>2, <1>4, WritesKeeps
  <1> QED
    BY <1>3, <1>4 DEF EmitBlockIndex

-----------------------------------------------------------------------------
(* Types, ownership and the bounds of the output: the theorems *)

StoreAndOutput == StoreInv /\ EmitterTypeOK /\ OutputFits

\* Nothing is there at first.
LEMMA StoreAndOutputInit == Init => StoreAndOutput
  <1> SUFFICES ASSUME Init PROVE StoreAndOutput
    OBVIOUS
  <1>1. /\ in \in Inputs /\ open = TRUE /\ parsed = ~in.stream
        /\ blocks = <<>> /\ truth = <<>> /\ handle = [h \in Handles |-> NoHandle] /\ heap = {}
        /\ em = NoEmitter /\ out = <<>> /\ cap = 0
    BY DEF Init, StoreInit
  <1>2. MaxBlocks \in Nat /\ MaxWrites \in Nat
    BY StoreAssumption, EmitterAssumption
  <1>3. StoreTypeOK
    <2>1. handle \in [Handles -> HandleType]
      BY <1>1, NoHandleType
    <2>2. blocks \in Seq(InfoType) /\ Len(blocks) <= MaxBlocks
      BY <1>1, <1>2
    <2>3. truth \in Seq(Values) /\ Len(truth) = Len(blocks)
      BY <1>1
    <2>4. parsed \in BOOLEAN /\ open \in BOOLEAN /\ heap \subseteq Buffers
      BY <1>1
    <2> QED
      BY <1>1, <2>1, <2>2, <2>3, <2>4, StoreTypes
  <1>4. DOMAIN blocks = {}
    BY <1>1
  <1>5. ASSUME NEW h \in Handles
        PROVE  handle[h].st = "closed" /\ ~handle[h].info.owned /\ handle[h].info.data = Null
    BY <1>1 DEF NoHandle, Info
  <1>6. Ownership
    <2>1. Owning
      BY <1>4, <1>5 DEF Owning, Detached
    <2>2. Distinct
      BY <1>4, <1>5 DEF Distinct
    <2>3. Covered
      BY <1>1 DEF Covered
    <2>4. ViewsFollow
      BY <1>5 DEF ViewsFollow, View
    <2> QED
      BY <2>1, <2>2, <2>3, <2>4 DEF Ownership
  <1>7. ViewsPlaced
    BY <1>5 DEF ViewsPlaced, View
  <1>8. EmitterTypeOK /\ OutputFits
    <2>1. em \in EmitterType
      BY <1>1, <1>2 DEF NoEmitter, EmitterType, EmitterStates
    <2>2. out \in Seq(UnitType) /\ cap \in Nat
      BY <1>1
    <2> QED
      BY <1>1, <2>1, <2>2 DEF EmitterTypeOK, OutputFits, NoEmitter
  <1> QED
    BY <1>1, <1>3, <1>6, <1>7, <1>8 DEF StoreAndOutput, StoreInv

\* What a client does with blocks.
LEMMA StoreStep ==
    ASSUME StoreInv, StoreNext
    PROVE  StoreInv'
  <1>1. ASSUME NEW h \in Handles, NEW c \in Caller \cup {Null}, Create(h, c) PROVE StoreInv'
    BY <1>1, CreateStep
  <1>2. ASSUME NEW h \in Handles, Destroy(h) \/ Close(h) PROVE StoreInv'
    BY <1>2, DestroyStep
  <1>3. ASSUME NEW h \in Handles, NEW b \in Buffers, DataAlloc(h, b) PROVE StoreInv'
    BY <1>3, DataAllocStep
  <1>4. ASSUME NEW h \in Handles, NEW c \in Caller,
               DataSet(h, c) \/ \E comp \in Packings : DataSetCompressed(h, c, comp)
        PROVE  StoreInv'
    BY <1>4, DataSetStep
  <1>5. ASSUME NEW h \in Handles, CompressionSet(h) \/ \E n \in Sizes : AllocatedSizeSet(h, n)
        PROVE  StoreInv'
    BY <1>5, SetStep
  <1>6. ASSUME NEW h \in Handles, AppendBlock(h) PROVE StoreInv'
    BY <1>6, AppendStep
  <1>7. ASSUME NEW h \in Handles, NEW i \in 1 .. MaxBlocks, OpenBlock(h, i) PROVE StoreInv'
    BY <1>7, OpenStep
  <1>8. ASSUME NEW h \in Handles, NEW decompress \in BOOLEAN, Read(h, decompress) PROVE StoreInv'
    BY <1>8, ReadStep
  <1>9. CASE Count
    BY <1>9, CountStep
  <1>10. CASE CloseFile
    BY <1>10, CloseFileStep
  <1> QED
    BY <1>1, <1>2, <1>3, <1>4, <1>5, <1>6, <1>7, <1>8, <1>9, <1>10 DEF StoreNext

\* A step that leaves the blocks alone.
LEMMA StoreUnchanged ==
    ASSUME StoreInv, UNCHANGED storeVars
    PROVE  StoreInv'
  <1>1. UNCHANGED <<in, open, parsed, blocks, truth, handle, heap>>
    BY DEF storeVars
  <1>2. StoreTypeOK'
    BY <1>1 DEF StoreInv, StoreTypeOK, InfoType, Values
  <1>3. ASSUME ~Rebuild PROVE Ownership'
    BY <1>1, <1>3, SameOwners DEF StoreInv
  <1>4. ViewsPlaced'
    BY <1>1 DEF StoreInv, ViewsPlaced, View
  <1> QED
    BY <1>1, <1>2, <1>3, <1>4 DEF StoreInv

\* A step that leaves the output alone.
LEMMA OutputUnchanged ==
    ASSUME EmitterTypeOK, OutputFits, UNCHANGED emVars
    PROVE  EmitterTypeOK' /\ OutputFits'
  BY DEF EmitterTypeOK, OutputFits, emVars, EmitterType, EmitterStates, UnitType, Values

\* No step breaks the invariant.
LEMMA StoreAndOutputStep == StoreAndOutput /\ [Next]_vars => StoreAndOutput'
  <1> SUFFICES ASSUME StoreAndOutput, [Next]_vars PROVE StoreAndOutput'
    OBVIOUS
  <1>1. StoreInv /\ EmitterTypeOK /\ OutputFits
    BY DEF StoreAndOutput
  <1>2. em.next \in Nat \ {0} /\ Len(out) \in Nat
    <2>1. em.next \in 1 .. MaxBlocks + 1 /\ MaxBlocks \in Nat /\ out \in Seq(UnitType)
      BY <1>1, EmitterUpdates, StoreAssumption DEF EmitterTypeOK
    <2> QED
      BY <2>1
  <1>3. CASE Client
    BY <1>1, <1>3, StoreStep, OutputUnchanged DEF Client, StoreAndOutput
  <1>4. CASE WriteToFile \/ WriteToMem
    <2>1. UNCHANGED storeVars
      BY <1>4 DEF WriteToFile, WriteToMem, Start
    <2> QED
      BY <1>1, <1>4, <2>1, StoreUnchanged, WriteToKeeps DEF StoreAndOutput
  <1>5. CASE EndWrite
    <2>1. UNCHANGED storeVars
      BY <1>5 DEF EndWrite
    <2> QED
      BY <1>1, <1>5, <2>1, StoreUnchanged, EndWriteKeeps DEF StoreAndOutput
  <1>6. CASE EmitInitial \/ EmitAsdfVersion \/ EmitStandardVersion \/ EmitTree \/ BlocksEmitted
    <2>1. UNCHANGED storeVars
      BY <1>6 DEF EmitInitial, EmitAsdfVersion, EmitStandardVersion, EmitTree, BlocksEmitted
    <2> QED
      BY <1>1, <1>6, <2>1, StoreUnchanged, HeadKeeps DEF StoreAndOutput
  <1>7. CASE ResizeForBlocks
    <2>1. UNCHANGED storeVars
      BY <1>7 DEF ResizeForBlocks
    <2> QED
      BY <1>1, <1>7, <2>1, StoreUnchanged, ResizeKeeps DEF StoreAndOutput
  <1>8. CASE CountBlocks
    BY <1>1, <1>8, CountStep, OutputUnchanged DEF CountBlocks, StoreAndOutput
  <1>9. CASE EmitBlock
    BY <1>1, <1>2, <1>9, EmitBlockStep, EmitBlockKeeps DEF StoreAndOutput
  <1>10. CASE EmitBlockIndex
    <2>1. UNCHANGED storeVars
      BY <1>10 DEF EmitBlockIndex
    <2> QED
      BY <1>1, <1>10, <2>1, StoreUnchanged, IndexKeeps DEF StoreAndOutput
  <1>11. CASE UNCHANGED vars
    BY <1>1, <1>11, StoreUnchanged, OutputUnchanged DEF vars, StoreAndOutput
  <1> QED
    BY <1>3, <1>4, <1>5, <1>6, <1>7, <1>8, <1>9, <1>10, <1>11 DEF Next

\* The state of blocks, handles, emitter and output has its type, whatever a
\* client does between writes.
THEOREM TypeCorrect == Spec => []TypeOK
  <1>1. StoreAndOutput => TypeOK
    <2> SUFFICES ASSUME StoreAndOutput PROVE TypeOK
      OBVIOUS
    <2>1. StoreTypeOK /\ em \in EmitterType /\ out \in Seq(UnitType) /\ cap \in Nat
      BY DEF StoreAndOutput, StoreInv, EmitterTypeOK
    <2>2. \A p \in DOMAIN out : out[p] \in UnitType
      BY <2>1
    <2> QED
      BY <2>1, <2>2, EmitterUpdates DEF TypeOK, UnitType
  <1> QED
    BY StoreAndOutputInit, StoreAndOutputStep, <1>1, PTL DEF Spec

\* mem_write and asdf_write_to_mem never put more into a buffer than it has room
\* for, for any estimate, any page size, any blocks and any number of writes.
THEOREM OutputWithinBuffer == Spec => []OutputFits
  <1>1. StoreAndOutput => OutputFits
    BY DEF StoreAndOutput
  <1> QED
    BY StoreAndOutputInit, StoreAndOutputStep, <1>1, PTL DEF Spec

\* Every buffer of asdf_block_data_alloc is freed exactly once and never used
\* after, for any number of handles, blocks and buffers, if clients build the
\* data of a block before they append or read it.
THEOREM BuffersOwnedOnce ==
    ASSUME ~Rebuild
    PROVE  Spec => []OneOwner
  <1>1. StoreAndOutput => OneOwner
    BY OwnershipMeans DEF StoreAndOutput, StoreInv
  <1> QED
    BY StoreAndOutputInit, StoreAndOutputStep, <1>1, PTL DEF Spec

-----------------------------------------------------------------------------
(* What reads give *)

\* Of the input's blocks no two have their data at one position.
LEMMA RawOf ==
    ASSUME in \in Inputs, NEW v \in DOMAIN in.blocks
    PROVE  /\ RawAt(in.blocks[v].at + HeadLen) = v
           /\ DecodedAt(in.blocks[v].at + HeadLen, in.blocks[v].comp) = v
           /\ v # Garbage /\ v # Null
  <1> DEFINE p == in.blocks[v].at + HeadLen
  <1>1. v \in Nat
    BY InputFacts
  <1>2. v # Garbage /\ v # Null
    BY <1>1, StoreAssumption
  <1>3. ASSUME NEW i \in DOMAIN in.blocks, DataAt(i) = p PROVE i = v
    <2>1. in.blocks[i].at \in Nat /\ in.blocks[v].at \in Nat
      BY InputFacts
    <2>2. in.blocks[i].at = in.blocks[v].at
      BY <1>3, <2>1 DEF DataAt, HeadLen
    <2> QED
      BY <2>2, InputFacts
  <1>4. DataAt(v) = p
    BY DEF DataAt
  <1>5. RawAt(p) = v
    <2> HIDE DEF p
    <2> QED
      BY <1>3, <1>4 DEF RawAt
  <1> QED
    BY <1>2, <1>5 DEF DecodedAt

\* Of an info only the data, the positions, the compression of the header and
\* whether it was written matter to what it refers to.
LEMMA TruthKept ==
    ASSUME NEW f, NEW x, NEW y, NEW v, Truthful(f, x, v),
           y.data = x.data, y.dpos = x.dpos, y.out = x.out, y.comp = x.comp
    PROVE  Truthful(f, y, v)
  BY DEF Truthful

\* The infos and the truth after asdf_block_count.
LEMMA CountedTrue ==
    ASSUME StoreInv, ReadInv
    PROVE  \A i \in DOMAIN Counted : Truthful(in, Counted[i], CountTruth[i])
  <1>1. CASE parsed
    BY <1>1 DEF Counted, CountTruth, ReadInv
  <1>2. CASE ~parsed
    <2>1. in \in Inputs
      BY StoreTypes DEF StoreInv
    <2>2. Counted = InputInfos /\ CountTruth = [i \in DOMAIN in.blocks |-> i]
      BY <1>2 DEF Counted, CountTruth
    <2>3. ASSUME NEW i \in DOMAIN in.blocks
          PROVE  Truthful(in, InputInfos[i], i)
      <3>1. /\ InputInfos[i].data = Null /\ ~InputInfos[i].out
            /\ InputInfos[i].dpos = DataAt(i) /\ InputInfos[i].comp = in.blocks[i].comp
            /\ DataAt(i) \in Nat
        BY <2>1, InputInfosFacts
      <3>2. in.stream
        BY <2>1, InputFacts
      <3>3. InputInfos[i].dpos = in.blocks[i].at + HeadLen /\ ~(InputInfos[i].dpos < 0)
        BY <3>1 DEF DataAt
      <3> QED
        BY <3>1, <3>2, <3>3 DEF Truthful
    <2>4. DOMAIN InputInfos = DOMAIN in.blocks
      BY <2>1, InputInfosFacts
    <2> QED
      BY <2>2, <2>3, <2>4
  <1> QED
    BY <1>1, <1>2

\* A step that changes one handle, to one that is true, and no block.
LEMMA TrueHandle ==
    ASSUME StoreInv, ReadInv, NEW h \in Handles, NEW hd \in HandleType, HandleTrue(in, hd),
           handle' = [handle EXCEPT ![h] = hd], UNCHANGED <<in, blocks, truth>>
    PROVE  ReadInv'
  <1>1. /\ handle'[h] = hd
        /\ \A g \in Handles : g # h => handle'[g] = handle[g]
    BY StoreTypes, OneHandle DEF StoreInv
  <1> QED
    BY <1>1 DEF ReadInv

\* asdf_block_create, asdf_block_destroy and asdf_block_close.
LEMMA ReadCreate ==
    ASSUME StoreInv, ReadInv, NEW h \in Handles,
           Destroy(h) \/ Close(h) \/ \E c \in Caller \cup {Null} : Create(h, c)
    PROVE  ReadInv'
  <1>1. CASE Destroy(h) \/ Close(h)
    <2>1. handle' = [handle EXCEPT ![h] = NoHandle] /\ UNCHANGED <<in, blocks, truth>>
      BY <1>1 DEF Destroy, Close
    <2>2. HandleTrue(in, NoHandle)
      BY DEF HandleTrue, NoHandle
    <2> QED
      BY <2>1, <2>2, NoHandleType, TrueHandle
  <1>2. ASSUME NEW c \in Caller \cup {Null}, Create(h, c)
        PROVE  ReadInv'
    <2> DEFINE hd == [NoHandle EXCEPT !.st = "detached", !.saw = c, !.want = c,
                                      !.info = Info(c, FALSE, FALSE, FALSE, NoPos)]
    <2>1. hd \in HandleType
      BY NoHandleType, NewInfo DEF HandleType, Values
    <2>2. HandleTrue(in, hd)
      <3>1. /\ hd.saw = c /\ hd.want = c /\ hd.map = Null /\ hd.dest = Null
            /\ hd.info.data = c /\ hd.info.dpos = NoPos /\ ~hd.info.out
        BY DEF NoHandle, Info
      <3>2. Truthful(in, hd.info, c)
        <4> HIDE DEF hd
        <4>1. hd.info.dpos < 0 /\ ~(hd.info.dpos >= 0)
          BY <3>1 DEF NoPos
        <4> QED
          BY <3>1, <4>1 DEF Truthful
      <3>3. hd.st = "detached"
        BY DEF NoHandle
      <3> HIDE DEF hd
      <3> QED
        BY <3>1, <3>2, <3>3 DEF HandleTrue
    <2>3. handle' = [handle EXCEPT ![h] = hd] /\ UNCHANGED <<in, blocks, truth>>
      BY <1>2 DEF Create
    <2> HIDE DEF hd
    <2> QED
      BY <2>1, <2>2, <2>3, TrueHandle
  <1> QED
    BY <1>1, <1>2

\* New data of a handle nothing was read through.
LEMMA ReadSetInfo ==
    ASSUME ~Rebuild, StoreInv, ReadInv, NEW h \in Handles, NEW info \in InfoType,
           NEW v \in Buffers \cup Caller, SetInfo(h, info, v), info.data = v,
           info.dpos = handle[h].info.dpos, info.out = handle[h].info.out
    PROVE  ReadInv'
  <1> DEFINE hd == [handle[h] EXCEPT !.info = info, !.saw = v, !.want = v]
  <1>1. handle \in [Handles -> HandleType] /\ handle[h] \in HandleType
    BY StoreTypes DEF StoreInv
  <1>2. hd \in HandleType
    BY <1>1, HandleUpdates DEF Values
  <1>3. handle' = [handle EXCEPT ![h] = hd] /\ UNCHANGED <<in, blocks, truth>>
    BY <1>1, HandleShapes DEF SetInfo
  <1>4. /\ hd.st = handle[h].st /\ hd.info = info /\ hd.saw = v /\ hd.want = v
        /\ hd.map = handle[h].map /\ hd.dest = handle[h].dest
    BY <1>1 DEF HandleType
  <1>5. Detached(h) /\ handle[h].map = Null /\ handle[h].dest = Null
    BY DEF SetInfo, MayBuild, Unread
  <1>6. info.dpos = NoPos /\ ~info.out /\ v # Null
    BY <1>5, StoreAssumption DEF ReadInv, HandleTrue, Detached
  <1>7. Truthful(in, info, v)
    BY <1>6 DEF Truthful
  <1> HIDE DEF hd
  <1>8. HandleTrue(in, hd)
    BY <1>4, <1>5, <1>6, <1>7 DEF HandleTrue
  <1> QED
    BY <1>2, <1>3, <1>8, TrueHandle

\* asdf_block_data_alloc, asdf_block_data_set, asdf_block_data_set_compressed.
LEMMA ReadBuild ==
    ASSUME ~Rebuild, StoreInv, ReadInv, NEW h \in Handles,
           \/ \E b \in Buffers : DataAlloc(h, b)
           \/ \E c \in Caller : DataSet(h, c)
           \/ \E c \in Caller, comp \in Packings : DataSetCompressed(h, c, comp)
    PROVE  ReadInv'
  <1>1. handle[h].info \in InfoType
    BY StoreTypes, HandleUpdates DEF StoreInv
  <1>2. ASSUME NEW b \in Buffers, DataAlloc(h, b) PROVE ReadInv'
    <2> DEFINE i == [handle[h].info EXCEPT !.data = b, !.owned = TRUE, !.packed = FALSE]
    <2>1. i \in InfoType
      BY <1>1, InfoUpdates
    <2>2. i.data = b /\ i.dpos = handle[h].info.dpos /\ i.out = handle[h].info.out
      BY <1>1 DEF InfoType
    <2>3. SetInfo(h, i, b)
      BY <1>2 DEF DataAlloc
    <2> HIDE DEF i
    <2> QED
      BY <2>1, <2>2, <2>3, ReadSetInfo
  <1>3. ASSUME NEW c \in Caller, DataSet(h, c) PROVE ReadInv'
    <2> DEFINE i == [handle[h].info EXCEPT !.data = c, !.owned = FALSE, !.packed = FALSE]
    <2>1. i \in InfoType
      BY <1>1, InfoUpdates
    <2>2. i.data = c /\ i.dpos = handle[h].info.dpos /\ i.out = handle[h].info.out
      BY <1>1 DEF InfoType
    <2>3. SetInfo(h, i, c)
      BY <1>3 DEF DataSet
    <2> HIDE DEF i
    <2> QED
      BY <2>1, <2>2, <2>3, ReadSetInfo
  <1>4. ASSUME NEW c \in Caller, NEW comp \in Packings, DataSetCompressed(h, c, comp)
        PROVE  ReadInv'
    <2> DEFINE i == [handle[h].info EXCEPT !.data = c, !.owned = FALSE, !.packed = TRUE,
                                           !.comp = comp, !.wcomp = FALSE]
    <2>1. comp \in BOOLEAN
      BY StoreAssumption
    <2>2. i \in InfoType
      BY <1>1, <2>1, InfoUpdates
    <2>3. i.data = c /\ i.dpos = handle[h].info.dpos /\ i.out = handle[h].info.out
      BY <1>1 DEF InfoType
    <2>4. SetInfo(h, i, c)
      BY <1>4 DEF DataSetCompressed
    <2> HIDE DEF i
    <2> QED
      BY <2>2, <2>3, <2>4, ReadSetInfo
  <1> QED
    BY <1>2, <1>3, <1>4

\* An update of infos that keeps what they refer to.
LEMMA ReadMark ==
    ASSUME StoreInv, ReadInv, NEW h \in Handles, NEW f, NEW g,
           f \in InfoType, f.data = handle[h].info.data, f.dpos = handle[h].info.dpos,
           f.out = handle[h].info.out, f.comp = handle[h].info.comp,
           View(h) => /\ g \in InfoType
                      /\ g.data = blocks[handle[h].index].data
                      /\ g.dpos = blocks[handle[h].index].dpos
                      /\ g.out = blocks[handle[h].index].out
                      /\ g.comp = blocks[handle[h].index].comp,
           handle' = [handle EXCEPT ![h] = [handle[h] EXCEPT !.info = f]],
           blocks' = IF View(h) THEN [blocks EXCEPT ![handle[h].index] = g] ELSE blocks,
           UNCHANGED <<in, truth>>
    PROVE  ReadInv'
  <1> DEFINE hd == [handle[h] EXCEPT !.info = f]
             i  == handle[h].index
  <1>1. handle \in [Handles -> HandleType] /\ handle[h] \in HandleType
        /\ blocks \in Seq(InfoType)
    BY StoreTypes DEF StoreInv
  <1>2. hd \in HandleType
    BY <1>1, HandleUpdates
  <1>3. /\ hd.st = handle[h].st /\ hd.info = f /\ hd.saw = handle[h].saw /\ hd.want = handle[h].want
        /\ hd.map = handle[h].map /\ hd.dest = handle[h].dest
    BY <1>1 DEF HandleType
  <1>4. handle' = [handle EXCEPT ![h] = hd]
    OBVIOUS
  <1> HIDE DEF hd
  <1>5. /\ handle'[h] = hd
        /\ \A k \in Handles : k # h => handle'[k] = handle[k]
    BY <1>1, <1>2, <1>4, OneHandle
  <1>6. HandleTrue(in, hd)
    <2>1. HandleTrue(in, handle[h])
      BY DEF ReadInv
    <2>2. handle[h].st # "closed" => Truthful(in, f, handle[h].want)
      BY <2>1, TruthKept DEF HandleTrue
    <2> QED
      BY <1>3, <2>1, <2>2 DEF HandleTrue
  <1>7. \A j \in DOMAIN blocks' : Truthful(in, blocks'[j], truth[j])
    <2>1. CASE View(h)
      <3>1. i \in DOMAIN blocks /\ g \in InfoType /\ blocks' = [blocks EXCEPT ![i] = g]
        BY <2>1 DEF StoreInv, ViewsPlaced
      <3>2. Truthful(in, blocks[i], truth[i])
        BY <3>1 DEF ReadInv
      <3>3. Truthful(in, g, truth[i])
        BY <2>1, <3>2, TruthKept
      <3>4. /\ DOMAIN blocks' = DOMAIN blocks /\ blocks'[i] = g
            /\ \A j \in DOMAIN blocks : j # i => blocks'[j] = blocks[j]
        BY <1>1, <3>1, OneBlock
      <3> HIDE DEF i
      <3> QED
        BY <3>3, <3>4 DEF ReadInv
    <2>2. CASE ~View(h)
      BY <2>2 DEF ReadInv
    <2> QED
      BY <2>1, <2>2
  <1> QED
    BY <1>5, <1>6, <1>7 DEF ReadInv

\* asdf_block_compression_set and asdf_block_allocated_size_set.
LEMMA ReadSet ==
    ASSUME StoreInv, ReadInv, NEW h \in Handles,
           CompressionSet(h) \/ \E n \in Sizes : AllocatedSizeSet(h, n)
    PROVE  ReadInv'
  <1>1. handle \in [Handles -> HandleType] /\ handle[h].info \in InfoType
    BY StoreTypes, HandleUpdates DEF StoreInv
  <1> DEFINE i == handle[h].index
  <1>2. ASSUME View(h) PROVE blocks[i] \in InfoType
    <2>1. blocks \in Seq(InfoType)
      BY StoreTypes DEF StoreInv
    <2>2. i \in DOMAIN blocks
      BY <1>2 DEF StoreInv, ViewsPlaced
    <2> QED
      BY <2>1, <2>2
  <1>3. CASE CompressionSet(h)
    <2> DEFINE f == [handle[h].info EXCEPT !.wcomp = TRUE]
               g == [blocks[i] EXCEPT !.wcomp = TRUE]
    <2>1. /\ f \in InfoType /\ f.data = handle[h].info.data /\ f.dpos = handle[h].info.dpos
          /\ f.out = handle[h].info.out /\ f.comp = handle[h].info.comp
      BY <1>1 DEF InfoType
    <2>2. View(h) => /\ g \in InfoType /\ g.data = blocks[i].data /\ g.dpos = blocks[i].dpos
                     /\ g.out = blocks[i].out /\ g.comp = blocks[i].comp
      BY <1>2 DEF InfoType
    <2>3. handle' = [handle EXCEPT ![h] = [handle[h] EXCEPT !.info = f]]
      BY <1>1, <1>3, HandleShapes DEF CompressionSet
    <2>4. /\ blocks' = IF View(h) THEN [blocks EXCEPT ![i] = g] ELSE blocks
          /\ UNCHANGED <<in, truth>>
      BY <1>3 DEF CompressionSet
    <2> HIDE DEF f, g
    <2> QED
      BY <2>1, <2>2, <2>3, <2>4, ReadMark
  <1>4. ASSUME NEW n \in Sizes, AllocatedSizeSet(h, n)
        PROVE  ReadInv'
    <2> DEFINE f == [handle[h].info EXCEPT !.alloc = n]
               g == [blocks[i] EXCEPT !.alloc = n]
    <2>0. n \in Nat
      BY StoreAssumption
    <2>1. /\ f \in InfoType /\ f.data = handle[h].info.data /\ f.dpos = handle[h].info.dpos
          /\ f.out = handle[h].info.out /\ f.comp = handle[h].info.comp
      BY <1>1, <2>0 DEF InfoType
    <2>2. View(h) => /\ g \in InfoType /\ g.data = blocks[i].data /\ g.dpos = blocks[i].dpos
                     /\ g.out = blocks[i].out /\ g.comp = blocks[i].comp
      BY <1>2, <2>0 DEF InfoType
    <2>3. handle' = [handle EXCEPT ![h] = [handle[h] EXCEPT !.info = f]]
      BY <1>1, <1>4, HandleShapes DEF AllocatedSizeSet
    <2>4. /\ blocks' = IF View(h) THEN [blocks EXCEPT ![i] = g] ELSE blocks
          /\ UNCHANGED <<in, truth>>
      BY <1>4 DEF AllocatedSizeSet
    <2> HIDE DEF f, g
    <2> QED
      BY <2>1, <2>2, <2>3, <2>4, ReadMark
  <1> QED
    BY <1>3, <1>4

\* asdf_block_count.
LEMMA ReadCount ==
    ASSUME StoreInv, ReadInv, Count
    PROVE  ReadInv'
  <1>1. blocks' = Counted /\ truth' = CountTruth /\ UNCHANGED <<in, handle>>
    BY DEF Count
  <1>2. \A i \in DOMAIN Counted : Truthful(in, Counted[i], CountTruth[i])
    BY CountedTrue
  <1> QED
    BY <1>1, <1>2 DEF ReadInv

\* asdf_block_open.
LEMMA ReadOpen ==
    ASSUME StoreInv, ReadInv, NEW h \in Handles, NEW i \in 1 .. MaxBlocks, OpenBlock(h, i)
    PROVE  ReadInv'
  <1> DEFINE hd == [NoHandle EXCEPT !.st = "view", !.index = i,
                                    !.saw = CountTruth[i], !.want = CountTruth[i],
                                    !.info = [Counted[i] EXCEPT !.owned = FALSE]]
             g  == [Counted[i] EXCEPT !.owned = FALSE]
  <1>1. /\ handle \in [Handles -> HandleType] /\ i \in DOMAIN Counted /\ Counted[i] \in InfoType
    <2>1. Counted \in Seq(InfoType) /\ i \in DOMAIN Counted
      BY CountedFacts DEF StoreInv, OpenBlock
    <2> QED
      BY <2>1, StoreTypes DEF StoreInv
  <1>2. \A j \in DOMAIN Counted : Truthful(in, Counted[j], CountTruth[j])
    BY CountedTrue
  <1>3. /\ g.data = Counted[i].data /\ g.dpos = Counted[i].dpos
        /\ g.out = Counted[i].out /\ g.comp = Counted[i].comp
    BY <1>1 DEF InfoType
  <1>4. Truthful(in, g, CountTruth[i])
    <2> HIDE DEF g
    <2> QED
      BY <1>1, <1>2, <1>3, TruthKept
  <1>5. /\ hd.st = "view" /\ hd.info = g /\ hd.saw = CountTruth[i] /\ hd.want = CountTruth[i]
        /\ hd.map = Null /\ hd.dest = Null
    BY DEF NoHandle
  <1>6. /\ handle' = [handle EXCEPT ![h] = hd] /\ blocks' = Counted /\ truth' = CountTruth
        /\ in' = in
    BY DEF OpenBlock
  <1> HIDE DEF hd, g
  <1>7. HandleTrue(in, hd)
    BY <1>4, <1>5 DEF HandleTrue
  <1>8. /\ handle'[h] = hd
        /\ \A k \in Handles : k # h => handle'[k] = handle[k]
    BY <1>1, <1>6
  <1> QED
    BY <1>2, <1>6, <1>7, <1>8 DEF ReadInv

\* asdf_block_append.
LEMMA ReadAppend ==
    ASSUME StoreInv, ReadInv, NEW h \in Handles, AppendBlock(h)
    PROVE  ReadInv'
  <1> DEFINE n  == Len(Counted) + 1
             f  == [handle[h].info EXCEPT !.owned = FALSE]
             hd == [handle[h] EXCEPT !.st = "view", !.index = n, !.info = f]
  <1>1. handle \in [Handles -> HandleType] /\ handle[h] \in HandleType /\ handle[h].info \in InfoType
    BY StoreTypes, HandleUpdates DEF StoreInv
  <1>2. HandleTrue(in, handle[h]) /\ handle[h].st = "detached"
    BY DEF ReadInv, AppendBlock, Detached
  <1>3. Truthful(in, handle[h].info, handle[h].want)
    BY <1>2 DEF HandleTrue
  <1>4. /\ f.data = handle[h].info.data /\ f.dpos = handle[h].info.dpos
        /\ f.out = handle[h].info.out /\ f.comp = handle[h].info.comp
    BY <1>1 DEF InfoType
  <1>5. /\ hd.st = "view" /\ hd.info = f /\ hd.saw = handle[h].saw /\ hd.want = handle[h].want
        /\ hd.map = handle[h].map /\ hd.dest = handle[h].dest
    BY <1>1 DEF HandleType
  <1>6. handle' = [handle EXCEPT ![h] = hd]
    BY <1>1, HandleShapes DEF AppendBlock
  <1> HIDE DEF hd, f
  <1>7. HandleTrue(in, hd)
    <2>1. Truthful(in, f, handle[h].want)
      BY <1>3, <1>4, TruthKept
    <2> QED
      BY <1>2, <1>4, <1>5, <2>1 DEF HandleTrue
  <1>8. /\ handle'[h] = hd
        /\ \A k \in Handles : k # h => handle'[k] = handle[k]
    BY <1>1, <1>6
  <1>9. /\ Counted \in Seq(InfoType) /\ CountTruth \in Seq(Values) /\ Len(CountTruth) = Len(Counted)
    BY CountedFacts DEF StoreInv
  <1>10. /\ blocks' = Append(Counted, handle[h].info) /\ truth' = Append(CountTruth, handle[h].want)
         /\ in' = in
    BY DEF AppendBlock
  <1>11. /\ DOMAIN blocks' = DOMAIN Counted \cup {n}
         /\ blocks'[n] = handle[h].info /\ truth'[n] = handle[h].want
         /\ \A i \in DOMAIN Counted : blocks'[i] = Counted[i] /\ truth'[i] = CountTruth[i]
    BY <1>9, <1>10
  <1>12. \A j \in DOMAIN Counted : Truthful(in, Counted[j], CountTruth[j])
    BY CountedTrue
  <1> HIDE DEF n
  <1>13. \A j \in DOMAIN blocks' : Truthful(in, blocks'[j], truth'[j])
    BY <1>3, <1>11, <1>12
  <1> QED
    BY <1>7, <1>8, <1>10, <1>13 DEF ReadInv

\* asdf_block_data and asdf_block_data_raw: the mapping the handle has, the data
\* in memory or a new mapping, and what is decompressed of it, are the block's.
LEMMA ReadRead ==
    ASSUME ~Reuse, StoreInv, ReadInv, NEW h \in Handles, NEW decompress \in BOOLEAN,
           Read(h, decompress)
    PROVE  ReadInv'
  <1> DEFINE old    == handle[h]
             info   == old.info
             want   == old.want
             mapped == old.map # Null
             opens  == ~mapped /\ info.data = Null /\ HasInput(info)
             map    == IF opens THEN RawAt(info.dpos) ELSE old.map
             packed == ~mapped /\ info.data # Null /\ info.packed
             unpack == decompress /\ info.comp /\ (mapped \/ opens \/ packed)
             dest   == IF ~unpack THEN old.dest
                       ELSE IF old.dest # Null THEN old.dest
                       ELSE IF packed THEN info.data ELSE DecodedAt(info.dpos, info.comp)
             val    == IF unpack THEN dest ELSE IF mapped \/ opens THEN map ELSE info.data
             hd     == [old EXCEPT !.map = map, !.dest = dest, !.saw = val]
  <1>1. /\ handle \in [Handles -> HandleType] /\ old \in HandleType /\ in \in Inputs
        /\ info \in InfoType
    BY StoreTypes, HandleUpdates DEF StoreInv
  <1>2. /\ old.st # "closed" /\ (opens /\ info.out => Reuse)
        /\ handle' = [handle EXCEPT ![h].map = map, ![h].dest = dest, ![h].saw = val]
        /\ UNCHANGED <<in, blocks, truth>>
    BY DEF Read
  <1>3. handle' = [handle EXCEPT ![h] = hd]
    BY <1>1, <1>2, HandleShapes
  <1>4. HandleTrue(in, old) /\ Truthful(in, info, want)
    BY <1>2 DEF ReadInv, HandleTrue
  <1>5. ASSUME mapped \/ opens
        PROVE  /\ info.data = Null /\ ~info.out /\ info.dpos >= 0 /\ in.stream
               /\ RawAt(info.dpos) = want /\ DecodedAt(info.dpos, info.comp) = want
    <2>1. info.data = Null /\ ~info.out /\ info.dpos >= 0 /\ in.stream
      <3>1. CASE mapped
        BY <3>1, <1>4 DEF HandleTrue
      <3>2. CASE opens
        BY <3>2, <1>2 DEF HasInput
      <3> QED
        BY <1>5, <3>1, <3>2
    <2>2. /\ want \in DOMAIN in.blocks /\ info.dpos = in.blocks[want].at + HeadLen
          /\ info.comp = in.blocks[want].comp
      BY <1>4, <2>1 DEF Truthful
    <2> HIDE DEF info, want
    <2> QED
      BY <1>1, <2>1, <2>2, RawOf
  <1>6. ASSUME ~(mapped \/ opens)
        PROVE  info.data = want
    <2>1. CASE info.data # Null
      BY <2>1, <1>4 DEF Truthful
    <2>2. CASE info.data = Null
      <3>1. ~HasInput(info)
        BY <2>2, <1>6
      <3>2. info.dpos \in Int /\ info.out \in BOOLEAN /\ in.stream \in BOOLEAN
        BY <1>1, InfoUpdates, InputFacts
      <3>3. (info.dpos < 0 /\ ~info.out) \/ ~in.stream
        <4>1. info.out => info.dpos >= 0
          BY <1>4 DEF Truthful
        <4> HIDE DEF info
        <4> QED
          BY <3>1, <3>2, <4>1 DEF HasInput
      <3>4. want = Null
        BY <2>2, <3>3, <1>4 DEF Truthful
      <3> QED
        BY <2>2, <3>4
    <2> QED
      BY <2>1, <2>2
  <1>7. old.dest # Null => old.dest = want
    BY <1>4 DEF HandleTrue
  <1>8. mapped => old.map = want
    BY <1>4 DEF HandleTrue
  <1>9. mapped \/ opens => map = want
    BY <1>5, <1>8
  <1>10. unpack => dest = want
    <2>1. ASSUME unpack, old.dest = Null PROVE dest = want
      <3>1. CASE packed
        BY <2>1, <3>1, <1>6
      <3>2. CASE ~packed
        BY <2>1, <3>2, <1>5
      <3> QED
        BY <3>1, <3>2
    <2>2. ASSUME unpack, old.dest # Null PROVE dest = want
      BY <2>2, <1>7
    <2> QED
      BY <2>1, <2>2
  <1>11. val = want
    BY <1>6, <1>9, <1>10
  <1>12. dest # Null => dest = want
    BY <1>7, <1>10
  <1>13. map # Null => /\ map = want /\ info.data = Null /\ ~info.out
                       /\ info.dpos >= 0 /\ in.stream
    BY <1>5, <1>9
  <1>14. map \in Values /\ dest \in Values /\ val \in Values
    <2>1. old.map \in Values /\ old.dest \in Values /\ want \in Values
      BY <1>1, HandleUpdates
    <2>2. map \in Values
      BY <1>9, <2>1
    <2>3. dest \in Values
      BY <1>10, <2>1
    <2> QED
      BY <2>1, <2>2, <2>3, <1>11
  <1> HIDE DEF map, dest, val
  <1>15. /\ hd \in HandleType
         /\ hd.st = old.st /\ hd.info = info /\ hd.want = want
         /\ hd.map = map /\ hd.dest = dest /\ hd.saw = val
    BY <1>1, <1>14 DEF HandleType
  <1> HIDE DEF hd, info, want, old
  <1>16. HandleTrue(in, hd)
    BY <1>2, <1>4, <1>11, <1>12, <1>13, <1>15 DEF HandleTrue, old, info, want
  <1> QED
    BY <1>2, <1>3, <1>15, <1>16, TrueHandle

\* asdf_block_info_write: what is in memory stays, of what is in the input
\* nothing is claimed any more.
LEMMA ReadEmitBlock ==
    ASSUME StoreInv, ReadInv, EmitBlock, em.next \in Nat \ {0}, Len(out) \in Nat
    PROVE  ReadInv'
  <1>1. blocks \in Seq(InfoType) /\ em.next \in DOMAIN blocks /\ blocks[em.next] \in InfoType
    BY StoreTypes DEF StoreInv, EmitBlock
  <1> DEFINE n    == em.next
             info == blocks[n]
             late == [info EXCEPT !.hpos = Len(out)]
             all  == Placed(info)
  <1>2. blocks' \in {blocks, [blocks EXCEPT ![n] = late], [blocks EXCEPT ![n] = all]}
    BY DEF EmitBlock
  <1>3. Truthful(in, info, truth[n])
    BY <1>1 DEF ReadInv
  <1>4. /\ late.data = info.data /\ late.dpos = info.dpos /\ late.out = info.out
        /\ late.comp = info.comp
    BY <1>1 DEF InfoType
  <1>5. all.data = info.data /\ all.out = TRUE /\ all.dpos = Len(out) + 2
    BY <1>1 DEF InfoType, Placed, HeadLen
  <1> HIDE DEF late, all, info
  <1>6. Truthful(in, late, truth[n])
    BY <1>3, <1>4, TruthKept
  <1>7. Truthful(in, all, truth[n])
    <2>1. all.dpos >= 0
      BY <1>5
    <2> QED
      BY <1>3, <1>5, <2>1 DEF Truthful
  <1>8. \A j \in DOMAIN blocks' : Truthful(in, blocks'[j], truth[j])
    BY <1>1, <1>2, <1>6, <1>7 DEF ReadInv
  <1>9. UNCHANGED <<in, truth, handle>>
    BY DEF EmitBlock
  <1> QED
    BY <1>8, <1>9 DEF ReadInv

\* What a client does with blocks.
LEMMA ReadStoreStep ==
    ASSUME ~Rebuild, ~Reuse, StoreInv, ReadInv, StoreNext
    PROVE  ReadInv'
  <1>1. ASSUME NEW h \in Handles,
               Destroy(h) \/ Close(h) \/ \E c \in Caller \cup {Null} : Create(h, c)
        PROVE  ReadInv'
    BY <1>1, ReadCreate
  <1>2. ASSUME NEW h \in Handles,
               \/ \E b \in Buffers : DataAlloc(h, b)
               \/ \E c \in Caller : DataSet(h, c)
               \/ \E c \in Caller, comp \in Packings : DataSetCompressed(h, c, comp)
        PROVE  ReadInv'
    BY <1>2, ReadBuild
  <1>3. ASSUME NEW h \in Handles, CompressionSet(h) \/ \E n \in Sizes : AllocatedSizeSet(h, n)
        PROVE  ReadInv'
    BY <1>3, ReadSet
  <1>4. ASSUME NEW h \in Handles, AppendBlock(h) PROVE ReadInv'
    BY <1>4, ReadAppend
  <1>5. ASSUME NEW h \in Handles, NEW i \in 1 .. MaxBlocks, OpenBlock(h, i) PROVE ReadInv'
    BY <1>5, ReadOpen
  <1>6. ASSUME NEW h \in Handles, NEW decompress \in BOOLEAN, Read(h, decompress) PROVE ReadInv'
    BY <1>6, ReadRead
  <1>7. CASE Count
    BY <1>7, ReadCount
  <1>8. CASE CloseFile
    <2>1. DOMAIN blocks' = {} /\ UNCHANGED <<in, handle>>
      BY <1>8 DEF CloseFile
    <2> QED
      BY <2>1 DEF ReadInv
  <1> QED
    BY <1>1, <1>2, <1>3, <1>4, <1>5, <1>6, <1>7, <1>8 DEF StoreNext

\* No step breaks what a read relies on.
LEMMA ReadInvStep ==
    ASSUME ~Rebuild, ~Reuse, StoreAndOutput, ReadInv, [Next]_vars
    PROVE  ReadInv'
  <1>1. StoreInv /\ EmitterTypeOK
    BY DEF StoreAndOutput
  <1>2. em.next \in Nat \ {0} /\ Len(out) \in Nat
    <2>1. em.next \in 1 .. MaxBlocks + 1 /\ MaxBlocks \in Nat /\ out \in Seq(UnitType)
      BY <1>1, EmitterUpdates, StoreAssumption DEF EmitterTypeOK
    <2> QED
      BY <2>1
  <1>3. CASE Client
    BY <1>1, <1>3, ReadStoreStep DEF Client
  <1>4. CASE CountBlocks
    BY <1>1, <1>4, ReadCount DEF CountBlocks
  <1>5. CASE EmitBlock
    BY <1>1, <1>2, <1>5, ReadEmitBlock
  <1>6. CASE UNCHANGED storeVars
    BY <1>6 DEF storeVars, ReadInv
  <1>7. CASE \/ WriteToFile \/ WriteToMem \/ EndWrite \/ EmitInitial \/ EmitAsdfVersion
             \/ EmitStandardVersion \/ EmitTree \/ ResizeForBlocks \/ BlocksEmitted
             \/ EmitBlockIndex \/ UNCHANGED vars
    BY <1>6, <1>7 DEF WriteToFile, WriteToMem, Start, EndWrite, EmitInitial, EmitAsdfVersion,
       EmitStandardVersion, EmitTree, ResizeForBlocks, BlocksEmitted, EmitBlockIndex, vars
  <1> QED
    BY <1>3, <1>4, <1>5, <1>7 DEF Next

\* Nothing was read or written at first.
LEMMA ReadInvInit == Init => ReadInv
  <1> SUFFICES ASSUME Init PROVE ReadInv
    OBVIOUS
  <1>1. DOMAIN blocks = {}
    BY DEF Init, StoreInit
  <1>2. HandleTrue(in, NoHandle)
    BY DEF HandleTrue, NoHandle
  <1>3. \A h \in Handles : handle[h] = NoHandle
    BY DEF Init, StoreInit
  <1> QED
    BY <1>1, <1>2, <1>3 DEF ReadInv

\* asdf_block_data and asdf_block_data_raw always give the data of the block they
\* are asked for, for any input and any number of handles and writes in between,
\* if clients build a block's data before they append or read it and do not read
\* a block of the input once it was written.
THEOREM ReadsGiveTheBlock ==
    ASSUME ~Rebuild, ~Reuse
    PROVE  Spec => []ReadsRight
  <1>1. StoreAndOutput /\ ReadInv /\ [Next]_vars => ReadInv'
    BY ReadInvStep
  <1>2. ReadInv => ReadsRight
    BY DEF ReadInv, ReadsRight, HandleTrue
  <1> QED
    BY StoreAndOutputInit, StoreAndOutputStep, ReadInvInit, <1>1, <1>2, PTL DEF Spec

-----------------------------------------------------------------------------
(* The layout of the output *)

\* What a write leaves in the output and in the emitter.
LEMMA WritesFields ==
    ASSUME em \in EmitterType, NEW cs, NEW st, Writes(cs, st)
    PROVE  \/ /\ em'.st = st /\ em'.next = em.next /\ em'.sink = em.sink
              /\ em'.sized = em.sized /\ out' = out \o cs
           \/ em'.st = "ERROR"
  <1>1. CASE Write(cs, [em EXCEPT !.st = st])
    BY <1>1 DEF Write, EmitterType
  <1>2. CASE WriteFails
    BY <1>2 DEF WriteFails, EmitterType
  <1> QED
    BY <1>1, <1>2 DEF Writes

\* After an error nothing is claimed of the output.
LEMMA LayoutGone ==
    ASSUME em'.st \in {"ERROR", "CRASH"}
    PROVE  LayoutInv'
  <1>1. em'.st \notin Before \cup Writing \cup {"NONE", "BLOCKS", "BLOCK_INDEX", "END"}
    BY DEF Before, Writing
  <1> QED
    BY <1>1 DEF LayoutInv

\* Units go after what there is.
LEMMA Appended ==
    ASSUME out \in Seq(UnitType), NEW cs \in Seq(UnitType), out' = out \o cs
    PROVE  /\ Len(out) \in Nat /\ Len(cs) \in Nat /\ Len(out') = Len(out) + Len(cs)
           /\ DOMAIN out = 1 .. Len(out) /\ DOMAIN out' = 1 .. Len(out) + Len(cs)
           /\ \A p \in 1 .. Len(out) : out'[p] = out[p]
           /\ \A p \in 1 .. Len(cs) : out'[Len(out) + p] = cs[p]
           /\ \A p \in 1 .. Len(out) + Len(cs) : p > Len(out) =>
                 p - Len(out) \in 1 .. Len(cs) /\ out'[p] = cs[p - Len(out)]
  <1> DEFINE U == UnitType
  <1>1. out \in Seq(U) /\ cs \in Seq(U)
    OBVIOUS
  <1> HIDE DEF U
  <1>2. /\ Len(out) \in Nat /\ Len(cs) \in Nat /\ DOMAIN out = 1 .. Len(out)
    BY <1>1
  <1>3. /\ out' \in Seq(U) /\ Len(out') = Len(out) + Len(cs)
        /\ \A p \in 1 .. Len(out) + Len(cs) :
              out'[p] = IF p <= Len(out) THEN out[p] ELSE cs[p - Len(out)]
    BY <1>1, ConcatProperties
  <1>4. DOMAIN out' = 1 .. Len(out) + Len(cs)
    BY <1>3
  <1>5. \A p \in 1 .. Len(out) : out'[p] = out[p]
    BY <1>2, <1>3
  <1>6. ASSUME NEW p \in 1 .. Len(cs) PROVE out'[Len(out) + p] = cs[p]
    <2> DEFINE q == Len(out) + p
    <2>1. q \in 1 .. Len(out) + Len(cs) /\ ~(q <= Len(out)) /\ q - Len(out) = p
      BY <1>2
    <2> HIDE DEF q
    <2>2. out'[q] = cs[p]
      BY <1>3, <2>1
    <2> QED
      BY <2>2 DEF q
  <1>7. ASSUME NEW p \in 1 .. Len(out) + Len(cs), p > Len(out)
        PROVE  p - Len(out) \in 1 .. Len(cs) /\ out'[p] = cs[p - Len(out)]
    BY <1>2, <1>3, <1>7
  <1> QED
    BY <1>2, <1>3, <1>4, <1>5, <1>6, <1>7

\* What is written has nothing of kind k.
LEMMA NoneKept ==
    ASSUME out \in Seq(UnitType), NEW cs \in Seq(UnitType), out' = out \o cs, NEW k,
           None(k), \A p \in 1 .. Len(cs) : cs[p].k # k
    PROVE  None(k)'
  <1>1. /\ Len(out) \in Nat /\ Len(cs) \in Nat
        /\ DOMAIN out = 1 .. Len(out) /\ DOMAIN out' = 1 .. Len(out) + Len(cs)
        /\ \A p \in 1 .. Len(out) : out'[p] = out[p]
        /\ \A p \in 1 .. Len(out) + Len(cs) : p > Len(out) =>
              p - Len(out) \in 1 .. Len(cs) /\ out'[p] = cs[p - Len(out)]
    BY Appended
  <1>2. ASSUME NEW p \in DOMAIN out' PROVE out'[p].k # k
    <2>1. CASE p <= Len(out)
      <3>1. p \in DOMAIN out /\ out'[p] = out[p]
        BY <1>1, <2>1
      <3> QED
        BY <3>1 DEF None
    <2>2. CASE p > Len(out)
      <3>1. p - Len(out) \in 1 .. Len(cs) /\ out'[p] = cs[p - Len(out)]
        BY <1>1, <2>2
      <3> QED
        BY <3>1
    <2>3. p \in Int
      BY <1>1
    <2> QED
      BY <1>1, <2>1, <2>2, <2>3
  <1> QED
    BY <1>2 DEF None

\* Without headers the layout is right.
LEMMA NoHeads ==
    ASSUME None("head")'
    PROVE  Chained' /\ HeadersOf(0)'
  BY DEF None, Chained, HeadersOf

\* Without an index it is right too.
LEMMA NoOffsets ==
    ASSUME None("offsets")'
    PROVE  IndexRight'
  BY DEF None, IndexRight

\* A write begins with nothing in the output.
LEMMA LayoutStart ==
    ASSUME NEW sink, NEW est, NEW size, Start(sink, est, size)
    PROVE  LayoutInv'
  <1>1. em'.st = "INITIAL" /\ em'.next = 1
    BY DEF Start, NoEmitter
  <1>2. DOMAIN out' = {}
    BY DEF Start
  <1>3. None("head")' /\ None("index")' /\ None("offsets")'
    BY <1>2 DEF None
  <1>4. em'.st \in Before /\ em'.st \notin Writing \cup {"NONE", "BLOCKS", "BLOCK_INDEX", "END"}
    BY <1>1 DEF Before, Writing
  <1> QED
    BY <1>1, <1>3, <1>4 DEF LayoutInv

\* The version comments and the tree are no headers.
LEMMA LayoutHead ==
    ASSUME EmitterTypeOK, LayoutInv, em.st \in Before,
           NEW k \in {"version", "standard", "tree"}, NEW n \in Nat,
           NEW st \in {"STANDARD_VERSION", "TREE", "BLOCKS"}, Writes(Units(k, n), st),
           UNCHANGED blocks, Len(blocks) \in Nat
    PROVE  LayoutInv'
  <1> DEFINE cs == Units(k, n)
  <1>1. cs \in Seq(UnitType) /\ \A p \in 1 .. Len(cs) : cs[p].k = k
    <2>1. k \in {"version", "standard", "tree", "fields", "pad", "index"}
      OBVIOUS
    <2>2. Units(k, n) \in Seq(UnitType) /\ Len(Units(k, n)) = n
      BY <2>1, UnitsFacts
    <2>3. \A i \in 1 .. n : Units(k, n)[i].k = k
      BY DEF Units, Unit
    <2> QED
      BY <2>2, <2>3
  <1>2. em \in EmitterType /\ out \in Seq(UnitType)
    BY DEF EmitterTypeOK
  <1>3. em.next = 1 /\ None("head") /\ None("index") /\ None("offsets")
    BY DEF LayoutInv
  <1>4. CASE em'.st = "ERROR"
    BY <1>4, LayoutGone
  <1>5. CASE /\ em'.st = st /\ em'.next = em.next /\ em'.sink = em.sink
             /\ em'.sized = em.sized /\ out' = out \o cs
    <2> HIDE DEF cs
    <2>1. None("head")' /\ None("index")' /\ None("offsets")'
      BY <1>1, <1>2, <1>3, <1>5, NoneKept
    <2>2. Chained' /\ HeadersOf(0)'
      BY <2>1, NoHeads
    <2>3. em'.next = 1 /\ em'.next <= Len(blocks') + 1 /\ em'.next - 1 = 0
      BY <1>3, <1>5
    <2>4. em'.st \notin {"NONE", "BLOCK_INDEX", "END"}
      BY <1>5
    <2> QED
      BY <2>1, <2>2, <2>3, <2>4 DEF LayoutInv
  <1> QED
    BY <1>2, <1>4, <1>5, WritesFields

\* From the INITIAL state, to the versions or to the end.
LEMMA LayoutInitial ==
    ASSUME EmitterTypeOK, LayoutInv, EmitInitial
    PROVE  LayoutInv'
  <1>1. em.st = "INITIAL" /\ em \in EmitterType
    BY DEF EmitInitial, EmitterTypeOK
  <1>2. em.next = 1 /\ None("head") /\ None("index") /\ None("offsets")
    BY <1>1 DEF LayoutInv, Before
  <1>3. em'.next = 1 /\ em'.st \in {"ASDF_VERSION", "END"} /\ out' = out
    BY <1>1, <1>2 DEF EmitInitial, EmitterType
  <1>4. None("head")' /\ None("index")' /\ None("offsets")'
    BY <1>2, <1>3 DEF None
  <1>5. Chained' /\ IndexRight'
    BY <1>4, NoHeads, NoOffsets
  <1>6. em'.st \notin Writing \cup {"NONE", "BLOCKS", "BLOCK_INDEX"}
    BY <1>3 DEF Writing
  <1> QED
    BY <1>3, <1>4, <1>5, <1>6 DEF LayoutInv

\* What is in the buffer after its resizing was there before.
LEMMA CutKeeps ==
    ASSUME EmitterTypeOK, OutputFits, ResizeForBlocks
    PROVE  \A p \in DOMAIN out' : p \in DOMAIN out /\ out'[p] = out[p]
  <1> DEFINE U   == UnitType
             new == cap + em.est - Len(out)
  <1>1. em.sink = "malloc" /\ out \in Seq(U) /\ cap \in Nat /\ em.est \in Nat
    BY EmitterUpdates DEF ResizeForBlocks, EmitterTypeOK
  <1> HIDE DEF U
  <1>2. CASE out' = out
    BY <1>2
  <1>3. CASE new < Len(out) /\ out' = SubSeq(out, 1, new)
    <2>1. new \in Nat /\ Len(out) \in Nat /\ DOMAIN out = 1 .. Len(out)
      BY <1>1 DEF OutputFits
    <2> HIDE DEF new
    <2>2. \A i \in 1 .. new : i \in DOMAIN out /\ out[i] \in U
      BY <1>1, <1>3, <2>1
    <2>3. /\ out' \in Seq(U) /\ Len(out') = IF 1 <= new THEN new - 1 + 1 ELSE 0
          /\ \A i \in 1 .. new - 1 + 1 : out'[i] = out[1 + i - 1]
      BY <1>3, <2>1, <2>2, SubSeqProperties
    <2>4. DOMAIN out' = 1 .. new /\ \A i \in 1 .. new : out'[i] = out[i]
      BY <2>1, <2>3
    <2> QED
      BY <2>2, <2>4
  <1> QED
    BY <1>2, <1>3 DEF ResizeForBlocks

\* The buffer's resizing comes before any header.
LEMMA LayoutResize ==
    ASSUME EmitterTypeOK, OutputFits, LayoutInv, ResizeForBlocks, Len(blocks) \in Nat
    PROVE  LayoutInv'
  <1>1. /\ em.st = "BLOCKS" /\ em.sink = "malloc" /\ ~em.sized /\ em \in EmitterType
        /\ blocks' = blocks
    BY DEF ResizeForBlocks, EmitterTypeOK, storeVars
  <1>2. em.next = 1 /\ None("head") /\ None("index") /\ None("offsets")
    BY <1>1 DEF LayoutInv, Writing
  <1>3. em'.next = 1 /\ em'.st = "BLOCKS" /\ em'.sized
    BY <1>1, <1>2 DEF ResizeForBlocks, EmitterType
  <1>4. \A p \in DOMAIN out' : p \in DOMAIN out /\ out'[p] = out[p]
    BY CutKeeps
  <1>5. None("head")' /\ None("index")' /\ None("offsets")'
    BY <1>2, <1>4 DEF None
  <1>6. Chained' /\ HeadersOf(0)'
    BY <1>5, NoHeads
  <1>7. em'.next <= Len(blocks') + 1 /\ em'.next - 1 = 0
    BY <1>1, <1>3
  <1>8. em'.st \notin Before \cup {"NONE", "BLOCK_INDEX", "END"}
    BY <1>3 DEF Before
  <1> QED
    BY <1>3, <1>5, <1>6, <1>7, <1>8 DEF LayoutInv

\* emit_blocks counts the input's blocks before it writes one.
LEMMA LayoutCount ==
    ASSUME StoreInv, StoreInv', EmitterTypeOK, LayoutInv, CountBlocks
    PROVE  LayoutInv'
  <1>1. /\ em.st = "BLOCKS" /\ Len(blocks) = 0 /\ UNCHANGED <<em, out>>
        /\ (em.sink = "malloc" => em.sized)
    BY DEF CountBlocks, emVars
  <1>2. em.next \in Nat \ {0} /\ Len(blocks') \in Nat
    <2>1. em.next \in 1 .. MaxBlocks + 1 /\ MaxBlocks \in Nat
      BY EmitterUpdates, StoreAssumption DEF EmitterTypeOK
    <2>2. blocks' \in Seq(InfoType)'
      BY DEF StoreInv, StoreTypeOK
    <2> QED
      BY <2>1, <2>2
  <1>3. em.next <= Len(blocks) + 1 /\ HeadersOf(em.next - 1)
    BY <1>1 DEF LayoutInv, Writing
  <1>4. em.next = 1 /\ em.next - 1 = 0
    BY <1>1, <1>2, <1>3
  <1>5. None("head") /\ None("index") /\ None("offsets")
    <2>1. HeadersOf(0)
      BY <1>3, <1>4
    <2>2. 1 .. 0 = {}
      OBVIOUS
    <2>3. None("head")
      BY <2>1, <2>2 DEF HeadersOf, None
    <2> QED
      BY <1>1, <2>3 DEF LayoutInv, Writing
  <1>6. None("head")' /\ None("index")' /\ None("offsets")'
    BY <1>1, <1>5 DEF None
  <1>7. Chained' /\ HeadersOf(0)'
    BY <1>6, NoHeads
  <1>8. em'.next = 1 /\ em'.next <= Len(blocks') + 1 /\ em'.next - 1 = 0
    BY <1>1, <1>2, <1>4
  <1>9. em'.st = "BLOCKS" /\ em'.st \notin Before \cup {"NONE", "BLOCK_INDEX", "END"}
        /\ ~(em'.sink = "malloc" /\ ~em'.sized)
    BY <1>1 DEF Before
  <1> QED
    BY <1>6, <1>7, <1>8, <1>9 DEF LayoutInv

\* From the blocks to the index.
LEMMA LayoutEmitted ==
    ASSUME EmitterTypeOK, LayoutInv, BlocksEmitted, Len(blocks) \in Nat
    PROVE  LayoutInv'
  <1>1. /\ em.st = "BLOCKS" /\ em.next > Len(blocks) /\ UNCHANGED <<blocks, out>>
        /\ em' = [em EXCEPT !.st = "BLOCK_INDEX"] /\ em \in EmitterType
    BY DEF BlocksEmitted, storeVars, EmitterTypeOK
  <1>2. em'.st = "BLOCK_INDEX" /\ em'.next = em.next
    BY <1>1 DEF EmitterType
  <1>3. em.next \in Int
    <2>1. em.next \in 1 .. MaxBlocks + 1
      BY <1>1, EmitterUpdates
    <2> QED
      BY <2>1
  <1>4. /\ em.next <= Len(blocks) + 1 /\ HeadersOf(em.next - 1)
        /\ None("index") /\ None("offsets") /\ Chained
    BY <1>1 DEF LayoutInv, Writing
  <1>5. em'.next = Len(blocks') + 1 /\ em'.next <= Len(blocks') + 1
    BY <1>1, <1>2, <1>3, <1>4
  <1>6. HeadersOf(em.next - 1)' /\ None("index")' /\ None("offsets")' /\ Chained'
    BY <1>1, <1>2, <1>4 DEF HeadersOf, None, Chained
  <1>7. em'.st \notin Before \cup {"NONE", "BLOCKS", "END"}
    BY <1>2 DEF Before
  <1> QED
    BY <1>2, <1>5, <1>6, <1>7 DEF LayoutInv

\* A block written: its header is where its info says, after those before it, and
\* what comes next comes where the allocated size leads.
LEMMA LayoutBlock ==
    ASSUME StoreInv, EmitterTypeOK, LayoutInv, EmitBlock
    PROVE  LayoutInv'
  <1> DEFINE n    == em.next
             info == blocks[n]
             cs   == BlockUnits(info)
             L    == Len(out)
             A    == Allocated(info)
  <1>1. /\ em \in EmitterType /\ n \in Nat \ {0} /\ out \in Seq(UnitType) /\ in \in Inputs
        /\ blocks \in Seq(InfoType) /\ Len(blocks) \in Nat
    <2>1. /\ em \in EmitterType /\ n \in 1 .. MaxBlocks + 1 /\ MaxBlocks \in Nat
          /\ out \in Seq(UnitType)
      BY EmitterUpdates, StoreAssumption DEF EmitterTypeOK
    <2>2. in \in Inputs /\ blocks \in Seq(InfoType)
      BY StoreTypes DEF StoreInv
    <2>3. Len(blocks) \in Nat
      BY <2>2
    <2> QED
      BY <2>1, <2>2, <2>3
  <1>2. /\ em.st = "BLOCKS" /\ (em.sink = "malloc" => em.sized) /\ n <= Len(blocks)
        /\ n \in DOMAIN blocks
    BY <1>1 DEF EmitBlock
  <1>3. info \in InfoType
    BY <1>1, <1>2
  <1>4. CASE em' = [em EXCEPT !.st = "CRASH"]
    <2>1. em'.st = "CRASH"
      BY <1>1, <1>4 DEF EmitterType
    <2> QED
      BY <2>1, LayoutGone
  <1>5. CASE WriteFails
    <2>1. em'.st = "ERROR"
      BY <1>1, <1>5 DEF WriteFails, EmitterType
    <2> QED
      BY <2>1, LayoutGone
  <1>6. CASE /\ Write(cs, [em EXCEPT !.next = n + 1])
             /\ blocks' = [blocks EXCEPT ![n] = Placed(info)]
    <2>1. /\ cs \in Seq(UnitType) /\ A \in Nat /\ Len(cs) = 2 + A
          /\ cs[1].k = "head" /\ cs[1].alloc = A
      BY <1>1, <1>3, BlockUnitsFacts DEF HeadLen
    <2>2. \A p \in 2 .. Len(cs) : cs[p].k \notin {"head", "index", "offsets"}
      BY <1>1, <1>3, BlockUnitsFacts
    <2>3. /\ em'.st = "BLOCKS" /\ em'.next = n + 1 /\ em'.sink = em.sink /\ em'.sized = em.sized
          /\ out' = out \o cs
      BY <1>1, <1>2, <1>6 DEF Write, EmitterType
    <2>4. /\ Len(blocks') = Len(blocks) /\ DOMAIN blocks = 1 .. Len(blocks)
          /\ blocks'[n].hpos = L
          /\ \A i \in 1 .. Len(blocks) : i # n => blocks'[i] = blocks[i]
      <3>1. Placed(info).hpos = L
        BY <1>3 DEF Placed, InfoType
      <3> QED
        BY <1>1, <1>2, <1>6, <3>1
    <2> HIDE DEF info, cs, L, A
    <2>5. /\ L \in Nat /\ Len(cs) \in Nat /\ Len(out') = L + Len(cs)
          /\ DOMAIN out = 1 .. L /\ DOMAIN out' = 1 .. L + Len(cs)
          /\ \A p \in 1 .. L : out'[p] = out[p]
          /\ \A p \in 1 .. Len(cs) : out'[L + p] = cs[p]
          /\ \A p \in 1 .. L + Len(cs) : p > L =>
                p - L \in 1 .. Len(cs) /\ out'[p] = cs[p - L]
      BY <1>1, <2>1, <2>3, Appended DEF L
    <2>6. HeadersOf(n - 1) /\ None("index") /\ None("offsets") /\ Chained
      BY <1>2 DEF LayoutInv, Writing
    <2>7. /\ L + 1 \in DOMAIN out' /\ out'[L + 1].k = "head" /\ out'[L + 1].alloc = A
      <3>1. 1 \in 1 .. Len(cs)
        BY <2>1
      <3>2. out'[L + 1] = cs[1]
        BY <2>5, <3>1
      <3> QED
        BY <2>1, <2>5, <3>1, <3>2
    <2>8. ASSUME NEW p \in DOMAIN out', p > L + 1
          PROVE  out'[p].k \notin {"head", "index", "offsets"}
      <3>1. p \in 1 .. L + Len(cs) /\ p > L
        BY <2>5, <2>8
      <3>2. out'[p] = cs[p - L] /\ p - L \in 1 .. Len(cs)
        BY <2>5, <3>1
      <3>3. p - L \in 2 .. Len(cs)
        BY <2>5, <2>8, <3>1, <3>2
      <3> QED
        BY <2>2, <3>2, <3>3
    <2>9. \A p \in DOMAIN out' : p \in 1 .. L \/ p = L + 1 \/ p > L + 1
      BY <2>5
    <2>10. \A p \in 1 .. L : p \in DOMAIN out /\ p \in DOMAIN out' /\ out'[p] = out[p]
      BY <2>5
    <2>11. None("index")' /\ None("offsets")'
      BY <2>6, <2>7, <2>8, <2>9, <2>10 DEF None
    <2>12. Chained'
      <3> SUFFICES ASSUME NEW p \in DOMAIN out', out'[p].k = "head"
                   PROVE  LET q == p + HeadLen + out'[p].alloc
                          IN  \/ q = Len(out') + 1
                              \/ q \in DOMAIN out' /\ out'[q].k \in {"head", "index"}
        BY DEF Chained
      <3> DEFINE q == p + HeadLen + out'[p].alloc
      <3>1. CASE p \in 1 .. L
        <4>1. q = L + 1 \/ (q \in 1 .. L /\ out[q].k \in {"head", "index"})
          BY <2>5, <2>6, <2>10, <3>1 DEF Chained, L
        <4> HIDE DEF q
        <4>2. q = L + 1 => q \in DOMAIN out' /\ out'[q].k = "head"
          BY <2>7
        <4>3. q \in 1 .. L => q \in DOMAIN out' /\ out'[q] = out[q]
          BY <2>10
        <4>4. q \in DOMAIN out' /\ out'[q].k \in {"head", "index"}
          BY <4>1, <4>2, <4>3
        <4> QED
          BY <4>4 DEF q
      <3>2. CASE p = L + 1
        <4>1. q = L + 1 + 2 + A
          BY <2>7, <3>2 DEF HeadLen
        <4>2. Len(out') = L + 2 + A
          BY <2>1, <2>5
        <4>3. q = Len(out') + 1
          BY <2>1, <2>5, <4>1, <4>2
        <4> QED
          BY <4>3
      <3>3. CASE p > L + 1
        BY <2>8, <3>3
      <3> QED
        BY <2>9, <3>1, <3>2, <3>3
    <2>13. em'.next <= Len(blocks') + 1 /\ em'.next - 1 = n
      BY <1>1, <1>2, <2>3, <2>4
    <2>14. HeadersOf(em.next - 1)'
      <3>1. \A i \in 1 .. n : i = n \/ (i \in 1 .. n - 1 /\ i \in 1 .. Len(blocks) /\ blocks'[i] = blocks[i])
        BY <1>1, <1>2, <2>4
      <3>2. \A i \in 1 .. n - 1 : blocks[i].hpos + 1 \in 1 .. L /\ out[blocks[i].hpos + 1].k = "head"
        BY <2>5, <2>6 DEF HeadersOf
      <3>3. ASSUME NEW i \in 1 .. n
            PROVE  blocks'[i].hpos + 1 \in DOMAIN out' /\ out'[blocks'[i].hpos + 1].k = "head"
        <4>1. CASE i = n
          BY <2>4, <2>7, <4>1
        <4>2. CASE i \in 1 .. n - 1 /\ blocks'[i] = blocks[i]
          BY <2>10, <3>2, <4>2
        <4> QED
          BY <3>1, <4>1, <4>2
      <3>4. ASSUME NEW p \in DOMAIN out', out'[p].k = "head"
            PROVE  \E i \in 1 .. n : p = blocks'[i].hpos + 1
        <4>1. CASE p = L + 1
          <5>1. n \in 1 .. n
            BY <1>1
          <5> QED
            BY <2>4, <4>1, <5>1
        <4>2. CASE p \in 1 .. L
          <5>1. PICK i \in 1 .. n - 1 : p = blocks[i].hpos + 1
            BY <2>6, <2>10, <3>4, <4>2 DEF HeadersOf
          <5>2. i \in 1 .. n /\ i # n
            BY <1>1
          <5>3. blocks'[i] = blocks[i]
            BY <3>1, <5>2
          <5> QED
            BY <5>1, <5>2, <5>3
        <4> QED
          BY <2>8, <2>9, <3>4, <4>1, <4>2
      <3>5. ASSUME NEW i \in 1 .. n, NEW j \in 1 .. n, i < j
            PROVE  blocks'[i].hpos < blocks'[j].hpos
        <4>1. i \in 1 .. n - 1 /\ blocks'[i] = blocks[i]
          BY <1>1, <3>1, <3>5
        <4>2. CASE j = n
          <5>1. blocks[i].hpos + 1 \in 1 .. L
            BY <3>2, <4>1
          <5>2. blocks[i].hpos \in Int
            <6>1. i \in DOMAIN blocks
              BY <1>2, <2>4, <4>1
            <6>2. blocks[i] \in InfoType
              BY <1>1, <6>1
            <6> QED
              BY <6>2, InfoUpdates
          <5>3. L \in Nat /\ blocks'[n].hpos = L
            BY <2>4, <2>5
          <5>4. blocks[i].hpos < L
            BY <5>1, <5>2, <5>3
          <5> QED
            BY <4>1, <4>2, <5>3, <5>4
        <4>3. CASE j # n
          <5>1. j \in 1 .. n - 1 /\ blocks'[j] = blocks[j]
            BY <3>1, <4>3
          <5> QED
            BY <2>6, <3>5, <4>1, <5>1 DEF HeadersOf
        <4> QED
          BY <4>2, <4>3
      <3> QED
        BY <2>13, <3>3, <3>4, <3>5 DEF HeadersOf
    <2>15. em'.st \notin Before \cup {"NONE", "BLOCK_INDEX", "END"}
           /\ ~(em'.sink = "malloc" /\ ~em'.sized)
      BY <1>2, <2>3 DEF Before
    <2> QED
      BY <2>11, <2>12, <2>13, <2>14, <2>15 DEF LayoutInv
  <1> QED
    BY <1>4, <1>5, <1>6 DEF EmitBlock

\* The block index: after the last block, and its offsets are those of the
\* headers.
LEMMA LayoutIndex ==
    ASSUME StoreInv, EmitterTypeOK, LayoutInv, EmitBlockIndex
    PROVE  LayoutInv'
  <1> DEFINE at == [i \in DOMAIN blocks |-> blocks[i].hpos]
             x  == Unit("index")
             y  == [k |-> "offsets", at |-> at]
             L  == Len(out)
             N  == Len(blocks)
  <1>1. /\ em \in EmitterType /\ out \in Seq(UnitType) /\ blocks \in Seq(InfoType)
        /\ em.st = "BLOCK_INDEX" /\ blocks' = blocks
    BY StoreTypes DEF StoreInv, EmitterTypeOK, EmitBlockIndex, storeVars
  <1>2. N \in Nat /\ DOMAIN blocks = 1 .. N
    BY <1>1
  <1>3. em.next = N + 1 /\ HeadersOf(em.next - 1) /\ None("index") /\ None("offsets") /\ Chained
    BY <1>1 DEF LayoutInv, Writing
  <1>4. HeadersOf(N)
    <2>1. em.next - 1 = N
      BY <1>2, <1>3
    <2> HIDE DEF N
    <2> QED
      BY <1>3, <2>1
  <1>5. CASE em' = [em EXCEPT !.st = "END"] /\ out' = out
    <2>1. em'.st = "END"
      BY <1>1, <1>5 DEF EmitterType
    <2>2. None("offsets")' /\ Chained'
      BY <1>3, <1>5 DEF None, Chained
    <2>3. IndexRight'
      BY <2>2, NoOffsets
    <2>4. em'.st \notin Before \cup Writing \cup {"NONE", "BLOCKS", "BLOCK_INDEX"}
      BY <2>1 DEF Before, Writing
    <2> QED
      BY <2>2, <2>3, <2>4 DEF LayoutInv
  <1>6. CASE em'.st = "ERROR"
    BY <1>6, LayoutGone
  <1>7. CASE em'.st = "END" /\ out' = out \o <<x, y>>
    <2>1. x.k = "index" /\ y.k = "offsets" /\ y.at = at
      BY DEF Unit
    <2>2. DOMAIN at = 1 .. N /\ \A i \in 1 .. N : at[i] = blocks[i].hpos
      BY <1>2
    <2> HIDE DEF x, y, at
    <2> DEFINE U == UnitType \cup {x, y}
    <2>3. out \in Seq(U) /\ <<x, y>> \in Seq(U)
      <3>1. \A i \in 1 .. Len(out) : out[i] \in UnitType
        BY <1>1
      <3>2. out \in [1 .. Len(out) -> UnitType] /\ Len(out) \in Nat
        BY <1>1
      <3>3. x \in U /\ y \in U /\ UnitType \subseteq U
        OBVIOUS
      <3> HIDE DEF U
      <3>4. out \in [1 .. Len(out) -> U]
        BY <3>2, <3>3
      <3>5. out \in Seq(U)
        BY <3>2, <3>4
      <3> QED
        BY <3>3, <3>5
    <2> HIDE DEF U
    <2>4. /\ L \in Nat /\ DOMAIN out = 1 .. L /\ Len(<<x, y>>) = 2
          /\ <<x, y>>[1] = x /\ <<x, y>>[2] = y
      BY <2>3
    <2>5. /\ out' \in Seq(U) /\ Len(out') = L + 2
          /\ \A p \in 1 .. L + 2 : out'[p] = IF p <= L THEN out[p] ELSE <<x, y>>[p - L]
      BY <1>7, <2>3, <2>4, ConcatProperties
    <2> HIDE DEF L
    <2>6. DOMAIN out' = 1 .. L + 2
      BY <2>5
    <2>7. \A p \in 1 .. L : out'[p] = out[p]
      BY <2>4, <2>5
    <2>8. out'[L + 1] = x /\ out'[L + 2] = y
      <3>1. L + 1 \in 1 .. L + 2 /\ ~(L + 1 <= L) /\ L + 1 - L = 1
        BY <2>4
      <3>2. L + 2 \in 1 .. L + 2 /\ ~(L + 2 <= L) /\ L + 2 - L = 2
        BY <2>4
      <3> QED
        BY <2>4, <2>5, <3>1, <3>2
    <2>9. \A p \in 1 .. L + 2 : p \in 1 .. L \/ p = L + 1 \/ p = L + 2
      BY <2>4
    <2>10. L + 1 \in 1 .. L + 2 /\ L + 2 \in 1 .. L + 2 /\ 1 .. L \subseteq 1 .. L + 2
      BY <2>4
    <2>11. \A p \in DOMAIN out' : out'[p].k = "head" => p \in DOMAIN out /\ out[p].k = "head" /\ out'[p] = out[p]
      BY <2>1, <2>4, <2>6, <2>7, <2>8, <2>9
    <2>12. Chained'
      <3> SUFFICES ASSUME NEW p \in DOMAIN out', out'[p].k = "head"
                   PROVE  LET q == p + HeadLen + out'[p].alloc
                          IN  \/ q = Len(out') + 1
                              \/ q \in DOMAIN out' /\ out'[q].k \in {"head", "index"}
        BY DEF Chained
      <3> DEFINE q == p + HeadLen + out'[p].alloc
      <3>1. q = L + 1 \/ (q \in 1 .. L /\ out[q].k \in {"head", "index"})
        BY <1>3, <2>4, <2>11 DEF Chained, L
      <3> HIDE DEF q
      <3>2. q \in DOMAIN out' /\ out'[q].k \in {"head", "index"}
        BY <2>1, <2>6, <2>7, <2>8, <2>10, <3>1
      <3> QED
        BY <3>2 DEF q
    <2>13. Heads' = Heads
      BY <2>4, <2>6, <2>7, <2>10, <2>11 DEF Heads, IsHead
    <2>14. \A p \in DOMAIN out' : out'[p].k = "offsets" => p = L + 2
      BY <1>3, <2>1, <2>4, <2>6, <2>7, <2>8, <2>9 DEF None
    <2>15. {at[i] + 1 : i \in DOMAIN at} = Heads
      BY <1>4, <2>2 DEF HeadersOf, Heads, IsHead
    <2>16. \A i, j \in DOMAIN at : i < j => at[i] < at[j]
      BY <1>4, <2>2 DEF HeadersOf
    <2>17. IndexRight'
      <3> SUFFICES ASSUME NEW p \in DOMAIN out', out'[p].k = "offsets"
                   PROVE  /\ {out'[p].at[i] + 1 : i \in DOMAIN out'[p].at} = Heads'
                          /\ \A i, j \in DOMAIN out'[p].at : i < j => out'[p].at[i] < out'[p].at[j]
        BY DEF IndexRight
      <3>1. out'[p].at = at
        BY <2>1, <2>8, <2>14
      <3> QED
        BY <2>13, <2>15, <2>16, <3>1
    <2>18. em'.st \notin Before \cup Writing \cup {"NONE", "BLOCKS", "BLOCK_INDEX"}
      BY <1>7 DEF Before, Writing
    <2> QED
      BY <2>12, <2>17, <2>18 DEF LayoutInv
  <1>8. ASSUME Writes(<<x, y>>, "END") PROVE LayoutInv'
    <2> HIDE DEF x, y
    <2> QED
      BY <1>1, <1>6, <1>7, <1>8, WritesFields
  <1> QED
    BY <1>5, <1>8 DEF EmitBlockIndex

\* No step breaks the layout.
LEMMA LayoutStep ==
    ASSUME StoreAndOutput, StoreAndOutput', LayoutInv, [Next]_vars
    PROVE  LayoutInv'
  <1>1. StoreInv /\ StoreInv' /\ EmitterTypeOK /\ OutputFits
    BY DEF StoreAndOutput
  <1>2. Len(blocks) \in Nat /\ in.tree \in Nat
    <2>1. blocks \in Seq(InfoType) /\ in \in Inputs
      BY <1>1, StoreTypes DEF StoreInv
    <2> QED
      BY <2>1, InputFacts
  <1>3. CASE Client
    <2>1. em.st = "NONE" /\ em' = em
      BY <1>3 DEF Client, emVars
    <2>2. em'.st \notin Before \cup Writing \cup {"BLOCKS", "BLOCK_INDEX", "END"}
      BY <2>1 DEF Before, Writing
    <2> QED
      BY <2>1, <2>2 DEF LayoutInv
  <1>4. CASE WriteToFile \/ WriteToMem
    BY <1>4, LayoutStart DEF WriteToFile, WriteToMem
  <1>5. CASE EndWrite
    <2>1. em'.st = "NONE" /\ em'.sink = "file"
      BY <1>5 DEF EndWrite, NoEmitter
    <2>2. em'.st \notin Before \cup Writing \cup {"BLOCKS", "BLOCK_INDEX", "END"}
      BY <2>1 DEF Before, Writing
    <2> QED
      BY <2>1, <2>2 DEF LayoutInv
  <1>6. CASE EmitInitial
    BY <1>1, <1>6, LayoutInitial
  <1>7. CASE EmitAsdfVersion
    BY <1>1, <1>2, <1>7, LayoutHead DEF EmitAsdfVersion, Before, storeVars
  <1>8. CASE EmitStandardVersion
    BY <1>1, <1>2, <1>8, LayoutHead DEF EmitStandardVersion, Before, storeVars
  <1>9. CASE EmitTree
    BY <1>1, <1>2, <1>9, LayoutHead DEF EmitTree, Before, storeVars
  <1>10. CASE ResizeForBlocks
    BY <1>1, <1>2, <1>10, LayoutResize
  <1>11. CASE CountBlocks
    BY <1>1, <1>11, LayoutCount
  <1>12. CASE EmitBlock
    BY <1>1, <1>12, LayoutBlock
  <1>13. CASE BlocksEmitted
    BY <1>1, <1>2, <1>13, LayoutEmitted
  <1>14. CASE EmitBlockIndex
    BY <1>1, <1>14, LayoutIndex
  <1>15. CASE UNCHANGED vars
    BY <1>15 DEF vars, emVars, storeVars, LayoutInv, None, Chained, HeadersOf, IndexRight,
       Cut, Heads, IsHead
  <1> QED
    BY <1>3, <1>4, <1>5, <1>6, <1>7, <1>8, <1>9, <1>10, <1>11, <1>12, <1>13, <1>14, <1>15 DEF Next

\* Nothing is written at first.
LEMMA LayoutInit == Init => LayoutInv
  <1> SUFFICES ASSUME Init PROVE LayoutInv
    OBVIOUS
  <1>1. em.st = "NONE" /\ em.sink = "file"
    BY DEF Init, NoEmitter
  <1>2. em.st \notin Before \cup Writing \cup {"BLOCKS", "BLOCK_INDEX", "END"}
    BY <1>1 DEF Before, Writing
  <1> QED
    BY <1>1, <1>2 DEF LayoutInv

\* The blocks of every file that emit_blocks writes chain: a reader that follows
\* the allocated sizes comes from each header to the next, to the index or to the
\* end, for any blocks, paddings and buffers.
THEOREM BlocksChain == Spec => []HeadersChain
  <1>1. LayoutInv => HeadersChain
    BY DEF LayoutInv, Writing, Chained, HeadersChain, Heads, IsHead
  <1>2. StoreAndOutput /\ StoreAndOutput' /\ LayoutInv /\ [Next]_vars => LayoutInv'
    BY LayoutStep
  <1> QED
    BY StoreAndOutputInit, StoreAndOutputStep, LayoutInit, <1>1, <1>2, PTL DEF Spec

\* The block index that is written lists all headers and nothing else, in their
\* order, for any blocks and however the buffer had to grow.
THEOREM IndexListsHeaders == Spec => []IndexRight
  <1>1. LayoutInv => (em.st = "END" => IndexRight)
    BY DEF LayoutInv
  <1>2. (em.st # "END") => IndexRight
    BY DEF IndexRight
  <1>3. StoreAndOutput /\ StoreAndOutput' /\ LayoutInv /\ [Next]_vars => LayoutInv'
    BY LayoutStep
  <1>4. LayoutInv => IndexRight
    BY <1>1, <1>2
  <1> QED
    BY StoreAndOutputInit, StoreAndOutputStep, LayoutInit, <1>3, <1>4, PTL DEF Spec

-----------------------------------------------------------------------------
(* The data in the output *)

\* asdf_block_info_write takes the data the block is meant to hold.
LEMMA SourceTrue ==
    ASSUME in \in Inputs, NEW info \in InfoType, NEW v, Truthful(in, info, v),
           info.data = Null => ~info.out
    PROVE  Source(info) = v
  <1>1. CASE info.data # Null
    BY <1>1 DEF Source, Truthful
  <1>2. CASE info.data = Null /\ HasInput(info)
    <2>1. /\ v \in DOMAIN in.blocks /\ info.dpos = in.blocks[v].at + HeadLen
          /\ info.comp = in.blocks[v].comp
      BY <1>2 DEF Truthful, HasInput
    <2>2. RawAt(info.dpos) = v /\ DecodedAt(info.dpos, info.comp) = v
      BY <2>1, RawOf
    <2> QED
      BY <1>2, <2>2 DEF Source
  <1>3. CASE info.data = Null /\ ~HasInput(info)
    <2>1. info.dpos \in Int /\ in.stream \in BOOLEAN
      BY InfoUpdates, InputFacts
    <2>2. v = Null
      BY <1>3, <2>1 DEF Truthful, HasInput
    <2> QED
      BY <1>3, <2>2 DEF Source
  <1> QED
    BY <1>1, <1>2, <1>3

\* After an error nothing is claimed of the output.
LEMMA DataGone ==
    ASSUME em'.st \in {"NONE", "ERROR", "CRASH"}
    PROVE  DataInv'
  <1>1. em'.st \notin Before \cup Writing \cup {"BLOCKS", "BLOCK_INDEX", "END"}
    BY DEF Before, Writing
  <1> QED
    BY <1>1 DEF DataInv

\* Without data in the output there are none of the first zero blocks.
LEMMA NoData ==
    ASSUME None("data")'
    PROVE  DataOf(0)'
  BY DEF None, DataOf

\* A write begins with blocks whose positions are those in the input.
LEMMA DataStart ==
    ASSUME ~Reuse, NEW sink, NEW est, NEW size, Start(sink, est, size)
    PROVE  DataInv'
  <1>1. em'.st = "INITIAL" /\ blocks' = blocks
    BY DEF Start, NoEmitter, storeVars
  <1>2. DOMAIN out' = {}
    BY DEF Start
  <1>3. None("data")'
    BY <1>2 DEF None
  <1>4. Unwritten'
    BY <1>1 DEF Unwritten, Start, MayWrite
  <1>5. em'.st \notin Writing \cup {"NONE", "BLOCKS", "BLOCK_INDEX", "END"}
    BY <1>1 DEF Writing
  <1> QED
    BY <1>3, <1>4, <1>5 DEF DataInv

\* The version comments and the tree are no data.
LEMMA DataHead ==
    ASSUME EmitterTypeOK, LayoutInv, DataInv, em.st \in Before,
           NEW k \in {"version", "standard", "tree"}, NEW n \in Nat,
           NEW st \in {"STANDARD_VERSION", "TREE", "BLOCKS"}, Writes(Units(k, n), st),
           UNCHANGED blocks
    PROVE  DataInv'
  <1> DEFINE cs == Units(k, n)
  <1>1. cs \in Seq(UnitType) /\ \A p \in 1 .. Len(cs) : cs[p].k = k
    <2>1. k \in {"version", "standard", "tree", "fields", "pad", "index"}
      OBVIOUS
    <2>2. Units(k, n) \in Seq(UnitType) /\ Len(Units(k, n)) = n
      BY <2>1, UnitsFacts
    <2>3. \A i \in 1 .. n : Units(k, n)[i].k = k
      BY DEF Units, Unit
    <2> QED
      BY <2>2, <2>3
  <1>2. em \in EmitterType /\ out \in Seq(UnitType)
    BY DEF EmitterTypeOK
  <1>3. em.next = 1 /\ None("data") /\ Unwritten
    BY DEF LayoutInv, DataInv
  <1>4. CASE em'.st = "ERROR"
    BY <1>4, DataGone
  <1>5. CASE /\ em'.st = st /\ em'.next = em.next /\ em'.sink = em.sink
             /\ em'.sized = em.sized /\ out' = out \o cs
    <2> HIDE DEF cs
    <2>1. None("data")'
      BY <1>1, <1>2, <1>3, <1>5, NoneKept
    <2>2. DataOf(0)'
      BY <2>1, NoData
    <2>3. em'.next - 1 = 0
      BY <1>3, <1>5
    <2>4. Unwritten'
      BY <1>3, <1>5 DEF Unwritten
    <2>5. em'.st \notin {"NONE", "BLOCK_INDEX", "END"}
      BY <1>5
    <2> QED
      BY <2>1, <2>2, <2>3, <2>4, <2>5 DEF DataInv
  <1> QED
    BY <1>2, <1>4, <1>5, WritesFields

\* A file with nothing to emit has no data.
LEMMA DataInitial ==
    ASSUME StoreInv, EmitterTypeOK, LayoutInv, DataInv, EmitInitial
    PROVE  DataInv'
  <1>1. em.st = "INITIAL" /\ em \in EmitterType /\ UNCHANGED <<in, parsed, blocks, truth, out>>
    BY DEF EmitInitial, EmitterTypeOK, storeVars
  <1>2. None("data") /\ Unwritten
    BY <1>1 DEF DataInv, Before
  <1>3. em'.next = em.next /\ em'.st = IF ShouldEmit THEN "ASDF_VERSION" ELSE "END"
    BY <1>1 DEF EmitInitial, EmitterType
  <1>4. None("data")' /\ Unwritten'
    BY <1>1, <1>2, <1>3 DEF None, Unwritten
  <1>5. CASE ShouldEmit
    <2>1. em'.st \notin Writing \cup {"NONE", "BLOCKS", "BLOCK_INDEX", "END"}
      BY <1>3, <1>5 DEF Writing
    <2> QED
      BY <1>4, <2>1 DEF DataInv
  <1>6. CASE ~ShouldEmit
    <2>1. em'.st \notin Before \cup Writing \cup {"NONE", "BLOCKS", "BLOCK_INDEX"}
      BY <1>3, <1>6 DEF Before, Writing
    <2>2. blocks \in Seq(InfoType) /\ in \in Inputs
      BY StoreTypes DEF StoreInv
    <2>3. Len(blocks') = 0 /\ ~(in'.tree > 0)
      <3>1. Len(blocks) \in Nat
        BY <2>2
      <3> QED
        BY <1>1, <1>6, <3>1 DEF ShouldEmit, ShouldEmitTree
    <2>4. DataOf(0)'
      BY <1>4, NoData
    <2> QED
      BY <2>1, <2>3, <2>4 DEF DataInv
  <1> QED
    BY <1>5, <1>6

\* The buffer's resizing comes before any data.
LEMMA DataResize ==
    ASSUME EmitterTypeOK, OutputFits, LayoutInv, DataInv, ResizeForBlocks
    PROVE  DataInv'
  <1>1. /\ em.st = "BLOCKS" /\ em.sink = "malloc" /\ ~em.sized /\ em \in EmitterType
        /\ blocks' = blocks
    BY DEF ResizeForBlocks, EmitterTypeOK, storeVars
  <1>2. em.next = 1 /\ None("data") /\ Unwritten
    BY <1>1 DEF LayoutInv, DataInv, Writing
  <1>3. em'.next = 1 /\ em'.st = "BLOCKS" /\ em'.sized
    BY <1>1, <1>2 DEF ResizeForBlocks, EmitterType
  <1>4. \A p \in DOMAIN out' : p \in DOMAIN out /\ out'[p] = out[p]
    BY CutKeeps
  <1>5. None("data")'
    BY <1>2, <1>4 DEF None
  <1>6. DataOf(0)'
    BY <1>5, NoData
  <1>7. em'.next - 1 = 0 /\ Unwritten'
    BY <1>1, <1>2, <1>3 DEF Unwritten
  <1>8. em'.st \notin Before \cup {"NONE", "BLOCK_INDEX", "END"}
    BY <1>3 DEF Before
  <1> QED
    BY <1>3, <1>6, <1>7, <1>8 DEF DataInv

\* emit_blocks counts the input's blocks before it writes one; none of them was
\* written before.
LEMMA DataCount ==
    ASSUME StoreInv, EmitterTypeOK, LayoutInv, DataInv, CountBlocks
    PROVE  DataInv'
  <1>1. /\ em.st = "BLOCKS" /\ Len(blocks) = 0 /\ UNCHANGED <<em, out>>
        /\ (em.sink = "malloc" => em.sized) /\ ~parsed /\ blocks' = InputInfos
    BY DEF CountBlocks, emVars, Count, Counted
  <1>2. em.next = 1
    <2>1. em.next \in 1 .. MaxBlocks + 1 /\ MaxBlocks \in Nat
      BY EmitterUpdates, StoreAssumption DEF EmitterTypeOK
    <2>2. em.next <= Len(blocks) + 1
      BY <1>1 DEF LayoutInv, Writing
    <2> QED
      BY <1>1, <2>1, <2>2
  <1>3. None("data")
    <2>1. DataOf(em.next - 1)
      BY <1>1 DEF DataInv, Writing
    <2>2. em.next - 1 = 0 /\ 1 .. 0 = {}
      BY <1>2
    <2>3. DataOf(0)
      BY <2>1, <2>2
    <2> QED
      BY <2>2, <2>3 DEF DataOf, None
  <1>4. None("data")'
    BY <1>1, <1>3 DEF None
  <1>5. DataOf(0)'
    BY <1>4, NoData
  <1>6. Unwritten'
    <2>1. in \in Inputs
      BY StoreTypes DEF StoreInv
    <2>2. \A i \in DOMAIN InputInfos : ~InputInfos[i].out
      BY <2>1, InputInfosFacts
    <2> QED
      BY <1>1, <2>2 DEF Unwritten
  <1>7. em'.next - 1 = 0
    BY <1>1, <1>2
  <1>8. em'.st \notin Before \cup {"NONE", "BLOCK_INDEX", "END"}
        /\ ~(em'.sink = "malloc" /\ ~em'.sized)
    BY <1>1 DEF Before
  <1> QED
    BY <1>5, <1>6, <1>7, <1>8 DEF DataInv

\* From the blocks to the index: the blocks were counted.
LEMMA DataEmitted ==
    ASSUME StoreInv, EmitterTypeOK, DataInv, BlocksEmitted
    PROVE  DataInv'
  <1>1. /\ em.st = "BLOCKS" /\ UNCHANGED <<in, parsed, blocks, truth, out>>
        /\ em' = [em EXCEPT !.st = "BLOCK_INDEX"] /\ em \in EmitterType
        /\ parsed \/ Len(blocks) > 0
    BY DEF BlocksEmitted, storeVars, EmitterTypeOK
  <1>2. em'.st = "BLOCK_INDEX" /\ em'.next = em.next
    BY <1>1 DEF EmitterType
  <1>3. parsed'
    BY <1>1 DEF StoreInv
  <1>4. DataOf(em.next - 1) /\ Unwritten
    BY <1>1 DEF DataInv, Writing
  <1>5. DataOf(em.next - 1)' /\ Unwritten'
    BY <1>1, <1>2, <1>4 DEF DataOf, Unwritten
  <1>6. em'.st \notin Before \cup {"NONE", "BLOCKS", "END"}
    BY <1>2 DEF Before
  <1> QED
    BY <1>2, <1>3, <1>5, <1>6 DEF DataInv

\* Units that are no data leave those of the first n blocks as they are.
LEMMA DataKept ==
    ASSUME out \in Seq(UnitType), NEW cs \in Seq(UnitType), out' = out \o cs,
           UNCHANGED <<blocks, truth>>, \A p \in 1 .. Len(cs) : cs[p].k # "data",
           NEW n, DataOf(n)
    PROVE  DataOf(n)'
  <1>1. /\ Len(out) \in Nat /\ Len(cs) \in Nat
        /\ DOMAIN out = 1 .. Len(out) /\ DOMAIN out' = 1 .. Len(out) + Len(cs)
        /\ \A p \in 1 .. Len(out) : out'[p] = out[p]
        /\ \A p \in 1 .. Len(out) + Len(cs) : p > Len(out) =>
              p - Len(out) \in 1 .. Len(cs) /\ out'[p] = cs[p - Len(out)]
    BY Appended
  <1>2. \A p \in DOMAIN out : p \in DOMAIN out' /\ out'[p] = out[p]
    BY <1>1
  <1>3. ASSUME NEW p \in DOMAIN out', out'[p].k = "data"
        PROVE  p \in DOMAIN out /\ out[p].k = "data"
    <2>1. p \in Int /\ ~(p > Len(out))
      BY <1>1, <1>3
    <2>2. p \in DOMAIN out
      BY <1>1, <2>1
    <2> QED
      BY <1>2, <1>3, <2>2
  <1>4. ASSUME NEW i \in 1 .. n, truth'[i] # Null
        PROVE  /\ blocks'[i].dpos + 1 \in DOMAIN out'
               /\ out'[blocks'[i].dpos + 1].k = "data" /\ out'[blocks'[i].dpos + 1].val = truth'[i]
    BY <1>2, <1>4 DEF DataOf
  <1>5. ASSUME NEW p \in DOMAIN out', out'[p].k = "data"
        PROVE  \E i \in 1 .. n : truth'[i] # Null /\ p = blocks'[i].dpos + 1
    BY <1>3, <1>5 DEF DataOf
  <1>6. \A i, j \in 1 .. n : truth'[i] # Null /\ truth'[j] # Null /\ i < j
                                => blocks'[i].dpos < blocks'[j].dpos
    BY DEF DataOf
  <1> QED
    BY <1>4, <1>5, <1>6 DEF DataOf

\* The block index is no data.
LEMMA DataIndex ==
    ASSUME StoreInv, EmitterTypeOK, LayoutInv, DataInv, EmitBlockIndex
    PROVE  DataInv'
  <1> DEFINE cs == <<Unit("index"), [k |-> "offsets", at |-> [i \in DOMAIN blocks |-> blocks[i].hpos]]>>
  <1>1. /\ em \in EmitterType /\ out \in Seq(UnitType) /\ blocks \in Seq(InfoType)
        /\ em.st = "BLOCK_INDEX" /\ UNCHANGED <<in, parsed, blocks, truth>>
    BY StoreTypes DEF StoreInv, EmitterTypeOK, EmitBlockIndex, storeVars
  <1>2. parsed /\ DataOf(Len(blocks))
    <2>1. em.next = Len(blocks) + 1 /\ Len(blocks) \in Nat
      BY <1>1 DEF LayoutInv
    <2>2. em.next - 1 = Len(blocks)
      BY <2>1
    <2> QED
      BY <1>1, <2>2 DEF DataInv, Writing
  <1>3. cs \in Seq(UnitType) /\ \A p \in 1 .. Len(cs) : cs[p].k # "data"
    <2>1. cs \in Seq(UnitType)
      BY <1>1, IndexUnits
    <2>2. Len(cs) = 2 /\ cs[1].k = "index" /\ cs[2].k = "offsets"
      BY DEF Unit
    <2> HIDE DEF cs
    <2>3. \A p \in 1 .. Len(cs) : p = 1 \/ p = 2
      BY <2>2
    <2> QED
      BY <2>1, <2>2, <2>3
  <1>4. ASSUME em'.st = "END", DataOf(Len(blocks))'
        PROVE  DataInv'
    <2>1. em'.st \notin Before \cup Writing \cup {"NONE", "BLOCKS", "BLOCK_INDEX"}
      BY <1>4 DEF Before, Writing
    <2>2. parsed'
      BY <1>1, <1>2
    <2> QED
      BY <1>4, <2>1, <2>2 DEF DataInv
  <1>5. CASE em' = [em EXCEPT !.st = "END"] /\ out' = out
    <2>1. em'.st = "END"
      BY <1>1, <1>5 DEF EmitterType
    <2>2. DataOf(Len(blocks))'
      BY <1>1, <1>2, <1>5 DEF DataOf
    <2> QED
      BY <1>4, <2>1, <2>2
  <1>6. CASE em'.st = "ERROR"
    BY <1>6, DataGone
  <1>7. CASE em'.st = "END" /\ out' = out \o cs
    <2> HIDE DEF cs
    <2>1. PICK n : n = Len(blocks)
      OBVIOUS
    <2>2. DataOf(n) /\ n = Len(blocks')
      BY <1>1, <1>2, <2>1
    <2>3. DataOf(n)'
      BY <1>1, <1>3, <1>7, <2>2, DataKept
    <2>4. DataOf(Len(blocks))'
      BY <2>2, <2>3
    <2> QED
      BY <1>4, <1>7, <2>4
  <1>8. ASSUME Writes(cs, "END") PROVE DataInv'
    <2> HIDE DEF cs
    <2> QED
      BY <1>1, <1>6, <1>7, <1>8, WritesFields
  <1> QED
    BY <1>5, <1>8 DEF EmitBlockIndex

\* A block written: its data, if it has any, are where its info says, after those
\* of the blocks before it.
LEMMA DataBlock ==
    ASSUME StoreInv, ReadInv, EmitterTypeOK, DataInv, EmitBlock
    PROVE  DataInv'
  <1> DEFINE n    == em.next
             info == blocks[n]
             cs   == BlockUnits(info)
             L    == Len(out)
  <1>1. /\ em \in EmitterType /\ n \in Nat \ {0} /\ out \in Seq(UnitType) /\ in \in Inputs
        /\ blocks \in Seq(InfoType) /\ Len(blocks) \in Nat
    <2>1. /\ em \in EmitterType /\ n \in 1 .. MaxBlocks + 1 /\ MaxBlocks \in Nat
          /\ out \in Seq(UnitType)
      BY EmitterUpdates, StoreAssumption DEF EmitterTypeOK
    <2>2. in \in Inputs /\ blocks \in Seq(InfoType)
      BY StoreTypes DEF StoreInv
    <2>3. Len(blocks) \in Nat
      BY <2>2
    <2> QED
      BY <2>1, <2>2, <2>3
  <1>2. /\ em.st = "BLOCKS" /\ (em.sink = "malloc" => em.sized) /\ n <= Len(blocks)
        /\ n \in DOMAIN blocks /\ truth' = truth
    BY <1>1 DEF EmitBlock
  <1>3. info \in InfoType
    BY <1>1, <1>2
  <1>4. CASE em' = [em EXCEPT !.st = "CRASH"]
    <2>1. em'.st = "CRASH"
      BY <1>1, <1>4 DEF EmitterType
    <2> QED
      BY <2>1, DataGone
  <1>5. CASE WriteFails
    <2>1. em'.st = "ERROR"
      BY <1>1, <1>5 DEF WriteFails, EmitterType
    <2> QED
      BY <2>1, DataGone
  <1>6. CASE /\ Write(cs, [em EXCEPT !.next = n + 1])
             /\ blocks' = [blocks EXCEPT ![n] = Placed(info)]
    <2>1. Unwritten /\ DataOf(n - 1)
      BY <1>2 DEF DataInv, Writing
    <2>2. Source(info) = truth[n]
      <3>1. Truthful(in, info, truth[n])
        BY <1>2 DEF ReadInv
      <3>2. info.data = Null => ~info.out
        BY <1>1, <1>2, <2>1 DEF Unwritten
      <3> QED
        BY <1>1, <1>3, <3>1, <3>2, SourceTrue
    <2>3. /\ cs \in Seq(UnitType)
          /\ \A p \in 1 .. Len(cs) : cs[p].k = "data" => p = 3 /\ truth[n] # Null
      <3>1. Used(info) = 1 => truth[n] # Null
        BY <2>2 DEF Used
      <3>2. cs \in Seq(UnitType)
        BY <1>1, <1>3, BlockUnitsFacts
      <3>3. \A p \in 1 .. Len(cs) : cs[p].k = "data" => p = 3 /\ Used(info) = 1
        BY <1>1, <1>3, BlockUnitsFacts
      <3> HIDE DEF cs
      <3> QED
        BY <3>1, <3>2, <3>3
    <2>4. truth[n] # Null => 3 \in 1 .. Len(cs) /\ cs[3].k = "data" /\ cs[3].val = truth[n]
      <3> SUFFICES ASSUME truth[n] # Null
                   PROVE  3 \in 1 .. Len(cs) /\ cs[3].k = "data" /\ cs[3].val = truth[n]
        OBVIOUS
      <3>1. Used(info) = 1
        BY <2>2 DEF Used
      <3>2. Allocated(info) \in Nat /\ Used(info) <= Allocated(info)
        BY <1>1, <1>3, SourceFacts
      <3>3. Len(cs) = 2 + Allocated(info)
        BY <1>1, <1>3, BlockUnitsFacts DEF HeadLen
      <3>4. cs[3] = Stored(info)
        BY <1>1, <1>3, <3>1, BlockUnitsFacts
      <3>5. Stored(info).k = "data" /\ Stored(info).val = truth[n]
        BY <2>2 DEF Stored
      <3> HIDE DEF cs
      <3> QED
        BY <3>1, <3>2, <3>3, <3>4, <3>5
    <2>5. /\ em'.st = "BLOCKS" /\ em'.next = n + 1 /\ em'.sink = em.sink /\ em'.sized = em.sized
          /\ out' = out \o cs
      BY <1>1, <1>2, <1>6 DEF Write, EmitterType
    <2>6. /\ DOMAIN blocks' = DOMAIN blocks /\ DOMAIN blocks = 1 .. Len(blocks)
          /\ blocks'[n].dpos = L + 2
          /\ \A i \in 1 .. Len(blocks) : i # n => blocks'[i] = blocks[i]
      <3>1. Placed(info).dpos = L + 2
        BY <1>3 DEF Placed, InfoType, HeadLen
      <3> QED
        BY <1>1, <1>2, <1>6, <3>1
    <2> HIDE DEF info, cs, L
    <2>7. /\ L \in Nat /\ Len(cs) \in Nat
          /\ DOMAIN out = 1 .. L /\ DOMAIN out' = 1 .. L + Len(cs)
          /\ \A p \in 1 .. L : out'[p] = out[p]
          /\ \A p \in 1 .. Len(cs) : out'[L + p] = cs[p]
          /\ \A p \in 1 .. L + Len(cs) : p > L =>
                p - L \in 1 .. Len(cs) /\ out'[p] = cs[p - L]
      BY <1>1, <2>3, <2>5, Appended DEF L
    <2>8. \A p \in 1 .. L : p \in DOMAIN out /\ p \in DOMAIN out' /\ out'[p] = out[p]
      BY <2>7
    <2>9. truth[n] # Null => /\ L + 3 \in DOMAIN out'
                             /\ out'[L + 3].k = "data" /\ out'[L + 3].val = truth[n]
      <3>1. 3 \in 1 .. Len(cs) => L + 3 \in DOMAIN out' /\ out'[L + 3] = cs[3]
        BY <2>7
      <3> QED
        BY <2>4, <3>1
    <2>10. ASSUME NEW p \in DOMAIN out', out'[p].k = "data"
           PROVE  p \in 1 .. L \/ (p = L + 3 /\ truth[n] # Null)
      <3>1. p \in 1 .. L + Len(cs) /\ p \in Int
        BY <2>7
      <3>2. CASE p > L
        <4>1. p - L \in 1 .. Len(cs) /\ out'[p] = cs[p - L]
          BY <2>7, <3>1, <3>2
        <4>2. p - L = 3 /\ truth[n] # Null
          BY <2>3, <2>10, <4>1
        <4> QED
          BY <2>7, <3>1, <4>2
      <3> QED
        BY <2>7, <3>1, <3>2
    <2>11. em'.next - 1 = n
      BY <1>1, <2>5
    <2>12. \A i \in 1 .. n : i = n \/ (i \in 1 .. n - 1 /\ i \in 1 .. Len(blocks) /\ blocks'[i] = blocks[i])
      BY <1>1, <1>2, <2>6
    <2>13. \A i \in 1 .. n - 1 : truth[i] # Null =>
              /\ blocks[i].dpos + 1 \in 1 .. L
              /\ out[blocks[i].dpos + 1].k = "data" /\ out[blocks[i].dpos + 1].val = truth[i]
      BY <2>1, <2>7 DEF DataOf
    <2>14. L + 2 + 1 = L + 3
      BY <2>7
    <2>15. ASSUME NEW i \in 1 .. n, truth[i] # Null
           PROVE  /\ blocks'[i].dpos + 1 \in DOMAIN out'
                  /\ out'[blocks'[i].dpos + 1].k = "data"
                  /\ out'[blocks'[i].dpos + 1].val = truth[i]
      <3>1. CASE i = n
        <4>1. blocks'[i].dpos + 1 = L + 3
          BY <2>6, <2>14, <3>1
        <4> QED
          BY <2>9, <2>15, <3>1, <4>1
      <3>2. CASE i \in 1 .. n - 1 /\ blocks'[i] = blocks[i]
        BY <2>8, <2>13, <2>15, <3>2
      <3> QED
        BY <2>12, <3>1, <3>2
    <2>16. ASSUME NEW p \in DOMAIN out', out'[p].k = "data"
           PROVE  \E i \in 1 .. n : truth[i] # Null /\ p = blocks'[i].dpos + 1
      <3>1. CASE p = L + 3 /\ truth[n] # Null
        <4>1. n \in 1 .. n
          BY <1>1
        <4> QED
          BY <2>6, <2>14, <3>1, <4>1
      <3>2. CASE p \in 1 .. L
        <4>1. PICK i \in 1 .. n - 1 : truth[i] # Null /\ p = blocks[i].dpos + 1
          BY <2>1, <2>8, <2>16, <3>2 DEF DataOf
        <4>2. i \in 1 .. n /\ i # n
          BY <1>1
        <4>3. blocks'[i] = blocks[i]
          BY <2>12, <4>2
        <4> QED
          BY <4>1, <4>2, <4>3
      <3> QED
        BY <2>10, <2>16, <3>1, <3>2
    <2>17. ASSUME NEW i \in 1 .. n, NEW j \in 1 .. n, truth[i] # Null, truth[j] # Null, i < j
           PROVE  blocks'[i].dpos < blocks'[j].dpos
      <3>1. i \in 1 .. n - 1 /\ blocks'[i] = blocks[i]
        BY <1>1, <2>12, <2>17
      <3>2. CASE j = n
        <4>1. blocks[i].dpos + 1 \in 1 .. L
          BY <2>13, <2>17, <3>1
        <4>2. blocks[i].dpos \in Int
          <5>1. i \in DOMAIN blocks
            BY <1>2, <2>6, <3>1
          <5>2. blocks[i] \in InfoType
            BY <1>1, <5>1
          <5> QED
            BY <5>2, InfoUpdates
        <4>3. blocks[i].dpos < L + 2
          BY <2>7, <4>1, <4>2
        <4> QED
          BY <2>6, <3>1, <3>2, <4>3
      <3>3. CASE j # n
        <4>1. j \in 1 .. n - 1 /\ blocks'[j] = blocks[j]
          BY <2>12, <3>3
        <4> QED
          BY <2>1, <2>17, <3>1, <4>1 DEF DataOf
      <3> QED
        BY <3>2, <3>3
    <2>18. DataOf(em.next - 1)'
      BY <1>2, <2>11, <2>15, <2>16, <2>17 DEF DataOf
    <2>19. Unwritten'
      <3> SUFFICES ASSUME NEW i \in DOMAIN blocks, i >= n + 1, blocks'[i].data = Null
                   PROVE  ~blocks'[i].out
        BY <2>5, <2>6 DEF Unwritten
      <3>1. i \in 1 .. Len(blocks) /\ i # n /\ i >= n
        BY <1>1, <2>6
      <3>2. blocks'[i] = blocks[i]
        BY <2>6, <3>1
      <3> QED
        BY <2>1, <3>1, <3>2 DEF Unwritten
    <2>20. em'.st \notin Before \cup {"NONE", "BLOCK_INDEX", "END"}
           /\ ~(em'.sink = "malloc" /\ ~em'.sized)
      BY <1>2, <2>5 DEF Before
    <2> QED
      BY <2>18, <2>19, <2>20 DEF DataInv
  <1> QED
    BY <1>4, <1>5, <1>6 DEF EmitBlock

\* No step breaks it.
LEMMA DataStep ==
    ASSUME ~Reuse, StoreAndOutput, ReadInv, LayoutInv, DataInv, [Next]_vars
    PROVE  DataInv'
  <1>1. StoreInv /\ EmitterTypeOK /\ OutputFits
    BY DEF StoreAndOutput
  <1>2. in.tree \in Nat
    <2>1. in \in Inputs
      BY <1>1, StoreTypes DEF StoreInv
    <2> QED
      BY <2>1, InputFacts
  <1>3. CASE Client
    BY <1>3, DataGone DEF Client, emVars
  <1>4. CASE WriteToFile \/ WriteToMem
    BY <1>4, DataStart DEF WriteToFile, WriteToMem
  <1>5. CASE EndWrite
    <2>1. em'.st = "NONE"
      BY <1>5 DEF EndWrite, NoEmitter
    <2> QED
      BY <2>1, DataGone
  <1>6. CASE EmitInitial
    BY <1>1, <1>6, DataInitial
  <1>7. CASE EmitAsdfVersion
    BY <1>1, <1>2, <1>7, DataHead DEF EmitAsdfVersion, Before, storeVars
  <1>8. CASE EmitStandardVersion
    BY <1>1, <1>2, <1>8, DataHead DEF EmitStandardVersion, Before, storeVars
  <1>9. CASE EmitTree
    BY <1>1, <1>2, <1>9, DataHead DEF EmitTree, Before, storeVars
  <1>10. CASE ResizeForBlocks
    BY <1>1, <1>10, DataResize
  <1>11. CASE CountBlocks
    BY <1>1, <1>11, DataCount
  <1>12. CASE EmitBlock
    BY <1>1, <1>12, DataBlock
  <1>13. CASE BlocksEmitted
    BY <1>1, <1>13, DataEmitted
  <1>14. CASE EmitBlockIndex
    BY <1>1, <1>14, DataIndex
  <1>15. CASE UNCHANGED vars
    BY <1>15 DEF vars, emVars, storeVars, DataInv, None, DataOf, Unwritten
  <1> QED
    BY <1>3, <1>4, <1>5, <1>6, <1>7, <1>8, <1>9, <1>10, <1>11, <1>12, <1>13, <1>14, <1>15 DEF Next

\* The data at the end of a write: the position in a block's info says where.
LEMMA DataWritten ==
    ASSUME StoreInv, DataInv
    PROVE  BlocksWritten
  <1> SUFFICES ASSUME em.st = "END", parsed \/ in.tree > 0
               PROVE  LET full == {i \in DOMAIN CountTruth : CountTruth[i] # Null}
                          data == {p \in DOMAIN out : IsData(out[p])}
                      IN  \E at \in [full -> data] :
                             /\ {at[i] : i \in full} = data
                             /\ \A i, j \in full : i < j => at[i] < at[j]
                             /\ \A i \in full : out[at[i]].val = CountTruth[i]
    BY DEF BlocksWritten
  <1> DEFINE full == {i \in DOMAIN CountTruth : CountTruth[i] # Null}
             data == {p \in DOMAIN out : IsData(out[p])}
             at   == [i \in full |-> blocks[i].dpos + 1]
             N    == Len(blocks)
  <1>1. parsed /\ DataOf(N)
    BY DEF DataInv
  <1>2. /\ CountTruth = truth /\ truth \in Seq(Values) /\ Len(truth) = N
        /\ blocks \in Seq(InfoType)
    BY <1>1, StoreTypes DEF StoreInv, CountTruth
  <1>3. full = {i \in 1 .. N : truth[i] # Null}
    BY <1>2
  <1>4. \A i \in full : blocks[i].dpos \in Int
    <2> SUFFICES ASSUME NEW i \in full PROVE blocks[i].dpos \in Int
      OBVIOUS
    <2>1. blocks[i] \in InfoType
      BY <1>2, <1>3
    <2> QED
      BY <2>1, InfoUpdates
  <1>5. data = {p \in DOMAIN out : out[p].k = "data"}
    BY DEF IsData
  <1> HIDE DEF full, data, N
  <1>6. ASSUME NEW i \in full
        PROVE  at[i] = blocks[i].dpos + 1 /\ at[i] \in data /\ out[at[i]].val = CountTruth[i]
    BY <1>1, <1>2, <1>3, <1>5, <1>6 DEF DataOf
  <1>7. at \in [full -> data]
    BY <1>6
  <1>8. \A p \in data : \E i \in full : p = at[i]
    BY <1>1, <1>3, <1>5, <1>6 DEF DataOf
  <1>9. {at[i] : i \in full} = data
    BY <1>6, <1>8
  <1>10. ASSUME NEW i \in full, NEW j \in full, i < j
         PROVE  at[i] < at[j]
    <2>1. blocks[i].dpos < blocks[j].dpos
      BY <1>1, <1>3, <1>10 DEF DataOf
    <2>2. at[i] = blocks[i].dpos + 1 /\ at[j] = blocks[j].dpos + 1
      BY <1>6
    <2>3. blocks[i].dpos \in Int /\ blocks[j].dpos \in Int
      BY <1>4
    <2> QED
      BY <2>1, <2>2, <2>3
  <1> HIDE DEF at
  <1>11. \E f \in [full -> data] :
            /\ {f[i] : i \in full} = data
            /\ \A i, j \in full : i < j => f[i] < f[j]
            /\ \A i \in full : out[f[i]].val = CountTruth[i]
    BY <1>6, <1>7, <1>9, <1>10
  <1> QED
    BY <1>11 DEF full, data

\* A write that succeeds has the data of every block in the output, each once, in
\* the file's order, and no other data, for any blocks, any input and any output,
\* also one whose blocks nobody had counted: if clients build a block's data before
\* they append or read it and do not write blocks of the input twice.
THEOREM BlocksAreWritten ==
    ASSUME ~Rebuild, ~Reuse
    PROVE  Spec => []BlocksWritten
  <1>1. Init => DataInv
    <2> SUFFICES ASSUME Init PROVE DataInv
      OBVIOUS
    <2>1. em.st \notin Before \cup Writing \cup {"BLOCKS", "BLOCK_INDEX", "END"}
      BY DEF Init, NoEmitter, Before, Writing
    <2> QED
      BY <2>1 DEF DataInv
  <1>2. StoreAndOutput /\ ReadInv /\ [Next]_vars => ReadInv'
    BY ReadInvStep
  <1>3. StoreAndOutput /\ StoreAndOutput' /\ LayoutInv /\ [Next]_vars => LayoutInv'
    BY LayoutStep
  <1>4. StoreAndOutput /\ ReadInv /\ LayoutInv /\ DataInv /\ [Next]_vars => DataInv'
    BY DataStep
  <1>5. StoreAndOutput /\ DataInv => BlocksWritten
    BY DataWritten DEF StoreAndOutput
  <1> QED
    BY StoreAndOutputInit, StoreAndOutputStep, ReadInvInit, LayoutInit,
       <1>1, <1>2, <1>3, <1>4, <1>5, PTL DEF Spec
=============================================================================
