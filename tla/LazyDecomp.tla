----------------------------- MODULE LazyDecomp -----------------------------
(***************************************************************************)
(* Opening, reading and closing the decompressed data of one compressed    *)
(* block: src/src/compression/compression.c with the decomp callbacks of   *)
(* zlib.c, bzp2.c and lz4.c.                                               *)
(*                                                                         *)
(* Three kinds of threads interleave.  The owner opens and closes the      *)
(* block (asdf_block_comp_open, asdf_block_comp_close).  In lazy mode a    *)
(* handler thread resolves page faults on the destination mapping          *)
(* (asdf_block_comp_userfaultfd_handler, handle_pagefault).  Readers touch *)
(* pages of the mapping and block in the kernel while a page is missing.   *)
(*                                                                         *)
(* Sizes and offsets are counted in pages.  A page of the mapping is       *)
(* "missing", holds its part of the decompressed "data", or "zeros".       *)
(***************************************************************************)
EXTENDS Integers

CONSTANTS
    Readers,      \* threads that read the block's data
    NPages,       \* pages of the destination mapping (dest_size)
    ChunkPages,   \* pages of the lazy work buffer (chunk_size)
    UIntPages,    \* 2^32 bytes in pages: the width of avail_out
    Sources,      \* compressed streams: [codec, pages, tail]
    Configs,      \* [mode, big, uffd, shm]; see UseLazyMode
    SetupFaults   \* steps of asdf_block_decomp_lazy that may fail

Codecs == {"zlib", "bzp2", "lz4"}
Steps  == {"work_buf", "uffd", "api", "register", "evtfd", "thread"}

ASSUME SizeAssumption ==
    /\ NPages \in Nat \ {0}
    /\ ChunkPages \in Nat \ {0}
    /\ UIntPages \in Nat \ {0}

\* After `pages` pages of output a stream ends properly ("end"), breaks off
\* ("cut") or is corrupt ("bad").
ASSUME SourceAssumption ==
    /\ Sources \subseteq [codec : Codecs, pages : Nat,
                          tail : {"end", "cut", "bad"}]
    /\ Configs \subseteq [mode : {"AUTO", "EAGER", "LAZY"}, big : BOOLEAN,
                          uffd : BOOLEAN, shm : BOOLEAN]
    /\ SetupFaults \subseteq Steps

VARIABLES
    src, conf,    \* the block's stream and the file's configuration: fixed
    opc,          \* owner: "closed", "open", "stopping", "signalled"
    mode,         \* effective mode of comp_state: "none", "eager", "lazy"
    stray,        \* lazy_shutdown joined a thread that was never created
    page,         \* contents of the destination mapping
    registered,   \* the mapping is registered with the userfaultfd
    status,       \* compressor info.status
    progress,     \* compressor progress
    stop, evt,    \* uffd->stop and the eventfd's counter
    err,          \* an error was recorded on the file since the open
    hpc,          \* handler: "off", "check", "poll", "decomp", "copy",
                  \* "exit", "finished"
    fault, got,   \* handle_pagefault's offset and got_offset
    rpc, rpg,     \* reader: "idle", "try", "pending", "asleep"; page wanted
    rval          \* what the reader's last access returned

setupVars  == <<src, conf>>
ownerVars  == <<opc, mode, stray, stop>>
handlerVars == <<hpc, fault, got, status, progress>>
readerVars == <<rpc, rpg, rval>>
vars == <<src, conf, opc, mode, stray, page, registered, status, progress,
          stop, evt, err, hpc, fault, got, rpc, rpg, rval>>

Pages == 0 .. NPages - 1

-----------------------------------------------------------------------------
(* Decompressors *)

\* Pages the stream can still produce.
Left == IF progress < src.pages THEN src.pages - progress ELSE 0

Results == {"OK", "END", "ERR"}

\* Results of inflate() for an output buffer of n pages (external library):
\* it fails when it can make no progress at all, and goes on to report the
\* end once it was reached.
Inflate(n) ==
    IF status = "DONE" THEN {"END"}
    ELSE {res \in Results :
            \/ res = "OK"  /\ n > 0 /\ (Left >= n \/ (src.tail = "cut" /\ Left > 0))
            \/ res = "END" /\ n > 0 /\ src.tail = "end" /\ Left <= n
            \/ res = "ERR" /\ (n = 0 \/ (src.tail = "cut" /\ Left = 0)
                                    \/ (src.tail = "bad" /\ Left <= n))}

\* Results of BZ2_bzDecompress() (external library): it reports no error when
\* it runs out of input, and one when it is called again after the end.
BzDecompress(n) ==
    IF status = "DONE" THEN {"ERR"}
    ELSE {res \in Results :
            \/ res = "OK"  /\ (Left >= n \/ src.tail = "cut")
            \/ res = "END" /\ src.tail = "end" /\ Left <= n
            \/ res = "ERR" /\ src.tail = "bad" /\ Left <= n}

\* The loop over LZ4 blocks of asdf_compressor_lz4_decomp: every way in which
\* the data can fall short is an error, and "done" is decided by the offset.
Lz4Blocks(n) ==
    LET remaining == IF progress < NPages THEN NPages - progress ELSE 0
        need == IF n < remaining THEN n ELSE remaining
    IN  IF Left < need THEN {"ERR"}
        ELSE IF progress + n >= NPages THEN {"END"} ELSE {"OK"}

\* avail_out is a 32-bit unsigned int in z_stream and bz_stream.
AvailOut(n) == n % UIntPages

\* The decomp callback for a buffer of n pages: the ways it can end.
Decomp(n) == IF src.codec = "zlib" THEN Inflate(AvailOut(n))
             ELSE IF src.codec = "bzp2" THEN BzDecompress(AvailOut(n))
             ELSE Lz4Blocks(n)

\* How much of an n-page buffer the callback can write.
Room(n) == IF src.codec = "lz4" THEN n ELSE AvailOut(n)

\* What page p of the mapping holds when it is filled from a zeroed n-page
\* buffer into which the callback decompressed the data at offset `from`.
Produced(p, from, n) ==
    IF p < src.pages /\ p < from + Room(n) THEN "data" ELSE "zeros"

StatusAfter(res) == IF res = "END" THEN "DONE" ELSE "IN_PROGRESS"

-----------------------------------------------------------------------------
(* Owner: open *)

\* asdf_block_decomp_lazy_available: kernel support and, for a temp file,
\* whether its file system can be registered (shared memory).
LazyAvailable(fileBacking) == conf.uffd /\ (fileBacking => conf.shm)

\* asdf_block_comp_state_create: conf.big says that the data is larger than
\* the configured memory limit (asdf_block_comp_use_file_backing).
UseLazyMode ==
    /\ conf.mode \in {"AUTO", "LAZY"}
    /\ LazyAvailable(conf.big)
    /\ conf.big => conf.mode # "AUTO"

\* Common to the ways comp_open can end: pointers of an earlier open are no
\* longer used.
Open ==
    /\ opc = "closed"
    /\ \A r \in Readers : rpc[r] = "idle"
    /\ rval' = [r \in Readers |-> "none"]
    /\ stop' = FALSE
    /\ UNCHANGED <<src, conf, evt, fault, got, rpc, rpg>>

\* The compressor's init or the mapping failed: failure path of comp_open.
OpenFails ==
    /\ Open
    /\ err' = TRUE
    /\ UNCHANGED <<opc, mode, stray, page, registered, status, progress, hpc>>

\* asdf_block_decomp_eager: one call for the whole mapping; an error closes
\* the block again and is returned, but not recorded on the file.
OpenEager ==
    /\ Open
    /\ ~UseLazyMode
    /\ \E res \in Decomp(NPages) :
          IF res = "ERR"
          THEN UNCHANGED <<opc, mode, page, status, progress, err>>
          ELSE /\ opc' = "open" /\ mode' = "eager"
               /\ page' = [p \in Pages |-> Produced(p, 0, NPages)]
               /\ status' = StatusAfter(res)
               /\ progress' = NPages
               /\ err' = FALSE
    /\ UNCHANGED <<stray, registered, hpc>>

\* asdf_block_decomp_lazy: register the mapping and start the handler.  The
\* result of pthread_create is not looked at.
OpenLazy ==
    /\ Open
    /\ UseLazyMode
    /\ opc' = "open" /\ mode' = "lazy"
    /\ registered' = TRUE
    /\ err' = FALSE
    /\ hpc' \in {"check"} \cup (IF "thread" \in SetupFaults THEN {"off"} ELSE {})
    /\ UNCHANGED <<stray, page, status, progress>>

\* A step of asdf_block_decomp_lazy before pthread_create fails; comp_open
\* closes the block, which runs lazy_shutdown without a handler thread: the
\* join is undefined; `stray` records that it happened.
OpenLazyFails ==
    /\ Open
    /\ UseLazyMode
    /\ SetupFaults \ {"thread"} # {}
    /\ err' = TRUE
    /\ stray' = TRUE
    /\ UNCHANGED <<opc, mode, page, registered, status, progress, hpc>>

-----------------------------------------------------------------------------
(* Owner: close *)

\* Everything comp_close frees, as the next open finds it.
Reset ==
    /\ opc' = "closed"
    /\ mode' = "none"
    /\ page' = [p \in Pages |-> "missing"]
    /\ registered' = FALSE
    /\ status' = "INITIALIZED"
    /\ progress' = 0
    /\ evt' = 0
    /\ hpc' = "off"
    /\ fault' = 0 /\ got' = 0
    /\ UNCHANGED <<src, conf, stray, stop, err, readerVars>>

CloseEager ==
    /\ opc = "open"
    /\ mode = "eager"
    /\ Reset

\* asdf_block_decomp_lazy_shutdown sets the flag, writes the eventfd and
\* joins the handler; comp_close then destroys the compressor and unmaps.
CloseStop ==
    /\ opc = "open"
    /\ mode = "lazy"
    /\ stop' = TRUE
    /\ opc' = "stopping"
    /\ UNCHANGED <<setupVars, mode, stray, page, registered, evt, err,
                   handlerVars, readerVars>>

\* Mutant of CloseSignal: the eventfd is not written.
CloseSignalLost ==
    /\ opc = "stopping"
    /\ opc' = "signalled"
    /\ UNCHANGED <<setupVars, mode, stray, stop, page, registered, evt, err,
                   handlerVars, readerVars>>

CloseSignal ==
    /\ opc = "stopping"
    /\ evt' = 1
    /\ opc' = "signalled"
    /\ UNCHANGED <<setupVars, mode, stray, stop, page, registered, err,
                   handlerVars, readerVars>>

CloseJoin ==
    /\ opc = "signalled"
    /\ hpc = "finished"
    /\ Reset

-----------------------------------------------------------------------------
(* Kernel: userfaultfd wake-ups (external) *)

Waiting(r) == rpc[r] \in {"pending", "asleep"}

\* Readers blocked on a page of S retry their access.
WokenBy(S) ==
    [r \in Readers |-> IF Waiting(r) /\ rpg[r] \in S THEN "try" ELSE rpc[r]]

\* Readers whose fault has not been read from the userfaultfd yet.
Pending == {r \in Readers : rpc[r] = "pending"}

-----------------------------------------------------------------------------
(* Handler thread *)

\* Head of the handler's loop.
HandlerCheck ==
    /\ hpc = "check"
    /\ hpc' = IF stop \/ status = "DONE" THEN "exit" ELSE "poll"
    /\ UNCHANGED <<setupVars, ownerVars, page, registered, evt, err, fault,
                   got, status, progress, readerVars>>

\* wait_for_event looks at the eventfd first.
PollExit ==
    /\ hpc = "poll"
    /\ evt > 0
    /\ evt' = 0
    /\ hpc' = "exit"
    /\ UNCHANGED <<setupVars, ownerVars, page, registered, err, fault, got,
                   status, progress, readerVars>>

\* One fault message is read; its thread sleeps on.
PollFault ==
    /\ hpc = "poll"
    /\ evt = 0
    /\ \E r \in Pending :
          /\ fault' = rpg[r]
          /\ rpc' = [rpc EXCEPT ![r] = "asleep"]
    /\ hpc' = "decomp"
    /\ UNCHANGED <<setupVars, ownerVars, page, registered, evt, err, got,
                   status, progress, rpg, rval>>

\* poll() is interrupted by a signal while nothing is ready.
PollInterrupted ==
    /\ hpc = "poll"
    /\ evt = 0 /\ Pending = {}
    /\ hpc' = "check"
    /\ UNCHANGED <<setupVars, ownerVars, page, registered, evt, err, fault,
                   got, status, progress, readerVars>>

\* poll() or a read() fails.
PollError ==
    /\ hpc = "poll"
    /\ err' = TRUE
    /\ hpc' = "exit"
    /\ UNCHANGED <<setupVars, ownerVars, page, registered, evt, fault, got,
                   status, progress, readerVars>>

\* Mutant of WakeFilled: what is in the work buffer is copied again.
CopyFilledAgain ==
    /\ hpc = "decomp"
    /\ ~stop
    /\ fault < progress
    /\ hpc' = "copy"
    /\ UNCHANGED <<setupVars, ownerVars, page, registered, evt, err, fault,
                   got, status, progress, readerVars>>

\* Mutant of WakeFilled: nothing to do, so nobody is woken.
SkipFilled ==
    /\ hpc = "decomp"
    /\ ~stop
    /\ fault < progress
    /\ hpc' = "check"
    /\ UNCHANGED <<setupVars, ownerVars, page, registered, evt, err, fault,
                   got, status, progress, readerVars>>

\* handle_pagefault found the page already produced: UFFDIO_WAKE.
WakeFilled ==
    /\ hpc = "decomp"
    /\ ~stop
    /\ fault < progress
    /\ status' = "IN_PROGRESS"
    /\ rpc' = WokenBy({fault})
    /\ hpc' = "check"
    /\ UNCHANGED <<setupVars, ownerVars, page, registered, evt, err, fault,
                   got, progress, rpg, rval>>

\* Mutant of DecompChunk: the handler gives up without recording the error.
DecompChunkSilent ==
    /\ hpc = "decomp"
    /\ ~stop
    /\ fault >= progress
    /\ \E res \in Decomp(ChunkPages) :
          IF res = "ERR"
          THEN /\ status' = "IN_PROGRESS"
               /\ hpc' = "exit"
               /\ UNCHANGED <<got, progress>>
          ELSE /\ status' = StatusAfter(res)
               /\ got' = progress
               /\ progress' = progress + ChunkPages
               /\ hpc' = "copy"
    /\ UNCHANGED <<setupVars, ownerVars, page, registered, evt, err, fault,
                   readerVars>>

\* One call of the decompressor from handle_pagefault's loop.
DecompChunk ==
    /\ hpc = "decomp"
    /\ ~stop
    /\ fault >= progress
    /\ \E res \in Decomp(ChunkPages) :
          IF res = "ERR"
          THEN /\ status' = "IN_PROGRESS"
               /\ err' = TRUE
               /\ hpc' = "exit"
               /\ UNCHANGED <<got, progress>>
          ELSE /\ status' = StatusAfter(res)
               /\ got' = progress
               /\ progress' = progress + ChunkPages
               /\ hpc' = "copy"
               /\ UNCHANGED err
    /\ UNCHANGED <<setupVars, ownerVars, page, registered, evt, fault,
                   readerVars>>

\* handle_pagefault's loop sees the stop flag.
StopFault ==
    /\ hpc = "decomp"
    /\ stop
    /\ hpc' = "check"
    /\ UNCHANGED <<setupVars, ownerVars, page, registered, evt, err, fault,
                   got, status, progress, readerVars>>

\* Pages of the chunk in the work buffer, cut off at the end of the mapping.
Chunk == {p \in Pages : got <= p /\ p < got + ChunkPages}

\* Does the chunk hold the faulting page?
HasFault == fault \in Chunk

\* UFFDIO_COPY refuses (EEXIST) a range with a page that is present; it wakes
\* the range's waiters unless MODE_DONTWAKE is set.
CopyChunk ==
    /\ hpc = "copy"
    /\ IF \E p \in Chunk : page[p] # "missing"
       THEN /\ err' = TRUE
            /\ hpc' = "exit"
            /\ UNCHANGED <<page, rpc>>
       ELSE /\ page' = [p \in Pages |->
                          IF p \in Chunk THEN Produced(p, got, ChunkPages)
                          ELSE page[p]]
            /\ rpc' = IF HasFault THEN WokenBy(Chunk) ELSE rpc
            /\ hpc' = IF HasFault THEN "check" ELSE "decomp"
            /\ UNCHANGED err
    /\ UNCHANGED <<setupVars, ownerVars, registered, evt, fault, got, status,
                   progress, rpg, rval>>

\* UFFDIO_UNREGISTER wakes every waiter.
HandlerExit ==
    /\ hpc = "exit"
    /\ registered' = FALSE
    /\ rpc' = WokenBy(Pages)
    /\ hpc' = "finished"
    /\ UNCHANGED <<setupVars, ownerVars, page, evt, err, fault, got, status,
                   progress, rpg, rval>>

Handler ==
    \/ HandlerCheck \/ PollExit \/ PollFault \/ WakeFilled \/ DecompChunk
    \/ StopFault \/ CopyChunk \/ HandlerExit

-----------------------------------------------------------------------------
(* Readers, and the kernel's handling of their accesses (external) *)

\* A reader starts to read page p through the pointer it was given.
Touch(r, p) ==
    /\ opc = "open"
    /\ rpc[r] = "idle"
    /\ rpc' = [rpc EXCEPT ![r] = "try"]
    /\ rpg' = [rpg EXCEPT ![r] = p]
    /\ UNCHANGED <<setupVars, ownerVars, page, registered, evt, err,
                   handlerVars, rval>>

\* The access itself: a missing page of a registered range queues a fault,
\* of an unregistered one it is filled with zeros; an unmapped range traps.
Access(r) ==
    /\ rpc[r] = "try"
    /\ LET p == rpg[r]
           block == opc # "closed" /\ page[p] = "missing" /\ registered
       IN /\ rpc' = [rpc EXCEPT ![r] = IF block THEN "pending" ELSE "idle"]
          /\ rval' = [rval EXCEPT ![r] =
                        IF opc = "closed" THEN "trap"
                        ELSE IF page[p] # "missing" THEN page[p]
                        ELSE IF registered THEN @ ELSE "zeros"]
          /\ page' = [page EXCEPT ![p] =
                        IF opc # "closed" /\ @ = "missing" /\ ~registered
                        THEN "zeros" ELSE @]
    /\ UNCHANGED <<setupVars, ownerVars, registered, evt, err, handlerVars,
                   rpg>>

-----------------------------------------------------------------------------
Init ==
    /\ src \in Sources
    /\ conf \in Configs
    /\ opc = "closed" /\ mode = "none" /\ stray = FALSE
    /\ page = [p \in Pages |-> "missing"]
    /\ registered = FALSE
    /\ status = "INITIALIZED" /\ progress = 0
    /\ stop = FALSE /\ evt = 0 /\ err = FALSE
    /\ hpc = "off" /\ fault = 0 /\ got = 0
    /\ rpc = [r \in Readers |-> "idle"]
    /\ rpg = [r \in Readers |-> 0]
    /\ rval = [r \in Readers |-> "none"]

Owner ==
    \/ OpenFails \/ OpenEager \/ OpenLazy \/ OpenLazyFails
    \/ CloseEager \/ CloseStop \/ CloseSignal \/ CloseJoin

Next ==
    \/ Owner
    \/ Handler \/ PollInterrupted \/ PollError
    \/ \E r \in Readers : Access(r) \/ \E p \in Pages : Touch(r, p)

Spec == Init /\ [][Next]_vars

\* The scheduler runs the handler, a reader that is not blocked, and an owner
\* that has begun to close; nobody has to open, read or close.
Fairness ==
    /\ WF_vars(Handler)
    /\ WF_vars(CloseSignal) /\ WF_vars(CloseJoin)
    /\ \A r \in Readers : WF_vars(Access(r))

FairSpec == Spec /\ Fairness

-----------------------------------------------------------------------------
(* Properties *)

\* Every variable has its type.
TypeOK ==
    /\ src \in Sources /\ conf \in Configs
    /\ opc \in {"closed", "open", "stopping", "signalled"}
    /\ mode \in {"none", "eager", "lazy"}
    /\ stray \in BOOLEAN
    /\ page \in [Pages -> {"missing", "data", "zeros"}]
    /\ registered \in BOOLEAN
    /\ status \in {"INITIALIZED", "IN_PROGRESS", "DONE"}
    /\ progress \in Nat
    /\ stop \in BOOLEAN /\ evt \in {0, 1} /\ err \in BOOLEAN
    /\ hpc \in {"off", "check", "poll", "decomp", "copy", "exit", "finished"}
    /\ fault \in Pages /\ got \in Nat
    /\ rpc \in [Readers -> {"idle", "try", "pending", "asleep"}]
    /\ rpg \in [Readers -> Pages]
    /\ rval \in [Readers -> {"none", "data", "zeros", "trap"}]

\* handle_pagefault never copies over a page that is already there, whatever
\* the faults of the readers queue up to (UFFDIO_COPY would fail with EEXIST
\* and stop the handler).
NoCopyOverFilled == hpc = "copy" => \A p \in Chunk : page[p] = "missing"

\* A stream that is too short without its codec being able to tell: corrupt
\* data is always reported.
ShortUnnoticed == src.codec # "lz4" /\ src.pages < NPages /\ src.tail # "bad"

\* Reasons for which a reader may be given zeros.
Excused == err \/ stop \/ ShortUnnoticed

\* A reader gets something other than the decompressed data only if an error
\* was recorded on the file before the read returned, the block was being
\* closed, or the stream ends or is cut off before the size in the header and
\* its codec cannot tell (lz4 can).
ReadsAreData == \A r \in Readers : rval[r] = "zeros" => Excused

-----------------------------------------------------------------------------
(* The inductive invariant behind the two *)

\* What exists in which phase of the owner.
Lifecycle ==
    /\ opc = "closed" =>
          /\ mode = "none" /\ hpc = "off" /\ ~registered
          /\ progress = 0 /\ status = "INITIALIZED" /\ evt = 0
          /\ \A p \in Pages : page[p] = "missing"
    /\ opc # "closed" => mode # "none"
    /\ mode = "eager" => opc = "open" /\ hpc = "off" /\ ~registered
    /\ opc \in {"stopping", "signalled"} => stop
    /\ evt > 0 => opc = "signalled"
    /\ hpc \notin {"off", "finished"} => registered
    /\ hpc # "off" => mode = "lazy"
    /\ registered => mode = "lazy" /\ hpc # "finished"

\* While the range is registered the filled pages are those before the
\* compressor's progress, less the chunk still in the work buffer.
FilledPrefix ==
    registered =>
        LET end == IF hpc = "copy" THEN got ELSE progress
        IN  /\ \A p \in Pages : hpc # "exit" => (page[p] # "missing" <=> p < end)
            /\ hpc = "copy" => progress = got + ChunkPages

\* The end of the stream is reached only with the whole mapping produced.
DoneIsComplete == status = "DONE" => progress >= NPages \/ ShortUnnoticed

\* Zeros in the mapping, and missing pages that will read as zeros, are
\* excused.
Contents ==
    /\ \A p \in Pages : page[p] = "zeros" => Excused
    /\ (mode = "lazy" /\ hpc \in {"exit", "finished"}) =>
          Excused \/ \A p \in Pages : page[p] # "missing"
    /\ (mode = "lazy" /\ ~registered) => hpc = "finished"
    /\ mode = "eager" => \A p \in Pages : page[p] # "missing"
    /\ hpc = "copy" /\ ~ShortUnnoticed => \A p \in Chunk : p < src.pages

\* The conjunction of the above is preserved by every step.
Inv == TypeOK /\ Lifecycle /\ FilledPrefix /\ DoneIsComplete /\ Contents /\ ReadsAreData

-----------------------------------------------------------------------------
(* Liveness *)

\* The handler thread never leaves a reader behind: every reader that blocks
\* on a page of the mapping gets to finish its access.
FaultsResolved == \A r \in Readers : Waiting(r) ~> (rpc[r] = "idle")

\* asdf_block_comp_close always returns: the handler cannot miss both the
\* stop flag and the eventfd, wherever it is when they are set.
CloseReturns == (opc = "stopping") ~> (opc = "closed")
=============================================================================
