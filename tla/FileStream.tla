----------------------------- MODULE FileStream -----------------------------
(***************************************************************************)
(* The file-backed read stream: file_next, file_consume, file_readline,    *)
(* file_scan, file_seek and file_tell of src/src/stream.c, the capture of  *)
(* consumed bytes (stream_capture) and asdf_stream_seek for streams that   *)
(* cannot seek.                                                            *)
(*                                                                         *)
(* Bytes are abstracted to where they come from: a slot of the buffer      *)
(* holds the file offset of its byte, or Junk if no byte of the file was   *)
(* ever read into it.  What the file contains is given by the offsets of   *)
(* its newlines and those at which each token starts.  Errors on the       *)
(* context (out of memory, a failed fread) are not modelled.               *)
(***************************************************************************)
EXTENDS Integers, FiniteSets

CONSTANTS
    FileSize,     \* bytes in the file
    BufSize,      \* initial size of the buffer (BUFSIZ)
    MaxCount,     \* bound: most bytes a client asks for or skips at once
    TokenLen,     \* token -> its length
    Files,        \* [nl : offsets of newlines, tok : token -> offsets]
    RefillEmpty   \* may a client ask for 0 bytes with the buffer used up?

Tokens  == DOMAIN TokenLen
Offsets == 0 .. FileSize - 1
Junk    == -1
Larger(a, b) == IF a < b THEN b ELSE a
Slots   == 0 .. 2 * Larger(BufSize, MaxCount) - 1

ASSUME SizeAssumption ==
    /\ FileSize \in Nat /\ BufSize \in Nat \ {0} /\ MaxCount \in Nat
    /\ RefillEmpty \in BOOLEAN

ASSUME FileAssumption ==
    /\ TokenLen \in [Tokens -> Nat \ {0}]
    /\ \A t \in Tokens : TokenLen[t] <= BufSize
    /\ Files \subseteq [nl : SUBSET Offsets, tok : [Tokens -> SUBSET Offsets]]

VARIABLES
    file, seekable,       \* the file's contents; whether it can seek: fixed
    fp,                   \* offset of the FILE
    buf, size,            \* the buffer and buf_size
    avail, pos,           \* buf_avail, buf_pos
    file_pos,             \* file_pos: what file_tell returns
    capture,              \* capture buffer: [on, next, exact]; see CapturedFrom
    pc,                   \* "idle", "scan" or "skip": inside which loop
    toks, from,           \* scan: its tokens, and where it started
    want,                 \* skip: bytes still to consume
    lost,                 \* history: file_pos was left behind, see TellExact
    ret                   \* the last call: [op, ok, arg, toks]

bufVars == <<fp, buf, size, avail, pos, file_pos>>
vars == <<file, seekable, fp, buf, size, avail, pos, file_pos, capture, pc,
          toks, from, want, lost, ret>>

\* The offset of the next byte that has not been consumed.
Cur == fp - (avail - pos)

Lesser(a, b) == IF a < b THEN a ELSE b

-----------------------------------------------------------------------------
(* Helpers *)

\* fread() of at most n bytes: how many there are (external).
CanRead(n) == IF fp < FileSize THEN Lesser(n, FileSize - fp) ELSE 0

\* The buffer after memmove of `keep` bytes from slot `start` to the front
\* and an fread of n bytes behind slot `at`.
Refilled(start, keep, at, n) ==
    [i \in Slots |-> IF at <= i /\ i < at + n THEN fp + (i - at)
                     ELSE IF i < keep THEN buf[start + i]
                     ELSE buf[i]]

\* The capture buffer once it holds other bytes than it should.
Inexact == [on |-> TRUE, next |-> 0, exact |-> FALSE]

\* stream_capture of n slots of buffer b from slot `start`: `next` is the
\* offset of the byte to be captured next, `exact` whether each one was.
CapturedFrom(b, start, n) ==
    IF ~capture.on \/ ~capture.exact \/ n = 0 THEN capture
    ELSE IF \A i \in 0 .. n - 1 : b[start + i] = capture.next + i
         THEN [capture EXCEPT !.next = @ + n]
         ELSE Inexact

\* A client that keeps to what the parser does asks for 0 bytes (peek(0),
\* readline) only of a buffer with bytes left, or of one it just reset.
MayAskForNothing == RefillEmpty \/ pos < avail \/ pos = 0

Result(op, ok, arg) == [op |-> op, ok |-> ok, arg |-> arg, toks |-> {}]

\* Mutant of Nexted: the bytes that are left are not shifted to the front.
NextedUnshifted(count) ==
    LET remain == avail - pos
        n == CanRead(Larger(count, size) - remain)
    IN  IF remain >= count /\ pos < avail
        THEN [buf |-> buf, size |-> size, avail |-> avail, pos |-> pos, fp |-> fp]
        ELSE [buf |-> Refilled(pos, 0, remain, n), size |-> Larger(count, size),
              avail |-> remain + n, pos |-> 0, fp |-> fp + n]

\* The buffer after file_next(count), as [buf, size, avail, pos, fp].
Nexted(count) ==
    LET remain == avail - pos
        size1  == Larger(count, size)
        short  == remain < count
        start  == IF short THEN 0 ELSE pos        \* buf_pos after the shift
        kept   == IF short THEN remain ELSE avail \* buf_avail after the shift
        refill == short \/ start >= kept
        n      == IF refill THEN CanRead(size1 - remain) ELSE 0
    IN  [buf   |-> IF refill THEN Refilled(pos, IF short THEN remain ELSE 0, remain, n)
                   ELSE buf,
         size  |-> size1,
         avail |-> kept + n,
         pos   |-> start,
         fp    |-> fp + n]

-----------------------------------------------------------------------------
(* Calls that return at once *)

\* file_next, file_peek.
Next_(count) ==
    /\ pc = "idle"
    /\ count = 0 => MayAskForNothing
    /\ LET b == Nexted(count)
       IN /\ buf' = b.buf /\ size' = b.size /\ avail' = b.avail
          /\ pos' = b.pos /\ fp' = b.fp
          /\ ret' = Result("next", b.avail > b.pos, 0)
    /\ UNCHANGED <<file, seekable, lost, file_pos, capture, pc, toks, from, want>>

\* file_consume of bytes that were handed out.
Consume(count) ==
    /\ pc = "idle"
    /\ count <= avail - pos
    /\ capture' = CapturedFrom(buf, pos, count)
    /\ pos' = pos + count
    /\ file_pos' = file_pos + count
    /\ ret' = Result("consume", TRUE, 0)
    /\ UNCHANGED <<file, seekable, lost, fp, buf, size, avail, pc, toks, from, want>>

\* Offset behind the first newline at or after o that fgetc finds, or EOF.
LineEnd(o) ==
    LET after == {n \in file.nl : n >= o}
    IN  IF after = {} THEN Larger(o, FileSize)
        ELSE 1 + CHOOSE n \in after : \A m \in after : n <= m

\* file_readline: the line in the buffer, or what there is of it; the rest of
\* a longer line is skipped in the FILE.
Readline ==
    /\ pc = "idle"
    /\ MayAskForNothing
    /\ LET b == Nexted(0)
           nls == {i \in b.pos .. b.avail - 1 : b.buf[i] \in file.nl}
           stop == IF nls = {} THEN b.avail
                   ELSE 1 + CHOOSE i \in nls : \A j \in nls : i <= j
       IN /\ buf' = b.buf /\ size' = b.size /\ avail' = b.avail
          /\ pos' = stop
          /\ file_pos' = file_pos + (stop - b.pos)
          /\ fp' = IF b.pos < b.avail /\ nls = {} THEN LineEnd(b.fp) ELSE b.fp
          /\ capture' = CapturedFrom(b.buf, b.pos, stop - b.pos)
          /\ lost' = (lost \/ (b.pos < b.avail /\ nls = {} /\ LineEnd(b.fp) > b.fp))
          /\ ret' = Result("readline", b.pos < b.avail, b.fp - (b.avail - b.pos))
    /\ UNCHANGED <<file, seekable, pc, toks, from, want>>

\* asdf_stream_set_capture with an empty buffer, and with NULL.
SetCapture ==
    /\ pc = "idle"
    /\ capture' = IF capture.on THEN [on |-> FALSE, next |-> 0, exact |-> TRUE]
                  ELSE [on |-> TRUE, next |-> Cur, exact |-> TRUE]
    /\ ret' = Result("capture", TRUE, 0)
    /\ UNCHANGED <<file, seekable, lost, bufVars, pc, toks, from, want>>

\* Bound: how far a client seeks, one byte past the end.
MaxTarget == FileSize + 1

\* file_seek of a seekable stream; fseeko refuses a negative offset.
Seek(offset, whence) ==
    /\ pc = "idle"
    /\ seekable
    /\ ~capture.on
    /\ LET target == offset + (IF whence = "SET" THEN 0
                                ELSE IF whence = "CUR" THEN file_pos
                                ELSE FileSize)
       IN /\ target <= MaxTarget
          /\ \/ /\ target < 0
                /\ ret' = Result("seek", FALSE, 0)
                /\ UNCHANGED <<bufVars, lost>>
             \/ /\ target >= 0
                /\ fp' = target /\ file_pos' = target
                /\ avail' = 0 /\ pos' = 0 /\ lost' = FALSE
                /\ ret' = Result("seek", TRUE, target)
                /\ UNCHANGED <<buf, size>>
    /\ UNCHANGED <<file, seekable, capture, pc, toks, from, want>>

-----------------------------------------------------------------------------
(* asdf_stream_seek of a stream that cannot seek: read and consume *)

\* Only a negative offset is refused, by an error or by the assertion.
SkipStart(offset, whence) ==
    /\ pc = "idle"
    /\ ~seekable
    /\ offset >= 0
    /\ pc' = "skip"
    /\ want' = offset
    /\ ret' = Result("skip", TRUE, 0)
    /\ UNCHANGED <<file, seekable, lost, bufVars, capture, toks, from>>

\* Mutant of SkipStep: the end of the file is not noticed.
SkipStepPastEnd ==
    /\ pc = "skip"
    /\ want > 0
    /\ LET b == Nexted(1)
           n == Lesser(b.avail - b.pos, want)
       IN /\ buf' = b.buf /\ size' = b.size /\ avail' = b.avail /\ fp' = b.fp
          /\ pos' = b.pos + n
          /\ file_pos' = file_pos + n
          /\ want' = want - n
          /\ capture' = CapturedFrom(b.buf, b.pos, n)
    /\ UNCHANGED <<file, seekable, lost, pc, toks, from, ret>>

\* One turn of its loop: next(1) and consume what is there.
SkipStep ==
    /\ pc = "skip"
    /\ want > 0
    /\ LET b == Nexted(1)
           n == Lesser(b.avail - b.pos, want)
       IN /\ buf' = b.buf /\ size' = b.size /\ avail' = b.avail /\ fp' = b.fp
          /\ pos' = b.pos + n
          /\ file_pos' = file_pos + n
          /\ want' = IF n = 0 THEN 0 ELSE want - n
          /\ capture' = CapturedFrom(b.buf, b.pos, n)
    /\ UNCHANGED <<file, seekable, lost, pc, toks, from, ret>>

SkipEnd ==
    /\ pc = "skip"
    /\ want = 0
    /\ pc' = "idle"
    /\ UNCHANGED <<file, seekable, lost, bufVars, capture, toks, from, want, ret>>

-----------------------------------------------------------------------------
(* file_scan *)

\* A length that bounds those of the tokens searched for.
IsMaxLen(m, T) == (\E t \in T : TokenLen[t] = m) /\ \A t \in T : TokenLen[t] <= m
MaxLen(T) == CHOOSE m \in {TokenLen[t] : t \in T} : IsMaxLen(m, T)

\* asdf_scan_tokens: slots at which a token lies in the window.
Matches(T) ==
    {i \in pos .. avail - 1 :
        \E t \in T : /\ TokenLen[t] <= avail - i
                     /\ buf[i] \in file.tok[t]
                     /\ \A j \in 0 .. TokenLen[t] - 1 : buf[i + j] = buf[i] + j}

Hit(T) == avail - pos >= MaxLen(T) /\ Matches(T) # {}

ScanStart(T) ==
    /\ pc = "idle"
    /\ pc' = "scan"
    /\ toks' = T
    /\ from' = Cur
    /\ ret' = Result("none", TRUE, 0)
    /\ UNCHANGED <<file, seekable, lost, bufVars, capture, want>>

ScanReturns(ok) ==
    /\ pc' = "idle" /\ toks' = {} /\ from' = 0
    /\ ret' = [op |-> "scan", ok |-> ok, arg |-> from, toks |-> toks]

\* Mutant of ScanMatch: the bytes before the token are not counted.
ScanMatchUncounted ==
    /\ pc = "scan"
    /\ Hit(toks)
    /\ \E i \in Matches(toks) :
          /\ \A j \in Matches(toks) : i <= j
          /\ capture' = CapturedFrom(buf, pos, i - pos)
          /\ pos' = i
    /\ ScanReturns(TRUE)
    /\ UNCHANGED <<file, seekable, lost, fp, buf, size, avail, file_pos, want>>

\* The window holds a token: consume up to the first.
ScanMatch ==
    /\ pc = "scan"
    /\ Hit(toks)
    /\ \E i \in Matches(toks) :
          /\ \A j \in Matches(toks) : i <= j
          /\ capture' = CapturedFrom(buf, pos, i - pos)
          /\ pos' = i
          /\ file_pos' = file_pos + (i - pos)
    /\ ScanReturns(TRUE)
    /\ UNCHANGED <<file, seekable, lost, fp, buf, size, avail, want>>

\* It does not: keep `preserve` bytes, read up to `room` more, and give up
\* when there is not even room for the longest token.
Slide(preserve, captured, room) ==
    /\ pc = "scan"
    /\ ~Hit(toks)
    /\ LET max == MaxLen(toks)
           n == CanRead(room)
       IN /\ capture' = CapturedFrom(buf, 0, captured)
          /\ buf' = Refilled(avail - preserve, preserve, preserve, n)
          /\ fp' = fp + n
          /\ file_pos' = file_pos + (avail - preserve)
          /\ avail' = preserve + n
          /\ lost' = (lost \/ pos > 0 \/ (preserve + n < max /\ preserve + n > 0))
          /\ \/ /\ preserve + n < max
                /\ pos' = preserve + n
                /\ ScanReturns(FALSE)
             \/ /\ preserve + n >= max
                /\ pos' = 0
                /\ UNCHANGED <<pc, ret, toks, from>>
    /\ UNCHANGED <<file, seekable, size, want>>

\* The bytes at which a token may still start: all but one of the longest.
Preserve == Lesser(avail - pos, MaxLen(toks) - 1)

\* Mutants of ScanSlide: one byte too few is kept; the slid bytes are not
\* captured.
ScanSlideShort ==
    LET keep == Lesser(Preserve, Larger(MaxLen(toks) - 2, 0))
    IN  Slide(keep, avail - keep, size - keep)
ScanSlideUncaptured == Slide(Preserve, 0, size - Preserve)

ScanSlide == Slide(Preserve, avail - Preserve, size - Preserve)

-----------------------------------------------------------------------------
Init ==
    /\ file \in Files /\ seekable \in BOOLEAN
    /\ fp = 0
    /\ buf = [i \in Slots |-> Junk] /\ size = BufSize
    /\ avail = 0 /\ pos = 0 /\ file_pos = 0
    /\ capture = [on |-> FALSE, next |-> 0, exact |-> TRUE]
    /\ pc = "idle" /\ toks = {} /\ from = 0 /\ want = 0
    /\ lost = FALSE /\ ret = Result("none", TRUE, 0)

Counts == 0 .. MaxCount

ScanStep == ScanMatch \/ ScanSlide

Next ==
    \/ \E n \in Counts : Next_(n) \/ Consume(n)
    \/ Readline \/ SetCapture
    \/ \E n \in -1 .. MaxCount, w \in {"SET", "CUR", "END"} :
          Seek(n, w) \/ SkipStart(n, w)
    \/ SkipStep \/ SkipEnd
    \/ \E T \in (SUBSET Tokens) \ {{}} : ScanStart(T)
    \/ ScanStep

Spec == Init /\ [][Next]_vars /\ WF_vars(ScanStep) /\ WF_vars(SkipStep \/ SkipEnd)

-----------------------------------------------------------------------------
(* Properties *)

\* Every variable has its type, and the bytes of the buffer are inside it.
TypeOK ==
    /\ file \in Files /\ seekable \in BOOLEAN
    /\ fp \in Nat /\ size \in Nat \ {0} /\ size <= Larger(BufSize, MaxCount)
    /\ buf \in [Slots -> Offsets \cup {Junk}]
    /\ avail \in 0 .. size /\ pos \in 0 .. avail
    /\ file_pos \in Nat
    /\ capture \in [on : BOOLEAN, next : Int, exact : BOOLEAN]
    /\ pc \in {"idle", "scan", "skip"}
    /\ lost \in BOOLEAN /\ toks \subseteq Tokens /\ from \in Int /\ want \in Nat
    /\ ret \in [op : {"none", "next", "consume", "readline", "capture", "seek",
                      "skip", "scan"}, ok : BOOLEAN, arg : Int,
               toks : SUBSET Tokens]

\* The bytes handed to the client are the bytes of the file that follow the
\* ones it has consumed, in order: shifting, refilling and sliding the buffer
\* neither lose nor repeat a byte.
Window == \A i \in Slots : (pos <= i /\ i < avail) => buf[i] = Cur + (i - pos)

\* Offsets from o on at which the file holds token t.
Occurrences(t, o) ==
    {x \in file.tok[t] : x >= o /\ x + TokenLen[t] <= FileSize}

\* "tokens could straddle buffered pages of the file, so we maintain a sliding
\* window": wherever the pages end, a scan that succeeds stands at a token, no
\* token that ends before that one does has been passed over, and a scan fails
\* only if there was none (or less left than the longest token needs).
ScanFindsFirst ==
    ret.op = "scan" =>
        IF ret.ok
        THEN \E u \in ret.toks :
                /\ Cur \in Occurrences(u, ret.arg)
                /\ \A t \in ret.toks : \A x \in Occurrences(t, ret.arg) :
                      x < Cur => x + TokenLen[t] > Cur + TokenLen[u]
        ELSE \/ \A t \in ret.toks : Occurrences(t, ret.arg) = {}
             \/ FileSize - ret.arg < MaxLen(ret.toks)

\* Every scan comes to an end, and so does skipping forward.
LoopsEnd == (pc # "idle") ~> (pc = "idle")

\* The position that file_tell reports, and from which a relative seek goes
\* on, is that of the next unconsumed byte, unless it was left behind: by a
\* line that ends beyond the buffer, by a scan that fails, or by one that
\* starts with consumed bytes in the buffer and needs to slide.
TellExact == ~lost => file_pos = Cur

\* The capture buffer holds exactly the bytes consumed since it was set,
\* however often the buffer was refilled or slid in between.
CaptureExact == capture.on /\ ~lost => capture.exact /\ capture.next = Cur

\* stream.c: file_readline "only returns lines up to the file buffer size".
LineInBuffer == ret.op = "readline" => avail <= size
=============================================================================
