-------------------------- MODULE FileStream_proofs --------------------------
(* Proofs for FileStream: the window onto the file, the reported position, the *)
(* capture buffer and the token scan, for every file, buffer size, token set   *)
(* and sequence of calls that keeps to what the parser asks for.               *)
EXTENDS FileStream, Minimum, TLAPS

\* What a scan under way relies on: a token is still ahead if there is one, and
\* either nothing was slid yet or the window is long enough to be searched.
ScanUnderWay ==
    /\ pc # "idle" => ret.op # "scan"
    /\ pc = "scan" =>
          /\ toks # {}
          /\ from <= Cur
          /\ \A t \in toks : \A x \in Occurrences(t, from) : x >= Cur
          /\ from = Cur \/ avail - pos >= MaxLen(toks)

\* What every call keeps, whether it moves the buffer, the position or neither.
Kept == Window /\ TellExact /\ CaptureExact

\* The inductive invariant: the buffer never shrinks below its first size.
Inv ==
    /\ TypeOK
    /\ size >= BufSize
    /\ Kept
    /\ ScanUnderWay /\ ScanFindsFirst

Limit == Larger(BufSize, MaxCount)

\* Slots start .. end - 1 of buffer b hold the bytes of the file from offset o.
Holds(b, start, end, o) ==
    \A i \in Slots : (start <= i /\ i < end) => b[i] = o + (i - start)

RetType == [op : {"none", "next", "consume", "readline", "capture", "seek",
                  "skip", "scan"}, ok : BOOLEAN, arg : Int, toks : SUBSET Tokens]
BufType     == [Slots -> Offsets \cup {Junk}]
CaptureType == [on : BOOLEAN, next : Int, exact : BOOLEAN]

-----------------------------------------------------------------------------
(* The operators *)

\* The longest of the tokens a scan is given has a length, and that length is
\* between one byte and the buffer's first size.
LEMMA MaxLenBounds ==
    ASSUME NEW T \in SUBSET Tokens, T # {}
    PROVE  /\ MaxLen(T) \in 1 .. BufSize
           /\ \A t \in T : TokenLen[t] <= MaxLen(T)
  <1> DEFINE L == {TokenLen[t] : t \in T}
             D == {BufSize - m : m \in L}
  <1>1. \A m \in L : m \in Nat \ {0} /\ m <= BufSize
    BY SizeAssumption, FileAssumption
  <1>2. D \subseteq Nat /\ D # {}
    BY <1>1, SizeAssumption
  <1>3. PICK d \in D : \A e \in D : d <= e
    BY <1>2, MinExists
  <1>4. PICK m \in L : d = BufSize - m
    BY <1>3
  <1>5. \A l \in L : l <= m
    <2> SUFFICES ASSUME NEW l \in L PROVE l <= m
      OBVIOUS
    <2>1. BufSize - l \in D
      OBVIOUS
    <2>2. d <= BufSize - l
      BY <2>1, <1>3
    <2>3. l \in Nat /\ m \in Nat /\ BufSize \in Nat
      BY <1>1, SizeAssumption
    <2> HIDE DEF L, D
    <2> QED
      BY <2>2, <2>3, <1>4
  <1>6. IsMaxLen(m, T)
    BY <1>5 DEF IsMaxLen
  <1>7. MaxLen(T) \in L /\ IsMaxLen(MaxLen(T), T)
    BY <1>6 DEF MaxLen
  <1> QED
    BY <1>1, <1>7, SizeAssumption DEF IsMaxLen

\* The fields of the buffer are natural numbers within its bounds.
LEMMA BufferNumbers ==
    ASSUME TypeOK
    PROVE  /\ fp \in Nat /\ avail \in Nat /\ pos \in Nat /\ size \in Nat
           /\ pos <= avail /\ avail <= size /\ size <= Limit /\ size > 0
           /\ Cur \in Int
           /\ Limit \in Nat /\ BufSize <= Limit /\ MaxCount <= Limit
           /\ Slots = 0 .. 2 * Limit - 1
  <1>1. /\ fp \in Nat /\ avail \in Nat /\ pos \in Nat /\ size \in Nat
        /\ pos <= avail /\ avail <= size /\ size <= Limit /\ size > 0
    BY DEF TypeOK, Limit
  <1> QED
    BY <1>1, SizeAssumption DEF Cur, Limit, Larger, Slots

\* fread gives no more than it is asked for, never goes past the end of the
\* file, and comes short only at the end.
LEMMA CanReadBounds ==
    ASSUME fp \in Nat, NEW n \in Nat
    PROVE  /\ CanRead(n) \in 0 .. n
           /\ CanRead(n) > 0 => fp + CanRead(n) <= FileSize
           /\ CanRead(n) < n => fp + CanRead(n) >= FileSize
  BY SizeAssumption DEF CanRead, Lesser

\* The memmove and fread of file_next and file_scan: the kept bytes are at the
\* front and the bytes read follow them, each from its place in the file.
LEMMA RefilledSlots ==
    ASSUME TypeOK, NEW start \in Nat, NEW keep \in Nat, NEW at \in Nat, NEW n \in Nat,
           start + keep <= Limit, n > 0 => fp + n <= FileSize
    PROVE  /\ Refilled(start, keep, at, n) \in BufType
           /\ \A i \in Slots : at <= i /\ i < at + n
                 => Refilled(start, keep, at, n)[i] = fp + (i - at)
           /\ \A i \in Slots : i < keep /\ i < at
                 => Refilled(start, keep, at, n)[i] = buf[start + i]
  <1> DEFINE R == Refilled(start, keep, at, n)
  <1>1. Limit \in Nat /\ Limit > 0 /\ Slots = 0 .. 2 * Limit - 1
    BY SizeAssumption DEF Limit, Larger, Slots
  <1>2. \A i \in Slots : i < keep => start + i \in Slots
    BY <1>1
  <1>3. \A i \in Slots : (at <= i /\ i < at + n) => fp + (i - at) \in Offsets
    BY <1>1, SizeAssumption DEF TypeOK, Offsets
  <1>4. \A i \in Slots : R[i] = IF at <= i /\ i < at + n THEN fp + (i - at)
                     ELSE IF i < keep THEN buf[start + i]
                     ELSE buf[i]
    BY DEF Refilled
  <1>5. R \in BufType
    <2>1. \A i \in Slots : R[i] \in Offsets \cup {Junk}
      BY <1>2, <1>3, <1>4 DEF TypeOK
    <2> QED
      BY <2>1 DEF Refilled, BufType
  <1>6. \A i \in Slots : i < keep /\ i < at => R[i] = buf[start + i]
    BY <1>1, <1>4
  <1>7. \A i \in Slots : at <= i /\ i < at + n => R[i] = fp + (i - at)
    BY <1>4
  <1> QED
    BY <1>5, <1>6, <1>7

\* What file_next leaves of a buffer whose window is right: the same next byte,
\* and a window at least as long that is right too.
LEMMA NextedWindow ==
    ASSUME TypeOK, Window, NEW count \in Nat, count <= Limit, ~RefillEmpty,
           count = 0 => MayAskForNothing
    PROVE  LET b == Nexted(count)
           IN  /\ b.buf \in BufType
               /\ b.size \in Nat \ {0} /\ b.size >= size /\ b.size <= Limit
               /\ b.avail \in 0 .. b.size /\ b.pos \in 0 .. b.avail
               /\ b.fp \in Nat
               /\ b.fp - (b.avail - b.pos) = Cur
               /\ Holds(b.buf, b.pos, b.avail, Cur)
  <1> DEFINE remain == avail - pos
             size1 == Larger(count, size)
             got == CanRead(size1 - remain)
             b == Nexted(count)
  <1>1. /\ Limit \in Nat /\ Slots = 0 .. 2 * Limit - 1
        /\ size <= Limit /\ size \in Nat /\ size > 0
        /\ avail \in Nat /\ pos \in Nat /\ avail <= size /\ pos <= avail
        /\ fp \in Nat
    BY BufferNumbers
  <1>2. /\ size1 \in Nat /\ size1 >= size /\ size1 >= count /\ size1 <= Limit /\ size1 > 0
        /\ remain \in Nat /\ remain <= avail /\ size1 - remain \in Nat
    BY <1>1 DEF Larger
  <1>3. /\ got \in 0 .. size1 - remain
        /\ got > 0 => fp + got <= FileSize
    <2> HIDE DEF size1, remain
    <2> QED BY <1>1, <1>2, CanReadBounds
  <1>4. buf \in BufType
    BY DEF TypeOK, BufType
  <1>5. CASE remain >= count /\ pos < avail
    <2>1. b = [buf |-> buf, size |-> size1, avail |-> avail + 0, pos |-> pos, fp |-> fp + 0]
      <3>1. ~(remain < count) /\ ~(pos >= avail)
        BY <1>5, <1>1, <1>2
      <3> QED
        BY <3>1 DEF Nexted
    <2> QED
      BY <2>1, <1>1, <1>2, <1>4 DEF Window, Holds, Cur
  <1>6. CASE remain < count \/ (pos = 0 /\ avail = 0)
    <2> DEFINE R == Refilled(pos, remain, remain, got)
               Z == Refilled(pos, 0, remain, got)
    <2>1. /\ b = [buf |-> IF remain < count THEN R ELSE Z, size |-> size1,
                  avail |-> remain + got, pos |-> 0, fp |-> fp + got]
          /\ ~(remain < count) => remain = 0
      <3>1. CASE remain < count
        BY <3>1 DEF Nexted
      <3>2. CASE ~(remain < count) /\ pos = 0 /\ avail = 0
        <4>1. pos >= avail /\ avail = remain /\ remain = 0
          BY <3>2, <1>1
        <4> QED
          BY <3>2, <4>1 DEF Nexted
      <3> QED
        BY <1>6, <3>1, <3>2
    <2>2. /\ R \in BufType
          /\ \A i \in Slots : remain <= i /\ i < remain + got => R[i] = fp + (i - remain)
          /\ \A i \in Slots : i < remain => R[i] = buf[pos + i]
      <3>1. /\ pos \in Nat /\ remain \in Nat /\ got \in Nat /\ pos + remain <= Limit
            /\ got > 0 => fp + got <= FileSize
        BY <1>1, <1>2, <1>3
      <3> HIDE DEF remain, got
      <3>2. R \in BufType
        BY <3>1, RefilledSlots
      <3>3. \A i \in Slots : remain <= i /\ i < remain + got => R[i] = fp + (i - remain)
        BY <3>1, RefilledSlots
      <3>4. \A i \in Slots : i < remain => R[i] = buf[pos + i]
        BY <3>1, RefilledSlots
      <3> QED BY <3>2, <3>3, <3>4
    <2>3. /\ Z \in BufType
          /\ \A i \in Slots : remain <= i /\ i < remain + got => Z[i] = fp + (i - remain)
      <3>1. /\ pos \in Nat /\ remain \in Nat /\ got \in Nat /\ 0 \in Nat /\ pos + 0 <= Limit
            /\ got > 0 => fp + got <= FileSize
        BY <1>1, <1>2, <1>3
      <3> HIDE DEF remain, got
      <3>2. Z \in BufType
        BY <3>1, RefilledSlots
      <3>3. \A i \in Slots : remain <= i /\ i < remain + got => Z[i] = fp + (i - remain)
        BY <3>1, RefilledSlots
      <3> QED BY <3>2, <3>3
    <2>4. ASSUME NEW i \in Slots, 0 <= i, i < remain + got PROVE b.buf[i] = Cur + (i - 0)
      <3>1. CASE remain <= i
        BY <3>1, <2>4, <2>1, <2>2, <2>3, <1>1, <1>2, <1>3 DEF Cur
      <3>2. CASE i < remain
        <4>1. remain < count
          BY <3>2, <2>1, <1>1
        <4>2. b.buf[i] = buf[pos + i]
          BY <3>2, <4>1, <2>1, <2>2
        <4>3. pos + i \in Slots /\ pos <= pos + i /\ pos + i < avail
          BY <3>2, <1>1, <1>2
        <4>4. buf[pos + i] = Cur + ((pos + i) - pos)
          BY <4>3 DEF Window
        <4> QED
          BY <4>2, <4>4, <1>1 DEF Cur
      <3> QED
        BY <3>1, <3>2, <1>1, <1>2
    <2>5. b.buf \in BufType
      BY <2>1, <2>2, <2>3
    <2>6. /\ b.avail = remain + got /\ b.pos = 0 /\ b.fp = fp + got /\ b.size = size1
      BY <2>1
    <2>7. /\ b.avail \in 0 .. b.size /\ b.pos \in 0 .. b.avail /\ b.fp \in Nat
          /\ b.fp - (b.avail - b.pos) = Cur
      <3>1. b.avail \in 0 .. b.size /\ b.pos \in 0 .. b.avail /\ b.fp \in Nat
        BY <2>6, <1>1, <1>2, <1>3
      <3>2. b.fp - (b.avail - b.pos) = Cur
        BY <2>6, <1>1, <1>2, <1>3 DEF Cur
      <3> QED
        BY <3>1, <3>2
    <2> HIDE DEF b, remain, size1, got, R, Z
    <2>8. Holds(b.buf, b.pos, b.avail, Cur)
      BY <2>4, <2>6 DEF Holds
    <2> QED
      BY <2>5, <2>6, <2>7, <2>8, <1>2 DEF b
  <1>7. (remain >= count /\ pos < avail) \/ remain < count \/ (pos = 0 /\ avail = 0)
    BY <1>1 DEF MayAskForNothing
  <1> QED
    BY <1>5, <1>6, <1>7

\* stream_capture appends exactly the bytes it is given: if those are the next
\* ones of the file the captured text stays exact.
LEMMA CapturedBytes ==
    ASSUME capture \in CaptureType, NEW b, NEW start \in Nat, NEW k \in Nat
    PROVE  /\ CapturedFrom(b, start, k) \in CaptureType
           /\ CapturedFrom(b, start, k).on = capture.on
           /\ (/\ capture.on /\ capture.exact
               /\ \A i \in 0 .. k - 1 : b[start + i] = capture.next + i)
              => /\ CapturedFrom(b, start, k).exact
                 /\ CapturedFrom(b, start, k).next = capture.next + k
  <1> DEFINE Same == \A i \in 0 .. k - 1 : b[start + i] = capture.next + i
  <1> USE DEF CaptureType
  <1>1. CASE ~capture.on \/ ~capture.exact \/ k = 0
    <2>1. CapturedFrom(b, start, k) = capture
      BY <1>1 DEF CapturedFrom
    <2> QED
      BY <2>1, <1>1
  <1>2. CASE capture.on /\ capture.exact /\ k # 0 /\ Same
    <2>1. CapturedFrom(b, start, k) = [capture EXCEPT !.next = capture.next + k]
      BY <1>2 DEF CapturedFrom
    <2>2. capture.on /\ capture.exact /\ capture.next + k \in Int
      BY <1>2
    <2>3. CapturedFrom(b, start, k) = [on |-> TRUE, next |-> capture.next + k, exact |-> TRUE]
      BY <2>1, <2>2
    <2> HIDE DEF Same
    <2> QED
      BY <2>2, <2>3
  <1>3. CASE capture.on /\ capture.exact /\ k # 0 /\ ~Same
    <2>1. CapturedFrom(b, start, k) = Inexact
      BY <1>3 DEF CapturedFrom
    <2>2. ~Same
      BY <1>3
    <2> HIDE DEF Same
    <2>3. /\ CapturedFrom(b, start, k) \in CaptureType
          /\ CapturedFrom(b, start, k).on = capture.on
      BY <2>1, <1>3 DEF Inexact
    <2> QED
      BY <2>2, <2>3 DEF Same
  <1> QED
    BY <1>1, <1>2, <1>3

-----------------------------------------------------------------------------
(* The invariant *)

\* A call that leaves a right window and consumes k bytes of it from slot p on:
\* the window, the position file_tell reports and the captured text stay right.
LEMMA ConsumedKeeps ==
    ASSUME TypeOK, Kept,
           NEW p \in Nat, NEW k \in Nat, NEW a \in Nat, a <= Limit, p + k <= a,
           pos' = p + k, avail' = a, fp' \in Nat, fp' - (a - p) = Cur,
           Holds(buf', p, a, Cur),
           file_pos' = file_pos + k,
           capture' = CapturedFrom(buf', p, k),
           lost' = lost
    PROVE  Kept' /\ file_pos' \in Nat /\ capture' \in CaptureType
  <1>1. Cur' = Cur + k /\ Cur \in Int
    BY BufferNumbers DEF Cur
  <1>2. Limit \in Nat /\ Slots = 0 .. 2 * Limit - 1
    BY BufferNumbers
  <1>3. Window'
    <2> SUFFICES ASSUME NEW i \in Slots, p + k <= i, i < a
                 PROVE  buf'[i] = Cur' + (i - (p + k))
      BY DEF Window
    <2>1. p <= i /\ i \in Nat
      BY <1>2
    <2>2. buf'[i] = Cur + (i - p)
      BY <2>1 DEF Holds
    <2> QED
      BY <2>1, <2>2, <1>1
  <1>4. TellExact' /\ file_pos' \in Nat
    BY <1>1 DEF TellExact, Kept, TypeOK
  <1>5. capture \in CaptureType
    BY DEF TypeOK, CaptureType
  <1>6. /\ capture' \in CaptureType
        /\ capture'.on = capture.on
        /\ (/\ capture.on /\ capture.exact
            /\ \A i \in 0 .. k - 1 : buf'[p + i] = capture.next + i)
           => capture'.exact /\ capture'.next = capture.next + k
    BY <1>5, CapturedBytes
  <1>7. CaptureExact'
    <2> SUFFICES ASSUME capture.on, ~lost
                 PROVE  capture'.exact /\ capture'.next = Cur'
      BY <1>6 DEF CaptureExact
    <2>1. capture.exact /\ capture.next = Cur
      BY DEF CaptureExact, Kept
    <2>2. ASSUME NEW i \in 0 .. k - 1 PROVE buf'[p + i] = capture.next + i
      <3>1. p + i \in Slots /\ p <= p + i /\ p + i < a
        BY <1>2
      <3>2. buf'[p + i] = Cur + ((p + i) - p)
        BY <3>1 DEF Holds
      <3> QED
        BY <3>2, <2>1, <1>1
    <2> QED
      BY <2>1, <2>2, <1>6, <1>1
  <1> QED
    BY <1>3, <1>4, <1>6, <1>7 DEF Kept

\* A call that is not a scan leaves what is said of scans alone.
LEMMA NoScan ==
    ASSUME pc' # "scan", ret'.op # "scan"
    PROVE  ScanUnderWay' /\ ScanFindsFirst'
  BY DEF ScanUnderWay, ScanFindsFirst

\* file_next keeps the invariant: it consumes nothing.
LEMMA NextKeeps ==
    ASSUME Inv, ~RefillEmpty, NEW count \in Counts, Next_(count)
    PROVE  Inv'
  <1> DEFINE b == Nexted(count)
  <1>1. TypeOK /\ Kept /\ Window /\ size >= BufSize
    BY DEF Inv, Kept
  <1>2. /\ b.buf \in BufType
        /\ b.size \in Nat \ {0} /\ b.size >= size /\ b.size <= Limit
        /\ b.avail \in 0 .. b.size /\ b.pos \in 0 .. b.avail
        /\ b.fp \in Nat
        /\ b.fp - (b.avail - b.pos) = Cur
        /\ Holds(b.buf, b.pos, b.avail, Cur)
    <2>1. count \in Nat /\ count <= Limit
      BY <1>1, BufferNumbers, SizeAssumption DEF Counts
    <2> QED
      BY <1>1, <2>1, NextedWindow DEF Next_
  <1>3. /\ buf' = b.buf /\ size' = b.size /\ avail' = b.avail
        /\ pos' = b.pos /\ fp' = b.fp
        /\ ret' = Result("next", b.avail > b.pos, 0)
        /\ UNCHANGED <<file, seekable, lost, file_pos, capture, pc, toks, from, want>>
        /\ pc = "idle"
    BY DEF Next_
  <1> HIDE DEF b
  <1>4. BufSize \in Nat /\ size \in Nat /\ file_pos \in Nat
    BY <1>1, SizeAssumption DEF TypeOK
  <1>5. Kept'
    <2>1. CapturedFrom(buf', b.pos, 0) = capture
      BY DEF CapturedFrom
    <2>2. fp' - (b.avail - b.pos) = Cur /\ Holds(buf', b.pos, b.avail, Cur)
      BY <1>2, <1>3
    <2>3. Limit \in Nat
      BY <1>1, BufferNumbers
    <2>4. /\ b.pos \in Nat /\ b.avail \in Nat /\ b.avail <= Limit /\ b.pos + 0 <= b.avail
          /\ pos' = b.pos + 0 /\ file_pos' = file_pos + 0
      BY <1>2, <1>3, <1>4, <2>3
    <2> QED
      BY <1>1, <1>2, <1>3, <2>1, <2>2, <2>4, ConsumedKeeps
  <1>6. ret' \in RetType
    BY <1>3 DEF Result, RetType
  <1>7. TypeOK'
    BY <1>1, <1>2, <1>3, <1>6 DEF TypeOK, BufType, RetType, Limit
  <1>8. size' >= BufSize
    BY <1>1, <1>2, <1>3, <1>4
  <1>9. ScanUnderWay' /\ ScanFindsFirst'
    BY <1>3, NoScan DEF Result
  <1> QED
    BY <1>5, <1>7, <1>8, <1>9 DEF Inv

\* file_consume of bytes that file_next handed out keeps the invariant.
LEMMA ConsumeKeeps ==
    ASSUME Inv, NEW count \in Counts, Consume(count)
    PROVE  Inv'
  <1>1. TypeOK /\ Kept /\ Window /\ size >= BufSize
    BY DEF Inv, Kept
  <1>2. /\ pc = "idle" /\ count <= avail - pos
        /\ capture' = CapturedFrom(buf, pos, count)
        /\ pos' = pos + count
        /\ file_pos' = file_pos + count
        /\ ret' = Result("consume", TRUE, 0)
        /\ UNCHANGED <<file, seekable, lost, fp, buf, size, avail, pc, toks, from, want>>
    BY DEF Consume
  <1>3. count \in Nat
    BY SizeAssumption DEF Counts
  <1>4. Kept' /\ file_pos' \in Nat /\ capture' \in CaptureType
    <2>1. Holds(buf', pos, avail, Cur)
      BY <1>1, <1>2 DEF Window, Holds
    <2>2. /\ pos \in Nat /\ avail \in Nat /\ avail <= Limit /\ pos + count <= avail
          /\ fp' \in Nat /\ fp' - (avail - pos) = Cur
      BY <1>1, <1>2, <1>3, BufferNumbers DEF Cur
    <2> QED
      BY <1>1, <1>2, <1>3, <2>1, <2>2, ConsumedKeeps
  <1>5. ret' \in RetType
    BY <1>2 DEF Result, RetType
  <1>6. pos' \in 0 .. avail'
    BY <1>1, <1>2, <1>3, BufferNumbers
  <1>7. TypeOK'
    BY <1>1, <1>2, <1>4, <1>5, <1>6 DEF TypeOK, CaptureType, RetType
  <1>8. ScanUnderWay' /\ ScanFindsFirst'
    BY <1>2, NoScan DEF Result
  <1> QED
    BY <1>1, <1>2, <1>4, <1>7, <1>8 DEF Inv

\* One turn of the loop of asdf_stream_seek on a stream that cannot seek keeps
\* the invariant: it consumes of what file_next gives as much as it wants.
LEMMA SkipStepKeeps ==
    ASSUME Inv, ~RefillEmpty, SkipStep
    PROVE  Inv'
  <1> DEFINE b == Nexted(1)
             k == Lesser(b.avail - b.pos, want)
  <1>1. TypeOK /\ Kept /\ Window /\ size >= BufSize /\ ScanUnderWay
    BY DEF Inv, Kept
  <1>2. /\ b.buf \in BufType
        /\ b.size \in Nat \ {0} /\ b.size >= size /\ b.size <= Limit
        /\ b.avail \in 0 .. b.size /\ b.pos \in 0 .. b.avail
        /\ b.fp \in Nat
        /\ b.fp - (b.avail - b.pos) = Cur
        /\ Holds(b.buf, b.pos, b.avail, Cur)
    <2>1. 1 \in Nat /\ 1 <= Limit /\ 1 # 0
      BY <1>1, BufferNumbers
    <2> QED
      BY <1>1, <2>1, NextedWindow
  <1>3. /\ buf' = b.buf /\ size' = b.size /\ avail' = b.avail /\ fp' = b.fp
        /\ pos' = b.pos + k
        /\ file_pos' = file_pos + k
        /\ want' = IF k = 0 THEN 0 ELSE want - k
        /\ capture' = CapturedFrom(b.buf, b.pos, k)
        /\ UNCHANGED <<file, seekable, lost, pc, toks, from, ret>>
        /\ pc = "skip"
    BY DEF SkipStep
  <1>4. BufSize \in Nat /\ size \in Nat /\ file_pos \in Nat /\ want \in Nat /\ Limit \in Nat
    BY <1>1, SizeAssumption, BufferNumbers DEF TypeOK
  <1>5. k \in Nat /\ b.pos + k <= b.avail /\ want - k \in Nat
    <2> HIDE DEF b
    <2> QED BY <1>2, <1>4 DEF Lesser
  <1> HIDE DEF b, k
  <1>6. Kept' /\ file_pos' \in Nat /\ capture' \in CaptureType
    <2>1. fp' - (b.avail - b.pos) = Cur /\ Holds(buf', b.pos, b.avail, Cur)
      BY <1>2, <1>3
    <2>2. b.pos \in Nat /\ b.avail \in Nat /\ b.avail <= Limit
      BY <1>2, <1>4
    <2> QED
      BY <1>1, <1>2, <1>3, <1>5, <2>1, <2>2, ConsumedKeeps
  <1>7. avail' \in 0 .. size' /\ pos' \in 0 .. avail' /\ want' \in Nat /\ size' >= BufSize
    BY <1>1, <1>2, <1>3, <1>4, <1>5
  <1>8. TypeOK'
    BY <1>1, <1>2, <1>3, <1>6, <1>7 DEF TypeOK, BufType, CaptureType, Limit
  <1>9. ScanUnderWay' /\ ScanFindsFirst'
    BY <1>1, <1>3, NoScan DEF ScanUnderWay
  <1> QED
    BY <1>6, <1>7, <1>8, <1>9 DEF Inv

\* The newline that ends the rest of a long line is not before the FILE's
\* position.
LEMMA LineEndBounds ==
    ASSUME file \in Files, NEW o \in Nat
    PROVE  LineEnd(o) \in Nat /\ LineEnd(o) >= o
  <1> DEFINE after == {n \in file.nl : n >= o}
  <1>1. after \subseteq Nat
    BY FileAssumption DEF Offsets
  <1>2. CASE after = {}
    BY <1>2, SizeAssumption DEF LineEnd, Larger
  <1>3. CASE after # {}
    <2>1. \E n \in after : \A m \in after : n <= m
      BY <1>1, <1>3, MinExists
    <2> DEFINE first == CHOOSE n \in after : \A m \in after : n <= m
    <2>2. first \in after
      BY <2>1
    <2>3. LineEnd(o) = 1 + first
      BY <1>3 DEF LineEnd
    <2>4. first \in Nat /\ first >= o
      BY <2>2, <1>1
    <2> HIDE DEF first
    <2> QED
      BY <2>3, <2>4
  <1> QED
    BY <1>2, <1>3

\* file_readline keeps the invariant: within the buffer it consumes a line or
\* what there is of it; if it skips the rest in the FILE the buffer is used up.
LEMMA ReadlineKeeps ==
    ASSUME Inv, ~RefillEmpty, Readline
    PROVE  Inv'
  <1> DEFINE b == Nexted(0)
             nls == {i \in b.pos .. b.avail - 1 : b.buf[i] \in file.nl}
             stop == IF nls = {} THEN b.avail
                     ELSE 1 + CHOOSE i \in nls : \A j \in nls : i <= j
             k == stop - b.pos
             skips == b.pos < b.avail /\ nls = {}
  <1>1. TypeOK /\ Kept /\ Window /\ size >= BufSize
    BY DEF Inv, Kept
  <1>2. /\ b.buf \in BufType
        /\ b.size \in Nat \ {0} /\ b.size >= size /\ b.size <= Limit
        /\ b.avail \in 0 .. b.size /\ b.pos \in 0 .. b.avail
        /\ b.fp \in Nat
        /\ b.fp - (b.avail - b.pos) = Cur
        /\ Holds(b.buf, b.pos, b.avail, Cur)
    <2>1. 0 \in Nat /\ 0 <= Limit
      BY <1>1, BufferNumbers
    <2> QED
      BY <1>1, <2>1, NextedWindow DEF Readline
  <1>3. /\ buf' = b.buf /\ size' = b.size /\ avail' = b.avail
        /\ pos' = stop
        /\ file_pos' = file_pos + k
        /\ fp' = IF skips THEN LineEnd(b.fp) ELSE b.fp
        /\ capture' = CapturedFrom(b.buf, b.pos, k)
        /\ lost' = (lost \/ (skips /\ LineEnd(b.fp) > b.fp))
        /\ ret' = Result("readline", b.pos < b.avail, b.fp - (b.avail - b.pos))
        /\ UNCHANGED <<file, seekable, pc, toks, from, want>>
        /\ pc = "idle"
    BY DEF Readline
  <1>4. BufSize \in Nat /\ size \in Nat /\ file_pos \in Nat /\ Limit \in Nat
    BY <1>1, SizeAssumption, BufferNumbers DEF TypeOK
  <1>5. stop \in Nat /\ b.pos <= stop /\ stop <= b.avail
    <2> HIDE DEF b
    <2>1. CASE nls = {}
      BY <2>1, <1>2, <1>4
    <2>2. CASE nls # {}
      <3>1. nls \subseteq Nat /\ \A i \in nls : b.pos <= i /\ i < b.avail
        BY <1>2, <1>4
      <3>2. \E i \in nls : \A j \in nls : i <= j
        BY <2>2, <3>1, MinExists
      <3> DEFINE first == CHOOSE i \in nls : \A j \in nls : i <= j
      <3>3. first \in nls
        BY <3>2
      <3>4. first \in Nat /\ b.pos <= first /\ first < b.avail
        BY <3>1, <3>3
      <3>5. stop = 1 + first
        BY <2>2
      <3>6. b.pos \in Nat /\ b.avail \in Nat
        BY <1>2, <1>4
      <3> HIDE DEF first, nls, stop
      <3> QED
        BY <3>4, <3>5, <3>6
    <2> QED
      BY <2>1, <2>2
  <1>6. skips => stop = b.avail
    OBVIOUS
  <1>7. b.pos \in Nat /\ b.avail \in Nat /\ b.avail <= Limit
    BY <1>2, <1>4
  <1> HIDE DEF b, nls, stop, skips
  <1>8. k \in Nat /\ b.pos + k = stop
    BY <1>5, <1>7
  <1>9. fp' \in Nat /\ fp' >= b.fp /\ (fp' # b.fp => skips /\ lost')
    <2>1. LineEnd(b.fp) \in Nat /\ LineEnd(b.fp) >= b.fp
      BY <1>1, <1>2, LineEndBounds DEF TypeOK
    <2>2. fp' = LineEnd(b.fp) \/ fp' = b.fp
      BY <1>3
    <2>3. fp' # b.fp => skips /\ LineEnd(b.fp) # b.fp
      BY <1>3
    <2>4. LineEnd(b.fp) # b.fp => LineEnd(b.fp) > b.fp
      BY <2>1, <1>2
    <2>5. skips /\ LineEnd(b.fp) > b.fp => lost'
      BY <1>3
    <2> QED
      BY <2>1, <2>2, <2>3, <2>4, <2>5, <1>2
  <1> HIDE DEF k
  <1>10. Kept' /\ file_pos' \in Nat /\ capture' \in CaptureType
    <2>1. CASE fp' = b.fp
      <3>1. lost' = lost
        <4>1. skips => LineEnd(b.fp) = b.fp
          BY <2>1, <1>3
        <4>2. ~(skips /\ LineEnd(b.fp) > b.fp)
          BY <4>1, <1>2
        <4> QED
          BY <4>2, <1>1, <1>3 DEF TypeOK
      <3>2. fp' - (b.avail - b.pos) = Cur /\ Holds(buf', b.pos, b.avail, Cur)
        BY <1>2, <1>3, <2>1
      <3>3. /\ b.pos + k <= b.avail /\ pos' = b.pos + k /\ avail' = b.avail
            /\ capture' = CapturedFrom(buf', b.pos, k) /\ file_pos' = file_pos + k
        BY <1>3, <1>5, <1>8
      <3> QED
        BY <1>1, <1>7, <1>8, <1>9, <3>1, <3>2, <3>3, ConsumedKeeps
    <2>2. CASE fp' # b.fp
      <3>1. lost' /\ pos' = avail' /\ avail' \in Nat
        BY <2>2, <1>3, <1>6, <1>7, <1>9
      <3>2. Limit \in Nat /\ Slots = 0 .. 2 * Limit - 1
        BY <1>1, BufferNumbers
      <3>3. Kept'
        BY <3>1, <3>2 DEF Kept, Window, TellExact, CaptureExact
      <3>4. file_pos' \in Nat
        BY <1>3, <1>4, <1>8
      <3>5. capture' \in CaptureType
        BY <1>1, <1>3, <1>7, <1>8, CapturedBytes DEF TypeOK, CaptureType
      <3> QED
        BY <3>3, <3>4, <3>5
    <2> QED
      BY <2>1, <2>2
  <1>11. ret' \in RetType
    BY <1>2, <1>7, <1>3 DEF Result, RetType
  <1>12. avail' \in 0 .. size' /\ pos' \in 0 .. avail' /\ size' >= BufSize /\ lost' \in BOOLEAN
    BY <1>1, <1>2, <1>3, <1>4, <1>5, <1>7
  <1>13. TypeOK'
    BY <1>1, <1>2, <1>3, <1>9, <1>10, <1>11, <1>12
       DEF TypeOK, BufType, CaptureType, RetType, Limit
  <1>14. ScanUnderWay' /\ ScanFindsFirst'
    BY <1>3, NoScan DEF Result
  <1> QED
    BY <1>10, <1>12, <1>13, <1>14 DEF Inv

\* Setting or removing the capture buffer, a seek of the FILE, and the start and
\* the end of a skip keep the invariant.  A seek needs the capture to be off.
LEMMA PlainCallsKeep ==
    ASSUME Inv, SetCapture \/ SkipEnd \/ \E n \in -1 .. MaxCount, w \in {"SET", "CUR", "END"} :
                                              Seek(n, w) \/ SkipStart(n, w)
    PROVE  Inv'
  <1>1. /\ TypeOK /\ Kept /\ size >= BufSize /\ ScanUnderWay /\ Window /\ TellExact
        /\ CaptureExact
    BY DEF Inv, Kept
  <1>2. /\ fp \in Nat /\ avail \in Nat /\ pos \in Nat /\ size \in Nat
        /\ Cur \in Int /\ file_pos \in Nat /\ Slots = 0 .. 2 * Limit - 1 /\ Limit \in Nat
    BY <1>1, BufferNumbers DEF TypeOK
  <1>3. CASE SetCapture
    <2>1. /\ UNCHANGED <<file, seekable, lost, fp, buf, size, avail, pos, file_pos, pc, toks, from, want>>
          /\ pc = "idle" /\ ret' = Result("capture", TRUE, 0)
          /\ capture' = IF capture.on THEN [on |-> FALSE, next |-> 0, exact |-> TRUE]
                        ELSE [on |-> TRUE, next |-> Cur, exact |-> TRUE]
      BY <1>3 DEF SetCapture, bufVars
    <2>2. Cur' = Cur
      BY <2>1 DEF Cur
    <2>3. Window' /\ TellExact'
      BY <1>1, <2>1, <2>2 DEF Window, TellExact
    <2>4. CaptureExact' /\ capture' \in CaptureType
      BY <2>1, <2>2, <1>2 DEF CaptureExact, CaptureType
    <2>5. TypeOK'
      <3>1. ret' \in RetType
        BY <2>1 DEF Result, RetType
      <3> QED
        BY <1>1, <2>1, <2>4, <3>1 DEF TypeOK, CaptureType, RetType
    <2>6. ScanUnderWay' /\ ScanFindsFirst'
      BY <2>1, NoScan DEF Result
    <2> QED
      BY <1>1, <2>1, <2>3, <2>4, <2>5, <2>6 DEF Inv, Kept
  <1>4. CASE SkipEnd
    <2>1. /\ UNCHANGED <<file, seekable, lost, fp, buf, size, avail, pos, file_pos, capture,
                         toks, from, want, ret>>
          /\ pc = "skip" /\ pc' = "idle"
      BY <1>4 DEF SkipEnd, bufVars
    <2>2. Cur' = Cur
      BY <2>1 DEF Cur
    <2>3. Kept'
      BY <1>1, <2>1, <2>2 DEF Window, TellExact, CaptureExact, Kept
    <2>4. TypeOK'
      BY <1>1, <2>1 DEF TypeOK
    <2>5. ScanUnderWay' /\ ScanFindsFirst'
      BY <1>1, <2>1, NoScan DEF ScanUnderWay
    <2> QED
      BY <1>1, <2>1, <2>3, <2>4, <2>5 DEF Inv
  <1>5. ASSUME NEW n \in -1 .. MaxCount, NEW w \in {"SET", "CUR", "END"}, SkipStart(n, w)
        PROVE  Inv'
    <2>1. /\ UNCHANGED <<file, seekable, lost, fp, buf, size, avail, pos, file_pos, capture,
                         toks, from>>
          /\ pc' = "skip" /\ want' = n /\ n >= 0 /\ ret' = Result("skip", TRUE, 0)
      BY <1>5 DEF SkipStart, bufVars
    <2>2. Cur' = Cur
      BY <2>1 DEF Cur
    <2>3. Kept'
      BY <1>1, <2>1, <2>2 DEF Window, TellExact, CaptureExact, Kept
    <2>4. TypeOK'
      <3>1. ret' \in RetType
        BY <2>1 DEF Result, RetType
      <3>2. want' \in Nat
        BY <2>1, SizeAssumption
      <3> QED
        BY <1>1, <2>1, <3>1, <3>2 DEF TypeOK, RetType
    <2>5. ScanUnderWay' /\ ScanFindsFirst'
      BY <2>1, NoScan DEF Result
    <2> QED
      BY <1>1, <2>1, <2>3, <2>4, <2>5 DEF Inv
  <1>6. ASSUME NEW n \in -1 .. MaxCount, NEW w \in {"SET", "CUR", "END"}, Seek(n, w)
        PROVE  Inv'
    <2> DEFINE target == n + (IF w = "SET" THEN 0 ELSE IF w = "CUR" THEN file_pos ELSE FileSize)
    <2>1. /\ UNCHANGED <<file, seekable, capture, pc, toks, from, want, buf, size>>
          /\ pc = "idle" /\ ~capture.on
          /\ \/ /\ ret' = Result("seek", FALSE, 0)
                /\ UNCHANGED <<fp, avail, pos, file_pos, lost>>
             \/ /\ target >= 0 /\ fp' = target /\ file_pos' = target
                /\ avail' = 0 /\ pos' = 0 /\ lost' = FALSE
                /\ ret' = Result("seek", TRUE, target)
      BY <1>6 DEF Seek, bufVars
    <2>2. target \in Int
      BY <1>2, SizeAssumption
    <2> HIDE DEF target
    <2>3. CASE ret' = Result("seek", FALSE, 0) /\ UNCHANGED <<fp, avail, pos, file_pos, lost>>
      <3>1. Cur' = Cur
        BY <2>1, <2>3 DEF Cur
      <3>2. Kept'
        BY <1>1, <2>1, <2>3, <3>1 DEF Window, TellExact, CaptureExact, Kept
      <3>3. ret' \in RetType
        BY <2>3 DEF Result, RetType
      <3>4. TypeOK'
        BY <1>1, <2>1, <2>3, <3>3 DEF TypeOK, RetType
      <3>5. ScanUnderWay' /\ ScanFindsFirst'
        BY <2>1, <2>3, NoScan DEF Result
      <3> QED
        BY <1>1, <2>1, <2>3, <3>2, <3>4, <3>5 DEF Inv
    <2>4. CASE /\ target >= 0 /\ fp' = target /\ file_pos' = target
               /\ avail' = 0 /\ pos' = 0 /\ lost' = FALSE
               /\ ret' = Result("seek", TRUE, target)
      <3>1. Cur' = target /\ target \in Nat
        BY <2>2, <2>4 DEF Cur
      <3>2. Window'
        BY <1>2, <2>4 DEF Window
      <3>3. TellExact' /\ CaptureExact'
        BY <3>1, <2>1, <2>4 DEF TellExact, CaptureExact
      <3>4. ret' \in RetType
        BY <2>2, <2>4 DEF Result, RetType
      <3>5. TypeOK'
        <4>1. 0 \in 0 .. size /\ 0 \in 0 .. 0 /\ FALSE \in BOOLEAN
          BY <1>2
        <4> QED
          BY <1>1, <2>1, <2>4, <3>1, <3>4, <4>1 DEF TypeOK, RetType
      <3>6. ScanUnderWay' /\ ScanFindsFirst'
        BY <2>1, <2>4, NoScan DEF Result
      <3> QED
        BY <1>1, <2>1, <2>4, <3>2, <3>3, <3>5, <3>6 DEF Inv, Kept
    <2> QED
      BY <2>1, <2>3, <2>4
  <1> QED
    BY <1>3, <1>4, <1>5, <1>6

\* A scan starts where the next byte is.
LEMMA ScanStartKeeps ==
    ASSUME Inv, NEW T \in (SUBSET Tokens) \ {{}}, ScanStart(T)
    PROVE  Inv'
  <1>1. TypeOK /\ Kept /\ size >= BufSize
    BY DEF Inv
  <1>2. /\ UNCHANGED <<file, seekable, lost, fp, buf, size, avail, pos, file_pos, capture, want>>
        /\ pc' = "scan" /\ toks' = T /\ from' = Cur /\ ret' = Result("none", TRUE, 0)
    BY DEF ScanStart, bufVars
  <1>3. Cur' = Cur /\ Cur \in Int
    BY <1>1, <1>2, BufferNumbers DEF Cur
  <1>4. Kept'
    BY <1>1, <1>2, <1>3 DEF Window, TellExact, CaptureExact, Kept
  <1>5. ret' \in RetType /\ ret'.op = "none"
    BY <1>2 DEF Result, RetType
  <1>6. TypeOK'
    BY <1>1, <1>2, <1>3, <1>5 DEF TypeOK, RetType
  <1>7. ScanUnderWay'
    <2>1. toks' # {} /\ from' <= Cur' /\ from' = Cur'
      BY <1>2, <1>3
    <2>2. \A t \in toks' : \A x \in Occurrences(t, from)' : x >= Cur'
      BY <1>2, <1>3 DEF Occurrences
    <2> QED
      BY <1>2, <1>5, <2>1, <2>2 DEF ScanUnderWay
  <1>8. ScanFindsFirst'
    BY <1>5 DEF ScanFindsFirst
  <1> QED
    BY <1>1, <1>2, <1>4, <1>6, <1>7, <1>8 DEF Inv

\* A token that lies in the window as a whole is found by asdf_scan_tokens.
LEMMA WholeTokenMatches ==
    ASSUME TypeOK, Window, NEW T \in SUBSET Tokens, NEW t \in T, NEW x \in file.tok[t],
           x >= Cur, x + TokenLen[t] <= fp
    PROVE  pos + (x - Cur) \in Matches(T)
  <1> DEFINE i == pos + (x - Cur)
             len == TokenLen[t]
  <1>1. x \in Nat /\ len \in Nat \ {0}
    <2>1. file.tok[t] \subseteq Offsets
      BY FileAssumption DEF TypeOK
    <2> QED
      BY <2>1, FileAssumption, SizeAssumption DEF Offsets
  <1>2. /\ fp \in Nat /\ avail \in Nat /\ pos \in Nat /\ avail <= Limit /\ Limit \in Nat
        /\ Slots = 0 .. 2 * Limit - 1 /\ Cur \in Int /\ Cur = fp - (avail - pos)
    BY BufferNumbers DEF Cur
  <1>3. i \in Nat /\ pos <= i /\ i + len <= avail
    <2>1. x + len <= fp
      OBVIOUS
    <2> HIDE DEF len
    <2> QED BY <2>1, <1>1, <1>2
  <1>4. ASSUME NEW j \in 0 .. len - 1 PROVE buf[i + j] = x + j
    <2>1. i + j \in Slots /\ pos <= i + j /\ i + j < avail
      <3> HIDE DEF i, len
      <3> QED BY <1>1, <1>2, <1>3
    <2>2. buf[i + j] = Cur + ((i + j) - pos)
      BY <2>1 DEF Window
    <2> HIDE DEF len
    <2> QED
      BY <2>2, <1>1, <1>2
  <1>5. buf[i] = x
    <2>1. buf[i + 0] = x + 0
      BY <1>4, <1>1
    <2> QED
      BY <2>1, <1>1, <1>3
  <1>6. i \in pos .. avail - 1 /\ len <= avail - i
    <2> HIDE DEF i, len
    <2> QED BY <1>1, <1>2, <1>3
  <1>7. \A j \in 0 .. len - 1 : buf[i + j] = buf[i] + j
    BY <1>4, <1>5
  <1> HIDE DEF i, len
  <1>8. /\ len <= avail - i /\ buf[i] \in file.tok[t]
        /\ \A j \in 0 .. len - 1 : buf[i + j] = buf[i] + j
    BY <1>5, <1>6, <1>7
  <1>9. i \in Matches(T)
    BY <1>6, <1>8 DEF Matches, len
  <1> QED
    BY <1>9 DEF i

\* Where asdf_scan_tokens reports a token, the file has one: the file's bytes
\* are in the buffer up to the token's end.
LEMMA MatchIsToken ==
    ASSUME TypeOK, Window, NEW T \in SUBSET Tokens, NEW i \in Matches(T)
    PROVE  /\ i \in Nat /\ pos <= i /\ i < avail
           /\ \E u \in T : /\ Cur + (i - pos) \in file.tok[u]
                           /\ Cur + (i - pos) + TokenLen[u] <= FileSize
                           /\ Cur + (i - pos) + TokenLen[u] <= fp
  <1>1. /\ fp \in Nat /\ avail \in Nat /\ pos \in Nat /\ avail <= Limit /\ Limit \in Nat
        /\ Slots = 0 .. 2 * Limit - 1 /\ Cur \in Int /\ Cur = fp - (avail - pos)
    BY BufferNumbers DEF Cur
  <1>2. i \in pos .. avail - 1
    BY DEF Matches
  <1>3. PICK u \in T : /\ TokenLen[u] <= avail - i
                       /\ buf[i] \in file.tok[u]
                       /\ \A j \in 0 .. TokenLen[u] - 1 : buf[i + j] = buf[i] + j
    BY DEF Matches
  <1> DEFINE len == TokenLen[u]
             x == Cur + (i - pos)
  <1>4. i \in Slots /\ i \in Nat /\ pos <= i /\ i < avail
    BY <1>1, <1>2
  <1>5. buf[i] = x
    BY <1>4 DEF Window
  <1>6. x \in Nat /\ len \in Nat \ {0} /\ len <= avail - i
    <2>1. file.tok[u] \subseteq Offsets
      BY FileAssumption DEF TypeOK
    <2> QED
      BY <2>1, <1>3, <1>5, FileAssumption, SizeAssumption DEF Offsets
  <1>7. buf[i + (len - 1)] = x + (len - 1)
    <2>1. len - 1 \in 0 .. len - 1
      <3> HIDE DEF len
      <3> QED BY <1>6
    <2> QED
      BY <2>1, <1>3, <1>5
  <1>8. buf[i + (len - 1)] \in Offsets \cup {Junk}
    <2>1. i + (len - 1) \in Slots
      <3> HIDE DEF len
      <3> QED BY <1>1, <1>4, <1>6
    <2> QED
      BY <2>1 DEF TypeOK
  <1>9. x + len <= FileSize /\ x + len <= fp
    <2>1. x + (len - 1) \in Offsets \cup {Junk}
      BY <1>7, <1>8
    <2>2. x + (len - 1) <= FileSize - 1
      <3> HIDE DEF x, len
      <3> QED BY <2>1, <1>6, SizeAssumption DEF Offsets, Junk
    <2>3. x = fp - avail + i
      BY <1>1, <1>4
    <2> HIDE DEF x, len
    <2> QED
      BY <2>2, <2>3, <1>1, <1>4, <1>6, SizeAssumption
  <1>10. x \in file.tok[u]
    BY <1>3, <1>5
  <1> QED
    BY <1>4, <1>9, <1>10

\* A scan that finds a token keeps the invariant and has found the right one.
LEMMA ScanMatchKeeps ==
    ASSUME Inv, ScanMatch
    PROVE  Inv'
  <1>1. TypeOK /\ Kept /\ Window /\ size >= BufSize /\ ScanUnderWay
    BY DEF Inv, Kept
  <1>2. PICK i \in Matches(toks) :
          /\ \A j \in Matches(toks) : i <= j
          /\ capture' = CapturedFrom(buf, pos, i - pos)
          /\ pos' = i
          /\ file_pos' = file_pos + (i - pos)
    BY DEF ScanMatch
  <1>3. /\ pc = "scan"
        /\ UNCHANGED <<file, seekable, lost, fp, buf, size, avail, want>>
        /\ pc' = "idle" /\ toks' = {} /\ from' = 0
        /\ ret' = [op |-> "scan", ok |-> TRUE, arg |-> from, toks |-> toks]
    BY DEF ScanMatch, ScanReturns
  <1>4. /\ fp \in Nat /\ avail \in Nat /\ pos \in Nat /\ avail <= Limit /\ Limit \in Nat
        /\ Cur \in Int /\ Cur = fp - (avail - pos) /\ pos <= avail
    BY <1>1, BufferNumbers DEF Cur
  <1>5. toks \in SUBSET Tokens /\ from \in Int
    BY <1>1 DEF TypeOK
  <1>6. PICK u \in toks : /\ Cur + (i - pos) \in file.tok[u]
                          /\ Cur + (i - pos) + TokenLen[u] <= FileSize
                          /\ Cur + (i - pos) + TokenLen[u] <= fp
    BY <1>1, <1>5, MatchIsToken
  <1>7. i \in Nat /\ pos <= i /\ i < avail
    BY <1>1, <1>5, MatchIsToken
  <1>8. Cur' = Cur + (i - pos)
    BY <1>2, <1>3, <1>4, <1>7 DEF Cur
  <1>9. Kept' /\ file_pos' \in Nat /\ capture' \in CaptureType
    <2>1. Holds(buf', pos, avail, Cur)
      BY <1>1, <1>3 DEF Window, Holds
    <2>2. /\ i - pos \in Nat /\ pos + (i - pos) <= avail /\ pos' = pos + (i - pos)
          /\ fp' \in Nat /\ fp' - (avail - pos) = Cur
      BY <1>2, <1>3, <1>4, <1>7
    <2> QED
      BY <1>1, <1>2, <1>3, <1>4, <2>1, <2>2, ConsumedKeeps
  <1>10. TypeOK'
    <2>1. ret' \in RetType
      BY <1>3, <1>5 DEF RetType
    <2>2. pos' \in 0 .. avail'
      BY <1>2, <1>3, <1>4, <1>7
    <2> QED
      BY <1>1, <1>3, <1>9, <2>1, <2>2 DEF TypeOK, RetType, CaptureType
  <1>11. ScanUnderWay'
    BY <1>3 DEF ScanUnderWay
  <1>12. ScanFindsFirst'
    <2>1. from <= Cur /\ \A t \in toks : \A x \in Occurrences(t, from) : x >= Cur
      BY <1>1, <1>3 DEF ScanUnderWay
    <2>2. \A t, o : Occurrences(t, o)' = Occurrences(t, o)
      BY <1>3 DEF Occurrences
    <2>3. Cur' \in Occurrences(u, from)
      <3>1. Cur' >= from
        BY <1>4, <1>5, <1>7, <1>8, <2>1
      <3> QED
        BY <1>6, <1>8, <3>1 DEF Occurrences
    <2>4. ASSUME NEW t \in toks, NEW x \in Occurrences(t, from), x < Cur'
          PROVE  x + TokenLen[t] > Cur' + TokenLen[u]
      <3>1. x \in file.tok[t] /\ x >= Cur
        BY <2>1 DEF Occurrences
      <3>2. x \in Nat /\ TokenLen[t] \in Nat /\ TokenLen[u] \in Nat
        <4>1. file.tok[t] \subseteq Offsets
          BY <1>1, <1>5, FileAssumption DEF TypeOK
        <4> QED
          BY <4>1, <3>1, <1>5, FileAssumption, SizeAssumption DEF Offsets
      <3>3. ~(x + TokenLen[t] <= fp)
        <4> SUFFICES ASSUME x + TokenLen[t] <= fp PROVE FALSE
          OBVIOUS
        <4>1. pos + (x - Cur) \in Matches(toks)
          BY <1>1, <1>5, <3>1, WholeTokenMatches
        <4>2. i <= pos + (x - Cur)
          BY <4>1, <1>2
        <4> QED
          BY <4>2, <2>4, <1>4, <1>7, <1>8, <3>2
      <3>4. Cur' + TokenLen[u] <= fp /\ Cur' \in Int
        BY <1>4, <1>6, <1>7, <1>8
      <3> QED
        BY <3>2, <3>3, <3>4, <1>4
    <2>5. ret'.ok /\ ret'.arg = from /\ ret'.toks = toks
      BY <1>3
    <2> QED
      BY <2>2, <2>3, <2>4, <2>5 DEF ScanFindsFirst
  <1> QED
    BY <1>1, <1>3, <1>9, <1>10, <1>11, <1>12 DEF Inv

\* A scan that has to slide its window keeps the invariant: it drops only bytes
\* at which no token starts, and gives up only when there is none.
LEMMA ScanSlideKeeps ==
    ASSUME Inv, ScanSlide
    PROVE  Inv'
  <1> DEFINE p   == Preserve
             max == MaxLen(toks)
             n   == CanRead(size - p)
             gives == p + n < max
  <1>1. /\ TypeOK /\ Kept /\ Window /\ size >= BufSize /\ ScanUnderWay
        /\ TellExact /\ CaptureExact
    BY DEF Inv, Kept
  <1>2. /\ pc = "scan" /\ ~Hit(toks)
        /\ capture' = CapturedFrom(buf, 0, avail - p)
        /\ buf' = Refilled(avail - p, p, p, n)
        /\ fp' = fp + n
        /\ file_pos' = file_pos + (avail - p)
        /\ avail' = p + n
        /\ lost' = (lost \/ pos > 0 \/ (gives /\ p + n > 0))
        /\ \/ /\ gives /\ pos' = p + n
              /\ pc' = "idle" /\ toks' = {} /\ from' = 0
              /\ ret' = [op |-> "scan", ok |-> FALSE, arg |-> from, toks |-> toks]
           \/ /\ p + n >= max /\ pos' = 0
              /\ UNCHANGED <<pc, ret, toks, from>>
        /\ UNCHANGED <<file, seekable, size, want>>
    BY DEF ScanSlide, Slide, ScanReturns
  <1>3. /\ fp \in Nat /\ avail \in Nat /\ pos \in Nat /\ avail <= Limit /\ Limit \in Nat
        /\ Slots = 0 .. 2 * Limit - 1 /\ size \in Nat /\ avail <= size /\ size <= Limit
        /\ Cur \in Int /\ Cur = fp - (avail - pos) /\ pos <= avail
    BY <1>1, BufferNumbers DEF Cur
  <1>4. toks \in SUBSET Tokens /\ toks # {} /\ from \in Int /\ from <= Cur
    BY <1>1, <1>2 DEF TypeOK, ScanUnderWay
  <1>5. /\ max \in Nat /\ max >= 1 /\ max <= BufSize /\ BufSize \in Nat
        /\ \A t \in toks : TokenLen[t] <= max
    BY <1>4, MaxLenBounds, SizeAssumption
  <1>6. /\ p \in Nat /\ p <= avail - pos /\ p <= max - 1
        /\ p < avail - pos => p = max - 1
    <2>1. p = Lesser(avail - pos, max - 1)
      BY DEF Preserve
    <2> HIDE DEF p, max
    <2> QED BY <2>1, <1>3, <1>5 DEF Lesser
  <1> HIDE DEF p, max
  <1>7. /\ n \in Nat /\ n <= size - p
        /\ n > 0 => fp + n <= FileSize
        /\ n < size - p => fp + n >= FileSize
    <2>1. size - p \in Nat
      BY <1>3, <1>6
    <2> QED
      BY <2>1, <1>3, CanReadBounds
  <1> HIDE DEF n
  <1>8. /\ buf' \in BufType
        /\ Holds(buf', 0, p + n, fp - p)
    <2>1. /\ avail - p \in Nat /\ (avail - p) + p <= Limit
      BY <1>3, <1>6
    <2>2. Refilled(avail - p, p, p, n) \in BufType
      BY <2>1, <1>1, <1>6, <1>7, RefilledSlots
    <2>3. \A i \in Slots : p <= i /\ i < p + n
             => Refilled(avail - p, p, p, n)[i] = fp + (i - p)
      BY <2>1, <1>1, <1>6, <1>7, RefilledSlots
    <2>4. \A i \in Slots : i < p => Refilled(avail - p, p, p, n)[i] = buf[(avail - p) + i]
      BY <2>1, <1>1, <1>6, <1>7, RefilledSlots
    <2>5. ASSUME NEW i \in Slots, 0 <= i, i < p + n PROVE buf'[i] = (fp - p) + (i - 0)
      <3>1. CASE p <= i
        <4>1. buf'[i] = fp + (i - p)
          BY <3>1, <2>3, <2>5, <1>2
        <4> QED
          BY <4>1, <1>3, <1>6
      <3>2. CASE i < p
        <4>1. buf'[i] = buf[(avail - p) + i]
          BY <3>2, <2>4, <1>2
        <4>2. (avail - p) + i \in Slots /\ pos <= (avail - p) + i /\ (avail - p) + i < avail
          BY <3>2, <1>3, <1>6
        <4>3. buf[(avail - p) + i] = Cur + (((avail - p) + i) - pos)
          BY <4>2, <1>1 DEF Window
        <4> QED
          BY <4>1, <4>3, <1>3, <1>6
      <3> QED
        BY <3>1, <3>2, <1>3, <1>6
    <2> QED
      BY <2>2, <2>5, <1>2 DEF Holds
  <1>9. /\ avail' \in Nat /\ avail' <= size' /\ pos' \in Nat /\ pos' <= avail' /\ fp' \in Nat
        /\ p + n \in Nat /\ (pos' = 0 \/ pos' = p + n)
    BY <1>2, <1>3, <1>6, <1>7
  <1>10. Window'
    <2>1. CASE pos' = 0
      <3>1. Cur' = fp - p
        BY <2>1, <1>2, <1>3, <1>6, <1>7 DEF Cur
      <3> QED
        BY <3>1, <2>1, <1>2, <1>8 DEF Window, Holds
    <2>2. CASE pos' = p + n
      BY <2>2, <1>2, <1>3, <1>9 DEF Window
    <2> QED
      BY <2>1, <2>2, <1>9
  <1>11. capture \in CaptureType /\ avail - p \in Nat /\ file_pos \in Nat
    BY <1>1, <1>3, <1>6 DEF TypeOK, CaptureType
  <1>12. /\ capture' \in CaptureType
         /\ capture'.on = capture.on
         /\ (/\ capture.on /\ capture.exact
             /\ \A i \in 0 .. (avail - p) - 1 : buf[0 + i] = capture.next + i)
            => capture'.exact /\ capture'.next = capture.next + (avail - p)
    <2> DEFINE k == avail - p
               c == CapturedFrom(buf, 0, k)
    <2>1. capture' = c
      BY <1>2
    <2>2. capture \in CaptureType /\ k \in Nat /\ 0 \in Nat
      BY <1>11
    <2> HIDE DEF k
    <2>3. /\ c \in CaptureType
          /\ c.on = capture.on
          /\ (/\ capture.on /\ capture.exact
              /\ \A i \in 0 .. k - 1 : buf[0 + i] = capture.next + i)
             => c.exact /\ c.next = capture.next + k
      BY <2>2, CapturedBytes
    <2> HIDE DEF c
    <2> QED
      BY <2>1, <2>3 DEF k
  <1>13. ASSUME ~lost' PROVE ~lost /\ pos = 0 /\ Cur' = fp - p /\ Cur = fp - avail
    <2>1. ~lost /\ ~(pos > 0) /\ (gives => ~(p + n > 0))
      BY <1>13, <1>2
    <2>2. gives => p = 0 /\ n = 0
      BY <2>1, <1>6, <1>7
    <2>3. Cur' = fp - p
      BY <2>2, <1>2, <1>3, <1>5, <1>6, <1>7 DEF Cur
    <2> QED
      BY <2>1, <2>3, <1>3
  <1>14. TellExact'
    BY <1>13, <1>1, <1>2, <1>3, <1>6 DEF TellExact
  <1>15. CaptureExact'
    <2> SUFFICES ASSUME capture.on, ~lost' PROVE capture'.exact /\ capture'.next = Cur'
      BY <1>12 DEF CaptureExact
    <2>1. capture.exact /\ capture.next = Cur
      BY <1>1, <1>13 DEF CaptureExact
    <2>2. ASSUME NEW i \in 0 .. (avail - p) - 1 PROVE buf[0 + i] = capture.next + i
      <3>1. i \in Slots /\ pos <= i /\ i < avail /\ pos = 0 /\ i \in Nat
        BY <1>3, <1>6, <1>13
      <3>2. buf[i] = Cur + (i - pos)
        BY <3>1, <1>1 DEF Window
      <3> QED
        BY <3>1, <3>2, <2>1, <1>3
    <2>3. capture'.exact /\ capture'.next = capture.next + (avail - p)
      BY <2>1, <2>2, <1>12
    <2> QED
      BY <2>1, <2>3, <1>3, <1>6, <1>13
  <1>16. Kept'
    BY <1>10, <1>14, <1>15 DEF Kept
  <1>17. TypeOK'
    <2>1. /\ ret' \in RetType /\ pc' \in {"idle", "scan", "skip"} /\ toks' \subseteq Tokens
          /\ from' \in Int
      <3>1. CASE UNCHANGED <<pc, ret, toks, from>>
        BY <3>1, <1>1 DEF TypeOK, RetType
      <3>2. CASE /\ pc' = "idle" /\ toks' = {} /\ from' = 0
                 /\ ret' = [op |-> "scan", ok |-> FALSE, arg |-> from, toks |-> toks]
        BY <3>2, <1>4 DEF RetType
      <3> QED
        BY <3>1, <3>2, <1>2
    <2>2. file_pos' \in Nat
      BY <1>2, <1>11
    <2>3. avail' \in 0 .. size' /\ pos' \in 0 .. avail' /\ lost' \in BOOLEAN
      BY <1>2, <1>9
    <2> QED
      BY <1>1, <1>2, <1>8, <1>9, <1>12, <2>1, <2>2, <2>3
         DEF TypeOK, RetType, CaptureType, BufType
  <1>18. ASSUME NEW t \in toks, NEW x \in Occurrences(t, from), x + TokenLen[t] <= fp,
                avail - pos >= max
         PROVE  FALSE
    <2>1. x \in file.tok[t] /\ x >= Cur
      BY <1>1, <1>2 DEF ScanUnderWay, Occurrences
    <2>2. pos + (x - Cur) \in Matches(toks)
      BY <2>1, <1>1, <1>4, <1>18, WholeTokenMatches
    <2> QED
      BY <2>2, <1>2, <1>18 DEF Hit, max
  <1>19. \A t, o : Occurrences(t, o)' = Occurrences(t, o)
    BY <1>2 DEF Occurrences
  <1>20. ASSUME NEW t \in toks, NEW x \in Occurrences(t, from)
         PROVE  x >= Cur /\ x \in Nat /\ TokenLen[t] \in Nat /\ x + TokenLen[t] <= FileSize
    <2>1. file.tok[t] \subseteq Offsets
      BY <1>1, <1>4, FileAssumption DEF TypeOK
    <2>2. x >= Cur
      BY <1>1, <1>2 DEF ScanUnderWay
    <2> QED
      BY <2>1, <2>2, <1>4, FileAssumption, SizeAssumption DEF Offsets, Occurrences
  <1>21. CASE ~gives
    <2>1. /\ pos' = 0 /\ UNCHANGED <<pc, ret, toks, from>> /\ p + n >= max
      BY <1>21, <1>2
    <2>2. Cur' = fp - p
      BY <2>1, <1>2, <1>3, <1>6, <1>7 DEF Cur
    <2>3. from <= Cur'
      BY <2>2, <1>3, <1>4, <1>6
    <2>4. ASSUME NEW t \in toks, NEW x \in Occurrences(t, from) PROVE x >= Cur'
      <3> SUFFICES ASSUME x < Cur' PROVE FALSE
        BY <1>3, <1>6, <1>20, <2>2
      <3>1. x >= Cur /\ x \in Nat /\ TokenLen[t] \in Nat /\ TokenLen[t] <= max
        BY <1>5, <1>20
      <3>2. p < avail - pos
        BY <3>1, <2>2, <1>3, <1>6
      <3>3. p = max - 1 /\ avail - pos >= max
        BY <3>2, <1>3, <1>5, <1>6
      <3>4. x + TokenLen[t] <= fp
        BY <3>1, <3>3, <2>2, <1>3, <1>5
      <3> QED
        BY <3>3, <3>4, <1>18
    <2>5. avail' - pos' >= MaxLen(toks)'
      <3>1. MaxLen(toks)' = MaxLen(toks)
        BY <2>1 DEF MaxLen, IsMaxLen
      <3> QED
        BY <3>1, <2>1, <1>2, <1>9 DEF max
    <2>6. ScanUnderWay'
      BY <2>1, <2>3, <2>4, <2>5, <1>1, <1>2, <1>4, <1>19 DEF ScanUnderWay
    <2>7. ScanFindsFirst'
      BY <2>1, <1>1, <1>2 DEF ScanUnderWay, ScanFindsFirst
    <2> QED
      BY <2>6, <2>7, <1>1, <1>2, <1>16, <1>17 DEF Inv
  <1>22. CASE gives
    <2>1. /\ pc' = "idle"
          /\ ret' = [op |-> "scan", ok |-> FALSE, arg |-> from, toks |-> toks]
      BY <1>22, <1>2, <1>5, <1>6, <1>7
    <2>2. ScanUnderWay'
      BY <2>1 DEF ScanUnderWay
    <2>3. fp + n >= FileSize
      BY <1>22, <1>1, <1>3, <1>5, <1>6, <1>7
    <2>4. ASSUME avail - pos < max PROVE ScanFindsFirst'
      <3>1. from = Cur
        BY <2>4, <1>1, <1>2, <1>3, <1>5 DEF ScanUnderWay, max
      <3>2. p = avail - pos
        BY <2>4, <1>3, <1>5, <1>6
      <3>3. FileSize - from < max
        BY <3>1, <3>2, <2>3, <1>22, <1>3, <1>5, <1>7, SizeAssumption
      <3>4. MaxLen(ret.toks)' = max
        BY <2>1 DEF max, MaxLen, IsMaxLen
      <3>5. ~ret'.ok /\ ret'.arg = from
        BY <2>1
      <3> QED
        BY <3>3, <3>4, <3>5 DEF ScanFindsFirst
    <2>5. ASSUME avail - pos >= max PROVE ScanFindsFirst'
      <3>1. n = 0 /\ fp >= FileSize
        BY <2>3, <2>5, <1>22, <1>3, <1>5, <1>6, <1>7, SizeAssumption
      <3>2. ASSUME NEW t \in toks PROVE Occurrences(t, from) = {}
        <4> SUFFICES ASSUME NEW x \in Occurrences(t, from) PROVE FALSE
          OBVIOUS
        <4>1. x + TokenLen[t] <= fp
          BY <3>1, <1>20, <1>3, SizeAssumption
        <4> QED
          BY <4>1, <2>5, <1>18
      <3>3. ~ret'.ok /\ ret'.arg = from /\ ret'.toks = toks
        BY <2>1
      <3>4. \A t \in ret'.toks : Occurrences(t, ret.arg)' = {}
        BY <3>2, <3>3, <1>2 DEF Occurrences
      <3> QED
        BY <3>3, <3>4 DEF ScanFindsFirst
    <2>6. ScanFindsFirst'
      <3>1. avail - pos < max \/ avail - pos >= max
        BY <1>3, <1>5
      <3> QED
        BY <3>1, <2>4, <2>5
    <2> QED
      BY <2>2, <2>6, <1>1, <1>2, <1>16, <1>17 DEF Inv
  <1> QED
    BY <1>21, <1>22

-----------------------------------------------------------------------------
(* Theorems *)

\* The stream starts at the front of the file with nothing in its buffer.
LEMMA InvInit == Init => Inv
  <1> SUFFICES ASSUME Init PROVE Inv
    OBVIOUS
  <1>1. /\ Limit \in Nat /\ Limit > 0 /\ BufSize <= Limit /\ Slots = 0 .. 2 * Limit - 1
    BY SizeAssumption DEF Limit, Larger, Slots
  <1>2. ret \in RetType /\ ret.op = "none"
    BY DEF Init, Result, RetType
  <1>3. TypeOK
    <2>1. buf \in BufType /\ capture \in CaptureType
      BY DEF Init, BufType, CaptureType
    <2>2. /\ fp \in Nat /\ size \in Nat \ {0} /\ size <= Limit /\ avail \in 0 .. size
          /\ pos \in 0 .. avail /\ file_pos \in Nat /\ from \in Int /\ want \in Nat
      BY <1>1, SizeAssumption DEF Init
    <2> QED
      BY <1>2, <2>1, <2>2 DEF Init, TypeOK, BufType, CaptureType, RetType, Limit
  <1>4. Kept
    BY <1>1 DEF Init, Kept, Window, TellExact, CaptureExact, Cur
  <1>5. size >= BufSize
    BY SizeAssumption DEF Init
  <1> QED
    BY <1>2, <1>3, <1>4, <1>5 DEF Init, Inv, ScanUnderWay, ScanFindsFirst

\* Every call and every turn of a loop of the stream keeps the invariant.
LEMMA InvNext ==
    ASSUME ~RefillEmpty, Inv, [Next]_vars
    PROVE  Inv'
  <1>1. CASE UNCHANGED vars
    BY <1>1 DEF vars, Inv, TypeOK, Kept, Window, TellExact, CaptureExact, ScanUnderWay,
                ScanFindsFirst, Cur, Occurrences, MaxLen, IsMaxLen
  <1>2. CASE \E n \in Counts : Next_(n) \/ Consume(n)
    BY <1>2, NextKeeps, ConsumeKeeps
  <1>3. CASE Readline
    BY <1>3, ReadlineKeeps
  <1>4. CASE SetCapture \/ SkipEnd \/ \E n \in -1 .. MaxCount, w \in {"SET", "CUR", "END"} :
                                          Seek(n, w) \/ SkipStart(n, w)
    BY <1>4, PlainCallsKeep
  <1>5. CASE SkipStep
    BY <1>5, SkipStepKeeps
  <1>6. CASE \E T \in (SUBSET Tokens) \ {{}} : ScanStart(T)
    BY <1>6, ScanStartKeeps
  <1>7. CASE ScanStep
    BY <1>7, ScanMatchKeeps, ScanSlideKeeps DEF ScanStep
  <1> QED
    BY <1>1, <1>2, <1>3, <1>4, <1>5, <1>6, <1>7 DEF Next

\* However the buffer is shifted, refilled or slid, file_next hands out the
\* bytes of the file that follow those consumed.
THEOREM WindowRight == ASSUME ~RefillEmpty PROVE Spec => []Window
  <1>1. Inv => Window
    BY DEF Inv, Kept
  <1>2. Inv /\ [Next]_vars => Inv'
    BY InvNext
  <1> QED
    BY InvInit, <1>1, <1>2, PTL DEF Spec

\* file_scan finds the first token, wherever the pages of the file end and
\* whatever tokens it looks for, and fails only if there is none.
THEOREM ScanRight == ASSUME ~RefillEmpty PROVE Spec => []ScanFindsFirst
  <1>1. Inv => ScanFindsFirst
    BY DEF Inv
  <1>2. Inv /\ [Next]_vars => Inv'
    BY InvNext
  <1> QED
    BY InvInit, <1>1, <1>2, PTL DEF Spec

\* file_tell reports the offset of the next byte, unless it was left behind.
THEOREM TellRight == ASSUME ~RefillEmpty PROVE Spec => []TellExact
  <1>1. Inv => TellExact
    BY DEF Inv, Kept
  <1>2. Inv /\ [Next]_vars => Inv'
    BY InvNext
  <1> QED
    BY InvInit, <1>1, <1>2, PTL DEF Spec

\* The capture buffer has exactly what was consumed since it was set.
THEOREM CaptureRight == ASSUME ~RefillEmpty PROVE Spec => []CaptureExact
  <1>1. Inv => CaptureExact
    BY DEF Inv, Kept
  <1>2. Inv /\ [Next]_vars => Inv'
    BY InvNext
  <1> QED
    BY InvInit, <1>1, <1>2, PTL DEF Spec
=============================================================================
