---------------------------- MODULE NdarrayTile ----------------------------
(***************************************************************************)
(* Reading tiles out of an n-dimensional array (src/core/ndarray.c and     *)
(* src/core/ndarray_convert.c): asdf_ndarray_read_tile_ndim checks the     *)
(* request, picks the conversion for the pair of datatypes, allocates the  *)
(* tile if the caller has none, and copies it row by row, walking the      *)
(* source with an odometer over the outer dimensions.                      *)
(*                                                                         *)
(* Offsets and sizes count elements, as for elements of one byte, and wrap *)
(* at W64 bits as the uint64_t of the C code do.  An access outside the    *)
(* data or the tile, or a division by zero, ends the call as "UNDEFINED".  *)
(* Byte order and floating point types are left out.  An entry of the tile *)
(* remembers the element it came from.                                     *)
(***************************************************************************)
EXTENDS CInts, Sequences, FiniteSetsExt

CONSTANTS
    Arrays,     \* the arrays: shape, datatype, and the elements there is data for
    Origins,    \* values an origin of a request may have
    Extents,    \* values an extent of a request may have
    DstTypes    \* the datatypes a caller asks for

VARIABLES
    nd,         \* the ndarray
    req,        \* origin, shape, dst_t and whether *dst is given, or NoRequest
    pc,         \* "call", "read", "loop", "done"
    odometer,   \* indices of the current row in the outer dimensions
    src,        \* the element the source pointer is at
    tile,       \* the entries written so far
    overflow,   \* local of the main loop: what the last convert() returned
    buf,        \* the tile buffer: "none", "caller", "new" or "freed"
    dst,        \* *dst: NULL, or a pointer to the tile buffer
    err         \* the result

vars == <<nd, req, pc, odometer, src, tile, overflow, buf, dst, err>>

NoRequest == [given |-> FALSE]
Ndim == Len(nd.shape)
Dims == 1 .. Ndim

Product(s) == LET p[i \in 0 .. Len(s)] == IF i = 0 THEN 1 ELSE p[i - 1] * s[i] IN p[Len(s)]

(* A uint64_t *)
Wrap(n) == n % 2 ^ W64

(* asdf_ndarray_size *)
asdf_ndarray_size == IF Ndim = 0 THEN 0 ELSE Wrap(Product(nd.shape))

-----------------------------------------------------------------------------
(* The conversion functions.  Each answers the value stored and whether it *)
(* flags an overflow.                                                      *)

Generic(S, D, v) == [val |-> Cast(D, v), ovf |-> FALSE]

Clamp(S, D, v) ==
    IF v < Cast(S, MinOf(D)) THEN [val |-> MinOf(D), ovf |-> TRUE]
    ELSE IF v > Cast(S, MaxOf(D)) THEN [val |-> MaxOf(D), ovf |-> TRUE]
    ELSE [val |-> Cast(D, v), ovf |-> FALSE]

ClampMax(S, D, v) ==
    IF v > Cast(S, MaxOf(D)) THEN [val |-> MaxOf(D), ovf |-> TRUE]
    ELSE [val |-> Cast(D, v), ovf |-> FALSE]

Truncate(S, D, v) ==
    IF v < 0 THEN [val |-> Cast(D, 0), ovf |-> TRUE] ELSE [val |-> Cast(D, v), ovf |-> FALSE]

(* Mutant of FromInt64: UINT32 only has its maximum clamped. *)
FromInt64NoFloor ==
    [generic |-> {"INT64"}, clamp |-> IntTypes \ {"INT64", "UINT64", "UINT32"},
     truncate |-> {"UINT64"}]

(* Which function converts from a type: the destinations of the generic,   *)
(* the clamping and the truncating ones; the rest clamp the maximum.       *)
FromInt8   == [generic |-> {"INT8", "INT16", "INT32", "INT64"}, clamp |-> {},
               truncate |-> Unsigned]
FromUint8  == [generic |-> IntTypes \ {"INT8"}, clamp |-> {}, truncate |-> {}]
FromInt16  == [generic |-> {"INT16", "INT32", "INT64"}, clamp |-> {"INT8", "UINT8"},
               truncate |-> {"UINT16", "UINT32", "UINT64"}]
FromUint16 == [generic |-> {"UINT16", "INT32", "UINT32", "INT64", "UINT64"}, clamp |-> {},
               truncate |-> {}]
FromInt32  == [generic |-> {"INT32", "INT64"}, clamp |-> {"INT8", "UINT8", "INT16", "UINT16"},
               truncate |-> {"UINT32", "UINT64"}]
FromUint32 == [generic |-> {"UINT32", "INT64", "UINT64"}, clamp |-> {}, truncate |-> {}]
FromInt64  == [generic |-> {"INT64"}, clamp |-> IntTypes \ {"INT64", "UINT64"},
               truncate |-> {"UINT64"}]
FromUint64 == [generic |-> {"UINT64"}, clamp |-> {}, truncate |-> {}]

ConversionTable ==
    [INT8 |-> FromInt8, UINT8 |-> FromUint8, INT16 |-> FromInt16, UINT16 |-> FromUint16,
     INT32 |-> FromInt32, UINT32 |-> FromUint32, INT64 |-> FromInt64, UINT64 |-> FromUint64]

(* asdf_ndarray_get_convert_fn: there is none for strings and structures. *)
HasConvert(S, D) == S \in IntTypes /\ D \in IntTypes

Convert(S, D, v) ==
    LET row == ConversionTable[S]
    IN  IF D \in row.generic THEN Generic(S, D, v)
        ELSE IF D \in row.clamp THEN Clamp(S, D, v)
        ELSE IF D \in row.truncate THEN Truncate(S, D, v)
        ELSE ClampMax(S, D, v)

(* convert(dst, src, n): n elements from src on are appended to the tile. *)
Converted(from, n) ==
    [i \in 1 .. n |->
        [from |-> from + i - 1, val |-> Convert(nd.type, req.type, nd.elems[from + i]).val]]

ConvertOverflows(from, n) ==
    \E i \in 1 .. n : Convert(nd.type, req.type, nd.elems[from + i]).ovf

-----------------------------------------------------------------------------
(* The requests. *)

Request(origin, shape, T, given) ==
    [origin |-> origin, shape |-> shape,
     type |-> IF T = "SOURCE" THEN nd.type ELSE T, given |-> given]

Call(r) ==
    /\ req' = r
    /\ buf' = IF r.given THEN "caller" ELSE "none"
    /\ dst' = IF r.given THEN "tile" ELSE "NULL"
    /\ pc' = "read"
    /\ UNCHANGED <<nd, odometer, src, tile, overflow, err>>

(* asdf_ndarray_read_tile_ndim with the caller's origin and shape. *)
CallTile ==
    /\ pc = "call"
    /\ \E origin \in [Dims -> Origins], shape \in [Dims -> Extents], T \in DstTypes, given \in BOOLEAN :
           Call(Request(origin, shape, T, given))

(* asdf_ndarray_read_all *)
CallAll ==
    /\ pc = "call"
    /\ \E T \in DstTypes, given \in BOOLEAN :
           Call(Request([d \in Dims |-> 0], nd.shape, T, given))

(* asdf_ndarray_read_at: a tile of one element, in the caller's variable;  *)
(* an array without dimensions has none.                                   *)
CallAt ==
    /\ pc = "call" /\ Ndim > 0
    /\ \E indices \in [Dims -> Origins], T \in DstTypes :
           Call(Request(indices, [d \in Dims |-> 1], T, TRUE))

(* asdf_ndarray_read_tile_2d: the two innermost dimensions, within the     *)
(* plane the leading ones choose.                                          *)
CallTile2d ==
    /\ pc = "call" /\ Ndim >= 2
    /\ \E x, y \in Origins, width, height \in Extents,
          plane \in [1 .. Ndim - 2 -> Origins], T \in DstTypes, given \in BOOLEAN :
           Call(Request([d \in Dims |-> IF d = Ndim THEN x ELSE IF d = Ndim - 1 THEN y
                                        ELSE plane[d]],
                        [d \in Dims |-> IF d = Ndim THEN width ELSE IF d = Ndim - 1 THEN height
                                        ELSE 1],
                        T, given))

(* read_at needs a dimension and read_tile_2d two. *)
CallTooFlat ==
    /\ pc = "call"
    /\ \/ Ndim = 0 /\ err' = "INVAL"
       \/ Ndim < 2 /\ err' = "OUT_OF_BOUNDS"
    /\ pc' = "done"
    /\ UNCHANGED <<nd, req, odometer, src, tile, overflow, buf, dst>>

-----------------------------------------------------------------------------
(* The read. *)

(* origin[d] + shape[d] *)
Limit(d) == Wrap(req.origin[d] + req.shape[d])

check_bounds == \A d \in Dims : Limit(d) <= nd.shape[d]

(* tile_nelems *)
TileSize == IF Ndim > 0 THEN Wrap(Product([d \in Dims |-> req.shape[d]])) ELSE 0

(* The element strides of a C-ordered array, outermost first. *)
Strides ==
    LET s[d \in Dims] == IF d = Ndim THEN 1 ELSE s[d + 1] * nd.shape[d + 1] IN s

(* The dimensions whose extent fails the check of init_strides, or makes   *)
(* it divide by zero; it meets the innermost first.                        *)
BadDims ==
    {d \in 2 .. Ndim : Strides[d] = 0 \/ nd.shape[d] > MaxOf("INT64") \div Strides[d]}

Offset == Wrap(MapThenSumSet(LAMBDA d : req.origin[d] * Strides[d], Dims))

(* The n elements from the given one on are elements of the data, and the  *)
(* tile has room for them.                                                 *)
InData(from, n) == from + n <= Len(nd.elems)
HasRoom(n) == Len(tile) + n <= TileSize

(* The checks, in order. *)
Refusal ==
    IF nd.type \notin IntTypes \cup {"COMPLEX"} \/ req.type \notin IntTypes \cup {"COMPLEX"}
    THEN "INVAL"
    ELSE IF ~check_bounds THEN "OUT_OF_BOUNDS"
    ELSE IF Len(nd.elems) < TileSize \/ Len(nd.elems) < asdf_ndarray_size
    THEN "OUT_OF_BOUNDS"
    ELSE IF ~HasConvert(nd.type, req.type) THEN "CONVERSION"
    ELSE "OK"

Refuse ==
    /\ pc = "read" /\ Refusal # "OK"
    /\ err' = Refusal
    /\ pc' = "done"
    /\ UNCHANGED <<nd, req, odometer, src, tile, overflow, buf, dst>>

(* From here on there is a buffer. *)
Buffer == IF req.given THEN "caller" ELSE "new"

ReadEmpty ==
    /\ pc = "read" /\ Refusal = "OK" /\ TileSize = 0
    /\ buf' = Buffer /\ dst' = "tile" /\ err' = "OK"
    /\ pc' = "done"
    /\ UNCHANGED <<nd, req, odometer, src, tile, overflow>>

(* asdf_ndarray_read_tile_init_strides fails: cleanup frees the buffer. *)
NoStrides ==
    /\ pc = "read" /\ Refusal = "OK" /\ TileSize > 0 /\ BadDims # {}
    /\ err' = IF Strides[Max(BadDims)] = 0 THEN "UNDEFINED" ELSE "OUT_OF_BOUNDS"
    /\ buf' = IF req.given THEN "caller" ELSE "freed"
    /\ pc' = "done"
    /\ UNCHANGED <<nd, req, odometer, src, tile, overflow, dst>>

(* All outer extents are 1: the tile is contiguous.  The local overflow    *)
(* keeps cleanup from freeing the buffer.                                  *)
Is1d == \A d \in 1 .. Ndim - 1 : req.shape[d] = 1

Copying == pc = "read" /\ Refusal = "OK" /\ TileSize > 0 /\ BadDims = {}

Read1d ==
    /\ Copying /\ Is1d /\ InData(Offset, TileSize)
    /\ tile' = Converted(Offset, TileSize)
    /\ err' = IF ConvertOverflows(Offset, TileSize) THEN "OVERFLOW" ELSE "OK"
    /\ buf' = Buffer /\ dst' = "tile"
    /\ pc' = "done"
    /\ UNCHANGED <<nd, req, odometer, src, overflow>>

ReadNd ==
    /\ Copying /\ ~Is1d
    /\ odometer' = [d \in 1 .. Ndim - 1 |-> req.origin[d]]
    /\ src' = Offset
    /\ buf' = Buffer
    /\ pc' = "loop"
    /\ UNCHANGED <<nd, req, tile, overflow, dst, err>>

(* The outer dimensions that wrap when the odometer is advanced. *)
Wraps(d) == \A e \in d .. Ndim - 1 : Wrap(odometer[e] + 1) >= Limit(e)

(* The dimension the carry stops at; 0 when the outermost one wraps. *)
CarryTo == Max({0} \cup {d \in 1 .. Ndim - 1 : ~Wraps(d)})

(* Mutant of NextSrc: the pointer is not backed up over wrapped dimensions. *)
NextSrcNotBackedUp ==
    Wrap(src + Strides[CarryTo]
             + MapThenSumSet(LAMBDA e : Strides[e], CarryTo + 1 .. Ndim - 1))

(* The source pointer after the carry: a wrapped dimension is stepped and  *)
(* then backed up over its extent.                                         *)
NextSrc ==
    Wrap(src + Strides[CarryTo]
             + MapThenSumSet(LAMBDA e : Strides[e] - req.shape[e] * Strides[e],
                             CarryTo + 1 .. Ndim - 1))

NextOdometer ==
    [d \in 1 .. Ndim - 1 |->
        IF d < CarryTo THEN odometer[d]
        ELSE IF d = CarryTo THEN Wrap(odometer[d] + 1) ELSE req.origin[d]]

(* convert() may read and write the next row. *)
RowFits == InData(src, req.shape[Ndim]) /\ HasRoom(req.shape[Ndim])

(* One iteration of the main loop: a row is converted and the odometer     *)
(* advanced.                                                               *)
Row ==
    /\ pc = "loop" /\ CarryTo > 0 /\ RowFits
    /\ tile' = tile \o Converted(src, req.shape[Ndim])
    /\ overflow' = ConvertOverflows(src, req.shape[Ndim])
    /\ src' = NextSrc
    /\ odometer' = NextOdometer
    /\ UNCHANGED <<nd, req, pc, buf, dst, err>>

(* The last iteration.  The overflow of the main loop is returned as the   *)
(* error; the caller's own flag stays false, so on an error cleanup frees  *)
(* a buffer allocated here, after *dst was set to it.                      *)
LastRow ==
    /\ pc = "loop" /\ CarryTo = 0 /\ RowFits
    /\ tile' = tile \o Converted(src, req.shape[Ndim])
    /\ overflow' = ConvertOverflows(src, req.shape[Ndim])
    /\ err' = IF overflow' THEN "OVERFLOW" ELSE "OK"
    /\ dst' = "tile"
    /\ buf' = IF err' # "OK" /\ buf = "new" THEN "freed" ELSE buf
    /\ pc' = "done"
    /\ UNCHANGED <<nd, req, odometer, src>>

(* convert() accesses memory outside the data or the tile. *)
Undefined ==
    /\ \/ Copying /\ Is1d /\ ~InData(Offset, TileSize)
       \/ pc = "loop" /\ ~RowFits
    /\ err' = "UNDEFINED"
    /\ pc' = "done"
    /\ UNCHANGED <<nd, req, odometer, src, tile, overflow, buf, dst>>

Init ==
    /\ nd \in Arrays
    /\ req = NoRequest /\ pc = "call"
    /\ odometer = <<>> /\ src = 0 /\ tile = <<>> /\ overflow = FALSE
    /\ buf = "none" /\ dst = "NULL" /\ err = "none"

ReadStep ==
    Refuse \/ ReadEmpty \/ NoStrides \/ Read1d \/ ReadNd \/ Row \/ LastRow \/ Undefined

Next == CallTile \/ CallAll \/ CallAt \/ CallTile2d \/ CallTooFlat \/ ReadStep

Spec == Init /\ [][Next]_vars

-----------------------------------------------------------------------------
(* The element that belongs at position k of the tile, in C order. *)
IndexAt(k) ==
    LET Below(d) == Product([i \in 1 .. Ndim - d |-> req.shape[d + i]])
    IN  MapThenSumSet(
            LAMBDA d : (req.origin[d] + (((k - 1) \div Below(d)) % req.shape[d])) * Strides[d],
            Dims)

(* The number nearest to v that the type T holds. *)
Nearest(T, v) == IF v < MinOf(T) THEN MinOf(T) ELSE IF v > MaxOf(T) THEN MaxOf(T) ELSE v

(* No sum of the request and not the size of the array exceed 64 bits: the *)
(* properties of the tile are about these requests, and OutOfBoundsRefused *)
(* is about the others.                                                    *)
NoWrap ==
    /\ req # NoRequest
    /\ Product(nd.shape) < 2 ^ W64
    /\ \A d \in Dims : req.origin[d] + req.shape[d] < 2 ^ W64

(* There is data for every element of the array. *)
Covered == Ndim > 0 => Product(nd.shape) <= Len(nd.elems)

(* The request lies within the array. *)
InBounds == \A d \in Dims : req.origin[d] + req.shape[d] <= nd.shape[d]

LostIn(positions) ==
    \E k \in positions : nd.elems[tile[k].from + 1] \notin RangeOf(req.type)

(* Unless a sum wraps, at the head of the main loop the source pointer is  *)
(* at the row the odometer names, the row lies within the array, and the   *)
(* rows before it are those already written.                               *)
OdometerRight ==
    pc = "loop" /\ NoWrap =>
        /\ \A d \in 1 .. Ndim - 1 :
            odometer[d] \in req.origin[d] .. req.origin[d] + req.shape[d] - 1
        /\ src = req.origin[Ndim]
                 + MapThenSumSet(LAMBDA d : odometer[d] * Strides[d], 1 .. Ndim - 1)
        /\ src + req.shape[Ndim] <= asdf_ndarray_size
        /\ src = IndexAt(Len(tile) + 1)

(* The tile holds, in C order, every element of the request and nothing    *)
(* else, each converted to the nearest number of the datatype asked for.   *)
TileElements ==
    /\ InBounds
    /\ Len(tile) = TileSize
    /\ \A k \in 1 .. TileSize :
        /\ tile[k].from = IndexAt(k)
        /\ tile[k].val = Nearest(req.type, nd.elems[tile[k].from + 1])

(* An overflow is reported only if an element did not fit, and always if   *)
(* one of the last row did not.                                            *)
OverflowOfLastRow ==
    TileSize > 0 =>
        /\ err = "OVERFLOW" => LostIn(DOMAIN tile)
        /\ LostIn(Len(tile) - req.shape[Ndim] + 1 .. Len(tile)) => err = "OVERFLOW"

(* Unless a sum wraps, a tile that is returned has exactly the elements    *)
(* asked for, each converted to the nearest number of the datatype         *)
(* whatever the pair of datatypes, the overflow reported is that of its    *)
(* last row, memory outside the data and the tile is left alone, and what  *)
(* lies within an array of at most INT64_MAX elements, all of them there,  *)
(* is not refused as out of bounds.  Always, a buffer allocated by the     *)
(* read reaches the caller if the read succeeds and is not left behind if  *)
(* it is refused.                                                          *)
TileRight ==
    pc = "done" =>
        /\ NoWrap =>
            /\ err # "UNDEFINED"
            /\ err \in {"OK", "OVERFLOW"} => TileElements /\ OverflowOfLastRow
            /\ InBounds /\ Covered /\ Product(nd.shape) <= MaxOf("INT64")
                => err # "OUT_OF_BOUNDS"
        /\ err = "OK" => dst = "tile" /\ buf # "freed"
        /\ dst = "NULL" /\ err # "UNDEFINED" => buf # "new"

(* A read that is not refused lies within an array whose data is all       *)
(* there.  It does not hold: check_bounds and asdf_ndarray_size wrap.      *)
OutOfBoundsRefused ==
    pc = "done" /\ err \in {"OK", "OVERFLOW", "UNDEFINED"} => InBounds /\ Covered

(* An overflow is reported whenever an element did not fit. *)
OverflowReported ==
    pc = "done" /\ err = "OK" => ~LostIn(DOMAIN tile)

(* The pointer the caller is left with is never one that was freed: the    *)
(* caller releases the buffer, as include/asdf/core/ndarray.h says.        *)
DstNotFreed == pc = "done" /\ dst = "tile" => buf # "freed"
=============================================================================
