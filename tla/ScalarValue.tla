---------------------------- MODULE ScalarValue ----------------------------
(***************************************************************************)
(* Scalar values of the tree (src/value.c): an asdf_value_t wraps a YAML   *)
(* scalar node, finds out its type the first time it is asked, and caches  *)
(* type, error and C value in the wrapper.  The is_<type> and as_<type>    *)
(* accessors may be called in any order on any wrapper of the node: the    *)
(* one the tree made, one asdf_value_of_<type> made, a shallow or a deep   *)
(* copy.                                                                   *)
(*                                                                         *)
(* The text of a scalar is abstracted to what the YAML recognisers of      *)
(* src/yaml.c make of it: a null, a bool, an int (its number), a float (by *)
(* its magnitude) or none of these.  The widths of the C integer types are *)
(* constants, so that every boundary is reached with small numbers.        *)
(***************************************************************************)
EXTENDS CInts

CONSTANTS
    Nodes,     \* the scalar nodes a tree may hold
    Numbers,   \* the numbers passed to asdf_value_of_<int type>
    Values     \* the wrappers that exist at the same time

(* How large a floating point number is: within float, within double, too  *)
(* large for a double (the parser then yields HUGE_VAL), or .inf/.nan.     *)
Reals == {"float", "double", "over", "special"}

(* A scalar node.  style: plain, or one of the quoted and block styles.    *)
(* tag: a YAML common schema tag, any other tag, or none.  form, spell,    *)
(* neg, mag, real and truth: the text.  spell tells the single characters  *)
(* 0 and 1 and other decimal digits (01 and, no int, 08 among them) from   *)
(* texts of other bases and other characters.                              *)
NodeType ==
    {n \in [style : {"plain", "quoted"},
            tag   : {"none", "other", "null", "bool", "int", "float", "str"},
            form  : {"null", "bool", "int", "float", "other"},
            spell : {"digit", "decimal", "other"},
            neg : BOOLEAN, mag : Nat, real : Reals, truth : BOOLEAN] :
        n.spell = "digit" => n.form = "int" /\ ~n.neg /\ n.mag \in {0, 1}}

ASSUME NodesAssumption   == Nodes \subseteq NodeType
ASSUME NumbersAssumption == Numbers \subseteq Int

VARIABLES
    node,   \* the fy_node: style, tag and text
    inTree, \* the node is attached to the tree of the file
    val,    \* the wrappers of that node, or None
    res     \* the last accessor called and what it answered

vars == <<node, inTree, val, res>>

(* ASDF_VALUE_* type of a wrapper of a scalar node. *)
ValueTypes == IntTypes \cup {"SCALAR", "UNKNOWN", "STRING", "NULL", "BOOL", "FLOAT", "DOUBLE"}

Errors == {"OK", "UNKNOWN", "PARSE_FAILURE", "OVERFLOW", "TYPE_MISMATCH"}

None == [type |-> "none"]

(* scalar.u and scalar.i are members of one union: the same 64 bits. *)
ScalarI(v) == Cast("INT64", v.u)

-----------------------------------------------------------------------------
(* The nodes of numbers, of other texts, and of a quoted text. *)
IntNode(tag, neg, mag) ==
    [style |-> "plain", tag |-> tag, form |-> "int", neg |-> neg, mag |-> mag,
     spell |-> IF ~neg /\ mag \in {0, 1} THEN "digit" ELSE "decimal",
     real |-> "float", truth |-> mag = 1]
TextNode(tag, form, r, b) ==
    [style |-> "plain", tag |-> tag, form |-> form, spell |-> "other", neg |-> FALSE,
     mag |-> 0, real |-> r, truth |-> b]
Quoted(n) == [n EXCEPT !.style = "quoted"]
Spelled(n, s) == [n EXCEPT !.spell = s]

(* asdf_value_create: nothing is known about the scalar yet. *)
asdf_value_create(attached) ==
    [type |-> "SCALAR", err |-> "UNKNOWN", u |-> 0, d |-> "float", b |-> FALSE,
     attached |-> attached]

(* asdf_value_of_<type> sets the type and the C value; the node it creates *)
(* is that value printed in plain style, not yet in the tree.              *)
asdf_value_of(T, n) == [asdf_value_create(FALSE) EXCEPT !.type = T, !.u = n % 2^W64]
asdf_value_of_float(T, r) == [asdf_value_create(FALSE) EXCEPT !.type = T, !.d = r]
asdf_value_of_bool(b) == [asdf_value_create(FALSE) EXCEPT !.type = "BOOL", !.b = b]

-----------------------------------------------------------------------------
(* Inference.  Each step answers the wrapper with type, err and scalar     *)
(* updated; the error is what the C function returns.                      *)

asdf_value_infer_null(v) ==
    IF node.form = "null"
    THEN [v EXCEPT !.type = "NULL", !.err = "OK"]
    ELSE [v EXCEPT !.type = "UNKNOWN", !.err = "PARSE_FAILURE"]

(* The texts 0 and 1 are accepted too. *)
asdf_value_infer_bool(v) ==
    IF node.form = "bool" \/ node.spell = "digit"
    THEN [v EXCEPT !.type = "BOOL", !.b = node.truth, !.err = "OK"]
    ELSE [v EXCEPT !.type = "UNKNOWN", !.err = "PARSE_FAILURE"]

(* asdf_yaml_scalar_is_int: a magnitude that does not fit 64 bits is an    *)
(* overflow.                                                               *)
asdf_yaml_scalar_is_int ==
    IF node.form # "int" THEN "PARSE_FAILURE"
    ELSE IF node.mag > MaxOf("UINT64") THEN "OVERFLOW" ELSE "OK"

(* The smallest type of Types that holds n. *)
Smallest(Types, n) ==
    CHOOSE T \in Types :
        /\ MinOf(T) <= n /\ n <= MaxOf(T)
        /\ \A S \in Types : MinOf(S) <= n /\ n <= MaxOf(S) => Width[T] <= Width[S]

asdf_value_infer_int(v) ==
    LET err == asdf_yaml_scalar_is_int
    IN  IF err # "OK"
        THEN [v EXCEPT !.type = "UNKNOWN", !.err = err]
        ELSE IF ~node.neg
        THEN [v EXCEPT !.type = Smallest(Unsigned, node.mag), !.u = node.mag, !.err = "OK"]
        ELSE IF node.mag > MaxOf("INT64") + 1
        THEN [v EXCEPT !.type = "UNKNOWN", !.err = "OVERFLOW"]
        ELSE [v EXCEPT !.type = Smallest(Signed, -node.mag), !.u = (-node.mag) % 2^W64,
                       !.err = "OK"]

(* Mutant of infer_float: ERANGE of strtod is ignored. *)
InferFloatNoRange(v, allowInt) ==
    IF node.form = "float" \/ (allowInt /\ node.spell \in {"digit", "decimal"})
    THEN [v EXCEPT !.type = "DOUBLE", !.d = node.real, !.err = "OK"]
    ELSE [v EXCEPT !.type = "UNKNOWN", !.err = "PARSE_FAILURE"]

(* A float too large for a double keeps the type DOUBLE and the value      *)
(* HUGE_VAL, with the error OVERFLOW.  Under a tag, decimal digits need no *)
(* point or exponent.                                                      *)
asdf_value_infer_float(v, allowInt) ==
    IF node.form = "float" \/ (allowInt /\ node.spell \in {"digit", "decimal"})
    THEN [v EXCEPT !.type = "DOUBLE", !.d = node.real,
                   !.err = IF node.real = "over" THEN "OVERFLOW" ELSE "OK"]
    ELSE [v EXCEPT !.type = "UNKNOWN", !.err = "PARSE_FAILURE"]

Recognised(v) == v.err \in {"OK", "OVERFLOW"}

(* A common schema tag decides; STR does not touch err. *)
InferTagged(v) ==
    CASE node.tag = "null"  -> asdf_value_infer_null(v)
      [] node.tag = "bool"  -> asdf_value_infer_bool(v)
      [] node.tag = "int"   -> asdf_value_infer_int(v)
      [] node.tag = "float" -> asdf_value_infer_float(v, TRUE)
      [] node.tag = "str"   -> [v EXCEPT !.type = "STRING"]

(* The core schema heuristics: null, int, bool, float, else a string. *)
InferUntagged(v) ==
    LET n == asdf_value_infer_null(v)
        i == asdf_value_infer_int(n)
        b == asdf_value_infer_bool(i)
        f == asdf_value_infer_float(b, FALSE)
    IN  IF n.err = "OK" THEN n
        ELSE IF Recognised(i) THEN i
        ELSE IF b.err = "OK" THEN b
        ELSE IF Recognised(f) THEN f
        ELSE [f EXCEPT !.type = "STRING", !.err = "OK"]

(* asdf_value_infer_scalar_type: the wrapper after the call and the error  *)
(* it returns.  A wrapper whose type is not SCALAR "has already been       *)
(* inferred" and answers OK, whatever the inference had answered.          *)
asdf_value_infer_scalar_type(v) ==
    IF v.type # "SCALAR" THEN [v |-> v, err |-> "OK"]
    ELSE IF v.err \notin {"UNKNOWN", "OK"} THEN [v |-> v, err |-> v.err]
    ELSE IF node.style # "plain"
         THEN [v |-> [v EXCEPT !.type = "STRING", !.err = "OK"], err |-> "OK"]
    ELSE IF node.tag \in {"null", "bool", "int", "float", "str"}
         THEN LET t == InferTagged(v)
              IN  [v |-> t, err |-> IF node.tag = "str" THEN "OK" ELSE t.err]
    ELSE LET t == InferUntagged(v) IN [v |-> t, err |-> t.err]

-----------------------------------------------------------------------------
(* The is_<type> accessors, on a wrapper whose inference answered OK. *)

asdf_value_is_bool(v) ==
    \/ v.type = "BOOL"
    \/ v.type \in Unsigned /\ v.u \in {0, 1}
    \/ v.type \in Signed /\ ScalarI(v) \in {0, 1}

asdf_value_is_int(v) == v.type \in IntTypes

(* The signed branches compare the upper bound with scalar.u, the 64 bits  *)
(* read as an unsigned number.                                             *)
asdf_value_is_int8(v) ==
    \/ v.type = "INT8"
    \/ v.type \in Signed /\ ScalarI(v) >= MinOf("INT8") /\ v.u <= MaxOf("INT8")
    \/ v.type \in Unsigned /\ v.u <= MaxOf("INT8")

asdf_value_is_int16(v) ==
    \/ v.type \in {"INT16", "INT8", "UINT8"}
    \/ v.type \in Signed /\ ScalarI(v) >= MinOf("INT16") /\ v.u <= MaxOf("INT16")
    \/ v.type \in Unsigned /\ v.u <= MaxOf("INT16")

asdf_value_is_int32(v) ==
    \/ v.type \in {"INT32", "INT16", "INT8", "UINT8", "UINT16"}
    \/ v.type \in Signed /\ ScalarI(v) >= MinOf("INT32") /\ v.u <= MaxOf("INT32")
    \/ v.type \in Unsigned /\ v.u <= MaxOf("INT32")

asdf_value_is_int64(v) ==
    \/ v.type \in IntTypes \ {"UINT64"}
    \/ v.type = "UINT64" /\ v.u <= MaxOf("INT64")

asdf_value_is_uint8(v) ==
    \/ v.type \in Unsigned
    \/ v.type \in Signed /\ 0 <= ScalarI(v) /\ (v.type = "INT8" \/ ScalarI(v) <= MaxOf("UINT8"))

(* Mutant of is_uint16: any wider unsigned number passes, as in is_uint8. *)
IsUint16Unchecked(v) ==
    \/ v.type \in Unsigned
    \/ v.type \in Signed /\ 0 <= ScalarI(v) /\ ScalarI(v) <= MaxOf("UINT16")

asdf_value_is_uint16(v) ==
    \/ v.type \in {"UINT16", "UINT8"}
    \/ v.type \in Unsigned /\ v.u <= MaxOf("UINT16")
    \/ v.type \in {"INT16", "INT8"} /\ ScalarI(v) >= 0
    \/ v.type \in {"INT32", "INT64"} /\ 0 <= ScalarI(v) /\ ScalarI(v) <= MaxOf("UINT16")

(* The INT64 branch compares with UINT16_MAX. *)
asdf_value_is_uint32(v) ==
    \/ v.type \in {"UINT32", "UINT16", "UINT8"}
    \/ v.type = "UINT64" /\ v.u <= MaxOf("UINT32")
    \/ v.type \in {"INT32", "INT16", "INT8"} /\ ScalarI(v) >= 0
    \/ v.type = "INT64" /\ 0 <= ScalarI(v) /\ ScalarI(v) <= MaxOf("UINT16")

asdf_value_is_uint64(v) ==
    \/ v.type \in Unsigned
    \/ v.type \in Signed /\ ScalarI(v) >= 0

asdf_value_is_float(v) == v.type \in {"DOUBLE", "FLOAT"}

IsFunctions == IntTypes \cup {"SCALAR", "STRING", "NULL", "BOOL", "INT", "FLOAT", "DOUBLE"}

(* asdf_value_is_type: the accessor of each type; is_string, is_null and   *)
(* is_double compare the type, is_scalar asks for nothing more than a      *)
(* successful inference.                                                   *)
asdf_value_is_type(v) ==
    [T \in IsFunctions |->
        CASE T \in {"STRING", "NULL", "DOUBLE"} -> v.type = T
          [] T = "SCALAR" -> TRUE
          [] T = "BOOL"   -> asdf_value_is_bool(v)
          [] T = "INT"    -> asdf_value_is_int(v)
          [] T = "INT8"   -> asdf_value_is_int8(v)
          [] T = "INT16"  -> asdf_value_is_int16(v)
          [] T = "INT32"  -> asdf_value_is_int32(v)
          [] T = "INT64"  -> asdf_value_is_int64(v)
          [] T = "UINT8"  -> asdf_value_is_uint8(v)
          [] T = "UINT16" -> asdf_value_is_uint16(v)
          [] T = "UINT32" -> asdf_value_is_uint32(v)
          [] T = "UINT64" -> asdf_value_is_uint64(v)
          [] T = "FLOAT"  -> asdf_value_is_float(v)]

-----------------------------------------------------------------------------
(* The as_<type> accessors, on a wrapper whose inference answered OK: the  *)
(* answers possible, an error and what was stored through out.             *)

Mismatch == {[err |-> "TYPE_MISMATCH", out |-> "unset"]}
Answer(overflow, x) == {[err |-> IF overflow THEN "OVERFLOW" ELSE "OK", out |-> x]}

asdf_value_as_string(v) == IF v.type = "STRING" THEN Answer(FALSE, "text") ELSE Mismatch

(* A UINT8 other than 0 and 1 falls through to the bool case and reads     *)
(* scalar.b, a byte that is neither: either answer.                        *)
asdf_value_as_bool(v) ==
    IF v.type = "UINT8" /\ v.u \in {0, 1} THEN Answer(FALSE, v.u = 1)
    ELSE IF v.type = "UINT8" THEN Answer(FALSE, TRUE) \cup Answer(FALSE, FALSE)
    ELSE IF v.type = "BOOL" THEN Answer(FALSE, v.b)
    ELSE Mismatch

asdf_value_as_int8(v) ==
    IF v.type \in Signed
    THEN Answer(ScalarI(v) > MaxOf("INT8") \/ ScalarI(v) < MinOf("INT8"), Cast("INT8", v.u))
    ELSE IF v.type \in Unsigned THEN Answer(v.u > MaxOf("INT8"), Cast("INT8", v.u))
    ELSE Mismatch

asdf_value_as_int16(v) ==
    IF v.type \in Signed
    THEN Answer(ScalarI(v) > MaxOf("INT16") \/ ScalarI(v) < MinOf("INT16"), Cast("INT16", v.u))
    ELSE IF v.type \in Unsigned THEN Answer(v.u > MaxOf("INT16"), Cast("INT16", v.u))
    ELSE Mismatch

asdf_value_as_int32(v) ==
    IF v.type \in Signed
    THEN Answer(ScalarI(v) > MaxOf("INT32") \/ ScalarI(v) < MinOf("INT32"), Cast("INT32", v.u))
    ELSE IF v.type \in Unsigned THEN Answer(v.u > MaxOf("INT32"), Cast("INT32", v.u))
    ELSE Mismatch

asdf_value_as_int64(v) ==
    IF v.type \in Signed THEN Answer(FALSE, ScalarI(v))
    ELSE IF v.type \in Unsigned THEN Answer(v.u > MaxOf("INT64"), Cast("INT64", v.u))
    ELSE Mismatch

asdf_value_as_uint8(v) ==
    IF v.type = "UINT8" THEN Answer(FALSE, Cast("UINT8", v.u))
    ELSE IF v.type \in Unsigned THEN Answer(v.u > MaxOf("UINT8"), Cast("UINT8", v.u))
    ELSE IF v.type = "INT8" THEN Answer(ScalarI(v) < 0, Cast("UINT8", v.u))
    ELSE IF v.type \in Signed
         THEN Answer(ScalarI(v) < 0 \/ ScalarI(v) > MaxOf("UINT8"), Cast("UINT8", v.u))
    ELSE Mismatch

asdf_value_as_uint16(v) ==
    IF v.type \in {"UINT16", "UINT8"} THEN Answer(FALSE, Cast("UINT16", v.u))
    ELSE IF v.type \in Unsigned THEN Answer(v.u > MaxOf("UINT16"), Cast("UINT16", v.u))
    ELSE IF v.type \in {"INT16", "INT8"} THEN Answer(ScalarI(v) < 0, Cast("UINT16", v.u))
    ELSE IF v.type \in Signed
         THEN Answer(ScalarI(v) < 0 \/ ScalarI(v) > MaxOf("UINT16"), Cast("UINT16", v.u))
    ELSE Mismatch

(* Mutant of as_uint32: scalar.i is compared, so that a negative INT64 passes. *)
AsUint32Signed(v) ==
    IF v.type \in {"UINT32", "UINT16", "UINT8"} THEN Answer(FALSE, Cast("UINT32", v.u))
    ELSE IF v.type \in {"INT32", "INT16", "INT8"} THEN Answer(ScalarI(v) < 0, Cast("UINT32", v.u))
    ELSE IF v.type \in {"UINT64", "INT64"}
         THEN Answer(ScalarI(v) > MaxOf("UINT32"), Cast("UINT32", v.u))
    ELSE Mismatch

(* INT64 is compared as scalar.u: a negative number is a huge one. *)
asdf_value_as_uint32(v) ==
    IF v.type \in {"UINT32", "UINT16", "UINT8"} THEN Answer(FALSE, Cast("UINT32", v.u))
    ELSE IF v.type \in {"INT32", "INT16", "INT8"} THEN Answer(ScalarI(v) < 0, Cast("UINT32", v.u))
    ELSE IF v.type \in {"UINT64", "INT64"} THEN Answer(v.u > MaxOf("UINT32"), Cast("UINT32", v.u))
    ELSE Mismatch

asdf_value_as_uint64(v) ==
    IF v.type \in Unsigned THEN Answer(FALSE, v.u)
    ELSE IF v.type \in Signed THEN Answer(ScalarI(v) < 0, v.u)
    ELSE Mismatch

(* An overflow only if a finite double becomes an infinite float; HUGE_VAL *)
(* is infinite already.                                                    *)
asdf_value_as_float(v) ==
    IF v.type = "FLOAT" THEN Answer(FALSE, v.d)
    ELSE IF v.type = "DOUBLE" THEN Answer(v.d = "double", v.d)
    ELSE Mismatch

asdf_value_as_double(v) ==
    IF v.type \in {"DOUBLE", "FLOAT"} THEN Answer(FALSE, v.d)
    ELSE IF v.type \in Signed THEN Answer(FALSE, ScalarI(v))
    ELSE IF v.type \in Unsigned THEN Answer(FALSE, v.u)
    ELSE Mismatch

AsFunctions == IntTypes \cup {"SCALAR", "STRING", "NULL", "BOOL", "FLOAT", "DOUBLE"}

(* asdf_value_as_type: NULL answers OK or a mismatch and stores nothing. *)
asdf_value_as_type(v) ==
    [T \in AsFunctions \ {"SCALAR"} |->
        CASE T = "STRING" -> asdf_value_as_string(v)
          [] T = "NULL"   -> IF v.type = "NULL" THEN Answer(FALSE, "unset") ELSE Mismatch
          [] T = "BOOL"   -> asdf_value_as_bool(v)
          [] T = "INT8"   -> asdf_value_as_int8(v)
          [] T = "INT16"  -> asdf_value_as_int16(v)
          [] T = "INT32"  -> asdf_value_as_int32(v)
          [] T = "INT64"  -> asdf_value_as_int64(v)
          [] T = "UINT8"  -> asdf_value_as_uint8(v)
          [] T = "UINT16" -> asdf_value_as_uint16(v)
          [] T = "UINT32" -> asdf_value_as_uint32(v)
          [] T = "UINT64" -> asdf_value_as_uint64(v)
          [] T = "FLOAT"  -> asdf_value_as_float(v)
          [] T = "DOUBLE" -> asdf_value_as_double(v)]

-----------------------------------------------------------------------------
NoResult == [call |-> "none"]

(* A node of the tree, not yet wrapped. *)
InitTree ==
    /\ node \in Nodes
    /\ inTree = TRUE
    /\ val = [w \in Values |-> None]

(* A value asdf_value_of_<type> has just made. *)
InitCreated ==
    /\ inTree = FALSE
    /\ \E w \in Values, v \in UNION {
            {asdf_value_of(T, n) : n \in {m \in Numbers : MinOf(T) <= m /\ m <= MaxOf(T)}} :
                T \in IntTypes} :
        /\ val = [x \in Values |-> IF x = w THEN v ELSE None]
        /\ LET n == IF v.type \in Signed THEN ScalarI(v) ELSE v.u
           IN  node = IntNode("none", n < 0, IF n < 0 THEN -n ELSE n)

InitFloat ==
    /\ inTree = FALSE
    /\ \E w \in Values, T \in {"FLOAT", "DOUBLE"}, r \in Reals \ {"over"} :
        /\ T = "FLOAT" => r # "double"
        /\ val = [x \in Values |-> IF x = w THEN asdf_value_of_float(T, r) ELSE None]
        /\ node = TextNode("none", "float", r, FALSE)

InitBool ==
    /\ inTree = FALSE
    /\ \E w \in Values, b \in BOOLEAN :
        /\ val = [x \in Values |-> IF x = w THEN asdf_value_of_bool(b) ELSE None]
        /\ node = TextNode("none", "bool", "float", b)

Init == res = NoResult /\ (InitTree \/ InitCreated \/ InitFloat \/ InitBool)

(* asdf_get_value: a new wrapper of the node at a path. *)
GetValue(w) ==
    /\ inTree
    /\ val[w] = None
    /\ val' = [val EXCEPT ![w] = asdf_value_create(TRUE)]
    /\ res' = NoResult
    /\ UNCHANGED <<node, inTree>>

(* asdf_value_copy: the copy of an attached value shares the node and      *)
(* keeps everything inferred; a detached value is copied deeply and the    *)
(* copy infers anew.                                                       *)
Copy(w, x) ==
    /\ val[w] # None /\ val[x] = None
    /\ val' = [val EXCEPT ![x] = IF val[w].attached THEN val[w] ELSE asdf_value_create(FALSE)]
    /\ res' = NoResult
    /\ UNCHANGED <<node, inTree>>

(* asdf_value_copy_deep, as asdf_mapping_copy calls it: always a new node. *)
CopyDeep(w, x) ==
    /\ val[w] # None /\ val[x] = None
    /\ val' = [val EXCEPT ![x] = asdf_value_create(FALSE)]
    /\ res' = NoResult
    /\ UNCHANGED <<node, inTree>>

Destroy(w) ==
    /\ val[w] # None
    /\ val' = [val EXCEPT ![w] = None]
    /\ res' = NoResult
    /\ UNCHANGED <<node, inTree>>

(* asdf_set_value gives the node to the tree and destroys the wrapper. *)
SetValue(w) ==
    /\ val[w] # None /\ ~val[w].attached
    /\ ~inTree
    /\ inTree' = TRUE
    /\ val' = [val EXCEPT ![w] = None]
    /\ res' = NoResult
    /\ UNCHANGED node

(* asdf_value_is_<type>: false if the inference fails. *)
IsType(w, T) ==
    /\ val[w] # None
    /\ LET i == asdf_value_infer_scalar_type(val[w])
       IN  /\ val' = [val EXCEPT ![w] = i.v]
           /\ res' = [call |-> "is", T |-> T, fresh |-> val[w].type = "SCALAR",
                      answer |-> i.err = "OK" /\ asdf_value_is_type(i.v)[T]]
    /\ UNCHANGED <<node, inTree>>

(* asdf_value_as_<type>: the error of a failed inference is returned and   *)
(* nothing is stored; asdf_value_as_type asks is_null for NULL.            *)
AsType(w, T) ==
    /\ val[w] # None
    /\ LET i == asdf_value_infer_scalar_type(val[w])
           a == IF i.err = "OK" THEN asdf_value_as_type(i.v)[T]
                ELSE IF T = "NULL" THEN Mismatch
                ELSE {[err |-> i.err, out |-> "unset"]}
       IN  /\ val' = [val EXCEPT ![w] = i.v]
           /\ \E r \in a : res' = [call |-> "as", T |-> T, fresh |-> val[w].type = "SCALAR",
                                   err |-> r.err, out |-> r.out]
    /\ UNCHANGED <<node, inTree>>

(* asdf_value_as_scalar: the text, without inference. *)
AsScalar(w) ==
    /\ val[w] # None
    /\ res' = [call |-> "as", T |-> "SCALAR", fresh |-> val[w].type = "SCALAR",
               err |-> "OK", out |-> "text"]
    /\ UNCHANGED <<node, inTree, val>>

(* asdf_value_get_type infers and drops the error. *)
GetType(w) ==
    /\ val[w] # None
    /\ LET v == asdf_value_infer_scalar_type(val[w]).v
       IN  /\ val' = [val EXCEPT ![w] = v]
           /\ res' = [call |-> "type", T |-> v.type, fresh |-> val[w].type = "SCALAR"]
    /\ UNCHANGED <<node, inTree>>

Next ==
    \/ \E w \in Values :
          \/ GetValue(w) \/ Destroy(w) \/ SetValue(w) \/ AsScalar(w) \/ GetType(w)
          \/ \E T \in IsFunctions : IsType(w, T)
          \/ \E T \in AsFunctions \ {"SCALAR"} : AsType(w, T)
    \/ \E w, x \in Values : Copy(w, x) \/ CopyDeep(w, x)

Spec == Init /\ [][Next]_vars

-----------------------------------------------------------------------------
(* What a node denotes, from its style, tag and text alone. *)

Number == IF node.neg THEN -node.mag ELSE node.mag

FormFitsTag ==
    \/ node.form = node.tag
    \/ node.spell \in {"digit", "decimal"} /\ node.tag = "float"
    \/ node.spell = "digit" /\ node.tag = "bool"

Meaning ==
    IF node.style # "plain" \/ node.tag = "str" THEN "string"
    ELSE IF node.tag \in {"null", "bool", "int", "float"}
         THEN IF FormFitsTag THEN node.tag ELSE "malformed"
    ELSE IF node.form = "other" THEN "string" ELSE node.form

(* The number denoted is one the C type T holds. *)
Fits(T) ==
    IF T \in IntTypes
    THEN Meaning = "int" /\ MinOf(T) <= Number /\ Number <= MaxOf(T)
    ELSE \/ Meaning = "float" /\ node.real \in {"float", "special"}
         \/ Meaning = "float" /\ node.real = "double" /\ T = "DOUBLE"
         \/ Meaning = "int" /\ T = "DOUBLE"
            /\ MinOf("INT64") <= Number /\ Number <= MaxOf("UINT64")

NumberTypes == IntTypes \cup {"FLOAT", "DOUBLE"}

(* The values a wrapper, the tree flag and an answer may have; a wrapper   *)
(* typed as an integer holds a number of that type.                        *)
TypeOK ==
    /\ inTree \in BOOLEAN
    /\ \A w \in Values : val[w] # None =>
        /\ val[w].type \in ValueTypes
        /\ val[w].err \in Errors
        /\ val[w].u \in 0 .. MaxOf("UINT64")
        /\ val[w].d \in Reals /\ val[w].b \in BOOLEAN /\ val[w].attached \in BOOLEAN
        /\ val[w].type \in Unsigned => val[w].u <= MaxOf(val[w].type)
        /\ val[w].type \in Signed =>
             MinOf(val[w].type) <= ScalarI(val[w]) /\ ScalarI(val[w]) <= MaxOf(val[w].type)
    /\ res.call \in {"none", "is", "as", "type"}

(* asdf_value_as_<int type> answers OK exactly when the node denotes an    *)
(* integer the type holds, and then stores that integer, whichever wrapper *)
(* is asked (read, created by asdf_value_of_<type>, copied) and whatever   *)
(* was asked before; it answers OVERFLOW only for a number that does not   *)
(* fit.                                                                    *)
AsIntRight ==
    res.call = "as" /\ res.T \in IntTypes =>
        /\ (res.err = "OK") = Fits(res.T)
        /\ res.err = "OK" => res.out = Number
        /\ res.err = "OVERFLOW" => Meaning \in {"int", "float"} /\ ~Fits(res.T)

(* asdf_value_is_<int type> (uint8 aside, which accepts every unsigned     *)
(* number) is true only of a number the type holds, so that the as_<type>  *)
(* call it guards cannot fail; asked first of a wrapper read from the      *)
(* tree, it is true of every such number.                                  *)
IsIntRight ==
    res.call = "is" /\ res.T \in IntTypes \ {"UINT8"} =>
        /\ res.answer => Fits(res.T)
        /\ res.fresh /\ Fits(res.T) => res.answer

(* The first question asked of a wrapper is answered by the rules of the   *)
(* documentation: OK for a number that fits, OVERFLOW for one that does    *)
(* not, PARSE_FAILURE for a text that contradicts its tag, and a mismatch  *)
(* otherwise.                                                              *)
FirstAnswerRight ==
    res.call = "as" /\ res.fresh /\ res.T \in NumberTypes =>
        res.err =
            IF Meaning = "malformed" THEN "PARSE_FAILURE"
            ELSE IF Fits(res.T) THEN "OK"
            ELSE IF \/ Meaning = "int" /\ res.T # "FLOAT"
                    \/ Meaning = "int" /\ \A T \in IntTypes : ~Fits(T)
                    \/ Meaning = "float" /\ res.T \in {"FLOAT", "DOUBLE"}
                    \/ Meaning = "float" /\ node.real = "over"
                 THEN "OVERFLOW"
            ELSE "TYPE_MISMATCH"

(* A number that does not fit the type asked for is reported as an         *)
(* overflow, as include/asdf/value.h says of asdf_value_as_<type>.  The    *)
(* code does so for the first question only.                               *)
OverflowReported ==
    /\ res.call = "as"
    /\ \/ Meaning = "int" /\ res.T \in IntTypes
       \/ Meaning = "float" /\ res.T \in {"FLOAT", "DOUBLE"}
    /\ ~Fits(res.T)
    => res.err = "OVERFLOW"
=============================================================================
