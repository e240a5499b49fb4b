------------------------------- MODULE Arrays -------------------------------
(***************************************************************************)
(* What a client of libasdf may rely on about arrays: an ndarray object    *)
(* has a value of its own, and so has every path of a file's tree that     *)
(* names an array.  Each call changes the one object or the one path it is *)
(* about, and values only come from the object or path they are said to    *)
(* come from; where the data is kept (a binary block, the YAML tree, a     *)
(* buffer of the library's) is not to be seen.                             *)
(***************************************************************************)
CONSTANTS
    Arrays,   \* the ndarray objects
    Files, Paths,
    None,     \* no array, or one without data
    Nothing,  \* what a dataless array is written as
    Filled(_) \* is this what a client fills an array with?

VARIABLES
    val,   \* the value of each object
    doc,   \* the value at each path of each file's tree
    call   \* the call just made

arrayVars == <<val, doc, call>>

\* asdf_get_ndarray
Get(a, f, p) ==
    /\ call' = <<"get", a, f, p>>
    /\ val[a] = None /\ doc[f][p] # None
    /\ val' = [val EXCEPT ![a] = doc[f][p]]
    /\ UNCHANGED doc

\* asdf_ndarray_data, asdf_ndarray_storage_set, the declaration of an array.
See(a) == call' \in {<<"data", a>>, <<"storage", a>>, <<"declare", a>>} /\ UNCHANGED <<val, doc>>

\* asdf_ndarray_data_copy
Fill(a) ==
    /\ call' = <<"fill", a>>
    /\ Filled(val'[a])
    /\ val' = [val EXCEPT ![a] = val'[a]]
    /\ UNCHANGED doc

\* asdf_ndarray_data_alloc, which leaves data that is there already alone.
Alloc(a) ==
    /\ call' = <<"alloc", a>>
    /\ val'[a] = val[a] \/ Filled(val'[a])
    /\ val' = [val EXCEPT ![a] = val'[a]]
    /\ UNCHANGED doc

\* asdf_set_ndarray: the path gets the value, and the file may take the data
\* over from the object.  A call that fails changes no path; the data may be
\* lost to it.
Set(f, p, a, ok) ==
    /\ call' = <<"set", f, p, a, ok>>
    /\ doc' = IF ok THEN [doc EXCEPT ![f][p] = IF val[a] = None THEN Nothing ELSE val[a]]
              ELSE doc
    /\ val' \in {val, [val EXCEPT ![a] = None]}

\* asdf_ndarray_copy
Copy(a, b) ==
    /\ call' = <<"copy", a, b>>
    /\ val[b] = None
    /\ val' = [val EXCEPT ![b] = val[a]]
    /\ UNCHANGED doc

\* asdf_ndarray_destroy, asdf_ndarray_data_dealloc
Drop(a) ==
    /\ call' \in {<<"destroy", a>>, <<"dealloc", a>>}
    /\ val' = [val EXCEPT ![a] = None]
    /\ UNCHANGED doc

\* asdf_close
Close(f) ==
    /\ call' = <<"close", f>>
    /\ doc' = [doc EXCEPT ![f] = [p \in Paths |-> None]]
    /\ UNCHANGED val

Init == val = [a \in Arrays |-> None]

Next ==
    \/ \E a \in Arrays :
          \/ \E f \in Files, p \in Paths : Get(a, f, p) \/ \E ok \in BOOLEAN : Set(f, p, a, ok)
          \/ See(a) \/ Fill(a) \/ Alloc(a) \/ Drop(a)
          \/ \E b \in Arrays : Copy(a, b)
    \/ \E f \in Files : Close(f)

Spec == Init /\ [][Next]_arrayVars
=============================================================================
