------------------------------ MODULE Containers ------------------------------
(* Mappings and sequences of the YAML tree and the values a client holds on  *)
(* them (src/src/value.c).  A value (asdf_value_t) is a handle: it points to *)
(* a node of libfyaml, which is in the document, in a container that is not  *)
(* in the document, or detached.  Nothing counts the handles of a node; who  *)
(* frees it follows from where it is when its handles are destroyed.         *)
(*                                                                           *)
(* libfyaml is external.  Of it is used what the code relies on: a removed   *)
(* node is detached, a replaced value is freed with all below it, freeing an *)
(* attached node does nothing, and the root counts as not attached.          *)
(*                                                                           *)
(* A client that does as it likes breaks every property; the rules it has to *)
(* follow are the elements of AllLiberties.  Liberties are those it takes.   *)
EXTENDS Integers, FiniteSets, Sequences, SequencesExt

CONSTANTS Nodes,      \* a set of naturals: the nodes there is room for
          Handles,    \* the asdf_value_t the client may hold at a time
          Keys, Vals, \* keys of mappings, values of scalars
          Null,       \* no handle
          Starts,     \* documents the client starts from, and calls to make
          Liberties   \* the rules the client does not follow

AllLiberties == {"pop held", "pop last", "parent loose", "replace held", "destroy held",
                 "style attached", "style held", "style copy", "update within",
                 "give attached", "no memory"}

ASSUME LibertiesAssumption == Liberties \subseteq AllLiberties
ASSUME NodesAssumption == Nodes \subseteq Nat /\ 1 \in Nodes /\ IsFiniteSet(Nodes)

VARIABLES node,    \* the nodes of libfyaml
          value,   \* the handles of the client
          wild,    \* a freed node was used
          call,    \* the last call
          calls    \* calls the client still makes

vars == <<node, value, wild, call, calls>>

Root     == 1
FreeNode == [kind |-> "free", val |-> 0, flow |-> FALSE, kids |-> <<>>]
Scalar(v)  == [FreeNode EXCEPT !.kind = "scalar", !.val = v]
Empty(kind) == [FreeNode EXCEPT !.kind = kind]
Kid(key, n) == [key |-> key, node |-> n]
NoKey    == "none"        \* items of a sequence have none

-----------------------------------------------------------------------------
(* libfyaml, in a state F of the nodes *)

KidsOf(F, n) == {F[n].kids[i].node : i \in DOMAIN F[n].kids}
IsContainer(F, n) == F[n].kind \in {"map", "seq"}

RECURSIVE Subtree(_, _)
Subtree(F, n) == {n} \cup UNION {Subtree(F, k) : k \in KidsOf(F, n)}

Parents(F, n)  == {m \in Nodes : n \in KidsOf(F, m)}
Attached(F, n) == Parents(F, n) # {}
\* fy_node_is_attached or is_root_node: the document, or a container, has it.
Kept(F, n)     == Attached(F, n) \/ n = Root

FreeTree(F, n) == [x \in Nodes |-> IF x \in Subtree(F, n) THEN FreeNode ELSE F[x]]
fy_node_free(F, n) == IF Attached(F, n) THEN F ELSE FreeTree(F, n)

Spare(F)   == {x \in Nodes : F[x].kind = "free"}
Room(F, k) == Cardinality(Spare(F)) >= k
Fresh(F)   == CHOOSE x \in Spare(F) : \A y \in Spare(F) : x <= y

\* fy_node_copy: a detached copy of n and all below it, with `Style` applied.
CopyTree(F, n, Style(_)) ==
    LET from   == SetToSortSeq(Subtree(F, n), <)
        to     == SubSeq(SetToSortSeq(Spare(F), <), 1, Len(from))
        old(x) == from[CHOOSE i \in DOMAIN from : to[i] = x]
        new(x) == to[CHOOSE i \in DOMAIN from : from[i] = x]
    IN  [F |-> [x \in Nodes |->
                  IF x \notin Range(to) THEN F[x]
                  ELSE [Style(F[old(x)]) EXCEPT
                          !.kids = [i \in DOMAIN @ |-> Kid(@[i].key, new(@[i].node))]]],
         n |-> new(n)]

fy_node_copy(F, n) == LET Same(x) == x IN CopyTree(F, n, Same)

-----------------------------------------------------------------------------
(* Values *)

NoValue == [node |-> 0, shallow |-> FALSE, made |-> Null]
\* asdf_value_create(_ex): a handle that is not shallow.
OnNode(n, made) == [node |-> n, shallow |-> FALSE, made |-> made]

Held(n)       == {h \in Handles : value[h].made # Null /\ value[h].node = n}
HeldIn(S)     == UNION {Held(n) : n \in S}
IsFree(h)     == value[h].made = Null
On(h, kind)   == ~IsFree(h) /\ node[value[h].node].kind = kind
N(h)          == value[h].node
Takes(rule)   == rule \in Liberties

\* Mutant of Release: the root is not looked for.
ReleaseRoot(F, v) == IF ~v.shallow /\ ~Attached(F, v.node) THEN fy_node_free(F, v.node) ELSE F

\* asdf_value_destroy: what becomes of the nodes.
Release(F, v) == IF ~v.shallow /\ ~Kept(F, v.node) THEN fy_node_free(F, v.node) ELSE F

Destroy(h) ==
    /\ ~IsFree(h)
    /\ \/ value[h].shallow \/ Kept(node, N(h))
       \/ HeldIn(Subtree(node, N(h))) = {h} \/ Takes("destroy held")
    /\ node' = Release(node, value[h])
    /\ value' = [value EXCEPT ![h] = NoValue]
    /\ call' = <<"destroy", h>>
    /\ UNCHANGED wild

\* asdf_get_value, asdf_get_mapping: a handle on the root.
GetRoot(h) ==
    /\ IsFree(h)
    /\ value' = [value EXCEPT ![h] = OnNode(Root, "get")]
    /\ call' = <<"root", h>>
    /\ UNCHANGED <<node, wild>>

KeyAt(F, m, key) == {i \in DOMAIN F[m].kids : F[m].kids[i].key = key}
\* An index counts from the end if it is negative.
ItemAt(F, s, idx) ==
    {i \in DOMAIN F[s].kids : i = IF idx < 0 THEN Len(F[s].kids) + idx + 1 ELSE idx + 1}

\* asdf_mapping_get, asdf_sequence_get
Get(g, h, places) ==
    /\ IsFree(h)
    /\ \E i \in places : value' = [value EXCEPT ![h] = OnNode(node[N(g)].kids[i].node, "get")]
    /\ call' = <<"get", g, h>>
    /\ UNCHANGED <<node, wild>>

MappingGet(g, h, key)  == On(g, "map") /\ Get(g, h, KeyAt(node, N(g), key))
SequenceGet(g, h, idx) == On(g, "seq") /\ Get(g, h, ItemAt(node, N(g), idx))

\* asdf_value_parent.  Rule: not of a value in a container that is not in the
\* document, of which another handle is the owner.
Parent(g, h) ==
    /\ ~IsFree(g) /\ IsFree(h)
    /\ \E p \in Parents(node, N(g)) :
          /\ Kept(node, p) \/ Takes("parent loose")
          /\ value' = [value EXCEPT ![h] = OnNode(p, "get")]
    /\ call' = <<"parent", g, h>>
    /\ UNCHANGED <<node, wild>>

\* asdf_value_copy: a shallow copy of what the document or a container has,
\* else a deep one.
Copy(g, h) ==
    LET c == fy_node_copy(node, N(g))
    IN  /\ ~IsFree(g) /\ IsFree(h)
        /\ IF Kept(node, N(g))
           THEN /\ value' = [value EXCEPT ![h] = [node |-> N(g), shallow |-> TRUE, made |-> "copy"]]
                /\ UNCHANGED node
           ELSE /\ Room(node, Cardinality(Subtree(node, N(g))))
                /\ value' = [value EXCEPT ![h] = OnNode(c.n, "copy")]
                /\ node' = c.F
        /\ call' = <<"copy", g, h>>
        /\ UNCHANGED wild

\* asdf_mapping_copy (asdf_value_copy_deep)
MappingCopy(g, h) ==
    LET c == fy_node_copy(node, N(g))
    IN  /\ On(g, "map") /\ IsFree(h)
        /\ Room(node, Cardinality(Subtree(node, N(g))))
        /\ value' = [value EXCEPT ![h] = OnNode(c.n, "copy")]
        /\ node' = c.F
        /\ call' = <<"mapping_copy", g, h>>
        /\ UNCHANGED wild

\* asdf_mapping_create, asdf_sequence_create
Create(h, kind) ==
    /\ IsFree(h) /\ Room(node, 1)
    /\ node' = [node EXCEPT ![Fresh(node)] = Empty(kind)]
    /\ value' = [value EXCEPT ![h] = OnNode(Fresh(node), "new")]
    /\ call' = <<"create", h>>
    /\ UNCHANGED wild

-----------------------------------------------------------------------------
(* Style *)

\* asdf_yaml_node_set_style: the node is rendered and parsed again.
Restyled(F, n, style) ==
    LET As(x) == [x EXCEPT !.flow = (style = "flow" /\ x.kind # "scalar")]
    IN  CopyTree(F, n, As)

\* asdf_value_set_style.  The style of a handle is zero (auto) for its whole
\* life, so only flow has an effect; in a copy it is not initialized.  Rules:
\* not on a copy; not on a container in the document or in another one (the
\* handle would go over to a detached copy, and the root be freed); not if
\* there is another handle on something in it.
SetStyle(g, style) ==
    LET r == Restyled(node, N(g), style)
        F == fy_node_free(r.F, N(g))
        initial == IF value[g].made = "copy" THEN {"auto", "block", "flow"} ELSE {"auto"}
    IN  /\ On(g, "map") \/ On(g, "seq")
        /\ value[g].made = "copy" => Takes("style copy")
        /\ Kept(node, N(g)) => Takes("style attached")
        /\ HeldIn(Subtree(node, N(g))) # {g} => Takes("style held")
        /\ Room(node, Cardinality(Subtree(node, N(g))))
        /\ \E current \in initial :
              IF style = current \/ (style = "block" /\ current # "flow")
              THEN UNCHANGED <<node, value, wild>>
              ELSE /\ node' = F
                   /\ value' = [value EXCEPT ![g].node = r.n]
                   /\ wild' = (wild \/ N(g) = Root)
        /\ call' = <<"style", g, style>>

\* Mutant of Normalize: the node is taken as it is.
NormalizeNot(F, n) == [F |-> F, n |-> n]

\* asdf_value_normalize_node: an empty container gets flow style.
Normalize(F, n) ==
    LET r == Restyled(F, n, "flow")
    IN  IF IsContainer(F, n) /\ F[n].kids = <<>>
        THEN [F |-> fy_node_free(r.F, n), n |-> r.n]
        ELSE [F |-> F, n |-> n]

-----------------------------------------------------------------------------
(* Putting values into containers *)

\* Mutant of SetNode: the key is not looked up.
SetNodeAgain(F, m, key, n, prepend) ==
    [F EXCEPT ![m].kids = IF prepend THEN <<Kid(key, n)>> \o @ ELSE Append(@, Kid(key, n))]

\* asdf_mapping_set_node_ex: the value of a key there is is replaced (and
\* freed), in place.
SetNode(F, m, key, n, prepend) ==
    IF KeyAt(F, m, key) = {}
    THEN [F EXCEPT ![m].kids = IF prepend THEN <<Kid(key, n)>> \o @ ELSE Append(@, Kid(key, n))]
    ELSE LET i == CHOOSE i \in KeyAt(F, m, key) : TRUE
         IN  [FreeTree(F, F[m].kids[i].node) EXCEPT ![m].kids[i].node = n]

\* What the values of key have below them: no handle should be there when
\* they are replaced.
Replaced(m, key) == UNION {Subtree(node, node[m].kids[i].node) : i \in KeyAt(node, m, key)}
MayReplace(m, key) == HeldIn(Replaced(m, key)) = {} \/ Takes("replace held")

\* asdf_mapping_set_<type>, asdf_sequence_append_<type>
MappingSetScalar(g, key, v) ==
    LET x == Fresh(node)
    IN  /\ On(g, "map") /\ Room(node, 1) /\ MayReplace(N(g), key)
        /\ node' = SetNode([node EXCEPT ![x] = Scalar(v)], N(g), key, x, FALSE)
        /\ call' = <<"set", g, key>>
        /\ UNCHANGED <<value, wild>>

SequenceAppendScalar(g, v) ==
    LET x == Fresh(node)
    IN  /\ On(g, "seq") /\ Room(node, 1)
        /\ node' = [node EXCEPT ![x] = Scalar(v), ![N(g)].kids = Append(@, Kid(NoKey, x))]
        /\ call' = <<"append", g>>
        /\ UNCHANGED <<value, wild>>

\* asdf_sequence_of_<type>: a new sequence of scalars.
SequenceOf(h, v) ==
    LET s == Fresh(node)
        F == [node EXCEPT ![s] = Empty("seq")]
        x == Fresh(F)
    IN  /\ IsFree(h) /\ Room(node, 2)
        /\ node' = [F EXCEPT ![x] = Scalar(v), ![s].kids = <<Kid(NoKey, x)>>]
        /\ value' = [value EXCEPT ![h] = OnNode(s, "new")]
        /\ call' = <<"of", h>>
        /\ UNCHANGED wild

\* A value to be put into container c.  The code looks at neither.  Rules: it
\* is detached, else it is in two places or libfyaml refuses it; c is not in
\* it, else the tree has a cycle (no liberty: Subtree ends on trees only).
MayGive(h, c) ==
    /\ ~IsFree(h) /\ Room(node, 1)
    /\ Kept(node, N(h)) => Takes("give attached")
    /\ c \notin Subtree(node, N(h))

\* asdf_mapping_set, asdf_sequence_append: the handle is used up, also if the
\* container did not take the node ("no memory"), which is then lost.
Outcomes(h) == {TRUE} \cup {x \in {FALSE} : Takes("no memory") \/ Kept(node, N(h))}

MappingSet(g, key, h) ==
    LET z == Normalize(node, N(h))
    IN  /\ On(g, "map") /\ MayGive(h, N(g)) /\ MayReplace(N(g), key)
        /\ \E taken \in Outcomes(h) :
              node' = IF taken THEN SetNode(z.F, N(g), key, z.n, FALSE) ELSE z.F
        /\ value' = [value EXCEPT ![h] = NoValue]
        /\ call' = <<"set", g, key>>
        /\ UNCHANGED wild

SequenceAppend(g, h) ==
    LET z == Normalize(node, N(h))
    IN  /\ On(g, "seq") /\ MayGive(h, N(g))
        /\ \E taken \in Outcomes(h) :
              node' = IF taken THEN [z.F EXCEPT ![N(g)].kids = Append(@, Kid(NoKey, z.n))] ELSE z.F
        /\ value' = [value EXCEPT ![h] = NoValue]
        /\ call' = <<"append", g>>
        /\ UNCHANGED wild

\* asdf_mapping_update_ex: a deep copy of each value of u, put in as by
\* asdf_mapping_set, in order or, to prepend, in reverse order.  The iterator
\* still has the original value when the copy is in: if that has replaced the
\* original, a freed node is used (rule: u is not in the mapping updated).
PutCopy(s, m, kid, prepend) ==
    LET c == fy_node_copy(s.F, kid.node)
        z == Normalize(c.F, c.n)
        F == SetNode(z.F, m, kid.key, z.n, prepend)
    IN  [F |-> F, wild |-> s.wild \/ s.F[kid.node].kind = "free" \/ F[kid.node].kind = "free"]

MappingUpdate(g, u, prepend) ==
    LET pairs == IF prepend THEN Reverse(node[N(u)].kids) ELSE node[N(u)].kids
        Put(s, kid) == PutCopy(s, N(g), kid, prepend)
        r == FoldLeft(Put, [F |-> node, wild |-> wild], pairs)
    IN  /\ On(g, "map") /\ On(u, "map") /\ pairs # <<>>
        /\ N(u) \in Subtree(node, N(g)) => Takes("update within")
        /\ N(g) \in Subtree(node, N(u)) => N(g) = N(u)
        /\ Room(node, Cardinality(Subtree(node, N(u))) + 1)
        /\ \A i \in DOMAIN pairs : MayReplace(N(g), pairs[i].key)
        /\ node' = r.F /\ wild' = r.wild
        /\ call' = <<"update", g, u, prepend>>
        /\ UNCHANGED value

\* asdf_mapping_pop, asdf_sequence_pop: the node is removed, and a new handle
\* owns it.  Rules: there is no handle on it yet; a container in the document
\* is not emptied.
Pop(g, h, places) ==
    /\ IsFree(h)
    /\ \E i \in places :
          LET n == node[N(g)].kids[i].node
          IN  /\ Held(n) = {} \/ Takes("pop held")
              /\ Attached(node, N(g)) /\ Len(node[N(g)].kids) = 1 /\ ~node[N(g)].flow
                    => Takes("pop last")
              /\ node' = [node EXCEPT ![N(g)].kids = RemoveAt(@, i)]
              /\ value' = [value EXCEPT ![h] = OnNode(n, "pop")]
    /\ call' = <<"pop", g, h>>
    /\ UNCHANGED wild

MappingPop(g, h, key)  == On(g, "map") /\ Pop(g, h, KeyAt(node, N(g), key))
SequencePop(g, h, idx) == On(g, "seq") /\ Pop(g, h, ItemAt(node, N(g), idx))

-----------------------------------------------------------------------------
Init ==
    /\ \E s \in Starts : node = s.node /\ calls = s.calls
    /\ value = [h \in Handles |-> NoValue]
    /\ wild = FALSE
    /\ call = <<"none">>

Step ==
    \E g \in Handles :
        \/ GetRoot(g) \/ Destroy(g)
        \/ \E kind \in {"map", "seq"} : Create(g, kind)
        \/ \E v \in Vals : SequenceAppendScalar(g, v) \/ SequenceOf(g, v)
        \/ \E v \in Vals, key \in Keys : MappingSetScalar(g, key, v)
        \/ \E style \in {"block", "flow"} : SetStyle(g, style)
        \/ \E h \in Handles :
              \/ Parent(g, h) \/ Copy(g, h) \/ MappingCopy(g, h) \/ SequenceAppend(g, h)
              \/ \E key \in Keys :
                    MappingGet(g, h, key) \/ MappingSet(g, key, h) \/ MappingPop(g, h, key)
              \/ \E idx \in {-1, 0} : SequenceGet(g, h, idx) \/ SequencePop(g, h, idx)
              \/ \E prepend \in BOOLEAN : MappingUpdate(g, h, prepend)

Next ==
    /\ calls > 0 /\ calls' = calls - 1
    /\ Step

Spec == Init /\ [][Next]_vars

-----------------------------------------------------------------------------
(* Properties *)

Live == {n \in Nodes : node[n].kind # "free"}

\* The handles that free n when they are destroyed.
OwnersOf(n) == {h \in Held(n) : ~value[h].shallow}

\* However values are got, copied, moved, popped and destroyed, by a client
\* that follows the rules: every node has one place in one container, or one
\* handle that frees it, or is the root (asdf_value_destroy, asdf_mapping_set
\* and asdf_mapping_pop neither leak it nor free it twice), and every handle
\* is on a node that was not freed.
OneOwner ==
    /\ Root \in Live /\ ~Attached(node, Root) /\ ~wild
    /\ \A h \in Handles : ~IsFree(h) => N(h) \in Live
    /\ \A n \in Live \ {Root} :
          IF Attached(node, n)
          THEN Cardinality({<<m, i>> \in Nodes \X (1 .. Cardinality(Nodes)) :
                  i \in DOMAIN node[m].kids /\ node[m].kids[i].node = n}) = 1
          ELSE Cardinality(OwnersOf(n)) = 1

\* "If a mapping or sequence is empty it doesn't render anything for the node"
\* (asdf_value_normalize_node): no empty container of the document is without
\* flow style, which would be read back as a null.
EmptyShown ==
    \A n \in Subtree(node, Root) \ {Root} :
        IsContainer(node, n) /\ node[n].kids = <<>> => node[n].flow

RECURSIVE Content(_, _)
Content(F, n) ==
    [kind |-> F[n].kind, val |-> F[n].val,
     kids |-> [i \in DOMAIN F[n].kids |-> <<F[n].kids[i].key, Content(F, F[n].kids[i].node)>>]]

KeysOf(pairs) == [i \in DOMAIN pairs |-> pairs[i][1]]
ValueIn(pairs, key) == pairs[CHOOSE i \in DOMAIN pairs : pairs[i][1] = key][2]

\* asdf_mapping_update ("if keys in the RHS mapping already exist in the LHS
\* they are overwritten, otherwise appended", and the RHS "is left
\* unmodified") and asdf_mapping_update_ex to prepend ("each item gets
\* prepended in their original order"): the mapping ends up with the keys it
\* had, in their order, and the new ones, in theirs, each once, with the
\* values of the update.
UpdateRight ==
    [][call'[1] = "update" /\ N(call'[2]) # N(call'[3]) =>
          LET old == Content(node, N(call'[2])).kids
              upd == Content(node, N(call'[3])).kids
              new == Content(node', N(call'[2])).kids
              added == SelectSeq(KeysOf(upd), LAMBDA k : k \notin Range(KeysOf(old)))
          IN  /\ KeysOf(new) = IF call'[4] THEN added \o KeysOf(old) ELSE KeysOf(old) \o added
              /\ \A k \in Range(KeysOf(new)) :
                    ValueIn(new, k) = IF k \in Range(KeysOf(upd)) THEN ValueIn(upd, k)
                                      ELSE ValueIn(old, k)
              /\ Content(node', N(call'[3])).kids = upd]_vars

\* include/asdf/value.h says of asdf_value_copy: "This performs a deep-copy of
\* a value", and "the new copied value is not initially attached to the YAML
\* tree, so modification to its underlying value is not reflected in the YAML".
CopyDetached == call[1] = "copy" => ~Kept(node, N(call[3]))

\* asdf_mapping_set_style, asdf_sequence_set_style "set the YAML node style
\* used when serializing".
StyleTaken == call[1] = "style" => node[N(call[2])].flow = (call[3] = "flow")
=============================================================================
