--------------------------- MODULE YamlPath_proofs ---------------------------
(* Proofs for YamlPath: the parser never leaves the string, whatever its      *)
(* length and its characters.                                                 *)
EXTENDS YamlPath, Minimum, TLAPS

\* The pointer is in the string or at its end, which is what the loop stops at.
IInv == path \in Seq(STRING) /\ InBounds

\* A scan from inside the string (SKIP_WHITESPACE, the loops of
\* find_path_component_*) stops at a position that is not before the first one
\* nor behind the end.
LEMMA ScanStays ==
    ASSUME NEW q \in Nat, q >= 1, q <= End, path \in Seq(STRING),
           NEW S, S \subseteq q .. Len(path)
    PROVE  Min({End} \cup S) \in q .. End
  <1>1. End \in Nat /\ Len(path) = End - 1
    BY DEF End
  <1>2. {End} \cup S \subseteq Nat
    BY <1>1
  <1>3. \E x \in {End} \cup S : \A y \in {End} \cup S : x <= y
    BY <1>2, MinExists
  <1>4. Min({End} \cup S) \in {End} \cup S
    BY <1>3 DEF Min
  <1>5. CASE Min({End} \cup S) \in S
    <2>1. Min({End} \cup S) \in q .. Len(path)
      BY <1>5
    <2>2. QED
      BY <2>1, <1>1
  <1>6. CASE Min({End} \cup S) = End
    BY <1>1, <1>6
  <1>7. QED
    BY <1>4, <1>5, <1>6

\* The same of the scans by name.
LEMMA ScansStay ==
    ASSUME NEW q \in Nat, q >= 1, q <= End, path \in Seq(STRING)
    PROVE  /\ \A S : PassOver(S, q) \in q .. End
           /\ \A S : ScanTo(S, q) \in q .. End
           /\ SkipSpace(q) \in q .. End
  <1>1. ASSUME NEW S PROVE PassOver(S, q) \in q .. End
    <2>1. {r \in q .. Len(path) : path[r] \notin S} \subseteq q .. Len(path)
      OBVIOUS
    <2>2. QED
      BY <2>1, ScanStays DEF PassOver
  <1>2. ASSUME NEW S PROVE ScanTo(S, q) \in q .. End
    <2>1. {r \in q .. Len(path) : path[r] \in S} \subseteq q .. Len(path)
      OBVIOUS
    <2>2. QED
      BY <2>1, ScanStays DEF ScanTo
  <1>3. QED
    BY <1>1, <1>2 DEF SkipSpace

\* find_path_component_any: a plain key is not longer than the rest of the
\* string.
LEMMA AnyStays ==
    ASSUME NEW q \in Nat, q >= 1, q <= End, path \in Seq(STRING),
           find_path_component_any(q).ok
    PROVE  /\ find_path_component_any(q).len \in Nat
           /\ q + find_path_component_any(q).len <= End
  <1> DEFINE s == SkipSpace(q)
             e == ScanTo({"/"}, s)
  <1>1. s \in q .. End /\ End \in Nat
    BY ScansStay DEF End
  <1>2. e \in s .. End
    BY <1>1, ScansStay
  <1>3. find_path_component_any(q).len = e - s
    BY DEF find_path_component_any, Invalid, Found
  <1>4. QED
    BY <1>1, <1>2, <1>3

\* find_path_component_map: a quoted key ends at a quote, which is a character
\* of the string and not its end.
LEMMA MapStays ==
    ASSUME NEW q \in Nat, q >= 1, q <= End, path \in Seq(STRING), NEW close,
           find_path_component_map(q, close).ok
    PROVE  /\ find_path_component_map(q, close).len \in Nat
           /\ q + find_path_component_map(q, close).len <= End
  <1> DEFINE e == Min({End} \cup MapEnd(q, close))
  <1>1. e \in q .. End /\ End \in Nat
    <2>1. MapEnd(q, close) \subseteq q .. Len(path)
      BY DEF MapEnd
    <2>2. e \in q .. End
      BY <2>1, ScanStays
    <2>3. QED
      BY <2>2 DEF End
  <1>2. e # End /\ find_path_component_map(q, close).len = e - q + 1
    BY DEF find_path_component_map, Invalid, Found
  <1>3. QED
    BY <1>1, <1>2

\* find_path_component_seq: an index ends behind a closing bracket, and the
\* white space that follows it may reach the end of the string.
LEMMA SeqStays ==
    ASSUME NEW q \in Nat, q >= 1, q <= End, path \in Seq(STRING),
           find_path_component_seq(q).ok
    PROVE  /\ find_path_component_seq(q).len \in Nat
           /\ q + find_path_component_seq(q).len <= End
  <1> DEFINE s == SkipSpace(q)
             d == IF At(s) = "-" THEN s + 1 ELSE s
             e == PassOver(Digits, d)
             w == SkipSpace(e)
             z == SkipSpace(w + 1)
  <1>1. s \in q .. End /\ End \in Nat
    BY ScansStay DEF End
  <1>2. d \in s .. End
    BY <1>1 DEF At
  <1>3. e \in d .. End
    BY <1>1, <1>2, ScansStay
  <1>4. w \in e .. End
    BY <1>1, <1>2, <1>3, ScansStay
  <1>5. At(w) = "]" /\ find_path_component_seq(q).len = z - s
    BY DEF find_path_component_seq, Invalid, Found
  <1>6. w + 1 <= End
    BY <1>1, <1>2, <1>3, <1>4, <1>5 DEF At
  <1>7. z \in w + 1 .. End
    BY <1>1, <1>2, <1>3, <1>4, <1>6, ScansStay
  <1>8. QED
    BY <1>1, <1>2, <1>3, <1>4, <1>5, <1>7

\* parse_single_path_component moves the pointer on, to the end at most.
LEMMA ComponentStays ==
    ASSUME path \in Seq(STRING), p \in 1 .. End, p # End,
           parse_single_path_component(p).ok
    PROVE  parse_single_path_component(p).next \in p + 1 .. End
  <1> DEFINE t == target_for_bracket(path[p])
             first == IF t = "ANY" THEN p ELSE p + 1
             f == find_path_component(t, first, path[p])
  <1>1. End \in Nat /\ p \in Nat /\ first \in Nat /\ first >= p /\ first >= 1 /\ first <= End
    BY DEF End
  <1>2. f.ok /\ parse_single_path_component(p).next = AfterSlash(first + f.len)
    BY DEF parse_single_path_component, Invalid
  <1>3. f.len \in Nat /\ first + f.len <= End
    <2>1. t \in {"ANY", "MAP", "SEQ"}
      BY DEF target_for_bracket
    <2>2. CASE t = "ANY"
      <3>1. f = find_path_component_any(first)
        BY <2>2 DEF find_path_component
      <3>2. QED
        BY <3>1, <1>1, <1>2, AnyStays
    <2>3. CASE t = "MAP"
      <3>1. f = find_path_component_map(first, path[p])
        BY <2>3 DEF find_path_component
      <3>2. QED
        BY <3>1, <1>1, <1>2, MapStays
    <2>4. CASE t = "SEQ"
      <3>1. f = find_path_component_seq(first)
        BY <2>4 DEF find_path_component
      <3>2. QED
        BY <3>1, <1>1, <1>2, SeqStays
    <2>5. QED
      BY <2>1, <2>2, <2>3, <2>4
  <1>4. QED
    BY <1>1, <1>2, <1>3 DEF AfterSlash

\* The invariant holds when asdf_yaml_path_parse is called.
LEMMA InvInit == Init => IInv
  BY PathsAssumption DEF Init, IInv, InBounds, End

\* Each step of asdf_yaml_path_parse keeps the pointer in the string.
LEMMA InvNext == IInv /\ [Next]_vars => IInv'
  <1> SUFFICES ASSUME IInv, [Next]_vars PROVE IInv'
    OBVIOUS
  <1>1. path \in Seq(STRING) /\ p \in 1 .. End /\ End \in Nat
    BY DEF IInv, InBounds, End
  <1>2. path' = path
    BY DEF Next, Start, ParseComponent, ParseInvalid, Done, vars
  <1>3. End' = End
    BY <1>2 DEF End
  <1>4. p' \in 1 .. End
    <2>1. CASE Start
      <3>1. p' = PassOver({"/", " "}, 1)
        BY <2>1 DEF Start
      <3>2. 1 \in Nat /\ 1 >= 1 /\ 1 <= End
        BY <1>1
      <3>3. \A S : PassOver(S, 1) \in 1 .. End
        BY <3>2, <1>1, ScansStay
      <3>4. QED
        BY <3>1, <3>3
    <2>2. CASE ParseComponent
      <3>1. /\ p # End /\ parse_single_path_component(p).ok
            /\ p' = parse_single_path_component(p).next
        BY <2>2 DEF ParseComponent
      <3>2. QED
        BY <3>1, <1>1, ComponentStays
    <2>3. CASE ParseInvalid
      BY <2>3, <1>1 DEF ParseInvalid
    <2>4. CASE Done
      BY <2>4, <1>1 DEF Done
    <2>5. CASE UNCHANGED vars
      BY <2>5, <1>1 DEF vars
    <2>6. QED
      BY <2>1, <2>2, <2>3, <2>4, <2>5 DEF Next
  <1>5. QED
    BY <1>1, <1>2, <1>3, <1>4 DEF IInv, InBounds

\* For every set of paths: asdf_yaml_path_parse reads no character behind the
\* end of the string, and its loop, which stops at the end only, cannot jump
\* over it.
THEOREM PointerStays == Spec => []InBounds
  <1>1. IInv => InBounds
    BY DEF IInv
  <1>2. QED
    BY InvInit, InvNext, <1>1, PTL DEF Spec

\* Every iteration of the loop of asdf_yaml_path_parse moves the pointer on, so
\* that there are no more of them than the string has characters: the step
\* that `Ends` rests on.
THEOREM PointerAdvances == Spec => [][ParseComponent => p' > p]_vars
  <1>1. IInv /\ [Next]_vars => [ParseComponent => p' > p]_vars
    <2> SUFFICES ASSUME IInv, ParseComponent PROVE p' > p
      OBVIOUS
    <2>1. path \in Seq(STRING) /\ p \in 1 .. End /\ End \in Nat
      BY DEF IInv, InBounds, End
    <2>2. /\ p # End /\ parse_single_path_component(p).ok
          /\ p' = parse_single_path_component(p).next
      BY DEF ParseComponent
    <2>3. p' \in p + 1 .. End
      BY <2>1, <2>2, ComponentStays
    <2>4. QED
      BY <2>1, <2>3
  <1>2. QED
    BY InvInit, InvNext, <1>1, PTL DEF Spec
=============================================================================
