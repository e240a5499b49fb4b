------------------------------ MODULE YamlPath ------------------------------
(***************************************************************************)
(* The parser of the paths ("YAML pointers") under which a client sets     *)
(* values in the tree: asdf_yaml_path_parse in src/src/yaml.c, which turns *)
(* a string such as  a/[0]/'b/c'  into components.                         *)
(*                                                                         *)
(* A path is a sequence of characters, each a one-letter string.  The C    *)
(* pointer p is a position 1 .. End, where End is that of the final NUL.   *)
(* The index of a component is not modelled: it is the number its key      *)
(* spells (0 if the key is empty).                                         *)
(***************************************************************************)
EXTENDS Integers, Sequences, FiniteSetsExt

CONSTANTS Paths    \* the strings to parse

VARIABLES path, p, comps, status

vars == <<path, p, comps, status>>

Digits    == {"0", "1"}      \* two digits stand for ten
Escapable == {"/", "*", "&", ".", "{", "}", "[", "]", "\\"}
Brackets  == {"'", "\"", "[", "]"}

ASSUME PathsAssumption == \A s \in Paths : s \in Seq(STRING)

End   == Len(path) + 1
At(q) == IF q < End THEN path[q] ELSE "NUL"

\* The first position from q on, or End, where the character is not in S
\* (PassOver) or is (ScanTo).
PassOver(S, q) == Min({End} \cup {r \in q .. Len(path) : path[r] \notin S})
ScanTo(S, q)   == Min({End} \cup {r \in q .. Len(path) : path[r] \in S})
SkipSpace(q)   == PassOver({" "}, q)

-----------------------------------------------------------------------------
(* One component: its key and how far it reaches, or that there is none.   *)

Invalid        == [ok |-> FALSE]
Found(key, len) == [ok |-> TRUE, key |-> key, len |-> len]

\* The length is counted from where the white space ends.
find_path_component_any(start) ==
    LET s == SkipSpace(start)
        q == ScanTo({"/"}, s)
    IN  IF ScanTo(Brackets, s) < q THEN Invalid
        ELSE Found(SubSeq(path, s, q - 1), q - s)

\* Mutant of MapEnd: the first quote ends the key.
MapEndFirst(start, close) == {r \in start .. Len(path) : path[r] = close}

\* A quoted key ends at a quote that ends the path or stands before a '/'.
\* The scan goes on at an escaped character as at any other.
MapEnd(start, close) ==
    {r \in start .. Len(path) : path[r] = close /\ At(r + 1) \in {"NUL", "/"}}

find_path_component_map(start, close) ==
    LET q == Min({End} \cup MapEnd(start, close))
        badEscape == \E r \in start .. q - 1 :
                        path[r] = "\\" /\ At(r + 1) \notin Escapable \cup {"NUL"}
    IN  IF q = End \/ badEscape THEN Invalid
        ELSE Found(SubSeq(path, start, q - 1), q - start + 1)

find_path_component_seq(start) ==
    LET s == SkipSpace(start)
        q == PassOver(Digits, IF At(s) = "-" THEN s + 1 ELSE s)
        w == SkipSpace(q)
    IN  IF q = End \/ q = s \/ At(w) # "]" THEN Invalid
        ELSE Found(SubSeq(path, s, q - 1), SkipSpace(w + 1) - s)

target_for_bracket(c) == CASE c = "[" -> "SEQ" [] c \in {"'", "\""} -> "MAP" [] OTHER -> "ANY"

find_path_component(target, start, close) ==
    CASE target = "ANY" -> find_path_component_any(start)
      [] target = "MAP" -> find_path_component_map(start, close)
      [] target = "SEQ" -> find_path_component_seq(start)

\* Does strtoll read all of the key?  (Of an empty key it reads all.)
IsSign(c)  == c \in {"-", "+"}
Integer(s) ==
    LET digits == IF s # <<>> /\ IsSign(Head(s)) THEN Tail(s) ELSE s
    IN  s = <<>> \/ (digits # <<>> /\ \A i \in DOMAIN digits : digits[i] \in Digits)

Component(target, key) == [target |-> target, key |-> key]

-----------------------------------------------------------------------------
(* The loop of asdf_yaml_path_parse *)

\* Mutant of AfterSlash: a '/' is stepped over that may not be there.
AfterSlashBlindly(q) == q + 1

\* What follows a component is stepped over, as if it were a '/'.
AfterSlash(q) == IF q # End THEN q + 1 ELSE q

\* parse_single_path_component at position start: the component and where
\* the next one starts.
parse_single_path_component(start) ==
    LET t     == target_for_bracket(path[start])
        first == IF t = "ANY" THEN start ELSE start + 1
        f     == find_path_component(t, first, path[start])
    IN  IF ~f.ok THEN Invalid
        ELSE IF t = "SEQ" /\ ~Integer(f.key) THEN Invalid
        ELSE [ok |-> TRUE, next |-> AfterSlash(first + f.len),
              comp |-> Component(IF t = "ANY" /\ ~Integer(f.key) THEN "MAP" ELSE t, f.key)]

ParseComponent ==
    /\ status = "parsing" /\ p # End
    /\ LET c == parse_single_path_component(p)
       IN  c.ok /\ comps' = Append(comps, c.comp) /\ p' = c.next
    /\ UNCHANGED <<path, status>>

\* Mutant of ParseInvalid: a component of no length is not looked for.
ParseInvalidAgain ==
    /\ status = "parsing" /\ p # End
    /\ ~parse_single_path_component(p).ok
    /\ UNCHANGED vars

ParseInvalid ==
    /\ status = "parsing" /\ p # End
    /\ ~parse_single_path_component(p).ok
    /\ status' = "invalid" /\ comps' = <<>>
    /\ UNCHANGED <<path, p>>

\* Leading slashes and white space go; what is left of nothing is the root.
Start ==
    /\ status = "called"
    /\ p' = PassOver({"/", " "}, 1)
    /\ IF p' = End THEN status' = "ok" /\ comps' = <<Component("MAP", <<>>)>>
                   ELSE status' = "parsing" /\ comps' = <<>>
    /\ UNCHANGED path

Done ==
    /\ status = "parsing" /\ p = End
    /\ status' = "ok"
    /\ UNCHANGED <<path, p, comps>>

Init == path \in Paths /\ p = 1 /\ comps = <<>> /\ status = "called"

Next == Start \/ ParseComponent \/ ParseInvalid \/ Done

Spec == Init /\ [][Next]_vars /\ WF_vars(Next)

-----------------------------------------------------------------------------
(* Properties *)

\* The loop of asdf_yaml_path_parse stops only at p == end: a component that
\* leads past it would send the parser on into whatever follows the string.
InBounds == p \in 1 .. End

\* The component a text spells, as in the tests of the parser: a plain key
\* without quotes and brackets, a quoted key, or an index in brackets.
Quoted(text, key) ==
    /\ Len(text) > 1 /\ text[1] \in {"'", "\""} /\ text[Len(text)] = text[1]
    /\ \A i \in DOMAIN key : /\ key[i] = text[1] => i = Len(key) \/ key[i + 1] # "/"
                             /\ key[i] = "\\" => i < Len(key) /\ key[i + 1] \in Escapable

Indexed(text, key) ==
    /\ Len(text) > 2 /\ text[1] = "[" /\ text[Len(text)] = "]"
    /\ Integer(key)

Spelled(text) ==
    LET key == SubSeq(text, 2, Len(text) - 1)
        plain == \A i \in DOMAIN text : text[i] \notin Brackets \cup {"/"}
    IN  {c \in {Component("ANY", text), Component("MAP", text), Component("MAP", key),
                Component("SEQ", key)} :
            \/ plain /\ c = Component(IF Integer(text) THEN "ANY" ELSE "MAP", text)
            \/ Quoted(text, key) /\ c = Component("MAP", key)
            \/ Indexed(text, key) /\ c = Component("SEQ", key)}

\* The texts between the cuts of the path, which are some of its slashes; a
\* slash that ends the path ends its last component.
Pieces(cuts) ==
    LET body == PassOver({"/", " "}, 1)
        ends == {q \in cuts : q >= body}
                \cup (IF path[Len(path)] = "/" /\ Len(path) \in cuts THEN {} ELSE {End})
        nth(i) == CHOOSE q \in ends : Cardinality({r \in ends : r < q}) = i - 1
    IN  [i \in 1 .. Cardinality(ends) |->
            SubSeq(path, IF i = 1 THEN body ELSE nth(i - 1) + 1, nth(i) - 1)]

\* The position is in a quoted key.
InQuotes(q) ==
    \E r \in 1 .. q - 1 :
        /\ path[r] \in {"'", "\""} /\ (r = 1 \/ path[r - 1] = "/")
        /\ q < Min({End} \cup MapEnd(r + 1, path[r]))

\* White space, and text between a ']' and the next '/', are what the parser
\* does not count (LengthRight); it reads the second of two backslashes as
\* the start of another escape (EscapeRead), and a backslash outside quotes
\* as a character of the key (EscapeOutside).
Counted == \A q \in 1 .. Len(path) :
              /\ path[q] # " "
              /\ path[q] = "]" => At(q + 1) \in {"NUL", "/"} \/ (q > 1 /\ path[q - 1] = "\\")
              /\ path[q] = "\\" => InQuotes(q) /\ At(q + 1) # "\\"

AllCuts == SUBSET {q \in 1 .. Len(path) : path[q] = "/"}

\* A path that is counted right and has no escape outside quotes (Counted,
\* above) is accepted just when it is texts with a '/' between them that
\* spell components, and these are its components: no text is lost, read
\* twice, or cut at a '/' within quotes.
SplitRight ==
    Counted /\ comps # <<Component("MAP", <<>>)>> =>
        /\ status = "ok" =>
              \E cuts \in AllCuts :
                 LET s == Pieces(cuts)
                 IN  Len(s) = Len(comps) /\ \A i \in DOMAIN s : comps[i] \in Spelled(s[i])
        /\ status = "invalid" =>
              \A cuts \in AllCuts :
                 LET s == Pieces(cuts) IN \E i \in DOMAIN s : Spelled(s[i]) = {}

\* The escapable characters of find_path_component_map include the backslash:
\* a quoted key that is an escaped backslash is a key.
EscapeRead == path = <<"'", "\\", "\\", "'">> => status # "invalid"

\* Stated by docs/usage/values.rst:120-122 ("Characters that must be escaped
\* are /{}[].&*\\. However, escaping of these characters is not necessary if
\* inside quotes"): a key without quotes in which just these are escaped is
\* one key.
EscapeOutside ==
    (/\ path # <<>>
     /\ \A q \in 1 .. Len(path) :
           /\ path[q] \notin {"'", "\"", " "}
           /\ path[q] = "\\" => At(q + 1) \in Escapable \ {"\\"}
           /\ path[q] \in Escapable \ {"\\"} => q > 1 /\ path[q - 1] = "\\")
    => status # "invalid" /\ Len(comps) <= 1

\* The comment on find_path_component: the length "includes any skipped
\* whitespace".  So where nothing but white space follows a ']', it is a '/'
\* that separates two components.
LengthRight ==
    /\ \A q \in 1 .. Len(path) : path[q] = "]" => At(q + 1) \in {"NUL", "/", " "}
    /\ status = "parsing" /\ comps # <<>>
    => path[p - 1] = "/" \/ p = End

\* Every path is accepted or refused: each component the loop takes is at
\* least a character long.
Ends == <>(status \in {"ok", "invalid"})
=============================================================================
