---------------------------- MODULE MCFileStream ----------------------------
(* FileStream for TLC: a file of a few bytes, a buffer that is smaller, and   *)
(* two tokens, the longer as long as the buffer, at most once in the file.    *)
EXTENDS FileStream

AtMostOne(S) == {{}} \cup {{x} : x \in S}

MCTokenLen == [short |-> 1, long |-> 2]

\* The long token across the end of a buffer, inside one, cut off by the end of
\* the file, or nowhere; the short one in the middle of it, behind it or nowhere.
MCTokens == [short : AtMostOne({2, 4}), long : AtMostOne({1, 2, 4})]

\* One line longer than the buffer.
MCFiles == [nl : {{3}}, tok : MCTokens]
=============================================================================
