----------------------------- MODULE MCYamlPath -----------------------------
EXTENDS YamlPath

\* Every string of up to MCLength characters, and up to three texts of
\* MCTexts with a '/' between them.
MCChars  == {"/", "[", "]", "'", "\\", " ", "0", "-", "a"}
MCLength == 4

MCTexts == {<<"a">>, <<"0">>, <<"-", "0">>, <<"[", "0", "]">>, <<"[", " ", "0", " ", "]">>,
            <<"[", "-", "0", "]">>, <<"'", "a", "/", "a", "'">>, <<"\"", "a", "'", "\"">>,
            <<"'", "\\", "[", "'">>, <<"'", "\\", "\\", "'">>, <<" ", "a">>, <<"[", "0", "]", "a">>,
            <<"'", "a", "'", "a", "'">>, <<>>}

MCPaths == UNION {[1 .. n -> MCChars] : n \in 0 .. MCLength}
           \cup {s \o <<"/">> \o t : s \in MCTexts, t \in MCTexts}
           \cup {s \o <<"/">> \o t \o <<"/">> \o u : s \in MCTexts, t \in MCTexts, u \in MCTexts}
=============================================================================
