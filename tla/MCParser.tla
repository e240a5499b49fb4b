------------------------------ MODULE MCParser ------------------------------
(* Parser for TLC: files put together from a preamble, a tree, blocks and a   *)
(* block index.                                                               *)
EXTENDS Parser, SequencesExt

Head2 == <<"asdf", "std">>

\* Positions of the blocks among the items.
PositionsOf(items) ==
    SetToSortSeq({p \in DOMAIN items : items[p] \in Magic}, LAMBDA a, b : a < b)

Plain(items) == [items |-> items, index |-> <<>>, indexOK |-> TRUE, yamlOK |-> TRUE]
WithIndex(items, ix) ==
    [items |-> Append(items, "index"), index |-> ix, indexOK |-> TRUE, yamlOK |-> TRUE]

Preambles == {<<>>, <<"comment", "blank", "comment">>, <<"blank", "pad">>}
Trees     == {<<>>, <<"directive", "text", "docend">>}
BlockSeqs == {<<>>, <<"block">>, <<"block", "block", "pad", "block">>,
              <<"pad", "block", "streamed">>}
Bodies    == {Head2 \o p \o t \o b : p \in Preambles, t \in Trees, b \in BlockSeqs}

\* A tree that the first block ends.
OpenTree == Head2 \o <<"directive", "text", "block", "block">>

WithBlocks == {b \in Bodies \cup {OpenTree} : PositionsOf(b) # <<>>}

\* No index, the right one, and ones that are found out: not in order, with a
\* first or a last entry that is not a block.
Discarded(items) ==
    {Reverse(PositionsOf(items)) \o <<1>>, <<2>> \o PositionsOf(items),
     Append(PositionsOf(items), Len(items) + 1), <<Len(items) + 7>>}

MCSound ==
    {Plain(b) : b \in Bodies} \cup {WithIndex(b, PositionsOf(b)) : b \in WithBlocks}
    \cup UNION {{WithIndex(b, ix) : ix \in Discarded(b)} : b \in WithBlocks}

\* Everything that can be wrong with a file.
Broken ==
    {<<>>, <<"asdf">>, <<"std">>, <<"asdf", "block">>}
    \cup {Head2 \o t \o b :
            t \in {<<>>, <<"directive", "text">>, <<"directive", "falseend", "docend">>,
                   <<"baddirective">>, <<"falseindex">>, <<"pad">>, <<"directive", "text", "docend">>,
                   <<"directive", "docend", "directive", "docend">>},
            b \in {<<>>, <<"block">>, <<"badblock", "block">>, <<"block", "huge">>,
                   <<"block", "badblock", "block">>, <<"streamed", "block">>,
                   <<"block", "block", "block", "block">>}}

BrokenIndexed == {b \in Broken : PositionsOf(b) # <<>>}

MCBroken ==
    {Plain(b) : b \in Broken}
    \cup {[Plain(b) EXCEPT !.yamlOK = FALSE] : b \in Broken}
    \cup {[WithIndex(b, <<>>) EXCEPT !.indexOK = FALSE] : b \in BrokenIndexed}
    \cup {WithIndex(b, ix) : b \in BrokenIndexed,
            ix \in {<<>>, <<Negative>>, <<4>>, <<3, 4>>, <<3, 4, 6>>, <<3, NotInt>>,
                    <<3, 4, NotInt>>, <<3, 4, 5, 6>>, <<5, 6>>}}

\* Three blocks, with an index ...
Three == Head2 \o <<"directive", "text", "docend", "block", "block", "text", "block">>

\* ... that lacks one in the middle; whose middle entry is wrong; that lacks
\* the last; that lacks the first; with a negative entry; that is no list of
\* numbers.
MCGap      == {WithIndex(Three, <<6, 9>>)}
MCMiddle   == {WithIndex(Three, <<6, 8, 9>>)}
MCShort    == {WithIndex(Three, <<6, 7>>)}
MCFirst    == {WithIndex(Three, <<7, 9>>)}
MCNegative == {WithIndex(Three, <<Negative, 9>>)}
MCCorrupt  == {[WithIndex(Three, <<>>) EXCEPT !.indexOK = FALSE],
               WithIndex(Three, <<6, NotInt, 9>>)}

MCFalseEnd  == {Plain(Head2 \o <<"directive", "text", "falseend", "docend", "block">>)}
MCBadStart  == {Plain(Head2 \o <<"pad", "baddirective", "directive", "docend">>)}
MCOpenEnd   == {Plain(Head2 \o <<"directive", "text">>)}
MCStreamed  == {Plain(Head2 \o <<"streamed", "block">>)}
MCThree     == {Plain(Three)}
MCDrift     == {Plain(Head2 \o <<"directive", "text", "docend", "pad", "block", "block">>)}

MCOptions == SUBSET {"BUFFER_TREE", "EMIT_YAML_EVENTS"}

MCAllSetups == [stream : {"file", "mem", "pipe"}, opts : MCOptions]

\* Setups in which a sound file is parsed: YAML events need a stream that seeks.
MCSoundSetups == [stream : {"file", "mem"}, opts : MCOptions]
                 \cup [stream : {"pipe"}, opts : SUBSET {"BUFFER_TREE"}]

MCPlainSetup == {[stream |-> "file", opts |-> {}]}
MCMemSetup   == {[stream |-> "mem", opts |-> {}]}

MCFiles == MCBroken \cup MCSound

InSound == file \in MCSound /\ [stream |-> stream, opts |-> opts] \in MCSoundSetups

\* Terminates, for the sound files: asdf_parser_parse comes to the end of them,
\* unless the buffer of a file or pipe ends inside the directive or the document end
\* marker; never so with a file in memory.
SoundTerminates == InSound => <>(done \/ CutOff)
=============================================================================
