--------------------------- MODULE MCLazyDecomp ---------------------------
(***************************************************************************)
(* LazyDecomp for TLC: streams of every codec that are complete, too short,*)
(* broken off or corrupt around the end of the mapping and of a chunk.     *)
(***************************************************************************)
EXTENDS LazyDecomp

CONSTANTS r1, r2

MCSources ==
    [codec : Codecs, pages : {NPages - 2, NPages}, tail : {"end", "cut", "bad"}]

MCSound == [codec : Codecs, pages : {NPages}, tail : {"end"}]

\* Lazy mode, and each of the reasons for which a block is opened eagerly: asked
\* for, above the threshold in AUTO mode, no userfaultfd, a temporary file on a
\* file system that cannot be registered.
MCConfigs ==
    {[mode |-> "LAZY", big |-> FALSE, uffd |-> TRUE, shm |-> FALSE],
     [mode |-> "EAGER", big |-> FALSE, uffd |-> TRUE, shm |-> TRUE],
     [mode |-> "AUTO", big |-> TRUE, uffd |-> TRUE, shm |-> TRUE],
     [mode |-> "AUTO", big |-> FALSE, uffd |-> FALSE, shm |-> TRUE],
     [mode |-> "LAZY", big |-> TRUE, uffd |-> TRUE, shm |-> FALSE]}

MCLazy == {[mode |-> "LAZY", big |-> FALSE, uffd |-> TRUE, shm |-> FALSE]}

MCEager == {[mode |-> "EAGER", big |-> FALSE, uffd |-> TRUE, shm |-> FALSE]}

MCReaders == {r1, r2}
=============================================================================
