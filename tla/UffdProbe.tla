----------------------------- MODULE UffdProbe -----------------------------
(***************************************************************************)
(* The process-wide userfaultfd probe: asdf_block_decomp_lazy_available,   *)
(* asdf_uffd_probe and asdf_uffd_open of src/src/compression/compression.c.*)
(* Threads that open compressed blocks of different files at the same time *)
(* share three atomics and take no lock.  One action per atomic access.    *)
(***************************************************************************)
EXTENDS Integers

CONSTANT Threads     \* threads that open a compressed block

\* What a kernel accepts: the system call, the flag UFFD_USER_MODE_ONLY, the
\* registration of a range.
Kernels == [call : BOOLEAN, userModeFlag : BOOLEAN, register : BOOLEAN]

BaseFlags     == 1        \* O_CLOEXEC | O_NONBLOCK
UserModeFlags == 3        \* the same with UFFD_USER_MODE_ONLY

VARIABLES
    kernel,                          \* the running kernel: fixed
    probed, available, openFlags,    \* asdf_uffd_probed, _available, _open_flags
    pc,                              \* per thread: the next atomic access
    usable,                          \* per thread: what its probe found out
    opened                           \* per thread: flags asdf_uffd_open used

probeVars == <<kernel, probed, available, openFlags, pc, usable, opened>>

Goto(t, l) == pc' = [pc EXCEPT ![t] = l]

\* The flags the probe ends up with: an old kernel rejects the unknown flag
\* and the call is repeated without it.
ProbeFlags == IF kernel.userModeFlag THEN UserModeFlags ELSE BaseFlags

\* Does userfaultfd(2) succeed with these flags (kernel, external)?
Accepts(f) == kernel.call /\ (f = UserModeFlags => kernel.userModeFlag)

\* asdf_block_decomp_lazy_available: has the probe been run?
LoadProbed(t) ==
    /\ pc[t] = "loadProbed"
    /\ Goto(t, IF probed THEN "loadAvailable" ELSE "storeFlags")
    /\ UNCHANGED <<kernel, probed, available, openFlags, usable, opened>>

\* Mutant of StoreFlags: the flags are never published.
StoreNoFlags(t) ==
    /\ pc[t] = "storeFlags"
    /\ usable' = [usable EXCEPT ![t] = Accepts(ProbeFlags) /\ kernel.register]
    /\ Goto(t, "storeAvailable")
    /\ UNCHANGED <<kernel, probed, available, openFlags, opened>>

\* asdf_uffd_probe publishes the flags before any early exit, then finds out
\* whether the descriptor can be opened and ranges registered.
StoreFlags(t) ==
    /\ pc[t] = "storeFlags"
    /\ openFlags' = ProbeFlags
    /\ usable' = [usable EXCEPT ![t] = Accepts(ProbeFlags) /\ kernel.register]
    /\ Goto(t, "storeAvailable")
    /\ UNCHANGED <<kernel, probed, available, opened>>

\* Mutant of StoreAvailable: registering a range is not tried.
StoreOpened(t) ==
    /\ pc[t] = "storeAvailable"
    /\ available' = Accepts(ProbeFlags)
    /\ Goto(t, "storeProbed")
    /\ UNCHANGED <<kernel, probed, openFlags, usable, opened>>

StoreAvailable(t) ==
    /\ pc[t] = "storeAvailable"
    /\ available' = usable[t]
    /\ Goto(t, "storeProbed")
    /\ UNCHANGED <<kernel, probed, openFlags, usable, opened>>

StoreProbed(t) ==
    /\ pc[t] = "storeProbed"
    /\ probed' = TRUE
    /\ Goto(t, "loadAvailable")
    /\ UNCHANGED <<kernel, available, openFlags, usable, opened>>

LoadAvailable(t) ==
    /\ pc[t] = "loadAvailable"
    /\ Goto(t, IF available THEN "open" ELSE "eager")
    /\ UNCHANGED <<kernel, probed, available, openFlags, usable, opened>>

\* asdf_uffd_open, from asdf_block_decomp_lazy or the file-backing check.
UffdOpen(t) ==
    /\ pc[t] = "open"
    /\ opened' = [opened EXCEPT ![t] = openFlags]
    /\ Goto(t, "lazy")
    /\ UNCHANGED <<kernel, probed, available, openFlags, usable>>

\* The block is closed; the thread opens another one later.
Again(t) ==
    /\ pc[t] \in {"lazy", "eager"}
    /\ Goto(t, "loadProbed")
    /\ opened' = [opened EXCEPT ![t] = 0]
    /\ UNCHANGED <<kernel, probed, available, openFlags, usable>>

ProbeInit ==
    /\ kernel \in Kernels
    /\ probed = FALSE /\ available = FALSE /\ openFlags = 0
    /\ pc = [t \in Threads |-> "loadProbed"]
    /\ usable = [t \in Threads |-> FALSE]
    /\ opened = [t \in Threads |-> 0]

ProbeNext ==
    \E t \in Threads :
        \/ LoadProbed(t) \/ StoreFlags(t) \/ StoreAvailable(t) \/ StoreProbed(t)
        \/ LoadAvailable(t) \/ UffdOpen(t) \/ Again(t)

ProbeSpec == ProbeInit /\ [][ProbeNext]_probeVars

-----------------------------------------------------------------------------
\* Every variable has its type.
ProbeTypeOK ==
    /\ kernel \in Kernels
    /\ probed \in BOOLEAN /\ available \in BOOLEAN
    /\ openFlags \in {0, BaseFlags, UserModeFlags}
    /\ pc \in [Threads -> {"loadProbed", "storeFlags", "storeAvailable",
                           "storeProbed", "loadAvailable", "open", "lazy",
                           "eager"}]
    /\ usable \in [Threads -> BOOLEAN]
    /\ opened \in [Threads -> {0, BaseFlags, UserModeFlags}]

\* The assertion of asdf_uffd_open (flags != 0) never fails, and the flags
\* are ones the kernel accepts, even for a thread that came to the atomics
\* while another one was still probing.
OpenSucceeds ==
    \A t \in Threads : pc[t] \in {"open", "lazy"} =>
        /\ openFlags # 0 /\ Accepts(openFlags)
        /\ pc[t] = "lazy" => opened[t] # 0

\* "Racing threads may both run the probe; it is idempotent": every thread
\* gets the same answer, the one that is right for the kernel.
SameAnswer ==
    \A t \in Threads :
        /\ pc[t] \in {"open", "lazy"} => kernel.call /\ kernel.register
        /\ pc[t] = "eager" => ~(kernel.call /\ kernel.register)

\* Why: once the probe counts as run, all three atomics have their final
\* values, and no thread that is still probing changes them.
ProbeInv ==
    /\ probed => /\ openFlags = ProbeFlags
                 /\ available <=> (Accepts(ProbeFlags) /\ kernel.register)
    /\ available => openFlags = ProbeFlags /\ Accepts(ProbeFlags) /\ kernel.register
    /\ \A t \in Threads :
        /\ pc[t] \in {"storeAvailable", "storeProbed"} =>
              /\ usable[t] <=> (Accepts(ProbeFlags) /\ kernel.register)
              /\ openFlags = ProbeFlags
        /\ pc[t] = "storeProbed" => (available <=> usable[t])
        /\ pc[t] \in {"loadAvailable", "open", "lazy", "eager"} => probed
        /\ pc[t] \in {"open", "lazy"} => available
        /\ pc[t] = "eager" => ~available
        /\ pc[t] = "lazy" => opened[t] # 0
=============================================================================
