---------------------------- MODULE MCSclClient -----------------------------
(***************************************************************************)
(* Concurrent run_scl_request calls, over a request for each path through  *)
(* the process, with both binaries installed, replaced and removed.        *)
(***************************************************************************)
EXTENDS SclClient, TLC

\* Two builds of one source, with and without CUDA, and a build of the next one.
AllBuilds == {"cpu 0.1.0", "cuda 0.1.0", "cuda 0.2.0"}
TwoBuilds == {"cpu 0.1.0", "cuda 0.2.0"}
WithCuda == {"cuda 0.1.0", "cuda 0.2.0"} \cap Builds
AllVersions == {"scl-cli/0.1.0", "scl-cli/0.2.0"}
VersionLine ==
    [b \in Builds |-> IF b = "cuda 0.2.0" THEN "scl-cli/0.2.0" ELSE "scl-cli/0.1.0"]

Ask(op, backend, payload) ==
    [envelope |-> "object", operation |-> op, backend |-> backend,
     hex |-> "bytes", payload |-> payload]

\* A request for each order of the stages, one that halts, one whose answer cannot be
\* written, and one that no operation is run for.
KeyRequests ==
    {Ask(LJ, "cuda", "sound"), Ask(LJ, "cpu", "coincident"), Ask(LSQ, "cuda", "sound"),
     Ask(KF, "cpu", "misattributed"), Ask(Unregistered, "cpu", "sound")}

Symmetry == Permutations(Calls)
=============================================================================
