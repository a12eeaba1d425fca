------------------------------ MODULE MCSclSte ------------------------------
(***************************************************************************)
(* One call, direct or of a specification that is built and run, while the *)
(* binary is rebuilt and removed, with every request a client can make.    *)
(***************************************************************************)
EXTENDS SclSte

\* Two builds of one source, with and without CUDA, and a build of the next one.
AllBuilds == {"cpu 0.1.0", "cuda 0.1.0", "cuda 0.2.0"}
TwoBuilds == {"cpu 0.1.0", "cuda 0.2.0"}
WithCuda == {"cuda 0.1.0", "cuda 0.2.0"} \cap Builds
AllVersions == {"scl-cli/0.1.0", "scl-cli/0.2.0"}
VersionLine ==
    [b \in Builds |-> IF b = "cuda 0.2.0" THEN "scl-cli/0.2.0" ELSE "scl-cli/0.1.0"]

AllClientRequests == ClientRequests
=============================================================================
