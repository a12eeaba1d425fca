------------------------------ MODULE MCSclCli ------------------------------
(***************************************************************************)
(* One scl_cli process given every possible request: binaries with and     *)
(* without CUDA, a device that comes and goes at any moment, and up to     *)
(* MaxFaults failures.                                                     *)
(***************************************************************************)
EXTENDS SclCli

\* Two builds of one source, with and without CUDA, and a build of the next one.
AllBuilds == {"cpu 0.1.0", "cuda 0.1.0", "cuda 0.2.0"}
WithCuda == {"cuda 0.1.0", "cuda 0.2.0"} \cap Builds
AllVersions == {"scl-cli/0.1.0", "scl-cli/0.2.0"}
VersionLine ==
    [b \in Builds |-> IF b = "cuda 0.2.0" THEN "scl-cli/0.2.0" ELSE "scl-cli/0.1.0"]

AllRequests == PossibleRequests
=============================================================================
