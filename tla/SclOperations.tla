--------------------------- MODULE SclOperations ---------------------------
(***************************************************************************)
(* The vocabulary of the scl_cli wire protocol and the table of its four   *)
(* operations: which requests there are, which engine computes each of     *)
(* them, and what an operation answers for each class of payload.          *)
(*                                                                         *)
(* A request is abstracted to the first defect the code meets in it:       *)
(*   envelope  "object", or "refused" (not JSON, not an object, a missing  *)
(*             or non-string field), or "illEncoded" (not UTF-8, so that   *)
(*             the parser's message quotes bytes JSON cannot carry), or    *)
(*             "outOfRange" (JSON with a number that no double can hold);  *)
(*   hex       "bytes", or "badDigit", or "strayByte" (a bad digit that is *)
(*             one byte of a longer UTF-8 character);                      *)
(*   payload   what the operation makes of the two decoded buffers.        *)
(***************************************************************************)
EXTENDS Naturals

CONSTANTS
    Builds,      \* the scl_cli binaries a host may have installed
    CudaBuilds,  \* those of them compiled with SCL_WITH_CUDA
    Versions,    \* the version lines they print
    kVersionString   \* the line of each: the same for builds of one source

ASSUME BuildsAssumption ==
    /\ CudaBuilds \subseteq Builds
    /\ kVersionString \in [Builds -> Versions]

kFaultNone == 0
kFaultProtocol == 10
kFaultValidation == 11
kFaultBackendUnavailable == 12
kFaultComputation == 13
kFaultInternal == 14

FaultCodes == {kFaultProtocol, kFaultValidation, kFaultBackendUnavailable,
               kFaultComputation, kFaultInternal}

LJ  == "lj_pairwise_energy_forces"
FFT == "fourier_transform_1d"
LSQ == "least_squares"
KF  == "kalman_filter_linear"

Operations == {LJ, FFT, LSQ, KF}       \* find_operation answers these
Unregistered == "unregistered"         \* and nullptr for any other name
Backends == {"cpu", "cuda"}

\* The two operations that ask for the backend before they decode anything,
\* and that have no engine of their own on the device.
HostOnly == {LSQ, KF}

\* What an operation's decoders, validator and algorithm make of a payload:
\*   sound          it is computed and the result is finite
\*   refused        a decoder or a validator refuses it
\*   wrapped        the announced shape makes the expected size wrap to the
\*                  size the buffer has; allocating the shape then fails
\*   unsolvable     decoded, and refused by the solver (no usable rank, bad
\*                  weights, a singular or invalid covariance)
\*   misattributed  asserted noise that names a source which is not UTF-8
\*   coincident     two particles at zero separation
\*   overflowing    finite data whose result is not finite
PayloadClasses(op) ==
    {"sound", "refused", "overflowing"}
        \cup (IF op = LJ THEN {"coincident"} ELSE {})
        \cup (IF op \in HostOnly THEN {"wrapped", "unsolvable"} ELSE {})
        \cup (IF op = KF THEN {"misattributed"} ELSE {})

Payloads == {"sound", "refused", "overflowing", "coincident", "wrapped",
             "unsolvable", "misattributed"}

Request == [envelope  : {"object", "refused", "illEncoded", "outOfRange"},
            operation : Operations \cup {Unregistered},
            backend   : Backends \cup {"other"},
            hex       : {"bytes", "badDigit", "strayByte"},
            payload   : Payloads]

PossibleRequests ==
    {q \in Request : q.payload \in PayloadClasses(q.operation)}

\* What run_scl_request can send: always a JSON object of ASCII text, whose
\* two hex fields come from bytes.hex(); only the backend name is unchecked.
ClientRequests ==
    {q \in PossibleRequests : q.envelope = "object" /\ q.hex = "bytes"}

-----------------------------------------------------------------------------

\* An OperationOutcome. `output` is the engine whose arithmetic produced the
\* bytes; `detail` is "illFormed" when the text holds bytes JSON cannot carry.
Outcome == [status    : {"none", "completed", "halted"},
            exit_code : FaultCodes \cup {kFaultNone},
            output    : Backends \cup {"none"},
            detail    : {"none", "plain", "illFormed"}]

NoOutcome == [status |-> "none", exit_code |-> kFaultNone,
              output |-> "none", detail |-> "none"]

completed(engine) == [status |-> "completed", exit_code |-> kFaultNone,
                      output |-> engine, detail |-> "none"]

halted(code, text) == [status |-> "halted", exit_code |-> code,
                       output |-> "none", detail |-> text]

\* main.cpp adds the backend the request named and the version of the binary.
make_response(o, backend, build) ==
    [status |-> o.status, exit_code |-> o.exit_code, backend_used |-> backend,
     backend_version |-> kVersionString[build], output_hex |-> o.output, detail |-> o.detail]

Written == [status          : {"none", "completed", "halted", "fragment"},
            exit_code       : FaultCodes \cup {kFaultNone},
            backend_used    : Backends \cup {"unknown"},
            backend_version : Versions \cup {"none"},
            output_hex      : Backends \cup {"none"},
            detail          : {"none", "plain", "illFormed"}]

\* No response at all.
NoResponse == [status |-> "none", exit_code |-> kFaultNone, backend_used |-> "unknown",
               backend_version |-> "none", output_hex |-> "none", detail |-> "none"]

\* Stands for the bytes a serialisation leaves behind when it throws half way.
Fragment == [NoResponse EXCEPT !.status = "fragment"]

-----------------------------------------------------------------------------

\* Is the envelope one that reaches find_operation?
EnvelopeAccepted(q) == q.envelope = "object" /\ q.backend \in Backends

\* Does it reach an operation, given a backend that is available?
Runnable(q) == EnvelopeAccepted(q) /\ q.operation \in Operations

\* The engine that computes: each of LJ and FFT dispatches on the backend; the
\* solver and the filter have one implementation and call it whatever was asked.
Engine(q) == IF q.operation \in HostOnly THEN "cpu" ELSE q.backend

\* Mutant: the probe is asked of every backend, the cpu included.
backend_available_for_all(backend, build, deviceUp) == build \in CudaBuilds /\ deviceUp

backend_available(backend, build, deviceUp) ==
    backend = "cpu" \/ (build \in CudaBuilds /\ deviceUp)

\* The decoders and the validator: which payloads they stop, and with what.
\* An allocation that fails inside the solver's or the filter's decoder is an
\* std::exception, which those two report as a fault of the computation.
StoppedByDecode == {"refused", "wrapped"}
\* Mutant: a refusal leaves with a process exit code instead of a fault code.
DecodeOutcomeExitCode(q) == halted(1, "plain")

DecodeOutcome(q) ==
    halted(IF q.payload = "refused" THEN kFaultValidation ELSE kFaultComputation,
           "plain")

\* What the algorithm answers for a payload that decodes. The CUDA kernel skips
\* a coincident pair where the CPU loop faults on it.
ComputeOutcome(q) ==
    CASE q.payload = "coincident" /\ Engine(q) = "cpu" ->
             halted(kFaultComputation, "plain")
      [] q.payload = "overflowing" ->
             halted(IF q.operation \in HostOnly
                    THEN kFaultValidation ELSE kFaultComputation, "plain")
      [] q.payload = "unsolvable" -> halted(kFaultValidation, "plain")
      [] q.payload = "misattributed" -> halted(kFaultValidation, "illFormed")
      [] OTHER -> completed(Engine(q))
=============================================================================
