----------------------------- MODULE SclService -----------------------------
(***************************************************************************)
(* What run_scl_request promises its caller, with no process, pipe or      *)
(* binary in sight: a call either fails as a channel, or returns an answer *)
(* that was decided at one instant, by one installed binary, from the      *)
(* request and from what was true of the device at that instant; or an     *)
(* internal fault, when something failed after that and before the return. *)
(***************************************************************************)
EXTENDS SclOperations

CONSTANTS Calls, Requests

VARIABLES
    request,   \* what each call asks
    answer,    \* what has been decided for it
    ended,     \* how it ended
    deviceUp, faults

vars == <<request, answer, ended, deviceUp, faults>>

NoAnswer == NoResponse

\* The exceptions run_scl_request raises by itself, and raise_for_result's table.
ChannelErrors == {"SCLProtocolError", "SCLTimeoutError", "OSError"}
\* Mutant: two rows of the table are swapped.
ExceptionForSwapped(code) ==
    CASE code = kFaultValidation         -> "SCLBackendUnavailableError"
      [] code = kFaultBackendUnavailable -> "SCLValidationError"
      [] OTHER                           -> "SCLProtocolError"

ExceptionFor(code) ==
    CASE code = kFaultProtocol           -> "SCLProtocolError"
      [] code = kFaultValidation         -> "SCLValidationError"
      [] code = kFaultBackendUnavailable -> "SCLBackendUnavailableError"
      [] code = kFaultComputation        -> "SCLComputationError"
      [] code = kFaultInternal           -> "SCLInternalError"
      [] OTHER                           -> "SCLProtocolError"

Open == [how |-> "open", exception |-> "none", result |-> NoAnswer]
Returned(r) == [how |-> "returned", exception |-> "none", result |-> r]
Raised(e) == [how |-> "raised", exception |-> e, result |-> NoAnswer]

Init ==
    /\ request \in [Calls -> Requests]
    /\ answer = [c \in Calls |-> NoAnswer]
    /\ ended = [c \in Calls |-> Open]
    /\ deviceUp \in BOOLEAN
    /\ faults = 0

\* What the operation itself makes of the request.
Verdict(q) == IF q.payload \in StoppedByDecode THEN DecodeOutcome(q) ELSE ComputeOutcome(q)

\* May binary b answer q with o, the device being up or not, when something has or
\* has not just failed? A verdict is the operation's own; a breakdown is a device
\* that was lost or memory that ran out.
MayAnswer(q, b, o, up, broke) ==
    \/ ~Runnable(q) /\ o = halted(kFaultProtocol, "plain")
    \/ /\ Runnable(q)
       /\ ~backend_available(q.backend, b, up)
       /\ o = halted(kFaultBackendUnavailable, "plain")
    \/ /\ Runnable(q)
       /\ q.backend = "cuda" => b \in CudaBuilds
       /\ \/ o = Verdict(q) /\ (o.output = "cuda" => up)
          \/ o = halted(kFaultInternal, "plain") /\ (broke \/ Engine(q) = "cuda")
          \/ o = halted(kFaultComputation, "plain") /\ broke /\ q.operation \in HostOnly

\* A decided answer can always be written: its detail is plain text, or absent.
PlainOutcomes ==
    {halted(code, "plain") : code \in FaultCodes} \cup {completed(e) : e \in Backends}

Decide(c) ==
    /\ ended[c] = Open
    /\ answer[c] = NoAnswer
    /\ \E b \in Builds, o \in PlainOutcomes :
          /\ MayAnswer(request[c], b, o, deviceUp, faults' > faults)
          /\ answer' = [answer EXCEPT ![c] =
                 make_response(o, IF EnvelopeAccepted(request[c])
                                  THEN request[c].backend ELSE "unknown", b)]
    /\ faults' \in {faults, faults + 1}
    /\ UNCHANGED <<request, ended, deviceUp>>

\* A failure on the way out: the same binary now answers with an internal fault.
Spoilt(r) ==
    [status |-> "halted", exit_code |-> kFaultInternal, backend_used |-> r.backend_used,
     backend_version |-> r.backend_version, output_hex |-> "none", detail |-> "plain"]

Spoil(c) ==
    /\ ended[c] = Open
    /\ answer[c] # NoAnswer
    /\ Runnable(request[c])
    /\ answer' = [answer EXCEPT ![c] = Spoilt(@)]
    /\ faults' = faults + 1
    /\ UNCHANGED <<request, ended, deviceUp>>

Return(c) ==
    /\ ended[c] = Open
    /\ answer[c] # NoAnswer
    /\ ended' = [ended EXCEPT ![c] = Returned(answer[c])]
    /\ UNCHANGED <<request, answer, deviceUp, faults>>

FailChannel(c) ==
    /\ ended[c] = Open
    /\ \E e \in ChannelErrors : ended' = [ended EXCEPT ![c] = Raised(e)]
    /\ UNCHANGED <<request, answer, deviceUp, faults>>

RaiseForResult(c) ==
    /\ ended[c].how = "returned" /\ ended[c].result.status = "halted"
    /\ ended' = [ended EXCEPT ![c] = Raised(ExceptionFor(ended[c].result.exit_code))]
    /\ UNCHANGED <<request, answer, deviceUp, faults>>

Surroundings ==
    /\ deviceUp' \in BOOLEAN
    /\ faults' \in {faults, faults + 1}
    /\ UNCHANGED <<request, answer, ended>>

Next ==
    \/ \E c \in Calls :
          Decide(c) \/ Spoil(c) \/ Return(c) \/ FailChannel(c) \/ RaiseForResult(c)
    \/ Surroundings

SafeSpec == Init /\ [][Next]_vars
=============================================================================
