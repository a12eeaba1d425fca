------------------------------- MODULE SclCli -------------------------------
(***************************************************************************)
(* scl_cli processes. Each reads one request from stdin, passes it through *)
(* the stages of main.cpp's run() and of one operation, writes its answer  *)
(* to stdout and exits. Processes share nothing but the CUDA device, which *)
(* comes and goes, and which a process asks about more than once.          *)
(***************************************************************************)
EXTENDS SclOperations, Sequences

CONSTANTS
    Processes,
    Requests,    \* the requests the processes may be given
    NoBuild,     \* the binary of a process that was never started
    MaxFaults    \* bound: failures of memory, device or process in one run

ASSUME CliAssumption ==
    /\ Requests \subseteq PossibleRequests
    /\ NoBuild \notin Builds
    /\ MaxFaults \in Nat

VARIABLES
    pc,        \* where each process is
    request,   \* what was written to its stdin
    build,     \* the binary it runs
    outcome,   \* the answer it is about to write
    stdout,    \* what it has written
    exit,      \* how it ended: "ok" 0, "catastrophic" 1, "killed" by a signal
    deviceUp,  \* does cudaGetDeviceCount() find a device
    faults     \* how many failures have happened, at most MaxFaults

process == <<pc, request, build, outcome, stdout, exit>>
vars == <<pc, request, build, outcome, stdout, exit, deviceUp, faults>>

\* "answer" writes what the operation returned, inside the try block that a
\* failed write falls out of; "report" writes from a handler or before it.
Stages == {"envelope", "select", "probe", "hex", "decode", "reprobe",
           "compute", "answer", "report"}

Init ==
    /\ pc = [p \in Processes |-> "unstarted"]
    /\ request \in [Processes -> Requests]
    /\ build = [p \in Processes |-> NoBuild]
    /\ outcome = [p \in Processes |-> NoOutcome]
    /\ stdout = [p \in Processes |-> <<>>]
    /\ exit = [p \in Processes |-> "none"]
    /\ deviceUp \in BOOLEAN
    /\ faults = 0

-----------------------------------------------------------------------------

Goto(p, stage) ==
    /\ pc' = [pc EXCEPT ![p] = stage]
    /\ UNCHANGED <<request, build, outcome, stdout, exit>>

\* selected->run() returns o, or main itself settles on o.
Conclude(p, o, stage) ==
    /\ outcome' = [outcome EXCEPT ![p] = o]
    /\ pc' = [pc EXCEPT ![p] = stage]
    /\ UNCHANGED <<request, build, stdout, exit>>

Return(p, o) == Conclude(p, o, "answer")
Report(p, o) == Conclude(p, o, "report")

Write(p, r) == stdout' = [stdout EXCEPT ![p] = Append(@, r)]

Exit(p, how) ==
    /\ pc' = [pc EXCEPT ![p] = "exited"]
    /\ exit' = [exit EXCEPT ![p] = how]
    /\ UNCHANGED <<request, build, outcome>>

Undisturbed == UNCHANGED <<deviceUp, faults>>

Start(p, b) ==
    /\ pc[p] = "unstarted"
    /\ pc' = [pc EXCEPT ![p] = "envelope"]
    /\ build' = [build EXCEPT ![p] = b]
    /\ UNCHANGED <<request, outcome, stdout, exit>>

-----------------------------------------------------------------------------
(* main.cpp: the stages before an operation runs *)

\* json::out_of_range is neither of the two types that are caught around the parser:
\* a number too large for a double leaves run() with nothing written.
ReadEnvelope(p) ==
    /\ pc[p] = "envelope"
    /\ CASE EnvelopeAccepted(request[p]) -> Goto(p, "select")
         [] request[p].envelope = "outOfRange" ->
              Exit(p, "catastrophic") /\ UNCHANGED stdout
         [] OTHER ->
              Report(p, halted(kFaultProtocol, IF request[p].envelope = "illEncoded"
                                               THEN "illFormed" ELSE "plain"))
    /\ Undisturbed

SelectOperation(p) ==
    /\ pc[p] = "select"
    /\ IF request[p].operation \in Operations
       THEN Goto(p, "probe")
       ELSE Report(p, halted(kFaultProtocol, "plain"))
    /\ Undisturbed

\* Mutant: availability is left to the operation's own dispatch.
ProbeBackendDeferred(p) == pc[p] = "probe" /\ Goto(p, "hex") /\ Undisturbed

ProbeBackend(p) ==
    /\ pc[p] = "probe"
    /\ IF backend_available(request[p].backend, build[p], deviceUp)
       THEN Goto(p, "hex")
       ELSE Report(p, halted(kFaultBackendUnavailable, "plain"))
    /\ Undisturbed

DecodeHex(p) ==
    /\ pc[p] = "hex"
    /\ CASE request[p].hex = "bytes" ->
              Goto(p, IF request[p].operation \in HostOnly THEN "reprobe" ELSE "decode")
         [] request[p].hex = "badDigit" -> Report(p, halted(kFaultProtocol, "plain"))
         [] request[p].hex = "strayByte" -> Report(p, halted(kFaultProtocol, "illFormed"))
    /\ Undisturbed

-----------------------------------------------------------------------------
(* The operation: run_lj_pairwise_energy_forces and run_fourier_transform_1d *)
(* decode and validate, then their dispatch probes; run_least_squares and    *)
(* run_kalman_filter_linear probe first.                                     *)

DecodePayload(p) ==
    /\ pc[p] = "decode"
    /\ IF request[p].payload \in StoppedByDecode
       THEN Return(p, DecodeOutcome(request[p]))
       ELSE Goto(p, IF request[p].operation \in HostOnly THEN "compute" ELSE "reprobe")
    /\ Undisturbed

\* Mutant: the dispatch waits for a device instead of refusing.
ProbeAgainWaits(p) ==
    /\ pc[p] = "reprobe"
    /\ backend_available(request[p].backend, build[p], deviceUp)
    /\ Goto(p, IF request[p].operation \in HostOnly THEN "decode" ELSE "compute")
    /\ Undisturbed

ProbeAgain(p) ==
    /\ pc[p] = "reprobe"
    /\ IF backend_available(request[p].backend, build[p], deviceUp)
       THEN Goto(p, IF request[p].operation \in HostOnly THEN "decode" ELSE "compute")
       ELSE Return(p, halted(kFaultBackendUnavailable, "plain"))
    /\ Undisturbed

\* Mutant: a device lost after the probes is replaced by the CPU engine.
ComputeOrFallBack(p) ==
    /\ pc[p] = "compute"
    /\ Return(p, IF Engine(request[p]) = "cuda" /\ ~deviceUp
                 THEN completed("cpu") ELSE ComputeOutcome(request[p]))
    /\ Undisturbed

Compute(p) ==
    /\ pc[p] = "compute"
    /\ Engine(request[p]) = "cuda" => deviceUp
    /\ Return(p, ComputeOutcome(request[p]))
    /\ Undisturbed

\* Mutant: the operations with no kernel call the device when cuda is named.
DeviceFaultByName(p) ==
    /\ pc[p] = "compute"
    /\ request[p].backend = "cuda" /\ ~deviceUp
    /\ Report(p, halted(kFaultInternal, "plain"))
    /\ Undisturbed

\* A CUDA call fails: SCL_CUDA_CHECK's runtime_error is none of the types the
\* operation catches, and main answers it. Without a device it always fails.
DeviceFault(p) ==
    /\ pc[p] = "compute"
    /\ Engine(request[p]) = "cuda"
    /\ IF deviceUp
       THEN faults < MaxFaults /\ faults' = faults + 1
       ELSE UNCHANGED faults
    /\ Report(p, halted(kFaultInternal, "plain"))
    /\ UNCHANGED deviceUp

\* std::bad_alloc. Outside main's second try block nothing catches it, a handler that
\* builds its response included; the solver and the filter make it a computation fault;
\* main reports every other one, also over an outcome that is being made a response.
InSecondTry == {"hex", "answer"}
InOperation == {"decode", "reprobe", "compute"}

AllocationFails(p) ==
    /\ faults < MaxFaults
    /\ faults' = faults + 1
    /\ \/ /\ pc[p] \in Stages \ (InSecondTry \cup InOperation)
          /\ Exit(p, "catastrophic") /\ UNCHANGED stdout
       \/ /\ pc[p] \in InOperation /\ request[p].operation \in HostOnly
          /\ Return(p, halted(kFaultComputation, "plain"))
       \/ /\ \/ pc[p] \in InSecondTry
             \/ pc[p] \in InOperation /\ request[p].operation \notin HostOnly
          /\ Report(p, halted(kFaultInternal, "plain"))
    /\ UNCHANGED deviceUp

-----------------------------------------------------------------------------
(* Writing the answer *)

EchoedBackend(q) == IF EnvelopeAccepted(q) THEN q.backend ELSE "unknown"

Response(p) == make_response(outcome[p], EchoedBackend(request[p]), build[p])

\* Mutant: no return after the write, so a handler's write follows it.
WriteAnswerFallsThrough(p) ==
    /\ pc[p] = "answer"
    /\ Write(p, Response(p))
    /\ pc' = [pc EXCEPT ![p] = "report"]
    /\ UNCHANGED <<request, build, outcome, exit>>
    /\ Undisturbed

\* Mutant: the device is asked for once more before a result is handed out.
WriteAnswerProbes(p) ==
    /\ pc[p] = "answer"
    /\ IF backend_available(request[p].backend, build[p], deviceUp)
       THEN Exit(p, "ok") /\ Write(p, Response(p))
       ELSE Report(p, halted(kFaultBackendUnavailable, "plain"))
    /\ Undisturbed

\* The stream operator throws on a detail JSON cannot carry, with part of the
\* object already written; main's catch (std::exception) then writes a second one.
WriteAnswer(p) ==
    /\ pc[p] = "answer"
    /\ IF outcome[p].detail # "illFormed"
       THEN Exit(p, "ok") /\ Write(p, Response(p))
       ELSE /\ outcome' = [outcome EXCEPT ![p] = halted(kFaultInternal, "plain")]
            /\ Write(p, Fragment)
            /\ pc' = [pc EXCEPT ![p] = "report"]
            /\ UNCHANGED <<request, build, exit>>
    /\ Undisturbed

\* A handler has nobody to catch what its own write throws but main().
WriteReport(p) ==
    /\ pc[p] = "report"
    /\ IF outcome[p].detail # "illFormed"
       THEN Exit(p, "ok") /\ Write(p, Response(p))
       ELSE Exit(p, "catastrophic") /\ Write(p, Fragment)
    /\ Undisturbed

\* A signal ends the process: buffered output is lost.
Killed(p) ==
    /\ pc[p] \in Stages
    /\ faults < MaxFaults
    /\ faults' = faults + 1
    /\ Exit(p, "killed") /\ UNCHANGED stdout
    /\ UNCHANGED deviceUp

-----------------------------------------------------------------------------

\* What a process does by itself, given time and memory.
Step(p) ==
    \/ ReadEnvelope(p)  \/ SelectOperation(p) \/ ProbeBackend(p)
    \/ DecodeHex(p)     \/ DecodePayload(p)   \/ ProbeAgain(p)
    \/ Compute(p)       \/ DeviceFault(p)
    \/ WriteAnswer(p)   \/ WriteReport(p)

DeviceChanges == deviceUp' = ~deviceUp /\ UNCHANGED <<process, faults>>

\* Started directly, by whoever runs the binary.
Launch(p) == (\E b \in Builds : Start(p, b)) /\ Undisturbed

Next ==
    \/ \E p \in Processes :
          Launch(p) \/ Step(p) \/ AllocationFails(p) \/ Killed(p)
    \/ DeviceChanges

Spec == Init /\ [][Next]_vars

\* A started process is scheduled until it exits: the code has no loop that
\* waits, and main reads stdin to an end the caller provides.
FairSpec == Spec /\ \A p \in Processes : WF_vars(Step(p))
-----------------------------------------------------------------------------
(* Properties *)

TypeOK ==
    /\ pc \in [Processes -> Stages \cup {"unstarted", "exited"}]
    /\ request \in [Processes -> Requests]
    /\ build \in [Processes -> Builds \cup {NoBuild}]
    /\ outcome \in [Processes -> Outcome]
    /\ stdout \in [Processes -> Seq(Written)]
    /\ exit \in [Processes -> {"none", "ok", "catastrophic", "killed"}]
    /\ deviceUp \in BOOLEAN
    /\ faults \in 0..MaxFaults

\* What has been established about its request when a process is at a stage;
\* the program text relies on it without testing it again.
Selected == {"probe", "hex", "decode", "reprobe", "compute", "answer"}
Probed == Selected \ {"probe"}
Running == {"decode", "reprobe", "compute", "answer"}

Established(stage, q, b, o) ==
    /\ stage # "unstarted" => b \in Builds
    /\ stage \in Selected \cup {"select"} => EnvelopeAccepted(q)
    /\ stage \in Selected => q.operation \in Operations
    /\ stage \in Probed /\ q.backend = "cuda" => b \in CudaBuilds
    /\ stage \in Running => q.hex = "bytes"
    /\ stage = "compute" => q.payload \notin StoppedByDecode
    /\ stage = "reprobe" /\ q.operation \notin HostOnly => q.payload \notin StoppedByDecode
    /\ stage \in {"answer", "report"} => o.status # "none"
    /\ stage \in {"unstarted"} \cup (Stages \ {"answer", "report"}) => o = NoOutcome

StageInv ==
    \A p \in Processes : Established(pc[p], request[p], build[p], outcome[p])

\* What a process is about to write is justified by its request and its binary, and
\* what it has written is that, alone or after the remains of a failed write.
Justified(o, q, b) ==
    /\ Runnable(q) /\ q.backend = "cuda" /\ b \notin CudaBuilds =>
           o.exit_code = kFaultBackendUnavailable
    /\ o.status = "completed" =>
           /\ Runnable(q)
           /\ o = completed(Engine(q))
           /\ q.backend = "cuda" => b \in CudaBuilds
    /\ o.status = "halted" => o.output = "none" /\ o.exit_code # kFaultNone

Settled(stage, o, q, b, text, how) ==
    /\ o.status # "none" => Justified(o, q, b)
    /\ stage # "exited" => how = "none"
    /\ stage \notin {"report", "exited"} => Len(text) = 0
    /\ stage = "report" => Len(text) \in 0..1
    /\ how = "ok" =>
           /\ o.status # "none" /\ o.detail # "illFormed"
           /\ Len(text) \in 1..2
           /\ text[Len(text)] = make_response(o, EchoedBackend(q), b)

AnswerInv ==
    \A p \in Processes :
        Settled(pc[p], outcome[p], request[p], build[p], stdout[p], exit[p])

\* The answer a process gave: it exited 0 and left one JSON object.
Answered(p) == exit[p] = "ok" /\ Len(stdout[p]) = 1
Answer(p) == stdout[p][1]

\* A binary without SCL_WITH_CUDA answers every cuda request 12, whatever else is
\* wrong with it: main.cpp probes before it decodes, so the caller learns that the
\* backend cannot run at all before it learns that its parameters were bad.
BackendBeforePayload ==
    \A p \in Processes :
        /\ Answered(p)
        /\ Runnable(request[p])
        /\ request[p].backend = "cuda"
        /\ build[p] \notin CudaBuilds
        => Answer(p).exit_code = kFaultBackendUnavailable

\* A completed LJ or FFT answer was computed by the engine it names, whatever the
\* device did between the probes and the kernel: never a silent fallback to the CPU.
NoSilentFallback ==
    \A p \in Processes :
        /\ Answered(p)
        /\ Answer(p).status = "completed"
        /\ request[p].operation \notin HostOnly
        => Answer(p).output_hex = Answer(p).backend_used

\* An answer carries output exactly when it is completed with code 0, and a
\* completed answer was asked of a backend its own binary contains.
OutputOnlyOnSuccess ==
    \A p \in Processes :
        Answered(p) =>
            /\ (Answer(p).status = "completed") <=> (Answer(p).output_hex # "none")
            /\ (Answer(p).status = "completed") <=> (Answer(p).exit_code = kFaultNone)
            /\ Answer(p).output_hex = "cuda" => build[p] \in CudaBuilds

\* Two processes given the same cpu request answer alike, whichever binary they run
\* and whatever the device does meanwhile: the cpu path never depends on the probe.
Unversioned(r) == [r EXCEPT !.backend_version = "none"]
CpuAnswersAlike ==
    \A p1, p2 \in Processes :
        /\ faults = 0
        /\ Answered(p1) /\ Answered(p2)
        /\ request[p1] = request[p2]
        /\ request[p1].backend = "cpu"
        => Unversioned(Answer(p1)) = Unversioned(Answer(p2))

\* Requests whose refusal quotes bytes that JSON cannot carry.
QuotesBadBytes(q) == \/ q.envelope = "illEncoded"
                     \/ q.hex = "strayByte"
                     \/ q.payload = "misattributed"

\* As long as memory, device and process hold, a process ends in exit 0 with one
\* JSON object, unless the request makes the CLI quote bytes that are not UTF-8 or
\* holds a number that no double can. Even then, and even under faults, exit 0 with
\* anything else is the filter's doing.
Unanswerable(q) == QuotesBadBytes(q) \/ q.envelope = "outOfRange"

OneAnswer ==
    \A p \in Processes :
        /\ pc[p] = "exited" /\ faults = 0 /\ ~Unanswerable(request[p]) => Answered(p)
        /\ exit[p] = "ok" /\ ~Answered(p) => request[p].payload = "misattributed"

\* Once an operation has returned, or main has settled on a fault, the answer stays
\* what it is until the exit, with one exception: what an operation returned is
\* replaced by an internal fault, once, when its text cannot be written or when
\* something fails at that very moment.
AnswerIsFinal ==
    [][\A p \in Processes :
          outcome[p].status # "none" /\ outcome'[p] # outcome[p] =>
              /\ pc[p] = "answer" /\ pc'[p] = "report"
              /\ outcome'[p] = halted(kFaultInternal, "plain")
              /\ outcome[p].detail = "illFormed" \/ faults' > faults]_vars

\* Every process that was started ends: no stage waits for anything.
EveryProcessExits ==
    \A p \in Processes : pc[p] = "envelope" ~> pc[p] = "exited"

-----------------------------------------------------------------------------
(* What the documentation says of every process, and the code does not do *)

\* SCL_CONTRACT.md section 3: exit 0 means one well-formed JSON object on stdout.
ExitZeroMeansOneObject == \A p \in Processes : exit[p] = "ok" => Answered(p)
=============================================================================
