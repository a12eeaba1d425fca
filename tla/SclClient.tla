----------------------------- MODULE SclClient ------------------------------
(***************************************************************************)
(* run_scl_request: concurrent callers, each of which finds the binary,    *)
(* starts a process of its own, waits for it with a deadline and judges    *)
(* what it left behind; the binary may be rebuilt or removed meanwhile.    *)
(***************************************************************************)
EXTENDS SclCli

Calls == Processes   \* one fresh scl_cli process per call

\* json.dumps sends an object of ASCII text, with hex fields made by bytes.hex().
ASSUME ClientAssumption == Requests \subseteq ClientRequests

VARIABLES
    installed,   \* the binary at cli_path, or NoBuild
    at,          \* where each caller is in run_scl_request
    ended        \* how the call ended

Service == INSTANCE SclService WITH
    answer <- [c \in Calls |->
        IF \/ outcome[c].detail = "illFormed"
           \/ outcome[c].status = "none"
           \/ \E i \in 1..Len(stdout[c]) : stdout[c][i].status = "fragment"
        THEN NoResponse
        ELSE Response(c)]

client == <<installed, at, ended>>
clientVars == <<vars, installed, at, ended>>

ClientInit ==
    /\ Init
    /\ installed \in Builds \cup {NoBuild}
    /\ at = [c \in Calls |-> "calling"]
    /\ ended = [c \in Calls |-> Service!Open]

End(c, how) ==
    /\ at' = [at EXCEPT ![c] = "ended"]
    /\ ended' = [ended EXCEPT ![c] = how]
    /\ UNCHANGED installed

Proceed(c, there) == at' = [at EXCEPT ![c] = there] /\ UNCHANGED <<installed, ended>>

-----------------------------------------------------------------------------

\* if not path.exists(): raise
Locate(c) ==
    /\ at[c] = "calling"
    /\ IF installed = NoBuild
       THEN End(c, Service!Raised("SCLProtocolError"))
       ELSE Proceed(c, "located")
    /\ UNCHANGED vars

\* subprocess.run starts whatever is at the path by now; what it raises when
\* nothing is there is no SCLError, and nothing catches it.
Spawn(c) ==
    /\ at[c] = "located"
    /\ IF installed = NoBuild
       THEN End(c, Service!Raised("OSError")) /\ UNCHANGED process
       ELSE Start(c, installed) /\ Proceed(c, "waiting")
    /\ Undisturbed

\* json.loads(proc.stdout): one object with the required fields, or no response.
Unreadable(c) == Len(stdout[c]) # 1 \/ stdout[c][1].status \notin {"completed", "halted"}

SCLResult(r) ==
    [r EXCEPT !.output_hex = IF r.status = "halted" THEN "none" ELSE @,
              !.detail = IF r.status = "halted" THEN @ ELSE "none"]

\* Mutant: a halted response is treated as a failed channel.
CollectRefusesHalts(c) ==
    /\ at[c] = "waiting"
    /\ pc[c] = "exited"
    /\ End(c, IF exit[c] # "ok" \/ Unreadable(c) \/ stdout[c][1].status # "completed"
              THEN Service!Raised("SCLProtocolError")
              ELSE Service!Returned(SCLResult(stdout[c][1])))
    /\ UNCHANGED vars

\* communicate() returned: the pipe is at its end and the process has exited.
Collect(c) ==
    /\ at[c] = "waiting"
    /\ pc[c] = "exited"
    /\ End(c, IF \/ exit[c] # "ok"
                 \/ Unreadable(c)
                 \/ stdout[c][1].status = "completed" /\ stdout[c][1].output_hex = "none"
              THEN Service!Raised("SCLProtocolError")
              ELSE Service!Returned(SCLResult(stdout[c][1])))
    /\ UNCHANGED vars

\* Mutant: the deadline is only looked at once the process has exited.
DeadlineAfterExit(c) ==
    /\ at[c] = "waiting"
    /\ pc[c] = "exited"
    /\ Proceed(c, "killing")
    /\ UNCHANGED vars

\* TimeoutExpired: also when the process has just exited and was not yet collected.
Deadline(c) ==
    /\ at[c] = "waiting"
    /\ Proceed(c, "killing")
    /\ UNCHANGED vars

\* Mutant: the timeout is raised and the process left to itself.
ReapLeavesRunning(c) ==
    /\ at[c] = "killing"
    /\ UNCHANGED process
    /\ End(c, Service!Raised("SCLTimeoutError"))
    /\ Undisturbed

\* subprocess.run kills the process, waits for it, and re-raises.
Reap(c) ==
    /\ at[c] = "killing"
    /\ IF pc[c] = "exited" THEN UNCHANGED process ELSE Exit(c, "killed") /\ UNCHANGED stdout
    /\ End(c, Service!Raised("SCLTimeoutError"))
    /\ Undisturbed

RaiseForResult(c) ==
    /\ ended[c].how = "returned"
    /\ ended[c].result.status = "halted"
    /\ ended' = [ended EXCEPT ![c] =
           Service!Raised(Service!ExceptionFor(ended[c].result.exit_code))]
    /\ UNCHANGED <<vars, installed, at>>

-----------------------------------------------------------------------------

ClientStep(c) == Locate(c) \/ Spawn(c) \/ Collect(c) \/ Deadline(c) \/ Reap(c)

\* cmake --build replaces the binary; between the two it is not there.
Install == installed' \in Builds \cup {NoBuild} /\ UNCHANGED <<vars, at, ended>>

ClientNext ==
    \/ \E c \in Calls : ClientStep(c) \/ RaiseForResult(c)
    \/ \E c \in Calls :
          (Step(c) \/ AllocationFails(c) \/ Killed(c)) /\ UNCHANGED client
    \/ DeviceChanges /\ UNCHANGED client
    \/ Install

ClientSpec == ClientInit /\ [][ClientNext]_clientVars

-----------------------------------------------------------------------------
(* Properties *)

\* A process exists exactly while its call waits for it: a call that has ended, by a
\* result, an error or a timeout, leaves no scl_cli running behind it.
NoOrphan ==
    \A c \in Calls : pc[c] \in Stages => at[c] \in {"waiting", "killing"}

\* A whole answer is never lost to anything but the deadline: a computational halt is
\* returned as a result, and SCLProtocolError out of run_scl_request means that there
\* was no binary, or that the process left no readable answer.
WholeAnswersReturn ==
    \A c \in Calls :
        /\ at[c] = "ended"
        /\ Answered(c)
        /\ ended[c].exception # "SCLTimeoutError"
        => /\ ended[c].how = "returned" =>
                 ended[c].result = Answer(c)
           /\ ended[c].how = "raised" =>
                 ended[c].exception = Service!ExceptionFor(Answer(c).exit_code)

\* The exceptions raise_for_result makes are earned: a validation error was not
\* raised over a backend that this binary cannot run, an unavailability only over a
\* cuda request, and a sound cpu request is never anything's fault but the machine's.
ExceptionsAreEarned ==
    \A c \in Calls :
        LET q == request[c]
            e == ended[c].exception
        IN  /\ e \in {"SCLValidationError", "SCLComputationError"} =>
                   (q.backend = "cuda" => build[c] \in CudaBuilds)
            /\ e = "SCLBackendUnavailableError" => q.backend = "cuda"
            /\ /\ Runnable(q) /\ q.backend = "cpu" /\ q.payload = "sound" /\ faults = 0
               => e \in {"none", "OSError", "SCLTimeoutError", "SCLProtocolError"}
            /\ e = "SCLProtocolError" /\ faults = 0 /\ build[c] # NoBuild =>
                   ~Runnable(q) \/ QuotesBadBytes(q)

\* The calls implement the service: each answer is decided at one instant.
ServiceSafeSpec == Service!SafeSpec

-----------------------------------------------------------------------------
(* What client.py says of every call, and the code does not do *)

\* client.py: raises SCLProtocolError/SCLTimeoutError for channel-level failures,
\* a missing binary among them.
ChannelErrorsAreScl == \A c \in Calls : ended[c].exception # "OSError"
=============================================================================
