------------------------------- MODULE SclSte -------------------------------
(***************************************************************************)
(* The STE adapter: a specification is built with the version line of the  *)
(* binary installed then, run later through run_scl_request by whatever is *)
(* installed by then, and its result interpreted from the specification.   *)
(* Or a caller without one, who calls run_scl_request himself.             *)
(***************************************************************************)
EXTENDS SclClient

VARIABLES
    spec,     \* each caller's ExecutionSpecification, as far as it is built
    result,   \* the ExecutionResult it was run to, or what was raised instead
    content,  \* what interpret_lj_result or interpret_fourier_result made of it
    same      \* history: the binary was not touched from the version line to the spawn

adapter == <<spec, result, content, same>>
steVars == <<clientVars, spec, result, content, same>>

\* Of the program bytes, only the version line is not already in the request.
NoSpec == [state |-> "none", version |-> "none"]
Built(b) == [state |-> "built", version |-> kVersionString[b]]

NotRun == [how |-> "none", exception |-> "none", exit_code |-> kFaultNone, output |-> "none"]
Raises(e) == [NotRun EXCEPT !.how = "raised", !.exception = e]

\* The method block: which kernel, of which version, is said to have run.
NoContent == [kernel_version |-> "none", backend |-> "none"]

SteInit ==
    /\ ClientInit
    /\ spec = [c \in Calls |-> NoSpec]
    /\ result = [c \in Calls |-> NotRun]
    /\ content = [c \in Calls |-> NoContent]
    /\ same = [c \in Calls |-> FALSE]

-----------------------------------------------------------------------------
(* build_lj_specification, build_fourier_specification: scl_version_line *)

\* The builder raises: there is no specification.
FailBuild(c, e) ==
    /\ spec' = [spec EXCEPT ![c].state = "failed"]
    /\ result' = [result EXCEPT ![c] = Raises(e)]

FindBinary(c) ==
    /\ spec[c].state = "none"
    /\ IF installed = NoBuild
       THEN FailBuild(c, "SCLProtocolError")
       ELSE spec' = [spec EXCEPT ![c].state = "located"] /\ UNCHANGED result
    /\ UNCHANGED <<clientVars, content, same>>

\* Mutant: the version line is the one some earlier call has read.
ReadVersionCached(c) ==
    /\ spec[c].state = "located"
    /\ \E b \in Builds : spec' = [spec EXCEPT ![c] = Built(b)]
    /\ same' = [same EXCEPT ![c] = TRUE]
    /\ UNCHANGED <<clientVars, result, content>>

\* scl_cli --version: it may be gone by now, hang, or be killed.
ReadVersion(c) ==
    /\ spec[c].state = "located"
    /\ \/ /\ installed # NoBuild
          /\ spec' = [spec EXCEPT ![c] = Built(installed)]
          /\ same' = [same EXCEPT ![c] = TRUE]
          /\ UNCHANGED <<result, faults>>
       \/ /\ installed = NoBuild
          /\ FailBuild(c, "OSError")
          /\ UNCHANGED <<same, faults>>
       \/ /\ installed # NoBuild
          /\ FailBuild(c, "TimeoutExpired")
          /\ UNCHANGED <<same, faults>>
       \/ /\ installed # NoBuild
          /\ faults < MaxFaults /\ faults' = faults + 1
          /\ FailBuild(c, "EngineProtocolError")
          /\ UNCHANGED same
    /\ UNCHANGED <<process, deviceUp, client, content>>

\* The dispatcher hands over a specification of some other engine.
ReceiveForeign(c) ==
    /\ spec[c].state = "none"
    /\ spec' = [spec EXCEPT ![c].state = "foreign"]
    /\ UNCHANGED <<clientVars, result, content, same>>

\* No specification: run_scl_request, and raise_for_result on what it returns.
CallDirectly(c) ==
    /\ spec[c].state = "none"
    /\ spec' = [spec EXCEPT ![c].state = "direct"]
    /\ Locate(c)
    /\ UNCHANGED <<result, content, same>>

RaiseDirectly(c) ==
    /\ spec[c].state = "direct"
    /\ RaiseForResult(c)
    /\ UNCHANGED adapter

-----------------------------------------------------------------------------
(* run_scl_specification *)

\* _split_descriptor_full, then run_scl_request begins.
RunSpecification(c) ==
    /\ result[c].how = "none"
    /\ \/ /\ spec[c].state = "built"
          /\ Locate(c)
          /\ result' = [result EXCEPT ![c].how = "running"]
       \/ /\ spec[c].state = "foreign"
          /\ result' = [result EXCEPT ![c] = Raises("EngineProtocolError")]
          /\ UNCHANGED clientVars
    /\ UNCHANGED <<spec, content, same>>

\* Mutant: a halted result is raised, as raise_for_result would.
TranslateRaisesHalts(c) ==
    /\ result[c].how = "running"
    /\ at[c] = "ended"
    /\ result' = [result EXCEPT ![c] =
           IF ended[c].how = "returned" /\ ended[c].result.status = "completed"
           THEN [NotRun EXCEPT !.how = "completed", !.output = ended[c].result.output_hex]
           ELSE Raises("EngineProtocolError")]
    /\ UNCHANGED <<clientVars, spec, content, same>>

\* run_scl_request has ended: the two handlers, and the two ExecutionResults. Neither
\* keeps the backend_version of the answer.
Translate(c) ==
    /\ result[c].how = "running"
    /\ at[c] = "ended"
    /\ result' = [result EXCEPT ![c] =
           IF ended[c].how = "returned"
           THEN [how |-> ended[c].result.status, exception |-> "none",
                 exit_code |-> ended[c].result.exit_code,
                 output |-> ended[c].result.output_hex]
           ELSE Raises(IF ended[c].exception \in {"SCLTimeoutError", "SCLProtocolError"}
                       THEN "EngineProtocolError" ELSE ended[c].exception)]
    /\ UNCHANGED <<clientVars, spec, content, same>>

\* interpret_lj_result, interpret_fourier_result: the other two operations have none.
Interpret(c) ==
    /\ result[c].how = "completed"
    /\ request[c].operation \in {LJ, FFT}
    /\ content[c] = NoContent
    /\ content' = [content EXCEPT ![c] =
           [kernel_version |-> spec[c].version, backend |-> request[c].backend]]
    /\ UNCHANGED <<clientVars, spec, result, same>>

-----------------------------------------------------------------------------

\* What the caller does; once a specification runs, the client acts for it.
Calling(c) ==
    /\ Spawn(c) \/ Collect(c) \/ Deadline(c) \/ Reap(c)
    /\ UNCHANGED adapter

SteStep(c) ==
    \/ FindBinary(c) \/ ReadVersion(c) \/ ReceiveForeign(c) \/ CallDirectly(c)
    \/ RunSpecification(c) \/ Translate(c) \/ Interpret(c)

Reinstall ==
    /\ Install
    /\ same' = [c \in Calls |->
           same[c] /\ (at[c] \in {"calling", "located"} => installed' = installed)]
    /\ UNCHANGED <<spec, result, content>>

SteNext ==
    \/ \E c \in Calls : SteStep(c) \/ Calling(c) \/ RaiseDirectly(c)
    \/ \E c \in Calls :
          (Step(c) \/ AllocationFails(c) \/ Killed(c)) /\ UNCHANGED <<client, adapter>>
    \/ DeviceChanges /\ UNCHANGED <<client, adapter>>
    \/ Reinstall

SteSpec == SteInit /\ [][SteNext]_steVars

\* Only the caller's own progress and its deadline are assumed, not the child's.
FairSteSpec == SteSpec /\ \A c \in Calls : WF_steVars(SteStep(c) \/ Calling(c))

-----------------------------------------------------------------------------
(* Properties *)

\* As long as nobody touches the binary between the version line and the spawn, the
\* method block names the version that computed, and the answer names the same one.
UnchangedVersionIsRecorded ==
    \A c \in Calls :
        content[c] # NoContent /\ same[c] =>
            /\ content[c].kernel_version = kVersionString[build[c]]
            /\ content[c].kernel_version = Answer(c).backend_version

\* The backend in a method block is the engine that computed the numbers beside it,
\* although it is copied from the specification and not from the answer.
MethodBlockBackendRan ==
    \A c \in Calls :
        content[c] # NoContent => content[c].backend = Answer(c).output_hex

\* Every call ends, even if its process never does, the binary is removed under it or its
\* version line never comes: with a result or an exception, and a specification that is
\* run with an ExecutionResult.
EveryCallEnds ==
    \A c \in Calls :
        spec[c].state # "none" ~>
            IF spec[c].state = "direct" THEN at[c] = "ended"
            ELSE result[c].how \in {"completed", "halted", "raised"}

\* A normal halt is never raised: when run_scl_specification raises over a readable
\* program, the process left no whole answer, or it came after the deadline. And a
\* result repeats what the process answered, with output exactly when it completed.
HaltsAreResults ==
    \A c \in Calls :
        /\ result[c].how = "raised" /\ spec[c].state = "built" /\ Answered(c) =>
               ended[c].exception = "SCLTimeoutError"
        /\ result[c].how \in {"completed", "halted"} =>
               /\ Answered(c)
               /\ result[c].how = Answer(c).status
               /\ result[c].exit_code = Answer(c).exit_code
               /\ result[c].output # "none" <=> result[c].how = "completed"
=============================================================================
