------------------------------ MODULE SclProofs ------------------------------
(***************************************************************************)
(* Theorems of the scl_cli process, of run_scl_request around the          *)
(* processes it starts, and of the STE adapter around it, for any number   *)
(* of processes and of concurrent calls, any binaries and requests, and    *)
(* any bound on failures, while the binary is replaced and the device      *)
(* comes and goes.                                                         *)
(***************************************************************************)
EXTENDS SclSte, SequenceTheorems, TLAPS

USE DEF FaultCodes, kFaultNone, kFaultProtocol, kFaultValidation,
        kFaultBackendUnavailable, kFaultComputation, kFaultInternal, Service!kFaultNone

-----------------------------------------------------------------------------
(* What the pure definitions return *)

LEMMA HaltedIsOutcome ==
    ASSUME NEW code \in FaultCodes, NEW text \in {"plain", "illFormed"}
    PROVE  /\ halted(code, text) \in Outcome
           /\ halted(code, text).status = "halted"
           /\ halted(code, text).exit_code = code
           /\ halted(code, text).output = "none"
           /\ halted(code, text).detail = text
BY DEF halted, Outcome

LEMMA CompletedIsOutcome ==
    ASSUME NEW engine \in Backends
    PROVE  /\ completed(engine) \in Outcome
           /\ completed(engine).status = "completed"
           /\ completed(engine).exit_code = kFaultNone
           /\ completed(engine).output = engine
           /\ completed(engine).detail = "none"
BY DEF completed, Outcome, Backends

LEMMA RequestShape ==
    ASSUME NEW q \in Requests
    PROVE  /\ q \in PossibleRequests
           /\ q \in Request
           /\ q.hex \in {"bytes", "badDigit", "strayByte"}
           /\ q.operation \in Operations \cup {Unregistered}
           /\ q.backend \in Backends \cup {"other"}
           /\ q.payload \in PayloadClasses(q.operation)
BY CliAssumption DEF PossibleRequests, Request

LEMMA EngineIsBackend ==
    ASSUME NEW q \in Requests, EnvelopeAccepted(q)
    PROVE  Engine(q) \in Backends
BY RequestShape DEF Engine, EnvelopeAccepted, Backends

LEMMA DecodeIsOutcome ==
    ASSUME NEW q \in Requests
    PROVE  /\ DecodeOutcome(q) \in Outcome
           /\ DecodeOutcome(q).status = "halted"
           /\ DecodeOutcome(q).exit_code # kFaultNone
           /\ DecodeOutcome(q).output = "none"
BY DEF DecodeOutcome, halted, Outcome

LEMMA ComputeIsOutcome ==
    ASSUME NEW q \in Requests, EnvelopeAccepted(q)
    PROVE  /\ ComputeOutcome(q) \in Outcome
           /\ ComputeOutcome(q).status \in {"completed", "halted"}
           /\ ComputeOutcome(q).status = "completed" =>
                  ComputeOutcome(q) = completed(Engine(q))
           /\ ComputeOutcome(q).status = "halted" =>
                  ComputeOutcome(q).output = "none" /\ ComputeOutcome(q).exit_code # kFaultNone
<1>1. Engine(q) \in Backends
  BY EngineIsBackend
<1>2. CASE ComputeOutcome(q) = completed(Engine(q))
  BY <1>1, <1>2, CompletedIsOutcome
<1>3. CASE \E code \in FaultCodes, text \in {"plain", "illFormed"} :
              ComputeOutcome(q) = halted(code, text)
  BY <1>3, HaltedIsOutcome
<1>4. QED
  BY <1>2, <1>3 DEF ComputeOutcome

LEMMA ResponseIsWritten ==
    ASSUME NEW o \in Outcome, NEW q \in Requests, NEW b \in Builds
    PROVE  make_response(o, EchoedBackend(q), b) \in Written
BY RequestShape, BuildsAssumption DEF make_response, EchoedBackend, EnvelopeAccepted, Written, Outcome, Backends

LEMMA FragmentIsWritten == Fragment \in Written
BY DEF Fragment, NoResponse, Written, FaultCodes, Backends

LEMMA Writing ==
    ASSUME NEW s \in Seq(Written), NEW r \in Written
    PROVE  /\ Append(s, r) \in Seq(Written)
           /\ Len(s) \in Nat
           /\ Len(Append(s, r)) = Len(s) + 1
           /\ Append(s, r)[Len(s) + 1] = r
BY AppendProperties

\* Where memory runs out: nobody catches it, or the answer becomes a fault.
FaultStages == {"hex", "decode", "reprobe", "compute", "answer"}

LEMMA AllocationFailsSomewhere ==
    ASSUME NEW p \in Processes, AllocationFails(p)
    PROVE  \/ pc[p] \in Stages \ FaultStages /\ Exit(p, "catastrophic") /\ UNCHANGED stdout
           \/ /\ pc[p] \in FaultStages \ {"hex", "answer"}
              /\ request[p].operation \in HostOnly
              /\ Conclude(p, halted(kFaultComputation, "plain"), "answer")
           \/ /\ pc[p] \in FaultStages
              /\ Conclude(p, halted(kFaultInternal, "plain"), "report")
BY DEF AllocationFails, InSecondTry, InOperation, FaultStages, Stages, Return, Report
-----------------------------------------------------------------------------
(* Type correctness, with what each stage has established: the response a   *)
(* process writes has a type only because it was started with a binary.     *)

TypeInv == TypeOK /\ StageInv

LEMMA TypeInvInit == Init => TypeInv
<1> SUFFICES ASSUME Init PROVE TypeInv
  OBVIOUS
<1>1. NoOutcome \in Outcome
  BY DEF NoOutcome, Outcome
<1>2. TypeOK
  <2>1. <<>> \in Seq(Written)
    OBVIOUS
  <2> QED BY <1>1, <2>1, CliAssumption DEF Init, TypeOK
<1>3. StageInv
  BY DEF Init, StageInv, Established, Stages, Selected, Probed, Running
<1> QED BY <1>2, <1>3 DEF TypeInv

\* A step of one process keeps what has been established of the others.
LEMMA OneProcessStageInv ==
    ASSUME TypeInv, NEW p \in Processes,
           \A r \in Processes \ {p} :
               /\ pc'[r] = pc[r] /\ build'[r] = build[r] /\ outcome'[r] = outcome[r],
           UNCHANGED request,
           Established(pc'[p], request[p], build'[p], outcome'[p])
    PROVE  StageInv'
<1> SUFFICES ASSUME NEW r \in Processes
             PROVE  Established(pc'[r], request[r], build'[r], outcome'[r])
  BY DEF StageInv
<1>1. CASE r = p
  BY <1>1
<1>2. CASE r # p
  BY <1>2 DEF TypeInv, StageInv
<1> QED BY <1>1, <1>2

\* A process moves on to another stage.
LEMMA GotoTypeInv ==
    ASSUME TypeInv, NEW p \in Processes, NEW stage \in Stages,
           Goto(p, stage), UNCHANGED deviceUp, faults' \in 0..MaxFaults,
           Established(stage, request[p], build[p], outcome[p])
    PROVE  TypeInv'
<1>1. TypeOK'
  BY DEF TypeInv, TypeOK, Goto
<1>2. Established(pc'[p], request[p], build'[p], outcome'[p])
  BY DEF TypeInv, TypeOK, Goto
<1>3. StageInv'
  <2>1. \A r \in Processes \ {p} :
            pc'[r] = pc[r] /\ build'[r] = build[r] /\ outcome'[r] = outcome[r]
    BY DEF TypeInv, TypeOK, Goto
  <2>2. UNCHANGED request
    BY DEF Goto
  <2> QED BY <1>2, <2>1, <2>2, OneProcessStageInv
<1> QED BY <1>1, <1>3 DEF TypeInv

\* A process settles on an answer.
LEMMA ConcludeTypeInv ==
    ASSUME TypeInv, NEW p \in Processes, NEW stage \in {"answer", "report"}, NEW o \in Outcome,
           Conclude(p, o, stage), UNCHANGED deviceUp, faults' \in 0..MaxFaults,
           o.status # "none",
           Established(stage, request[p], build[p], o)
    PROVE  TypeInv'
<1>1. TypeOK'
  BY DEF TypeInv, TypeOK, Conclude, Stages
<1>2. Established(pc'[p], request[p], build'[p], outcome'[p])
  BY DEF TypeInv, TypeOK, Conclude
<1>3. StageInv'
  <2>1. \A r \in Processes \ {p} :
            pc'[r] = pc[r] /\ build'[r] = build[r] /\ outcome'[r] = outcome[r]
    BY DEF TypeInv, TypeOK, Conclude
  <2>2. UNCHANGED request
    BY DEF Conclude
  <2> QED BY <1>2, <2>1, <2>2, OneProcessStageInv
<1> QED BY <1>1, <1>3 DEF TypeInv

\* A process exits, having written one more thing or nothing.
LEMMA ExitTypeInv ==
    ASSUME TypeInv, NEW p \in Processes, pc[p] # "unstarted",
           NEW how \in {"ok", "catastrophic", "killed"},
           Exit(p, how), UNCHANGED deviceUp, faults' \in 0..MaxFaults,
           UNCHANGED stdout \/ \E r \in Written : Write(p, r)
    PROVE  TypeInv'
<1>1. stdout' \in [Processes -> Seq(Written)]
  <2>1. ASSUME NEW r \in Written, Write(p, r)
        PROVE  stdout' \in [Processes -> Seq(Written)]
    <3>1. stdout[p] \in Seq(Written)
      BY DEF TypeInv, TypeOK
    <3>2. Append(stdout[p], r) \in Seq(Written)
      BY <3>1, Writing
    <3> QED BY <2>1, <3>2 DEF TypeInv, TypeOK, Write
  <2> QED BY <2>1 DEF TypeInv, TypeOK
<1>2. TypeOK'
  BY <1>1 DEF TypeInv, TypeOK, Exit
<1>3. Established(pc'[p], request[p], build'[p], outcome'[p])
  BY DEF TypeInv, TypeOK, StageInv, Exit, Established, Stages, Selected, Probed, Running
<1>4. StageInv'
  <2>1. \A r \in Processes \ {p} :
            pc'[r] = pc[r] /\ build'[r] = build[r] /\ outcome'[r] = outcome[r]
    BY DEF TypeInv, TypeOK, Exit
  <2>2. UNCHANGED request
    BY DEF Exit
  <2> QED BY <1>3, <2>1, <2>2, OneProcessStageInv
<1> QED BY <1>2, <1>4 DEF TypeInv

LEMMA StartTypeInv ==
    ASSUME TypeInv, NEW p \in Processes, NEW b \in Builds, Start(p, b), Undisturbed
    PROVE  TypeInv'
<1>1. TypeOK'
  BY DEF TypeInv, TypeOK, Start, Undisturbed, Stages
<1>2. Established(pc'[p], request[p], build'[p], outcome'[p])
  BY DEF TypeInv, TypeOK, StageInv, Start, Established, Stages, Selected, Probed, Running
<1>3. StageInv'
  <2>1. \A r \in Processes \ {p} :
            pc'[r] = pc[r] /\ build'[r] = build[r] /\ outcome'[r] = outcome[r]
    BY DEF TypeInv, TypeOK, Start
  <2>2. UNCHANGED request
    BY DEF Start
  <2> QED BY <1>2, <2>1, <2>2, OneProcessStageInv
<1> QED BY <1>1, <1>3 DEF TypeInv

\* The response a process at one of its two writes would leave.
LEMMA ResponseWhileWriting ==
    ASSUME TypeInv, NEW p \in Processes, pc[p] \in Stages
    PROVE  Response(p) \in Written
<1>1. outcome[p] \in Outcome /\ request[p] \in Requests /\ build[p] \in Builds
  BY DEF TypeInv, TypeOK, StageInv, Established, Stages
<1> QED BY <1>1, ResponseIsWritten DEF Response

\* Every step of one process keeps types and what the stages establish.
LEMMA StepTypeInv ==
    ASSUME TypeInv, NEW p \in Processes, Step(p)
    PROVE  TypeInv'
<1> DEFINE q == request[p]
<1>0. /\ q \in Requests
      /\ Established(pc[p], q, build[p], outcome[p])
      /\ faults \in 0..MaxFaults
      /\ outcome[p] \in Outcome
  BY DEF TypeInv, TypeOK, StageInv
<1> USE DEF Return, Report
<1>1. CASE ReadEnvelope(p)
  <2>1. CASE EnvelopeAccepted(q)
    BY <1>0, <1>1, <2>1, GotoTypeInv
       DEF ReadEnvelope, EnvelopeAccepted, Established, Stages, Selected, Probed, Running,
           Undisturbed
  <2>2. CASE ~EnvelopeAccepted(q) /\ q.envelope # "outOfRange"
    <3> DEFINE text == IF q.envelope = "illEncoded" THEN "illFormed" ELSE "plain"
    <3>1. text \in {"plain", "illFormed"} /\ kFaultProtocol \in FaultCodes
      OBVIOUS
    <3>2. Conclude(p, halted(kFaultProtocol, text), "report") /\ Undisturbed
      BY <1>1, <2>2 DEF ReadEnvelope
    <3> QED BY <1>0, <1>1, <3>1, <3>2, HaltedIsOutcome, ConcludeTypeInv
               DEF ReadEnvelope, Established, Stages, Selected, Probed, Running, Undisturbed
  <2>3. CASE ~EnvelopeAccepted(q) /\ q.envelope = "outOfRange"
    BY <1>0, <1>1, <2>3, ExitTypeInv DEF ReadEnvelope, Undisturbed
  <2> QED BY <2>1, <2>2, <2>3
<1>2. CASE SelectOperation(p)
  BY <1>0, <1>2, HaltedIsOutcome, GotoTypeInv, ConcludeTypeInv
     DEF SelectOperation, Established, Stages, Selected, Probed, Running, Undisturbed
<1>3. CASE ProbeBackend(p)
  BY <1>0, <1>3, HaltedIsOutcome, GotoTypeInv, ConcludeTypeInv
     DEF ProbeBackend, backend_available, Established, Stages, Selected, Probed, Running,
         Undisturbed
<1>4. CASE DecodeHex(p)
  BY <1>0, <1>4, RequestShape, HaltedIsOutcome, GotoTypeInv, ConcludeTypeInv
     DEF DecodeHex, Established, Stages, Selected, Probed, Running, Undisturbed
<1>5. CASE DecodePayload(p)
  BY <1>0, <1>5, DecodeIsOutcome, GotoTypeInv, ConcludeTypeInv
     DEF DecodePayload, Established, Stages, Selected, Probed, Running, Undisturbed
<1>6. CASE ProbeAgain(p)
  BY <1>0, <1>6, HaltedIsOutcome, GotoTypeInv, ConcludeTypeInv
     DEF ProbeAgain, backend_available, Established, Stages, Selected, Probed, Running,
         Undisturbed
<1>7. CASE Compute(p)
  BY <1>0, <1>7, ComputeIsOutcome, ConcludeTypeInv
     DEF Compute, Established, Stages, Selected, Probed, Running, Undisturbed
<1>8. CASE DeviceFault(p)
  <2>1. faults' \in 0..MaxFaults
    BY <1>0, <1>8, CliAssumption DEF DeviceFault
  <2> QED BY <1>0, <1>8, <2>1, HaltedIsOutcome, ConcludeTypeInv
             DEF DeviceFault, Established, Stages, Selected, Probed, Running
<1>9. CASE WriteAnswer(p)
  <2>1. CASE outcome[p].detail # "illFormed"
    BY <1>0, <1>9, <2>1, ResponseWhileWriting, ExitTypeInv
       DEF WriteAnswer, Stages, Undisturbed
  <2>2. CASE outcome[p].detail = "illFormed"
    <3> DEFINE o == halted(kFaultInternal, "plain")
    <3>1. o \in Outcome /\ o.status # "none"
      BY HaltedIsOutcome
    <3>2. /\ outcome' = [outcome EXCEPT ![p] = o]
          /\ pc' = [pc EXCEPT ![p] = "report"]
          /\ Write(p, Fragment)
          /\ UNCHANGED <<request, build, exit, deviceUp, faults>>
      BY <1>9, <2>2 DEF WriteAnswer, Undisturbed
    <3> HIDE DEF o
    <3>3. stdout' \in [Processes -> Seq(Written)]
      <4>1. Append(stdout[p], Fragment) \in Seq(Written)
        BY Writing, FragmentIsWritten DEF TypeInv, TypeOK
      <4> QED BY <3>2, <4>1 DEF TypeInv, TypeOK, Write
    <3>4. TypeOK'
      BY <3>1, <3>2, <3>3 DEF TypeInv, TypeOK, Stages
    <3>5. Established(pc'[p], request[p], build'[p], outcome'[p])
      BY <1>0, <1>9, <3>1, <3>2
         DEF WriteAnswer, TypeInv, TypeOK, Established, Stages, Selected, Probed, Running
    <3>6. \A r \in Processes \ {p} :
              pc'[r] = pc[r] /\ build'[r] = build[r] /\ outcome'[r] = outcome[r]
      BY <3>2 DEF TypeInv, TypeOK
    <3>7. StageInv'
      BY <3>2, <3>5, <3>6, OneProcessStageInv
    <3> QED BY <3>4, <3>7 DEF TypeInv
  <2> QED BY <2>1, <2>2
<1>10. CASE WriteReport(p)
  <2>1. CASE outcome[p].detail # "illFormed"
    BY <1>0, <1>10, <2>1, ResponseWhileWriting, ExitTypeInv
       DEF WriteReport, Stages, Undisturbed
  <2>2. CASE outcome[p].detail = "illFormed"
    BY <1>0, <1>10, <2>2, FragmentIsWritten, ExitTypeInv DEF WriteReport, Undisturbed
  <2> QED BY <2>1, <2>2
<1> QED BY <1>1, <1>2, <1>3, <1>4, <1>5, <1>6, <1>7, <1>8, <1>9, <1>10 DEF Step

LEMMA FailureTypeInv ==
    ASSUME TypeInv, NEW p \in Processes, AllocationFails(p) \/ Killed(p)
    PROVE  TypeInv'
<1>0. /\ Established(pc[p], request[p], build[p], outcome[p])
      /\ faults' \in 0..MaxFaults
      /\ UNCHANGED deviceUp
  BY CliAssumption DEF TypeInv, TypeOK, StageInv, AllocationFails, Killed
<1>1. CASE AllocationFails(p)
  BY <1>0, <1>1, AllocationFailsSomewhere, HaltedIsOutcome, ConcludeTypeInv, ExitTypeInv
     DEF FaultStages, Established, Stages, Selected, Probed, Running
<1>2. CASE Killed(p)
  BY <1>0, <1>2, ExitTypeInv DEF Killed, Stages
<1> QED BY <1>1, <1>2

LEMMA NextTypeInv == TypeInv /\ [Next]_vars => TypeInv'
<1> SUFFICES ASSUME TypeInv, [Next]_vars PROVE TypeInv'
  OBVIOUS
<1>1. ASSUME NEW p \in Processes, Launch(p) PROVE TypeInv'
  BY <1>1, StartTypeInv DEF Launch, Undisturbed
<1>2. ASSUME NEW p \in Processes, Step(p) PROVE TypeInv'
  BY <1>2, StepTypeInv
<1>3. ASSUME NEW p \in Processes, AllocationFails(p) \/ Killed(p) PROVE TypeInv'
  BY <1>3, FailureTypeInv
<1>4. CASE DeviceChanges
  BY <1>4 DEF DeviceChanges, process, TypeInv, TypeOK, StageInv
<1>5. CASE UNCHANGED vars
  BY <1>5 DEF vars, TypeInv, TypeOK, StageInv
<1> QED BY <1>1, <1>2, <1>3, <1>4, <1>5 DEF Next

\* Every reachable state is well typed, and a process at a stage has passed the tests
\* that the code at that stage takes for granted.
THEOREM TypeCorrect == Spec => []TypeInv
BY TypeInvInit, NextTypeInv, PTL DEF Spec

COROLLARY TypesHold == Spec => []TypeOK
<1>1. TypeInv => TypeOK
  BY DEF TypeInv
<1> QED BY <1>1, TypeCorrect, PTL

COROLLARY StagesHold == Spec => []StageInv
<1>1. TypeInv => StageInv
  BY DEF TypeInv
<1> QED BY <1>1, TypeCorrect, PTL

-----------------------------------------------------------------------------
(* What has been answered: justified by request and binary, and written     *)
(* once.                                                                    *)

LEMMA NoneIsSettled == NoOutcome.status = "none"
BY DEF NoOutcome

LEMMA AnswerInvInit == Init => AnswerInv
<1> SUFFICES ASSUME Init PROVE AnswerInv
  OBVIOUS
<1>1. Len(<<>>) = 0
  OBVIOUS
<1> QED BY <1>1, NoneIsSettled DEF Init, AnswerInv, Settled

\* A step of one process leaves the answers of the others alone.
LEMMA OneProcessAnswerInv ==
    ASSUME AnswerInv, NEW p \in Processes,
           \A r \in Processes \ {p} :
               /\ pc'[r] = pc[r] /\ outcome'[r] = outcome[r] /\ build'[r] = build[r]
               /\ stdout'[r] = stdout[r] /\ exit'[r] = exit[r],
           UNCHANGED request,
           Settled(pc'[p], outcome'[p], request[p], build'[p], stdout'[p], exit'[p])
    PROVE  AnswerInv'
<1> SUFFICES ASSUME NEW r \in Processes
             PROVE  Settled(pc'[r], outcome'[r], request[r], build'[r], stdout'[r], exit'[r])
  BY DEF AnswerInv
<1>1. CASE r = p
  BY <1>1
<1>2. CASE r # p
  BY <1>2 DEF AnswerInv
<1> QED BY <1>1, <1>2

LEMMA GotoAnswerInv ==
    ASSUME TypeInv, AnswerInv, NEW p \in Processes, NEW stage \in Stages \ {"report"},
           Goto(p, stage), pc[p] \in Stages \ {"report"}
    PROVE  AnswerInv'
<1>1. Settled(pc'[p], outcome'[p], request[p], build'[p], stdout'[p], exit'[p])
  BY DEF TypeInv, TypeOK, AnswerInv, Settled, Goto, Stages
<1> QED BY <1>1, OneProcessAnswerInv DEF TypeInv, TypeOK, Goto

LEMMA ConcludeAnswerInv ==
    ASSUME TypeInv, AnswerInv, NEW p \in Processes, NEW stage \in {"answer", "report"},
           NEW o \in Outcome, Conclude(p, o, stage), pc[p] \in Stages \ {"report"},
           Justified(o, request[p], build[p])
    PROVE  AnswerInv'
<1>1. /\ Settled(pc[p], outcome[p], request[p], build[p], stdout[p], exit[p])
      /\ Len(stdout[p]) = 0 /\ exit[p] = "none"
  BY DEF AnswerInv, Settled, Stages
<1>2. Settled(pc'[p], outcome'[p], request[p], build'[p], stdout'[p], exit'[p])
  BY <1>1 DEF TypeInv, TypeOK, Settled, Conclude
<1> QED BY <1>2, OneProcessAnswerInv DEF TypeInv, TypeOK, Conclude

LEMMA ExitAnswerInv ==
    ASSUME TypeInv, AnswerInv, NEW p \in Processes,
           NEW how \in {"ok", "catastrophic", "killed"}, Exit(p, how),
           UNCHANGED stdout \/ \E r \in Written : Write(p, r),
           how = "ok" => /\ pc[p] \in {"answer", "report"}
                         /\ outcome[p].detail # "illFormed"
                         /\ Response(p) \in Written
                         /\ Write(p, Response(p))
    PROVE  AnswerInv'
<1>1. stdout[p] \in Seq(Written)
  BY DEF TypeInv, TypeOK
<1>2. ASSUME how = "ok"
      PROVE  /\ outcome[p].status # "none" /\ outcome[p].detail # "illFormed"
             /\ Len(stdout'[p]) \in 1..2
             /\ stdout'[p][Len(stdout'[p])] = Response(p)
  <2>1. Len(stdout[p]) \in 0..1 /\ outcome[p].status # "none"
    BY <1>2 DEF AnswerInv, Settled, TypeInv, StageInv, Established
  <2>2. stdout'[p] = Append(stdout[p], Response(p))
    BY <1>2 DEF Write, TypeInv, TypeOK
  <2> QED BY <1>1, <1>2, <2>1, <2>2, Writing
<1>3. Settled(pc'[p], outcome'[p], request[p], build'[p], stdout'[p], exit'[p])
  BY <1>2 DEF TypeInv, TypeOK, AnswerInv, Settled, Exit, Response
<1> QED BY <1>3, OneProcessAnswerInv DEF TypeInv, TypeOK, Exit, Write

\* The faults that main reports before an operation runs, and those an operation ends
\* with once the probe has been passed, are justified.
LEMMA HaltedIsJustified ==
    ASSUME NEW q \in Requests, NEW b \in Builds, NEW code \in FaultCodes,
           NEW text \in {"plain", "illFormed"},
           \/ ~Runnable(q)
           \/ q.backend = "cuda" => b \in CudaBuilds
           \/ code = kFaultBackendUnavailable
    PROVE  Justified(halted(code, text), q, b)
BY HaltedIsOutcome DEF Justified

LEMMA VerdictIsJustified ==
    ASSUME NEW q \in Requests, NEW b \in Builds, Runnable(q),
           q.backend = "cuda" => b \in CudaBuilds
    PROVE  Justified(DecodeOutcome(q), q, b) /\ Justified(ComputeOutcome(q), q, b)
<1>1. EnvelopeAccepted(q)
  BY DEF Runnable
<1> QED BY <1>1, DecodeIsOutcome, ComputeIsOutcome DEF Justified

LEMMA StepAnswerInv ==
    ASSUME TypeInv, AnswerInv, NEW p \in Processes, Step(p)
    PROVE  AnswerInv'
<1> DEFINE q == request[p]
           b == build[p]
<1>0. /\ q \in Requests
      /\ Established(pc[p], q, b, outcome[p])
      /\ Settled(pc[p], outcome[p], q, b, stdout[p], exit[p])
      /\ outcome[p] \in Outcome
      /\ pc[p] \in Stages => b \in Builds
  BY DEF TypeInv, TypeOK, StageInv, AnswerInv, Established, Stages
<1> USE DEF Return, Report
<1>1. CASE ReadEnvelope(p)
  <2>1. CASE EnvelopeAccepted(q)
    BY <1>1, <2>1, GotoAnswerInv DEF ReadEnvelope, EnvelopeAccepted, Stages
  <2>2. CASE ~EnvelopeAccepted(q) /\ q.envelope # "outOfRange"
    <3> DEFINE text == IF q.envelope = "illEncoded" THEN "illFormed" ELSE "plain"
    <3>1. text \in {"plain", "illFormed"} /\ kFaultProtocol \in FaultCodes
      OBVIOUS
    <3>2. pc[p] \in Stages \ {"report"} /\ b \in Builds
      BY <1>0, <1>1 DEF ReadEnvelope, Stages
    <3>3. Justified(halted(kFaultProtocol, text), q, b)
      BY <1>0, <2>2, <3>1, <3>2, HaltedIsJustified DEF Runnable
    <3>4. Conclude(p, halted(kFaultProtocol, text), "report")
      BY <1>1, <2>2 DEF ReadEnvelope
    <3> QED BY <3>1, <3>2, <3>3, <3>4, HaltedIsOutcome, ConcludeAnswerInv
  <2>3. CASE ~EnvelopeAccepted(q) /\ q.envelope = "outOfRange"
    BY <1>1, <2>3, ExitAnswerInv DEF ReadEnvelope
  <2> QED BY <2>1, <2>2, <2>3
<1>2. CASE SelectOperation(p)
  BY <1>0, <1>2, HaltedIsOutcome, HaltedIsJustified, GotoAnswerInv, ConcludeAnswerInv
     DEF SelectOperation, Stages, Runnable
<1>3. CASE ProbeBackend(p)
  BY <1>0, <1>3, HaltedIsOutcome, HaltedIsJustified, GotoAnswerInv, ConcludeAnswerInv
     DEF ProbeBackend, Stages
<1>4. CASE DecodeHex(p)
  <2>1. Justified(halted(kFaultProtocol, "plain"), q, b)
        /\ Justified(halted(kFaultProtocol, "illFormed"), q, b)
    BY <1>0, <1>4, HaltedIsJustified DEF DecodeHex, Established, Stages, Probed, Selected
  <2> QED BY <1>0, <1>4, <2>1, RequestShape, HaltedIsOutcome, GotoAnswerInv, ConcludeAnswerInv
             DEF DecodeHex, Stages
<1>5. CASE DecodePayload(p)
  <2>1. Justified(DecodeOutcome(q), q, b)
    BY <1>0, <1>5, VerdictIsJustified
       DEF DecodePayload, Established, Stages, Probed, Selected, Runnable
  <2> QED BY <1>0, <1>5, <2>1, DecodeIsOutcome, GotoAnswerInv, ConcludeAnswerInv
             DEF DecodePayload, Stages
<1>6. CASE ProbeAgain(p)
  BY <1>0, <1>6, HaltedIsOutcome, HaltedIsJustified, GotoAnswerInv, ConcludeAnswerInv
     DEF ProbeAgain, Stages
<1>7. CASE Compute(p)
  <2>1. Justified(ComputeOutcome(q), q, b) /\ EnvelopeAccepted(q)
    BY <1>0, <1>7, VerdictIsJustified
       DEF Compute, Established, Stages, Probed, Selected, Runnable
  <2> QED BY <1>0, <1>7, <2>1, ComputeIsOutcome, ConcludeAnswerInv DEF Compute, Stages
<1>8. CASE DeviceFault(p)
  <2>1. Justified(halted(kFaultInternal, "plain"), q, b)
    BY <1>0, <1>8, HaltedIsJustified DEF DeviceFault, Established, Stages, Probed, Selected
  <2> QED BY <1>8, <2>1, HaltedIsOutcome, ConcludeAnswerInv DEF DeviceFault, Stages
<1>9. CASE WriteAnswer(p)
  <2>1. CASE outcome[p].detail # "illFormed"
    BY <1>9, <2>1, ResponseWhileWriting, ExitAnswerInv DEF WriteAnswer, Stages
  <2>2. CASE outcome[p].detail = "illFormed"
    <3> DEFINE o == halted(kFaultInternal, "plain")
    <3>1. Justified(o, q, b)
      BY <1>0, <1>9, HaltedIsJustified DEF WriteAnswer, Established, Stages, Probed, Selected
    <3>2. /\ outcome' = [outcome EXCEPT ![p] = o]
          /\ pc' = [pc EXCEPT ![p] = "report"]
          /\ Write(p, Fragment)
          /\ UNCHANGED <<request, build, exit>>
      BY <1>9, <2>2 DEF WriteAnswer
    <3> HIDE DEF o
    <3>3. Len(stdout'[p]) \in 0..1
      <4>1. stdout[p] \in Seq(Written) /\ Len(stdout[p]) = 0
        BY <1>0, <1>9 DEF WriteAnswer, Settled, TypeInv, TypeOK
      <4>2. stdout'[p] = Append(stdout[p], Fragment)
        BY <3>2 DEF Write, TypeInv, TypeOK
      <4> QED BY <4>1, <4>2, Writing, FragmentIsWritten
    <3>4. exit[p] = "none"
      BY <1>0, <1>9 DEF WriteAnswer, Settled
    <3>5. Settled(pc'[p], outcome'[p], request[p], build'[p], stdout'[p], exit'[p])
      BY <3>1, <3>2, <3>3, <3>4 DEF TypeInv, TypeOK, Settled
    <3> QED BY <3>2, <3>5, OneProcessAnswerInv DEF TypeInv, TypeOK, Write
  <2> QED BY <2>1, <2>2
<1>10. CASE WriteReport(p)
  <2>1. CASE outcome[p].detail # "illFormed"
    BY <1>10, <2>1, ResponseWhileWriting, ExitAnswerInv DEF WriteReport, Stages
  <2>2. CASE outcome[p].detail = "illFormed"
    BY <1>10, <2>2, FragmentIsWritten, ExitAnswerInv DEF WriteReport
  <2> QED BY <2>1, <2>2
<1> QED BY <1>1, <1>2, <1>3, <1>4, <1>5, <1>6, <1>7, <1>8, <1>9, <1>10 DEF Step

LEMMA FailureAnswerInv ==
    ASSUME TypeInv, AnswerInv, NEW p \in Processes, AllocationFails(p) \/ Killed(p)
    PROVE  AnswerInv'
<1>0. /\ request[p] \in Requests
      /\ Established(pc[p], request[p], build[p], outcome[p])
  BY DEF TypeInv, TypeOK, StageInv
<1>1. CASE pc[p] \in FaultStages
           /\ \E code \in FaultCodes, stage \in {"answer", "report"} :
                 Conclude(p, halted(code, "plain"), stage)
  <2>1. \A code \in FaultCodes : Justified(halted(code, "plain"), request[p], build[p])
    BY <1>0, <1>1, HaltedIsJustified DEF FaultStages, Established, Stages, Probed, Selected
  <2> QED BY <1>1, <2>1, HaltedIsOutcome, ConcludeAnswerInv DEF FaultStages, Stages
<1>2. CASE \E how \in {"catastrophic", "killed"} : Exit(p, how) /\ UNCHANGED stdout
  BY <1>2, ExitAnswerInv
<1> QED BY <1>1, <1>2, AllocationFailsSomewhere DEF Killed

LEMMA StartAnswerInv ==
    ASSUME TypeInv, AnswerInv, NEW p \in Processes, NEW b \in Builds, Start(p, b)
    PROVE  AnswerInv'
<1>1. outcome[p].status = "none"
  BY NoneIsSettled DEF TypeInv, StageInv, Established, Start
<1>2. Settled(pc'[p], outcome'[p], request[p], build'[p], stdout'[p], exit'[p])
  BY <1>1 DEF TypeInv, TypeOK, AnswerInv, Settled, Start
<1> QED BY <1>2, OneProcessAnswerInv DEF TypeInv, TypeOK, Start

LEMMA NextAnswerInv == TypeInv /\ AnswerInv /\ [Next]_vars => AnswerInv'
<1> SUFFICES ASSUME TypeInv, AnswerInv, [Next]_vars PROVE AnswerInv'
  OBVIOUS
<1>1. ASSUME NEW p \in Processes, Launch(p) PROVE AnswerInv'
  BY <1>1, StartAnswerInv DEF Launch
<1>2. ASSUME NEW p \in Processes, Step(p) PROVE AnswerInv'
  BY <1>2, StepAnswerInv
<1>3. ASSUME NEW p \in Processes, AllocationFails(p) \/ Killed(p) PROVE AnswerInv'
  BY <1>3, FailureAnswerInv
<1>4. CASE DeviceChanges
  BY <1>4 DEF DeviceChanges, process, AnswerInv
<1>5. CASE UNCHANGED vars
  BY <1>5 DEF vars, AnswerInv
<1> QED BY <1>1, <1>2, <1>3, <1>4, <1>5 DEF Next

\* What a process is about to write is justified by its request and its binary, and an
\* exit with 0 leaves exactly that as the last thing on stdout.
THEOREM AnswersJustified == Spec => []AnswerInv
BY AnswerInvInit, TypeCorrect, NextAnswerInv, PTL DEF Spec

\* The answer of a process is the response to its outcome.
LEMMA AnswerIsResponse ==
    ASSUME AnswerInv, NEW p \in Processes, Answered(p)
    PROVE  /\ Answer(p).status = outcome[p].status
           /\ Answer(p).exit_code = outcome[p].exit_code
           /\ Answer(p).output_hex = outcome[p].output
           /\ Answer(p).backend_used = EchoedBackend(request[p])
           /\ Answer(p).backend_version = kVersionString[build[p]]
           /\ outcome[p].status # "none"
           /\ Justified(outcome[p], request[p], build[p])
<1>1. /\ Settled(pc[p], outcome[p], request[p], build[p], stdout[p], exit[p])
      /\ exit[p] = "ok" /\ Len(stdout[p]) = 1
  BY DEF AnswerInv, Answered
<1>2. /\ outcome[p].status # "none"
      /\ Justified(outcome[p], request[p], build[p])
      /\ Answer(p) = make_response(outcome[p], EchoedBackend(request[p]), build[p])
  BY <1>1 DEF Settled, Answer
<1> HIDE DEF Answer
<1> QED BY <1>2 DEF make_response

\* A cuda request to a binary without CUDA is answered 12, whatever else is wrong.
THEOREM BackendComesFirst == Spec => []BackendBeforePayload
<1>1. AnswerInv => BackendBeforePayload
  BY AnswerIsResponse DEF BackendBeforePayload, Justified
<1> QED BY <1>1, AnswersJustified, PTL

\* No completed LJ or FFT answer comes from another engine than the one it names.
THEOREM NoEngineSubstituted == Spec => []NoSilentFallback
<1>1. AnswerInv => NoSilentFallback
  <2> SUFFICES ASSUME AnswerInv, NEW p \in Processes, Answered(p),
                      Answer(p).status = "completed", request[p].operation \notin HostOnly
               PROVE  Answer(p).output_hex = Answer(p).backend_used
    BY DEF NoSilentFallback
  <2>1. Runnable(request[p]) /\ outcome[p] = completed(Engine(request[p]))
    BY AnswerIsResponse DEF Justified
  <2>2. outcome[p].output = request[p].backend
    BY <2>1 DEF completed, Engine
  <2>3. EchoedBackend(request[p]) = request[p].backend
    BY <2>1 DEF EchoedBackend, Runnable
  <2> QED BY <2>2, <2>3, AnswerIsResponse
<1> QED BY <1>1, AnswersJustified, PTL

\* Output, code 0 and status completed go together in every answer, and output from the
\* device comes only from a binary that contains it.
THEOREM OutputMeansSuccess == Spec => []OutputOnlyOnSuccess
<1>1. TypeInv /\ AnswerInv => OutputOnlyOnSuccess
  <2>1. ASSUME TypeInv, AnswerInv, NEW p \in Processes, Answered(p)
        PROVE  /\ outcome[p].status = "completed" \/ outcome[p].status = "halted"
               /\ Justified(outcome[p], request[p], build[p])
    BY <2>1, AnswerIsResponse DEF TypeInv, TypeOK, Outcome
  <2>2. ASSUME TypeInv, AnswerInv, NEW p \in Processes, Answered(p),
               outcome[p].status = "completed"
        PROVE  /\ outcome[p].output \in Backends
               /\ outcome[p].exit_code = kFaultNone
               /\ outcome[p].output = "cuda" => build[p] \in CudaBuilds
    <3>1. Runnable(request[p]) /\ outcome[p] = completed(Engine(request[p]))
      BY <2>1, <2>2 DEF Justified
    <3>2. Engine(request[p]) \in Backends
      BY <2>2, <3>1, EngineIsBackend DEF Runnable, TypeInv, TypeOK
    <3> QED BY <2>1, <2>2, <3>1, <3>2, CompletedIsOutcome DEF Justified, Engine
  <2> QED BY <2>1, <2>2, AnswerIsResponse DEF OutputOnlyOnSuccess, Justified, Backends
<1> QED BY <1>1, TypeCorrect, AnswersJustified, PTL
-----------------------------------------------------------------------------
(* What can be written: a detail that JSON cannot carry comes from a request *)
(* that makes the CLI quote it, and only the filter meets it in an answer.   *)

Writable(stage, q, o, text, how) ==
    /\ o.detail = "illFormed" => QuotesBadBytes(q)
    /\ o.detail = "illFormed" /\ stage = "answer" => q.payload = "misattributed"
    /\ stage = "report" /\ Len(text) = 1 => q.payload = "misattributed" /\ o.detail = "plain"
    /\ how = "ok" /\ Len(text) # 1 => q.payload = "misattributed"
    /\ stage = "exited" /\ faults = 0 /\ ~Unanswerable(q) => how \in {"ok", "killed"}

WritableInv ==
    \A p \in Processes : Writable(pc[p], request[p], outcome[p], stdout[p], exit[p])

LEMMA WritableInvInit == Init => WritableInv
BY DEF Init, WritableInv, Writable, NoOutcome

\* A step of one process leaves what the others can write alone; a failure, once it has
\* happened, has happened.
LEMMA OneProcessWritableInv ==
    ASSUME WritableInv, NEW p \in Processes, faults' = 0 => faults = 0,
           \A r \in Processes \ {p} :
               /\ pc'[r] = pc[r] /\ outcome'[r] = outcome[r]
               /\ stdout'[r] = stdout[r] /\ exit'[r] = exit[r],
           UNCHANGED request,
           Writable(pc[p], request[p], outcome[p], stdout[p], exit[p])'
    PROVE  WritableInv'
<1> SUFFICES ASSUME NEW r \in Processes
             PROVE  Writable(pc[r], request[r], outcome[r], stdout[r], exit[r])'
  BY DEF WritableInv
<1>1. CASE r = p
  BY <1>1
<1>2. CASE r # p
  BY <1>2 DEF WritableInv, Writable
<1> QED BY <1>1, <1>2

LEMMA GotoWritableInv ==
    ASSUME TypeInv, WritableInv, NEW p \in Processes, NEW stage \in Stages \ {"answer", "report"},
           Goto(p, stage), UNCHANGED faults, exit[p] = "none"
    PROVE  WritableInv'
<1>1. Writable(pc[p], request[p], outcome[p], stdout[p], exit[p])'
  BY DEF TypeInv, TypeOK, WritableInv, Writable, Goto, Stages
<1> QED BY <1>1, OneProcessWritableInv DEF TypeInv, TypeOK, Goto

LEMMA ConcludeWritableInv ==
    ASSUME TypeInv, WritableInv, NEW p \in Processes, NEW stage \in {"answer", "report"},
           NEW o \in Outcome, Conclude(p, o, stage), faults' = 0 => faults = 0,
           exit[p] = "none", Len(stdout[p]) = 0,
           o.detail = "illFormed" => QuotesBadBytes(request[p]),
           o.detail = "illFormed" /\ stage = "answer" => request[p].payload = "misattributed"
    PROVE  WritableInv'
<1>1. Writable(pc[p], request[p], outcome[p], stdout[p], exit[p])'
  BY DEF TypeInv, TypeOK, Writable, Conclude
<1> QED BY <1>1, OneProcessWritableInv DEF TypeInv, TypeOK, Conclude

\* What the operation answers is plain text, but for the asserted noise it quotes.
LEMMA VerdictsAreWritable ==
    ASSUME NEW q \in Requests
    PROVE  /\ DecodeOutcome(q).detail = "plain"
           /\ ComputeOutcome(q).detail = "illFormed" => q.payload = "misattributed"
BY DEF DecodeOutcome, ComputeOutcome, halted, completed

LEMMA StepWritableInv ==
    ASSUME TypeInv, AnswerInv, WritableInv, NEW p \in Processes, Step(p)
    PROVE  WritableInv'
<1> DEFINE q == request[p]
<1>0. /\ q \in Requests
      /\ Established(pc[p], q, build[p], outcome[p])
      /\ Settled(pc[p], outcome[p], q, build[p], stdout[p], exit[p])
      /\ Writable(pc[p], q, outcome[p], stdout[p], exit[p])
      /\ outcome[p] \in Outcome /\ stdout[p] \in Seq(Written)
  BY DEF TypeInv, TypeOK, StageInv, AnswerInv, WritableInv
<1>00. /\ pc[p] \in Stages => exit[p] = "none"
       /\ pc[p] \in Stages \ {"report"} => Len(stdout[p]) = 0
  BY <1>0 DEF Settled, Stages
<1> USE DEF Return, Report, Undisturbed
<1>1. CASE ReadEnvelope(p)
  <2>1. CASE EnvelopeAccepted(q)
    BY <1>00, <1>1, <2>1, GotoWritableInv DEF ReadEnvelope, EnvelopeAccepted, Stages
  <2>2. CASE ~EnvelopeAccepted(q) /\ q.envelope # "outOfRange"
    BY <1>00, <1>1, <2>2, HaltedIsOutcome, ConcludeWritableInv
       DEF ReadEnvelope, Stages, QuotesBadBytes
  <2>3. CASE ~EnvelopeAccepted(q) /\ q.envelope = "outOfRange"
    <3>1. /\ Exit(p, "catastrophic") /\ UNCHANGED <<stdout, faults>>
          /\ outcome[p].detail # "illFormed"
      BY <1>0, <1>1, <2>3 DEF ReadEnvelope, Established, Stages, NoOutcome
    <3>2. Writable(pc[p], request[p], outcome[p], stdout[p], exit[p])'
      BY <2>3, <3>1 DEF Writable, Unanswerable, Exit, TypeInv, TypeOK
    <3> QED BY <3>1, <3>2, OneProcessWritableInv DEF Exit, TypeInv, TypeOK
  <2> QED BY <2>1, <2>2, <2>3
<1>2. CASE SelectOperation(p)
  BY <1>00, <1>2, HaltedIsOutcome, GotoWritableInv, ConcludeWritableInv
     DEF SelectOperation, Stages
<1>3. CASE ProbeBackend(p)
  BY <1>00, <1>3, HaltedIsOutcome, GotoWritableInv, ConcludeWritableInv
     DEF ProbeBackend, Stages
<1>4. CASE DecodeHex(p)
  BY <1>0, <1>00, <1>4, RequestShape, HaltedIsOutcome, GotoWritableInv, ConcludeWritableInv
     DEF DecodeHex, Stages, QuotesBadBytes
<1>5. CASE DecodePayload(p)
  BY <1>0, <1>00, <1>5, DecodeIsOutcome, VerdictsAreWritable, GotoWritableInv,
     ConcludeWritableInv DEF DecodePayload, Stages
<1>6. CASE ProbeAgain(p)
  BY <1>00, <1>6, HaltedIsOutcome, GotoWritableInv, ConcludeWritableInv DEF ProbeAgain, Stages
<1>7. CASE Compute(p)
  <2>1. ComputeOutcome(q) \in Outcome
    BY <1>0, <1>7, ComputeIsOutcome DEF Compute, Established, Selected
  <2> QED BY <1>0, <1>00, <1>7, <2>1, VerdictsAreWritable, ConcludeWritableInv
             DEF Compute, Stages, QuotesBadBytes
<1>8. CASE DeviceFault(p)
  <2>1. faults' = 0 => faults = 0
    BY <1>8, CliAssumption DEF DeviceFault, TypeInv, TypeOK
  <2> QED BY <1>00, <1>8, <2>1, HaltedIsOutcome, ConcludeWritableInv DEF DeviceFault, Stages
<1>9. CASE WriteAnswer(p)
  <2>1. CASE outcome[p].detail # "illFormed"
    <3>1. Response(p) \in Written
      BY <1>9, ResponseWhileWriting DEF WriteAnswer, Stages
    <3>2. /\ Exit(p, "ok") /\ Write(p, Response(p)) /\ UNCHANGED faults
          /\ stdout'[p] = Append(stdout[p], Response(p)) /\ Len(stdout[p]) = 0
      BY <1>00, <1>9, <2>1 DEF WriteAnswer, Write, Stages, TypeInv, TypeOK
    <3>3. Len(stdout'[p]) = 1
      BY <1>0, <3>1, <3>2, Writing
    <3>4. Writable(pc[p], request[p], outcome[p], stdout[p], exit[p])'
      BY <1>0, <2>1, <3>2, <3>3 DEF Writable, Exit, TypeInv, TypeOK
    <3> QED BY <3>2, <3>4, OneProcessWritableInv DEF Exit, Write, TypeInv, TypeOK
  <2>2. CASE outcome[p].detail = "illFormed"
    <3> DEFINE o == halted(kFaultInternal, "plain")
    <3>1. o.detail = "plain"
      BY HaltedIsOutcome
    <3>2. /\ outcome' = [outcome EXCEPT ![p] = o]
          /\ pc' = [pc EXCEPT ![p] = "report"]
          /\ Write(p, Fragment)
          /\ UNCHANGED <<request, build, exit, faults>>
          /\ q.payload = "misattributed" /\ exit[p] = "none"
      BY <1>0, <1>00, <1>9, <2>2 DEF WriteAnswer, Writable, Stages
    <3> HIDE DEF o
    <3>3. Writable(pc[p], request[p], outcome[p], stdout[p], exit[p])'
      BY <3>1, <3>2 DEF Writable, TypeInv, TypeOK
    <3> QED BY <3>2, <3>3, OneProcessWritableInv DEF Write, TypeInv, TypeOK
  <2> QED BY <2>1, <2>2
<1>10. CASE WriteReport(p)
  <2>1. CASE outcome[p].detail # "illFormed"
    <3>1. Response(p) \in Written
      BY <1>10, ResponseWhileWriting DEF WriteReport, Stages
    <3>2. /\ Exit(p, "ok") /\ Write(p, Response(p)) /\ UNCHANGED faults
          /\ stdout'[p] = Append(stdout[p], Response(p)) /\ Len(stdout[p]) \in 0..1
          /\ pc[p] = "report"
      BY <1>0, <1>10, <2>1 DEF WriteReport, Write, Settled, TypeInv, TypeOK
    <3>3. Len(stdout'[p]) # 1 => q.payload = "misattributed"
      BY <1>0, <3>1, <3>2, Writing DEF Writable
    <3>4. Writable(pc[p], request[p], outcome[p], stdout[p], exit[p])'
      BY <1>0, <2>1, <3>2, <3>3 DEF Writable, Exit, TypeInv, TypeOK
    <3> QED BY <3>2, <3>4, OneProcessWritableInv DEF Exit, Write, TypeInv, TypeOK
  <2>2. CASE outcome[p].detail = "illFormed"
    <3>1. /\ Exit(p, "catastrophic") /\ Write(p, Fragment) /\ UNCHANGED faults
          /\ QuotesBadBytes(q)
      BY <1>0, <1>10, <2>2 DEF WriteReport, Writable
    <3>2. Writable(pc[p], request[p], outcome[p], stdout[p], exit[p])'
      BY <1>0, <1>10, <2>2, <3>1 DEF Writable, Unanswerable, WriteReport, Exit, TypeInv, TypeOK
    <3> QED BY <3>1, <3>2, OneProcessWritableInv DEF Exit, Write, TypeInv, TypeOK
  <2> QED BY <2>1, <2>2
<1> QED BY <1>1, <1>2, <1>3, <1>4, <1>5, <1>6, <1>7, <1>8, <1>9, <1>10 DEF Step

LEMMA KilledWritableInv ==
    ASSUME TypeInv, WritableInv, NEW p \in Processes, faults' = 0 => faults = 0,
           Exit(p, "killed"), UNCHANGED stdout, exit[p] = "none"
    PROVE  WritableInv'
<1>1. Writable(pc[p], request[p], outcome[p], stdout[p], exit[p])'
  BY DEF WritableInv, Writable, Exit, TypeInv, TypeOK
<1> QED BY <1>1, OneProcessWritableInv DEF Exit, TypeInv, TypeOK

LEMMA FailureWritableInv ==
    ASSUME TypeInv, AnswerInv, WritableInv, NEW p \in Processes,
           AllocationFails(p) \/ Killed(p)
    PROVE  WritableInv'
<1>1. faults' # 0
  BY CliAssumption DEF AllocationFails, Killed, TypeInv, TypeOK
<1>2. /\ Writable(pc[p], request[p], outcome[p], stdout[p], exit[p])
      /\ Settled(pc[p], outcome[p], request[p], build[p], stdout[p], exit[p])
  BY DEF WritableInv, AnswerInv
<1>3. CASE pc[p] \in FaultStages
           /\ \E code \in FaultCodes, stage \in {"answer", "report"} :
                 Conclude(p, halted(code, "plain"), stage)
  BY <1>1, <1>2, <1>3, HaltedIsOutcome, ConcludeWritableInv DEF FaultStages, Settled
<1>4. CASE \E how \in {"catastrophic", "killed"} : Exit(p, how) /\ UNCHANGED stdout
  <2>1. Writable(pc[p], request[p], outcome[p], stdout[p], exit[p])'
    BY <1>1, <1>2, <1>4 DEF Writable, Exit, TypeInv, TypeOK
  <2> QED BY <1>1, <1>4, <2>1, OneProcessWritableInv DEF Exit, TypeInv, TypeOK
<1> QED BY <1>3, <1>4, AllocationFailsSomewhere DEF Killed

LEMMA NextWritableInv == TypeInv /\ AnswerInv /\ WritableInv /\ [Next]_vars => WritableInv'
<1> SUFFICES ASSUME TypeInv, AnswerInv, WritableInv, [Next]_vars PROVE WritableInv'
  OBVIOUS
<1>1. ASSUME NEW p \in Processes, Launch(p) PROVE WritableInv'
  <2>1. /\ pc' = [pc EXCEPT ![p] = "envelope"] /\ pc[p] = "unstarted"
        /\ UNCHANGED <<request, outcome, stdout, exit, faults>>
    BY <1>1 DEF Launch, Start, Undisturbed
  <2>2. exit[p] = "none"
    BY <2>1 DEF AnswerInv, Settled
  <2>3. Writable(pc[p], request[p], outcome[p], stdout[p], exit[p])'
    BY <2>1, <2>2 DEF WritableInv, Writable, TypeInv, TypeOK
  <2> QED BY <2>1, <2>3, OneProcessWritableInv DEF TypeInv, TypeOK
<1>2. ASSUME NEW p \in Processes, Step(p) PROVE WritableInv'
  BY <1>2, StepWritableInv
<1>3. ASSUME NEW p \in Processes, AllocationFails(p) \/ Killed(p) PROVE WritableInv'
  BY <1>3, FailureWritableInv
<1>4. CASE DeviceChanges
  BY <1>4 DEF DeviceChanges, process, WritableInv, Writable
<1>5. CASE UNCHANGED vars
  BY <1>5 DEF vars, WritableInv, Writable
<1> QED BY <1>1, <1>2, <1>3, <1>4, <1>5 DEF Next

\* Left to itself, a process is killed only by a failure.
KillInv == \A p \in Processes : exit[p] = "killed" => faults # 0

\* Of all a process does, only a signal ends it as killed; and no step undoes a failure.
LEMMA OnlySignalsKill ==
    ASSUME TypeInv, NEW p \in Processes, Step(p) \/ AllocationFails(p) \/ Killed(p)
    PROVE  /\ faults' = 0 => faults = 0
           /\ \A r \in Processes : exit'[r] = "killed" => exit[r] = "killed" \/ faults' # 0
<1> USE CliAssumption DEF TypeInv, TypeOK, Goto, Conclude, Return, Report, Exit, Undisturbed
<1>1. CASE AllocationFails(p) \/ Killed(p)
  BY <1>1 DEF AllocationFails, Killed
<1>2. CASE ReadEnvelope(p) \/ SelectOperation(p) \/ ProbeBackend(p)
  BY <1>2 DEF ReadEnvelope, SelectOperation, ProbeBackend
<1>3. CASE DecodeHex(p)
  <2>1. request[p].hex \in {"bytes", "badDigit", "strayByte"}
    BY RequestShape
  <2> QED BY <1>3, <2>1 DEF DecodeHex
<1>4. CASE DecodePayload(p) \/ ProbeAgain(p)
  BY <1>4 DEF DecodePayload, ProbeAgain
<1>5. CASE Compute(p) \/ DeviceFault(p)
  BY <1>5 DEF Compute, DeviceFault
<1>6. CASE WriteAnswer(p) \/ WriteReport(p)
  BY <1>6 DEF WriteAnswer, WriteReport
<1> QED BY <1>1, <1>2, <1>3, <1>4, <1>5, <1>6 DEF Step

LEMMA NextKillInv == TypeInv /\ KillInv /\ [Next]_vars => KillInv'
<1> SUFFICES ASSUME TypeInv, KillInv, [Next]_vars PROVE KillInv'
  OBVIOUS
<1>1. ASSUME NEW p \in Processes, Step(p) \/ AllocationFails(p) \/ Killed(p) PROVE KillInv'
  BY <1>1, OnlySignalsKill DEF KillInv
<1>2. ASSUME NEW p \in Processes, Launch(p) PROVE KillInv'
  BY <1>2 DEF Launch, Start, Undisturbed, KillInv
<1>3. CASE DeviceChanges \/ UNCHANGED vars
  BY <1>3 DEF DeviceChanges, process, vars, KillInv
<1> QED BY <1>1, <1>2, <1>3 DEF Next

\* Without failures a process leaves exit 0 and one object unless its request makes it
\* quote bytes that are not UTF-8 or has a number no double can hold; and whatever fails,
\* exit 0 with anything else than one object needs noise asserted under such a name.
THEOREM OneAnswerEach == Spec => []OneAnswer
<1>1. Spec => []WritableInv
  BY WritableInvInit, TypeCorrect, AnswersJustified, NextWritableInv, PTL DEF Spec
<1>2. Spec => []KillInv
  <2>1. Init => KillInv
    BY DEF Init, KillInv
  <2> QED BY <2>1, TypeCorrect, NextKillInv, PTL DEF Spec
<1>3. TypeInv /\ AnswerInv /\ WritableInv /\ KillInv => OneAnswer
  <2> SUFFICES ASSUME TypeInv, AnswerInv, WritableInv, KillInv, NEW p \in Processes
               PROVE  /\ pc[p] = "exited" /\ faults = 0 /\ ~Unanswerable(request[p])
                             => Answered(p)
                      /\ exit[p] = "ok" /\ ~Answered(p) => request[p].payload = "misattributed"
    BY DEF OneAnswer
  <2>1. Writable(pc[p], request[p], outcome[p], stdout[p], exit[p])
    BY DEF WritableInv
  <2> QED BY <2>1 DEF Writable, Answered, Unanswerable, QuotesBadBytes, KillInv
<1> QED BY <1>1, <1>2, <1>3, TypeCorrect, AnswersJustified, PTL

-----------------------------------------------------------------------------
(* A settled answer *)

\* Only a process that has not settled on an answer yet, or that fails to write the one
\* its operation returned, changes it.
LEMMA StepKeepsAnswer ==
    ASSUME TypeInv, NEW p \in Processes, Step(p) \/ AllocationFails(p) \/ Killed(p),
           NEW r \in Processes, outcome[r].status # "none", outcome'[r] # outcome[r]
    PROVE  /\ pc[r] = "answer" /\ pc'[r] = "report"
           /\ outcome'[r] = halted(kFaultInternal, "plain")
           /\ outcome[r].detail = "illFormed" \/ faults' > faults
<1>1. pc[r] \in {"answer", "report", "exited"}
  <2>1. Established(pc[r], request[r], build[r], outcome[r])
        /\ pc[r] \in Stages \cup {"unstarted", "exited"}
    BY DEF TypeInv, TypeOK, StageInv
  <2> QED BY <2>1, NoneIsSettled DEF Established, Stages
<1>2. outcome \in [Processes -> Outcome] /\ pc \in [Processes -> Stages \cup {"unstarted", "exited"}]
  BY DEF TypeInv, TypeOK
<1>3. CASE p # r
  <2> USE <1>2, <1>3 DEF Goto, Return, Report, Conclude, Exit
  <2>1. CASE ReadEnvelope(p) \/ SelectOperation(p) \/ ProbeBackend(p)
    BY <2>1 DEF ReadEnvelope, SelectOperation, ProbeBackend
  <2>2. CASE DecodeHex(p)
    <3>1. request[p].hex \in {"bytes", "badDigit", "strayByte"}
      BY RequestShape DEF TypeInv, TypeOK
    <3> QED BY <2>2, <3>1 DEF DecodeHex
  <2>3. CASE DecodePayload(p) \/ ProbeAgain(p) \/ Compute(p) \/ DeviceFault(p)
    BY <2>3 DEF DecodePayload, ProbeAgain, Compute, DeviceFault
  <2>4. CASE WriteAnswer(p) \/ WriteReport(p)
    BY <2>4 DEF WriteAnswer, WriteReport
  <2>5. CASE AllocationFails(p) \/ Killed(p)
    BY <2>5 DEF AllocationFails, Killed
  <2> QED BY <2>1, <2>2, <2>3, <2>4, <2>5 DEF Step
<1>4. CASE p = r
  <2>1. WriteAnswer(p) \/ WriteReport(p) \/ AllocationFails(p)
    BY <1>1, <1>4 DEF Step, ReadEnvelope, SelectOperation, ProbeBackend, DecodeHex,
       DecodePayload, ProbeAgain, Compute, DeviceFault, Killed, Exit, Stages
  <2>2. CASE WriteAnswer(p) \/ WriteReport(p)
    BY <1>2, <1>4, <2>2 DEF WriteAnswer, WriteReport, Exit
  <2>3. CASE AllocationFails(p)
    <3>1. faults' > faults
      BY <2>3, CliAssumption DEF AllocationFails, TypeInv, TypeOK
    <3>2. pc[p] = "answer" /\ Conclude(p, halted(kFaultInternal, "plain"), "report")
      BY <1>1, <1>4, <2>3, AllocationFailsSomewhere DEF FaultStages, Exit
    <3> QED BY <1>2, <1>4, <3>1, <3>2 DEF Conclude
  <2> QED BY <2>1, <2>2, <2>3
<1> QED BY <1>3, <1>4

\* The answer a process has settled on is not changed by the device or by a step of its
\* own, unless it cannot be written; and a failure can only make what an operation
\* returned an internal fault, once.
THEOREM AnswersAreFinal == Spec => AnswerIsFinal
<1> DEFINE Kept(p) ==
        outcome[p].status # "none" /\ outcome'[p] # outcome[p] =>
            /\ pc[p] = "answer" /\ pc'[p] = "report"
            /\ outcome'[p] = halted(kFaultInternal, "plain")
            /\ outcome[p].detail = "illFormed" \/ faults' > faults
<1>1. TypeInv /\ [Next]_vars => [\A p \in Processes : Kept(p)]_vars
  <2> SUFFICES ASSUME TypeInv, Next, NEW p \in Processes PROVE Kept(p)
    OBVIOUS
  <2>1. ASSUME NEW r \in Processes, Launch(r) PROVE Kept(p)
    BY <2>1 DEF Launch, Start
  <2>2. ASSUME NEW r \in Processes, Step(r) \/ AllocationFails(r) \/ Killed(r)
        PROVE  Kept(p)
    BY <2>2, StepKeepsAnswer
  <2>3. CASE DeviceChanges
    BY <2>3 DEF DeviceChanges, process
  <2> QED BY <2>1, <2>2, <2>3 DEF Next
<1> QED BY <1>1, TypeCorrect, PTL DEF Spec, AnswerIsFinal

-----------------------------------------------------------------------------
(* Where the blame for an answer lies: which requests and which binaries can *)
(* be told which fault, and the one answer a cpu request has.                *)

\* What a cpu request is answered as long as nothing fails.
CpuVerdict(q) ==
    IF ~Runnable(q)
    THEN halted(kFaultProtocol, IF q.envelope = "illEncoded" THEN "illFormed" ELSE "plain")
    ELSE IF q.hex # "bytes"
    THEN halted(kFaultProtocol, IF q.hex = "strayByte" THEN "illFormed" ELSE "plain")
    ELSE IF q.payload \in StoppedByDecode THEN DecodeOutcome(q) ELSE ComputeOutcome(q)

Earned(q, o) ==
    /\ o.exit_code = kFaultBackendUnavailable => q.backend = "cuda"
    /\ o.exit_code = kFaultProtocol => ~Runnable(q) \/ q.hex # "bytes"
    /\ ~Runnable(q) => o.exit_code \in {kFaultProtocol, kFaultInternal}

\* An answer that could not be written was replaced, and what was left of it makes the
\* whole unreadable.
Blamed(stage, q, o, text, how) ==
    o.status # "none" =>
        /\ Earned(q, o)
        /\ faults = 0 /\ q.backend = "cpu" =>
               \/ o = CpuVerdict(q)
               \/ stage = "report" /\ Len(text) = 1
               \/ stage = "exited" /\ (how # "ok" \/ Len(text) # 1)

BlameInv == \A p \in Processes : Blamed(pc[p], request[p], outcome[p], stdout[p], exit[p])

LEMMA BlameInvInit == Init => BlameInv
BY NoneIsSettled DEF Init, BlameInv, Blamed

LEMMA OneProcessBlameInv ==
    ASSUME BlameInv, NEW p \in Processes, faults' = 0 => faults = 0,
           \A r \in Processes \ {p} :
               /\ pc'[r] = pc[r] /\ outcome'[r] = outcome[r]
               /\ stdout'[r] = stdout[r] /\ exit'[r] = exit[r],
           UNCHANGED request,
           Blamed(pc[p], request[p], outcome[p], stdout[p], exit[p])'
    PROVE  BlameInv'
<1> SUFFICES ASSUME NEW r \in Processes
             PROVE  Blamed(pc[r], request[r], outcome[r], stdout[r], exit[r])'
  BY DEF BlameInv
<1>1. CASE r = p
  BY <1>1
<1>2. CASE r # p
  BY <1>2 DEF BlameInv, Blamed
<1> QED BY <1>1, <1>2

LEMMA GotoBlameInv ==
    ASSUME TypeInv, BlameInv, NEW p \in Processes, NEW stage \in Stages,
           Goto(p, stage), UNCHANGED faults, pc[p] \in Stages \ {"answer", "report"}
    PROVE  BlameInv'
<1>1. outcome[p].status = "none"
  BY NoneIsSettled DEF TypeInv, StageInv, Established
<1>2. Blamed(pc[p], request[p], outcome[p], stdout[p], exit[p])'
  BY <1>1 DEF Blamed, Goto
<1> QED BY <1>2, OneProcessBlameInv DEF TypeInv, TypeOK, Goto

LEMMA ConcludeBlameInv ==
    ASSUME TypeInv, BlameInv, NEW p \in Processes, NEW stage \in {"answer", "report"},
           NEW o \in Outcome, Conclude(p, o, stage), faults' = 0 => faults = 0,
           Earned(request[p], o),
           faults' = 0 /\ request[p].backend = "cpu" => o = CpuVerdict(request[p])
    PROVE  BlameInv'
<1>1. Blamed(pc[p], request[p], outcome[p], stdout[p], exit[p])'
  BY DEF TypeInv, TypeOK, Blamed, Conclude
<1> QED BY <1>1, OneProcessBlameInv DEF TypeInv, TypeOK, Conclude

\* The codes an operation can answer with.
LEMMA VerdictsAreEarned ==
    ASSUME NEW q \in Requests, Runnable(q)
    PROVE  /\ Earned(q, DecodeOutcome(q)) /\ Earned(q, ComputeOutcome(q))
           /\ \A code \in FaultCodes \ {kFaultProtocol, kFaultBackendUnavailable} :
                 Earned(q, halted(code, "plain"))
<1>1. \A code \in FaultCodes : halted(code, "plain").exit_code = code
  BY DEF halted
<1>2. DecodeOutcome(q).exit_code \in {kFaultValidation, kFaultComputation}
  BY DEF DecodeOutcome, halted
<1>3. ComputeOutcome(q).exit_code \in {kFaultNone, kFaultValidation, kFaultComputation}
  BY DEF ComputeOutcome, halted, completed
<1> QED BY <1>1, <1>2, <1>3 DEF Earned

LEMMA StepBlameInv ==
    ASSUME TypeInv, AnswerInv, BlameInv, NEW p \in Processes, Step(p)
    PROVE  BlameInv'
<1> DEFINE q == request[p]
<1>0. /\ q \in Requests
      /\ Established(pc[p], q, build[p], outcome[p])
      /\ Settled(pc[p], outcome[p], q, build[p], stdout[p], exit[p])
      /\ Blamed(pc[p], q, outcome[p], stdout[p], exit[p])
      /\ outcome[p] \in Outcome /\ stdout[p] \in Seq(Written)
  BY DEF TypeInv, TypeOK, StageInv, AnswerInv, BlameInv
<1>00. pc[p] \in Stages \ {"report"} => Len(stdout[p]) = 0
  BY <1>0 DEF Settled, Stages
<1>000. \A code \in FaultCodes, text \in {"plain", "illFormed"} :
            /\ halted(code, text) \in Outcome
            /\ halted(code, text).exit_code = code
  BY HaltedIsOutcome
<1> USE DEF Return, Report, Undisturbed
<1>1. CASE ReadEnvelope(p)
  <2>1. CASE EnvelopeAccepted(q)
    BY <1>1, <2>1, GotoBlameInv DEF ReadEnvelope, EnvelopeAccepted, Stages
  <2>2. CASE ~EnvelopeAccepted(q) /\ q.envelope # "outOfRange"
    <3> DEFINE text == IF q.envelope = "illEncoded" THEN "illFormed" ELSE "plain"
               o == halted(kFaultProtocol, text)
    <3>1. Earned(q, o) /\ o = CpuVerdict(q) /\ o \in Outcome
      BY <2>2, <1>000 DEF Earned, CpuVerdict, Runnable
    <3>2. Conclude(p, o, "report") /\ UNCHANGED faults
      BY <1>1, <2>2 DEF ReadEnvelope
    <3> HIDE DEF o
    <3> QED BY <3>1, <3>2, ConcludeBlameInv
  <2>3. CASE ~EnvelopeAccepted(q) /\ q.envelope = "outOfRange"
    <3>1. /\ Exit(p, "catastrophic") /\ UNCHANGED <<stdout, faults>>
          /\ outcome[p].status = "none"
      BY <1>0, <1>1, <2>3, NoneIsSettled DEF ReadEnvelope, Established, Stages
    <3>2. Blamed(pc[p], request[p], outcome[p], stdout[p], exit[p])'
      BY <3>1 DEF Blamed, Exit
    <3> QED BY <3>1, <3>2, OneProcessBlameInv DEF Exit, TypeInv, TypeOK
  <2> QED BY <2>1, <2>2, <2>3
<1>2. CASE SelectOperation(p)
  <2>1. CASE q.operation \in Operations
    BY <1>2, <2>1, GotoBlameInv DEF SelectOperation, Stages
  <2>2. CASE q.operation \notin Operations
    <3> DEFINE o == halted(kFaultProtocol, "plain")
    <3>1. EnvelopeAccepted(q) /\ q.envelope # "illEncoded"
      BY <1>0, <1>2 DEF SelectOperation, Established, EnvelopeAccepted
    <3>2. Earned(q, o) /\ o = CpuVerdict(q) /\ o \in Outcome
      BY <2>2, <3>1, <1>000 DEF Earned, CpuVerdict, Runnable
    <3>3. Conclude(p, o, "report") /\ UNCHANGED faults
      BY <1>2, <2>2 DEF SelectOperation
    <3> HIDE DEF o
    <3> QED BY <3>2, <3>3, ConcludeBlameInv
  <2> QED BY <2>1, <2>2
<1>3. ASSUME pc[p] \in {"probe", "hex", "decode", "reprobe", "compute", "answer"}
      PROVE  Runnable(q) /\ q.backend \in Backends
  BY <1>0, <1>3 DEF Established, Selected, Runnable, EnvelopeAccepted
<1>4. CASE ProbeBackend(p) \/ ProbeAgain(p)
  <2>1. pc[p] \in {"probe", "reprobe"}
    BY <1>4 DEF ProbeBackend, ProbeAgain
  <2>2. CASE backend_available(q.backend, build[p], deviceUp)
    BY <1>4, <2>1, <2>2, GotoBlameInv DEF ProbeBackend, ProbeAgain, Stages
  <2>3. CASE ~backend_available(q.backend, build[p], deviceUp)
    <3> DEFINE o == halted(kFaultBackendUnavailable, "plain")
    <3>1. q.backend = "cuda" /\ Runnable(q)
      BY <1>3, <2>1, <2>3 DEF backend_available, Backends
    <3>2. Earned(q, o) /\ o \in Outcome
      BY <3>1, <1>000 DEF Earned
    <3>3. Conclude(p, o, "report") \/ Conclude(p, o, "answer")
      BY <1>4, <2>3 DEF ProbeBackend, ProbeAgain
    <3>4. UNCHANGED faults
      BY <1>4 DEF ProbeBackend, ProbeAgain
    <3> HIDE DEF o
    <3> QED BY <3>1, <3>2, <3>3, <3>4, ConcludeBlameInv
  <2> QED BY <2>2, <2>3
<1>5. CASE DecodeHex(p)
  <2>1. pc[p] = "hex" /\ UNCHANGED faults
    BY <1>5 DEF DecodeHex
  <2>2. CASE q.hex = "bytes"
    BY <1>5, <2>1, <2>2, GotoBlameInv DEF DecodeHex, Stages
  <2>3. CASE q.hex # "bytes"
    <3> DEFINE text == IF q.hex = "strayByte" THEN "illFormed" ELSE "plain"
               o == halted(kFaultProtocol, text)
    <3>1. Earned(q, o) /\ o = CpuVerdict(q) /\ o \in Outcome
      BY <1>3, <2>1, <2>3, <1>000 DEF Earned, CpuVerdict
    <3>2. Conclude(p, o, "report")
      BY <1>0, <1>5, <2>3, RequestShape DEF DecodeHex
    <3> HIDE DEF o
    <3> QED BY <2>1, <3>1, <3>2, ConcludeBlameInv
  <2> QED BY <2>2, <2>3
<1>6. CASE DecodePayload(p)
  <2>1. pc[p] = "decode" /\ Runnable(q) /\ q.hex = "bytes" /\ UNCHANGED faults
    BY <1>0, <1>3, <1>6 DEF DecodePayload, Established, Running
  <2>2. CASE q.payload \in StoppedByDecode
    <3>1. /\ Earned(q, DecodeOutcome(q)) /\ DecodeOutcome(q) = CpuVerdict(q)
          /\ DecodeOutcome(q) \in Outcome
      BY <1>0, <2>1, <2>2, VerdictsAreEarned, DecodeIsOutcome DEF CpuVerdict
    <3> QED BY <1>6, <2>1, <2>2, <3>1, ConcludeBlameInv DEF DecodePayload
  <2>3. CASE q.payload \notin StoppedByDecode
    BY <1>6, <2>1, <2>3, GotoBlameInv DEF DecodePayload, Stages
  <2> QED BY <2>2, <2>3
<1>7. CASE Compute(p)
  <2>1. pc[p] = "compute" /\ Runnable(q) /\ q.hex = "bytes" /\ UNCHANGED faults
    BY <1>0, <1>3, <1>7 DEF Compute, Established, Running
  <2>2. q.payload \notin StoppedByDecode
    BY <1>0, <2>1 DEF Established
  <2>3. /\ Earned(q, ComputeOutcome(q)) /\ ComputeOutcome(q) = CpuVerdict(q)
        /\ ComputeOutcome(q) \in Outcome
    BY <1>0, <2>1, <2>2, VerdictsAreEarned, ComputeIsOutcome DEF CpuVerdict, Runnable
  <2> QED BY <1>7, <2>1, <2>3, ConcludeBlameInv DEF Compute
<1>8. CASE DeviceFault(p)
  <2>1. pc[p] = "compute" /\ Runnable(q) /\ Engine(q) = "cuda"
    BY <1>3, <1>8 DEF DeviceFault
  <2>2. q.backend # "cpu"
    BY <2>1 DEF Engine
  <2>3. Earned(q, halted(kFaultInternal, "plain")) /\ halted(kFaultInternal, "plain") \in Outcome
    BY <1>0, <2>1, <1>000, VerdictsAreEarned
  <2>4. faults' = 0 => faults = 0
    BY <1>8, CliAssumption DEF DeviceFault, TypeInv, TypeOK
  <2> QED BY <1>8, <2>2, <2>3, <2>4, ConcludeBlameInv DEF DeviceFault
<1>9. CASE WriteAnswer(p)
  <2>1. pc[p] = "answer" /\ Runnable(q) /\ Len(stdout[p]) = 0 /\ UNCHANGED faults
    BY <1>3, <1>00, <1>9 DEF WriteAnswer, Stages
  <2>2. CASE outcome[p].detail # "illFormed"
    <3>1. Response(p) \in Written
      BY <1>9, ResponseWhileWriting DEF WriteAnswer, Stages
    <3>2. /\ Exit(p, "ok") /\ Write(p, Response(p))
          /\ stdout'[p] = Append(stdout[p], Response(p))
      BY <1>9, <2>2 DEF WriteAnswer, Write, TypeInv, TypeOK
    <3>3. outcome[p] = CpuVerdict(q) \/ ~(faults = 0 /\ q.backend = "cpu")
          \/ outcome[p].status = "none"
      BY <1>0, <2>1 DEF Blamed
    <3>4. Blamed(pc[p], request[p], outcome[p], stdout[p], exit[p])'
      BY <1>0, <2>1, <3>2, <3>3 DEF Blamed, Exit, TypeInv, TypeOK
    <3> QED BY <2>1, <3>2, <3>4, OneProcessBlameInv DEF Exit, Write, TypeInv, TypeOK
  <2>3. CASE outcome[p].detail = "illFormed"
    <3> DEFINE o == halted(kFaultInternal, "plain")
    <3>1. Earned(q, o)
      BY <1>0, <2>1, VerdictsAreEarned
    <3>2. /\ outcome' = [outcome EXCEPT ![p] = o] /\ pc' = [pc EXCEPT ![p] = "report"]
          /\ Write(p, Fragment) /\ UNCHANGED <<request, exit>>
          /\ stdout'[p] = Append(stdout[p], Fragment)
      BY <1>9, <2>3 DEF WriteAnswer, Write, TypeInv, TypeOK
    <3>3. Len(stdout'[p]) = 1
      BY <1>0, <2>1, <3>2, Writing, FragmentIsWritten
    <3> HIDE DEF o
    <3>4. Blamed(pc[p], request[p], outcome[p], stdout[p], exit[p])'
      BY <3>1, <3>2, <3>3 DEF Blamed, TypeInv, TypeOK
    <3> QED BY <2>1, <3>2, <3>4, OneProcessBlameInv DEF Write, TypeInv, TypeOK
  <2> QED BY <2>2, <2>3
<1>10. CASE WriteReport(p)
  <2>1. /\ pc[p] = "report" /\ UNCHANGED <<faults, request, outcome>>
        /\ pc' = [pc EXCEPT ![p] = "exited"]
        /\ \A r \in Processes \ {p} : exit'[r] = exit[r]
        /\ Write(p, Response(p)) \/ Write(p, Fragment)
    BY <1>10 DEF WriteReport, Exit, TypeInv, TypeOK
  <2>2. Response(p) \in Written
    BY <2>1, ResponseWhileWriting DEF Stages
  <2>3. Len(stdout'[p]) = Len(stdout[p]) + 1
    BY <1>0, <2>1, <2>2, Writing, FragmentIsWritten DEF Write, TypeInv, TypeOK
  <2>4. Len(stdout[p]) \in 0..1
    BY <1>0, <2>1 DEF Settled
  <2>5. Blamed(pc[p], request[p], outcome[p], stdout[p], exit[p])'
    <3>1. Len(stdout[p]) = 0 => Len(stdout'[p]) = 1
      BY <2>3, <2>4
    <3>2. Len(stdout[p]) = 1 => Len(stdout'[p]) # 1
      BY <2>3
    <3>3. pc'[p] = "exited"
      BY <2>1 DEF TypeInv, TypeOK
    <3> QED BY <1>0, <2>1, <2>4, <3>1, <3>2, <3>3 DEF Blamed
  <2> QED BY <2>1, <2>5, OneProcessBlameInv DEF Write, TypeInv, TypeOK
<1> QED BY <1>1, <1>2, <1>4, <1>5, <1>6, <1>7, <1>8, <1>9, <1>10 DEF Step

LEMMA KilledBlameInv ==
    ASSUME TypeInv, BlameInv, NEW p \in Processes, faults' = 0 => faults = 0,
           Exit(p, "killed"), UNCHANGED stdout
    PROVE  BlameInv'
<1>1. Blamed(pc[p], request[p], outcome[p], stdout[p], exit[p])'
  BY DEF BlameInv, Blamed, Exit, TypeInv, TypeOK
<1> QED BY <1>1, OneProcessBlameInv DEF Exit, TypeInv, TypeOK

LEMMA FailureBlameInv ==
    ASSUME TypeInv, AnswerInv, BlameInv, NEW p \in Processes, AllocationFails(p) \/ Killed(p)
    PROVE  BlameInv'
<1>1. faults' # 0
  BY CliAssumption DEF AllocationFails, Killed, TypeInv, TypeOK
<1>2. /\ Established(pc[p], request[p], build[p], outcome[p]) /\ request[p] \in Requests
      /\ Blamed(pc[p], request[p], outcome[p], stdout[p], exit[p])
  BY DEF TypeInv, TypeOK, StageInv, BlameInv
<1>3. CASE pc[p] \in FaultStages
           /\ \E code \in {kFaultComputation, kFaultInternal}, stage \in {"answer", "report"} :
                 Conclude(p, halted(code, "plain"), stage)
  <2>1. Runnable(request[p])
    BY <1>2, <1>3 DEF FaultStages, Established, Selected, Runnable
  <2>2. \A code \in {kFaultComputation, kFaultInternal} :
            Earned(request[p], halted(code, "plain")) /\ halted(code, "plain") \in Outcome
    BY <1>2, <2>1, VerdictsAreEarned, HaltedIsOutcome
  <2> QED BY <1>1, <1>3, <2>2, ConcludeBlameInv
<1>4. CASE \E how \in {"catastrophic", "killed"} : Exit(p, how) /\ UNCHANGED stdout
  <2>1. Blamed(pc[p], request[p], outcome[p], stdout[p], exit[p])'
    BY <1>1, <1>2, <1>4 DEF Blamed, Exit
  <2> QED BY <1>1, <1>4, <2>1, OneProcessBlameInv DEF Exit, TypeInv, TypeOK
<1> QED BY <1>3, <1>4, AllocationFailsSomewhere DEF Killed

LEMMA StartBlameInv ==
    ASSUME TypeInv, BlameInv, NEW p \in Processes, NEW b \in Builds, Start(p, b), UNCHANGED faults
    PROVE  BlameInv'
<1>1. outcome[p].status = "none"
  BY NoneIsSettled DEF TypeInv, StageInv, Established, Start
<1>2. Blamed(pc[p], request[p], outcome[p], stdout[p], exit[p])'
  BY <1>1 DEF Blamed, Start
<1> QED BY <1>2, OneProcessBlameInv DEF TypeInv, TypeOK, Start

LEMMA NextBlameInv == TypeInv /\ AnswerInv /\ BlameInv /\ [Next]_vars => BlameInv'
<1> SUFFICES ASSUME TypeInv, AnswerInv, BlameInv, [Next]_vars PROVE BlameInv'
  OBVIOUS
<1>1. ASSUME NEW p \in Processes, Launch(p) PROVE BlameInv'
  BY <1>1, StartBlameInv DEF Launch, Undisturbed
<1>2. ASSUME NEW p \in Processes, Step(p) PROVE BlameInv'
  BY <1>2, StepBlameInv
<1>3. ASSUME NEW p \in Processes, AllocationFails(p) \/ Killed(p) PROVE BlameInv'
  BY <1>3, FailureBlameInv
<1>4. CASE DeviceChanges
  BY <1>4 DEF DeviceChanges, process, BlameInv, Blamed
<1>5. CASE UNCHANGED vars
  BY <1>5 DEF vars, BlameInv, Blamed
<1> QED BY <1>1, <1>2, <1>3, <1>4, <1>5 DEF Next

\* Whatever has been answered to a cpu request is its one verdict.
LEMMA OneCpuVerdict == AnswerInv /\ BlameInv => CpuAnswersAlike
<1> SUFFICES ASSUME AnswerInv, BlameInv, faults = 0
             PROVE  CpuAnswersAlike
  BY DEF CpuAnswersAlike
<1>1. ASSUME NEW p \in Processes, Answered(p), request[p].backend = "cpu"
      PROVE  /\ outcome[p] = CpuVerdict(request[p])
             /\ Answer(p) = make_response(outcome[p], EchoedBackend(request[p]), build[p])
  <2>1. /\ Settled(pc[p], outcome[p], request[p], build[p], stdout[p], exit[p])
        /\ Blamed(pc[p], request[p], outcome[p], stdout[p], exit[p])
        /\ exit[p] = "ok" /\ Len(stdout[p]) = 1
    BY <1>1 DEF AnswerInv, BlameInv, Answered
  <2>2. pc[p] = "exited" /\ outcome[p].status # "none"
    BY <2>1 DEF Settled
  <2> QED BY <1>1, <2>1, <2>2 DEF Settled, Blamed, Answer
<1> SUFFICES ASSUME NEW p1 \in Processes, NEW p2 \in Processes,
                    Answered(p1), Answered(p2), request[p1] = request[p2],
                    request[p1].backend = "cpu"
             PROVE  Unversioned(Answer(p1)) = Unversioned(Answer(p2))
  BY DEF CpuAnswersAlike
<1> HIDE DEF Answer
<1>2. \E o, e : /\ Answer(p1) = make_response(o, e, build[p1])
                /\ Answer(p2) = make_response(o, e, build[p2])
  BY <1>1
<1> QED BY <1>2 DEF make_response, Unversioned

\* Two processes given the same cpu request answer alike, whichever binaries they run
\* and whatever the device does: the one answer of a cpu request is CpuVerdict's.
THEOREM CpuAnswersAgree == Spec => []CpuAnswersAlike
<1>1. Spec => []BlameInv
  BY BlameInvInit, TypeCorrect, AnswersJustified, NextBlameInv, PTL DEF Spec
<1> QED BY <1>1, OneCpuVerdict, AnswersJustified, PTL

-----------------------------------------------------------------------------
(* The invariant *)

Places == {"calling", "located", "waiting", "killing", "ended"}
Exceptions == {"none", "OSError", "SCLTimeoutError", "SCLProtocolError",
               "SCLValidationError", "SCLBackendUnavailableError",
               "SCLComputationError", "SCLInternalError"}

CallEnd == [how : {"open", "returned", "raised"}, exception : Exceptions, result : Written]

ClientTypeOK ==
    /\ installed \in Builds \cup {NoBuild}
    /\ at \in [Calls -> Places]
    /\ ended \in [Calls -> CallEnd]

\* A call and its process keep step: none before Spawn, one while the call waits,
\* none that runs once it has ended; and how it ended is what the process left.
InStep(place, stage) ==
    /\ place \in {"calling", "located"} => stage = "unstarted"
    /\ place \in {"waiting", "killing"} => stage # "unstarted"
    /\ place = "ended" => stage \in {"unstarted", "exited"}

Told(place, e, c) ==
    /\ place # "ended" <=> e.how = "open"
    /\ e.how = "open" => e = Service!Open
    /\ e.how = "returned" => Answered(c) /\ e.result = Answer(c)
    /\ e.how = "raised" /\ e.exception # "SCLTimeoutError" /\ Answered(c) =>
           e.exception = Service!ExceptionFor(Answer(c).exit_code)

CallInv == \A c \in Calls : InStep(at[c], pc[c]) /\ Told(at[c], ended[c], c)

ClientInv == TypeInv /\ AnswerInv /\ ClientTypeOK /\ CallInv

LEMMA EndsAreTyped ==
    /\ \A e \in Exceptions : Service!Raised(e) \in CallEnd
    /\ \A r \in Written : Service!Returned(r) \in CallEnd
    /\ Service!Open \in CallEnd
    /\ \A code : Service!ExceptionFor(code) \in Exceptions
<1>1. Service!NoAnswer \in Written
  BY DEF Service!NoAnswer, Service!NoResponse, Written, Backends
<1>2. \A code : Service!ExceptionFor(code) \in Exceptions
  BY DEF Service!ExceptionFor, Exceptions
<1> QED BY <1>1, <1>2 DEF Service!Raised, Service!Returned, Service!Open, CallEnd, Exceptions

LEMMA ClientInvInit == ClientInit => ClientInv
<1> SUFFICES ASSUME ClientInit PROVE ClientInv
  OBVIOUS
<1>1. TypeInv /\ AnswerInv
  BY TypeInvInit, AnswerInvInit DEF ClientInit
<1>2. ClientTypeOK
  BY EndsAreTyped DEF ClientInit, ClientTypeOK, Places
<1>3. CallInv
  BY DEF ClientInit, Init, CallInv, InStep, Told, Service!Open, Calls
<1> QED BY <1>1, <1>2, <1>3 DEF ClientInv

-----------------------------------------------------------------------------
(* What the processes do beneath the calls *)

\* Only a process that runs takes a step; it does not become unstarted by it, and the
\* others are where they were.
LEMMA ProcessMoves ==
    ASSUME TypeInv, NEW p \in Processes, Step(p) \/ AllocationFails(p) \/ Killed(p)
    PROVE  /\ pc[p] \in Stages
           /\ pc'[p] # "unstarted"
           /\ \A r \in Processes \ {p} :
                 pc'[r] = pc[r] /\ stdout'[r] = stdout[r] /\ exit'[r] = exit[r]
<1> USE DEF TypeInv, TypeOK, Goto, Conclude, Return, Report, Exit, Write, Stages
<1>1. CASE AllocationFails(p)
  BY <1>1, AllocationFailsSomewhere DEF FaultStages
<1>2. CASE Killed(p)
  BY <1>2 DEF Killed
<1>3. CASE ReadEnvelope(p) \/ SelectOperation(p) \/ ProbeBackend(p)
  BY <1>3 DEF ReadEnvelope, SelectOperation, ProbeBackend
<1>4. CASE DecodeHex(p)
  <2>1. request[p].hex \in {"bytes", "badDigit", "strayByte"}
    BY RequestShape
  <2> QED BY <1>4, <2>1 DEF DecodeHex
<1>5. CASE DecodePayload(p) \/ ProbeAgain(p)
  BY <1>5 DEF DecodePayload, ProbeAgain
<1>6. CASE Compute(p) \/ DeviceFault(p)
  BY <1>6 DEF Compute, DeviceFault
<1>7. CASE WriteAnswer(p) \/ WriteReport(p)
  BY <1>7 DEF WriteAnswer, WriteReport
<1> QED BY <1>1, <1>2, <1>3, <1>4, <1>5, <1>6, <1>7 DEF Step

\* A call that looks on while a process runs is told nothing new by it.
LEMMA ProcessCallInv ==
    ASSUME ClientInv, NEW p \in Processes, Step(p) \/ AllocationFails(p) \/ Killed(p),
           UNCHANGED client
    PROVE  CallInv'
<1>1. /\ pc[p] \in Stages /\ pc'[p] # "unstarted"
      /\ \A r \in Processes \ {p} :
            pc'[r] = pc[r] /\ stdout'[r] = stdout[r] /\ exit'[r] = exit[r]
  BY ProcessMoves DEF ClientInv
<1> SUFFICES ASSUME NEW c \in Calls
             PROVE  (InStep(at[c], pc[c]) /\ Told(at[c], ended[c], c))'
  BY DEF CallInv
<1>2. InStep(at[c], pc[c]) /\ Told(at[c], ended[c], c) /\ UNCHANGED <<at, ended>>
  BY DEF ClientInv, CallInv, client
<1>3. CASE c = p
  <2>1. at[c] \in {"waiting", "killing"}
    BY <1>1, <1>2, <1>3 DEF InStep, Stages, ClientInv, ClientTypeOK, Places
  <2> QED BY <1>1, <1>2, <1>3, <2>1 DEF InStep, Told
<1>4. CASE c # p
  BY <1>1, <1>2, <1>4 DEF InStep, Told, Answered, Answer, Calls
<1> QED BY <1>3, <1>4

-----------------------------------------------------------------------------
(* What each action of the client does to types and answers *)

LEMMA NothingMoves ==
    ASSUME TypeInv, AnswerInv, UNCHANGED vars
    PROVE  TypeInv' /\ AnswerInv'
BY DEF vars, TypeInv, TypeOK, StageInv, AnswerInv

LEMMA ReapKeepsProcesses ==
    ASSUME TypeInv, AnswerInv, NEW c \in Calls, pc[c] # "unstarted", Reap(c)
    PROVE  TypeInv' /\ AnswerInv'
<1>1. CASE pc[c] = "exited"
  BY <1>1, NothingMoves DEF Reap, process, Undisturbed, vars
<1>2. CASE pc[c] # "exited"
  <2>1. Exit(c, "killed") /\ UNCHANGED stdout /\ UNCHANGED <<deviceUp, faults>>
    BY <1>2 DEF Reap, Undisturbed
  <2>2. faults' \in 0..MaxFaults /\ c \in Processes
    BY <2>1 DEF TypeInv, TypeOK, Calls
  <2> QED BY <2>1, <2>2, ExitTypeInv, ExitAnswerInv
<1> QED BY <1>1, <1>2

LEMMA SpawnKeepsProcesses ==
    ASSUME TypeInv, AnswerInv, installed \in Builds \cup {NoBuild}, NEW c \in Calls, Spawn(c)
    PROVE  TypeInv' /\ AnswerInv'
<1>1. CASE installed = NoBuild
  BY <1>1, NothingMoves DEF Spawn, process, Undisturbed, vars
<1>2. CASE installed # NoBuild
  BY <1>2, StartTypeInv, StartAnswerInv DEF Spawn, Calls
<1> QED BY <1>1, <1>2

\* The result a call returns is the whole answer: the fields that SCLResult would blank
\* are blank already.
LEMMA ResultIsAnswer ==
    ASSUME TypeInv, AnswerInv, NEW c \in Calls, Answered(c)
    PROVE  /\ Answer(c) \in Written
           /\ Answer(c).status \in {"completed", "halted"}
           /\ Answer(c).status = "completed" => Answer(c).output_hex # "none"
           /\ SCLResult(Answer(c)) = Answer(c)
<1>1. c \in Processes
  BY DEF Calls
<1>2. Answer(c) \in Written
  <2>1. stdout[c] \in Seq(Written) /\ Len(stdout[c]) = 1
    BY <1>1 DEF TypeInv, TypeOK, Answered
  <2> QED BY <2>1 DEF Answer
<1>3. /\ outcome[c] \in Outcome /\ outcome[c].status # "none"
      /\ Justified(outcome[c], request[c], build[c])
      /\ Settled(pc[c], outcome[c], request[c], build[c], stdout[c], exit[c])
  BY <1>1, AnswerIsResponse DEF TypeInv, TypeOK, AnswerInv
<1>4. Answer(c) = make_response(outcome[c], EchoedBackend(request[c]), build[c])
  BY <1>3 DEF Answered, Settled, Answer
<1>5. outcome[c].status = "completed" =>
          outcome[c].output \in Backends /\ outcome[c].detail = "none"
  <2> SUFFICES ASSUME outcome[c].status = "completed"
               PROVE  outcome[c].output \in Backends /\ outcome[c].detail = "none"
    OBVIOUS
  <2>1. Runnable(request[c]) /\ outcome[c] = completed(Engine(request[c]))
    BY <1>3 DEF Justified
  <2>2. Engine(request[c]) \in Backends
    BY <1>1, <2>1, EngineIsBackend DEF Runnable, TypeInv, TypeOK
  <2> QED BY <2>1, <2>2, CompletedIsOutcome
<1>6. outcome[c].status \in {"completed", "halted"}
  BY <1>3 DEF Outcome
<1>7. outcome[c].status = "halted" => outcome[c].output = "none"
  BY <1>3 DEF Justified
<1> HIDE DEF Answer
<1>8. /\ Answer(c).status = outcome[c].status
      /\ Answer(c).output_hex = outcome[c].output
      /\ Answer(c).detail = outcome[c].detail
  BY <1>4 DEF make_response
<1>9. SCLResult(Answer(c)) = Answer(c)
  BY <1>2, <1>5, <1>6, <1>7, <1>8 DEF SCLResult, Written
<1> QED BY <1>2, <1>5, <1>6, <1>8, <1>9 DEF Backends

-----------------------------------------------------------------------------
(* Each action of the client *)

\* An action of one call leaves what is known of the other calls as it was.
LEMMA OneCallInv ==
    ASSUME ClientInv, NEW c \in Calls, TypeInv', AnswerInv', installed' = installed,
           \A r \in Calls \ {c} :
               /\ pc'[r] = pc[r] /\ stdout'[r] = stdout[r] /\ exit'[r] = exit[r],
           NEW place \in Places, NEW e \in CallEnd,
           at' = [at EXCEPT ![c] = place], ended' = [ended EXCEPT ![c] = e],
           InStep(place, pc'[c]), Told(place, e, c)'
    PROVE  ClientInv'
<1>1. ClientTypeOK'
  BY DEF ClientInv, ClientTypeOK
<1>2. at'[c] = place /\ ended'[c] = e
  BY DEF ClientInv, ClientTypeOK
<1>3. ASSUME NEW r \in Calls
      PROVE  (InStep(at[r], pc[r]) /\ Told(at[r], ended[r], r))'
  <2>1. CASE r = c
    BY <1>2, <2>1 DEF Told
  <2>2. CASE r # c
    <3>1. at'[r] = at[r] /\ ended'[r] = ended[r]
      BY <2>2 DEF ClientInv, ClientTypeOK
    <3>2. InStep(at[r], pc[r]) /\ Told(at[r], ended[r], r)
      BY DEF ClientInv, CallInv
    <3> QED BY <2>2, <3>1, <3>2 DEF InStep, Told, Answered, Answer
  <2> QED BY <2>1, <2>2
<1> QED BY <1>1, <1>3 DEF ClientInv, CallInv

\* A process that was never started, or did not exit 0, has not answered.
LEMMA NoAnswerYet ==
    ASSUME AnswerInv, NEW c \in Calls, pc[c] # "exited"
    PROVE  ~Answered(c)
BY DEF AnswerInv, Settled, Answered, Calls

LEMMA LocateInv ==
    ASSUME ClientInv, NEW c \in Calls, Locate(c)
    PROVE  ClientInv'
<1>1. TypeInv' /\ AnswerInv' /\ UNCHANGED <<pc, stdout, exit>>
  BY NothingMoves DEF ClientInv, Locate, vars
<1>2. /\ at[c] = "calling" /\ pc[c] = "unstarted"
      /\ ended[c] \in CallEnd /\ ended[c].how = "open" /\ ended[c] = Service!Open
  BY DEF Locate, ClientInv, CallInv, InStep, Told, ClientTypeOK
<1>3. ~Answered(c)'
  BY <1>1, <1>2, NoAnswerYet DEF ClientInv, Answered
<1>4. CASE installed = NoBuild
  <2> DEFINE e == Service!Raised("SCLProtocolError")
  <2>1. e \in CallEnd /\ e.how = "raised"
    BY EndsAreTyped DEF Service!Raised, Exceptions
  <2>2. /\ at' = [at EXCEPT ![c] = "ended"] /\ ended' = [ended EXCEPT ![c] = e]
        /\ installed' = installed
    BY <1>4 DEF Locate, End
  <2> HIDE DEF e
  <2> QED BY <1>1, <1>2, <1>3, <2>1, <2>2, OneCallInv DEF InStep, Told, Places
<1>5. CASE installed # NoBuild
  <2>1. /\ at' = [at EXCEPT ![c] = "located"] /\ ended' = ended /\ installed' = installed
    BY <1>5 DEF Locate, Proceed
  <2>2. ended' = [ended EXCEPT ![c] = ended[c]]
    BY <2>1 DEF ClientInv, ClientTypeOK
  <2> QED BY <1>1, <1>2, <2>1, <2>2, OneCallInv DEF InStep, Told, Places,
             Service!Open, Service!NoAnswer, Service!NoResponse
<1> QED BY <1>4, <1>5

LEMMA SpawnInv ==
    ASSUME ClientInv, NEW c \in Calls, Spawn(c)
    PROVE  ClientInv'
<1>1. TypeInv' /\ AnswerInv'
  BY SpawnKeepsProcesses DEF ClientInv, ClientTypeOK
<1>2. /\ at[c] = "located" /\ pc[c] = "unstarted"
      /\ ended[c] \in CallEnd /\ ended[c].how = "open" /\ ended[c] = Service!Open
  BY DEF Spawn, ClientInv, CallInv, InStep, Told, ClientTypeOK
<1>3. CASE installed = NoBuild
  <2> DEFINE e == Service!Raised("OSError")
  <2>1. e \in CallEnd /\ e.how = "raised"
    BY EndsAreTyped DEF Service!Raised, Exceptions
  <2>2. /\ at' = [at EXCEPT ![c] = "ended"] /\ ended' = [ended EXCEPT ![c] = e]
        /\ installed' = installed /\ UNCHANGED <<pc, stdout, exit>>
    BY <1>3 DEF Spawn, End, process
  <2>3. ~Answered(c)'
    BY <1>2, <2>2, NoAnswerYet DEF ClientInv, Answered
  <2> HIDE DEF e
  <2> QED BY <1>1, <1>2, <2>1, <2>2, <2>3, OneCallInv DEF InStep, Told, Places
<1>4. CASE installed # NoBuild
  <2>1. /\ at' = [at EXCEPT ![c] = "waiting"] /\ ended' = ended /\ installed' = installed
        /\ pc' = [pc EXCEPT ![c] = "envelope"] /\ UNCHANGED <<stdout, exit>>
    BY <1>4 DEF Spawn, Proceed, Start
  <2>2. ended' = [ended EXCEPT ![c] = ended[c]]
    BY <2>1 DEF ClientInv, ClientTypeOK
  <2>3. pc'[c] = "envelope" /\ \A r \in Calls \ {c} : pc'[r] = pc[r]
    BY <2>1 DEF ClientInv, TypeInv, TypeOK, Calls
  <2> QED BY <1>1, <1>2, <2>1, <2>2, <2>3, OneCallInv DEF InStep, Told, Places,
             Service!Open, Service!NoAnswer, Service!NoResponse
<1> QED BY <1>3, <1>4

LEMMA CollectInv ==
    ASSUME ClientInv, NEW c \in Calls, Collect(c)
    PROVE  ClientInv'
<1>1. TypeInv' /\ AnswerInv' /\ UNCHANGED <<pc, stdout, exit>>
  BY NothingMoves DEF ClientInv, Collect, vars
<1>2. at[c] = "waiting" /\ pc[c] = "exited"
  BY DEF Collect
<1>3. CASE Answered(c)
  <2>1. /\ Answer(c) \in Written
        /\ Answer(c).status \in {"completed", "halted"}
        /\ Answer(c).status = "completed" => Answer(c).output_hex # "none"
        /\ SCLResult(Answer(c)) = Answer(c)
    BY <1>3, ResultIsAnswer DEF ClientInv
  <2>2. End(c, Service!Returned(SCLResult(Answer(c))))
    BY <1>3, <2>1 DEF Collect, Unreadable, Answered, Answer
  <2> DEFINE e == Service!Returned(Answer(c))
  <2>3. /\ at' = [at EXCEPT ![c] = "ended"] /\ ended' = [ended EXCEPT ![c] = e]
        /\ installed' = installed
    BY <2>1, <2>2 DEF End
  <2>4. e \in CallEnd /\ e.how = "returned" /\ e.result = Answer(c)
    BY <2>1, EndsAreTyped DEF Service!Returned
  <2>5. Answered(c)' /\ Answer(c)' = Answer(c)
    BY <1>1, <1>3 DEF Answered, Answer
  <2> HIDE DEF e
  <2> QED BY <1>1, <1>2, <2>3, <2>4, <2>5, OneCallInv DEF InStep, Told, Places
<1>4. CASE ~Answered(c)
  <2> DEFINE e == Service!Raised("SCLProtocolError")
  <2>1. e \in CallEnd /\ e.how = "raised"
    BY EndsAreTyped DEF Service!Raised, Exceptions
  <2>2. exit[c] # "ok" \/ Unreadable(c)
    BY <1>4 DEF Answered, Unreadable
  <2>3. /\ at' = [at EXCEPT ![c] = "ended"] /\ ended' = [ended EXCEPT ![c] = e]
        /\ installed' = installed
    BY <2>2 DEF Collect, End
  <2>4. ~Answered(c)'
    BY <1>1, <1>4 DEF Answered
  <2> HIDE DEF e
  <2> QED BY <1>1, <1>2, <2>1, <2>3, <2>4, OneCallInv DEF InStep, Told, Places
<1> QED BY <1>3, <1>4

LEMMA DeadlineInv ==
    ASSUME ClientInv, NEW c \in Calls, Deadline(c)
    PROVE  ClientInv'
<1>1. TypeInv' /\ AnswerInv' /\ UNCHANGED <<pc, stdout, exit>>
  BY NothingMoves DEF ClientInv, Deadline, vars
<1>2. /\ at[c] = "waiting" /\ pc[c] # "unstarted"
      /\ ended[c] \in CallEnd /\ ended[c].how = "open" /\ ended[c] = Service!Open
  BY DEF Deadline, ClientInv, CallInv, InStep, Told, ClientTypeOK
<1>3. /\ at' = [at EXCEPT ![c] = "killing"] /\ ended' = ended /\ installed' = installed
  BY DEF Deadline, Proceed
<1>4. ended' = [ended EXCEPT ![c] = ended[c]]
  BY <1>3 DEF ClientInv, ClientTypeOK
<1> QED BY <1>1, <1>2, <1>3, <1>4, OneCallInv DEF InStep, Told, Places,
             Service!Open, Service!NoAnswer, Service!NoResponse

LEMMA ReapInv ==
    ASSUME ClientInv, NEW c \in Calls, Reap(c)
    PROVE  ClientInv'
<1> DEFINE e == Service!Raised("SCLTimeoutError")
<1>1. at[c] = "killing" /\ pc[c] # "unstarted"
  BY DEF Reap, ClientInv, CallInv, InStep
<1>2. TypeInv' /\ AnswerInv'
  BY <1>1, ReapKeepsProcesses DEF ClientInv
<1>3. /\ pc'[c] = "exited"
      /\ \A r \in Calls \ {c} :
            pc'[r] = pc[r] /\ stdout'[r] = stdout[r] /\ exit'[r] = exit[r]
  BY DEF Reap, Exit, process, ClientInv, TypeInv, TypeOK, Calls
<1>4. /\ at' = [at EXCEPT ![c] = "ended"] /\ ended' = [ended EXCEPT ![c] = e]
      /\ installed' = installed
  BY DEF Reap, End
<1>5. e \in CallEnd /\ e.how = "raised" /\ e.exception = "SCLTimeoutError"
  BY EndsAreTyped DEF Service!Raised, Exceptions
<1> HIDE DEF e
<1> QED BY <1>2, <1>3, <1>4, <1>5, OneCallInv DEF InStep, Told, Places

LEMMA RaiseForResultInv ==
    ASSUME ClientInv, NEW c \in Calls, RaiseForResult(c)
    PROVE  ClientInv'
<1> DEFINE e == Service!Raised(Service!ExceptionFor(ended[c].result.exit_code))
<1>1. TypeInv' /\ AnswerInv' /\ UNCHANGED <<pc, stdout, exit>>
  BY NothingMoves DEF ClientInv, RaiseForResult, vars
<1>2. /\ at[c] \in Places /\ InStep(at[c], pc[c])
      /\ at[c] = "ended" /\ Answered(c) /\ ended[c].result = Answer(c)
  BY DEF RaiseForResult, ClientInv, ClientTypeOK, CallInv, Told
<1>3. at' = [at EXCEPT ![c] = "ended"]
  BY <1>2 DEF RaiseForResult, ClientInv, ClientTypeOK
<1>4. ended' = [ended EXCEPT ![c] = e] /\ installed' = installed
  BY DEF RaiseForResult
<1>5. /\ e \in CallEnd /\ e.how = "raised"
      /\ e.exception = Service!ExceptionFor(Answer(c).exit_code)
  BY <1>2, EndsAreTyped DEF Service!Raised
<1>6. Answered(c)' /\ Answer(c)' = Answer(c)
  BY <1>1, <1>2 DEF Answered, Answer
<1> HIDE DEF e
<1> QED BY <1>1, <1>2, <1>3, <1>4, <1>5, <1>6, OneCallInv DEF InStep, Told, Places

-----------------------------------------------------------------------------

LEMMA ProcessInv ==
    ASSUME ClientInv, NEW p \in Processes, Step(p) \/ AllocationFails(p) \/ Killed(p),
           UNCHANGED client
    PROVE  ClientInv'
<1>1. TypeInv' /\ AnswerInv'
  BY StepTypeInv, FailureTypeInv, StepAnswerInv, FailureAnswerInv DEF ClientInv
<1>2. ClientTypeOK'
  BY DEF ClientInv, ClientTypeOK, client
<1> QED BY <1>1, <1>2, ProcessCallInv DEF ClientInv

\* The device, the build and the world outside leave calls and answers alone.
LEMMA SurroundingsInv ==
    ASSUME ClientInv, \/ DeviceChanges /\ UNCHANGED client
                      \/ Install
                      \/ UNCHANGED clientVars
    PROVE  ClientInv'
<1>1. TypeInv' /\ AnswerInv' /\ UNCHANGED <<pc, stdout, exit, at, ended>>
  <2>1. CASE DeviceChanges /\ UNCHANGED client
    BY <2>1 DEF DeviceChanges, process, client, ClientInv, TypeInv, TypeOK, StageInv, AnswerInv
  <2>2. CASE Install \/ UNCHANGED clientVars
    BY <2>2, NothingMoves DEF Install, clientVars, vars, ClientInv
  <2> QED BY <2>1, <2>2
<1>2. ClientTypeOK'
  BY <1>1 DEF ClientInv, ClientTypeOK, client, clientVars, Install
<1>3. CallInv'
  BY <1>1 DEF ClientInv, CallInv, Told, Answered, Answer
<1> QED BY <1>1, <1>2, <1>3 DEF ClientInv

LEMMA ClientInvNext == ClientInv /\ [ClientNext]_clientVars => ClientInv'
<1> SUFFICES ASSUME ClientInv, [ClientNext]_clientVars PROVE ClientInv'
  OBVIOUS
<1>1. ASSUME NEW c \in Calls, ClientStep(c) PROVE ClientInv'
  BY <1>1, LocateInv, SpawnInv, CollectInv, DeadlineInv, ReapInv DEF ClientStep
<1>2. ASSUME NEW c \in Calls, RaiseForResult(c) PROVE ClientInv'
  BY <1>2, RaiseForResultInv
<1>3. ASSUME NEW c \in Calls, Step(c) \/ AllocationFails(c) \/ Killed(c), UNCHANGED client
      PROVE  ClientInv'
  BY <1>3, ProcessInv DEF Calls
<1> QED BY <1>1, <1>2, <1>3, SurroundingsInv DEF ClientNext

\* A call, its process and what the call ends with stay in step.
THEOREM CallsInStep == ClientSpec => []ClientInv
BY ClientInvInit, ClientInvNext, PTL DEF ClientSpec

\* No scl_cli process runs that no call is waiting for or killing: whatever order the
\* deadline, the exit and the collection come in.
THEOREM NoProcessOrphaned == ClientSpec => []NoOrphan
<1>1. ClientInv => NoOrphan
  BY DEF ClientInv, ClientTypeOK, CallInv, InStep, NoOrphan, Stages, Places
<1> QED BY <1>1, CallsInStep, PTL

\* A process that exited 0 with one object is heard: its call returns that object, raises
\* what raise_for_result makes of it, or had passed its deadline.
THEOREM WholeAnswersHeard == ClientSpec => []WholeAnswersReturn
<1>1. ClientInv => WholeAnswersReturn
  BY DEF ClientInv, CallInv, Told, WholeAnswersReturn
<1> QED BY <1>1, CallsInStep, PTL

\* The stages of a process keep their meaning when a client starts, waits for and kills it.
COROLLARY ClientAnswersJustified == ClientSpec => [](TypeInv /\ AnswerInv)
<1>1. ClientInv => TypeInv /\ AnswerInv
  BY DEF ClientInv
<1> QED BY <1>1, CallsInStep, PTL

-----------------------------------------------------------------------------
(* What a call is told was earned: an exception other than the channel's own *)
(* comes from a whole answer of its process, and that answer from a request  *)
(* and a binary that deserve it.                                             *)

\* A process that nothing failed is killed only by its own call's deadline.
Heard(c) ==
    /\ pc[c] = "unstarted" => build[c] = NoBuild
    /\ ended[c].how # "raised" => ended[c].exception = "none"
    /\ ended[c].how = "raised" /\ ~Answered(c) => ended[c].exception \in Service!ChannelErrors
    /\ ended[c].how = "raised" /\ Answered(c) /\ ended[c].exception # "SCLTimeoutError" =>
           Answer(c).status = "halted"
    /\ exit[c] = "killed" => faults # 0 \/ ended[c].exception = "SCLTimeoutError"

HeardInv == \A c \in Calls : Heard(c)

EarnedInv == WritableInv /\ BlameInv /\ HeardInv

LEMMA EarnedInvInit == ClientInit => EarnedInv
<1> SUFFICES ASSUME ClientInit PROVE EarnedInv
  OBVIOUS
<1>1. HeardInv
  BY DEF ClientInit, Init, HeardInv, Heard, Calls, Service!Open
<1> QED BY <1>1, WritableInvInit, BlameInvInit DEF ClientInit, EarnedInv

\* Beneath the client the processes take steps of their own, or one of them is killed.
LEMMA ProcessesUnderneath ==
    ASSUME ClientInv, [ClientNext]_clientVars
    PROVE  \/ [Next]_vars
           \/ \E p \in Processes : /\ pc[p] \in Stages
                                   /\ Exit(p, "killed") /\ UNCHANGED <<stdout, faults>>
<1>1. ASSUME NEW c \in Calls, Locate(c) \/ Collect(c) \/ Deadline(c) \/ RaiseForResult(c)
      PROVE  UNCHANGED vars
  BY <1>1 DEF Locate, Collect, Deadline, RaiseForResult
<1>2. ASSUME NEW c \in Calls, Spawn(c) PROVE [Next]_vars
  <2>1. installed = NoBuild => UNCHANGED vars
    BY <1>2 DEF Spawn, process, Undisturbed, vars
  <2>2. installed # NoBuild => Launch(c)
    BY <1>2 DEF Spawn, Launch, ClientInv, ClientTypeOK
  <2> QED BY <2>1, <2>2 DEF Next, Calls
<1>3. ASSUME NEW c \in Calls, Reap(c)
      PROVE  \/ UNCHANGED vars
             \/ pc[c] \in Stages /\ Exit(c, "killed") /\ UNCHANGED <<stdout, faults>>
  <2>1. pc[c] \in Stages \cup {"exited"}
    BY <1>3 DEF Reap, ClientInv, CallInv, InStep, TypeInv, TypeOK, Calls
  <2> QED BY <1>3, <2>1 DEF Reap, process, Undisturbed, vars
<1>4. ASSUME NEW c \in Calls, Step(c) \/ AllocationFails(c) \/ Killed(c) PROVE Next
  BY <1>4 DEF Next, Calls
<1>5. CASE DeviceChanges \/ Install \/ UNCHANGED clientVars
  BY <1>5 DEF Next, Install, clientVars, vars
<1> QED BY <1>1, <1>2, <1>3, <1>4, <1>5 DEF ClientNext, ClientStep, Calls

LEMMA WritableAndBlamed ==
    ASSUME ClientInv, EarnedInv, [ClientNext]_clientVars
    PROVE  WritableInv' /\ BlameInv'
<1>1. TypeInv /\ AnswerInv /\ WritableInv /\ BlameInv
  BY DEF ClientInv, EarnedInv
<1>2. CASE [Next]_vars
  BY <1>1, <1>2, NextWritableInv, NextBlameInv
<1>3. CASE \E p \in Processes : /\ pc[p] \in Stages
                                /\ Exit(p, "killed") /\ UNCHANGED <<stdout, faults>>
  <2>1. PICK p \in Processes : /\ pc[p] \in Stages
                               /\ Exit(p, "killed") /\ UNCHANGED <<stdout, faults>>
    BY <1>3
  <2>2. exit[p] = "none"
    BY <1>1, <2>1 DEF AnswerInv, Settled, Stages
  <2> QED BY <1>1, <2>1, <2>2, KilledWritableInv, KilledBlameInv
<1> QED BY <1>2, <1>3, ProcessesUnderneath

\* An action of one call tells the others nothing.
LEMMA OneCallHeard ==
    ASSUME ClientInv, HeardInv, NEW c \in Calls, faults' = 0 => faults = 0,
           \A r \in Calls \ {c} :
               /\ pc'[r] = pc[r] /\ stdout'[r] = stdout[r] /\ exit'[r] = exit[r]
               /\ build'[r] = build[r] /\ ended'[r] = ended[r],
           Heard(c)'
    PROVE  HeardInv'
<1> SUFFICES ASSUME NEW r \in Calls, r # c PROVE Heard(r)'
  BY DEF HeardInv
<1> QED BY DEF HeardInv, Heard, Answered, Answer

\* A call that has not ended has been told nothing, and is told nothing by its process.
LEMMA OpenHears ==
    ASSUME NEW c \in Calls, ended[c] = Service!Open, ended'[c] = ended[c],
           pc'[c] = "unstarted" => build'[c] = NoBuild,
           exit'[c] = "killed" => faults' # 0
    PROVE  Heard(c)'
BY DEF Heard, Service!Open

LEMMA CallHeard ==
    ASSUME ClientInv, EarnedInv, NEW c \in Calls, ClientStep(c) \/ RaiseForResult(c)
    PROVE  HeardInv'
<1>0. /\ c \in Processes /\ HeardInv /\ Heard(c) /\ TypeInv /\ AnswerInv
      /\ InStep(at[c], pc[c]) /\ Told(at[c], ended[c], c) /\ ended[c] \in CallEnd
      /\ at \in [Calls -> Places] /\ ended \in [Calls -> CallEnd]
      /\ Settled(pc[c], outcome[c], request[c], build[c], stdout[c], exit[c])
  BY DEF ClientInv, EarnedInv, HeardInv, CallInv, ClientTypeOK, AnswerInv, Calls
<1>1. ASSUME at[c] # "ended"
      PROVE  ended[c] = Service!Open /\ (exit[c] = "killed" => faults # 0)
  BY <1>0, <1>1 DEF Told, Heard, Service!Open
<1>2. ASSUME at[c] # "ended", UNCHANGED vars, UNCHANGED ended
      PROVE  HeardInv'
  <2>1. Heard(c)'
    BY <1>0, <1>1, <1>2, OpenHears DEF vars, Heard
  <2> QED BY <1>0, <1>2, <2>1, OneCallHeard DEF vars
<1>3. ASSUME UNCHANGED vars, NEW e \in Service!ChannelErrors, ~Answered(c),
             ended' = [ended EXCEPT ![c] = Service!Raised(e)], at[c] # "ended"
      PROVE  HeardInv'
  <2>1. ended'[c].how = "raised" /\ ended'[c].exception = e
    BY <1>0, <1>3 DEF Service!Raised
  <2>2. ~Answered(c)' /\ UNCHANGED <<pc, build, exit, stdout, faults>>
    BY <1>3 DEF vars, Answered
  <2>3. Heard(c)'
    BY <1>0, <1>1, <1>3, <2>1, <2>2 DEF Heard
  <2> QED BY <1>0, <1>3, <2>2, <2>3, OneCallHeard
<1>4. CASE Locate(c)
  <2>1. CASE installed = NoBuild
    <3>1. /\ UNCHANGED vars /\ at[c] # "ended" /\ ~Answered(c)
          /\ ended' = [ended EXCEPT ![c] = Service!Raised("SCLProtocolError")]
      BY <1>0, <1>4, <2>1, NoAnswerYet DEF Locate, End, InStep
    <3> QED BY <1>3, <3>1 DEF Service!ChannelErrors
  <2>2. CASE installed # NoBuild
    BY <1>2, <1>4, <2>2 DEF Locate, Proceed
  <2> QED BY <2>1, <2>2
<1>5. CASE Spawn(c)
  <2>1. CASE installed = NoBuild
    <3>1. /\ UNCHANGED vars /\ at[c] # "ended" /\ ~Answered(c)
          /\ ended' = [ended EXCEPT ![c] = Service!Raised("OSError")]
      BY <1>0, <1>5, <2>1, NoAnswerYet DEF Spawn, End, InStep, process, Undisturbed, vars
    <3> QED BY <1>3, <3>1 DEF Service!ChannelErrors
  <2>2. CASE installed # NoBuild
    <3>1. /\ pc'[c] = "envelope" /\ UNCHANGED <<exit, stdout, ended, faults>>
          /\ \A r \in Calls \ {c} : pc'[r] = pc[r] /\ build'[r] = build[r]
          /\ at[c] # "ended"
      BY <1>0, <1>5, <2>2 DEF Spawn, Start, Proceed, Undisturbed, TypeInv, TypeOK, Calls
    <3>2. Heard(c)'
      BY <1>1, <3>1, OpenHears
    <3> QED BY <1>0, <3>1, <3>2, OneCallHeard
  <2> QED BY <2>1, <2>2
<1>6. CASE Collect(c)
  <2>1. UNCHANGED vars /\ at[c] # "ended"
    BY <1>6 DEF Collect
  <2>2. CASE Answered(c)
    <3>1. /\ Answer(c).status \in {"completed", "halted"}
          /\ Answer(c).status = "completed" => Answer(c).output_hex # "none"
      BY <1>0, <2>2, ResultIsAnswer
    <3>2. \E r : ended' = [ended EXCEPT ![c] = Service!Returned(r)]
      BY <1>6, <2>2, <3>1 DEF Collect, End, Unreadable, Answered, Answer
    <3>3. ended'[c].how = "returned" /\ ended'[c].exception = "none"
      BY <1>0, <3>2 DEF Service!Returned
    <3>4. \A r \in Calls \ {c} : ended'[r] = ended[r]
      BY <1>0, <3>2
    <3>5. UNCHANGED <<pc, build, exit, stdout, faults>>
      BY <2>1 DEF vars
    <3>6. Heard(c)'
      BY <1>0, <1>1, <2>1, <3>3, <3>5 DEF Heard
    <3> QED BY <1>0, <3>4, <3>5, <3>6, OneCallHeard
  <2>3. CASE ~Answered(c)
    <3>1. exit[c] # "ok" \/ Unreadable(c)
      BY <2>3 DEF Answered, Unreadable
    <3>2. ended' = [ended EXCEPT ![c] = Service!Raised("SCLProtocolError")]
      BY <1>6, <3>1 DEF Collect, End
    <3> QED BY <1>3, <2>1, <2>3, <3>2 DEF Service!ChannelErrors
  <2> QED BY <2>2, <2>3
<1>7. CASE Deadline(c)
  BY <1>2, <1>7 DEF Deadline, Proceed
<1>8. CASE Reap(c)
  <2>1. /\ pc'[c] = "exited" /\ UNCHANGED <<build, stdout, faults>>
        /\ \A r \in Calls \ {c} : pc'[r] = pc[r] /\ exit'[r] = exit[r]
        /\ ended' = [ended EXCEPT ![c] = Service!Raised("SCLTimeoutError")]
    BY <1>0, <1>8 DEF Reap, End, Exit, process, Undisturbed, TypeInv, TypeOK, Calls
  <2>2. ended'[c].how = "raised" /\ ended'[c].exception = "SCLTimeoutError"
    BY <1>0, <2>1 DEF Service!Raised
  <2>3. Heard(c)'
    BY <2>1, <2>2 DEF Heard, Service!ChannelErrors
  <2>4. \A r \in Calls \ {c} : ended'[r] = ended[r]
    BY <1>0, <2>1
  <2> QED BY <1>0, <2>1, <2>3, <2>4, OneCallHeard
<1>9. CASE RaiseForResult(c)
  <2>1. /\ ended[c].how = "returned" /\ Answered(c) /\ Answer(c).status = "halted"
        /\ UNCHANGED vars
        /\ \E e : ended' = [ended EXCEPT ![c] = Service!Raised(e)]
    BY <1>0, <1>9 DEF RaiseForResult, Told
  <2>2. /\ ended'[c].how = "raised" /\ UNCHANGED <<pc, build, exit, stdout, faults>>
        /\ \A r \in Calls \ {c} : ended'[r] = ended[r]
    BY <1>0, <2>1 DEF Service!Raised, vars
  <2>3. Answered(c)' /\ Answer(c)' = Answer(c) /\ exit[c] = "ok"
    BY <2>1, <2>2 DEF Answered, Answer
  <2>4. Heard(c)'
    BY <1>0, <2>1, <2>2, <2>3 DEF Heard
  <2> QED BY <1>0, <2>2, <2>4, OneCallHeard
<1> QED BY <1>4, <1>5, <1>6, <1>7, <1>8, <1>9 DEF ClientStep

\* A process tells its call nothing while it runs.
LEMMA ProcessHeard ==
    ASSUME ClientInv, EarnedInv, NEW p \in Processes,
           Step(p) \/ AllocationFails(p) \/ Killed(p), UNCHANGED client
    PROVE  HeardInv'
<1>1. /\ pc[p] \in Stages /\ pc'[p] # "unstarted"
      /\ \A r \in Processes \ {p} :
            pc'[r] = pc[r] /\ stdout'[r] = stdout[r] /\ exit'[r] = exit[r]
  BY ProcessMoves DEF ClientInv
<1>2. /\ faults' = 0 => faults = 0
      /\ exit'[p] = "killed" => exit[p] = "killed" \/ faults' # 0
  BY OnlySignalsKill DEF ClientInv
<1>3. build' = build
  <2>1. request[p].hex \in {"bytes", "badDigit", "strayByte"}
    BY RequestShape DEF ClientInv, TypeInv, TypeOK
  <2> QED BY <2>1 DEF Step, ReadEnvelope, SelectOperation, ProbeBackend, DecodeHex,
             DecodePayload, ProbeAgain, Compute, DeviceFault, WriteAnswer, WriteReport,
             AllocationFails, Killed, Goto, Return, Report, Conclude, Exit
<1>4. /\ exit[p] = "none" /\ at[p] # "ended" /\ p \in Calls /\ HeardInv
      /\ Told(at[p], ended[p], p)
  BY <1>1 DEF ClientInv, AnswerInv, Settled, CallInv, InStep, Stages, Calls, EarnedInv
<1>5. ended[p] = Service!Open /\ UNCHANGED ended
  BY <1>4 DEF Told, client, ClientInv, ClientTypeOK, CallEnd
<1>6. Heard(p)'
  BY <1>1, <1>2, <1>4, <1>5, OpenHears
<1> QED BY <1>1, <1>2, <1>3, <1>4, <1>5, <1>6, OneCallHeard DEF Calls

LEMMA EarnedInvNext == ClientInv /\ EarnedInv /\ [ClientNext]_clientVars => EarnedInv'
<1> SUFFICES ASSUME ClientInv, EarnedInv, [ClientNext]_clientVars PROVE EarnedInv'
  OBVIOUS
<1>1. WritableInv' /\ BlameInv'
  BY WritableAndBlamed
<1>2. CASE \E c \in Calls : ClientStep(c) \/ RaiseForResult(c)
  BY <1>1, <1>2, CallHeard DEF EarnedInv
<1>3. CASE \E c \in Calls :
              (Step(c) \/ AllocationFails(c) \/ Killed(c)) /\ UNCHANGED client
  BY <1>1, <1>3, ProcessHeard DEF EarnedInv, Calls
<1>4. CASE \/ DeviceChanges /\ UNCHANGED client
           \/ Install
           \/ UNCHANGED clientVars
  <2>1. UNCHANGED <<pc, build, stdout, exit, ended, faults>>
    BY <1>4 DEF DeviceChanges, process, client, Install, clientVars, vars
  <2>2. HeardInv'
    BY <2>1 DEF EarnedInv, HeardInv, Heard, Answered, Answer
  <2> QED BY <1>1, <2>2 DEF EarnedInv
<1> QED BY <1>2, <1>3, <1>4 DEF ClientNext

\* An answer with this status and this code becomes one of these exceptions.
LEMMA ExceptionsOfCodes ==
    \A code \in FaultCodes :
        /\ Service!ExceptionFor(code) = "SCLProtocolError" <=> code = kFaultProtocol
        /\ Service!ExceptionFor(code) \in {"SCLValidationError", "SCLComputationError"}
               <=> code \in {kFaultValidation, kFaultComputation}
        /\ Service!ExceptionFor(code) = "SCLBackendUnavailableError"
               <=> code = kFaultBackendUnavailable
        /\ Service!ExceptionFor(code) \notin {"OSError", "SCLTimeoutError", "none"}
BY DEF Service!ExceptionFor, Service!kFaultProtocol, Service!kFaultValidation,
       Service!kFaultBackendUnavailable, Service!kFaultComputation, Service!kFaultInternal

\* No exception of raise_for_result is undeserved: a validation or a computation error is
\* of a request whose backend the binary has, an unavailable backend is cuda's, a sound
\* cpu request is no fault but the machine's, and a protocol error from a process that
\* nothing failed is the request's own.
THEOREM ExceptionsEarned == ClientSpec => []ExceptionsAreEarned
<1>1. ClientSpec => []EarnedInv
  BY EarnedInvInit, CallsInStep, EarnedInvNext, PTL DEF ClientSpec
<1>2. ClientInv /\ EarnedInv => ExceptionsAreEarned
  <2> SUFFICES ASSUME ClientInv, EarnedInv, NEW c \in Calls
      PROVE
        LET q == request[c]
            e == ended[c].exception
        IN  /\ e \in {"SCLValidationError", "SCLComputationError"} =>
                   (q.backend = "cuda" => build[c] \in CudaBuilds)
            /\ e = "SCLBackendUnavailableError" => q.backend = "cuda"
            /\ /\ Runnable(q) /\ q.backend = "cpu" /\ q.payload = "sound" /\ faults = 0
               => e \in {"none", "OSError", "SCLTimeoutError", "SCLProtocolError"}
            /\ e = "SCLProtocolError" /\ faults = 0 /\ build[c] # NoBuild =>
                   ~Runnable(q) \/ QuotesBadBytes(q)
    BY DEF ExceptionsAreEarned
  <2> DEFINE q == request[c]
             o == outcome[c]
             e == ended[c].exception
  <2>0. /\ c \in Processes /\ q \in Requests /\ o \in Outcome /\ ended[c] \in CallEnd
        /\ Heard(c) /\ Told(at[c], ended[c], c) /\ InStep(at[c], pc[c])
        /\ Settled(pc[c], o, q, build[c], stdout[c], exit[c])
        /\ Writable(pc[c], q, o, stdout[c], exit[c])
        /\ Blamed(pc[c], q, o, stdout[c], exit[c])
    BY DEF ClientInv, EarnedInv, HeardInv, CallInv, ClientTypeOK, AnswerInv, WritableInv,
           BlameInv, TypeInv, TypeOK, Calls
  <2>1. q.hex = "bytes" /\ q.envelope = "object"
    BY <2>0, ClientAssumption DEF ClientRequests
  <2>2. CASE ended[c].how # "raised"
    BY <2>0, <2>2 DEF Heard
  <2>3. CASE ended[c].how = "raised" /\ ~Answered(c)
    <3>1. e \in {"SCLProtocolError", "SCLTimeoutError", "OSError"}
      BY <2>0, <2>3 DEF Heard, Service!ChannelErrors
    <3>2. ASSUME e = "SCLProtocolError", faults = 0, build[c] # NoBuild
          PROVE  QuotesBadBytes(q)
      <4>1. pc[c] = "exited" /\ exit[c] # "killed"
        BY <2>0, <2>3, <3>2 DEF Heard, Told, InStep, CallEnd
      <4> QED BY <2>0, <2>1, <2>3, <3>2, <4>1
                 DEF Writable, Answered, Unanswerable, QuotesBadBytes
    <3> QED BY <3>1, <3>2
  <2>4. CASE ended[c].how = "raised" /\ Answered(c) /\ e = "SCLTimeoutError"
    BY <2>4
  <2>5. CASE ended[c].how = "raised" /\ Answered(c) /\ e # "SCLTimeoutError"
    <3>1. /\ Answer(c).status = o.status /\ Answer(c).exit_code = o.exit_code
          /\ Justified(o, q, build[c]) /\ o.status = "halted"
      BY <2>0, <2>5, AnswerIsResponse DEF ClientInv, Heard
    <3>2. o.exit_code \in FaultCodes
      BY <2>0, <3>1 DEF Justified, Outcome
    <3>3. e = Service!ExceptionFor(o.exit_code)
      BY <2>0, <2>5, <3>1 DEF Told
    <3>4. Earned(q, o)
      BY <2>0, <3>1 DEF Blamed
    <3>5. pc[c] = "exited" /\ exit[c] = "ok" /\ Len(stdout[c]) = 1
      BY <2>0, <2>5 DEF Settled, Answered
    <3>6. ASSUME Runnable(q), q.backend = "cpu", q.payload = "sound", faults = 0
          PROVE  FALSE
      <4>1. o = CpuVerdict(q)
        BY <2>0, <3>1, <3>5, <3>6 DEF Blamed
      <4>2. CpuVerdict(q).status = "completed"
        BY <2>1, <3>6 DEF CpuVerdict, StoppedByDecode, ComputeOutcome, completed
      <4> QED BY <3>1, <4>1, <4>2
    <3>7. e = "SCLProtocolError" => ~Runnable(q)
      BY <2>1, <3>2, <3>3, <3>4, ExceptionsOfCodes DEF Earned
    <3>8. e = "SCLBackendUnavailableError" => q.backend = "cuda"
      BY <3>2, <3>3, <3>4, ExceptionsOfCodes DEF Earned
    <3>9. e \in {"SCLValidationError", "SCLComputationError"} =>
              (q.backend = "cuda" => build[c] \in CudaBuilds)
      BY <3>1, <3>2, <3>3, <3>4, ExceptionsOfCodes DEF Earned, Justified
    <3> QED BY <3>6, <3>7, <3>8, <3>9
  <2> QED BY <2>2, <2>3, <2>4, <2>5
<1> QED BY <1>1, <1>2, CallsInStep, PTL

\* Concurrent callers that ask the same of the cpu are answered alike, although their
\* processes were started from binaries that replaced each other.
THEOREM CallersOfCpuAgree == ClientSpec => []CpuAnswersAlike
<1>1. ClientInv /\ EarnedInv => CpuAnswersAlike
  BY OneCpuVerdict DEF ClientInv, EarnedInv
<1> QED BY <1>1, EarnedInvInit, CallsInStep, EarnedInvNext, PTL DEF ClientSpec

-----------------------------------------------------------------------------
(* run_scl_request around scl_cli implements SclService: whatever the process did stage   *)
(* by stage, its caller sees an answer decided at one instant, by one binary, or a        *)
(* channel that failed.                                                                   *)

USE DEF FaultCodes, kFaultNone, kFaultProtocol, kFaultValidation,
        kFaultBackendUnavailable, kFaultComputation, kFaultInternal,
        Service!FaultCodes, Service!kFaultNone, Service!kFaultProtocol,
        Service!kFaultValidation, Service!kFaultBackendUnavailable,
        Service!kFaultComputation, Service!kFaultInternal

-----------------------------------------------------------------------------
(* The service and the process share their vocabulary *)

LEMMA SameAnswers ==
    /\ Service!NoAnswer = NoResponse
    /\ \A code, text : Service!halted(code, text) = halted(code, text)
    /\ \A engine : Service!completed(engine) = completed(engine)
    /\ \A o, backend, b :
          Service!make_response(o, backend, b) = make_response(o, backend, b)
BY DEF Service!NoAnswer, Service!NoResponse, NoResponse, Service!halted, halted,
       Service!completed, completed, Service!make_response, make_response

LEMMA SameConditions ==
    /\ Service!HostOnly = HostOnly
    /\ Service!StoppedByDecode = StoppedByDecode
    /\ \A q : Service!EnvelopeAccepted(q) <=> EnvelopeAccepted(q)
    /\ \A q : Service!Runnable(q) <=> Runnable(q)
    /\ \A q : Service!Engine(q) = Engine(q)
    /\ \A backend, b, up :
          Service!backend_available(backend, b, up) <=> backend_available(backend, b, up)
BY DEF Service!HostOnly, HostOnly, Service!StoppedByDecode, StoppedByDecode,
       Service!EnvelopeAccepted, EnvelopeAccepted, Service!Runnable, Runnable,
       Service!Engine, Engine, Service!backend_available, backend_available,
       Service!Backends, Backends, Service!Operations, Operations, Service!LJ, LJ,
       Service!FFT, FFT, Service!LSQ, LSQ, Service!KF, KF

LEMMA SameVerdicts ==
    \A q : Service!Verdict(q) =
               IF q.payload \in StoppedByDecode THEN DecodeOutcome(q) ELSE ComputeOutcome(q)
<1>1. \A q : Service!DecodeOutcome(q) = DecodeOutcome(q)
  BY SameAnswers DEF Service!DecodeOutcome, DecodeOutcome
<1>2. \A q : Service!ComputeOutcome(q) = ComputeOutcome(q)
  BY SameAnswers, SameConditions DEF Service!ComputeOutcome, ComputeOutcome
<1> QED BY <1>1, <1>2, SameConditions DEF Service!Verdict

-----------------------------------------------------------------------------
(* What has been decided, as a function of the process *)

Withheld(o, text) ==
    \/ o.detail = "illFormed"
    \/ o.status = "none"
    \/ \E i \in 1..Len(text) : text[i].status = "fragment"

Decided(c) == IF Withheld(outcome[c], stdout[c]) THEN NoResponse ELSE Response(c)

LEMMA ServiceInit == ClientInit => Service!Init
<1> SUFFICES ASSUME ClientInit PROVE Service!Init
  OBVIOUS
<1>1. \A c \in Calls : outcome[c].status = "none"
  BY NoneIsSettled DEF ClientInit, Init, Calls
<1> QED BY <1>1, SameAnswers DEF ClientInit, Init, Service!Init, Calls

\* The surroundings of the service: what a process does before it settles on an answer,
\* or once it has, is none of its caller's business.
LEMMA Unnoticed ==
    ASSUME UNCHANGED <<request, ended>>, \A c \in Calls : Decided(c)' = Decided(c),
           deviceUp' \in BOOLEAN, faults' \in {faults, faults + 1}
    PROVE  Service!Surroundings
BY DEF Service!Surroundings, Decided, Withheld

\* A process settles on an answer that it can write.
LEMMA Settles ==
    ASSUME ClientInv, NEW c \in Calls, pc[c] \in Stages \ {"report"},
           NEW o \in Service!PlainOutcomes, NEW stage, Conclude(c, o, stage), UNCHANGED client,
           outcome[c].status = "none" \/ outcome[c].detail = "illFormed", UNCHANGED deviceUp, faults' \in {faults, faults + 1},
           Service!MayAnswer(request[c], build[c], o, deviceUp, faults' > faults)
    PROVE  Service!Decide(c)
<1>1. ended[c] = Service!Open
  BY DEF ClientInv, CallInv, ClientTypeOK, InStep, Told, Places, Stages
<1>2. Decided(c) = NoResponse
  BY DEF Decided, Withheld
<1>3. Len(stdout[c]) = 0 /\ build[c] \in Builds
  BY DEF ClientInv, TypeInv, TypeOK, StageInv, Established, AnswerInv, Settled, Calls, Stages
<1>4. o.status # "none" /\ o.detail # "illFormed"
  BY SameAnswers DEF Service!PlainOutcomes, Service!halted, Service!completed
<1>5. /\ outcome'[c] = o /\ UNCHANGED <<request, build, stdout, ended>>
      /\ \A r \in Calls \ {c} : outcome'[r] = outcome[r]
  BY DEF Conclude, client, ClientInv, TypeInv, TypeOK, Calls
<1>6. Decided(c)' = make_response(o, EchoedBackend(request[c]), build[c])
  BY <1>3, <1>4, <1>5 DEF Decided, Withheld, Response, EchoedBackend
<1>7. \A r \in Calls \ {c} : Decided(r)' = Decided(r)
  BY <1>5 DEF Decided, Withheld, Response, EchoedBackend
<1>8. [r \in Calls |-> Decided(r)]'
          = [[r \in Calls |-> Decided(r)] EXCEPT ![c] =
                Service!make_response(o, IF Service!EnvelopeAccepted(request[c])
                                         THEN request[c].backend ELSE "unknown", build[c])]
  BY <1>6, <1>7, SameAnswers, SameConditions DEF EchoedBackend
<1>9. UNCHANGED <<request, ended, deviceUp>>
  BY <1>5
<1> QED BY <1>1, <1>2, <1>3, <1>8, <1>9, SameAnswers DEF Service!Decide, Decided, Withheld

-----------------------------------------------------------------------------
(* The steps of a process *)

LEMMA Quiet ==
    ASSUME UNCHANGED <<request, build, outcome, stdout, ended>>,
           deviceUp' \in BOOLEAN, faults' \in {faults, faults + 1}
    PROVE  Service!Surroundings
<1>1. \A c \in Calls : Decided(c)' = Decided(c)
  BY DEF Decided, Withheld, Response
<1> QED BY <1>1, Unnoticed

\* It settles on an answer that JSON cannot carry: nobody will see that one.
LEMMA SettlesInVain ==
    ASSUME ClientInv, NEW c \in Calls, NEW o, NEW stage, o.detail = "illFormed",
           Conclude(c, o, stage), UNCHANGED client, outcome[c].status = "none",
           UNCHANGED <<deviceUp, faults>>
    PROVE  Service!Surroundings
<1>1. /\ outcome'[c] = o /\ UNCHANGED <<request, build, stdout, ended>>
      /\ \A r \in Calls \ {c} : outcome'[r] = outcome[r]
  BY DEF Conclude, client, ClientInv, TypeInv, TypeOK, Calls
<1>2. \A r \in Calls : Decided(r)' = Decided(r)
  BY <1>1 DEF Decided, Withheld, Response
<1>3. deviceUp' \in BOOLEAN
  BY DEF ClientInv, TypeInv, TypeOK
<1> QED BY <1>1, <1>2, <1>3, Unnoticed

\* It writes what it has settled on, after the remains of a failed write or alone.
LEMMA Writes ==
    ASSUME ClientInv, NEW c \in Calls, pc[c] \in {"answer", "report"},
           outcome[c].detail # "illFormed", Exit(c, "ok"), Write(c, Response(c)),
           UNCHANGED client, UNCHANGED <<deviceUp, faults>>
    PROVE  Service!Surroundings
<1>1. /\ stdout[c] \in Seq(Written) /\ outcome[c] \in Outcome /\ outcome[c].status # "none"
      /\ request[c] \in Requests /\ build[c] \in Builds /\ deviceUp \in BOOLEAN
  BY DEF ClientInv, TypeInv, TypeOK, StageInv, Established, Calls
<1>2. /\ UNCHANGED <<request, build, outcome, ended>>
      /\ stdout'[c] = Append(stdout[c], Response(c))
      /\ \A r \in Calls \ {c} : stdout'[r] = stdout[r]
  BY DEF Exit, Write, client, ClientInv, TypeInv, TypeOK, Calls
<1>3. Response(c) \in Written /\ Response(c).status # "fragment"
  BY <1>1, ResponseIsWritten DEF Response, make_response, Outcome
<1>4. Withheld(outcome[c], stdout'[c]) <=> Withheld(outcome[c], stdout[c])
  <2>1. /\ Len(stdout[c]) \in Nat
        /\ Len(stdout'[c]) = Len(stdout[c]) + 1
        /\ stdout'[c][Len(stdout[c]) + 1] = Response(c)
    BY <1>1, <1>2, <1>3, Writing
  <2>2. \A i \in 1..Len(stdout[c]) : stdout'[c][i] = stdout[c][i]
    BY <1>1, <1>2, <1>3, AppendProperties
  <2>3. (\E i \in 1..Len(stdout'[c]) : stdout'[c][i].status = "fragment")
            <=> (\E i \in 1..Len(stdout[c]) : stdout[c][i].status = "fragment")
    <3>1. ASSUME NEW i \in 1..Len(stdout'[c])
          PROVE  i \in 1..Len(stdout[c]) \/ i = Len(stdout[c]) + 1
      BY <2>1
    <3>2. 1..Len(stdout[c]) \subseteq 1..Len(stdout'[c])
      BY <2>1
    <3> QED BY <1>3, <2>1, <2>2, <3>1, <3>2
  <2> QED BY <2>3 DEF Withheld
<1>5. \A r \in Calls : Decided(r)' = Decided(r)
  BY <1>2, <1>4 DEF Decided, Withheld, Response
<1> QED BY <1>1, <1>2, <1>5, Unnoticed

\* It fails to write it: what it settles on instead comes after a fragment.
LEMMA WritesInVain ==
    ASSUME ClientInv, NEW c \in Calls, pc[c] \in {"answer", "report"},
           outcome[c].detail = "illFormed", Write(c, Fragment),
           \/ UNCHANGED outcome
           \/ \E o : outcome' = [outcome EXCEPT ![c] = o],
           UNCHANGED <<request, build>>, UNCHANGED client, UNCHANGED <<deviceUp, faults>>
    PROVE  Service!Surroundings
<1>1. stdout[c] \in Seq(Written) /\ deviceUp \in BOOLEAN
  BY DEF ClientInv, TypeInv, TypeOK, Calls
<1>2. /\ UNCHANGED ended
      /\ stdout'[c] = Append(stdout[c], Fragment)
      /\ \A r \in Calls \ {c} : stdout'[r] = stdout[r] /\ outcome'[r] = outcome[r]
  BY DEF Write, client, ClientInv, TypeInv, TypeOK, Calls
<1>3. \E i \in 1..Len(stdout'[c]) : stdout'[c][i].status = "fragment"
  <2>1. /\ Len(stdout[c]) \in Nat
        /\ Len(stdout'[c]) = Len(stdout[c]) + 1
        /\ stdout'[c][Len(stdout[c]) + 1] = Fragment
    BY <1>1, <1>2, Writing, FragmentIsWritten
  <2> QED BY <2>1 DEF Fragment, NoResponse
<1>4. Decided(c)' = NoResponse /\ Decided(c) = NoResponse
  BY <1>3 DEF Decided, Withheld
<1>5. \A r \in Calls : Decided(r)' = Decided(r)
  BY <1>2, <1>4 DEF Decided, Withheld, Response
<1> QED BY <1>1, <1>2, <1>5, Unnoticed

LEMMA PlainFaults ==
    \A code \in FaultCodes : halted(code, "plain") \in Service!PlainOutcomes
BY SameAnswers DEF Service!PlainOutcomes

\* What the operation answers is what the service decides by the request alone, or it is
\* the one answer that cannot be written.
LEMMA VerdictIsPlain ==
    ASSUME NEW q \in Requests, EnvelopeAccepted(q)
    PROVE  /\ DecodeOutcome(q) \in Service!PlainOutcomes
           /\ \/ ComputeOutcome(q) \in Service!PlainOutcomes
              \/ ComputeOutcome(q).detail = "illFormed"
<1>1. DecodeOutcome(q) \in Service!PlainOutcomes
  BY PlainFaults DEF DecodeOutcome
<1>2. Engine(q) \in Service!Backends
  BY RequestShape DEF Engine, EnvelopeAccepted, Service!Backends, Backends
<1>3. completed(Engine(q)) \in Service!PlainOutcomes
  BY <1>2, SameAnswers DEF Service!PlainOutcomes
<1>4. halted(kFaultValidation, "illFormed").detail = "illFormed"
  BY HaltedIsOutcome
<1>5. ComputeOutcome(q) \in Service!PlainOutcomes \/ ComputeOutcome(q).detail = "illFormed"
  BY <1>3, <1>4, PlainFaults DEF ComputeOutcome
<1> QED BY <1>1, <1>5

\* Every step of a process is a decision of the service, or is not noticed.
LEMMA StepImplements ==
    ASSUME ClientInv, NEW c \in Calls, Step(c), UNCHANGED client
    PROVE  Service!Decide(c) \/ Service!Surroundings
<1> DEFINE q == request[c]
<1>0. /\ q \in Requests /\ q \in ClientRequests
      /\ Established(pc[c], q, build[c], outcome[c])
      /\ deviceUp \in BOOLEAN /\ faults \in Nat
      /\ UNCHANGED ended
  BY ClientAssumption, CliAssumption
     DEF ClientInv, TypeInv, TypeOK, StageInv, Calls, client
<1>00. pc[c] \in Stages \ {"answer", "report"} => outcome[c].status = "none"
  BY <1>0, NoneIsSettled DEF Established
<1>01. ASSUME NEW stage, Goto(c, stage), Undisturbed PROVE Service!Surroundings
  BY <1>0, <1>01, Quiet DEF Goto, Undisturbed
<1>02. ASSUME pc[c] \in Stages \ {"answer", "report"}, NEW code \in FaultCodes, NEW stage,
              Conclude(c, halted(code, "plain"), stage), Undisturbed,
              Service!MayAnswer(q, build[c], halted(code, "plain"), deviceUp, faults' > faults)
       PROVE  Service!Decide(c)
  BY <1>0, <1>00, <1>02, PlainFaults, Settles DEF Undisturbed
<1> USE DEF Return, Report
<1>1. CASE ReadEnvelope(c)
  <2>1. q.envelope = "object"
    BY <1>0 DEF ClientRequests
  <2>2. ~EnvelopeAccepted(q) =>
            Service!MayAnswer(q, build[c], halted(kFaultProtocol, "plain"), deviceUp,
                              faults' > faults)
    BY SameAnswers, SameConditions DEF Service!MayAnswer, Runnable
  <2> QED BY <1>1, <1>01, <1>02, <2>1, <2>2 DEF ReadEnvelope, Stages
<1>2. CASE SelectOperation(c)
  <2>1. q.operation \notin Operations =>
            Service!MayAnswer(q, build[c], halted(kFaultProtocol, "plain"), deviceUp,
                              faults' > faults)
    BY SameAnswers, SameConditions DEF Service!MayAnswer, Runnable
  <2> QED BY <1>2, <1>01, <1>02, <2>1 DEF SelectOperation, Stages
<1>3. CASE ProbeBackend(c) \/ ProbeAgain(c)
  <2>1. Runnable(q)
    BY <1>0, <1>3 DEF ProbeBackend, ProbeAgain, Established, Selected, Runnable
  <2>2. ~backend_available(q.backend, build[c], deviceUp) =>
            Service!MayAnswer(q, build[c], halted(kFaultBackendUnavailable, "plain"), deviceUp,
                              faults' > faults)
    BY <2>1, SameAnswers, SameConditions DEF Service!MayAnswer
  <2> QED BY <1>3, <1>01, <1>02, <2>2 DEF ProbeBackend, ProbeAgain, Stages
<1>4. CASE DecodeHex(c)
  <2>1. q.hex = "bytes"
    BY <1>0 DEF ClientRequests
  <2> QED BY <1>4, <1>01, <2>1 DEF DecodeHex
<1>5. CASE DecodePayload(c)
  <2>1. /\ Runnable(q) /\ EnvelopeAccepted(q)
        /\ q.backend = "cuda" => build[c] \in CudaBuilds
    BY <1>0, <1>5 DEF DecodePayload, Established, Probed, Selected, Runnable
  <2>2. CASE q.payload \in StoppedByDecode
    <3>1. Service!MayAnswer(q, build[c], DecodeOutcome(q), deviceUp, faults' > faults)
      <4>1. DecodeOutcome(q).output # "cuda"
        BY <1>0, DecodeIsOutcome
      <4> QED BY <2>1, <2>2, <4>1, SameConditions, SameVerdicts DEF Service!MayAnswer
    <3>2. DecodeOutcome(q) \in Service!PlainOutcomes
      BY <1>0, <2>1, VerdictIsPlain
    <3>3. /\ pc[c] \in Stages \ {"answer", "report"}
          /\ Conclude(c, DecodeOutcome(q), "answer")
          /\ UNCHANGED <<deviceUp, faults>>
      BY <1>5, <2>2 DEF DecodePayload, Undisturbed, Stages
    <3> QED BY <1>0, <1>00, <3>1, <3>2, <3>3, Settles
  <2>3. CASE q.payload \notin StoppedByDecode
    BY <1>5, <1>01, <2>3 DEF DecodePayload
  <2> QED BY <2>2, <2>3
<1>6. CASE Compute(c)
  <2>1. /\ Runnable(q) /\ EnvelopeAccepted(q) /\ q.payload \notin StoppedByDecode
        /\ q.backend = "cuda" => build[c] \in CudaBuilds
    BY <1>0, <1>6 DEF Compute, Established, Probed, Selected, Runnable
  <2>2. /\ pc[c] \in Stages \ {"answer", "report"}
        /\ Conclude(c, ComputeOutcome(q), "answer")
        /\ UNCHANGED <<deviceUp, faults>>
        /\ Engine(q) = "cuda" => deviceUp
    BY <1>6 DEF Compute, Undisturbed, Stages
  <2>3. CASE ComputeOutcome(q) \in Service!PlainOutcomes
    <3>1. ComputeOutcome(q).output = "cuda" => Engine(q) = "cuda"
      <4>1. Engine(q) \in Backends
        BY <1>0, <2>1, EngineIsBackend
      <4> QED BY <1>0, <2>1, <4>1, ComputeIsOutcome, CompletedIsOutcome DEF Outcome
    <3>2. Service!MayAnswer(q, build[c], ComputeOutcome(q), deviceUp, faults' > faults)
      BY <2>1, <2>2, <3>1, SameConditions, SameVerdicts DEF Service!MayAnswer
    <3> QED BY <1>0, <1>00, <2>2, <2>3, <3>2, Settles
  <2>4. CASE ComputeOutcome(q).detail = "illFormed"
    BY <1>00, <2>2, <2>4, SettlesInVain
  <2> QED BY <1>0, <2>1, <2>3, <2>4, VerdictIsPlain
<1>7. CASE DeviceFault(c)
  <2>1. /\ Runnable(q)
        /\ q.backend = "cuda" => build[c] \in CudaBuilds
    BY <1>0, <1>7 DEF DeviceFault, Established, Probed, Selected, Runnable
  <2>2. /\ pc[c] \in Stages \ {"answer", "report"} /\ Engine(q) = "cuda"
        /\ Conclude(c, halted(kFaultInternal, "plain"), "report")
        /\ UNCHANGED deviceUp /\ faults' \in {faults, faults + 1}
    BY <1>7 DEF DeviceFault, Stages
  <2>3. Service!MayAnswer(q, build[c], halted(kFaultInternal, "plain"), deviceUp,
                          faults' > faults)
    BY <2>1, <2>2, SameAnswers, SameConditions DEF Service!MayAnswer
  <2> QED BY <1>0, <1>00, <2>2, <2>3, PlainFaults, Settles
<1>8. CASE WriteAnswer(c)
  <2>1. CASE outcome[c].detail # "illFormed"
    BY <1>8, <2>1, Writes DEF WriteAnswer, Undisturbed
  <2>2. CASE outcome[c].detail = "illFormed"
    BY <1>8, <2>2, WritesInVain DEF WriteAnswer, Undisturbed
  <2> QED BY <2>1, <2>2
<1>9. CASE WriteReport(c)
  <2>1. CASE outcome[c].detail # "illFormed"
    BY <1>9, <2>1, Writes DEF WriteReport, Undisturbed
  <2>2. CASE outcome[c].detail = "illFormed"
    BY <1>9, <2>2, WritesInVain DEF WriteReport, Undisturbed, Exit
  <2> QED BY <2>1, <2>2
<1> QED BY <1>1, <1>2, <1>3, <1>4, <1>5, <1>6, <1>7, <1>8, <1>9 DEF Step

\* A process replaces the answer it was to give by an internal fault.
LEMMA Spoils ==
    ASSUME ClientInv, NEW c \in Calls, pc[c] = "answer", outcome[c].detail # "illFormed",
           Conclude(c, halted(kFaultInternal, "plain"), "report"), UNCHANGED client,
           UNCHANGED deviceUp, faults' = faults + 1
    PROVE  Service!Spoil(c)
<1> DEFINE o == halted(kFaultInternal, "plain")
<1>0. /\ Established(pc[c], request[c], build[c], outcome[c])
      /\ Settled(pc[c], outcome[c], request[c], build[c], stdout[c], exit[c])
      /\ outcome[c] \in Outcome
  BY DEF ClientInv, TypeInv, TypeOK, StageInv, AnswerInv, Calls
<1>1. ended[c] = Service!Open
  BY DEF ClientInv, CallInv, ClientTypeOK, InStep, Told, Places
<1>2. Runnable(request[c])
  BY <1>0 DEF Established, Selected, Runnable
<1>3. Len(stdout[c]) = 0 /\ outcome[c].status # "none"
  BY <1>0 DEF Established, Settled
<1>4. Decided(c) = Response(c) /\ Decided(c).status # "none"
  BY <1>3 DEF Decided, Withheld, Response, make_response
<1>5. o.status # "none" /\ o.detail # "illFormed"
  BY HaltedIsOutcome
<1>6. /\ outcome'[c] = o /\ UNCHANGED <<request, build, stdout, ended>>
      /\ \A r \in Calls \ {c} : outcome'[r] = outcome[r]
  BY DEF Conclude, client, ClientInv, TypeInv, TypeOK, Calls
<1>7. Decided(c)' = Service!Spoilt(Decided(c))
  <2>1. Decided(c)' = make_response(o, EchoedBackend(request[c]), build[c])
    BY <1>3, <1>5, <1>6 DEF Decided, Withheld, Response
  <2>2. make_response(o, EchoedBackend(request[c]), build[c]) = Service!Spoilt(Response(c))
    <3>1. /\ o.status = "halted" /\ o.exit_code = 14 /\ o.output = "none"
          /\ o.detail = "plain"
      BY HaltedIsOutcome
    <3> HIDE DEF o
    <3> QED BY <3>1 DEF make_response, Response, Service!Spoilt, Service!kFaultInternal
  <2> QED BY <1>4, <2>1, <2>2
<1>8. \A r \in Calls \ {c} : Decided(r)' = Decided(r)
  BY <1>6 DEF Decided, Withheld, Response
<1>9. [r \in Calls |-> Decided(r)]'
          = [[r \in Calls |-> Decided(r)] EXCEPT ![c] = Service!Spoilt(Decided(c))]
  BY <1>7, <1>8
<1>10. Decided(c) # NoResponse
  BY <1>4 DEF NoResponse
<1> QED BY <1>1, <1>2, <1>6, <1>9, <1>10, SameAnswers, SameConditions
           DEF Service!Spoil, Service!NoAnswer, Decided, Withheld, Runnable

\* So is a failure of memory or of the process, or it spoils an answer.
LEMMA FailureImplements ==
    ASSUME ClientInv, NEW c \in Calls, AllocationFails(c) \/ Killed(c), UNCHANGED client
    PROVE  Service!Decide(c) \/ Service!Spoil(c) \/ Service!Surroundings
<1> DEFINE q == request[c]
<1>0. /\ Established(pc[c], q, build[c], outcome[c])
      /\ deviceUp' \in BOOLEAN /\ UNCHANGED deviceUp
      /\ faults' \in {faults, faults + 1} /\ faults' = faults + 1 /\ faults' > faults
      /\ UNCHANGED ended
  BY CliAssumption
     DEF ClientInv, TypeInv, TypeOK, StageInv, Calls, client, AllocationFails, Killed
<1>1. CASE \E how \in {"catastrophic", "killed"} : Exit(c, how) /\ UNCHANGED stdout
  BY <1>0, <1>1, Quiet DEF Exit
<1>2. ASSUME pc[c] \in FaultStages, NEW stage, NEW code \in FaultCodes,
             pc[c] = "answer" => outcome[c].detail = "illFormed",
             Conclude(c, halted(code, "plain"), stage),
             \/ code = kFaultInternal
             \/ code = kFaultComputation /\ q.operation \in HostOnly
      PROVE  Service!Decide(c)
  <2>1. /\ Runnable(q)
        /\ q.backend = "cuda" => build[c] \in CudaBuilds
        /\ outcome[c].status = "none" \/ outcome[c].detail = "illFormed"
    BY <1>0, <1>2, NoneIsSettled
       DEF FaultStages, Established, Probed, Selected, Runnable, Stages
  <2>2. Service!MayAnswer(q, build[c], halted(code, "plain"), deviceUp, faults' > faults)
    BY <1>0, <1>2, <2>1, SameAnswers, SameConditions DEF Service!MayAnswer
  <2> QED BY <1>0, <1>2, <2>1, <2>2, PlainFaults, Settles DEF FaultStages, Stages
<1>3. CASE pc[c] = "answer" /\ outcome[c].detail # "illFormed" /\ AllocationFails(c)
  <2>1. \/ Conclude(c, halted(kFaultInternal, "plain"), "report")
        \/ \E how \in {"catastrophic", "killed"} : Exit(c, how) /\ UNCHANGED stdout
    BY <1>3, AllocationFailsSomewhere DEF FaultStages, Calls
  <2> QED BY <1>0, <1>1, <1>3, <2>1, Spoils
<1>4. CASE AllocationFails(c) /\ (pc[c] = "answer" => outcome[c].detail = "illFormed")
  BY <1>1, <1>2, <1>4, AllocationFailsSomewhere DEF Calls
<1> QED BY <1>1, <1>3, <1>4 DEF Killed

-----------------------------------------------------------------------------
(* The steps of the client *)

\* A call ends as a failed channel.
LEMMA FailsAsChannel ==
    ASSUME ClientInv, NEW c \in Calls, at[c] # "ended", NEW e \in Service!ChannelErrors,
           ended' = [ended EXCEPT ![c] = Service!Raised(e)],
           UNCHANGED <<request, build, outcome, stdout, deviceUp, faults>>
    PROVE  Service!FailChannel(c)
<1>1. ended[c] = Service!Open
  BY DEF ClientInv, CallInv, ClientTypeOK, Told
<1>2. \A r \in Calls : Decided(r)' = Decided(r)
  BY DEF Decided, Withheld, Response
<1>3. [r \in Calls |-> Decided(r)]' = [r \in Calls |-> Decided(r)]
  BY <1>2
<1> QED BY <1>1, <1>3 DEF Service!FailChannel, Decided, Withheld

LEMMA CollectImplements ==
    ASSUME ClientInv, NEW c \in Calls, Collect(c)
    PROVE  Service!Return(c) \/ Service!FailChannel(c)
<1>1. at[c] = "waiting" /\ ended[c] = Service!Open
  BY DEF Collect, ClientInv, CallInv, ClientTypeOK, Told
<1>2. UNCHANGED <<request, build, outcome, stdout, deviceUp, faults>>
  BY DEF Collect, vars
<1>3. CASE Answered(c)
  <2>1. /\ Answer(c).status \in {"completed", "halted"}
        /\ Answer(c).status = "completed" => Answer(c).output_hex # "none"
        /\ SCLResult(Answer(c)) = Answer(c)
    BY <1>3, ResultIsAnswer DEF ClientInv
  <2>2. ended' = [ended EXCEPT ![c] = Service!Returned(Answer(c))]
    BY <1>3, <2>1 DEF Collect, Unreadable, Answered, Answer, End
  <2>3. /\ Answer(c) = Response(c)
        /\ Answer(c).status = outcome[c].status
        /\ outcome[c].status # "none"
        /\ outcome[c].detail # "illFormed"
    <3>1. /\ Settled(pc[c], outcome[c], request[c], build[c], stdout[c], exit[c])
          /\ exit[c] = "ok" /\ Len(stdout[c]) = 1
      BY <1>3 DEF ClientInv, AnswerInv, Answered, Calls
    <3>2. /\ Answer(c) = Response(c)
          /\ outcome[c].status # "none" /\ outcome[c].detail # "illFormed"
      BY <3>1 DEF Settled, Answer, Response
    <3> QED BY <3>2 DEF Response, make_response
  <2>4. ~Withheld(outcome[c], stdout[c])
    BY <1>3, <2>1, <2>3 DEF Withheld, Answered, Answer
  <2>5. Decided(c) = Answer(c) /\ Decided(c) # NoResponse
    BY <2>1, <2>3, <2>4 DEF Decided, NoResponse
  <2>6. \A r \in Calls : Decided(r)' = Decided(r)
    BY <1>2 DEF Decided, Withheld, Response
  <2>7. [r \in Calls |-> Decided(r)]' = [r \in Calls |-> Decided(r)]
    BY <2>6
  <2> QED BY <1>1, <1>2, <2>2, <2>5, <2>7, SameAnswers
             DEF Service!Return, Decided, Withheld
<1>4. CASE ~Answered(c)
  <2>1. exit[c] # "ok" \/ Unreadable(c)
    BY <1>4 DEF Answered, Unreadable
  <2>2. ended' = [ended EXCEPT ![c] = Service!Raised("SCLProtocolError")]
    BY <2>1 DEF Collect, End
  <2>3. "SCLProtocolError" \in Service!ChannelErrors
    BY DEF Service!ChannelErrors
  <2> QED BY <1>1, <1>2, <2>2, <2>3, FailsAsChannel
<1> QED BY <1>3, <1>4

LEMMA CallImplements ==
    ASSUME ClientInv, NEW c \in Calls, ClientStep(c) \/ RaiseForResult(c)
    PROVE  Service!Next
<1>0. /\ deviceUp \in BOOLEAN /\ faults \in Nat
      /\ {"OSError", "SCLTimeoutError", "SCLProtocolError"} = Service!ChannelErrors
  BY CliAssumption DEF ClientInv, TypeInv, TypeOK, Service!ChannelErrors
<1>1. CASE Locate(c)
  <2>1. UNCHANGED <<request, build, outcome, stdout, deviceUp, faults>> /\ at[c] = "calling"
    BY <1>1 DEF Locate, vars
  <2>2. \/ ended' = [ended EXCEPT ![c] = Service!Raised("SCLProtocolError")]
        \/ UNCHANGED ended
    BY <1>1 DEF Locate, End, Proceed
  <2>3. Service!FailChannel(c) \/ Service!Surroundings
    BY <1>0, <2>1, <2>2, FailsAsChannel, Quiet
  <2> QED BY <2>3 DEF Service!Next
<1>2. CASE Spawn(c)
  <2>1. at[c] = "located" /\ UNCHANGED <<request, outcome, stdout, deviceUp, faults>>
    BY <1>2 DEF Spawn, Start, process, Undisturbed
  <2>2. CASE installed = NoBuild
    <3>1. /\ ended' = [ended EXCEPT ![c] = Service!Raised("OSError")]
          /\ UNCHANGED build
      BY <1>2, <2>2 DEF Spawn, End, process
    <3>2. Service!FailChannel(c)
      BY <1>0, <2>1, <3>1, FailsAsChannel
    <3> QED BY <3>2 DEF Service!Next
  <2>3. CASE installed # NoBuild
    <3>1. /\ UNCHANGED ended /\ pc[c] = "unstarted"
          /\ \A r \in Calls \ {c} : build'[r] = build[r]
      BY <1>2, <2>3 DEF Spawn, Proceed, Start, ClientInv, TypeInv, TypeOK, Calls
    <3>2. outcome[c].status = "none"
      BY <3>1, NoneIsSettled DEF ClientInv, TypeInv, StageInv, Established, Calls
    <3>3. \A r \in Calls : Decided(r)' = Decided(r)
      BY <2>1, <3>1, <3>2 DEF Decided, Withheld, Response
    <3>4. Service!Surroundings
      BY <1>0, <2>1, <3>1, <3>3, Unnoticed
    <3> QED BY <3>4 DEF Service!Next
  <2> QED BY <2>2, <2>3
<1>3. CASE Collect(c)
  BY <1>3, CollectImplements DEF Service!Next
<1>4. CASE Deadline(c)
  <2>1. Service!Surroundings
    BY <1>0, <1>4, Quiet DEF Deadline, Proceed, vars
  <2> QED BY <2>1 DEF Service!Next
<1>5. CASE Reap(c)
  <2>1. /\ UNCHANGED <<request, build, outcome, stdout, deviceUp, faults>> /\ at[c] = "killing"
        /\ ended' = [ended EXCEPT ![c] = Service!Raised("SCLTimeoutError")]
    BY <1>5 DEF Reap, Exit, End, process, Undisturbed
  <2>2. Service!FailChannel(c)
    BY <1>0, <2>1, FailsAsChannel
  <2> QED BY <2>2 DEF Service!Next
<1>6. CASE RaiseForResult(c)
  <2>1. UNCHANGED <<request, build, outcome, stdout, deviceUp, faults>>
    BY <1>6 DEF RaiseForResult, vars
  <2>2. \A r \in Calls : Decided(r)' = Decided(r)
    BY <2>1 DEF Decided, Withheld, Response
  <2>3. [r \in Calls |-> Decided(r)]' = [r \in Calls |-> Decided(r)]
    BY <2>2
  <2>4. Service!RaiseForResult(c)
    BY <1>6, <2>1, <2>3 DEF RaiseForResult, Service!RaiseForResult, Decided, Withheld
  <2> QED BY <2>4 DEF Service!Next
<1> QED BY <1>1, <1>2, <1>3, <1>4, <1>5, <1>6 DEF ClientStep

LEMMA NextImplements == ClientInv /\ [ClientNext]_clientVars => [Service!Next]_Service!vars
<1> SUFFICES ASSUME ClientInv, [ClientNext]_clientVars PROVE [Service!Next]_Service!vars
  OBVIOUS
<1>0. deviceUp \in BOOLEAN /\ faults \in Nat
  BY CliAssumption DEF ClientInv, TypeInv, TypeOK
<1>1. ASSUME NEW c \in Calls, ClientStep(c) \/ RaiseForResult(c) PROVE Service!Next
  BY <1>1, CallImplements
<1>2. ASSUME NEW c \in Calls, Step(c) \/ AllocationFails(c) \/ Killed(c), UNCHANGED client
      PROVE  Service!Next
  BY <1>2, StepImplements, FailureImplements DEF Service!Next
<1>3. CASE \/ DeviceChanges /\ UNCHANGED client
           \/ Install
           \/ UNCHANGED clientVars
  <2>1. /\ UNCHANGED <<request, build, outcome, stdout, ended>>
        /\ deviceUp' \in BOOLEAN /\ faults' \in {faults, faults + 1}
    BY <1>0, <1>3 DEF DeviceChanges, process, client, Install, clientVars, vars
  <2>2. Service!Surroundings
    BY <2>1, Quiet
  <2> QED BY <2>2 DEF Service!Next
<1> QED BY <1>1, <1>2, <1>3 DEF ClientNext

\* The calls of the client implement the service: nothing a caller is told depends on the
\* stages of a process, on when the device was asked for, or on which build is installed
\* later, beyond one decision by one build at one instant, which a later failure can make
\* an internal fault and nothing else.
THEOREM ClientImplementsService == ClientSpec => ServiceSafeSpec
BY ServiceInit, CallsInStep, NextImplements, PTL DEF ClientSpec, ServiceSafeSpec, Service!SafeSpec

-----------------------------------------------------------------------------
(* The adapter: what a method block and a result say of the process that ran, with or
   without a specification *)

SpecState == {"none", "located", "built", "failed", "foreign", "direct"}

ExecutionResult ==
    [how       : {"none", "running", "completed", "halted", "raised"},
     exception : Exceptions \cup {"EngineProtocolError", "TimeoutExpired"},
     exit_code : FaultCodes \cup {kFaultNone},
     output    : Backends \cup {"none"}]

SteTypeOK ==
    /\ spec \in [Calls -> [state : SpecState, version : Versions \cup {"none"}]]
    /\ result \in [Calls -> ExecutionResult]
    /\ content \in [Calls -> [kernel_version : Versions \cup {"none"},
                              backend        : Backends \cup {"other", "none"}]]
    /\ same \in [Calls -> BOOLEAN]

\* How far the specification, the call and the result of one caller have come.
Ordered(c) ==
    /\ spec[c].state \in {"none", "located", "failed", "foreign"} => at[c] = "calling"
    /\ spec[c].state \in {"none", "located", "direct"} => result[c].how = "none"
    /\ spec[c].state = "built" /\ result[c].how = "none" => at[c] = "calling"
    /\ result[c].how \in {"running", "completed", "halted"} => spec[c].state = "built"
    /\ result[c].how \in {"completed", "halted"} => at[c] = "ended"

\* What the result repeats of how the call ended.
Repeated(c) ==
    /\ result[c].how \in {"completed", "halted"} =>
           /\ Answered(c)
           /\ result[c].how = Answer(c).status
           /\ result[c].exit_code = Answer(c).exit_code
           /\ result[c].output = Answer(c).output_hex
    /\ spec[c].state = "built" /\ result[c].how = "raised" => ended[c].how = "raised"
    /\ spec[c].state # "direct" /\ ended[c].how = "raised" /\ Answered(c) =>
           ended[c].exception = "SCLTimeoutError"
    /\ content[c] # NoContent =>
           /\ result[c].how = "completed"
           /\ request[c].operation \in {LJ, FFT}
           /\ content[c].kernel_version = spec[c].version
           /\ content[c].backend = request[c].backend

\* Which build the version line is of, as long as nobody has touched the binary.
Dated(c) ==
    same[c] =>
        /\ spec[c].state = "built"
        /\ at[c] \in {"calling", "located"} =>
               installed \in Builds /\ spec[c].version = kVersionString[installed]
        /\ at[c] \in {"waiting", "killing"} => spec[c].version = kVersionString[build[c]]
        /\ at[c] = "ended" /\ pc[c] = "exited" => spec[c].version = kVersionString[build[c]]

AdapterInv == \A c \in Calls : Ordered(c) /\ Repeated(c) /\ Dated(c)

SteInv == ClientInv /\ SteTypeOK /\ AdapterInv

LEMMA SteInvInit == SteInit => SteInv
<1> SUFFICES ASSUME SteInit PROVE SteInv
  OBVIOUS
<1>1. ClientInv
  BY ClientInvInit DEF SteInit
<1>2. SteTypeOK
  BY DEF SteInit, SteTypeOK, NoSpec, NotRun, NoContent, SpecState, Exceptions, ExecutionResult
<1>3. AdapterInv
  BY DEF SteInit, ClientInit, AdapterInv, Ordered, Repeated, Dated, NoSpec, NotRun, NoContent,
         Service!Open
<1> QED BY <1>1, <1>2, <1>3 DEF SteInv

-----------------------------------------------------------------------------
(* The client beneath the adapter keeps its invariant *)

LEMMA FaultsClientInv ==
    ASSUME ClientInv, UNCHANGED <<process, deviceUp, client>>, faults' \in 0..MaxFaults
    PROVE  ClientInv'
<1>1. TypeInv' /\ AnswerInv'
  BY DEF ClientInv, process, TypeInv, TypeOK, StageInv, AnswerInv
<1>2. ClientTypeOK' /\ CallInv'
  BY DEF ClientInv, process, client, ClientTypeOK, CallInv, Told, Answered, Answer
<1> QED BY <1>1, <1>2 DEF ClientInv

LEMMA SteClientInv == ClientInv /\ [SteNext]_steVars => ClientInv'
<1> SUFFICES ASSUME ClientInv, [SteNext]_steVars PROVE ClientInv'
  OBVIOUS
<1>1. ASSUME UNCHANGED clientVars PROVE ClientInv'
  BY <1>1, SurroundingsInv
<1>2. ASSUME NEW c \in Calls, SteStep(c) PROVE ClientInv'
  <2>1. CASE ReadVersion(c)
    <3>1. UNCHANGED <<process, deviceUp, client>> /\ faults' \in 0..MaxFaults
      BY <2>1, CliAssumption DEF ReadVersion, ClientInv, TypeInv, TypeOK
    <3> QED BY <3>1, FaultsClientInv
  <2>2. CASE CallDirectly(c) \/ RunSpecification(c)
    <3>1. Locate(c) \/ UNCHANGED clientVars
      BY <2>2 DEF CallDirectly, RunSpecification
    <3> QED BY <1>1, <3>1, LocateInv
  <2>3. CASE FindBinary(c) \/ ReceiveForeign(c) \/ Translate(c) \/ Interpret(c)
    BY <1>1, <2>3 DEF FindBinary, ReceiveForeign, Translate, Interpret
  <2> QED BY <1>2, <2>1, <2>2, <2>3 DEF SteStep
<1>3. ASSUME NEW c \in Calls, Calling(c) PROVE ClientInv'
  BY <1>3, SpawnInv, CollectInv, DeadlineInv, ReapInv DEF Calling
<1>4. ASSUME NEW c \in Calls, RaiseDirectly(c) PROVE ClientInv'
  BY <1>4, RaiseForResultInv DEF RaiseDirectly
<1>5. ASSUME NEW c \in Calls, Step(c) \/ AllocationFails(c) \/ Killed(c), UNCHANGED client
      PROVE  ClientInv'
  BY <1>5, ProcessInv DEF Calls
<1>6. CASE DeviceChanges /\ UNCHANGED client
  BY <1>6, SurroundingsInv
<1>7. CASE Reinstall
  BY <1>7, SurroundingsInv DEF Reinstall
<1>8. CASE UNCHANGED steVars
  BY <1>1, <1>8 DEF steVars
<1> QED BY <1>2, <1>3, <1>4, <1>5, <1>6, <1>7, <1>8 DEF SteNext

-----------------------------------------------------------------------------
(* One caller at a time *)

\* A step about one caller leaves what is known of the others as it was.
LEMMA OneCaller ==
    ASSUME AdapterInv, NEW c \in Calls, UNCHANGED <<installed, request>>,
           \A r \in Calls \ {c} :
               /\ pc'[r] = pc[r] /\ stdout'[r] = stdout[r] /\ exit'[r] = exit[r]
               /\ build'[r] = build[r] /\ at'[r] = at[r] /\ ended'[r] = ended[r]
               /\ spec'[r] = spec[r] /\ result'[r] = result[r]
               /\ content'[r] = content[r] /\ same'[r] = same[r],
           (Ordered(c) /\ Repeated(c) /\ Dated(c))'
    PROVE  AdapterInv'
<1> SUFFICES ASSUME NEW r \in Calls PROVE (Ordered(r) /\ Repeated(r) /\ Dated(r))'
  BY DEF AdapterInv
<1>1. CASE r = c
  BY <1>1
<1>2. CASE r # c
  <2>1. Ordered(r) /\ Repeated(r) /\ Dated(r)
    BY DEF AdapterInv
  <2>2. (Answered(r) <=> Answered(r)') /\ Answer(r)' = Answer(r)
    BY <1>2 DEF Answered, Answer
  <2>3. Ordered(r)'
    BY <1>2, <2>1 DEF Ordered
  <2>4. Repeated(r)'
    BY <1>2, <2>1, <2>2 DEF Repeated, NoContent
  <2>5. Dated(r)'
    BY <1>2, <2>1 DEF Dated
  <2> QED BY <2>3, <2>4, <2>5
<1> QED BY <1>1, <1>2

\* A step of the adapter alone: the client, its process and the binary rest.
LEMMA AdapterStep ==
    ASSUME SteInv, NEW c \in Calls, UNCHANGED <<process, client>>, SteTypeOK',
           \A r \in Calls \ {c} : /\ spec'[r] = spec[r] /\ result'[r] = result[r]
                                  /\ content'[r] = content[r] /\ same'[r] = same[r],
           (Ordered(c) /\ Repeated(c) /\ Dated(c))'
    PROVE  SteTypeOK' /\ AdapterInv'
BY OneCaller DEF SteInv, process, client

-----------------------------------------------------------------------------
(* The steps of the adapter *)

\* A call that has not begun has no process, no answer and no end.
LEMMA NotBegun ==
    ASSUME ClientInv, NEW c \in Calls, at[c] = "calling"
    PROVE  pc[c] = "unstarted" /\ ~Answered(c) /\ ended[c] = Service!Open /\ ended[c].how = "open"
<1>1. /\ pc[c] = "unstarted" /\ ended[c].how = "open" /\ ended[c] = Service!Open
  BY DEF ClientInv, CallInv, InStep, Told
<1> QED BY <1>1, NoAnswerYet DEF ClientInv

LEMMA BuildSteps ==
    ASSUME SteInv, NEW c \in Calls, FindBinary(c) \/ ReadVersion(c) \/ ReceiveForeign(c)
    PROVE  SteTypeOK' /\ AdapterInv'
<1>0. /\ at[c] = "calling" /\ ~Answered(c) /\ ended[c].how = "open"
      /\ result[c].how = "none" /\ ~same[c] /\ content[c] = NoContent
  <2>1. spec[c].state \in {"none", "located"} /\ Ordered(c) /\ Repeated(c) /\ Dated(c)
    BY DEF FindBinary, ReadVersion, ReceiveForeign, SteInv, AdapterInv
  <2>2. at[c] = "calling"
    BY <2>1 DEF Ordered
  <2>3. ~Answered(c) /\ ended[c].how = "open"
    BY <2>2, NotBegun DEF SteInv
  <2> QED BY <2>1, <2>2, <2>3 DEF Ordered, Repeated, Dated
<1>1. UNCHANGED <<process, client, content>>
  BY DEF FindBinary, ReadVersion, ReceiveForeign, clientVars, vars, process, client
<1>2. ~Answered(c)' /\ UNCHANGED <<pc, at, ended, installed, build, request>>
  BY <1>0, <1>1 DEF Answered, process, client
<1>3. ASSUME NEW e \in {"SCLProtocolError", "OSError", "TimeoutExpired", "EngineProtocolError"},
             FailBuild(c, e), UNCHANGED same
      PROVE  SteTypeOK' /\ AdapterInv'
  <2>1. SteTypeOK'
    <3>1. spec' \in [Calls -> [state : SpecState, version : Versions \cup {"none"}]]
      BY <1>3 DEF SteInv, SteTypeOK, FailBuild, SpecState
    <3>2. /\ Raises(e).how = "raised" /\ Raises(e).exception = e
          /\ Raises(e) \in ExecutionResult
      BY <1>3 DEF Raises, NotRun, Exceptions, ExecutionResult
    <3> QED BY <1>1, <1>3, <3>1, <3>2 DEF SteInv, SteTypeOK, FailBuild
  <2>2. /\ spec'[c].state = "failed" /\ result'[c].how = "raised"
        /\ \A r \in Calls \ {c} : spec'[r] = spec[r] /\ result'[r] = result[r]
    BY <1>3 DEF SteInv, SteTypeOK, FailBuild, Raises, NotRun
  <2>3. (Ordered(c) /\ Repeated(c) /\ Dated(c))'
    BY <1>0, <1>1, <1>2, <1>3, <2>2 DEF Ordered, Repeated, Dated, NoContent
  <2> QED BY <1>1, <1>3, <2>1, <2>2, <2>3, AdapterStep
<1>4. ASSUME NEW state \in {"located", "foreign"}, UNCHANGED <<result, same>>,
             spec' = [spec EXCEPT ![c].state = state]
      PROVE  SteTypeOK' /\ AdapterInv'
  <2>1. SteTypeOK'
    BY <1>1, <1>4 DEF SteInv, SteTypeOK, SpecState
  <2>2. /\ spec'[c].state = state
        /\ \A r \in Calls \ {c} : spec'[r] = spec[r]
    BY <1>4 DEF SteInv, SteTypeOK
  <2>3. (Ordered(c) /\ Repeated(c) /\ Dated(c))'
    BY <1>0, <1>1, <1>2, <1>4, <2>2 DEF Ordered, Repeated, Dated, NoContent
  <2> QED BY <1>1, <1>4, <2>1, <2>2, <2>3, AdapterStep
<1>5. ASSUME installed # NoBuild, spec' = [spec EXCEPT ![c] = Built(installed)],
             same' = [same EXCEPT ![c] = TRUE], UNCHANGED result
      PROVE  SteTypeOK' /\ AdapterInv'
  <2>1. installed \in Builds /\ kVersionString[installed] \in Versions
    BY <1>5, BuildsAssumption DEF SteInv, ClientInv, ClientTypeOK
  <2>2. SteTypeOK'
    BY <1>1, <1>5, <2>1 DEF SteInv, SteTypeOK, SpecState, Built
  <2>3. /\ spec'[c].state = "built" /\ spec'[c].version = kVersionString[installed]
        /\ \A r \in Calls \ {c} : spec'[r] = spec[r] /\ same'[r] = same[r]
    BY <1>5 DEF SteInv, SteTypeOK, Built
  <2>4. (Ordered(c) /\ Repeated(c) /\ Dated(c))'
    BY <1>0, <1>1, <1>2, <1>5, <2>1, <2>3 DEF Ordered, Repeated, Dated, NoContent
  <2> QED BY <1>1, <1>5, <2>2, <2>3, <2>4, AdapterStep
<1> QED BY <1>3, <1>4, <1>5 DEF FindBinary, ReadVersion, ReceiveForeign

\* run_scl_specification refuses a foreign program; what the client does is below.
LEMMA RefuseForeign ==
    ASSUME SteInv, NEW c \in Calls, RunSpecification(c), spec[c].state = "foreign"
    PROVE  SteTypeOK' /\ AdapterInv'
<1>1. /\ result' = [result EXCEPT ![c] = Raises("EngineProtocolError")]
      /\ result[c].how = "none"
      /\ UNCHANGED <<spec, content, same>> /\ UNCHANGED clientVars
  BY DEF RunSpecification
<1>2. UNCHANGED <<process, client>> /\ UNCHANGED <<pc, at, ended, installed, build>>
  BY <1>1 DEF clientVars, vars, process, client
<1>3. SteTypeOK'
  BY <1>1 DEF SteInv, SteTypeOK, Raises, NotRun, ExecutionResult
<1>4. /\ result'[c].how = "raised"
      /\ \A r \in Calls \ {c} : result'[r] = result[r]
  BY <1>1 DEF SteInv, SteTypeOK, Raises, NotRun
<1>5. Ordered(c) /\ Repeated(c) /\ Dated(c)
  BY DEF SteInv, AdapterInv
<1>6. ~Answered(c)'
  <2>1. at[c] = "calling"
    BY <1>5 DEF Ordered
  <2> QED BY <1>2, <2>1, NotBegun DEF SteInv, Answered, process
<1>7. (Ordered(c) /\ Repeated(c) /\ Dated(c))'
  BY <1>1, <1>2, <1>4, <1>5, <1>6 DEF Ordered, Repeated, Dated, NoContent
<1> QED BY <1>1, <1>2, <1>3, <1>4, <1>7, AdapterStep

LEMMA TranslateStep ==
    ASSUME SteInv, NEW c \in Calls, Translate(c)
    PROVE  SteTypeOK' /\ AdapterInv'
<1>1. /\ UNCHANGED <<spec, content, same>> /\ UNCHANGED clientVars
      /\ result[c].how = "running" /\ at[c] = "ended"
  BY DEF Translate
<1>2. /\ UNCHANGED <<process, client>>
      /\ UNCHANGED <<pc, at, ended, installed, build, stdout, exit, request>>
  BY <1>1 DEF clientVars, vars, process, client
<1>3. /\ Ordered(c) /\ Repeated(c) /\ Dated(c) /\ spec[c].state = "built"
      /\ Told(at[c], ended[c], c) /\ ended[c] \in CallEnd
  BY <1>1 DEF SteInv, AdapterInv, Ordered, ClientInv, CallInv, ClientTypeOK
<1>4. (Answered(c) <=> Answered(c)') /\ Answer(c)' = Answer(c)
  BY <1>2 DEF Answered, Answer
<1>5. CASE ended[c].how = "returned"
  <2>1. Answered(c) /\ ended[c].result = Answer(c)
    BY <1>3, <1>5 DEF Told
  <2>2. Answer(c) \in Written /\ Answer(c).status \in {"completed", "halted"}
    BY <2>1, ResultIsAnswer DEF SteInv, ClientInv
  <2>3. result' = [result EXCEPT ![c] =
            [how |-> Answer(c).status, exception |-> "none",
             exit_code |-> Answer(c).exit_code, output |-> Answer(c).output_hex]]
    BY <1>5, <2>1 DEF Translate
  <2>4. SteTypeOK'
    BY <1>1, <2>2, <2>3 DEF SteInv, SteTypeOK, Written, Exceptions, ExecutionResult
  <2>5. /\ result'[c].how = Answer(c).status /\ result'[c].exit_code = Answer(c).exit_code
        /\ result'[c].output = Answer(c).output_hex
        /\ \A r \in Calls \ {c} : result'[r] = result[r]
    BY <2>3 DEF SteInv, SteTypeOK
  <2>6. (Ordered(c) /\ Repeated(c) /\ Dated(c))'
    BY <1>1, <1>2, <1>3, <1>4, <2>1, <2>2, <2>5 DEF Ordered, Repeated, Dated, NoContent
  <2> QED BY <1>1, <1>2, <2>4, <2>5, <2>6, AdapterStep
<1>6. CASE ended[c].how # "returned"
  <2> DEFINE e == IF ended[c].exception \in {"SCLTimeoutError", "SCLProtocolError"}
                  THEN "EngineProtocolError" ELSE ended[c].exception
  <2>1. result' = [result EXCEPT ![c] = Raises(e)]
    BY <1>6 DEF Translate
  <2>2. e \in Exceptions \cup {"EngineProtocolError"} /\ ended[c].how = "raised"
    BY <1>1, <1>3, <1>6 DEF CallEnd, Told
  <2> HIDE DEF e
  <2>3. SteTypeOK'
    BY <1>1, <2>1, <2>2 DEF SteInv, SteTypeOK, Raises, NotRun, ExecutionResult
  <2>4. result'[c].how = "raised" /\ \A r \in Calls \ {c} : result'[r] = result[r]
    BY <2>1 DEF SteInv, SteTypeOK, Raises, NotRun
  <2>5. (Ordered(c) /\ Repeated(c) /\ Dated(c))'
    BY <1>1, <1>2, <1>3, <1>4, <2>2, <2>4 DEF Ordered, Repeated, Dated, NoContent
  <2> QED BY <1>1, <1>2, <2>3, <2>4, <2>5, AdapterStep
<1> QED BY <1>5, <1>6

LEMMA InterpretStep ==
    ASSUME SteInv, NEW c \in Calls, Interpret(c)
    PROVE  SteTypeOK' /\ AdapterInv'
<1>1. /\ UNCHANGED <<spec, result, same>> /\ UNCHANGED clientVars
      /\ result[c].how = "completed" /\ request[c].operation \in {LJ, FFT}
      /\ content' = [content EXCEPT ![c] =
             [kernel_version |-> spec[c].version, backend |-> request[c].backend]]
  BY DEF Interpret
<1>2. /\ UNCHANGED <<process, client>>
      /\ UNCHANGED <<pc, at, ended, installed, build, stdout, exit, request>>
  BY <1>1 DEF clientVars, vars, process, client
<1>3. request[c] \in Requests /\ Ordered(c) /\ Repeated(c) /\ Dated(c)
  BY DEF SteInv, AdapterInv, ClientInv, TypeInv, TypeOK, Calls
<1>4. SteTypeOK'
  BY <1>1, <1>3, RequestShape DEF SteInv, SteTypeOK
<1>5. /\ content'[c] = [kernel_version |-> spec[c].version, backend |-> request[c].backend]
      /\ \A r \in Calls \ {c} : content'[r] = content[r]
  BY <1>1 DEF SteInv, SteTypeOK
<1>6. (Answered(c) <=> Answered(c)') /\ Answer(c)' = Answer(c)
  BY <1>2 DEF Answered, Answer
<1>7. (Ordered(c) /\ Repeated(c) /\ Dated(c))'
  BY <1>1, <1>2, <1>3, <1>5, <1>6 DEF Ordered, Repeated, Dated
<1> QED BY <1>1, <1>2, <1>4, <1>5, <1>7, AdapterStep

-----------------------------------------------------------------------------
(* The steps of the client beneath it, and of the processes *)

\* A step of the client alone: what the adapter has recorded rests.
LEMMA ClientAlone ==
    ASSUME SteInv, NEW c \in Calls, UNCHANGED <<adapter, installed, request>>,
           \A r \in Calls \ {c} :
               /\ pc'[r] = pc[r] /\ stdout'[r] = stdout[r] /\ exit'[r] = exit[r]
               /\ build'[r] = build[r] /\ at'[r] = at[r] /\ ended'[r] = ended[r],
           (Ordered(c) /\ Repeated(c) /\ Dated(c))'
    PROVE  SteTypeOK' /\ AdapterInv'
<1>1. SteTypeOK'
  BY DEF SteInv, SteTypeOK, adapter
<1>2. UNCHANGED <<spec, result, content, same>>
  BY DEF adapter
<1>3. AdapterInv'
  BY <1>2, OneCaller DEF SteInv
<1> QED BY <1>1, <1>3

\* run_scl_request begins: for a specification, or without one.
LEMMA BeginStep ==
    ASSUME SteInv, NEW c \in Calls, Locate(c), UNCHANGED <<content, same>>,
           \/ CallDirectly(c)
           \/ /\ spec[c].state = "built" /\ result[c].how = "none" /\ UNCHANGED spec
              /\ result' = [result EXCEPT ![c].how = "running"]
    PROVE  SteTypeOK' /\ AdapterInv'
<1>1. /\ UNCHANGED vars /\ UNCHANGED installed /\ at[c] = "calling" /\ at'[c] # "calling"
      /\ UNCHANGED <<pc, stdout, exit, build, request>>
      /\ at'[c] = "ended" \/ at'[c] = "located"
      /\ \A r \in Calls \ {c} : at'[r] = at[r] /\ ended'[r] = ended[r]
  BY DEF Locate, End, Proceed, vars, SteInv, ClientInv, ClientTypeOK
<1>2. pc[c] = "unstarted" /\ ~Answered(c)
  BY <1>1, NotBegun DEF SteInv
<1>3. ~Answered(c)'
  BY <1>1, <1>2 DEF Answered
<1>4. Ordered(c) /\ Repeated(c) /\ Dated(c)
  BY DEF SteInv, AdapterInv
<1>5. CASE CallDirectly(c)
  <2>1. /\ spec[c].state = "none" /\ spec' = [spec EXCEPT ![c].state = "direct"]
        /\ UNCHANGED result
    BY <1>5 DEF CallDirectly
  <2>2. SteTypeOK'
    BY <2>1 DEF SteInv, SteTypeOK, SpecState
  <2>3. spec'[c].state = "direct" /\ \A r \in Calls \ {c} : spec'[r] = spec[r]
    BY <2>1 DEF SteInv, SteTypeOK
  <2>4. (Ordered(c) /\ Repeated(c) /\ Dated(c))'
    BY <1>1, <1>2, <1>3, <1>4, <2>1, <2>3 DEF Ordered, Repeated, Dated, NoContent
  <2>5. AdapterInv'
    BY <1>1, <2>1, <2>3, <2>4, OneCaller DEF SteInv
  <2> QED BY <2>2, <2>5
<1>6. CASE /\ spec[c].state = "built" /\ result[c].how = "none" /\ UNCHANGED spec
           /\ result' = [result EXCEPT ![c].how = "running"]
  <2>1. SteTypeOK'
    <3>1. [result[c] EXCEPT !.how = "running"] \in ExecutionResult
      BY DEF SteInv, SteTypeOK, ExecutionResult
    <3>2. result' = [result EXCEPT ![c] = [result[c] EXCEPT !.how = "running"]]
      BY <1>6
    <3>3. result' \in [Calls -> ExecutionResult]
      BY <3>1, <3>2 DEF SteInv, SteTypeOK
    <3> QED BY <1>6, <3>3 DEF SteInv, SteTypeOK
  <2>2. result'[c].how = "running" /\ \A r \in Calls \ {c} : result'[r] = result[r]
    BY <1>6 DEF SteInv, SteTypeOK
  <2>3. (Ordered(c) /\ Repeated(c) /\ Dated(c))'
    BY <1>1, <1>2, <1>3, <1>4, <1>6, <2>2 DEF Ordered, Repeated, Dated, NoContent
  <2>4. AdapterInv'
    BY <1>1, <1>6, <2>2, <2>3, OneCaller DEF SteInv
  <2> QED BY <2>1, <2>4
<1> QED BY <1>5, <1>6

\* What a call that is under way has not got yet.
LEMMA UnderWay ==
    ASSUME SteInv, NEW c \in Calls, at[c] \in {"located", "waiting", "killing"}
    PROVE  /\ spec[c].state \in {"built", "direct"}
           /\ result[c].how \in {"none", "running"}
           /\ content[c] = NoContent
           /\ spec[c].state = "built" => result[c].how = "running"
<1>1. /\ Ordered(c) /\ Repeated(c)
      /\ spec[c].state \in SpecState
      /\ result[c].how \in {"none", "running", "completed", "halted", "raised"}
      /\ Told(at[c], ended[c], c)
  BY DEF SteInv, AdapterInv, SteTypeOK, ClientInv, CallInv, ExecutionResult
<1> QED BY <1>1 DEF Ordered, Repeated, SpecState, Told

LEMMA SpawnStep ==
    ASSUME SteInv, NEW c \in Calls, Spawn(c), UNCHANGED adapter
    PROVE  SteTypeOK' /\ AdapterInv'
<1>1. /\ at[c] = "located" /\ UNCHANGED <<stdout, exit, request, installed>>
      /\ UNCHANGED <<spec, result, content, same>>
      /\ \A r \in Calls \ {c} : /\ pc'[r] = pc[r] /\ build'[r] = build[r]
                                /\ at'[r] = at[r] /\ ended'[r] = ended[r]
  BY DEF Spawn, Start, End, Proceed, process, adapter, SteInv, ClientInv, ClientTypeOK, TypeInv,
         TypeOK, Calls
<1>2. /\ pc[c] = "unstarted" /\ Ordered(c) /\ Repeated(c) /\ Dated(c)
      /\ installed \in Builds \cup {NoBuild}
  BY <1>1 DEF SteInv, AdapterInv, ClientInv, CallInv, InStep, ClientTypeOK
<1>3. ~Answered(c)'
  <2>1. ~Answered(c)
    BY <1>2, NoAnswerYet DEF SteInv, ClientInv
  <2> QED BY <1>1, <2>1 DEF Answered
<1>4. CASE installed = NoBuild
  <2>1. at'[c] = "ended" /\ pc'[c] = "unstarted"
    BY <1>2, <1>4 DEF Spawn, End, process, SteInv, ClientInv, ClientTypeOK
  <2>2. (Ordered(c) /\ Repeated(c) /\ Dated(c))'
    BY <1>1, <1>2, <1>3, <2>1, UnderWay DEF Ordered, Repeated, Dated, NoContent
  <2> QED BY <1>1, <2>2, ClientAlone
<1>5. CASE installed # NoBuild
  <2>1. at'[c] = "waiting" /\ build'[c] = installed
    BY <1>5 DEF Spawn, Proceed, Start, SteInv, ClientInv, ClientTypeOK, TypeInv, TypeOK, Calls
  <2>2. (Ordered(c) /\ Repeated(c) /\ Dated(c))'
    BY <1>1, <1>2, <1>3, <2>1, UnderWay DEF Ordered, Repeated, Dated, NoContent
  <2> QED BY <1>1, <2>2, ClientAlone
<1> QED BY <1>4, <1>5

\* What the process left is heard: an answered call never ends with an error.
LEMMA CollectHears ==
    ASSUME ClientInv, NEW c \in Calls, Collect(c), Answered(c)
    PROVE  ended'[c].how = "returned"
<1>1. /\ Answer(c).status \in {"completed", "halted"}
      /\ Answer(c).status = "completed" => Answer(c).output_hex # "none"
  BY ResultIsAnswer DEF ClientInv
<1>2. ended' = [ended EXCEPT ![c] = Service!Returned(SCLResult(Answer(c)))]
  BY <1>1 DEF Collect, Unreadable, Answered, Answer, End
<1> QED BY <1>2 DEF Service!Returned, ClientInv, ClientTypeOK

LEMMA WaitStep ==
    ASSUME SteInv, NEW c \in Calls, Collect(c) \/ Deadline(c) \/ Reap(c), UNCHANGED adapter
    PROVE  SteTypeOK' /\ AdapterInv'
<1>1. /\ at[c] \in {"waiting", "killing"} /\ UNCHANGED <<stdout, request, build, installed>>
      /\ UNCHANGED <<spec, result, content, same>>
      /\ at'[c] \in {"killing", "ended"}
      /\ \A r \in Calls \ {c} : /\ pc'[r] = pc[r] /\ exit'[r] = exit[r]
                                /\ at'[r] = at[r] /\ ended'[r] = ended[r]
  BY DEF Collect, Deadline, Reap, Exit, End, Proceed, process, vars, adapter, SteInv, ClientInv,
         ClientTypeOK, TypeInv, TypeOK, Calls
<1>2. /\ Ordered(c) /\ Repeated(c) /\ Dated(c) /\ Told(at[c], ended[c], c)
  BY DEF SteInv, AdapterInv, ClientInv, CallInv
<1>3. ended'[c].how = "raised" /\ Answered(c)' => ended'[c].exception = "SCLTimeoutError"
  <2>1. CASE Collect(c)
    <3>1. Answered(c) <=> Answered(c)'
      BY <2>1 DEF Collect, vars, Answered
    <3> QED BY <2>1, <3>1, CollectHears DEF SteInv
  <2>2. CASE Deadline(c)
    <3>1. ended' = ended
      BY <2>2 DEF Deadline, Proceed
    <3> QED BY <1>1, <1>2, <3>1 DEF Told
  <2>3. CASE Reap(c)
    BY <2>3 DEF Reap, End, Service!Raised, SteInv, ClientInv, ClientTypeOK
  <2> QED BY <2>1, <2>2, <2>3
<1>4. (Ordered(c) /\ Repeated(c) /\ Dated(c))'
  BY <1>1, <1>2, <1>3, UnderWay DEF Ordered, Repeated, Dated, NoContent
<1> QED BY <1>1, <1>4, ClientAlone

\* raise_for_result, called by a caller that has no specification.
LEMMA RaiseStep ==
    ASSUME SteInv, NEW c \in Calls, RaiseDirectly(c)
    PROVE  SteTypeOK' /\ AdapterInv'
<1>1. /\ UNCHANGED vars /\ UNCHANGED <<at, installed>> /\ UNCHANGED adapter
      /\ UNCHANGED <<pc, stdout, exit, build, request>>
      /\ spec[c].state = "direct" /\ UNCHANGED <<spec, result, content, same>>
      /\ \A r \in Calls \ {c} : ended'[r] = ended[r]
  BY DEF RaiseDirectly, RaiseForResult, vars, adapter, SteInv, ClientInv, ClientTypeOK
<1>2. Ordered(c) /\ Repeated(c) /\ Dated(c)
  BY DEF SteInv, AdapterInv
<1>3. (Ordered(c) /\ Repeated(c) /\ Dated(c))'
  BY <1>1, <1>2 DEF Ordered, Repeated, Dated, NoContent
<1> QED BY <1>1, <1>3, ClientAlone

\* A process goes on, fails or is killed while its call waits.
LEMMA ProcessStep ==
    ASSUME SteInv, NEW c \in Calls, Step(c) \/ AllocationFails(c) \/ Killed(c),
           UNCHANGED <<client, adapter>>
    PROVE  SteTypeOK' /\ AdapterInv'
<1>1. /\ pc[c] \in Stages /\ pc'[c] # "unstarted"
      /\ \A r \in Calls \ {c} : pc'[r] = pc[r] /\ stdout'[r] = stdout[r] /\ exit'[r] = exit[r]
  BY ProcessMoves DEF SteInv, ClientInv, Calls
<1>2. UNCHANGED <<request, build>>
  <2>1. CASE AllocationFails(c) \/ Killed(c)
    BY <2>1 DEF AllocationFails, Killed, Return, Report, Conclude, Exit
  <2>2. CASE ReadEnvelope(c) \/ SelectOperation(c) \/ ProbeBackend(c)
    BY <2>2 DEF ReadEnvelope, SelectOperation, ProbeBackend, Goto, Report, Conclude, Exit
  <2>3. CASE DecodeHex(c)
    <3>1. request[c].hex \in {"bytes", "badDigit", "strayByte"}
      BY RequestShape DEF SteInv, ClientInv, TypeInv, TypeOK, Calls
    <3> QED BY <2>3, <3>1 DEF DecodeHex, Goto, Report, Conclude
  <2>4. CASE DecodePayload(c) \/ ProbeAgain(c) \/ Compute(c) \/ DeviceFault(c)
    BY <2>4 DEF DecodePayload, ProbeAgain, Compute, DeviceFault, Goto, Return, Report, Conclude
  <2>5. CASE WriteAnswer(c) \/ WriteReport(c)
    BY <2>5 DEF WriteAnswer, WriteReport, Exit
  <2> QED BY <2>1, <2>2, <2>3, <2>4, <2>5 DEF Step
<1>3. /\ UNCHANGED <<installed, at, ended>> /\ UNCHANGED <<spec, result, content, same>>
      /\ UNCHANGED adapter
  BY DEF client, adapter
<1>4. /\ Ordered(c) /\ Repeated(c) /\ Dated(c) /\ at[c] \in {"waiting", "killing"}
      /\ ended[c].how = "open"
  BY <1>1 DEF SteInv, AdapterInv, ClientInv, CallInv, ClientTypeOK, InStep, Told, Places, Stages
<1>5. (Ordered(c) /\ Repeated(c) /\ Dated(c))'
  BY <1>2, <1>3, <1>4, UnderWay DEF Ordered, Repeated, Dated, NoContent
<1> QED BY <1>1, <1>2, <1>3, <1>5, ClientAlone

\* A build replaces the binary: the version lines it makes stale are no longer vouched for.
LEMMA ReinstallStep ==
    ASSUME SteInv, Reinstall
    PROVE  SteTypeOK' /\ AdapterInv'
<1>1. /\ UNCHANGED <<pc, stdout, exit, build, request, at, ended, spec, result, content>>
      /\ same' = [c \in Calls |->
             same[c] /\ (at[c] \in {"calling", "located"} => installed' = installed)]
  BY DEF Reinstall, Install, vars
<1>2. same' \in [Calls -> BOOLEAN]
  BY <1>1 DEF SteInv, SteTypeOK
<1>3. SteTypeOK'
  BY <1>1, <1>2 DEF SteInv, SteTypeOK
<1>4. ASSUME NEW c \in Calls PROVE (Ordered(c) /\ Repeated(c) /\ Dated(c))'
  <2>1. Ordered(c) /\ Repeated(c) /\ Dated(c)
    BY DEF SteInv, AdapterInv
  <2>2. same'[c] => same[c] /\ (at[c] \in {"calling", "located"} => installed' = installed)
    BY <1>1
  <2> QED BY <1>1, <2>1, <2>2 DEF Ordered, Repeated, Dated, Answered, Answer, NoContent
<1> QED BY <1>3, <1>4 DEF AdapterInv

-----------------------------------------------------------------------------

LEMMA SteInvNext == SteInv /\ [SteNext]_steVars => SteInv'
<1> SUFFICES ASSUME SteInv, [SteNext]_steVars PROVE SteInv'
  OBVIOUS
<1>0. ClientInv'
  BY SteClientInv DEF SteInv
<1>1. ASSUME NEW c \in Calls, SteStep(c) PROVE SteTypeOK' /\ AdapterInv'
  <2>1. CASE FindBinary(c) \/ ReadVersion(c) \/ ReceiveForeign(c)
    BY <2>1, BuildSteps
  <2>2. CASE CallDirectly(c)
    BY <2>2, BeginStep DEF CallDirectly
  <2>3. CASE RunSpecification(c)
    <3>1. CASE spec[c].state = "foreign"
      BY <2>3, <3>1, RefuseForeign
    <3>2. CASE spec[c].state # "foreign"
      BY <2>3, <3>2, BeginStep DEF RunSpecification
    <3> QED BY <3>1, <3>2
  <2>4. CASE Translate(c) \/ Interpret(c)
    BY <2>4, TranslateStep, InterpretStep
  <2> QED BY <1>1, <2>1, <2>2, <2>3, <2>4 DEF SteStep
<1>2. ASSUME NEW c \in Calls, Calling(c) PROVE SteTypeOK' /\ AdapterInv'
  BY <1>2, SpawnStep, WaitStep DEF Calling
<1>3. ASSUME NEW c \in Calls, RaiseDirectly(c) PROVE SteTypeOK' /\ AdapterInv'
  BY <1>3, RaiseStep
<1>4. ASSUME NEW c \in Calls, Step(c) \/ AllocationFails(c) \/ Killed(c),
             UNCHANGED <<client, adapter>>
      PROVE  SteTypeOK' /\ AdapterInv'
  BY <1>4, ProcessStep
<1>5. ASSUME \/ DeviceChanges /\ UNCHANGED <<client, adapter>>
             \/ UNCHANGED steVars
      PROVE  SteTypeOK' /\ AdapterInv'
  <2>1. UNCHANGED <<pc, stdout, exit, build, request, at, ended, installed, spec, result,
                    content, same>>
    BY <1>5 DEF DeviceChanges, process, client, adapter, steVars, clientVars, vars
  <2>2. ASSUME NEW c \in Calls PROVE (Ordered(c) /\ Repeated(c) /\ Dated(c))'
    BY <2>1 DEF SteInv, AdapterInv, Ordered, Repeated, Dated, Answered, Answer, NoContent
  <2> QED BY <2>1, <2>2 DEF SteInv, SteTypeOK, AdapterInv
<1>6. ASSUME Reinstall PROVE SteTypeOK' /\ AdapterInv'
  BY <1>6, ReinstallStep
<1> QED BY <1>0, <1>1, <1>2, <1>3, <1>4, <1>5, <1>6 DEF SteNext, SteInv

\* How far each caller has come, what its result repeats and which build its version line
\* is of, in every reachable state.
THEOREM AdapterCorrect == SteSpec => []SteInv
BY SteInvInit, SteInvNext, PTL DEF SteSpec

\* If nobody touches the binary between the version line and the spawn, a method block
\* names the version of the build that computed, and the answer names the same.
THEOREM VersionIsOfTheRun == SteSpec => []UnchangedVersionIsRecorded
<1>1. SteInv => UnchangedVersionIsRecorded
  <2> SUFFICES ASSUME SteInv, NEW c \in Calls, content[c] # NoContent, same[c]
               PROVE  /\ content[c].kernel_version = kVersionString[build[c]]
                      /\ content[c].kernel_version = Answer(c).backend_version
    BY DEF UnchangedVersionIsRecorded
  <2>1. /\ result[c].how = "completed" /\ content[c].kernel_version = spec[c].version
        /\ Answered(c) /\ at[c] = "ended"
    BY DEF SteInv, AdapterInv, Repeated, Ordered
  <2>2. pc[c] = "exited"
    BY <2>1, NoAnswerYet DEF SteInv, ClientInv
  <2>3. spec[c].version = kVersionString[build[c]]
    BY <2>1, <2>2 DEF SteInv, AdapterInv, Dated
  <2>4. Answer(c).backend_version = kVersionString[build[c]]
    BY <2>1, AnswerIsResponse DEF SteInv, ClientInv, Calls
  <2> QED BY <2>1, <2>3, <2>4
<1> QED BY <1>1, AdapterCorrect, PTL

\* The backend a method block names is the engine that computed the numbers beside it.
THEOREM MethodBlockIsTrue == SteSpec => []MethodBlockBackendRan
<1>1. SteInv => MethodBlockBackendRan
  <2> SUFFICES ASSUME SteInv, NEW c \in Calls, content[c] # NoContent
               PROVE  content[c].backend = Answer(c).output_hex
    BY DEF MethodBlockBackendRan
  <2>1. /\ content[c].backend = request[c].backend /\ request[c].operation \in {LJ, FFT}
        /\ Answered(c) /\ Answer(c).status = "completed"
    BY DEF SteInv, AdapterInv, Repeated
  <2>2. /\ outcome[c].status = "completed" /\ Answer(c).output_hex = outcome[c].output
        /\ Justified(outcome[c], request[c], build[c])
    BY <2>1, AnswerIsResponse DEF SteInv, ClientInv, Calls
  <2>3. outcome[c] = completed(Engine(request[c]))
    BY <2>2 DEF Justified
  <2>4. Engine(request[c]) = request[c].backend
    BY <2>1 DEF Engine, HostOnly, LJ, FFT, LSQ, KF
  <2> QED BY <2>1, <2>2, <2>3, <2>4 DEF completed
<1> QED BY <1>1, AdapterCorrect, PTL

\* A halt is a result: what run_scl_specification raises over a readable program that was
\* answered is only the deadline, and a result repeats the answer.
THEOREM HaltsAreReported == SteSpec => []HaltsAreResults
<1>1. SteInv => HaltsAreResults
  <2> SUFFICES ASSUME SteInv, NEW c \in Calls
               PROVE  /\ result[c].how = "raised" /\ spec[c].state = "built" /\ Answered(c) =>
                             ended[c].exception = "SCLTimeoutError"
                      /\ result[c].how \in {"completed", "halted"} =>
                             /\ Answered(c)
                             /\ result[c].how = Answer(c).status
                             /\ result[c].exit_code = Answer(c).exit_code
                             /\ result[c].output # "none" <=> result[c].how = "completed"
    BY DEF HaltsAreResults
  <2>1. Repeated(c)
    BY DEF SteInv, AdapterInv
  <2>2. ASSUME Answered(c), Answer(c).status = "halted" PROVE Answer(c).output_hex = "none"
    BY <2>2, AnswerIsResponse DEF SteInv, ClientInv, Justified, Calls
  <2>3. ASSUME Answered(c), Answer(c).status = "completed" PROVE Answer(c).output_hex # "none"
    BY <2>3, ResultIsAnswer DEF SteInv, ClientInv
  <2> QED BY <2>1, <2>2, <2>3 DEF Repeated
<1> QED BY <1>1, AdapterCorrect, PTL
=============================================================================
