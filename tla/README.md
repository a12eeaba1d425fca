# A TLA+ model of the Scientific Compute Layer

The Scientific Compute Layer (SCL) runs numerical operations in a native binary,
`scl_cli`, one process per computation, and gives Python callers a client that
starts the process, waits for it and judges what it answers. Around it are encoders
and identities for what is asked, an adapter that records what was run, generators
that publish artifacts for another repository, and a verifier that says whether a
change landed in both. This directory models those parts, checks them with TLC on
small instances, and proves with TLAPS, for every instance, the safety properties of
the process, the client, the adapter, the Lennard-Jones engines, the Kalman filter, the
covariance gate, the encoders, the generators and the verifier, and that the client implements an
abstract service.

## 1. The system

| Component | State | Operations | Met by |
|---|---|---|---|
| `scl_cli` (`native/src/main.cpp`) | one request, the stage it is at, the answer it settled on, stdout | read the envelope, select an operation, probe the backend, decode hex, run, write, exit | the client, over stdin and stdout |
| backends (`native/src/backend.cpp`, `native/backends/cuda`) | none of their own: the device of the host | probe, dispatch | `main` and every operation |
| operations (`native/src/op_*.cpp`) | none | decode, validate, compute, encode | `main`, through the registry |
| Lennard-Jones engines (`lj_pairwise.cpp`, `lj_pairwise_cuda.cu`) | the pair loop; one set of sums a thread, device memory | compute, launch, copy back | the LJ operation |
| filter (`kalman.cpp`) and gate (`covariance.cpp`) | the posterior and what is stored of each step | validate, predict, innovate, update, check | the filter operation |
| Fourier engines, solver (`fourier.cpp`, `least_squares.cpp`) | local | compute | their operations |
| client (`python/scl/client.py`) | one call: the child, the deadline, the result | `run_scl_request`, `raise_for_result` | callers, the STE adapter |
| STE adapter (`python/scl/ste_adapter.py`) | specifications that carry a version line | build, run, interpret | STE's dispatcher |
| encoders and identities (`python/scl/identity.py`, `fourier.py`, `kalman.py`, ...) | none | make payloads of calls, digests of requests | callers, the operations that decode |
| method blocks and quantities (`python/scl/method_block.py`, `quantity.py`) | frozen records | say what was run and with what uncertainty | the adapter |
| canonical serializer (`architecture/exchange/canonical_yaml.py`) | the lines so far; a fixture and its digest on disk | `canonical_dump`, write, `--verify-fixture` | the generators, another implementation |
| exchange generators (`architecture/exchange/build_*.py`) | what they read of their sources; two files each | read, derive, write | people, the verifier |
| pair verifier (`architecture/exchange/verify_pair_landed.py`) | what git said of two repositories, the shared files, a verdict | ask git, list, read, compare | people |

The hard parts are few and specific. The CUDA device is asked for at up to three
moments of one request and may change between any two. An answer is written to a
stream that can throw half way, from inside the block whose handler writes to the
same stream. A caller kills its process at a deadline the process knows nothing
of. The binary is looked for at one moment, started at a second, and may be
rebuilt between; its version is recorded at a third. One fault table has to mean
the same whichever of four operations reports it. The CUDA kernel sums by particle
what the CPU sums by pair. A payload is bytes without a schema: nothing in it says
which number is which, and its encoder and its decoder are written in two languages.
An artifact is two files, written one after the other, each emptied before it is
filled, by a program that read its sources one at a time. The serializer joins a dash
to the line after it once that line is written, and escapes characters with
characters it escapes. The verifier looks at one thing at a time while everything it
looks at may move. There is no shared memory and no lock outside the kernel:
interleaving is between processes, threads of the device, the device itself, and the
file system.

What makes each component correct:

- *process*: one answer, decided by the first stage that objects; the backend
  before the payload; output exactly on success; the engine that is named; an exit.
- *client*: no process survives its call; every call ends; a halted answer is a
  result, never an error of the channel; each exception is earned.
- *client and process together*: a call that succeeds saw one build, and an answer
  that one instant explains.
- *adapter*: what is recorded about a run describes that run.
- *engines*: the two engines of an operation agree, and each completes what it can.
- *filter*: each step is the Bayes update; nothing that is not finite completes.
- *gate*: what is accepted has no negative variance, what is refused for one has one.
- *encoders*: what is decoded is what was meant, one meaning has one encoding, and an
  identity is of one request.
- *serializer*: what is written reads back, in one form, and what has no form is refused.
- *generators*: once they are quiet the pair is whole, and an undisturbed run publishes
  its sources.
- *verifiers*: what they report as landed, or in agreement, is so, at least where
  nobody moved it.

## 2. The modules

| Module | Models | Checked by |
|---|---|---|
| `SclOperations` | the fault table, requests, outcomes, which engine runs, what each class of payload is answered | every run of the next four |
| `SclCli` | `scl_cli` processes that share a device | `SclCliAll`, `SclCliOneObject` |
| `SclService` | what a call promises, with no process in sight | as the property `ServiceSafeSpec`, in `SclClientTwo` |
| `SclClient` | `run_scl_request` around `SclCli` | `SclClientTwo`, `SclClientMissingBinary`, and in `SclSte` |
| `SclSte` | the adapter around `SclClient` | `SclSte` |
| `LjEngines` | the CPU pair loop and the threads of the CUDA kernel | `LjEngines` |
| `Matrices` | the matrix helpers of `kalman.cpp`, over a domain the user gives | through the next two |
| `KalmanFilter` | `run_kalman_filter`, in exact arithmetic | `KalmanFilter` |
| `Covariance` | `validate_covariance`, and `covariance_update` against it | `Covariance`, `CovarianceScale` |
| `Codecs` | the encoders, the decoders, the descriptor, what the adapter reads in a result, the identities | `Exchange` |
| `YamlScalars` | the scalars of `canonical_yaml.py` and their text | through the next |
| `CanonicalYaml` | `canonical_dump`, against a reader of what it writes | `Exchange` |
| `Published` | what the two generators derive from their sources | through `Exchange` |
| `Exchange` | the generators and `--verify-fixture`, overlapping | `Exchange` |
| `PairLanded` | `verify_pair_landed.py` and the people around it | `PairLanded`, `PairLandedRemotes` |
| `SclProofs` | theorems about the process; about the client, its refinement of the service, and the adapter | TLAPS |
| `LjEnginesProofs`, `KalmanProofs`, `CovarianceProofs`, `CodecsProofs` | theorems about the engines, the filter, the gate and its update, the encoders and the quoted texts | TLAPS |
| `ExchangeProofs`, `PairLandedProofs` | theorems about the generators and the pair verifier | TLAPS |
| `Induction` | induction over the natural numbers as facts about sets, which the four in the middle rest on | TLAPS |

Each `MC` module gives one of these its instance; `MCEncodings` gives `Codecs` and
`CanonicalYaml` theirs, and `MCExchange` takes it in.

### scl_cli

`SclCli` keeps, for each process, `pc`, `request`, `build`, `outcome`, `stdout` and
`exit`, and for the host `deviceUp`. A request is abstracted to the first defect the
code meets: in the envelope, in the backend name, in the hex fields, in the
payload. Each stage of `run()` is an action, in the order of the text:

    ReadEnvelope -> SelectOperation -> ProbeBackend -> DecodeHex
       LJ, FFT:  DecodePayload -> ProbeAgain -> Compute
       LSQ, KF:  ProbeAgain -> DecodePayload -> Compute
    WriteAnswer (in the try block) or WriteReport (in a handler, or before it)

`ProbeAgain` is the dispatch of `compute_lj_pairwise` and
`compute_fourier_transform_1d`, and the first statement of the two operations that
only run on the host. `DeviceFault` is a CUDA call that fails: it leaves the
operation as an exception and `main` answers 14. `AllocationFails` is `bad_alloc` at
any stage, and what it becomes is a matter of where: inside an operation the solver and
the filter answer it 13, and LJ and FFT let it out; out of them, while the hex is
decoded, and while an outcome is made a response, `main`'s second `try` block answers it
14, whatever the operation had returned; everywhere else, a handler that builds its own
response included, it ends the process with exit 1. `Killed` is any signal. An envelope
that holds a number no double can hold (`1e999`) ends the process with exit 1 as well,
because what the parser throws then is caught by neither handler around it. A write
whose detail is not UTF-8 leaves a fragment and throws: out of the try block into
`catch (std::exception)`, which writes a second object and exits 0; out of a handler
into `main`'s `catch (...)`, which exits 1.

A payload is the class its decoders, validators and engine make of it
(`PayloadClasses`). `output` is the engine whose arithmetic made the bytes, which is
what the properties about substitution need.

### The client, its service, and the adapter

`SclClient` adds `installed`, the binary at the path, and for each call `at` and
`ended`. `Locate` is the existence test, `Spawn` is `subprocess.run` starting
whatever is there by then, `Collect` is the return of `communicate()` with every
check that follows, `Deadline` and `Reap` are `TimeoutExpired` and the kill that
comes with it, `Install` is a build that replaces or removes the binary.

`SclService` is the abstract specification: a call is open until it fails as a
channel or returns an answer that was *decided* in one step, by one build, from
the request and the device of that instant. Something may fail between the decision
and the return, and put an internal fault of the same build in its place (`Spoil`):
this is `bad_alloc` over an outcome that is being made a response. The refinement maps
the outcome a process settled on to that decision; an outcome that cannot be written is
not one yet, and one that follows a fragment never is.

`SclSte` puts in front of a call the building of its specification, which runs
`scl_cli --version` (`FindBinary`, `ReadVersion`) and keeps the line, and after it
the translation of the result (`Translate`) and the method block (`Interpret`). A
caller may also do without a specification (`CallDirectly`, `RaiseDirectly`), so that
the client's own properties are checked here with everything a caller can do. Two
builds of one source print one version line, as they do in the code, where it is a
constant of the header.

### The engines

`LjEngines` runs the pair loop (`CpuPair`, `CpuReturn`), then the kernel on the same
input: `Launch` starts whole blocks of threads, `ThreadStep` is one iteration of one
thread, `ThreadStore` its store to device memory, `CopyBack` the synchronisation, the
copies and the host's own sum. A double is an integer that becomes `Inf` beyond
`Big` (`Double`), the potential is a table of doubles over squared distances, which
has a value wherever the engines ask for one (`LjAssumption`); particles sit on a line.

`KalmanFilter` has `Validate` (the refusals, in order), and for each step `Predict`,
`Innovate` (with `invert`, Gauss-Jordan with partial pivoting) and `GainAndUpdate`;
`Check` is `require_finite_results`. A double is an element of a prime field, or
`NaN`: every identity of linear algebra that the filter rests on holds there exactly
or not at all. What overflows is not a choice of the model's arithmetic but of
`Overflowing`, which puts a `NaN` into one of the first products of a step; it
spreads from there as the code spreads it, `matmul`'s skipped zeros included.

`Covariance` has no field but integers, in units of a quarter, because the gate is
about sign and size. The rotations of Jacobi are taken at their result, for matrices
of at most two rows whose eigenvalues are integers (`IsInput`) and on which they
converge (`RotationsConverge`): a matrix that is not symmetric, has
an entry above its diagonal and two equal eigenvalues keeps the sweeps going until they
run out, with a diagonal that is off by the root of a rounding, and is left out. The
update is of two states, of which one mixture is measured (`IsUpdate`). `Weights` are
the integers its properties combine components with.

### The encodings

In `Codecs` a payload is its `int32` header and the words of eight bytes after it. A
word is a double, one of eight that the code tells apart (both zeros, NaN and
infinity among them), or a piece of a source identity; a decoder takes any word for a
double, as the code does, so that an identity in the place of a measurement is a
case and not a type error. `Encode` is the Python side, with what it raises;
`Decode` is the native side with its validators. `Transmit` sends a call through
both, `Execute` runs a specification whatever bytes it holds and interprets its
result as the adapter does, through the descriptor (`split_descriptor`), the output
and the method blocks. `identities` are the four commitments of a request, over
tagged and length-framed bytes; SHA-256 is taken to tell different bytes apart.
`IsExchange` says which calls, specifications and pairs of requests there are, of any
size.

`CanonicalYaml` is the emitter: `Emit` with its frames, `CollapseDash` as it is in
the code (the last line that is a bare dash at that indentation, joined to the next),
`Quote` with its replacements in their order, `FormatFloat` and what it adds to
`repr` (both in `YamlScalars`, which has no RECURSIVE operator), and every exception. Beside it, and sharing with it only the form of values
and of columns, is a reader of the block YAML 1.1 that the artifacts use
(`ReadBlock`, `ReadScalar`).

### The exchange directory

`Published` makes the two generated documents of their sources: which primitives are
missing, the status a row derives from them or was typed with, which workloads are
registered, how each clause is covered. `Exchange` is the processes. `Start` and
`Read` take the sources one by one, and an unparsable one raises before anything is
written; `TruncateYaml`, `WriteYaml`, `TruncateDigest`, `WriteDigest` are the two
`write_bytes`, each of which empties its file before it fills it; `Look` and
`Compare` are `--verify-fixture`; `Edit` changes a source and `Kill` ends a process
anywhere. Two histories serve the properties: `epoch`, what has been written to an
artifact since a writer was last alone with it, and `still`, whether anything a
process looks at has been changed by somebody else since it started.

`PairLanded` has an action for each git command, listing, existence test and read of
`verify_pair_landed.py`, and beside them people who edit, commit, push, switch
branches, or push from elsewhere. A git command may fail and print nothing, which
the code does not look at. `moved` and `touched` are history: which repositories and
files changed since the verifier started.

## 3. The runs

| Run | Instance | Shows |
|---|---|---|
| `SclCliAll` | 1 process, 3 builds, all requests, 1 failure | each property of a process, and that it exits |
| `SclClientTwo` | 2 calls, a request for each order of the stages, 1 failure | the refinement of the service when calls interleave with rebuilds, the device and a failure; that the cpu path depends on neither |
| `SclSte` | 1 call, direct or of a specification, all client requests, 1 failure, rebuilds at any moment | that the call ends, leaves nothing behind, raises what was earned; what a method block and a result say of the process that ran |
| `LjEngines` | 3 particles, 4 sites, blocks of 2 threads | equal sums, balanced forces, who reports what |
| `KalmanFilter` | 2 states, 1 or 2 measured, 2 steps, field of 7, 1 overflow | inverse, Bayes update, finiteness |
| `Covariance` | every shape up to 2 by 2, three pairs of tolerances; updates of small covariances by small gains | the verdict against its meaning, and the update against the verdict |
| `PairLanded` | 2 files of 2 contents, 2 branches, 2 changes, 2 failures | what PAIR LANDED still means when things move |
| `Exchange` | 2 processes over each artifact, 1 edit, kills anywhere; or one document to serialize, one call, specification or pair of requests to encode | whole pairs, published sources, earned verdicts; that texts read back, payloads mean what was meant, and identities are of one request |

`Exchange` has two halves that share nothing but their module: either a set of jobs is
run, or one encoder on one value, from a finite list with its edge cases. The second
half is a chain of one step for each value, and its interest is in the values.

Four further runs check one sentence of the documentation each and find that the code
does otherwise; `findings` in PROJECT.json quotes the sentences:

| Run | The sentence | The code |
|---|---|---|
| `SclCliOneObject` | exit 0 means one JSON object | a fragment and an object, exit 0 |
| `SclClientMissingBinary` | a missing binary is an SCLError | an OSError if it goes after the test |
| `CovarianceScale` | the verdict does not depend on the unit | a symmetric indefinite matrix is accepted below 1.0 and refused above |
| `PairLandedRemotes` | the remotes are asked, and their content agrees | the content is that of the working trees: one uncommitted edit makes remotes that differ look alike |

The modules follow the code in several other places where a document describes it
differently, or where the code is not what a reader expects; no run is spent on them:

- a CUDA failure or a `bad_alloc` leaves the LJ and FFT operations as an exception
  and is answered by `main` (`DeviceFault`, `AllocationFails`);
- an envelope with a number no double can hold is not answered: exit 1 and nothing on
  stdout, where `tests/test_operation_registry_contract.py:266-267` says that `run()` is
  total for every input (`ReadEnvelope`; `OneAnswer` names the case);
- a result that is not finite is 13 from LJ and FFT, 11 from the solver and the filter,
  where `docs/SCL_CONTRACT.md:169` has 13 for it and line 167 keeps 11 for what is
  structurally invalid (`ComputeOutcome`);
- coincident particles fault on the CPU and are skipped by the kernel
  (`ComputeOutcome`, `Visit`);
- an announced shape whose size wraps is 13 and not 11 (`DecodeOutcome`);
- the solver and the filter compute on the host whichever backend they answer for
  (`Engine`);
- a method block names the version of the binary that was there when the
  specification was built: `UnchangedVersionIsRecorded` says when that is the one that
  ran;
- an `OSError` of the client passes through `run_scl_specification` (`Translate`);
- the kernel's energy is summed twice over before it is halved, so that it may overflow
  where the CPU's does not: `RoomyInputsComplete` asks for room for both;
- an input of the filter does not carry the dimensions of its configuration, so that
  one state of three measured values may be read as two states
  (`DimensionsAgree` in `EncodedIsUnderstood`);
- the strength of the potential may be zero with a sign, which is the same potential
  under another `parameters_identity`; the tolerances may not, and what a flag leaves
  unused may not (`DecodeLj`, `Tolerance`, `SpacingIsCanonical`);
- a tolerance of the gate that is infinite is accepted, though the message says finite
  (`Tolerance`);
- the emitter quotes every string, where `build_scl_requirements.py:510` says it does
  so only where needed (`Quote`); and it has no form for an empty sequence that is an
  item of another (`[[]]`) or an empty whole document, where `canonical_yaml.py:14-15` has
  one in any position (`RefusalIsExact`);
- the status of the row `decomposition_primitive` of `pca` is typed UNSATISFIED
  (`build_scl_requirements.py:396-403`) although the primitives it is about exist and
  the other rows of its kind are computed (`Rows`, `DerivedRow`);
- `--verify-fixture` exits 0 when there is no fixture (`Look`).

### Bounds

Processes share nothing but the device, so one process meets every order of its own
stages with device changes and failures; two are enough for the property that
compares two. The three builds are two of one source, with and without CUDA, and one
of another. `MaxFaults` bounds the failures of one run to one, so that every
stage meets a failure, alone and beside another call, and to none where a sentence of
the documentation fails without one. The requests of `SclCliAll` and `SclSte` are not
sampled: every combination is there. `SclClientTwo` takes a request for each order of
the stages, one that halts, one whose answer cannot be written and one that is refused
before an operation runs (`KeyRequests`), and its calls are symmetric.

Three particles give a thread two partners, so that the order of its sums matters,
and a last block that is partial; the sites include ties, and the table is steep
enough for sums to overflow. Two steps of the filter are the fewest in which a step
meets what another left; models that forget, shear and exchange are those in which a
NaN is hidden, a covariance is not diagonal, and rows have to be exchanged. Two rows
are the fewest with an off-diagonal entry, and combinations from -4 to 4
(`SmallWeights`) reach a negative variance of every matrix of the instance that has
one. Two files show that a
later file does not hide an earlier one; two changes are an edit and its commit, or a
commit and its push, `MaxChanges`; two failures, `MaxFailures`, make two commands
print the same nothing.

Two writers are the fewest whose writes interleave, and `ExchangeProofs` has them in
any number; they start again without bound, so that a pair is made whole after a kill
or a mixture. One edit (`MaxEdits`) falls between any two reads or writes. Documents go
to three levels, every pair of values side by side in a mapping and in a sequence,
because what the emitter gets wrong it gets wrong at the seam of two frames. The texts
hold each escaped character, alone and next to a backslash; the floats straddle both
thresholds of `repr`. Shapes go to two states, two measured and two steps, with
payloads one word short and one too long, and each number in turn is replaced by a
bad one.

The runs of `SclCli`, `SclClient` and `SclSte` check for deadlock, which cannot happen
there: the device may always change. `LjEngines` checks for it too, and has an
explicit end. The verifier, the filter, the gate and an encoder really stop, and their
runs say so.

### Fairness

`SclCliAll` assumes weak fairness of each process's own step: a started process is
scheduled, and no stage of `run()` waits on anything but an stdin that ends.
`SclSte` assumes it only of the caller, whose deadline is a timer: the process may
hang for ever, and the call must still end. Nothing is assumed of the device, of
the build, or of failures. The other runs check safety only and assume nothing.

## 4. The proofs

Each module of proofs follows one pattern: an inductive invariant, a lemma for each
action, theorems that follow from the invariant. All hold for any sets of processes,
builds, requests and contents and any bound on failures and edits.

**The process** (`SclProofs`). `TypesHold`, `StagesHold` and `AnswersJustified` are
the invariants; `BackendComesFirst`, `NoEngineSubstituted` and `OutputMeansSuccess`
are what a caller relies on; `OneAnswerEach` and `AnswersAreFinal` are about what is
written: without failures one object and exit 0, but for bytes that are not UTF-8 and
numbers no double holds, and an answer that is final, but for the internal fault that a
failed write or a failure at that moment makes of it. `TypeOK` is not inductive alone,
because the type of a response rests on the process having a binary; `TypeInv` adds
`StageInv`, what has been established on arrival at each stage, and is inductive. `AnswerInv` is inductive relative to it: an
answer is justified by tests made several stages before it is decided, which is what
`StageInv` remembers; and `Write` copies what was decided. `OneAnswer` needs
`WritableInv` besides: an outcome that cannot be written has had nothing written for it.

`CpuAnswersAgree` relates two processes. `CpuVerdict` is the one answer a cpu request
has as long as nothing fails, with nothing of the host or the build in it, and
`BlameInv` says that every process of such a request settles on it unless the answer
could not be written, and which requests can be told which fault.

**The client** (`SclProofs`). `ClientInv` adds to these that each call keeps step
with its process (`InStep`) and that how a call ended is what the process left
(`Told`). `NoProcessOrphaned` and `WholeAnswersHeard` follow. For `ExceptionsEarned`
more is needed (`EarnedInv`): `WritableInv` and `BlameInv` of its process, and
`HeardInv`, that an exception is one of the channel's own or comes from a whole answer,
and that a process nothing failed is killed only by the deadline of its own call.
`CallersOfCpuAgree` is `CpuAnswersAgree` for processes that are started by calls.

**The service** (`SclProofs`). `ClientImplementsService` is the refinement
`ClientSpec => ServiceSafeSpec`. What has been decided is a function of the process
(`Decided`), and nothing as long as the outcome is `Withheld`: not settled, not
writable, or behind a fragment. Each step of a process either settles on an answer the
service may give at that instant (`Settles`), or replaces one by an internal fault
(`Spoils`), or goes unnoticed (`Unnoticed`); the instant is that of the last look at the
device, and `StageInv` says what the earlier looks established. It assumes `ClientAssumption`, that the requests are those the
client can send.

**The adapter** (`SclProofs`). `AdapterInv` has three parts: how far a
specification, its call and its result have come (`Ordered`), what a result repeats
(`Repeated`), and which build the version line is of as long as nobody has touched the
binary (`Dated`). `VersionIsOfTheRun`, `MethodBlockIsTrue` and `HaltsAreReported` are
the three invariants the run checks.

**The engines** (`LjEnginesProofs`) have the four properties of the run, for any number
of particles, any block size and any potential. The terms that one particle's partners
add are a row (`Forces`, `Energies`). A thread adds up its row from the left; the CPU,
which goes by pairs and subtracts from one particle what it adds to another, is at
every moment somewhere in every row: `CpuInv` and `CudaInv` say where. A sum that
overflows never becomes finite again, so one that is finite is exact, and exact sums
do not depend on order or grouping: that gives `EnginesAgree`. `ForcesBalance` is the
sum of an antisymmetric table. `RoomyInputsComplete` is the converse of the first
step, that nothing overflows where there is room, and needs that every particle has a
thread (`GridOK`).

**The filter** (`KalmanProofs`) has the three properties of the run, for any prime and
any problems; the first two for matrices of any size. `KalmanInv` is inductive: while the filter runs every array is of
the shape the problem gives it, and over numbers as long as nothing has overflowed
(`Born`), over doubles after that. So each helper has to be closed, over numbers and over
doubles (`Closed`): products, sums, the Joseph form, and an elimination, whose pivot is
some row and is divided by only if it is not 0. Division is where the prime comes in:
`InverseExists` takes the least remainder that a multiple of a number leaves, and it
divides the prime, so it is 1. `UnrefusedIsGiven` is what the rules of `Refusal` give
together. At the end, a NaN in what was stored means that something overflowed; and the
filter completes only if there is none in any step.

For `InverseIsInverse` the numbers are shown to be a field. An elimination exchanges two
rows, scales one and takes multiples of it from the others (`StepOf`), in both matrices
alike, so that whatever solves the system afterwards solved it before
(`StepLosesNothing`): `Solves` is the invariant of the loop, beside `UnitColumns`, that
the columns so far are those of the identity. If the loop ends, the last system reads
off its solution, for every right side, and that is the inverse (`SolvedIsInverse`). If
it meets no pivot, the column and the unit columns before it make a vector that the
matrix takes to zero, and no step has lost that one either (`SingularHasKernel`). This is
why the property speaks of such a vector and not of a determinant, which the reference
definition has for one or two rows only.

`StepIsBayesOfAnySize` says the same as `StepIsBayes` of covariances of any size, of
whatever inverts them instead of the adjugate; with matrices of one or two rows, the only
ones `Regular` speaks of, the one follows from the other. The proof is the matrix
inversion lemma, in the order in which the code computes:

1. Products associate, distribute over sums and are turned round by a transpose
   (`ProductAssociates`, `ProductOfSum`, `ProductWithSum`), by induction on the length of
   a row; sums cancel.
2. With the gain K = P H' / S, K S = P H' (`GainBalances`), so that
   (I - K H) P H' = K R (`ShortForm`), and what the Joseph form adds to (I - K H) P is
   nothing (`JosephIsShort`). S is symmetric, hence its inverse, hence (I - K H) P: the
   mean of its two halves is itself (`UpdateIsShort`). Halving is division by 2, and the
   prime is odd.
3. Let A invert P, B invert R, W = H' B. The precision A + W H takes K to W
   (`PrecisionOfGain`), and so (I - K H) P to the identity (`BayesCovariance`) and
   x + K v to A x + W z (`BayesMean`).

All this is over numbers and needs P, the prediction's covariance, to be symmetric. The
code makes every posterior symmetric, but not F P F' + Q, which need not be once there is
a NaN; and a NaN need not show in what is made of it, because `matmul` skips what a 0 on
the left would multiply. `UpdateInv` therefore says of the prediction that it is symmetric
where it is finite: then whatever NaNs the last posterior had met zeros only, and would
have done the same as zeros (`Unhidden`, `PredictionIsSymmetric`). The other arrays of
the step are over numbers because the state, S and the prediction are finite, and an
inversion of numbers that completes gives numbers (`InvertedInv` says that it completed).
`KalmanInv`, `InvertedInv` and `UpdateInv` together are inductive.

**The gate** (`CovarianceProofs`) has the four properties of the run, for entries,
tolerances and gains of any size. `NonFiniteIsRefused` is by the order of the tests and
what `std::max` keeps of a NaN. For `AcceptedHasVariances`, write the matrix less its
smallest eigenvalue as rows (k, b) and (c, l): then k l = b c, the form u' M u is the
eigenvalue times |u|^2 and a form with off-diagonal (b + c) / 2, and that form is not
negative once half of |b - c| is added to its diagonal (`Widened`), which is exactly
what `forgiven` allows for. `RefusedHasNegativeVariance` takes the eigenvector (b, -k),
of integers because the eigenvalue is one; it is proved for `Weights = Int`, because a
finite set of weights need not hold it. For `UpdateKeepsCovariance` the determinant of
the Joseph form is written as det(I - KH)^2 det(P) and R times the form of P along a
combination of the rows of I - KH (`JosephPolynomials`, `Widening`): each is not
negative, for any gain.

**The encoders** (`CodecsProofs`) have the five properties, for matrices of any shape,
signals and particles of any number, names of any length. Every encoder lays rows one
after another and every decoder cuts them out by position, so that it comes down to two
facts: what `FlattenSeq` lays down `RowsOf` takes up, and the other way round. The
first gives `EncodedIsUnderstood` and `ContentIsOfTheRun`, the second
`OneMeaningOneEncoding`. There the spacing and the tolerances mean numbers, so that a
zero with a sign would be a second encoding of zero (`AsNumbers`), and the decoders have
to refuse it; what is computed from keeps the sign of its zeros. `IdentityIsOfOneRequest` is that a tagged and length-framed
chain of bytes has one reading, and `BinsAreFrequencies` is arithmetic. The attempt
found what the run had too few shapes to show: a design of no columns and a filter of
no states or no measured values are refused although their parts agree, so that
`Ordinary`, which says when nothing may be refused, now asks for something of
everything.

`QuotedTextIsRead`, in the same module, is the part of `ReadsBack` that TLAPS can be
asked about, for texts of any characters and any length: whatever follows a quoted text,
where it ends and what it says can be read from its front, so that no two keys and no two
strings have the same bytes. Each of the five replacements takes a text character by
character (`ReplaceDistributes`), hence all of them do (`EscapeDistributes`), and what the
first four put there the later ones leave alone (`PairKept`): this is where the order
matters, for a backslash replaced last would be doubled in the escapes of the others. The
codes of the characters are then such that none begins another (`EscapesDiffer`), nor
begins with a quote (`QuoteComesLast`), and a text is read off by induction.

`Induction` serves the last four. Sums and concatenations are recursive functions, and
what such a function is has to be derived: a table that is defined from each entry to
the next exists (`TableExists`), by induction over a set of numbers (`UpToInduction`),
because the induction theorems of the library take a predicate as a parameter, which
the provers cannot instantiate.

**The pair verifier** (`PairLandedProofs`) has all three properties of the run
`PairLanded`, and that a failed git command is never taken for a landed pair, not even
when two of them print the same nothing (`FailureIsNeverLanded`). None of them is inductive, because a verdict is given long
after what it rests on was looked at. `PairInv` says at each point of the program what
has been looked at so far and is still so unless somebody interfered: `SyncInv` for
what git answered, `FileInv` for the listings and digests (each shared file is the
same, or being compared, or still to come), `FailInv` for a failure on its way into the
verdict, and `AlarmInv` for the converse, that nothing spoils the verdict on a pair
that has landed. `PeopleLeaveAlone` is the lemma about the surroundings.

**The generators** (`ExchangeProofs`) have the three invariants about processes:
`PairsAreWhole` from `EpochInv` (while one document is being written, each file is it,
or somebody is about to write it), `SourcesArePublished` and `VerdictsAreEarned` from
`StillInv`, what an undisturbed process knows at each stage of its sources and of the
two files (`Knows`). Bytes and digests are injective by construction (`DigestsAreApart`):
that different documents have different bytes is `ReadsBack`, and that no two bytes
have one digest is SHA-256's.

The assumptions are the named `ASSUME`s of the modules: CUDA builds are builds, each
build has a version line, requests are possible ones, no build is called `NoBuild`,
`Absent` is no content, `Empty` is neither a branch nor a commit, each source has a
content to begin with; the potential has a double wherever the engines ask for one;
what the filter, the gate, the update and the encoders are called with is of the form
that `IsProblem`, `IsInput`, `IsUpdate` and `IsExchange` describe; the modulus is an odd prime; NaN is no number.

Only model-checked: `ReadsBack`, `OneSerialization` and `RefusalIsExact` of
`CanonicalYaml`, whose emitter and reader are RECURSIVE operators over nested values,
which TLAPS does not take (of `ReadsBack`, the quoted texts are proved); and the two
liveness properties, `EveryProcessExits` and `EveryCallEnds`, which are beyond it too.

## 5. What is not modelled

- Rounding, and with it the tolerance of every comparison of doubles, and what depends
  on the order of real numbers inside the filter (its smallest posterior eigenvalue).
  The rotations of Jacobi are taken at their result, and matrices on which they do not
  converge are left out.
- The transform and the solver themselves: only which faults they report. Singular
  values are real arithmetic; see the plan for the transform.
- The product of two 32-bit counts that wraps modulo 2^64: `SclOperations` has the
  answer to such a shape, `Codecs` has no payload of that size.
- SHA-256, JSON and hexadecimal as text.
- The prose of the generated documents, the constant fields of the method blocks and
  the reasons they give.
- Device memory that a failed CUDA call leaves allocated: the process ends at once.
- Wall-clock, metrics, and the benchmark, which only measures time.

## 6. Plan

1. `Fourier`: the two engines of the transform over a finite field with a root of
   unity: the inverse, the normalisations, and the direct sum against the kernel's.
2. `LeastSquares`: the refusals in their order, the truncation by rank, and what the
   diagnostics report when it happens.
