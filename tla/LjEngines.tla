----------------------------- MODULE LjEngines ------------------------------
(***************************************************************************)
(* The two engines of lj_pairwise_energy_forces on one input: the pair     *)
(* loop of the CPU, then the kernel with one thread for each particle.     *)
(* Particles sit on a line. A double is an integer up to Big, or Inf,      *)
(* which stands for every value that is not finite and never goes away.    *)
(***************************************************************************)
EXTENDS Integers

CONSTANTS
    N,                \* particles
    ThreadsPerBlock,
    Sites,            \* the positions a particle may have, integers
    Cutoffs,          \* the values of cutoff * cutoff
    Energy, Strength, \* pair_energy and fscalar, doubles, as functions of r2
    Big,              \* the largest double
    Inf,
    Unwritten         \* what cudaMalloc leaves in memory

Double == (-Big..Big) \cup {Inf}
Particles == 1..N

\* The potential has a value wherever the engines ask for one.
ASSUME LjAssumption ==
    /\ N \in Nat \ {0}
    /\ ThreadsPerBlock \in Nat \ {0}
    /\ Sites \subseteq Int /\ Cutoffs \subseteq Nat
    /\ Big \in Nat /\ Inf \notin Int /\ Unwritten \notin Int \cup {Inf}
    /\ \A a, b \in Sites, c \in Cutoffs :
          LET r == (a - b) * (a - b)
          IN  r # 0 /\ r <= c => Energy[r] \in Double /\ Strength[r] \in Double

VARIABLES
    position, cutoff2,  \* the input
    pair,               \* the CPU loop: the next pair <<i, j>>
    energy, forces,     \* its sums
    thread,             \* each thread: the next partner it visits, and its own sums
    device,             \* device_energy and device_forces: Unwritten until a thread stores
    cpu, cuda           \* the LJResult of each engine

vars == <<position, cutoff2, pair, energy, forces, thread, device, cpu, cuda>>

Finite(x) == x # Inf
Plus(x, y) ==
    IF Finite(x) /\ Finite(y) /\ x + y \in -Big..Big THEN x + y ELSE Inf
Times(x, y) == IF Finite(x) /\ x * y \in -Big..Big THEN x * y ELSE Inf

dx(i, j) == position[i] - position[j]
r2(i, j) == dx(i, j) * dx(i, j)

\* Mutant: the force has the strength of the pair and no direction.
fdxUnsigned(i, j) == Times(Strength[r2(i, j)], IF dx(i, j) < 0 THEN -dx(i, j) ELSE dx(i, j))

fdx(i, j) == Times(Strength[r2(i, j)], dx(i, j))

Pending == [ok |-> FALSE, fault |-> "pending", total_energy |-> 0,
            forces |-> [i \in Particles |-> 0]]
Fault(f) == [Pending EXCEPT !.fault = f]
Success(e, f) == [ok |-> TRUE, fault |-> "none", total_energy |-> e, forces |-> f]

Idle == [next |-> 0, e |-> 0, f |-> 0]
NoMemory == [i \in Particles |-> [e |-> Unwritten, f |-> Unwritten]]

Init ==
    /\ position \in [Particles -> Sites]
    /\ cutoff2 \in Cutoffs
    /\ pair = <<1, 2>>
    /\ energy = 0
    /\ forces = [i \in Particles |-> 0]
    /\ thread = <<>>
    /\ device = NoMemory
    /\ cpu = Pending
    /\ cuda = Pending

-----------------------------------------------------------------------------
(* compute_lj_pairwise_cpu *)

\* Mutant: the inner loop starts one partner too far.
NextPairSkips(i, j) == IF j < N THEN <<i, j + 1>> ELSE <<i + 1, i + 3>>

NextPair(i, j) == IF j < N THEN <<i, j + 1>> ELSE <<i + 1, i + 2>>

CpuPair ==
    LET i == pair[1]
        j == pair[2]
    IN  /\ cpu = Pending
        /\ j <= N
        /\ IF r2(i, j) = 0
           THEN cpu' = Fault("CoincidentParticles") /\ UNCHANGED <<pair, energy, forces>>
           ELSE /\ IF r2(i, j) > cutoff2
                   THEN UNCHANGED <<energy, forces>>
                   ELSE /\ energy' = Plus(energy, Energy[r2(i, j)])
                        /\ forces' = [forces EXCEPT ![i] = Plus(@, fdx(i, j)),
                                                    ![j] = Plus(@, fdx(j, i))]
                /\ pair' = NextPair(i, j)
                /\ UNCHANGED cpu
        /\ UNCHANGED <<position, cutoff2, thread, device, cuda>>

CpuReturn ==
    /\ cpu = Pending
    /\ pair[2] > N
    /\ cpu' = IF Finite(energy) /\ \A i \in Particles : Finite(forces[i])
              THEN Success(energy, forces)
              ELSE Fault("NonFinite")
    /\ UNCHANGED <<position, cutoff2, pair, energy, forces, thread, device, cuda>>

-----------------------------------------------------------------------------
(* compute_lj_pairwise_cuda; the CPU has answered, so that the two compare *)

\* Mutant: the last, partial block is not launched.
BlocksRoundedDown == N \div ThreadsPerBlock

Blocks == (N + ThreadsPerBlock - 1) \div ThreadsPerBlock

Launch ==
    /\ cpu # Pending /\ cuda = Pending /\ thread = <<>>
    /\ thread' = [t \in 1..(Blocks * ThreadsPerBlock) |->
           IF t <= N THEN [Idle EXCEPT !.next = 1] ELSE Idle]
    /\ UNCHANGED <<position, cutoff2, pair, energy, forces, device, cpu, cuda>>

\* One iteration of thread t's loop: itself, a coincident or a distant partner add nothing.
Visit(t, j) ==
    IF j = t \/ r2(t, j) = 0 \/ r2(t, j) > cutoff2
    THEN [thread[t] EXCEPT !.next = j + 1]
    ELSE [next |-> j + 1,
          e |-> Plus(thread[t].e, Energy[r2(t, j)]),
          f |-> Plus(thread[t].f, fdx(t, j))]

ThreadStep(t) ==
    /\ cuda = Pending
    /\ thread[t].next \in 1..N
    /\ thread' = [thread EXCEPT ![t] = Visit(t, thread[t].next)]
    /\ UNCHANGED <<position, cutoff2, pair, energy, forces, device, cpu, cuda>>

ThreadStore(t) ==
    /\ cuda = Pending
    /\ thread[t].next = N + 1
    /\ device' = [device EXCEPT ![t] = [e |-> thread[t].e, f |-> thread[t].f]]
    /\ thread' = [thread EXCEPT ![t] = Idle]
    /\ UNCHANGED <<position, cutoff2, pair, energy, forces, cpu, cuda>>

\* The values of all particles, added in their order: the sum after each.
Running(v) ==
    LET sum[i \in 0..N] == IF i = 0 THEN 0 ELSE Plus(sum[i - 1], v[i]) IN sum
total_twice == Running([i \in Particles |-> device[i].e])[N]

\* Mutant: the double count is not taken back.
CudaTotalNotHalved == total_twice

CudaTotal == total_twice \div 2

\* cudaDeviceSynchronize, the copies back, and the host's loop. What a missing thread
\* has not stored would be read here.
CopyBack ==
    /\ cuda = Pending
    /\ thread # <<>> /\ \A t \in DOMAIN thread : thread[t].next = 0
    /\ cuda' =
           IF \E i \in Particles : device[i].e = Unwritten
           THEN Fault("unwritten")
           ELSE IF ~Finite(total_twice) \/ \E i \in Particles : ~Finite(device[i].f)
           THEN Fault("NonFinite")
           ELSE Success(CudaTotal, [i \in Particles |-> device[i].f])
    /\ UNCHANGED <<position, cutoff2, pair, energy, forces, thread, device, cpu>>

\* Any CUDA call may fail: SCL_CUDA_CHECK throws.
CudaFails ==
    /\ cpu # Pending /\ cuda = Pending
    /\ cuda' = Fault("runtime_error")
    /\ UNCHANGED <<position, cutoff2, pair, energy, forces, thread, device, cpu>>

-----------------------------------------------------------------------------

Terminated == cuda # Pending /\ UNCHANGED vars

Next ==
    \/ CpuPair \/ CpuReturn
    \/ Launch \/ CopyBack \/ CudaFails
    \/ \E t \in DOMAIN thread : ThreadStep(t) \/ ThreadStore(t)
    \/ Terminated

Spec == Init /\ [][Next]_vars

-----------------------------------------------------------------------------
(* Properties *)

Coincident == \E i, j \in Particles : i # j /\ r2(i, j) = 0

\* The exact sums of a value of each particle.
Sums(v) ==
    LET sum[i \in 0..N] == IF i = 0 THEN 0 ELSE sum[i - 1] + v[i] IN sum
Sum(v) == Sums(v)[N]

\* Room for every sum in any order, counted from both sides.
Absolute(x) == IF x < 0 THEN -x ELSE x
Near(i, j) == j # i /\ r2(i, j) # 0 /\ r2(i, j) <= cutoff2
Forces(i) == [j \in Particles |-> IF Near(i, j) THEN fdx(i, j) ELSE 0]
Energies(i) == [j \in Particles |-> IF Near(i, j) THEN Energy[r2(i, j)] ELSE 0]
Magnitudes(v) == [j \in Particles |-> Absolute(v[j])]
Roomy ==
    /\ \A i, j \in Particles : Finite(Forces(i)[j]) /\ Finite(Energies(i)[j])
    /\ \A i \in Particles : Sum(Magnitudes(Forces(i))) <= Big
    /\ Sum([i \in Particles |-> Sum(Magnitudes(Energies(i)))]) <= Big

\* When both engines complete they give the same energy and the same force on every
\* particle, whatever the interleaving of the threads, although one visits each pair
\* once and the other twice.
EnginesAgree ==
    cpu.ok /\ cuda.ok => cpu.total_energy = cuda.total_energy /\ cpu.forces = cuda.forces

\* With no coincident pair and room for the sums, both engines complete, unless a CUDA
\* call fails.
RoomyInputsComplete ==
    ~Coincident /\ Roomy =>
        /\ cpu.fault \in {"pending", "none"}
        /\ cuda.fault \in {"pending", "none", "runtime_error"}

\* The CPU answers a coincident pair as such, wherever in the loop it comes and however
\* far the sums have overflown by then, and answers so for nothing else.
CoincidentIsReported ==
    cpu # Pending => (Coincident <=> cpu.fault = "CoincidentParticles")

\* What completes balances: the forces of an isolated system add up to nothing.
ForcesBalance ==
    \A r \in {cpu, cuda} : r.ok => Sum(r.forces) = 0

=============================================================================
