------------------------------- MODULE Codecs -------------------------------
(***************************************************************************)
(* What the Python encoders make of a call, what the operations make of    *)
(* the bytes, and what the adapter reads in the bytes that come back; and  *)
(* the identities of requests. A payload is its int32 header and the words *)
(* of eight bytes after it: a double, or eight bytes of an identity, which *)
(* any decoder will take for the other when it finds one in its place.     *)
(***************************************************************************)
EXTENDS Integers, Sequences, SequencesExt

CONSTANT Exchanges
    \* a sequence of sets of what is sent: calls, specifications, two requests to tell apart

VARIABLES sent, received

\* The words, least first; no comparison holds of the last of them.
Ordered == <<"-1", "-0", "0", "tiny", "half", "1", "source", "inf">>
EightBytes == {Ordered[k] : k \in DOMAIN Ordered} \cup {"nan"}
Float64 == EightBytes \ {"source"}
rank(x) == IF x = "-0" THEN 3 ELSE CHOOSE i \in DOMAIN Ordered : Ordered[i] = x
Less(x, y) == "nan" \notin {x, y} /\ rank(x) < rank(y)
AtLeast(x, y) == "nan" \notin {x, y} /\ rank(x) >= rank(y)
signbit(x) == x \in {"-1", "-0"}
isfinite(x) == x \notin {"inf", "nan"}
Finite(words) == \A k \in DOMAIN words : isfinite(words[k])

Payload(ints, words) == [ints |-> ints, words |-> words]
ValueError == [raised |-> "ValueError"]
Refused == [refused |-> TRUE]
Raises(x) == "raised" \in DOMAIN x
Accepted(x) == "refused" \notin DOMAIN x

IsMatrix(a, rows, cols) == Len(a) = rows /\ \A r \in DOMAIN a : Len(a[r]) = cols
\* count rows of width words, from the word after start.
RowsOf(words, start, count, width) ==
    [r \in 1..count |-> SubSeq(words, start + (r - 1) * width + 1, start + r * width)]

-----------------------------------------------------------------------------
(* lj_pairwise_energy_forces *)

encode_lj_configuration(q) == Payload(<<>>, <<q.epsilon, q.sigma, q.cutoff>>)
encode_lj_positions(q) == Payload(<<>>, FlattenSeq(q.positions))

validate_lj_input(q) ==
    /\ q.positions # <<>>
    /\ AtLeast(q.epsilon, "0") /\ isfinite(q.epsilon)
    /\ \A x \in {q.sigma, q.cutoff} : Less("0", x) /\ isfinite(x)
    /\ \A k \in DOMAIN q.positions : Finite(q.positions[k])

DecodeLj(c, i) ==
    IF Len(c.words) # 3 \/ Len(i.words) % 3 # 0 THEN Refused
    ELSE LET q == [epsilon |-> c.words[1], sigma |-> c.words[2], cutoff |-> c.words[3],
                   positions |-> RowsOf(i.words, 0, Len(i.words) \div 3, 3)]
         IN  IF validate_lj_input(q) THEN q ELSE Refused

-----------------------------------------------------------------------------
(* fourier_transform_1d *)

encode_fourier_configuration(q) ==
    Payload(<<q.direction, q.normalization, IF q.spacing = "None" THEN 0 ELSE 1, 0>>,
            <<IF q.spacing = "None" THEN "0" ELSE q.spacing>>)
encode_complex_signal(q) == Payload(<<>>, FlattenSeq(q.signal))

\* Mutant: what stands in the place of an absent spacing is compared with zero.
SpacingComparesZero(has_spacing, spacing) ==
    /\ has_spacing \in {0, 1}
    /\ has_spacing = 0 => AtLeast(spacing, "0") /\ AtLeast("0", spacing)
    /\ has_spacing = 1 => isfinite(spacing) /\ Less("0", spacing)

\* Absent, it is +0.0 and nothing else.
SpacingIsCanonical(has_spacing, spacing) ==
    /\ has_spacing \in {0, 1}
    /\ has_spacing = 0 => AtLeast(spacing, "0") /\ AtLeast("0", spacing) /\ ~signbit(spacing)
    /\ has_spacing = 1 => isfinite(spacing) /\ Less("0", spacing)

DecodeFourier(c, i) ==
    IF /\ Len(c.words) = 1 /\ Len(i.words) % 2 = 0 /\ i.words # <<>> /\ Finite(i.words)
       /\ c.ints[1] \in {1, -1} /\ c.ints[2] \in {0, 1, 2} /\ c.ints[4] = 0
       /\ SpacingIsCanonical(c.ints[3], c.words[1])
    THEN [direction |-> c.ints[1], normalization |-> c.ints[2],
          spacing |-> IF c.ints[3] = 1 THEN c.words[1] ELSE "None",
          signal |-> RowsOf(i.words, 0, Len(i.words) \div 2, 2)]
    ELSE Refused

-----------------------------------------------------------------------------
(* least_squares *)

encode_least_squares_configuration(q) ==
    Payload(<<IF q.weighted THEN 1 ELSE 0, 0, 0, 0>>, <<q.rank_tolerance>>)

\* Mutant: the weights before the response.
encode_least_squares_input_swapped(q) ==
    LET rows == Len(q.design)
    IN  IF \/ rows = 0 \/ Len(q.response) # rows
           \/ ~IsMatrix(q.design, rows, Len(q.design[1]))
           \/ q.weights # <<>> /\ Len(q.weights) # rows THEN ValueError
        ELSE Payload(<<rows, Len(q.design[1])>>,
                     FlattenSeq(q.design) \o q.weights \o q.response)

\* No weights are an empty sequence of them.
encode_least_squares_input(q) ==
    LET rows == Len(q.design)
    IN  IF \/ rows = 0 \/ Len(q.response) # rows
           \/ ~IsMatrix(q.design, rows, Len(q.design[1]))
           \/ q.weights # <<>> /\ Len(q.weights) # rows THEN ValueError
        ELSE Payload(<<rows, Len(q.design[1])>>,
                     FlattenSeq(q.design) \o q.response \o q.weights)

\* With what the solver refuses at once: a design that is too short, and a weight.
DecodeLeastSquares(c, i) ==
    LET weighted == c.ints[1]   rows == i.ints[1]   cols == i.ints[2]
        given == rows * cols
    IN  IF /\ Len(c.words) = 1
           /\ weighted \in {0, 1} /\ \A k \in 2..4 : c.ints[k] = 0
           /\ isfinite(c.words[1]) /\ Less("0", c.words[1]) /\ Less(c.words[1], "1")
           /\ cols > 0 /\ rows >= cols /\ Len(i.words) = given + rows * (1 + weighted)
           /\ Finite(SubSeq(i.words, 1, given + rows))
           /\ \A k \in (given + rows + 1)..Len(i.words) :
                  isfinite(i.words[k]) /\ AtLeast(i.words[k], "0")
        THEN [weighted |-> weighted = 1, rank_tolerance |-> c.words[1],
              design |-> RowsOf(i.words, 0, rows, cols),
              response |-> SubSeq(i.words, given + 1, given + rows),
              weights |-> SubSeq(i.words, given + rows + 1, Len(i.words))]
        ELSE Refused

-----------------------------------------------------------------------------
(* kalman_filter_linear *)

\* Q is asserted, 0; _flatten raises for a matrix of another shape.
encode_kalman_configuration(q) ==
    LET n == Len(q.F)   m == Len(q.H)
    IN  IF /\ IsMatrix(q.F, n, n) /\ IsMatrix(q.H, m, n)
           /\ IsMatrix(q.Q, n, n) /\ IsMatrix(q.R, m, m)
        THEN Payload(<<n, m, 0, q.provenance, 0, 0>>,
                     <<q.symmetry_tolerance, q.psd_tolerance>>
                     \o FlattenSeq(q.F) \o FlattenSeq(q.H) \o FlattenSeq(q.Q) \o FlattenSeq(q.R))
        ELSE ValueError

\* Neither dimension is in it.
encode_kalman_input(q) ==
    LET n == Len(q.x0)   steps == Len(q.z)
    IN  IF steps = 0 THEN ValueError
        ELSE IF IsMatrix(q.P0, n, n) /\ IsMatrix(q.z, steps, Len(q.z[1]))
        THEN Payload(<<steps, Len(q.source)>>,
                     q.x0 \o FlattenSeq(q.P0) \o FlattenSeq(q.z) \o q.source)
        ELSE ValueError

\* Mutant: the comparison alone, which holds of zero with a sign.
ToleranceCompares(x) == AtLeast(x, "0")

Tolerance(x) == AtLeast(x, "0") /\ ~signbit(x)

\* As far as the decoders and the provenance go: covariances are Covariance's matter.
DecodeKalman(c, i) ==
    LET n == c.ints[1]   m == c.ints[2]   steps == i.ints[1]   id_len == i.ints[2]
        H_at == 2 + n * n   Q_at == H_at + m * n   R_at == Q_at + n * n
        z_at == n + n * n   source_at == z_at + steps * m
        q == [F |-> RowsOf(c.words, 2, n, n), H |-> RowsOf(c.words, H_at, m, n),
              Q |-> RowsOf(c.words, Q_at, n, n), R |-> RowsOf(c.words, R_at, m, m),
              provenance |-> c.ints[4],
              symmetry_tolerance |-> c.words[1], psd_tolerance |-> c.words[2],
              x0 |-> SubSeq(i.words, 1, n), P0 |-> RowsOf(i.words, n, n, n),
              z |-> RowsOf(i.words, z_at, steps, m),
              source |-> SubSeq(i.words, source_at + 1, Len(i.words))]
    IN  IF /\ Len(c.words) >= 2 /\ n > 0 /\ m > 0
           /\ c.ints[3] \in {0, 1} /\ c.ints[4] \in {0, 1} /\ c.ints[5] = 0 /\ c.ints[6] = 0
           /\ Tolerance(c.words[1]) /\ Tolerance(c.words[2])
           /\ Len(c.words) = R_at + m * m
           /\ steps > 0 /\ id_len >= 0 /\ Len(i.words) = source_at + id_len
           /\ Finite(SubSeq(c.words, 3, Q_at))
           /\ Finite(q.x0) /\ \A k \in 1..steps : Finite(q.z[k])
           /\ c.ints[3] = 0 /\ (c.ints[4] = 1 <=> q.source # <<>>)
        THEN q ELSE Refused

-----------------------------------------------------------------------------
(* Both halves of a request *)

Encode(op, q) ==
    CASE op = "lj_pairwise_energy_forces" ->
            <<encode_lj_configuration(q), encode_lj_positions(q)>>
      [] op = "fourier_transform_1d" ->
            <<encode_fourier_configuration(q), encode_complex_signal(q)>>
      [] op = "least_squares" ->
            <<encode_least_squares_configuration(q), encode_least_squares_input(q)>>
      [] op = "kalman_filter_linear" ->
            <<encode_kalman_configuration(q), encode_kalman_input(q)>>

Decode(op, c, i) ==
    CASE op = "lj_pairwise_energy_forces" -> DecodeLj(c, i)
      [] op = "fourier_transform_1d" -> DecodeFourier(c, i)
      [] op = "least_squares" -> DecodeLeastSquares(c, i)
      [] op = "kalman_filter_linear" -> DecodeKalman(c, i)

-----------------------------------------------------------------------------
(* The STE program descriptor, as a sequence of symbols *)

Marker == <<"LF", "[backend]", "LF">>
Translated(text, old, new) == [k \in DOMAIN text |-> IF text[k] = old THEN new ELSE text[k]]

descriptor_header(operation) == <<"ste.scl.">> \o Translated(operation, "_", "-") \o <<".v1">>

operation_from_descriptor_header(header) ==
    Translated(SubSeq(header, 2, Len(header) - 1), "-", "_")

scl_program_descriptor(version_line, backend, operation) ==
    descriptor_header(operation) \o <<"LF">> \o version_line \o Marker \o backend

\* The first occurrence of a sequence in another; none is past the end.
Find(text, part) ==
    LET at == {k \in 1..(Len(text) - Len(part) + 1) :
                  SubSeq(text, k, k + Len(part) - 1) = part}
    IN  IF at = {} THEN Len(text) + 1 ELSE CHOOSE k \in at : \A l \in at : k <= l

split_descriptor(program) ==
    LET mark == Find(program, Marker)
        head == SubSeq(program, 1, mark - 1)
        end == Find(head, <<"LF">>)
    IN  IF mark > Len(program) \/ end > Len(head) \/ head[1] # "ste.scl." \/ head[end - 1] # ".v1"
        THEN [raised |-> "EngineProtocolError"]
        ELSE [version_line |-> SubSeq(head, end + 1, Len(head)),
              operation |-> operation_from_descriptor_header(SubSeq(head, 1, end - 1)),
              backend |-> SubSeq(program, mark + 3, Len(program))]

-----------------------------------------------------------------------------
(* What the adapter reads in a completed run *)

\* A deterministic run estimates no uncertainty. The other fields are in place in
\* everything that is made here.
absent_uncertainty(value, unit) ==
    [value |-> value, unit |-> unit, uncertainty |-> "None", uncertainty_kind |-> "absent"]

applicable(value) == [applicable |-> TRUE, value |-> value]
not_applicable == [applicable |-> FALSE, value |-> "None"]

lj_method_block_for(cutoff, n_particles, backend, kernel_version) ==
    [potential_version |-> applicable(kernel_version), cutoff |-> applicable(cutoff),
     n_particles |-> applicable(n_particles), backend |-> applicable(backend),
     temperature |-> not_applicable, timestep |-> not_applicable]

fourier_method_block_for(direction, normalization, n_samples, spacing, backend, kernel_version) ==
    [direction |-> applicable(CASE direction = 1 -> "forward" [] direction = -1 -> "inverse"
                                [] OTHER -> "unknown"),
     normalization |-> applicable(CASE normalization = 0 -> "none"
                                    [] normalization = 1 -> "one_over_n"
                                    [] normalization = 2 -> "one_over_sqrt_n"
                                    [] OTHER -> "unknown"),
     n_samples |-> applicable(n_samples), kernel_version |-> applicable(kernel_version),
     algorithm |-> applicable(IF backend = <<"cpu">> THEN "direct_dft_on2" ELSE "cufft"),
     backend |-> applicable(backend), windowing |-> not_applicable,
     frequency_axis |-> IF spacing = "None" THEN not_applicable ELSE applicable(spacing)]

\* Mutant: the bin of the Nyquist frequency reads as a negative one.
frequency_bins_below(n, spacing) ==
    IF spacing = "None" THEN "None"
    ELSE IF n <= 0 \/ ~Less("0", spacing) THEN [raised |-> "SCLProtocolError"]
    ELSE [k \in 0..(n - 1) |-> IF k * 2 < n THEN k ELSE k - n]

\* In units of 1 / (n * spacing).
frequency_bins(n, spacing) ==
    IF spacing = "None" THEN "None"
    ELSE IF n <= 0 \/ ~Less("0", spacing) THEN [raised |-> "SCLProtocolError"]
    ELSE [k \in 0..(n - 1) |-> IF k * 2 <= n THEN k ELSE k - n]

\* What the two operations answer with.
encode_output(total_energy, forces) == <<total_energy>> \o FlattenSeq(forces)
encode_spectrum(spectrum) == FlattenSeq(spectrum)

decode_lj_output(output) ==
    [total_energy |-> output[1], forces |-> RowsOf(output, 1, (Len(output) - 1) \div 3, 3)]
decode_complex_spectrum(output) == RowsOf(output, 0, Len(output) \div 2, 2)

\* Mutant: the flag is not looked at.
decode_fourier_spacing_unflagged(c) == c.words[1]

decode_fourier_spacing(c) == IF c.ints[3] = 1 THEN c.words[1] ELSE "None"

interpret_lj_result(program, c, i, output) ==
    LET result == decode_lj_output(output)
        said == split_descriptor(program)
    IN  [value |-> result.total_energy,
         total_energy |-> absent_uncertainty(result.total_energy, "epsilon"),
         forces |-> [k \in DOMAIN result.forces |-> [x \in 1..3 |->
                        absent_uncertainty(result.forces[k][x], "epsilon_per_sigma")]],
         method_block |-> lj_method_block_for(c.words[3], Len(i.words) \div 3,
                                              said.backend, said.version_line),
         parameters |-> [epsilon |-> c.words[1], sigma |-> c.words[2]]]

interpret_fourier_result(program, c, output) ==
    LET spectrum == decode_complex_spectrum(output)
        spacing == decode_fourier_spacing(c)
        said == split_descriptor(program)
    IN  [spectrum |-> [k \in DOMAIN spectrum |-> [x \in 1..2 |->
                          absent_uncertainty(spectrum[k][x], "amplitude")]],
         method_block |-> fourier_method_block_for(c.ints[1], c.ints[2], Len(spectrum), spacing,
                                                   said.backend, said.version_line),
         frequency_hz |-> frequency_bins(Len(spectrum), spacing)]

-----------------------------------------------------------------------------
(* Identities. Bytes are numbers, and a u64 is a byte and seven zeros. A   *)
(* digest is taken for the bytes it is of.                                 *)

OPERATION_TAG == <<1, 2, 9>>
PARAMETERS_TAG == <<1, 3, 9>>
INPUT_TAG == <<1, 4, 9>>
REQUEST_TAG == <<1, 9>>

U64(n) == <<n, 0, 0, 0, 0, 0, 0, 0>>

\* Mutant: the fields without their lengths.
canonical_unframed(tag, fields) ==
    U64(Len(tag)) \o tag \o U64(Len(fields)) \o FlattenSeq(fields)

canonical(tag, fields) ==
    U64(Len(tag)) \o tag \o U64(Len(fields))
    \o FlattenSeq([k \in DOMAIN fields |-> U64(Len(fields[k])) \o fields[k]])

commit_hex(tag, fields) == [sha256 |-> canonical(tag, fields)]

operation_identity(r) == commit_hex(OPERATION_TAG, <<r.operation, r.backend>>)
parameters_identity(r) == commit_hex(PARAMETERS_TAG, <<r.parameters>>)
input_identity(r) == commit_hex(INPUT_TAG, <<r.input_payload>>)
identity(r) ==
    commit_hex(REQUEST_TAG, <<r.operation, r.backend, r.parameters, r.input_payload>>)

identities(r) ==
    <<operation_identity(r), parameters_identity(r), input_identity(r), identity(r)>>

-----------------------------------------------------------------------------
(* What is sent *)

\* What a caller passes: of any size, the triples and the pairs excepted.
Message(op) ==
    CASE op = "lj_pairwise_energy_forces" ->
            [epsilon : Float64, sigma : Float64, cutoff : Float64,
             positions : Seq([1..3 -> Float64])]
      [] op = "fourier_transform_1d" ->
            [direction : Int, normalization : Int, spacing : Float64 \cup {"None"},
             signal : Seq([1..2 -> Float64])]
      [] op = "least_squares" ->
            [weighted : BOOLEAN, rank_tolerance : Float64, design : Seq(Seq(Float64)),
             response : Seq(Float64), weights : Seq(Float64)]
      [] op = "kalman_filter_linear" ->
            [F : Seq(Seq(Float64)), H : Seq(Seq(Float64)), Q : Seq(Seq(Float64)),
             R : Seq(Seq(Float64)), provenance : Int, symmetry_tolerance : Float64,
             psd_tolerance : Float64, x0 : Seq(Float64), P0 : Seq(Seq(Float64)),
             z : Seq(Seq(Float64)), source : Seq({"source"})]

\* How many int32 the two halves begin with.
Headers ==
    [lj_pairwise_energy_forces |-> <<0, 0>>, fourier_transform_1d |-> <<4, 0>>,
     least_squares |-> <<4, 2>>, kalman_filter_linear |-> <<6, 2>>]

IsPayload(p, header) ==
    p \in [ints : Seq(Int), words : Seq(EightBytes)] /\ Len(p.ints) = header

\* A version is one line, and an operation has the name of a function.
IsSpecification(s) ==
    /\ IsPayload(s.configuration, Headers[s.operation][1])
    /\ IsPayload(s.input, Headers[s.operation][2])
    /\ {s.version_line, s.backend, s.operation_symbols} \subseteq Seq(STRING)
    /\ \A k \in DOMAIN s.version_line : s.version_line[k] # "LF"
    /\ s.version_line # <<"[backend]">>
    /\ \A k \in DOMAIN s.operation_symbols : s.operation_symbols[k] \notin {"LF", "-"}

IsRequest(r) == {r.operation, r.backend, r.parameters, r.input_payload} \subseteq Seq(Nat)

IsExchange(s) ==
    \/ s.kind = "call" /\ s.operation \in DOMAIN Headers /\ s.message \in Message(s.operation)
    \/ s.kind = "specification" /\ s.operation \in DOMAIN Headers /\ IsSpecification(s)
    \/ s.kind = "requests" /\ IsRequest(s.a) /\ IsRequest(s.b)

ASSUME ExchangesAssumption == \A k \in DOMAIN Exchanges : \A s \in Exchanges[k] : IsExchange(s)

Nothing == [pending |-> TRUE]

CodecInit == (\E k \in DOMAIN Exchanges : sent \in Exchanges[k]) /\ received = Nothing

\* A caller encodes, and the operation decodes.
Transmit ==
    /\ received = Nothing /\ sent.kind = "call"
    /\ received' =
           LET halves == Encode(sent.operation, sent.message)
           IN  IF Raises(halves[1]) \/ Raises(halves[2]) THEN ValueError
               ELSE Decode(sent.operation, halves[1], halves[2])
    /\ UNCHANGED sent

\* An energy and forces, or a spectrum, as many as there are of what came in.
Output(op, q) ==
    IF op = "lj_pairwise_energy_forces" THEN encode_output("half", Reverse(q.positions))
    ELSE encode_spectrum(Reverse(q.signal))

Content(s, q) ==
    LET program == scl_program_descriptor(s.version_line, s.backend, s.operation_symbols)
    IN  CASE s.operation = "lj_pairwise_energy_forces" ->
                interpret_lj_result(program, s.configuration, s.input, Output(s.operation, q))
          [] s.operation = "fourier_transform_1d" ->
                interpret_fourier_result(program, s.configuration, Output(s.operation, q))
          [] OTHER -> Nothing

\* A specification is run, from whatever bytes it has, and its result interpreted.
Execute ==
    /\ received = Nothing /\ sent.kind = "specification"
    /\ received' =
           LET q == Decode(sent.operation, sent.configuration, sent.input)
           IN  IF Accepted(q) THEN [meaning |-> q, content |-> Content(sent, q)] ELSE Refused
    /\ UNCHANGED sent

Commit ==
    /\ received = Nothing /\ sent.kind = "requests"
    /\ received' = <<identities(sent.a), identities(sent.b)>>
    /\ UNCHANGED sent

CodecNext == Transmit \/ Execute \/ Commit

CodecSpec == CodecInit /\ [][CodecNext]_<<sent, received>>

-----------------------------------------------------------------------------
(* Properties *)

Called == received # Nothing /\ sent.kind = "call"
Executed == received # Nothing /\ sent.kind = "specification" /\ Accepted(received)

\* The parts of a call that are encoded apart agree with each other.
DimensionsAgree(op, q) ==
    op = "kalman_filter_linear" => Len(q.x0) = Len(q.F) /\ Len(q.z[1]) = Len(q.H)
Agree(op, q) ==
    /\ DimensionsAgree(op, q)
    /\ op = "kalman_filter_linear" => (q.provenance = 1 <=> q.source # <<>>)
    /\ op = "least_squares" =>
         (q.weighted <=> q.weights # <<>>) /\ Len(q.design) >= Len(q.design[1])

\* Something of everything, and numbers that are in every domain.
Ordinary(op, q) ==
    /\ op = "fourier_transform_1d" => q.direction \in {1, -1} /\ q.normalization \in {0, 1, 2}
    /\ op = "least_squares" => q.design[1] # <<>>
    /\ op = "kalman_filter_linear" => q.F # <<>> /\ q.H # <<>> /\ q.provenance \in {0, 1}
    /\ \A h \in {Encode(op, q)[1], Encode(op, q)[2]} :
         /\ h.words # <<>>
         /\ \A k \in DOMAIN h.words :
                \/ h.words[k] \in {"tiny", "half", "source"}
                \/ op = "fourier_transform_1d" /\ q.spacing = "None" /\ h = Encode(op, q)[1]

\* What an operation computes with is what the caller meant, every number in its place,
\* although nothing in a payload says what it is: no payload that is one word short, in
\* another order or of other dimensions is understood as something else. One is, in the
\* filter, whose input does not carry the dimensions of its configuration. And no call
\* whose parts agree is refused for anything but the value of a number.
EncodedIsUnderstood ==
    Called /\ ~Raises(received) =>
        LET op == sent.operation   q == sent.message
        IN  /\ Accepted(received) /\ DimensionsAgree(op, q) => received = q
            /\ Agree(op, q) /\ Ordinary(op, q) => Accepted(received)

\* A parameter that steers a computation is a number, and zero with a sign is zero.
Number(x) == IF x = "-0" THEN "0" ELSE x
AsNumbers(op, q) ==
    CASE op = "fourier_transform_1d" -> [q EXCEPT !.spacing = Number(@)]
      [] op = "least_squares" -> [q EXCEPT !.rank_tolerance = Number(@)]
      [] op = "kalman_filter_linear" ->
            [q EXCEPT !.symmetry_tolerance = Number(@), !.psd_tolerance = Number(@)]
      [] OTHER -> q

\* A computation has one encoding: bytes that are accepted are the very bytes the encoder
\* makes of what they mean, where the spacing and the tolerances mean numbers. No flag,
\* reserved word or ignored slot, and no zero with a sign in one of these, gives the same
\* parameters a second identity. What is computed from keeps the sign of its zeros: the
\* strength of the potential, positions, signals, matrices, weights and estimates.
OneMeaningOneEncoding ==
    Executed =>
        Encode(sent.operation, AsNumbers(sent.operation, received.meaning))
            = <<sent.configuration, sent.input>>

\* What the adapter records of a run is what was run: the numbers it decodes a second time
\* from the specification are those the operation decoded, under the version, the backend
\* and the operation of the descriptor, and a frequency axis is there exactly when the
\* transform was given a spacing.
ContentIsOfTheRun ==
    Executed /\ received.content # Nothing =>
        LET q == received.meaning
            content == received.content
            block == content.method_block
            values(rows) == [k \in DOMAIN rows |-> [x \in DOMAIN rows[k] |-> rows[k][x].value]]
        IN  /\ block.backend = applicable(sent.backend)
            /\ split_descriptor(scl_program_descriptor(
                   sent.version_line, sent.backend, sent.operation_symbols)).operation
                 = sent.operation_symbols
            /\ sent.operation = "lj_pairwise_energy_forces" =>
                 /\ block.potential_version = applicable(sent.version_line)
                 /\ values(content.forces) = Reverse(q.positions)
                 /\ block.n_particles = applicable(Len(q.positions))
                 /\ block.cutoff = applicable(q.cutoff)
                 /\ content.parameters = [epsilon |-> q.epsilon, sigma |-> q.sigma]
            /\ sent.operation = "fourier_transform_1d" =>
                 /\ block.kernel_version = applicable(sent.version_line)
                 /\ values(content.spectrum) = Reverse(q.signal)
                 /\ "unknown" \notin {block.direction.value, block.normalization.value}
                 /\ block.frequency_axis.applicable <=> q.spacing # "None"
                 /\ block.frequency_axis.value = q.spacing
                 /\ IF q.spacing = "None" THEN content.frequency_hz = "None"
                    ELSE DOMAIN content.frequency_hz = 0..(Len(q.signal) - 1)

\* Each bin reads as the one frequency it stands for, of the many that alias to it: the
\* least in magnitude, and at the Nyquist frequency, which has two, the positive one.
BinsAreFrequencies ==
    Executed /\ sent.operation = "fourier_transform_1d" =>
        LET f == received.content.frequency_hz
            n == Len(received.meaning.signal)
        IN  received.meaning.spacing # "None" =>
                \A k \in DOMAIN f : (f[k] - k) % n = 0 /\ -n < 2 * f[k] /\ 2 * f[k] <= n

\* An identity is of one thing: two requests share one only if they share what it is of,
\* wherever a name ends and the next begins, and an identity of one kind is never one of
\* another kind.
IdentityIsOfOneRequest ==
    received # Nothing /\ sent.kind = "requests" =>
        \A k, l \in 1..4 :
            received[1][k] = received[2][l] =>
                /\ k = l
                /\ k \in {1, 4} => sent.a.operation = sent.b.operation
                                   /\ sent.a.backend = sent.b.backend
                /\ k \in {2, 4} => sent.a.parameters = sent.b.parameters
                /\ k \in {3, 4} => sent.a.input_payload = sent.b.input_payload
=============================================================================
