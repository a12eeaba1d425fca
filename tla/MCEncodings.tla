---------------------------- MODULE MCEncodings ----------------------------
(***************************************************************************)
(* Documents of up to three levels: every pair of values in a mapping and  *)
(* in a sequence, every way to nest them, and the fixture. For each        *)
(* operation, the calls of a few small shapes, and payloads that are right *)
(* or wrong in each place. Requests whose names run into each other.       *)
(***************************************************************************)
EXTENDS CanonicalYaml, Codecs

(* Documents *)

AllCharacters ==
    <<"TAB", "LF", "CR", " ", "\"", "#", "-", "-7", ".", "0", "1", "2", "3", "5", "7", ":",
      "\\", "a", "absent", "b", "booleans", "c", "collection_shapes", "colon_space", "d",
      "empty_map_exception", "empty_map_in_a_sequence", "empty_map_value",
      "empty_seq_exception", "empty_seq_under_a_key_in_a_sequence", "empty_sequence_value",
      "first", "floats", "hash", "implicit_typing_traps", "inner", "integers", "k",
      "large_exponent", "map_in_seq_in_map_in_seq", "n", "needs", "negative", "nested",
      "nested_empty_map", "nested_empty_sequence", "no", "null", "nulls",
      "numeric_looking", "octal_old", "off", "one", "quoting", "reserved", "row",
      "seq_under_a_key_in_a_map_in_a_seq", "sequence_of_maps", "sequence_of_scalars",
      "small_exponent", "sorted last", "strings", "third", "threshold_positional", "tilde",
      "trailing", "true", "word_null", "wrapped_inner_sequence", "x", "y", "yes", "zero",
      "zzz_key_sorting_proof", "~">>

Texts == {<<>>, <<"a">>, <<"\\">>, <<"\"", "\\">>, <<"\\", "n">>, <<"LF", "-">>, <<"n", "LF">>,
          <<":", " ">>, <<"TAB", "CR">>}
Floats == {Float(neg, d, e) : neg \in BOOLEAN, d \in {<<"1">>, <<"1", "0", "5">>},
              e \in {-5, -4, -1, 0, 1, 2, 3, 15, 16}}
          \cup {Float(TRUE, <<"0">>, 0), Float(FALSE, <<"0">>, 0)}
Plain == {<<"None">>, <<"bool", TRUE>>, <<"int", "-7">>}
Unwritable == {<<"float", "nan">>, <<"float", "inf">>, <<"object">>}
Scalars == {Str(t) : t \in Texts} \cup Floats \cup Plain \cup Unwritable
Empties == {EmptyDict, List(<<>>)}
Some == {Str(<<"LF", "-">>), Float(FALSE, <<"1">>, 16), <<"None">>, <<"object">>} \cup Empties

Keys == {Str(<<"a">>), Str(<<"\\", "n">>)}
OneOf(V) == {List(<<v>>) : v \in V} \cup {<<"map", <<<<k, v>>>>>> : k \in Keys, v \in V}
TwoOf(V, W) ==
    {List(<<v, w>>) : v \in V, w \in W}
    \cup {<<"map", <<<<Str(<<"b">>), v>>, <<Str(<<"a">>), w>>>>>> : v \in V, w \in W}
    \cup {<<"map", <<<<Str(<<"a">>), v>>, <<<<"int", "1">>, w>>>>>> : v \in V, w \in Plain}
Shallow == OneOf(Some) \cup TwoOf(Some, Some)
Deep == OneOf(Shallow) \cup TwoOf(OneOf(Some), Shallow) \cup TwoOf(Shallow, Plain)
AllDocuments ==
    {FIXTURE} \cup Scalars \cup Empties \cup OneOf(Scalars) \cup Shallow \cup Deep
    \cup OneOf(OneOf(OneOf(Some))) \cup OneOf(OneOf(TwoOf(Some, {Str(<<"a">>)})))

-----------------------------------------------------------------------------
(* Calls and specifications *)

Words == {"-1", "-0", "0", "tiny", "half", "1", "inf", "nan"}
Fill(n, w) == [k \in 1..n |-> w]
\* All alike, or one of them another.
Fills(n) ==
    {Fill(n, "half")} \cup {[Fill(n, "half") EXCEPT ![k] = w] : k \in 1..n, w \in {"-1", "nan"}}
Rows2(r, c, w) == [i \in 1..r |-> [j \in 1..c |-> IF i = j THEN w ELSE "tiny"]]

Symbols ==
    [op \in {"lj_pairwise_energy_forces", "fourier_transform_1d", "least_squares",
             "kalman_filter_linear"} |->
        CASE op = "lj_pairwise_energy_forces" ->
                <<"lj", "_", "pairwise", "_", "energy", "_", "forces">>
          [] op = "fourier_transform_1d" -> <<"fourier", "_", "transform", "_", "1d">>
          [] op = "least_squares" -> <<"least", "_", "squares">>
          [] OTHER -> <<"kalman", "_", "filter", "_", "linear">>]

Ran(op, backends, configurations, inputs) ==
    {[kind |-> "specification", operation |-> op, operation_symbols |-> Symbols[op],
      version_line |-> <<"scl", "-", "cli/0.1.0">>, backend |-> b,
      configuration |-> c, input |-> i] :
        b \in backends, c \in configurations, i \in inputs}
Cpu == {<<"cpu">>}
Either == {<<"cpu">>, <<"cuda">>}
Halves(lengths) == {Payload(<<>>, Fill(n, "half")) : n \in lengths}

LjSpecifications ==
    Ran("lj_pairwise_energy_forces", Cpu, {Payload(<<>>, w) : w \in [1..3 -> Words]}, Halves({6}))
    \cup Ran("lj_pairwise_energy_forces", Either, Halves({0, 3, 4}),
             Halves(0..6) \cup {Payload(<<>>, w) : w \in Fills(6)})
FourierSpecifications ==
    Ran("fourier_transform_1d", Cpu,
        {Payload(<<d, n, s, r>>, <<w>>) :
            d \in -1..1, n \in -1..3, s \in -1..2, r \in 0..1, w \in Words},
        Halves({0, 4}))
    \cup Ran("fourier_transform_1d", Either,
             {Payload(<<1, 0, s, 0>>, <<w>>) : s \in 0..1, w \in {"0", "half"}},
             Halves(0..10) \cup {Payload(<<>>, w) : w \in Fills(4)})
LeastSquaresSpecifications ==
    Ran("least_squares", Cpu,
        {Payload(<<g, 0, 0, r>>, <<w>>) : g \in -1..2, r \in 0..1, w \in Words},
        {Payload(<<r, 1>>, Fill(2 * r, "half")) : r \in 1..2})
    \cup Ran("least_squares", Cpu,
        {Payload(<<g, 0, 0, 0>>, <<"tiny">>) : g \in 0..1},
        {Payload(<<r, c>>, w) : r \in -1..2, c \in -1..2,
            w \in {Fill(n, "half") : n \in 0..8} \cup UNION {Fills(n) : n \in 2..4}
                  \cup {<<"half", "half", "-0">>}})
KalmanWords(n, m) == 2 + 2 * n * n + m * n + m * m
KalmanSpecifications ==
    Ran("kalman_filter_linear", Cpu,
        {Payload(<<n, m, 0, 1, 0, 0>>, Fill(k, "half")) :
            n \in 0..2, m \in 0..2, k \in {1} \cup {KalmanWords(n, m) : n, m \in 1..2}}
        \cup {Payload(<<n, 1, p, g, 0, r>>, Fill(KalmanWords(n, 1), "half")) :
                n \in 1..2, p \in 0..1, g \in 0..2, r \in 0..1},
        {Payload(<<s, l>>, Fill(k, "half")) : s \in 0..2, l \in -1..1, k \in {3, 4, 8, 9}})
    \cup Ran("kalman_filter_linear", Cpu,
        {Payload(<<1, 1, 0, 1, 0, 0>>, <<s, t>> \o w) : s, t \in Words, w \in Fills(4)},
        {Payload(<<1, 1>>, w) : w \in {Fill(4, "half"), Fill(4, "nan")}})

LjCalls ==
    [kind : {"call"}, operation : {"lj_pairwise_energy_forces"},
     message : [epsilon : Words, sigma : {"half", "-0"}, cutoff : {"1", "tiny", "inf"},
                positions : {<<>>, Rows2(1, 3, "half"), Rows2(2, 3, "1"), Rows2(2, 3, "nan")}]]
FourierCalls ==
    [kind : {"call"}, operation : {"fourier_transform_1d"},
     message : [direction : {1, -1, 2}, normalization : 0..3, spacing : Words \cup {"None"},
                signal : {Rows2(n, 2, w) : n \in 0..3, w \in {"half", "nan"}}]]
LeastSquaresCalls ==
    [kind : {"call"}, operation : {"least_squares"},
     message : [weighted : BOOLEAN, rank_tolerance : Words,
                design : {Rows2(r, c, "half") : r \in 0..3, c \in 1..2} \cup {<<<<"1">>, <<>>>>, <<<<>>>>},
                response : {Fill(n, "1") : n \in 1..3} \cup {<<"half", "tiny">>, <<"half", "half">>},
                weights : {<<>>, <<"tiny">>, <<"tiny", "half">>, <<"half", "-1">>}]]
KalmanCalls ==
    [kind : {"call"}, operation : {"kalman_filter_linear"},
     message : [F : {Rows2(n, n, "half") : n \in 1..2} \cup {<<<<"1">>, <<>>>>},
                H : {Rows2(m, n, "half") : m \in 1..2, n \in 1..2},
                Q : {Rows2(n, n, "half") : n \in 1..2}, R : {Rows2(m, m, "half") : m \in 1..2},
                provenance : 0..2, symmetry_tolerance : {"tiny", "-0"},
                psd_tolerance : {"0"},
                x0 : {<<"half">>, <<"half", "tiny">>}, P0 : {Rows2(n, n, "half") : n \in 1..2},
                z : {<<>>} \cup {Rows2(s, m, "half") : s \in 1..2, m \in 1..3},
                source : {<<>>, <<"source">>}]]
\* A filter of no state, or that observes nothing.
EmptyKalmanCalls ==
    [kind : {"call"}, operation : {"kalman_filter_linear"},
     message : UNION {
        [F : {Rows2(n, n, "half")}, H : {Rows2(m, n, "half")}, Q : {Rows2(n, n, "half")},
         R : {Rows2(m, m, "half")}, provenance : 0..1, symmetry_tolerance : {"tiny"},
         psd_tolerance : {"tiny"}, x0 : {Fill(n, "half")}, P0 : {Rows2(n, n, "half")},
         z : {Rows2(1, m, "half")}, source : {<<>>, <<"source">>}] : n, m \in 0..1}]

\* Names that run into each other, and a field that looks like a framed one.
ByteStrings == {<<>>, <<1>>, <<1, 1>>, <<1, 0, 0, 0, 0, 0, 0, 0, 1>>}
Requests ==
    [operation : {<<1>>, <<1, 1>>}, backend : {<<1>>, <<1, 1>>},
     parameters : ByteStrings, input_payload : ByteStrings]

AllExchanges ==
    <<LjSpecifications, FourierSpecifications, LeastSquaresSpecifications, KalmanSpecifications,
      LjCalls, FourierCalls, LeastSquaresCalls, KalmanCalls \cup EmptyKalmanCalls,
      [kind : {"requests"}, a : Requests, b : Requests]>>
=============================================================================
