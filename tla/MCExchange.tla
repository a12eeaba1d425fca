----------------------------- MODULE MCExchange -----------------------------
(***************************************************************************)
(* Two processes, each of which may run any job again and again; a source  *)
(* of each generator that is edited, and one that loses its table. Or one  *)
(* of the encoders on its own, given one thing to encode.                  *)
(***************************************************************************)
EXTENDS Exchange, MCEncodings

Registered == {"fourier_transform_1d", "least_squares", "kalman_filter_linear"}

AllContents ==
    [builder |-> {{}},
     registry |-> {Registered, Registered \cup {"viterbi"}, Unparsable},
     header |-> {"1e-12"},
     contract |-> {(2 :> "ENCODING"), (2 :> "ENCODING" @@ 10 :> "PROBE THE RULE")},
     suite |-> {(2 :> {"test_clause2"} @@ 11 :> {"test_clause11"})},
     mutations |-> {<<>>},
     FIXTURE |-> {"fixture", "reissued"}]

AllCommitted ==
    [builder |-> {}, registry |-> Registered, header |-> "1e-12",
     contract |-> (2 :> "ENCODING"),
     suite |-> (2 :> {"test_clause2"} @@ 11 :> {"test_clause11"}), mutations |-> <<>>,
     FIXTURE |-> "fixture"]

\* The files of one artifact are no concern of the jobs of another. With no jobs, nothing
\* but an encoder runs.
AllJobSets ==
    {{"scl_requirements"}, {"scl_contract_clauses"}, {"canonicalization_fixture", Verify}, {}}

NoDocument == <<"none">>
NoExchange == [kind |-> "none"]

RecordsInit ==
    /\ Init
    /\ \/ jobs # {} /\ document = NoDocument /\ dumped = Undumped
          /\ sent = NoExchange /\ received = Nothing
       \/ jobs = {} /\ YamlInit /\ sent = NoExchange /\ received = Nothing
       \/ jobs = {} /\ CodecInit /\ document = NoDocument /\ dumped = Undumped

RecordsNext ==
    \/ Next /\ UNCHANGED <<document, dumped, sent, received>>
    \/ document # NoDocument /\ Dump /\ UNCHANGED <<vars, sent, received>>
    \/ CodecNext /\ UNCHANGED <<vars, document, dumped>>

RecordsSpec == RecordsInit /\ [][RecordsNext]_<<vars, document, dumped, sent, received>>
=============================================================================
