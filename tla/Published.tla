----------------------------- MODULE Published -----------------------------
(***************************************************************************)
(* What build_scl_requirements.py and build_scl_contract_clauses.py make   *)
(* of the sources they read. A document is a record of the fields that are *)
(* derived and of the statuses that are typed; the prose is left out.      *)
(***************************************************************************)
EXTENDS Naturals, FiniteSets

CONSTANT Unparsable  \* a source without what the generator looks for in it
Raised == [raised |-> TRUE]

-----------------------------------------------------------------------------
(* The substrate, as it is typed in the generator *)

Existing ==
    {"complex_arithmetic", "decompositions", "linear_solves", "covariance_propagation",
     "psd_handling", "matrices", "matrix_multiplication", "reductions", "scalar_arithmetic",
     "transforms", "transpose"}
Missing ==
    {"dynamic_programming", "argmax", "backtracking", "sliding_window",
     "numerical_integration", "optimization", "state_transitions"}
OutOfScope == {"numerical_differentiation", "tensors"}
Reusable == {"vectors"}

\* built: what has been reclassified since, as linear algebra was.
SUBSTRATE(built) ==
    [p \in Existing \cup Missing \cup OutOfScope \cup Reusable |->
        CASE p \in Existing \cup built -> "EXISTING"
          [] p \in Missing \ built -> "MISSING"
          [] p \in OutOfScope \ built -> "OUT OF SCOPE"
          [] p \in Reusable \ built -> "REUSABLE"]

-----------------------------------------------------------------------------
(* The workloads *)

Typed(requirement, owner, status) ==
    [requirement |-> requirement, owner |-> owner, typed |-> status, named |-> {}]
Named(requirement, primitives) ==
    [requirement |-> requirement, owner |-> "scl", typed |-> "none", named |-> primitives]

LinearAlgebra ==
    {"matrices", "matrix_multiplication", "transpose", "decompositions", "linear_solves"}

Rows ==
    [fourier_transform_1d |->
        {Typed("ordered_scalar_sequence", "daq", "SATISFIED"),
         Typed("annotating_sample_spacing", "daq", "SATISFIED")},
     convolution_1d |-> {},
     least_squares |->
        {Typed("stable_sample_and_variable_identity", "daq", "UNSATISFIED"),
         Typed("explicit_missing_value_semantics", "daq", "UNSATISFIED"),
         Typed("a_covariance_must_be_positive_definite", "daq", "SATISFIED"),
         Named("linear_algebra_primitive_family", LinearAlgebra)},
     pca |->
        {Typed("stable_sample_and_variable_identity", "daq", "UNSATISFIED"),
         Typed("commensurable_units_or_explicit_scaling", "daq", "UNSATISFIED"),
         Typed("decomposition_primitive", "scl", "UNSATISFIED")},
     kalman_filter_linear |->
        {Typed("structured_measurement_uncertainty", "daq", "SATISFIED"),
         Typed("recursive_generation_depth", "daq", "SATISFIED")},
     pid_controller |-> {},
     viterbi |-> {}]

primitives_required ==
    [fourier_transform_1d |-> {"complex_arithmetic", "reductions", "transforms"},
     convolution_1d |-> {"reductions", "sliding_window"},
     least_squares |-> LinearAlgebra,
     pca |-> LinearAlgebra \ {"linear_solves"},
     kalman_filter_linear |->
        {"matrices", "matrix_multiplication", "transpose", "linear_solves",
         "covariance_propagation", "psd_handling"},
     pid_controller |->
        {"reductions", "numerical_integration", "numerical_differentiation", "state_transitions"},
     viterbi |-> {"dynamic_programming", "reductions", "argmax", "backtracking"}]

Outstanding(primitives, substrate) == {p \in primitives : substrate[p] = "MISSING"}

\* A row that names primitives has its status computed; the others keep what was typed.
DerivedRow(row, substrate) ==
    [requirement |-> row.requirement, owner |-> row.owner,
     status |-> IF row.named = {} THEN row.typed
                ELSE IF Outstanding(row.named, substrate) = {} THEN "SATISFIED"
                ELSE "UNSATISFIED"]

workload(name, substrate, registered) ==
    [primitives_required |-> primitives_required[name],
     primitives_missing |-> Outstanding(primitives_required[name], substrate),
     status_in_scl |-> IF name \in registered THEN "IMPLEMENTED" ELSE "NOT_IMPLEMENTED",
     blocking_requirements |-> {DerivedRow(row, substrate) : row \in Rows[name]}]

WORKLOADS(substrate, registered) ==
    [name \in DOMAIN Rows |-> workload(name, substrate, registered)]

\* registry: the names in kOperations; header: the default of rank_tolerance.
RequirementsDocument(s) ==
    IF s.registry = Unparsable \/ s.header = Unparsable THEN Raised
    ELSE LET substrate == SUBSTRATE(s.builder)
         IN  [substrate_inventory |-> substrate,
              least_squares_rank_tolerance_default |-> s.header,
              workloads |-> WORKLOADS(substrate, s.registry)]

-----------------------------------------------------------------------------
(* The contract clauses. A source maps the number of a clause to names.    *)

Names(source, number) == IF number \in DOMAIN source THEN source[number] ELSE {}

coverage(tests, mutations) ==
    IF tests = {} THEN "no_dedicated_test"
    ELSE IF mutations = {} THEN "tested_only" ELSE "tested_and_mutation_checked"

\* The clauses are those of the header, whoever else names one.
CLAUSES(s) ==
    [number \in DOMAIN s.contract |->
        LET tests == Names(s.suite, number)
            mutations == Names(s.mutations, number)
        IN  [title |-> s.contract[number], dedicated_tests |-> tests,
             mutations_written_against_it |-> mutations,
             coverage |-> coverage(tests, mutations)]]

ClausesDocument(s) ==
    IF s.mutations = Unparsable THEN Raised
    ELSE LET clauses == CLAUSES(s)
         IN  [clause_count |-> Cardinality(DOMAIN clauses), clauses |-> clauses,
              clauses_with_no_dedicated_test |->
                  {n \in DOMAIN clauses : clauses[n].coverage = "no_dedicated_test"}]
=============================================================================
