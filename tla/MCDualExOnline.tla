--------------------------- MODULE MCDualExOnline ---------------------------
(* Values of DualExOnline's constants for model checking. *)
EXTENDS DualExOnline

EqualInputs   == [r \in Party |-> 1]
UnequalInputs == [r \in Party |-> r + 1]

=============================================================================
