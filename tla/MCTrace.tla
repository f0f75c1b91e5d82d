------------------------------- MODULE MCTrace -------------------------------
(* Instances of the trace for TLC. *)
EXTENDS TrlTrace

\* A key of the client's own, and the one of the first derived definition.
MCTwoKeys == {<<1, 1>>, <<DerivedOwner, DerivedBase>>}
MCNoKeys == {}
=============================================================================
