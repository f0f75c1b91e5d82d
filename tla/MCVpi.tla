------------------------------- MODULE MCVpi -------------------------------
(* Instances of the VPI plug-in for TLC. *)
EXTENDS TrlVpi, TLC

MCSignals == 1..2

\* A scope for each signal.
MCScopeOf == [s \in MCSignals |-> s]

\* The walk of the whole design.
MCScopes == {MCSignals}

\* Values are only compared.
MCSymmetry == Permutations(Values)
=============================================================================
