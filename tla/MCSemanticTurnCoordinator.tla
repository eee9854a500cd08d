---------------------- MODULE MCSemanticTurnCoordinator ----------------------
(* Small instances of SemanticTurnCoordinator for TLC.                     *)
EXTENDS SemanticTurnCoordinator, TLC

\* Player interactions are interchangeable.
TurnSymmetry == Permutations(Interactions)

=============================================================================
