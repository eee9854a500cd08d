--------------------------- MODULE MCWorkerProtocol ---------------------------
(* Small instances of WorkerProtocol for TLC.                              *)
EXTENDS WorkerProtocolInv

=============================================================================
