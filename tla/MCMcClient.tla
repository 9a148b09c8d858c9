----------------------------- MODULE MCMcClient -----------------------------
(* Constants for checking McClient with TLC. *)
EXTENDS McClient

\* One operation of each class the state machine tells apart.
MCOperations == {"BatchReadWords", "BatchWriteWords", "RegisterMonitor", "ReadMonitor",
                 "ControlGlobalSignal"}
MCTransportFailures == {"Transport"}
=============================================================================
