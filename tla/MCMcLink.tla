------------------------------ MODULE MCMcLink ------------------------------
(* Constants for checking McLink with TLC. *)
EXTENDS McLink

MCOperations == {"BatchWriteWords", "RegisterMonitor", "ReadMonitor",
                 "ControlGlobalSignal"}
MCTransportFailures == {"Transport"}
=============================================================================
