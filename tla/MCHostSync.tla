----------------------------- MODULE MCHostSync -----------------------------
(* Constants for checking HostSync with TLC. *)
EXTENDS HostSync

MCOperations == {"BatchWriteWords", "BatchReadWords", "RemoteReset"}
MCTransportFailures == {"Transport", "Timeout"}
=============================================================================
