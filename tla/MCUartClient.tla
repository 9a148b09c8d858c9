---------------------------- MODULE MCUartClient ----------------------------
(* Constants for checking UartClient with TLC. *)
EXTENDS UartClient

MCOperations == {"BatchWriteWords", "BatchReadWords"}
MCTransportFailures == {"Transport", "Timeout", "Cancelled"}
=============================================================================
