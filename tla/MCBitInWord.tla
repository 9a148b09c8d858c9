----------------------------- MODULE MCBitInWord -----------------------------
(* Constants for checking BitInWord with TLC: one route, whose two requests  *)
(* the application also makes on its own. *)
EXTENDS BitInWord

MCOperations == {"BatchReadWords", "BatchWriteWords"}
MCBitReads == {"BatchReadWords"}
MCTransportFailures == {"Transport"}
=============================================================================
