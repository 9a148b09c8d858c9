---------------------------- MODULE MCSerialPort ----------------------------
(* Constants for checking SerialPort with TLC. *)
EXTENDS SerialPort

MCPlatforms == {"posix", "win32"}
=============================================================================
