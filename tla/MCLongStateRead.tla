-------------------------- MODULE MCLongStateRead --------------------------
(* Constants for checking LongStateRead with TLC. *)
EXTENDS LongStateRead

MCReadable == {"LTN"}
=============================================================================
