-------------------------- MODULE MCPendingAnswers --------------------------
(* Constants for checking PendingAnswers with TLC. *)
EXTENDS PendingAnswers

CONSTANTS A, B

MCKinds == {"BatchReadWords", "MultiBlockRead", "RegisterMonitor", "ReadMonitor", "Loopback", "RandomWrite"}
Item(d) == [device |-> d, second |-> FALSE]
Second(d) == [device |-> d, second |-> TRUE]
MCLists == {<<Item(A), Item(B)>>, <<Second(B), Item(A)>>}
MCLongLists == MCLists \union {<<Item(A), Item(B), Item(A)>>}
=============================================================================
