---------------------------- MODULE MCCliSession ----------------------------
(* Constants for checking CliSession with TLC. *)
EXTENDS CliSession

Item(c, v) == [cell |-> c, value |-> v]

\* A full group and one more, a gap, a device named twice, a descending list.
MCItemLists ==
  {<<Item(1, 1), Item(2, 0), Item(3, 1)>>, <<Item(1, 1), Item(3, 0), Item(4, 1)>>,
   <<Item(2, 1), Item(2, 0)>>, <<Item(2, 0), Item(1, 1), Item(2, 1)>>, <<Item(4, 1)>>}

MCTargets == <<1, 2>>

\* Every device holds 0 in one of them and 1 in the other.
MCContents == {[c \in CliCells |-> c % 2], [c \in CliCells |-> (c + 1) % 2]}
=============================================================================
