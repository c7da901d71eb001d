------------------------ MODULE MCMiniqSQLiteCallers ------------------------
(***************************************************************************)
(* An instance of MiniqSQLiteCallers for TLC.                              *)
(***************************************************************************)
EXTENDS MCMiniqSQLite, MiniqSQLiteCallers

CONSTANT c1

OneCaller  == {c1}
AllAwaitT1 == [c \in Callers |-> t1]
=============================================================================
