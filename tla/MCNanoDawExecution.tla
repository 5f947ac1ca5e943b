------------------------ MODULE MCNanoDawExecution ------------------------
EXTENDS NanoDawExecution, TLC

(* Every socket is opened by the one tab of the run. *)
OnePage == [s \in Sockets |-> CHOOSE pg \in Pages : TRUE]
=============================================================================
