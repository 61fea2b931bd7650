------------------------------ MODULE MCProgress ------------------------------
(* Instance of Progress: a partition given twice, one without parity and an   *)
(* empty one.                                                                 *)
EXTENDS Progress

MCName == <<"system", "system", "empty", "boot">>
MCTotalOps == [n \in Names |-> IF n = "empty" THEN 0 ELSE 3]
MCFecBatches == [n \in Names |-> IF n = "system" THEN 2 ELSE 0]
================================================================================
