--------------------------- MODULE MCTaskExecutor ---------------------------
(* A small instance of TaskExecutor: the keys are model values.             *)
EXTENDS TaskExecutor, TLC

CONSTANTS k1, k2, k3

MCKeys == {k1, k2, k3}
=============================================================================
