------------------------------ MODULE MC_Suse ------------------------------
(***************************************************************************)
(* Instances of Suse for TLC.  Connections, semaphores and threads are     *)
(* model values; a semaphore starts as Config.config declares it, and the  *)
(* symmetry of the threads is used where no liveness is checked.           *)
(***************************************************************************)
EXTENDS Suse, TLC

CONSTANT s1

MCVals == [s \in Sems |-> IF s = s1 THEN 0 ELSE 1]
MCMaxs == [s \in Sems |-> 1]

Simetria == Permutations(Hilos)
=============================================================================
