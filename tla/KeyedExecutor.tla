--------------------------- MODULE KeyedExecutor ---------------------------
(***************************************************************************)
(* What feed.TaskExecutor promises to the poller (feed/interfaces.go,      *)
(* 131-135): a task submitted under a key runs in the background, two      *)
(* tasks of one key never run at the same time, and once the executor is   *)
(* closed nothing runs.  The promise says nothing of locks, goroutines or  *)
(* the set of registered keys: those belong to TaskExecutor.               *)
(***************************************************************************)

EXTENDS Naturals

CONSTANT Keys

VARIABLES
  executing,   \* how many tasks of each key are being executed
  open         \* TRUE until the executor is told to stop

Init ==
  /\ executing = [k \in Keys |-> 0]
  /\ open = TRUE

\* A task of an idle key begins.
Start(k) ==
  /\ open
  /\ executing[k] = 0
  /\ executing' = [executing EXCEPT ![k] = 1]
  /\ UNCHANGED open

\* The task of k returns.
Finish(k) ==
  /\ executing[k] = 1
  /\ executing' = [executing EXCEPT ![k] = 0]
  /\ UNCHANGED open

\* No task begins any more; those that run are left to return.
Stop ==
  /\ open
  /\ open' = FALSE
  /\ UNCHANGED executing

Next ==
  \/ \E k \in Keys : Start(k) \/ Finish(k)
  \/ Stop

Spec == Init /\ [][Next]_<<executing, open>>
=============================================================================
