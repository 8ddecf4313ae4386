------------------------- MODULE TaskExecutorProofs -------------------------
(***************************************************************************)
(* Proofs about TaskExecutor for every set of keys and every number of     *)
(* goroutines: its types, mutual exclusion per key, the agreement between  *)
(* the registered keys and the goroutines, the wait group's count of them, *)
(* and the implementation of KeyedExecutor.                                *)
(***************************************************************************)
EXTENDS TaskExecutor, FiniteSetTheorems, TLAPS

-----------------------------------------------------------------------------
(* The inductive invariant.  None of its parts is inductive alone: that a  *)
(* key is registered exactly when a goroutine will give it back holds only *)
(* because the lock is exclusive, and in between Submit has started the    *)
(* goroutine and not yet added the key.                                    *)

\* Submit holds the lock from "locked" to the end of "spawned".
CallerHoldsLock == mu = Caller <=> submit.pc \in {"locked", "spawned"}

\* The goroutine that holds the lock is the one mu names, and the only one.
GoroutineHoldsLock ==
  \A k \in Keys : workers[k]["locked"] = IF mu = k THEN 1 ELSE 0

\* Submit has started a goroutine for k and is about to add k.
Adding(k) == submit.pc = "spawned" /\ submit.key = k

KeysMatchGoroutines ==
  \A k \in Keys :
    IF Adding(k) THEN k \notin tasks /\ Live(k) = 1
                 ELSE Live(k) = IF k \in tasks THEN 1 ELSE 0

\* Close begins when no call of Submit is under way.
NoSubmitWhenClosing == cancelled => submit.pc = "idle"

\* The types as far as they are preserved by themselves.  That the counter of
\* the wait group is no negative number needs the count of the goroutines below.
Typed ==
  /\ tasks \in SUBSET Keys
  /\ mu \in Keys \cup {Free, Caller}
  /\ submit \in [pc : SubmitPC, key : Keys]
  /\ workers \in [Keys -> [Phase -> Nat]]
  /\ work \in Int
  /\ cancelled \in BOOLEAN
  /\ closed \in BOOLEAN

IInv ==
  /\ Typed
  /\ CallerHoldsLock
  /\ GoroutineHoldsLock
  /\ KeysMatchGoroutines
  /\ NoSubmitWhenClosing

-----------------------------------------------------------------------------
(* How the steps of goroutines change the counts of their phases.           *)

\* Moving a goroutine of k from phase p to phase q takes one from p, adds one to
\* q and touches nothing else (the goroutine of GoWith, core/task.go 66-75).
LEMMA MoveEffect ==
  ASSUME workers \in [Keys -> [Phase -> Nat]],
         NEW k \in Keys, NEW p \in Phase, NEW q \in Phase, p # q,
         Move(k, p, q)
  PROVE  /\ workers' \in [Keys -> [Phase -> Nat]]
         /\ workers[k][p] > 0
         /\ workers'[k][p] = workers[k][p] - 1
         /\ workers'[k][q] = workers[k][q] + 1
         /\ \A r \in Phase \ {p, q} : workers'[k][r] = workers[k][r]
         /\ \A j \in Keys \ {k} : workers'[j] = workers[j]
<1> DEFINE row == [[workers[k] EXCEPT ![p] = @ - 1] EXCEPT ![q] = @ + 1]
<1>1. workers[k] \in [Phase -> Nat] /\ workers[k][p] > 0
  BY DEF Move
<1>2. workers' = [workers EXCEPT ![k] = row]
  BY DEF Move
<1>3. row \in [Phase -> Nat]
  BY <1>1
<1>4. /\ row[p] = workers[k][p] - 1
      /\ row[q] = workers[k][q] + 1
      /\ \A r \in Phase \ {p, q} : row[r] = workers[k][r]
  BY <1>1
<1> HIDE DEF row
<1>5. workers'[k] = row /\ \A j \in Keys \ {k} : workers'[j] = workers[j]
  BY <1>2
<1>6. workers' \in [Keys -> [Phase -> Nat]]
  BY <1>2, <1>3
<1> QED
  BY <1>1, <1>4, <1>5, <1>6

\* The go statement adds one running goroutine of the submitted key.
LEMMA SpawnEffect ==
  ASSUME workers \in [Keys -> [Phase -> Nat]], submit.key \in Keys, SubmitSpawn
  PROVE  /\ workers' \in [Keys -> [Phase -> Nat]]
         /\ workers'[submit.key]["running"] = workers[submit.key]["running"] + 1
         /\ \A r \in Phase \ {"running"} : workers'[submit.key][r] = workers[submit.key][r]
         /\ \A j \in Keys \ {submit.key} : workers'[j] = workers[j]
<1> DEFINE row == [workers[submit.key] EXCEPT !["running"] = @ + 1]
<1>1. workers[submit.key] \in [Phase -> Nat] /\ "running" \in Phase
  BY DEF Phase
<1>2. workers' = [workers EXCEPT ![submit.key] = row]
  BY DEF SubmitSpawn
<1>3. /\ row \in [Phase -> Nat]
      /\ row["running"] = workers[submit.key]["running"] + 1
      /\ \A r \in Phase \ {"running"} : row[r] = workers[submit.key][r]
  BY <1>1
<1> HIDE DEF row
<1> QED
  BY <1>2, <1>3

\* The end of a goroutine takes one from those that have given the key back.
LEMMA EndEffect ==
  ASSUME workers \in [Keys -> [Phase -> Nat]], NEW k \in Keys, GoroutineEnd(k)
  PROVE  /\ workers' \in [Keys -> [Phase -> Nat]]
         /\ workers'[k]["draining"] = workers[k]["draining"] - 1
         /\ \A r \in Phase \ {"draining"} : workers'[k][r] = workers[k][r]
         /\ \A j \in Keys \ {k} : workers'[j] = workers[j]
<1> DEFINE row == [workers[k] EXCEPT !["draining"] = @ - 1]
<1>1. workers[k] \in [Phase -> Nat] /\ "draining" \in Phase /\ workers[k]["draining"] > 0
  BY DEF Phase, GoroutineEnd
<1>2. workers' = [workers EXCEPT ![k] = row]
  BY DEF GoroutineEnd
<1>3. /\ row \in [Phase -> Nat]
      /\ row["draining"] = workers[k]["draining"] - 1
      /\ \A r \in Phase \ {"draining"} : row[r] = workers[k][r]
  BY <1>1
<1> HIDE DEF row
<1> QED
  BY <1>2, <1>3

-----------------------------------------------------------------------------
\* Every step preserves the types: no counter of goroutines falls below zero.
LEMMA TypeInductive == Typed /\ [Next]_execVars => Typed'
<1> SUFFICES ASSUME Typed, [Next]_execVars PROVE Typed'
  OBVIOUS
<1> USE DEF Typed, SubmitPC
<1>1. ASSUME NEW k \in Keys, SubmitCall(k) PROVE Typed'
  BY <1>1 DEF SubmitCall
<1>2. CASE SubmitLock
  BY <1>2 DEF SubmitLock
<1>3. CASE SubmitDrop
  BY <1>3 DEF SubmitDrop
<1>4. CASE SubmitSpawn
  BY <1>4, SpawnEffect DEF SubmitSpawn
<1>5. CASE SubmitAdd
  BY <1>5 DEF SubmitAdd
<1>6. ASSUME NEW k \in Keys, TaskReturn(k) PROVE Typed'
  <2>1. workers' \in [Keys -> [Phase -> Nat]]
    BY <1>6, MoveEffect DEF TaskReturn, Phase
  <2> QED
    BY <1>6, <2>1 DEF TaskReturn
<1>7. ASSUME NEW k \in Keys, ExitLock(k) PROVE Typed'
  <2>1. workers' \in [Keys -> [Phase -> Nat]]
    BY <1>7, MoveEffect DEF ExitLock, Phase
  <2> QED
    BY <1>7, <2>1 DEF ExitLock
<1>8. ASSUME NEW k \in Keys, ExitDelete(k) PROVE Typed'
  <2>1. workers' \in [Keys -> [Phase -> Nat]]
    BY <1>8, MoveEffect DEF ExitDelete, Phase
  <2> QED
    BY <1>8, <2>1 DEF ExitDelete
<1>9. ASSUME NEW k \in Keys, GoroutineEnd(k) PROVE Typed'
  <2>1. workers' \in [Keys -> [Phase -> Nat]]
    BY <1>9, EndEffect
  <2> QED
    BY <1>9, <2>1 DEF GoroutineEnd
<1>10. CASE CloseCancel
  BY <1>10 DEF CloseCancel
<1>11. CASE CloseReturn
  BY <1>11 DEF CloseReturn
<1>12. CASE UNCHANGED execVars
  BY <1>12 DEF execVars
<1> QED
  BY <1>1, <1>2, <1>3, <1>4, <1>5, <1>6, <1>7, <1>8, <1>9, <1>10, <1>11, <1>12
     DEF Next, SubmitStep, ExitStep

LEMMA InitTypes == Init => Typed
<1> SUFFICES ASSUME Init PROVE Typed
  OBVIOUS
<1>1. workers \in [Keys -> [Phase -> Nat]]
  BY DEF Init, NoGoroutine
<1>2. submit \in [pc : SubmitPC, key : Keys]
  BY DEF Init, SubmitPC
<1>3. tasks \in SUBSET Keys /\ mu \in Keys \cup {Free, Caller} /\ work \in Int
  BY DEF Init
<1>4. cancelled \in BOOLEAN /\ closed \in BOOLEAN
  BY Zenon DEF Init
<1> QED
  BY <1>1, <1>2, <1>3, <1>4 DEF Typed

-----------------------------------------------------------------------------
LEMMA InitInvariant == Init => IInv
<1> SUFFICES ASSUME Init PROVE IInv
  OBVIOUS
<1>1. tasks = {} /\ mu = Free /\ submit.pc = "idle" /\ workers = [k \in Keys |-> NoGoroutine]
  BY DEF Init
<1>2. \A k \in Keys : /\ workers[k]["running"] = 0 /\ workers[k]["leaving"] = 0
                      /\ workers[k]["locked"] = 0
  BY <1>1 DEF NoGoroutine, Phase
<1>3. CallerHoldsLock
  BY <1>1 DEF CallerHoldsLock, Free, Caller
<1>4. GoroutineHoldsLock
  BY <1>1, <1>2, KeysAssumption DEF GoroutineHoldsLock
<1>5. KeysMatchGoroutines
  <2>1. ASSUME NEW k \in Keys PROVE Live(k) = 0
    BY <1>2 DEF Live
  <2>2. \A k \in Keys : ~Adding(k)
    BY <1>1 DEF Adding
  <2> QED
    BY <1>1, <2>1, <2>2 DEF KeysMatchGoroutines
<1>6. NoSubmitWhenClosing
  BY <1>1 DEF NoSubmitWhenClosing
<1> QED
  BY <1>3, <1>4, <1>5, <1>6, InitTypes DEF IInv

\* A step that changes neither the goroutines, the keys nor the lock preserves
\* what relates them.
LEMMA FrameInvariant ==
  ASSUME IInv,
         UNCHANGED <<workers, tasks, mu>>,
         submit'.pc \notin {"locked", "spawned"},
         submit.pc \notin {"locked", "spawned"}
  PROVE  (CallerHoldsLock /\ GoroutineHoldsLock /\ KeysMatchGoroutines)'
<1>1. CallerHoldsLock'
  BY DEF IInv, CallerHoldsLock
<1>2. GoroutineHoldsLock'
  BY DEF IInv, GoroutineHoldsLock
<1>3. \A k \in Keys : ~Adding(k) /\ ~Adding(k)' /\ Live(k)' = Live(k)
  BY DEF Adding, Live
<1>4. KeysMatchGoroutines'
  BY <1>3 DEF IInv, KeysMatchGoroutines
<1> QED
  BY <1>1, <1>2, <1>4

LEMMA SubmitLockInvariant ==
  ASSUME IInv, SubmitLock
  PROVE  (CallerHoldsLock /\ GoroutineHoldsLock /\ KeysMatchGoroutines /\ NoSubmitWhenClosing)'
<1>1. /\ submit \in [pc : SubmitPC, key : Keys]
      /\ submit.pc = "waiting" /\ mu = Free /\ mu' = Caller
      /\ submit' = [submit EXCEPT !.pc = "locked"]
      /\ workers' = workers /\ tasks' = tasks /\ cancelled' = cancelled
  BY DEF IInv, Typed, SubmitLock
<1>2. submit'.pc = "locked"
  BY <1>1
<1>3. CallerHoldsLock'
  BY <1>1, <1>2 DEF CallerHoldsLock
<1>4. GoroutineHoldsLock'
  BY <1>1, KeysAssumption DEF IInv, GoroutineHoldsLock
<1>5. \A k \in Keys : ~Adding(k) /\ ~Adding(k)' /\ Live(k)' = Live(k)
  BY <1>1, <1>2 DEF Adding, Live
<1>6. KeysMatchGoroutines'
  BY <1>1, <1>5 DEF IInv, KeysMatchGoroutines
<1>7. NoSubmitWhenClosing'
  BY <1>1 DEF IInv, NoSubmitWhenClosing
<1> QED
  BY <1>3, <1>4, <1>6, <1>7

LEMMA SubmitDropInvariant ==
  ASSUME IInv, SubmitDrop
  PROVE  (CallerHoldsLock /\ GoroutineHoldsLock /\ KeysMatchGoroutines /\ NoSubmitWhenClosing)'
<1>1. /\ submit \in [pc : SubmitPC, key : Keys]
      /\ submit.pc = "locked" /\ mu' = Free
      /\ submit' = [submit EXCEPT !.pc = "idle"]
      /\ workers' = workers /\ tasks' = tasks /\ cancelled' = cancelled
  BY DEF IInv, Typed, SubmitDrop
<1>2. submit'.pc = "idle" /\ mu = Caller
  BY <1>1 DEF IInv, CallerHoldsLock
<1>3. CallerHoldsLock'
  BY <1>1, <1>2 DEF CallerHoldsLock, Free, Caller
<1>4. GoroutineHoldsLock'
  BY <1>1, <1>2, KeysAssumption DEF IInv, GoroutineHoldsLock
<1>5. \A k \in Keys : ~Adding(k) /\ ~Adding(k)' /\ Live(k)' = Live(k)
  BY <1>1, <1>2 DEF Adding, Live
<1>6. KeysMatchGoroutines'
  BY <1>1, <1>5 DEF IInv, KeysMatchGoroutines
<1>7. NoSubmitWhenClosing'
  BY <1>1, <1>2 DEF IInv, NoSubmitWhenClosing
<1> QED
  BY <1>3, <1>4, <1>6, <1>7

\* The goroutine starts before its key is registered: Submit still holds the
\* lock, so KeysMatchGoroutines makes an exception for this key.
LEMMA SubmitSpawnInvariant ==
  ASSUME IInv, SubmitSpawn
  PROVE  (CallerHoldsLock /\ GoroutineHoldsLock /\ KeysMatchGoroutines /\ NoSubmitWhenClosing)'
<1>1. /\ submit \in [pc : SubmitPC, key : Keys]
      /\ submit.pc = "locked" /\ submit.key \notin tasks
      /\ submit' = [submit EXCEPT !.pc = "spawned"]
      /\ tasks' = tasks /\ mu' = mu /\ cancelled' = cancelled
  BY DEF IInv, Typed, SubmitSpawn
<1>2. submit'.pc = "spawned" /\ submit'.key = submit.key /\ submit.key \in Keys
  BY <1>1
<1>3. /\ workers'[submit.key]["running"] = workers[submit.key]["running"] + 1
      /\ \A r \in Phase \ {"running"} : workers'[submit.key][r] = workers[submit.key][r]
      /\ \A j \in Keys \ {submit.key} : workers'[j] = workers[j]
  BY <1>2, SpawnEffect DEF IInv, Typed
<1>4. CallerHoldsLock'
  BY <1>1, <1>2 DEF IInv, CallerHoldsLock
<1>5. \A k \in Keys : workers'[k]["locked"] = workers[k]["locked"]
  BY <1>3 DEF Phase
<1>6. GoroutineHoldsLock'
  BY <1>1, <1>5 DEF IInv, GoroutineHoldsLock
<1>7. \A k \in Keys : /\ ~Adding(k)
                      /\ Adding(k)' <=> k = submit.key
                      /\ k # submit.key => Live(k)' = Live(k)
  BY <1>1, <1>2, <1>3 DEF Adding, Live
<1>8. \A p \in Phase : workers[submit.key][p] \in Nat
  BY <1>2 DEF IInv, Typed
<1>9. Live(submit.key) = 0
  BY <1>1, <1>2, <1>7 DEF IInv, KeysMatchGoroutines
<1>10. workers'[submit.key]["running"] + workers'[submit.key]["leaving"]
         + workers'[submit.key]["locked"] = 1
  BY <1>3, <1>8, <1>9 DEF Live, Phase
<1>11. KeysMatchGoroutines'
  <2> SUFFICES ASSUME NEW k \in Keys
               PROVE  IF Adding(k)' THEN k \notin tasks' /\ Live(k)' = 1
                                    ELSE Live(k)' = IF k \in tasks' THEN 1 ELSE 0
    BY DEF KeysMatchGoroutines
  <2>1. CASE k = submit.key
    BY <1>1, <1>7, <1>10, <2>1 DEF Live
  <2>2. CASE k # submit.key
    BY <1>1, <1>7, <2>2 DEF IInv, KeysMatchGoroutines
  <2> QED
    BY <2>1, <2>2
<1>12. NoSubmitWhenClosing'
  BY <1>1 DEF IInv, NoSubmitWhenClosing
<1> QED
  BY <1>4, <1>6, <1>11, <1>12

LEMMA SubmitAddInvariant ==
  ASSUME IInv, SubmitAdd
  PROVE  (CallerHoldsLock /\ GoroutineHoldsLock /\ KeysMatchGoroutines /\ NoSubmitWhenClosing)'
<1>1. /\ submit \in [pc : SubmitPC, key : Keys]
      /\ submit.pc = "spawned" /\ mu' = Free
      /\ submit' = [submit EXCEPT !.pc = "idle"]
      /\ tasks' = tasks \cup {submit.key}
      /\ workers' = workers /\ cancelled' = cancelled
  BY DEF IInv, Typed, SubmitAdd
<1>2. submit'.pc = "idle" /\ mu = Caller
  BY <1>1 DEF IInv, CallerHoldsLock
<1>3. CallerHoldsLock'
  BY <1>1, <1>2 DEF CallerHoldsLock, Free, Caller
<1>4. GoroutineHoldsLock'
  BY <1>1, <1>2, KeysAssumption DEF IInv, GoroutineHoldsLock
<1>5. \A k \in Keys : /\ Adding(k) <=> k = submit.key
                      /\ ~Adding(k)'
                      /\ Live(k)' = Live(k)
  BY <1>1, <1>2 DEF Adding, Live
<1>6. KeysMatchGoroutines'
  BY <1>1, <1>5 DEF IInv, KeysMatchGoroutines
<1>7. NoSubmitWhenClosing'
  BY <1>1, <1>2 DEF IInv, NoSubmitWhenClosing
<1> QED
  BY <1>3, <1>4, <1>6, <1>7

\* The task returns: its goroutine still has to give the key back.
LEMMA TaskReturnInvariant ==
  ASSUME IInv, NEW k \in Keys, TaskReturn(k)
  PROVE  (CallerHoldsLock /\ GoroutineHoldsLock /\ KeysMatchGoroutines /\ NoSubmitWhenClosing)'
<1>1. submit' = submit /\ mu' = mu /\ tasks' = tasks /\ cancelled' = cancelled
  BY DEF TaskReturn
<1>2. /\ workers'[k]["running"] = workers[k]["running"] - 1
      /\ workers'[k]["leaving"] = workers[k]["leaving"] + 1
      /\ workers'[k]["locked"] = workers[k]["locked"]
      /\ \A j \in Keys \ {k} : workers'[j] = workers[j]
  BY MoveEffect DEF TaskReturn, IInv, Typed, Phase
<1>3. CallerHoldsLock'
  BY <1>1 DEF IInv, CallerHoldsLock
<1>4. GoroutineHoldsLock'
  BY <1>1, <1>2 DEF IInv, GoroutineHoldsLock
<1>5. \A p \in Phase : workers[k][p] \in Nat
  BY DEF IInv, Typed
<1>6. \A j \in Keys : Live(j)' = Live(j) /\ (Adding(j)' <=> Adding(j))
  BY <1>1, <1>2, <1>5 DEF Live, Adding, Phase
<1>7. KeysMatchGoroutines'
  BY <1>1, <1>6 DEF IInv, KeysMatchGoroutines
<1>8. NoSubmitWhenClosing'
  BY <1>1 DEF IInv, NoSubmitWhenClosing
<1> QED
  BY <1>3, <1>4, <1>7, <1>8

LEMMA ExitLockInvariant ==
  ASSUME IInv, NEW k \in Keys, ExitLock(k)
  PROVE  (CallerHoldsLock /\ GoroutineHoldsLock /\ KeysMatchGoroutines /\ NoSubmitWhenClosing)'
<1>1. /\ mu = Free /\ mu' = k
      /\ submit' = submit /\ tasks' = tasks /\ cancelled' = cancelled
  BY DEF ExitLock
<1>2. /\ workers'[k]["leaving"] = workers[k]["leaving"] - 1
      /\ workers'[k]["locked"] = workers[k]["locked"] + 1
      /\ workers'[k]["running"] = workers[k]["running"]
      /\ \A j \in Keys \ {k} : workers'[j] = workers[j]
  BY MoveEffect DEF ExitLock, IInv, Typed, Phase
<1>3. CallerHoldsLock'
  BY <1>1, KeysAssumption DEF IInv, CallerHoldsLock, Free, Caller
<1>4. GoroutineHoldsLock'
  BY <1>1, <1>2, KeysAssumption DEF IInv, GoroutineHoldsLock
<1>5. \A p \in Phase : workers[k][p] \in Nat
  BY DEF IInv, Typed
<1>6. \A j \in Keys : Live(j)' = Live(j) /\ (Adding(j)' <=> Adding(j))
  BY <1>1, <1>2, <1>5 DEF Live, Adding, Phase
<1>7. KeysMatchGoroutines'
  BY <1>1, <1>6 DEF IInv, KeysMatchGoroutines
<1>8. NoSubmitWhenClosing'
  BY <1>1 DEF IInv, NoSubmitWhenClosing
<1> QED
  BY <1>3, <1>4, <1>7, <1>8

\* Only the goroutine mu names is inside the deferred function, and no Submit
\* is between its go statement and its Add: the key deleted is the key counted.
LEMMA ExitDeleteInvariant ==
  ASSUME IInv, NEW k \in Keys, ExitDelete(k)
  PROVE  (CallerHoldsLock /\ GoroutineHoldsLock /\ KeysMatchGoroutines /\ NoSubmitWhenClosing)'
<1>1. mu' = Free /\ submit' = submit /\ tasks' = tasks \ {k} /\ cancelled' = cancelled
  BY DEF ExitDelete
<1>2. /\ workers[k]["locked"] > 0
      /\ workers'[k]["locked"] = workers[k]["locked"] - 1
      /\ workers'[k]["running"] = workers[k]["running"]
      /\ workers'[k]["leaving"] = workers[k]["leaving"]
      /\ \A j \in Keys \ {k} : workers'[j] = workers[j]
  BY MoveEffect DEF ExitDelete, IInv, Typed, Phase
<1>3. mu = k /\ workers[k]["locked"] = 1
  BY <1>2 DEF IInv, GoroutineHoldsLock
<1>4. submit.pc \notin {"locked", "spawned"}
  BY <1>3, KeysAssumption DEF IInv, CallerHoldsLock
<1>5. CallerHoldsLock'
  BY <1>1, <1>4 DEF CallerHoldsLock, Free, Caller
<1>6. GoroutineHoldsLock'
  BY <1>1, <1>2, <1>3, KeysAssumption DEF IInv, GoroutineHoldsLock
<1>7. \A p \in Phase : workers[k][p] \in Nat
  BY DEF IInv, Typed
<1>8. \A j \in Keys : ~Adding(j) /\ ~Adding(j)'
  BY <1>1, <1>4 DEF Adding
<1>9. Live(k) = 1 /\ Live(k)' = 0
  <2>1. Live(k) \in {0, 1}
    BY <1>8 DEF IInv, KeysMatchGoroutines
  <2>2. Live(k)' = Live(k) - 1 /\ Live(k) > 0
    BY <1>2, <1>3, <1>7 DEF Live, Phase
  <2> QED
    BY <2>1, <2>2
<1>10. \A j \in Keys \ {k} : Live(j)' = Live(j)
  BY <1>2 DEF Live
<1>11. KeysMatchGoroutines'
  BY <1>1, <1>8, <1>9, <1>10 DEF IInv, KeysMatchGoroutines
<1>12. NoSubmitWhenClosing'
  BY <1>1 DEF IInv, NoSubmitWhenClosing
<1> QED
  BY <1>5, <1>6, <1>11, <1>12

LEMMA GoroutineEndInvariant ==
  ASSUME IInv, NEW k \in Keys, GoroutineEnd(k)
  PROVE  (CallerHoldsLock /\ GoroutineHoldsLock /\ KeysMatchGoroutines /\ NoSubmitWhenClosing)'
<1>1. submit' = submit /\ mu' = mu /\ tasks' = tasks /\ cancelled' = cancelled
  BY DEF GoroutineEnd
<1>2. \A j \in Keys : \A r \in {"running", "leaving", "locked"} : workers'[j][r] = workers[j][r]
  BY EndEffect DEF IInv, Typed, Phase
<1>3. CallerHoldsLock'
  BY <1>1 DEF IInv, CallerHoldsLock
<1>4. GoroutineHoldsLock'
  BY <1>1, <1>2 DEF IInv, GoroutineHoldsLock
<1>5. \A j \in Keys : Live(j)' = Live(j) /\ (Adding(j)' <=> Adding(j))
  BY <1>1, <1>2 DEF Live, Adding
<1>6. KeysMatchGoroutines'
  BY <1>1, <1>5 DEF IInv, KeysMatchGoroutines
<1>7. NoSubmitWhenClosing'
  BY <1>1 DEF IInv, NoSubmitWhenClosing
<1> QED
  BY <1>3, <1>4, <1>6, <1>7

LEMMA InvariantInductive == IInv /\ [Next]_execVars => IInv'
<1> SUFFICES ASSUME IInv, [Next]_execVars
             PROVE  (CallerHoldsLock /\ GoroutineHoldsLock /\ KeysMatchGoroutines
                       /\ NoSubmitWhenClosing)'
  BY TypeInductive DEF IInv
<1>1. ASSUME NEW k \in Keys, SubmitCall(k)
      PROVE  (CallerHoldsLock /\ GoroutineHoldsLock /\ KeysMatchGoroutines
                /\ NoSubmitWhenClosing)'
  <2>1. submit'.pc = "waiting" /\ submit.pc = "idle" /\ ~cancelled /\ cancelled' = cancelled
    BY <1>1 DEF SubmitCall
  <2>2. UNCHANGED <<workers, tasks, mu>>
    BY <1>1 DEF SubmitCall
  <2> QED
    BY <2>1, <2>2, FrameInvariant DEF NoSubmitWhenClosing
<1>2. CASE SubmitLock
  BY <1>2, SubmitLockInvariant
<1>3. CASE SubmitDrop
  BY <1>3, SubmitDropInvariant
<1>4. CASE SubmitSpawn
  BY <1>4, SubmitSpawnInvariant
<1>5. CASE SubmitAdd
  BY <1>5, SubmitAddInvariant
<1>6. ASSUME NEW k \in Keys, TaskReturn(k)
      PROVE  (CallerHoldsLock /\ GoroutineHoldsLock /\ KeysMatchGoroutines
                /\ NoSubmitWhenClosing)'
  BY <1>6, TaskReturnInvariant
<1>7. ASSUME NEW k \in Keys, ExitLock(k)
      PROVE  (CallerHoldsLock /\ GoroutineHoldsLock /\ KeysMatchGoroutines
                /\ NoSubmitWhenClosing)'
  BY <1>7, ExitLockInvariant
<1>8. ASSUME NEW k \in Keys, ExitDelete(k)
      PROVE  (CallerHoldsLock /\ GoroutineHoldsLock /\ KeysMatchGoroutines
                /\ NoSubmitWhenClosing)'
  BY <1>8, ExitDeleteInvariant
<1>9. ASSUME NEW k \in Keys, GoroutineEnd(k)
      PROVE  (CallerHoldsLock /\ GoroutineHoldsLock /\ KeysMatchGoroutines
                /\ NoSubmitWhenClosing)'
  BY <1>9, GoroutineEndInvariant
<1>10. CASE CloseCancel
  <2>1. submit' = submit /\ submit.pc = "idle" /\ UNCHANGED <<workers, tasks, mu>>
    BY <1>10 DEF CloseCancel
  <2> QED
    BY <2>1, FrameInvariant DEF NoSubmitWhenClosing
<1>11. CASE CloseReturn \/ UNCHANGED execVars
  <2>1. UNCHANGED <<submit, workers, tasks, mu, cancelled>>
    BY <1>11 DEF CloseReturn, execVars
  <2> QED
    BY <2>1 DEF IInv, CallerHoldsLock, GoroutineHoldsLock, KeysMatchGoroutines,
                NoSubmitWhenClosing, Adding, Live
<1> QED
  BY <1>1, <1>2, <1>3, <1>4, <1>5, <1>6, <1>7, <1>8, <1>9, <1>10, <1>11
     DEF Next, SubmitStep, ExitStep

LEMMA InvariantHolds == Spec => []IInv
BY InitInvariant, InvariantInductive, PTL DEF Spec

\* The counts of live goroutines, as the theorems below use them.
LEMMA LiveAtMostOne ==
  ASSUME IInv, NEW k \in Keys
  PROVE  /\ Live(k) \in {0, 1}
         /\ workers[k]["running"] \in {0, 1}
         /\ Live(k) = 0 => workers[k]["running"] = 0
<1> DEFINE r == workers[k]["running"]  l == workers[k]["leaving"]  h == workers[k]["locked"]
<1>1. Live(k) = 0 \/ Live(k) = 1
  BY DEF IInv, KeysMatchGoroutines
<1>2. r \in Nat /\ l \in Nat /\ h \in Nat
  BY DEF IInv, Typed, Phase
<1>3. Live(k) = r + l + h
  BY DEF Live
<1> HIDE DEF r, l, h
<1>4. r \in {0, 1} /\ (Live(k) = 0 => r = 0)
  BY <1>1, <1>2, <1>3
<1> QED
  BY <1>1, <1>4 DEF r

-----------------------------------------------------------------------------
\* Two goroutines never execute the task of one key, for any number of keys and
\* of goroutines (Submit, core/task.go 54-79).
THEOREM MutualExclusion == Spec => []OneWorkerPerKey
<1>1. IInv => OneWorkerPerKey
  <2> SUFFICES ASSUME IInv, NEW k \in Keys PROVE workers[k]["running"] <= 1
    BY DEF OneWorkerPerKey
  <2> QED
    BY LiveAtMostOne
<1> QED
  BY <1>1, InvariantHolds, PTL

\* When the lock is free, the registered keys are exactly those some goroutine
\* will give back: no key is left behind and none is missing (core/task.go
\* 62-77).
THEOREM NoKeyLeftBehind == Spec => []KeyHeldByGoroutine
<1>1. IInv => KeyHeldByGoroutine
  <2> SUFFICES ASSUME IInv, mu = Free, NEW k \in Keys
               PROVE  k \in tasks <=> Live(k) = 1
    BY DEF KeyHeldByGoroutine
  <2>1. ~Adding(k)
    BY DEF IInv, CallerHoldsLock, Adding, Free, Caller
  <2> QED
    BY <2>1 DEF IInv, KeysMatchGoroutines
<1> QED
  BY <1>1, InvariantHolds, PTL

-----------------------------------------------------------------------------
(* The wait group.  Its counter is the number of goroutines: they are      *)
(* counted as a finite set that has one element for each of them.          *)

\* One element for every goroutine that the counts w speak of.
Goroutines(w) == {g \in Keys \X Phase \X Nat : g[3] < w[g[1]][g[2]]}

Counted(w, n) ==
  /\ IsFiniteSet(Goroutines(w))
  /\ Cardinality(Goroutines(w)) = n

\* e.work is the number of goroutines that have not ended, and is zero for good
\* once Close has returned.
WorkCountsGoroutines ==
  /\ Counted(workers, work)
  /\ closed => cancelled /\ work = 0

LEMMA GoroutineElements ==
  ASSUME NEW w
  PROVE  /\ Goroutines(w) \subseteq Keys \X Phase \X Nat
         /\ \A j \in Keys, r \in Phase, i \in Nat :
              <<j, r, i>> \in Goroutines(w) <=> i < w[j][r]
BY DEF Goroutines

\* One goroutine more: GoWith's wg.Add(1).
LEMMA OneMore ==
  ASSUME NEW w \in [Keys -> [Phase -> Nat]], NEW v \in [Keys -> [Phase -> Nat]],
         NEW n \in Int, Counted(w, n),
         NEW k \in Keys, NEW p \in Phase,
         v[k][p] = w[k][p] + 1,
         \A j \in Keys, r \in Phase : <<j, r>> # <<k, p>> => v[j][r] = w[j][r]
  PROVE  Counted(v, n + 1)
<1> DEFINE g == <<k, p, w[k][p]>>
<1>1. w[k][p] \in Nat /\ \A j \in Keys, r \in Phase : w[j][r] \in Nat /\ v[j][r] \in Nat
  OBVIOUS
<1>2. Goroutines(v) = Goroutines(w) \cup {g}
  <2>1. ASSUME NEW j \in Keys, NEW r \in Phase, NEW i \in Nat
        PROVE  i < v[j][r] <=> i < w[j][r] \/ <<j, r, i>> = g
    <3>1. CASE j = k /\ r = p
      <4>1. <<j, r, i>> = g <=> i = w[k][p]
        BY <3>1
      <4>2. \A x \in Nat : i < x + 1 <=> i < x \/ i = x
        OBVIOUS
      <4> QED
        BY <1>1, <3>1, <4>1, <4>2
    <3>2. CASE ~(j = k /\ r = p)
      BY <3>2
    <3> QED
      BY <3>1, <3>2
  <2>2. g \in Keys \X Phase \X Nat
    BY <1>1
  <2> HIDE DEF g
  <2>3. \A h \in Keys \X Phase \X Nat :
          h \in Goroutines(v) <=> h \in Goroutines(w) \/ h = g
    <3> TAKE h \in Keys \X Phase \X Nat
    <3>1. \E j \in Keys, r \in Phase, i \in Nat : h = <<j, r, i>>
      OBVIOUS
    <3> QED
      BY <2>1, <3>1, GoroutineElements
  <2> QED
    BY <2>2, <2>3, GoroutineElements
<1>3. g \notin Goroutines(w)
  BY <1>1, GoroutineElements
<1> HIDE DEF g
<1>4. /\ IsFiniteSet(Goroutines(w) \cup {g})
      /\ Cardinality(Goroutines(w) \cup {g}) = Cardinality(Goroutines(w)) + 1
  BY <1>3, FS_AddElement DEF Counted
<1> QED
  BY <1>2, <1>4 DEF Counted

\* One goroutine fewer: the wg.Done when a goroutine ends.
LEMMA OneFewer ==
  ASSUME NEW w \in [Keys -> [Phase -> Nat]], NEW v \in [Keys -> [Phase -> Nat]],
         NEW n \in Int, Counted(w, n),
         NEW k \in Keys, NEW p \in Phase,
         w[k][p] > 0, v[k][p] = w[k][p] - 1,
         \A j \in Keys, r \in Phase : <<j, r>> # <<k, p>> => v[j][r] = w[j][r]
  PROVE  Counted(v, n - 1)
<1> DEFINE g == <<k, p, v[k][p]>>
<1>1. v[k][p] \in Nat /\ \A j \in Keys, r \in Phase : w[j][r] \in Nat /\ v[j][r] \in Nat
  OBVIOUS
<1>2. Goroutines(v) = Goroutines(w) \ {g}
  <2>1. ASSUME NEW j \in Keys, NEW r \in Phase, NEW i \in Nat
        PROVE  i < v[j][r] <=> i < w[j][r] /\ <<j, r, i>> # g
    <3>1. CASE j = k /\ r = p
      <4>1. \A a, b \in Nat : b = a - 1 => (i < b <=> i < a /\ i # b)
        OBVIOUS
      <4>2. v[j][r] = w[j][r] - 1 /\ w[j][r] \in Nat /\ v[j][r] \in Nat
        BY <1>1, <3>1
      <4>3. <<j, r, i>> # g <=> i # v[j][r]
        BY <3>1
      <4> QED
        BY <4>1, <4>2, <4>3
    <3>2. CASE ~(j = k /\ r = p)
      BY <3>2
    <3> QED
      BY <3>1, <3>2
  <2> HIDE DEF g
  <2>2. \A h \in Keys \X Phase \X Nat :
          h \in Goroutines(v) <=> h \in Goroutines(w) /\ h # g
    <3> TAKE h \in Keys \X Phase \X Nat
    <3>1. \E j \in Keys, r \in Phase, i \in Nat : h = <<j, r, i>>
      OBVIOUS
    <3> QED
      BY <2>1, <3>1, GoroutineElements
  <2> QED
    BY <2>2, GoroutineElements
<1>3. g \in Goroutines(w)
  BY <1>1, GoroutineElements
<1> HIDE DEF g
<1>4. /\ IsFiniteSet(Goroutines(w) \ {g})
      /\ Cardinality(Goroutines(w) \ {g}) = Cardinality(Goroutines(w)) - 1
  BY <1>3, FS_RemoveElement DEF Counted
<1> QED
  BY <1>2, <1>4 DEF Counted

\* A goroutine that moves on is still one goroutine.
LEMMA AsMany ==
  ASSUME workers \in [Keys -> [Phase -> Nat]], NEW n \in Int, Counted(workers, n),
         NEW k \in Keys, NEW p \in Phase, NEW q \in Phase, p # q,
         Move(k, p, q)
  PROVE  Counted(workers', n)
<1> DEFINE row == [workers[k] EXCEPT ![p] = @ - 1]
           between == [workers EXCEPT ![k] = row]
<1>1. /\ workers' \in [Keys -> [Phase -> Nat]]
      /\ workers[k][p] > 0
      /\ workers'[k][p] = workers[k][p] - 1
      /\ workers'[k][q] = workers[k][q] + 1
      /\ \A r \in Phase \ {p, q} : workers'[k][r] = workers[k][r]
      /\ \A j \in Keys \ {k} : workers'[j] = workers[j]
  BY MoveEffect
<1>2. /\ row \in [Phase -> Nat]
      /\ row[p] = workers[k][p] - 1
      /\ \A r \in Phase \ {p} : row[r] = workers[k][r]
  BY <1>1
<1> HIDE DEF row
<1>3. /\ between \in [Keys -> [Phase -> Nat]]
      /\ between[k] = row
      /\ \A j \in Keys \ {k} : between[j] = workers[j]
  BY <1>2
<1> HIDE DEF between
<1>4. Counted(between, n - 1)
  <2>1. \A j \in Keys, r \in Phase : <<j, r>> # <<k, p>> => between[j][r] = workers[j][r]
    BY <1>2, <1>3
  <2> QED
    BY <1>1, <1>2, <1>3, <2>1, OneFewer
<1>5. \A j \in Keys, r \in Phase : <<j, r>> # <<k, q>> => workers'[j][r] = between[j][r]
  BY <1>1, <1>2, <1>3
<1>6. workers'[k][q] = between[k][q] + 1
  BY <1>1, <1>2, <1>3
<1> DEFINE m == n - 1
<1>7. m \in Int /\ n = m + 1
  OBVIOUS
<1> HIDE DEF m
<1>8. ASSUME NEW v, v = workers'
      PROVE  Counted(v, n)
  BY <1>1, <1>3, <1>4, <1>5, <1>6, <1>7, <1>8, OneMore DEF m
<1> QED
  BY <1>8

LEMMA NoneCounted ==
  ASSUME NEW w \in [Keys -> [Phase -> Nat]]
  PROVE  Counted(w, 0) <=> \A k \in Keys : w[k] = NoGoroutine
<1>1. Goroutines(w) = {} <=> \A k \in Keys, p \in Phase : w[k][p] = 0
  <2>1. ASSUME NEW k \in Keys, NEW p \in Phase, w[k][p] # 0
        PROVE  <<k, p, 0>> \in Goroutines(w)
    <3>1. w[k][p] \in Nat
      OBVIOUS
    <3> QED
      BY <2>1, <3>1 DEF Goroutines
  <2>2. ASSUME NEW g \in Goroutines(w)
        PROVE  g[1] \in Keys /\ g[2] \in Phase /\ w[g[1]][g[2]] # 0
    BY DEF Goroutines
  <2> QED
    BY <2>1, <2>2
<1>2. (\A k \in Keys, p \in Phase : w[k][p] = 0) <=> \A k \in Keys : w[k] = NoGoroutine
  BY DEF NoGoroutine
<1>3. Counted(w, 0) <=> Goroutines(w) = {}
  BY FS_EmptySet DEF Counted
<1> QED
  BY <1>1, <1>2, <1>3

LEMMA CountInit == Init => WorkCountsGoroutines
<1> SUFFICES ASSUME Init PROVE WorkCountsGoroutines
  OBVIOUS
<1>1. workers \in [Keys -> [Phase -> Nat]] /\ work = 0 /\ ~closed
  BY DEF Init, NoGoroutine
<1>2. Counted(workers, 0)
  BY <1>1, NoneCounted DEF Init
<1> QED
  BY <1>1, <1>2 DEF WorkCountsGoroutines

\* Submit starts no goroutine once Close has begun, and none ends that was not
\* counted: the counter stays the number of goroutines.
LEMMA CountInductive ==
  IInv /\ WorkCountsGoroutines /\ [Next]_execVars => WorkCountsGoroutines'
<1> SUFFICES ASSUME IInv, WorkCountsGoroutines, [Next]_execVars
             PROVE  WorkCountsGoroutines'
  OBVIOUS
<1>1. /\ workers \in [Keys -> [Phase -> Nat]] /\ work \in Int
      /\ submit.key \in Keys
  BY DEF IInv, Typed
<1>2. Counted(workers, work) /\ (closed => cancelled /\ work = 0)
  BY DEF WorkCountsGoroutines
<1>3. CASE SubmitSpawn
  <2>1. ~closed /\ closed' = closed /\ work' = work + 1
    BY <1>2, <1>3 DEF IInv, NoSubmitWhenClosing, SubmitSpawn
  <2>2. /\ workers' \in [Keys -> [Phase -> Nat]]
        /\ workers'[submit.key]["running"] = workers[submit.key]["running"] + 1
        /\ \A r \in Phase \ {"running"} : workers'[submit.key][r] = workers[submit.key][r]
        /\ \A j \in Keys \ {submit.key} : workers'[j] = workers[j]
    BY <1>1, <1>3, SpawnEffect
  <2>3. \A j \in Keys, r \in Phase :
          <<j, r>> # <<submit.key, "running">> => workers'[j][r] = workers[j][r]
    BY <2>2
  <2>4. Counted(workers', work + 1)
    BY <1>1, <1>2, <2>2, <2>3, OneMore DEF Phase
  <2> QED
    BY <2>1, <2>4 DEF WorkCountsGoroutines
<1>4. ASSUME NEW k \in Keys, GoroutineEnd(k)
      PROVE  WorkCountsGoroutines'
  <2>1. /\ closed' = closed /\ work' = work - 1 /\ cancelled' = cancelled
        /\ workers[k]["draining"] > 0 /\ "draining" \in Phase
    BY <1>4 DEF GoroutineEnd, Phase
  <2>2. /\ workers' \in [Keys -> [Phase -> Nat]]
        /\ workers'[k]["draining"] = workers[k]["draining"] - 1
        /\ \A r \in Phase \ {"draining"} : workers'[k][r] = workers[k][r]
        /\ \A j \in Keys \ {k} : workers'[j] = workers[j]
    BY <1>1, <1>4, EndEffect
  <2>3. \A j \in Keys, r \in Phase :
          <<j, r>> # <<k, "draining">> => workers'[j][r] = workers[j][r]
    BY <2>2
  <2>4. Counted(workers', work - 1)
    <3>1. /\ workers' \in [Keys -> [Phase -> Nat]]
          /\ workers'[k]["draining"] = workers[k]["draining"] - 1
      BY <2>2
    <3>2. workers[k]["draining"] > 0 /\ "draining" \in Phase
      BY <2>1
    <3> QED
      BY <1>1, <1>2, <2>3, <3>1, <3>2, OneFewer
  <2>5. work # 0
    <3> SUFFICES ASSUME work = 0 PROVE FALSE
      OBVIOUS
    <3>1. workers[k] = NoGoroutine
      BY <1>1, <1>2, NoneCounted
    <3> QED
      BY <2>1, <3>1 DEF NoGoroutine
  <2> QED
    BY <1>2, <2>1, <2>4, <2>5 DEF WorkCountsGoroutines
<1>5. ASSUME NEW k \in Keys, TaskReturn(k) \/ ExitLock(k) \/ ExitDelete(k)
      PROVE  WorkCountsGoroutines'
  <2>1. UNCHANGED <<work, cancelled, closed>>
    BY <1>5 DEF TaskReturn, ExitLock, ExitDelete
  <2>2. \E p, q \in Phase : p # q /\ Move(k, p, q)
    BY <1>5 DEF TaskReturn, ExitLock, ExitDelete, Phase
  <2>3. Counted(workers', work)
    BY <1>1, <1>2, <2>2, AsMany
  <2> QED
    BY <1>2, <2>1, <2>3 DEF WorkCountsGoroutines
<1>6. CASE CloseReturn \/ CloseCancel
  <2>1. UNCHANGED <<workers, work>> /\ (closed' => cancelled' /\ work' = 0)
    BY <1>2, <1>6 DEF CloseReturn, CloseCancel
  <2> QED
    BY <1>2, <2>1 DEF WorkCountsGoroutines
<1>7. CASE (\E k \in Keys : SubmitCall(k)) \/ SubmitLock \/ SubmitDrop \/ SubmitAdd
             \/ UNCHANGED execVars
  <2>1. UNCHANGED <<workers, work, cancelled, closed>>
    BY <1>7 DEF SubmitCall, SubmitLock, SubmitDrop, SubmitAdd, execVars
  <2> QED
    BY <1>2, <2>1 DEF WorkCountsGoroutines
<1> QED
  BY <1>3, <1>4, <1>5, <1>6, <1>7 DEF Next, SubmitStep, ExitStep

LEMMA CountHolds == Spec => []WorkCountsGoroutines
BY CountInit, CountInductive, InvariantHolds, PTL DEF Spec

\* A counter that counts a finite set is a natural number.
LEMMA CountedTypes == ASSUME IInv, WorkCountsGoroutines PROVE TypeOK
<1>1. work \in Nat
  BY FS_CardinalityType DEF WorkCountsGoroutines, Counted
<1> QED
  BY <1>1 DEF IInv, Typed, TypeOK

\* The executor's state always has its type for any set of keys; in particular no
\* number of goroutines is ever negative, nor the counter of the wait group,
\* which panics there: however Submit, the tasks' returns and Close interleave,
\* Done is called only by a goroutine that is still counted (core/task.go 54-85).
THEOREM TypeCorrect == Spec => []TypeOK
BY CountedTypes, InvariantHolds, CountHolds, PTL

\* When Close has returned no goroutine is left, of any key and in any phase:
\* the database that main closes next is used by nobody (core/task.go 81-85).
THEOREM CloseJoinsGoroutines == Spec => []NothingRunsAfterClose
<1>1. IInv /\ WorkCountsGoroutines => NothingRunsAfterClose
  <2> SUFFICES ASSUME IInv, WorkCountsGoroutines, closed
               PROVE  \A k \in Keys : workers[k] = NoGoroutine
    BY DEF NothingRunsAfterClose
  <2>1. workers \in [Keys -> [Phase -> Nat]] /\ Counted(workers, 0)
    BY DEF IInv, Typed, WorkCountsGoroutines
  <2> QED
    BY <2>1, NoneCounted
<1> QED
  BY <1>1, CountHolds, InvariantHolds, PTL

-----------------------------------------------------------------------------
(* The refinement of KeyedExecutor: the goroutine that starts is the start *)
(* of a task, its return the task's end, the cancellation of the context   *)
(* the stop; every other step changes nothing the promise speaks of.       *)

LEMMA RefinesInit == Init => Promise!Init
<1> SUFFICES ASSUME Init PROVE Promise!Init
  OBVIOUS
<1>1. [k \in Keys |-> workers[k]["running"]] = [k \in Keys |-> 0]
  BY DEF Init, NoGoroutine, Phase
<1>2. (~cancelled) = TRUE
  BY Zenon DEF Init
<1> QED
  BY <1>1, <1>2 DEF Promise!Init

LEMMA RefinesNext ==
  IInv /\ [Next]_execVars
    => [Promise!Next]_<<[k \in Keys |-> workers[k]["running"]], ~cancelled>>
<1> DEFINE executing == [k \in Keys |-> workers[k]["running"]]
<1> SUFFICES ASSUME IInv, [Next]_execVars
             PROVE  Promise!Next \/ (executing' = executing /\ cancelled' = cancelled)
  OBVIOUS
<1>1. ASSUME NEW k \in Keys, k = submit.key, SubmitSpawn
      PROVE  Promise!Next
  <2>1. k \notin tasks /\ ~Adding(k) /\ ~cancelled /\ cancelled' = cancelled
    BY <1>1 DEF IInv, SubmitSpawn, Adding, NoSubmitWhenClosing
  <2>2. workers[k]["running"] = 0
    BY <2>1, LiveAtMostOne DEF IInv, KeysMatchGoroutines
  <2>3. /\ workers'[k]["running"] = 1
        /\ \A j \in Keys \ {k} : workers'[j]["running"] = workers[j]["running"]
    BY <1>1, <2>2, SpawnEffect DEF IInv, Typed
  <2>4. executing' = [executing EXCEPT ![k] = 1]
    BY <2>3
  <2>5. Promise!Start(k)
    BY <2>1, <2>2, <2>4 DEF Promise!Start
  <2> QED
    BY <2>5 DEF Promise!Next
<1>2. ASSUME NEW k \in Keys, TaskReturn(k)
      PROVE  Promise!Next
  <2>1. /\ cancelled' = cancelled
        /\ workers[k]["running"] > 0
        /\ workers'[k]["running"] = workers[k]["running"] - 1
        /\ \A j \in Keys \ {k} : workers'[j] = workers[j]
    BY <1>2, MoveEffect DEF TaskReturn, IInv, Typed, Phase
  <2>2. workers[k]["running"] = 1
    BY <2>1, LiveAtMostOne
  <2>3. /\ workers'[k]["running"] = 0
        /\ \A j \in Keys \ {k} : workers'[j]["running"] = workers[j]["running"]
    BY <2>1, <2>2
  <2>4. executing' = [executing EXCEPT ![k] = 0]
    BY <2>3
  <2>5. Promise!Finish(k)
    BY <2>1, <2>2, <2>4 DEF Promise!Finish
  <2> QED
    BY <2>5 DEF Promise!Next
<1>3. ASSUME NEW k \in Keys, ExitLock(k) \/ ExitDelete(k)
      PROVE  executing' = executing /\ cancelled' = cancelled
  <2>1. \A j \in Keys : workers'[j]["running"] = workers[j]["running"]
    BY <1>3, MoveEffect DEF ExitLock, ExitDelete, IInv, Typed, Phase
  <2> QED
    BY <1>3, <2>1 DEF ExitLock, ExitDelete
<1>4. ASSUME NEW k \in Keys, GoroutineEnd(k)
      PROVE  executing' = executing /\ cancelled' = cancelled
  <2>1. \A j \in Keys : workers'[j]["running"] = workers[j]["running"]
    BY <1>4, EndEffect DEF IInv, Typed, Phase
  <2> QED
    BY <1>4, <2>1 DEF GoroutineEnd
<1>5. CASE CloseCancel
  <2>1. executing' = executing /\ ~cancelled /\ cancelled'
    BY <1>5 DEF CloseCancel
  <2>2. Promise!Stop
    BY <2>1 DEF Promise!Stop
  <2> QED
    BY <2>2 DEF Promise!Next
<1>6. ASSUME \/ \E k \in Keys : SubmitCall(k)
             \/ SubmitLock \/ SubmitDrop \/ SubmitAdd \/ CloseReturn
             \/ UNCHANGED execVars
      PROVE  executing' = executing /\ cancelled' = cancelled
  BY <1>6 DEF SubmitCall, SubmitLock, SubmitDrop, SubmitAdd, CloseReturn, execVars
<1>7. submit.key \in Keys
  BY DEF IInv, Typed
<1> QED
  BY <1>1, <1>2, <1>3, <1>4, <1>5, <1>6, <1>7 DEF Next, SubmitStep, ExitStep

\* The executor implements the promise of feed.TaskExecutor
\* (feed/interfaces.go 131-135) for any set of keys: a task starts only when no
\* task of its key runs, and none starts once Close has begun.
THEOREM Refinement == Spec => KeepsPromise
<1>1. Init => Promise!Init
  BY RefinesInit
<1>2. IInv /\ [Next]_execVars
        => [Promise!Next]_<<[k \in Keys |-> workers[k]["running"]], ~cancelled>>
  BY RefinesNext
<1> QED
  BY <1>1, <1>2, InvariantHolds, PTL DEF Spec, KeepsPromise, Promise!Spec

=============================================================================
