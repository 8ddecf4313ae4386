---------------------------- MODULE TaskExecutor ----------------------------
(***************************************************************************)
(* The task executor of core/task.go: a set of registered keys behind an   *)
(* interruptible mutex, one goroutine per accepted task, and a wait group  *)
(* that Close waits for.  What a task does is left to the module that      *)
(* composes this one (Poller); here a task runs for a while and returns.   *)
(*                                                                         *)
(* Submit has one caller at a time: main submits in RestoreActive before   *)
(* the bot starts, and then the bot's only command goroutine does.  Close  *)
(* runs after Bot.Close has waited for that goroutine, so a Submit never   *)
(* overlaps with it.                                                       *)
(***************************************************************************)
EXTENDS Integers

CONSTANTS
  Keys,           \* feed IDs, after fmt.Sprint
  MaxGoroutines   \* bound: no call of Submit while so many goroutines exist

Free == "free"         \* nobody holds e.mu
Caller == "caller"     \* the goroutine inside Submit holds e.mu

ASSUME KeysAssumption == Free \notin Keys /\ Caller \notin Keys
ASSUME BoundAssumption == MaxGoroutines \in Nat \ {0}

VARIABLES
  tasks,       \* e.tasks, the registered keys
  mu,          \* who holds e.mu: Free, Caller, or the key of a goroutine
  submit,      \* the call of Submit: where it stands and its key
  workers,     \* how many goroutines of each key are in each phase
  work,        \* the counter of e.work
  cancelled,   \* e.ctx is cancelled
  closed       \* Close has returned

execVars == <<tasks, mu, submit, workers, work, cancelled, closed>>

-----------------------------------------------------------------------------
\* A goroutine executes the task, then waits for the lock in its deferred
\* function, then holds it, and last returns to GoWith, whose deferred cancel
\* decrements the wait group.
Phase == {"running", "leaving", "locked", "draining"}

SubmitPC == {"idle", "waiting", "locked", "spawned"}

NoGoroutine == [p \in Phase |-> 0]

\* One goroutine of k moves from phase p to phase q.
Move(k, p, q) ==
  /\ workers[k][p] > 0
  /\ workers' = [workers EXCEPT ![k][p] = @ - 1, ![k][q] = @ + 1]

Init ==
  /\ tasks = {}
  /\ mu = Free
  /\ submit \in [pc : {"idle"}, key : Keys]
  /\ workers = [k \in Keys |-> NoGoroutine]
  /\ work = 0
  /\ cancelled = FALSE
  /\ closed = FALSE

-----------------------------------------------------------------------------
\* Submit(k) is called and contends for the lock.
SubmitCall(k) ==
  /\ submit.pc = "idle"
  /\ ~cancelled
  /\ work < MaxGoroutines
  /\ submit' = [pc |-> "waiting", key |-> k]
  /\ UNCHANGED <<tasks, mu, workers, work, cancelled, closed>>

SubmitLock ==
  /\ submit.pc = "waiting"
  /\ mu = Free
  /\ mu' = Caller
  /\ submit' = [submit EXCEPT !.pc = "locked"]
  /\ UNCHANGED <<tasks, workers, work, cancelled, closed>>

\* The key is registered: the task is dropped.
SubmitDrop ==
  /\ submit.pc = "locked"
  /\ submit.key \in tasks
  /\ mu' = Free
  /\ submit' = [submit EXCEPT !.pc = "idle"]
  /\ UNCHANGED <<tasks, workers, work, cancelled, closed>>

\* Variants of the next step: without looking the key up, without the wait
\* group, and with the lock released before the key is registered.
SpawnUnchecked ==
  /\ submit.pc = "locked"
  /\ work' = work + 1
  /\ workers' = [workers EXCEPT ![submit.key]["running"] = @ + 1]
  /\ submit' = [submit EXCEPT !.pc = "spawned"]
  /\ UNCHANGED <<tasks, mu, cancelled, closed>>

SpawnUncounted ==
  /\ submit.pc = "locked"
  /\ submit.key \notin tasks
  /\ workers' = [workers EXCEPT ![submit.key]["running"] = @ + 1]
  /\ submit' = [submit EXCEPT !.pc = "spawned"]
  /\ UNCHANGED <<tasks, mu, work, cancelled, closed>>

SpawnUnlocked ==
  /\ submit.pc = "locked"
  /\ submit.key \notin tasks
  /\ mu' = Free
  /\ work' = work + 1
  /\ workers' = [workers EXCEPT ![submit.key]["running"] = @ + 1]
  /\ submit' = [submit EXCEPT !.pc = "spawned"]
  /\ UNCHANGED <<tasks, cancelled, closed>>

\* GoWith: the wait group is incremented and the goroutine starts, before the
\* key is registered.
SubmitSpawn ==
  /\ submit.pc = "locked"
  /\ submit.key \notin tasks
  /\ work' = work + 1
  /\ workers' = [workers EXCEPT ![submit.key]["running"] = @ + 1]
  /\ submit' = [submit EXCEPT !.pc = "spawned"]
  /\ UNCHANGED <<tasks, mu, cancelled, closed>>

\* tasks.Add(key), then the deferred unlock.
SubmitAdd ==
  /\ submit.pc = "spawned"
  /\ tasks' = tasks \cup {submit.key}
  /\ mu' = Free
  /\ submit' = [submit EXCEPT !.pc = "idle"]
  /\ UNCHANGED <<workers, work, cancelled, closed>>

-----------------------------------------------------------------------------
\* task(ctx) returns.
TaskReturn(k) ==
  /\ Move(k, "running", "leaving")
  /\ UNCHANGED <<tasks, mu, submit, work, cancelled, closed>>

ExitLock(k) ==
  /\ mu = Free
  /\ Move(k, "leaving", "locked")
  /\ mu' = k
  /\ UNCHANGED <<tasks, submit, work, cancelled, closed>>

\* Variants of the next step: the lock is kept; the key is.
ExitKeepingLock(k) ==
  /\ Move(k, "locked", "draining")
  /\ tasks' = tasks \ {k}
  /\ UNCHANGED <<mu, submit, work, cancelled, closed>>

ExitKeepingKey(k) ==
  /\ Move(k, "locked", "draining")
  /\ mu' = Free
  /\ UNCHANGED <<tasks, submit, work, cancelled, closed>>

\* delete(e.tasks, key) and the deferred unlock.
ExitDelete(k) ==
  /\ Move(k, "locked", "draining")
  /\ tasks' = tasks \ {k}
  /\ mu' = Free
  /\ UNCHANGED <<submit, work, cancelled, closed>>

\* Variants of the next step: wg.Done is left out; it is called twice, once by a
\* deferred function and once by the code before it.
EndUncounted(k) ==
  /\ workers[k]["draining"] > 0
  /\ workers' = [workers EXCEPT ![k]["draining"] = @ - 1]
  /\ UNCHANGED <<tasks, mu, submit, work, cancelled, closed>>

EndTwice(k) ==
  /\ workers[k]["draining"] > 0
  /\ workers' = [workers EXCEPT ![k]["draining"] = @ - 1]
  /\ work' = work - 2
  /\ UNCHANGED <<tasks, mu, submit, cancelled, closed>>

\* The goroutine ends: wg.Done.
GoroutineEnd(k) ==
  /\ workers[k]["draining"] > 0
  /\ workers' = [workers EXCEPT ![k]["draining"] = @ - 1]
  /\ work' = work - 1
  /\ UNCHANGED <<tasks, mu, submit, cancelled, closed>>

-----------------------------------------------------------------------------
\* Close cancels e.ctx ...
CloseCancel ==
  /\ submit.pc = "idle"
  /\ ~cancelled
  /\ cancelled' = TRUE
  /\ UNCHANGED <<tasks, mu, submit, workers, work, closed>>

\* ... and returns when the wait group is empty.
CloseReturn ==
  /\ cancelled
  /\ ~closed
  /\ work = 0
  /\ closed' = TRUE
  /\ UNCHANGED <<tasks, mu, submit, workers, work, cancelled>>

SubmitStep == SubmitLock \/ SubmitDrop \/ SubmitSpawn \/ SubmitAdd

ExitStep(k) == ExitLock(k) \/ ExitDelete(k) \/ GoroutineEnd(k)

Next ==
  \/ \E k \in Keys : SubmitCall(k) \/ TaskReturn(k) \/ ExitStep(k)
  \/ SubmitStep
  \/ CloseCancel
  \/ CloseReturn

Spec == Init /\ [][Next]_execVars

\* Goroutines are scheduled.  The lock is a channel of capacity one, whose
\* blocked senders the runtime serves in the order of their arrival: a
\* goroutine that waits gets it (strong fairness).  A task is sure to return
\* only once its context is cancelled.
Fairness ==
  /\ SF_execVars(SubmitLock)
  /\ WF_execVars(SubmitStep)
  /\ \A k \in Keys :
       /\ WF_execVars(cancelled /\ TaskReturn(k))
       /\ SF_execVars(ExitLock(k))
       /\ WF_execVars(ExitStep(k))
  /\ WF_execVars(CloseReturn)

FairSpec == Spec /\ Fairness

-----------------------------------------------------------------------------
\* The goroutines of k that have not yet given the key back.
Live(k) == workers[k]["running"] + workers[k]["leaving"] + workers[k]["locked"]

\* The types; among them, that the counter of the wait group never falls below
\* zero, where sync.WaitGroup panics and the process with it (core/task.go
\* 66-75): a Done is called once for every Add, whoever ends first.
TypeOK ==
  /\ tasks \in SUBSET Keys
  /\ mu \in Keys \cup {Free, Caller}
  /\ submit \in [pc : SubmitPC, key : Keys]
  /\ workers \in [Keys -> [Phase -> Nat]]
  /\ work \in Nat
  /\ cancelled \in BOOLEAN
  /\ closed \in BOOLEAN

\* At most one goroutine executes the task of a key: two of them would poll one
\* feed concurrently, deliver its updates twice and overwrite each other's
\* offsets (Submit, core/task.go 54-79).
OneWorkerPerKey == \A k \in Keys : workers[k]["running"] <= 1

\* Whenever the lock is free, a key is registered exactly when a goroutine that
\* will give it back exists.  A key left behind could never be submitted again,
\* and its feed would not be polled until the process restarts; a key missing
\* would let a second task in (the lock is held across the go statement and
\* tasks.Add so that a task that returns at once cannot delete first).
KeyHeldByGoroutine ==
  mu = Free => \A k \in Keys : k \in tasks <=> Live(k) = 1

\* The wait group counts the goroutines that have not ended, so that when Close
\* has returned no task touches the database, which is closed next
\* (core/task.go 81-85).
NothingRunsAfterClose ==
  closed => \A k \in Keys : workers[k] = NoGoroutine

\* Submit never blocks for ever on the lock, whatever the tasks do.
SubmitReturns == submit.pc = "waiting" ~> submit.pc = "idle"

\* A key whose task has returned is given back, so the feed can be submitted
\* again.
KeyGivenBack ==
  \A k \in Keys : workers[k]["leaving"] > 0 ~> k \notin tasks

\* Close returns if every task returns once its context is cancelled.
CloseReturns == cancelled ~> closed

\* Whoever calls or works for the executor comes to an end: the three above.
AllReturn == SubmitReturns /\ KeyGivenBack /\ CloseReturns

-----------------------------------------------------------------------------
Promise ==
  INSTANCE KeyedExecutor
    WITH executing <- [k \in Keys |-> workers[k]["running"]],
         open <- ~cancelled

\* The executor implements its interface: no step starts a key that is being
\* executed or starts anything after Close began.
KeepsPromise == Promise!Spec
=============================================================================
