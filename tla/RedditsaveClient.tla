-------------------------- MODULE RedditsaveClient --------------------------
(***************************************************************************)
(* Concurrent calls of ResolveURL in 3rdparty/redditsave/client.go, which  *)
(* share a cookie jar, and the write lock of RWMutex (flu/syncf) that      *)
(* guards it.  The lock is reentrant by the context handed to the nested   *)
(* call; the context of a call may end at any time.                        *)
(***************************************************************************)
EXTENDS Integers

CONSTANTS
  Calls,          \* the calls of ResolveURL
  Interruptible,  \* those whose context may end
  RefreshEvery,   \* Config.RefreshEvery, in ticks of the clock
  MaxTime         \* bound of the clock

ClockAssumption == RefreshEvery \in Nat /\ MaxTime \in Nat
ContextAssumption == Interruptible \subseteq Calls

Free == "free"
FreeAssumption == Free \notin Calls

VARIABLES
  clock,
  mu,           \* the call in the lock, or Free
  lastRefresh,  \* the field; the zero time is long before the start
  jar,          \* when the jar got its cookies; Never for a jar without any
  pc, now,      \* the place of each call and its local variable now
  ended         \* the calls whose context is done

vars == <<clock, mu, lastRefresh, jar, pc, now, ended>>

Never == -(RefreshEvery + 1)
Inside == {"checking", "asking", "refreshing", "leaving"}
Places == {"idle", "locking", "returned"} \cup Inside

Init ==
  /\ clock = 0 /\ mu = Free /\ lastRefresh = Never /\ jar = Never
  /\ pc = [c \in Calls |-> "idle"] /\ now = [c \in Calls |-> 0]
  /\ ended = {}

Goto(c, place) == pc' = [pc EXCEPT ![c] = place]
ReadClock(c) == now' = [now EXCEPT ![c] = clock]

-----------------------------------------------------------------------------
\* The clock is read before the lock is asked for.
Call(c) ==
  /\ pc[c] = "idle"
  /\ ReadClock(c)
  /\ Goto(c, "locking")
  /\ UNCHANGED <<clock, mu, lastRefresh, jar, ended>>

\* reentrant looks at the context after lock: when it is done by then, the call
\* gets a function that unlocks nothing, although the lock is taken.
Lock(c) ==
  /\ pc[c] = "locking"
  /\ mu = Free
  /\ mu' = c
  /\ Goto(c, IF c \in ended THEN "returned" ELSE "checking")
  /\ UNCHANGED <<clock, lastRefresh, jar, now, ended>>

\* Variant of the next definition: the context is not looked at after Lock.
GoOn == "checking"
Interrupted == "returned"

\* The other branch of the select in lock.
LockRefused(c) ==
  /\ pc[c] = "locking" /\ c \in ended
  /\ Goto(c, Interrupted)
  /\ UNCHANGED <<clock, mu, lastRefresh, jar, now, ended>>

\* Variant of the next definition: an age below zero is taken for outdated.
AgeIsSane(c) == now[c] - lastRefresh \in 0..RefreshEvery
IsFresh(c) == now[c] - lastRefresh <= RefreshEvery

\* A call that has to refresh installs a new jar first.  Nested calls look at
\* their context here.
Check(c) ==
  /\ pc[c] = "checking"
  /\ IF c \in ended THEN Goto(c, "leaving") /\ UNCHANGED jar
     ELSE IF IsFresh(c) THEN Goto(c, "asking") /\ UNCHANGED jar
     ELSE Goto(c, "refreshing") /\ jar' = Never
  /\ UNCHANGED <<clock, mu, lastRefresh, now, ended>>

\* Variant of the next definition: the nested call asks for the lock anew.
LockAgain == "locking"
Nested == "checking"

\* Variant of the next definition: the time of the next refresh is kept.
RefreshDue(c) == now[c] + RefreshEvery
RefreshedAt(c) == now[c]

\* The site sets its cookies, and ResolveURL calls itself.
Refresh(c) ==
  /\ pc[c] = "refreshing"
  /\ jar' = clock
  /\ lastRefresh' = RefreshedAt(c)
  /\ ReadClock(c)
  /\ Goto(c, Nested)
  /\ UNCHANGED <<clock, mu, ended>>

\* The refresh fails; the request for the URL ends: with the URL, without a
\* download button on the page, with another error.
Finish(c) ==
  /\ pc[c] \in {"refreshing", "asking"}
  /\ Goto(c, "leaving")
  /\ UNCHANGED <<clock, mu, lastRefresh, jar, now, ended>>

\* The deferred cancel.  It was registered twice and unlocks once.
Unlock(c) ==
  /\ pc[c] = "leaving"
  /\ mu' = Free
  /\ Goto(c, "returned")
  /\ UNCHANGED <<clock, lastRefresh, jar, now, ended>>

EndContext(c) ==
  /\ c \in Interruptible \ ended
  /\ pc[c] # "returned"
  /\ ended' = ended \cup {c}
  /\ UNCHANGED <<clock, mu, lastRefresh, jar, pc, now>>

Tick ==
  /\ clock < MaxTime
  /\ clock' = clock + 1
  /\ UNCHANGED <<mu, lastRefresh, jar, pc, now, ended>>

Step(c) == Lock(c) \/ LockRefused(c) \/ Check(c) \/ Refresh(c) \/ Finish(c) \/ Unlock(c)

Next == Tick \/ \E c \in Calls : Call(c) \/ EndContext(c) \/ Step(c)

Spec == Init /\ [][Next]_vars

\* Goroutines run, the channel behind the lock serves its waiters in order, and
\* the transport ends every exchange.
FairSpec == Spec /\ \A c \in Calls : SF_vars(Lock(c)) /\ WF_vars(Step(c))

-----------------------------------------------------------------------------
\* The type invariant.
TypeOK ==
  /\ clock \in 0..MaxTime /\ mu \in Calls \cup {Free}
  /\ lastRefresh \in {Never} \cup 0..MaxTime /\ jar \in {Never} \cup 0..MaxTime
  /\ pc \in [Calls -> Places] /\ now \in [Calls -> 0..MaxTime]
  /\ ended \subseteq Interruptible

\* The jar, the field lastRefresh and the HTTP client they belong to are used by
\* the call in the lock only, although every call returns through two deferred
\* unlocks and a nested call.
OneInside == \A c \in Calls : pc[c] \in Inside => mu = c

\* A call that read the clock, then waited while others refreshed the cookie,
\* does not set the time of the last refresh back.
RefreshTimeGrows == [][lastRefresh' >= lastRefresh]_vars

\* The lock was taken by a call that returned without a way to release it.
LockLost == mu # Free /\ pc[mu] = "returned"

\* Every call returns, and no call waits for the lock it holds, unless the lock was
\* lost.
CallsReturn == \A c \in Calls : pc[c] = "locking" ~> pc[c] = "returned" \/ LockLost
=============================================================================
