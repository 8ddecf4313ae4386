------------------------------ MODULE Mediator ------------------------------
(***************************************************************************)
(* Mediation of media (core/internal/mediator/impl.go) with the temporary  *)
(* files it works on (core/internal/blobs/files.go) and the table of       *)
(* hashes (IsMediaUnique in core/internal/storage/sql.go).                 *)
(*                                                                         *)
(* A vendor calls Mediate while it composes an update; a goroutine of the  *)
(* mediator fetches the medium meanwhile, and the task that handles the    *)
(* update waits for the answer and sends it.  Each element of Media is one *)
(* call of Mediate for one feed: a post that is refreshed again has        *)
(* another element with the same hash.                                     *)
(***************************************************************************)
EXTENDS Integers, FiniteSets

CONSTANTS
  Media,         \* the calls of Mediate
  Hash,          \* the hash of each medium's content
  Deduplicated,  \* the calls with a dedupKey
  Timeout,       \* MediatorConfig.Timeout, in ticks
  TTL,           \* BlobConfig.TTL, in ticks
  MaxTime        \* bound of the clock

ASSUME MediaAssumption ==
  IsFiniteSet(Media) /\ Deduplicated \subseteq Media /\ Hash \in [Media -> Nat]
ASSUME TimeAssumption == Timeout \in Nat /\ TTL \in Nat /\ Timeout <= TTL /\ MaxTime \in Nat

NoFile == -2
Gone == -1   \* the file was removed; otherwise a file is the time of its creation

VARIABLES
  clock,
  seen,        \* the hashes in the table "blob"
  job, began,  \* the place of each goroutine and when it started
  file,        \* the file each goroutine works on, or gives to the chat
  answer,      \* what the Var of each call holds
  post,        \* the place of the update with the medium
  work,        \* the wait group
  state,       \* how far the shutdown of the application has come
  ctx          \* m.ctx: not made yet, alive, or cancelled

jobVars == <<job, began, file, seen>>
appVars == <<work, state, ctx>>
vars == <<clock, jobVars, answer, post, appVars>>

Running == {"resolving", "measuring", "hashing", "converting", "sizing"}
\* Core.Close closes in the reverse order of Manage: the mediator (cancel, Wait),
\* the blobs, the executor.
States == {"open", "cancelled", "closed", "removed", "stopped"}
UsingFile == {"hashing", "converting", "sizing"}
Active == {m \in Media : job[m] \in Running}

Init ==
  /\ clock = 0 /\ seen = {} /\ work = 0 /\ state = "open" /\ ctx = "none"
  /\ job = [m \in Media |-> "none"] /\ began = [m \in Media |-> 0]
  /\ file = [m \in Media |-> NoFile]
  /\ answer = [m \in Media |-> "none"] /\ post = [m \in Media |-> "new"]

-----------------------------------------------------------------------------
Goto(m, place) == job' = [job EXCEPT ![m] = place]

\* Mediate in a vendor's writer, before the update is submitted: vendors are at
\* work until the executor has closed, which comes last.  The first call makes
\* the context, even if the mediator has closed before.  Spawn counts the
\* goroutine before it looks at the context: once that is cancelled it stays
\* counted and never starts.
Mediate(m) ==
  /\ post[m] = "new"
  /\ post' = [post EXCEPT ![m] = "queued"]
  /\ ctx' = IF ctx = "none" THEN "live" ELSE ctx
  /\ work' = work + 1
  /\ began' = [began EXCEPT ![m] = clock]
  /\ IF ctx = "cancelled"
       THEN Goto(m, "unstarted") /\ answer' \in {answer, [answer EXCEPT ![m] = "error"]}
       ELSE Goto(m, "resolving") /\ UNCHANGED answer
  /\ UNCHANGED <<clock, seen, file, state>>

\* A source that is no URL.
MediateInvalid(m) ==
  /\ post[m] = "new"
  /\ post' = [post EXCEPT ![m] = "queued"]
  /\ answer' = [answer EXCEPT ![m] = "error"]
  /\ UNCHANGED <<clock, jobVars, appVars>>

\* Variant of the next definition: the duplicate's error is returned from the
\* goroutine before the Var is completed.
SwallowDuplicate(m, a) ==
  IF a = "nothing" THEN answer ELSE [answer EXCEPT ![m] = a]
Completed(m, a) == [answer EXCEPT ![m] = a]

\* Variants of the next definition: without the once of Spawn's CancelFunc, and
\* without calling it.
ReleasedTwice == work - 2
NeverReleased == work
Released == work - 1

\* The goroutine ends: its answer is put in the Var, unless the context is done
\* and the select of Complete takes the other branch.
End(m, a) ==
  /\ Goto(m, "ended")
  /\ \/ answer' = Completed(m, a)
     \/ ctx = "cancelled" /\ UNCHANGED answer
  /\ work' = Released

\* Variant of the next definition: a file is removed when it is TTL old.
RemoveAtTTL(t) == clock - t >= TTL
Expired(t) == clock - t > TTL

\* alloc in blobs: files that are too old are removed and a new one is created.
\* It stays in the map, and is removed again each time.
AllocFor(m) ==
  file' = [n \in Media |-> IF n = m THEN clock
                           ELSE IF file[n] >= 0 /\ Expired(file[n]) THEN Gone
                           ELSE file[n]]

\* The first resolver that knows the source, or plain HTTP.
Resolve(m) ==
  /\ job[m] = "resolving"
  /\ Goto(m, "measuring")
  /\ UNCHANGED <<clock, began, file, seen, answer, post, appVars>>

\* convert: the metadata arrive.  With a dedupKey the medium is copied to a file
\* now.
Measure(m) ==
  /\ job[m] = "measuring"
  /\ IF m \in Deduplicated THEN Goto(m, "hashing") /\ AllocFor(m)
                           ELSE Goto(m, "converting") /\ UNCHANGED file
  /\ UNCHANGED <<clock, began, seen, answer, post, appVars>>

\* Variant of the next definition: the row is found by URL, which differs from
\* one copy of a medium to another.
KeyByURL(m) == m
Key(m) == Hash[m]

\* IsMediaUnique inserts the hash or counts a collision, in one transaction.
Dedup(m) ==
  /\ job[m] = "hashing"
  /\ IF Key(m) \in seen
       THEN End(m, "nothing") /\ UNCHANGED seen
       ELSE Goto(m, "converting") /\ seen' = seen \cup {Key(m)} /\ UNCHANGED <<answer, work>>
  /\ UNCHANGED <<clock, began, file, post, state, ctx>>

\* A medium that needs no conversion, or that no converter can convert, stays as
\* it is; a converter leaves its result in another file or at another URL.
Convert(m) ==
  /\ job[m] = "converting"
  /\ Goto(m, "sizing")
  /\ \/ UNCHANGED file
     \/ AllocFor(m)
     \/ file' = [file EXCEPT ![m] = NoFile]
  /\ UNCHANGED <<clock, began, seen, answer, post, appVars>>

\* A small medium is sent by its URL, or as the file it is in; a larger one, and
\* one of unknown size, is copied to a file first, unless it is in one.
Finish(m) ==
  /\ job[m] = "sizing"
  /\ \/ UNCHANGED file
     \/ file[m] = NoFile /\ AllocFor(m)
  /\ End(m, "media")
  /\ UNCHANGED <<clock, began, seen, post, state, ctx>>

\* A request, the storage, the disk or the timeout fails; the medium is empty,
\* too large, of the wrong type or cannot be decoded.  A hash stays stored.
Fail(m) ==
  /\ job[m] \in Running
  /\ End(m, "error")
  /\ UNCHANGED <<clock, began, file, seen, post, state, ctx>>

Step(m) == Resolve(m) \/ Measure(m) \/ Dedup(m) \/ Convert(m) \/ Finish(m) \/ Fail(m)

-----------------------------------------------------------------------------
(* The task of the feed.                                                   *)

\* The update's turn comes; or it is dropped with the queue, because an earlier
\* one failed, and the post is refreshed again some day.
Receive(m) ==
  /\ post[m] = "queued"
  /\ post' = [post EXCEPT ![m] = "waiting"]
  /\ UNCHANGED <<clock, jobVars, answer, appVars>>

Drop(m) ==
  /\ post[m] = "queued"
  /\ post' = [post EXCEPT ![m] = "dropped"]
  /\ UNCHANGED <<clock, jobVars, answer, appVars>>

\* Chat.SendMedia: the medium is sent; nothing is sent for a duplicate; an error
\* leaves the caption or nothing, as does a failure to send the medium (its file
\* may be gone by now).
Deliver(m) ==
  /\ post[m] = "waiting"
  /\ \/ answer[m] = "media" /\ file[m] # Gone /\ post' = [post EXCEPT ![m] = "delivered"]
     \/ answer[m] = "nothing" /\ post' = [post EXCEPT ![m] = "filtered"]
     \/ answer[m] \in {"media", "error"} /\ post' = [post EXCEPT ![m] = "without"]
  /\ UNCHANGED <<clock, jobVars, answer, appVars>>

\* Get ends with the context of the task.
Interrupt(m) ==
  /\ post[m] = "waiting" /\ state = "stopped"
  /\ post' = [post EXCEPT ![m] = "dropped"]
  /\ UNCHANGED <<clock, jobVars, answer, appVars>>

TaskStep(m) == Receive(m) \/ Drop(m) \/ Deliver(m) \/ Interrupt(m)

\* Time passes.  A goroutine whose timeout is over is interrupted at once.
Tick ==
  /\ clock < MaxTime
  /\ \A m \in Active : clock < began[m] + Timeout
  /\ clock' = clock + 1
  /\ UNCHANGED <<jobVars, answer, post, appVars>>

\* Variant of the next step: what runs is cancelled and not waited for.
CloseWithoutWait ==
  /\ state = "open"
  /\ state' = "closed"
  /\ ctx' = IF ctx = "none" THEN "none" ELSE "cancelled"
  /\ UNCHANGED <<clock, jobVars, answer, post, work>>

\* Close of a mediator that was never called has nothing to cancel and waits for
\* nothing.
CloseCancel ==
  /\ state = "open"
  /\ IF ctx = "none"
       THEN state' = "closed" /\ UNCHANGED ctx
       ELSE state' = "cancelled" /\ ctx' = "cancelled"
  /\ UNCHANGED <<clock, jobVars, answer, post, work>>

AllDone == work = 0

CloseReturn ==
  /\ state = "cancelled" /\ AllDone
  /\ state' = "closed"
  /\ UNCHANGED <<clock, jobVars, answer, post, work, ctx>>

\* Files.Close removes the directory, taskExecutor.Close cancels the tasks.
CloseBlobs ==
  /\ state = "closed"
  /\ state' = "removed"
  /\ file' = [m \in Media |-> IF file[m] >= 0 THEN Gone ELSE file[m]]
  /\ UNCHANGED <<clock, job, began, seen, answer, post, work, ctx>>

CloseExecutor ==
  /\ state = "removed"
  /\ state' = "stopped"
  /\ UNCHANGED <<clock, jobVars, answer, post, work, ctx>>

Shutdown == CloseReturn \/ CloseBlobs \/ CloseExecutor

Next ==
  \/ Tick \/ CloseCancel \/ Shutdown
  \/ \E m \in Media : Mediate(m) \/ MediateInvalid(m) \/ Step(m) \/ TaskStep(m)

Spec == Init /\ [][Next]_vars

\* Goroutines run, and every step of theirs ends at the timeout at the latest.
FairSpec ==
  /\ Spec
  /\ WF_vars(Shutdown)
  /\ \A m \in Media : WF_vars(Step(m)) /\ WF_vars(TaskStep(m))

-----------------------------------------------------------------------------
\* The type invariant.  The wait group counts at least the goroutines, so Wait
\* does not return, nor Done panic, while one runs.
TypeOK ==
  /\ clock \in 0..MaxTime /\ seen \subseteq Nat
  /\ job \in [Media -> {"none", "unstarted", "ended"} \cup Running] /\ began \in [Media -> 0..MaxTime]
  /\ file \in [Media -> {NoFile, Gone} \cup 0..MaxTime]
  /\ answer \in [Media -> {"none", "media", "nothing", "error"}]
  /\ post \in [Media -> {"new", "queued", "waiting", "delivered", "filtered", "without", "dropped"}]
  /\ work \in Cardinality(Active)..Cardinality(Media)
  /\ state \in States /\ ctx \in {"none", "live", "cancelled"}

\* A chat never gets the same medium twice from subscriptions that filter
\* duplicates, although copies are mediated concurrently and sent in any order.
NoDuplicateDelivered ==
  \A m, n \in Deduplicated :
    post[m] = "delivered" /\ post[n] = "delivered" /\ Hash[m] = Hash[n] => m = n

\* The mediator was called for the first time after its Close, which therefore
\* neither cancelled the context of this call nor waits for its goroutine.
Late == ctx = "live" /\ state # "open"

\* A file that a goroutine works on is removed neither by the clean-up that
\* another one's alloc does, provided that the timeout does not exceed the TTL,
\* nor by the shutdown, which removes the directory when the mediator's Wait has
\* returned; except that Close does not wait for what is called Late (mediator/
\* impl.go 63, 265-270; blobs/files.go 44-70).
FileKeptWhileUsed ==
  \A m \in Media : job[m] \in UsingFile /\ file[m] = Gone
                     => Late /\ state \in {"removed", "stopped"}

\* A vendor called Mediate between the mediator's cancel and its Wait.
Stranded == state = "cancelled" /\ \E m \in Media : job[m] = "unstarted"

\* A task that waits for a medium gets an answer or is stopped, unless a goroutine
\* that never starts is waited for.
WaiterServed == \A m \in Media : post[m] = "waiting" ~> post[m] # "waiting" \/ Stranded

\* "Close closes the context and shuts down the application" (apfel/core.go):
\* the mediator's part of it, which comes first, ends and the others follow, unless
\* a vendor is at work in between; also when goroutines run that nobody waits for.
CloseReturns == state # "open" ~> state = "stopped" \/ Stranded
=============================================================================
