------------------------------- MODULE Poller -------------------------------
(***************************************************************************)
(* The poller of core/internal/poller/impl.go composed with the table of   *)
(* subscriptions (FeedTable) and the task executor (TaskExecutor).         *)
(*                                                                         *)
(* Two kinds of goroutines meet here.  The listener runs the commands of   *)
(* the supervisor one after another (before that, main restores the active *)
(* feeds): Subscribe, Suspend, Resume, Delete, Clear.  A feed with active  *)
(* subscriptions has a task, a loop that takes the subscription refreshed  *)
(* longest ago, delivers its updates and stores its offset.  They share    *)
(* the table and the executor, and a statement of one may fall between any *)
(* two statements of the other.  The process may also stop at any point    *)
(* and start again with nothing but the table.                             *)
(*                                                                         *)
(* A vendor is a source of items numbered from 1.  The data of a row is    *)
(* the offset up to which the items have been stored, and the number of    *)
(* the Subscribe whose input it descends from.  The queue between the      *)
(* vendor's goroutine and the task is first-in first-out (UpdateQueue), so *)
(* the task sees the items of one refresh in order.                        *)
(***************************************************************************)
EXTENDS FeedTable

CONSTANTS
  Ops,            \* the commands the supervisor uses
  Faults,         \* the failures that may occur
  MaxBirths,      \* bound: how often a header is subscribed to
  MaxItems,       \* bound: how many items a source publishes
  MaxCrashes,     \* bound: how often the process stops without Close
  MaxGoroutines   \* bound of TaskExecutor

AllOps == {"subscribe", "suspend", "resume", "delete", "clear", "close"}

\* A storage statement fails; the vendor does; sending a message does; an
\* operation that is not cancelled runs into a deadline.
AllFaults == {"storage", "vendor", "send", "deadline"}

ASSUME PollerAssumption ==
  /\ Ops \subseteq AllOps
  /\ Faults \subseteq AllFaults
  /\ MaxBirths \in Nat
  /\ MaxItems \in Nat
  /\ MaxCrashes \in Nat

VARIABLES
  tasks, mu, submit, workers, work, cancelled, closed,   \* TaskExecutor
  listener,    \* the goroutine that restores and then runs commands
  loop,        \* the task of each feed
  published,   \* how many items the source of a header has
  delivered,   \* the items sent to the chat, each with the birth of its data
  births,      \* how often a header was subscribed to
  late,        \* how many items were sent since a row is not active (0, 1, more)
  crashes

Exec == INSTANCE TaskExecutor WITH Keys <- Feeds

ASSUME ExecutorAssumption ==
  /\ Exec!Free \notin Feeds /\ Exec!Caller \notin Feeds
  /\ MaxGoroutines \in Nat \ {0}

execVars == <<tasks, mu, submit, workers, work, cancelled, closed>>
sourceVars == <<published, delivered, births, late>>
vars == <<rows, age, execVars, listener, loop, sourceVars, crashes>>

-----------------------------------------------------------------------------
NoHeader == "none"

\* The listener: what it does next, the command it runs, its header, the
\* status of the row before the command, and the feeds still to be restored.
Listening ==
  [step |-> "idle", op |-> "none", header |-> NoHeader, was |-> "absent", todo |-> {}]

Booting == [Listening EXCEPT !.step = "boot"]

ListenerSteps == {"boot", "restore", "idle", "get", "submit", "submitted", "failed"}

\* The loop of a task: its place, the subscription ShiftSubscription returned,
\* the items its source had when the refresh began, and whether an update was
\* stored.
NoLoop ==
  [pc |-> "none", header |-> NoHeader, data |-> Blank, seen |-> 0, sent |-> FALSE]

LoopPCs ==
  {"none", "shift", "start", "hung", "refresh", "persist", "touch", "suspend", "sleep"}

Begin == [NoLoop EXCEPT !.pc = "shift"]

At(f, pc) == loop[f].pc = pc

Goto(f, pc) == loop' = [loop EXCEPT ![f].pc = pc]

Data0 == [born |-> 0, off |-> 0]

DataOf(maxBirths, maxItems) == [born : 0..maxBirths, off : 0..maxItems]

\* The column can hold every value a command or a task stores.
ASSUME DataAssumption == DataOf(MaxBirths, MaxItems) \subseteq Data

Init ==
  /\ rows = [h \in Headers |-> NoRow]
  /\ age = [h \in Headers |-> Never]
  /\ Exec!Init
  /\ listener = Booting
  /\ loop = [f \in Feeds |-> NoLoop]
  /\ published = [h \in Headers |-> 0]
  /\ delivered = [h \in Headers |-> {}]
  /\ births = [h \in Headers |-> 0]
  /\ late = [h \in Headers |-> 0]
  /\ crashes = 0

-----------------------------------------------------------------------------
(* The listener.  A command that is refused before its first write (the    *)
(* vendor cannot parse the input, BeforeResume objects, the row exists or  *)
(* is not there) changes nothing and is no step.                           *)

\* Variant of the next step: nothing is restored.
RestoreSkipped ==
  /\ listener.step = "boot"
  /\ listener' = [listener EXCEPT !.step = "restore", !.todo = {}]
  /\ UNCHANGED <<tableVars, execVars, loop, sourceVars, crashes>>

\* RestoreActive: the feed IDs are read once ...
RestoreQuery ==
  /\ listener.step = "boot"
  /\ listener' = [listener EXCEPT !.step = "restore", !.todo = ActiveFeedIDs]
  /\ UNCHANGED <<tableVars, execVars, loop, sourceVars, crashes>>

\* ... and a task is submitted for each of them.
RestoreSubmit ==
  /\ listener.step = "restore"
  /\ \E f \in listener.todo :
       /\ Exec!SubmitCall(f)
       /\ listener' = [listener EXCEPT !.todo = @ \ {f}]
  /\ UNCHANGED <<tableVars, loop, sourceVars, crashes>>

RestoreDone ==
  /\ listener.step = "restore"
  /\ listener.todo = {}
  /\ submit.pc = "idle"
  /\ listener' = Listening
  /\ UNCHANGED <<tableVars, execVars, loop, sourceVars, crashes>>

\* The command op on h, whose row has the given status, goes on with a step.
Runs(op, h, step) ==
  listener' = [Listening EXCEPT !.step = step, !.op = op, !.header = h, !.was = rows[h].status]

Accepts(op) ==
  /\ op \in Ops
  /\ listener.step = "idle"
  /\ ~cancelled

\* Subscribe up to CreateSubscription.  The option deadborn creates the row
\* suspended, and no task is submitted.
Subscribe(h, status) ==
  /\ Accepts("subscribe")
  /\ births[h] < MaxBirths
  /\ Create(h, status, [born |-> births[h] + 1, off |-> 0])
  /\ births' = [births EXCEPT ![h] = @ + 1]
  /\ late' = [late EXCEPT ![h] = 0]
  /\ IF status = "active" THEN Runs("subscribe", h, "submit") ELSE UNCHANGED listener
  /\ UNCHANGED <<execVars, loop, published, delivered, crashes>>

\* Suspend: UpdateSubscription, then GetSubscription.
Suspend(h) ==
  /\ Accepts("suspend")
  /\ WriteError(h, "byUser")
  /\ Runs("suspend", h, "get")
  /\ UNCHANGED <<execVars, loop, sourceVars, crashes>>

\* Resume: UpdateSubscription, then GetSubscription, then submitTask.
Resume(h) ==
  /\ Accepts("resume")
  /\ ClearError(h)
  /\ Runs("resume", h, "get")
  /\ late' = [late EXCEPT ![h] = 0]
  /\ UNCHANGED <<execVars, loop, published, delivered, births, crashes>>

GetUpdated ==
  /\ listener.step = "get"
  /\ listener' = IF listener.op = "resume" THEN [listener EXCEPT !.step = "submit"]
                                           ELSE Listening
  /\ UNCHANGED <<tableVars, execVars, loop, sourceVars, crashes>>

\* GetSubscription fails: the command replies with an error.
GetFails ==
  /\ "storage" \in Faults
  /\ listener.step = "get"
  /\ listener' = [listener EXCEPT !.step = "failed"]
  /\ UNCHANGED <<tableVars, execVars, loop, sourceVars, crashes>>

FailureReplied ==
  /\ listener.step = "failed"
  /\ listener' = Listening
  /\ UNCHANGED <<tableVars, execVars, loop, sourceVars, crashes>>

\* Variant of the next step: the task is not submitted.
SubmitForgotten ==
  /\ listener.step = "submit"
  /\ listener' = Listening
  /\ UNCHANGED <<tableVars, execVars, loop, sourceVars, crashes>>

\* submitTask.
SubmitTask ==
  /\ listener.step = "submit"
  /\ Exec!SubmitCall(FeedOf[listener.header])
  /\ listener' = [listener EXCEPT !.step = "submitted"]
  /\ UNCHANGED <<tableVars, loop, sourceVars, crashes>>

SubmitReturned ==
  /\ listener.step = "submitted"
  /\ submit.pc = "idle"
  /\ listener' = Listening
  /\ UNCHANGED <<tableVars, execVars, loop, sourceVars, crashes>>

\* Delete: GetSubscription, which changes nothing, then DeleteSubscription.
DeleteSub(h) ==
  /\ Accepts("delete")
  /\ Delete(h)
  /\ UNCHANGED <<execVars, listener, loop, sourceVars, crashes>>

Clear(f, pattern) ==
  /\ Accepts("clear")
  /\ DeleteAll(f, pattern)
  /\ UNCHANGED <<execVars, listener, loop, sourceVars, crashes>>

-----------------------------------------------------------------------------
(* The executor runs the task of a feed, whose loop begins when its        *)
(* goroutine starts and is left when the task returns.                     *)

ExecSubmitStep ==
  /\ \/ /\ Exec!SubmitLock \/ Exec!SubmitDrop \/ Exec!SubmitAdd
        /\ UNCHANGED loop
     \/ /\ Exec!SubmitSpawn
        /\ loop' = [loop EXCEPT ![submit.key] = Begin]
  /\ UNCHANGED <<tableVars, listener, sourceVars, crashes>>

ExecExitStep(f) ==
  /\ Exec!ExitStep(f)
  /\ UNCHANGED <<tableVars, listener, loop, sourceVars, crashes>>

ReturnTask(f) ==
  /\ Exec!TaskReturn(f)
  /\ loop' = [loop EXCEPT ![f] = NoLoop]
  /\ UNCHANGED <<tableVars, listener, sourceVars, crashes>>

\* ShiftSubscription returns a copy of the row.
Shift(f) ==
  /\ At(f, "shift")
  /\ ~cancelled
  /\ \E h \in Shiftable(f) :
       loop' = [loop EXCEPT ![f] =
                  [NoLoop EXCEPT !.pc = "start", !.header = h, !.data = rows[h].data]]
  /\ UNCHANGED <<tableVars, execVars, listener, sourceVars, crashes>>

\* It finds nothing, or fails, and the task returns.
ShiftFails(f) ==
  /\ At(f, "shift")
  /\ cancelled \/ "storage" \in Faults \/ Shiftable(f) = {}
  /\ ReturnTask(f)

\* GoSync starts the vendor's goroutine, which lists the source.
RefreshStart(f) ==
  /\ At(f, "start")
  /\ ~cancelled
  /\ loop' = [loop EXCEPT ![f].pc = "refresh", ![f].seen = published[loop[f].header]]
  /\ UNCHANGED <<tableVars, execVars, listener, sourceVars, crashes>>

\* On a cancelled context GoWith starts nothing: nobody will close the queue
\* the task ranges over, and the wait group of GoSync is never released.
RefreshHangs(f) ==
  /\ At(f, "start")
  /\ cancelled
  /\ Goto(f, "hung")
  /\ UNCHANGED <<tableVars, execVars, listener, sourceVars, crashes>>

Next1(f) == [loop[f].data EXCEPT !.off = @ + 1]

\* The next item reaches the chat.
Sent(f) ==
  LET h == loop[f].header
  IN /\ delivered' = [delivered EXCEPT ![h] = @ \cup {<<loop[f].data.born, Next1(f).off>>}]
     /\ late' = [late EXCEPT ![h] = IF Active(h) \/ @ = 2 THEN @ ELSE @ + 1]

\* Variant of the next condition, off by one.
HasNextInclusive(f) == At(f, "refresh") /\ loop[f].data.off <= loop[f].seen

HasNext(f) == At(f, "refresh") /\ loop[f].data.off < loop[f].seen

\* Variant of the next step that stores before it sends: the message is lost
\* when the process stops in between.
DeliverNothing(f) ==
  /\ HasNext(f)
  /\ ~cancelled
  /\ Goto(f, "persist")
  /\ UNCHANGED <<tableVars, execVars, listener, sourceVars, crashes>>

\* writeHTML and Flush succeed.
Deliver(f) ==
  /\ HasNext(f)
  /\ ~cancelled
  /\ Sent(f)
  /\ Goto(f, "persist")
  /\ UNCHANGED <<tableVars, execVars, listener, published, births, crashes>>

\* One of them fails, possibly after the messages have been sent.
DeliverFails(f) ==
  /\ "send" \in Faults
  /\ HasNext(f)
  /\ Sent(f) \/ UNCHANGED <<delivered, late>>
  /\ Goto(f, "suspend")
  /\ UNCHANGED <<tableVars, execVars, listener, published, births, crashes>>

\* The vendor fails.
VendorFails(f) ==
  /\ "vendor" \in Faults
  /\ At(f, "refresh")
  /\ Goto(f, "suspend")
  /\ UNCHANGED <<tableVars, execVars, listener, sourceVars, crashes>>

\* The refresh fails with an error of a context, and the task returns; a request
\* to Telegram that ends so may have sent the message.
RefreshAborted(f) ==
  /\ At(f, "refresh")
  /\ \/ HasNext(f) /\ Sent(f)
     \/ UNCHANGED <<delivered, late>>
  /\ Exec!TaskReturn(f)
  /\ loop' = [loop EXCEPT ![f] = NoLoop]
  /\ UNCHANGED <<tableVars, listener, published, births, crashes>>

\* The vendor or the request misses a deadline of its own.
DeadlineMissed(f) == "deadline" \in Faults /\ RefreshAborted(f)

\* Variants of the next step: the refresh goes on although the row is gone or
\* suspended; the first item of a refresh is not stored.
PersistMissIgnored(f) ==
  /\ At(f, "persist")
  /\ ~cancelled
  /\ IF Active(loop[f].header)
       THEN WriteData(loop[f].header, Next1(f))
       ELSE UNCHANGED tableVars
  /\ loop' = [loop EXCEPT ![f].pc = "refresh", ![f].data = Next1(f), ![f].sent = TRUE]
  /\ UNCHANGED <<execVars, listener, sourceVars, crashes>>

PersistDeferred(f) ==
  /\ At(f, "persist")
  /\ ~cancelled
  /\ IF loop[f].sent
       THEN WriteData(loop[f].header, Next1(f))
       ELSE UNCHANGED tableVars
  /\ loop' = [loop EXCEPT ![f].pc = "refresh", ![f].data = Next1(f), ![f].sent = TRUE]
  /\ UNCHANGED <<execVars, listener, sourceVars, crashes>>

\* UpdateSubscription stores the data submitted with the update.
Persist(f) ==
  /\ At(f, "persist")
  /\ ~cancelled
  /\ WriteData(loop[f].header, Next1(f))
  /\ loop' = [loop EXCEPT ![f].pc = "refresh", ![f].data = Next1(f), ![f].sent = TRUE]
  /\ UNCHANGED <<execVars, listener, sourceVars, crashes>>

\* The row is not there or not active, or the statement fails.
WriteMisses(f) ==
  /\ At(f, "persist") \/ At(f, "touch")
  /\ ~cancelled
  /\ "storage" \in Faults \/ ~Active(loop[f].header)
  /\ Goto(f, "suspend")
  /\ UNCHANGED <<tableVars, execVars, listener, sourceVars, crashes>>

\* The vendor is done: it submitted all it had seen, or a part of it, or nothing
\* as it hides that its source did not answer.
RefreshEnd(f) ==
  /\ At(f, "refresh")
  /\ loop[f].sent \/ loop[f].data.off = loop[f].seen \/ "vendor" \in Faults
  /\ Goto(f, IF loop[f].sent THEN "sleep" ELSE "touch")
  /\ UNCHANGED <<tableVars, execVars, listener, sourceVars, crashes>>

\* Variant of the next step: the offset is set back to the source's beginning.
TouchReset(f) ==
  /\ At(f, "touch")
  /\ ~cancelled
  /\ WriteData(loop[f].header, [loop[f].data EXCEPT !.off = 0])
  /\ Goto(f, "sleep")
  /\ UNCHANGED <<execVars, listener, sourceVars, crashes>>

\* No update: the data the refresh began with is stored again, so that the row
\* goes to the end of the line.
Touch(f) ==
  /\ At(f, "touch")
  /\ ~cancelled
  /\ WriteData(loop[f].header, loop[f].data)
  /\ Goto(f, "sleep")
  /\ UNCHANGED <<execVars, listener, sourceVars, crashes>>

\* The refresh failed: the subscription is suspended, ...
SuspendFailed(f) ==
  /\ At(f, "suspend")
  /\ ~cancelled
  /\ WriteError(loop[f].header, "failed")
  /\ Goto(f, "sleep")
  /\ UNCHANGED <<execVars, listener, sourceVars, crashes>>

\* ... unless it is not active any more or the statement fails.
SuspendMisses(f) ==
  /\ At(f, "suspend")
  /\ ~cancelled
  /\ "storage" \in Faults \/ ~Active(loop[f].header)
  /\ Goto(f, "sleep")
  /\ UNCHANGED <<tableVars, execVars, listener, sourceVars, crashes>>

Sleep(f) ==
  /\ At(f, "sleep")
  /\ ~cancelled
  /\ loop' = [loop EXCEPT ![f] = Begin]
  /\ UNCHANGED <<tableVars, execVars, listener, sourceVars, crashes>>

\* A cancelled context fails whatever the task does next.
Interrupted(f) ==
  /\ cancelled
  /\ \/ RefreshAborted(f)
     \/ loop[f].pc \in {"persist", "touch", "suspend", "sleep"} /\ ReturnTask(f)

TaskStep(f) ==
  \/ Shift(f) \/ ShiftFails(f)
  \/ RefreshStart(f) \/ RefreshHangs(f) \/ RefreshEnd(f)
  \/ Deliver(f) \/ DeliverFails(f) \/ VendorFails(f) \/ DeadlineMissed(f)
  \/ Persist(f) \/ WriteMisses(f) \/ Touch(f)
  \/ SuspendFailed(f) \/ SuspendMisses(f)
  \/ Sleep(f) \/ Interrupted(f)

-----------------------------------------------------------------------------
\* The source of h publishes an item.
Publish(h) ==
  /\ published[h] < MaxItems
  /\ published' = [published EXCEPT ![h] = @ + 1]
  /\ UNCHANGED <<tableVars, execVars, listener, loop, delivered, births, late, crashes>>

\* Executor.Close, when the bot has closed and no command runs.
CloseBegin ==
  /\ "close" \in Ops
  /\ listener.step = "idle"
  /\ Exec!CloseCancel
  /\ UNCHANGED <<tableVars, listener, loop, sourceVars, crashes>>

CloseEnd ==
  /\ Exec!CloseReturn
  /\ UNCHANGED <<tableVars, listener, loop, sourceVars, crashes>>

\* The process stops and starts again: the table is all it finds.
Crash ==
  /\ crashes < MaxCrashes
  /\ crashes' = crashes + 1
  /\ tasks' = {} /\ mu' = Exec!Free
  /\ submit' = [submit EXCEPT !.pc = "idle"]
  /\ workers' = [f \in Feeds |-> Exec!NoGoroutine]
  /\ work' = 0 /\ cancelled' = FALSE /\ closed' = FALSE
  /\ listener' = Booting
  /\ loop' = [f \in Feeds |-> NoLoop]
  /\ UNCHANGED <<tableVars, sourceVars>>

ListenerStep ==
  \/ RestoreQuery \/ RestoreSubmit \/ RestoreDone
  \/ GetUpdated \/ GetFails \/ FailureReplied
  \/ SubmitTask \/ SubmitReturned

Command ==
  \/ \E h \in Headers :
       \/ \E status \in {"active", "deadborn"} : Subscribe(h, status)
       \/ Suspend(h) \/ Resume(h) \/ DeleteSub(h)
  \/ \E f \in Feeds, pattern \in {Errors, {"failed"}} : Clear(f, pattern)

Next ==
  \/ ListenerStep \/ Command \/ ExecSubmitStep
  \/ \E f \in Feeds : ExecExitStep(f) \/ TaskStep(f)
  \/ \E h \in Headers : Publish(h)
  \/ CloseBegin \/ CloseEnd
  \/ Crash

Spec == Init /\ [][Next]_vars

\* Goroutines are scheduled and their calls return; the lock is served in the
\* order of arrival (TaskExecutor).  Nothing is assumed of the supervisor, the
\* sources and the moments at which the process stops.
Fairness ==
  /\ WF_vars(ListenerStep)
  /\ WF_vars(ExecSubmitStep)
  /\ SF_vars(Exec!SubmitLock /\ ExecSubmitStep)
  /\ \A f \in Feeds :
       /\ WF_vars(ExecExitStep(f))
       /\ SF_vars(Exec!ExitLock(f) /\ ExecExitStep(f))
       /\ WF_vars(TaskStep(f))
  /\ WF_vars(CloseEnd)

FairSpec == Spec /\ Fairness

-----------------------------------------------------------------------------
TypeOK ==
  /\ TableTypeOK
  /\ Exec!TypeOK
  /\ listener \in [step : ListenerSteps, op : Ops \cup {"none"},
                   header : Headers \cup {NoHeader}, was : Status, todo : SUBSET Feeds]
  /\ loop \in [Feeds -> [pc : LoopPCs, header : Headers \cup {NoHeader}, data : Data,
                         seen : 0..MaxItems, sent : BOOLEAN]]
  /\ published \in [Headers -> 0..MaxItems]
  /\ delivered \in [Headers -> SUBSET ((0..MaxBirths) \X (1..MaxItems))]
  /\ births \in [Headers -> 0..MaxBirths]
  /\ late \in [Headers -> 0..2]
  /\ crashes \in 0..MaxCrashes

\* No loss: an item is below the stored offset only if it was sent to the chat.
\* The offset is stored by refresh (impl.go 263-293) from data it read before,
\* while commands rewrite the row and the process may stop anywhere.
DeliveredBeforeStored ==
  \A h \in Headers :
    LET data == rows[h].data IN
    Exists(h) => \A i \in 1..data.off : <<data.born, i>> \in delivered[h]

\* Bounded duplication: at most one item was sent and not stored, so a restart,
\* a suspension or a failed statement repeats one message at most.
AtMostOneUnstored ==
  \A h \in Headers :
    LET data == rows[h].data IN
    Exists(h) => \A d \in delivered[h] : d[1] = data.born => d[2] <= data.off + 1

\* After Suspend, Delete or Clear has changed the row, the refresh in flight
\* sends at most one more item (impl.go 269-282: the message goes out before
\* UpdateSubscription finds that the row is not active).
AtMostOneLate == \A h \in Headers : late[h] <= 1

\* A row's offset never moves back while its data descends from one Subscribe,
\* whatever a refresh that began earlier writes: going back would send
\* everything again.
OffsetNeverRegresses ==
  [][\A h \in Headers :
       LET old == rows[h] new == rows'[h] IN
       (old.status # "absent" /\ new.status # "absent" /\ old.data.born = new.data.born)
         => new.data.off >= old.data.off]_vars

\* A feed with an active row has a task that polls it, whenever no command is
\* in progress: "Resume resumes a previously suspended subscription"
\* (feed/interfaces.go 56), and Subscribe and RestoreActive likewise.
ActiveFeedsArePolled ==
  listener.step = "idle" /\ ~cancelled =>
    \A f \in Feeds : ActiveIn(f) # {} => ~At(f, "none")

\* Submit is about to be called for f, or is inside that call.
Awaited(f) ==
  \/ listener.step = "boot"
  \/ listener.step = "restore" /\ f \in listener.todo
  \/ listener.step = "submit" /\ FeedOf[listener.header] = f
  \/ listener.step = "get" /\ listener.op = "resume" /\ FeedOf[listener.header] = f
  \/ submit.pc \in {"waiting", "locked"} /\ submit.key = f

\* The feed has an active row, and nothing polls it or is about to.
Orphaned(f) == ActiveIn(f) # {} /\ At(f, "none") /\ ~Awaited(f)

\* Submit drops the task since the goroutine of the one before, which has left
\* its loop, has not given the key back (the finding of lost_wakeup).
LostWakeup(f) ==
  /\ Exec!SubmitDrop
  /\ submit.key = f
  /\ workers[f]["leaving"] + workers[f]["locked"] = 1

\* The task returns for a failure that it only logs (impl.go 209-230).
GivesUp(f) == ("storage" \in Faults /\ ShiftFails(f)) \/ DeadlineMissed(f)

\* Resume has made the row active and fails before it submits (impl.go 157-170).
ResumeCut(f) == GetFails /\ listener.op = "resume" /\ FeedOf[listener.header] = f

\* A feed with an active row that is polled, or about to be, ceases to be in
\* these three ways only: no interleaving of commands, restoring, refreshes,
\* failures and stops of the process loses its task in another.
NoOtherOrphans ==
  [][\A f \in Feeds :
       Orphaned(f)' /\ ~Orphaned(f) /\ ~cancelled'
         => LostWakeup(f) \/ GivesUp(f) \/ ResumeCut(f)]_vars

\* A row descends from the input of the Subscribe that created it ("Subscribe
\* creates a subscription from user input", feed/interfaces.go 52), not from
\* that of a subscription deleted before.
RowDescendsFromItsInput ==
  \A h \in Headers : Exists(h) => rows[h].data.born = births[h]

\* Every item a source publishes reaches the chat while the subscription stays
\* active, across stops of the process: RestoreActive, the task loop and the
\* stored offset together lose nothing.
EveryItemDelivered ==
  \A h \in Headers : \A i \in 1..MaxItems :
    (Active(h) /\ published[h] >= i)
      ~> (~Active(h) \/ <<rows[h].data.born, i>> \in delivered[h])

\* No starvation within a feed: as long as its task runs, every active
\* subscription gets its turn (the ordering of ShiftSubscription, sql.go 51-63,
\* and updated_at, which every write of the loop sets).
EveryActiveGetsATurn ==
  \A h \in Headers :
    Active(h) ~> \/ ~Active(h)
                 \/ At(FeedOf[h], "none")
                 \/ At(FeedOf[h], "refresh") /\ loop[FeedOf[h]].header = h

\* "Close closes the context and shuts down the application" (apfel/core.go
\* 191): the executor's Close returns.
CloseReturns == cancelled ~> ~cancelled \/ closed

-----------------------------------------------------------------------------
Promise ==
  INSTANCE ItemDelivery
    WITH state <- [h \in Headers |->
                     IF Active(h) THEN "on" ELSE IF Exists(h) THEN "off" ELSE "none"],
         stored <- [h \in Headers |-> IF Exists(h) THEN rows[h].data ELSE Data0],
         sent <- delivered

\* The poller keeps its promise to the chats: no step sends an item out of order or
\* one the source does not have, stores an offset that was not reached, or moves a
\* subscription but to the data of an earlier Subscribe (refresh, impl.go 236-296,
\* against the commands, 69-202, and RestoreActive).
KeepsDelivery == Promise!Spec
=============================================================================
