---------------------------- MODULE UpdateQueue -----------------------------
(***************************************************************************)
(* One refresh of a subscription (refresh in core/internal/poller/impl.go, *)
(* queue.go, and GoSync and WaitGroup of flu/syncf): the vendor's          *)
(* goroutine submits updates through a bounded channel, the task handles   *)
(* them, and either may give up before the other.  The context of the task *)
(* may be cancelled at any time; the context of the vendor's goroutine is  *)
(* its child and is cancelled as well when the task leaves.                *)
(*                                                                         *)
(* Updates are numbered in the order in which the vendor submits them.     *)
(***************************************************************************)
EXTENDS Integers, Sequences

CONSTANTS
  Preload,      \* the capacity of the channel
  MaxUpdates    \* bound: how many updates a vendor submits

ASSUME QueueAssumption == Preload \in Nat /\ MaxUpdates \in Nat

Error == 0   \* an update that carries an error; in the task's hand, none

VARIABLES
  cancelled,   \* the context of the task is
  stopped,     \* the CancelFunc of Spawn was called
  wg,          \* the counter of GoSync's wait group
  channel,     \* the updates in the channel
  open,        \* the channel is not closed
  submitted,   \* how many updates the channel accepted
  vendor,      \* the place of the vendor's goroutine
  outcome,     \* how Vendor.Refresh ended
  task,        \* the place of the task
  hand,        \* the update the task handles
  handled,     \* how many updates were handled
  result       \* what refresh returns

syncVars == <<stopped, wg>>
queueVars == <<channel, open, submitted>>
vendorVars == <<vendor, outcome>>
taskVars == <<task, hand, handled, result>>
vars == <<cancelled, syncVars, queueVars, vendorVars, taskVars>>

VendorPCs == {"none", "init", "working", "submitting", "unread", "failing", "closing",
              "ending", "done"}

TaskPCs == {"start", "receiving", "handling", "touching", "leaving", "waiting", "returned"}

Init ==
  /\ cancelled = FALSE
  /\ stopped = FALSE /\ wg = 0
  /\ channel = <<>> /\ open = TRUE /\ submitted = 0
  /\ vendor = "none" /\ outcome = "open"
  /\ task = "start" /\ hand = Error /\ handled = 0 /\ result = "none"

-----------------------------------------------------------------------------
\* Variant of the next definition: the vendor is handed the task's context.
StoppingWithTask == cancelled

\* ctx.Done() in the vendor's goroutine.
Stopping == cancelled \/ stopped

\* A channel accepts a value while its buffer has room, and hands it over when
\* the task waits to receive and nothing is buffered.
Accepts == Len(channel) < Preload \/ (task = "receiving" /\ channel = <<>>)

\* Variant of the next definition that frees the wait group each time.
ReleaseAgain ==
  /\ stopped' = TRUE
  /\ wg' = wg - 1

\* The CancelFunc of Spawn, called by the task and by the end of the goroutine:
\* the first call cancels the context and takes the goroutine off the group.
Release ==
  /\ stopped' = TRUE
  /\ wg' = IF stopped THEN wg ELSE wg - 1

-----------------------------------------------------------------------------
(* The vendor's goroutine.                                                 *)

\* Vendor.Refresh reads its data with Init.  When that fails Init cancels the
\* queue, and so does the function around Vendor.Refresh, to which the vendor
\* returns the error.
VendorInit ==
  /\ vendor = "init"
  /\ \/ vendor' = "working" /\ UNCHANGED outcome
     \/ vendor' = "unread" /\ outcome' = "broken"
  /\ UNCHANGED <<cancelled, syncVars, queueVars, taskVars>>

\* The vendor calls Submit.
VendorSubmits ==
  /\ vendor = "working"
  /\ submitted < MaxUpdates
  /\ vendor' = "submitting"
  /\ UNCHANGED <<cancelled, syncVars, queueVars, outcome, taskVars>>

\* Variant of the next step that does not wait for room: the update is lost.
SubmitDropping ==
  /\ vendor = "submitting"
  /\ channel' = IF Accepts THEN Append(channel, submitted + 1) ELSE channel
  /\ submitted' = submitted + 1
  /\ vendor' = "working"
  /\ UNCHANGED <<cancelled, syncVars, open, outcome, taskVars>>

\* The select of submit: the channel accepts the update ...
SubmitAccepted ==
  /\ vendor = "submitting"
  /\ Accepts
  /\ channel' = Append(channel, submitted + 1)
  /\ submitted' = submitted + 1
  /\ vendor' = "working"
  /\ UNCHANGED <<cancelled, syncVars, open, outcome, taskVars>>

\* ... or the context is done, and the vendor returns that error.
SubmitRefused ==
  /\ vendor = "submitting"
  /\ Stopping
  /\ vendor' = "failing"
  /\ outcome' = "broken"
  /\ UNCHANGED <<cancelled, syncVars, queueVars, taskVars>>

\* Vendor.Refresh returns nil; it returns an error of its own, or panics.
VendorReturns ==
  /\ vendor = "working"
  /\ \/ vendor' = "closing" /\ outcome' = "complete"
     \/ vendor' = "failing" /\ outcome' = "broken"
  /\ UNCHANGED <<cancelled, syncVars, queueVars, taskVars>>

\* Variant of the next definition: the error is dropped when there is no room.
CancelIfRoom(from, to) ==
  /\ vendor = from
  /\ channel' = IF Accepts THEN Append(channel, Error) ELSE channel
  /\ vendor' = to
  /\ UNCHANGED <<cancelled, syncVars, open, submitted, outcome, taskVars>>

\* queue.cancel: an update with the error takes the way of the others.
Cancel(from, to) ==
  /\ vendor = from
  /\ \/ Accepts /\ channel' = Append(channel, Error)
     \/ Stopping /\ UNCHANGED channel
  /\ vendor' = to
  /\ UNCHANGED <<cancelled, syncVars, open, submitted, outcome, taskVars>>

\* Variant of the next step: the queue is left open.
CloseForgotten ==
  /\ vendor = "closing"
  /\ vendor' = "ending"
  /\ UNCHANGED <<cancelled, syncVars, queueVars, outcome, taskVars>>

\* The deferred queue.close, then the CancelFunc deferred in GoWith.
CloseQueue ==
  /\ vendor = "closing"
  /\ open' = FALSE
  /\ vendor' = "ending"
  /\ UNCHANGED <<cancelled, syncVars, channel, submitted, outcome, taskVars>>

VendorEnds ==
  /\ vendor = "ending"
  /\ Release
  /\ vendor' = "done"
  /\ UNCHANGED <<cancelled, queueVars, outcome, taskVars>>

VendorStep ==
  \/ VendorInit \/ VendorSubmits \/ SubmitAccepted \/ SubmitRefused \/ VendorReturns
  \/ Cancel("unread", "failing") \/ Cancel("failing", "closing")
  \/ CloseQueue \/ VendorEnds

-----------------------------------------------------------------------------
(* The task, inside refresh.                                               *)

\* GoSync: Spawn increments the wait group; GoWith starts the goroutine, unless
\* the context is done: then nothing starts and the CancelFunc does nothing.
GoSync ==
  /\ task = "start"
  /\ wg' = wg + 1
  /\ vendor' = IF cancelled THEN "none" ELSE "init"
  /\ task' = "receiving"
  /\ UNCHANGED <<cancelled, stopped, queueVars, outcome, hand, handled, result>>

Receive ==
  /\ task = "receiving"
  /\ channel # <<>>
  /\ channel' = Tail(channel)
  /\ hand' = Head(channel)
  /\ IF hand' = Error THEN task' = "leaving" /\ result' = "error"
                      ELSE task' = "handling" /\ UNCHANGED result
  /\ UNCHANGED <<cancelled, syncVars, open, submitted, vendorVars, handled>>

\* Variant of the next step: a failure is taken for the end of the updates.
HandleForgiving ==
  /\ task = "handling"
  /\ \/ task' = "receiving" /\ handled' = handled + 1 /\ UNCHANGED result
     \/ task' = "leaving" /\ result' = "ok" /\ UNCHANGED handled
  /\ hand' = Error
  /\ UNCHANGED <<cancelled, syncVars, queueVars, vendorVars>>

\* writeHTML, Flush and UpdateSubscription all succeed, or one fails.
Handle ==
  /\ task = "handling"
  /\ \/ task' = "receiving" /\ handled' = handled + 1 /\ UNCHANGED result
     \/ task' = "leaving" /\ result' = "error" /\ UNCHANGED handled
  /\ hand' = Error
  /\ UNCHANGED <<cancelled, syncVars, queueVars, vendorVars>>

\* The channel is closed and empty: the range loop ends.
ReceiveClosed ==
  /\ task = "receiving"
  /\ channel = <<>>
  /\ ~open
  /\ IF handled = 0 THEN task' = "touching" /\ UNCHANGED result
                    ELSE task' = "leaving" /\ result' = "ok"
  /\ UNCHANGED <<cancelled, syncVars, queueVars, vendorVars, hand, handled>>

\* Without an update the row is written with the data it had.
Touch ==
  /\ task = "touching"
  /\ task' = "leaving"
  /\ result' \in IF cancelled THEN {"error"} ELSE {"ok", "error"}
  /\ UNCHANGED <<cancelled, syncVars, queueVars, vendorVars, hand, handled>>

\* The CancelFunc of GoSync: it calls that of GoWith and waits.
Leave ==
  /\ task = "leaving"
  /\ IF vendor = "none" THEN UNCHANGED syncVars ELSE Release
  /\ task' = "waiting"
  /\ UNCHANGED <<cancelled, queueVars, vendorVars, hand, handled, result>>

Return ==
  /\ task = "waiting"
  /\ wg = 0
  /\ task' = "returned"
  /\ UNCHANGED <<cancelled, syncVars, queueVars, vendorVars, hand, handled, result>>

TaskStep ==
  GoSync \/ Receive \/ Handle \/ ReceiveClosed \/ Touch \/ Leave \/ Return

-----------------------------------------------------------------------------
\* The executor is closed.
CancelTask ==
  /\ ~cancelled
  /\ cancelled' = TRUE
  /\ UNCHANGED <<syncVars, queueVars, vendorVars, taskVars>>

Next == VendorStep \/ TaskStep \/ CancelTask

Spec == Init /\ [][Next]_vars

\* Both goroutines are scheduled, and the calls they make return: requests to
\* the vendor's site, to Telegram and to the database all have time limits.
FairSpec == Spec /\ WF_vars(VendorStep) /\ WF_vars(TaskStep)

-----------------------------------------------------------------------------
\* A wait group below zero panics: the goroutine is taken off it once.
TypeOK ==
  /\ cancelled \in BOOLEAN
  /\ stopped \in BOOLEAN
  /\ wg \in {0, 1}
  /\ channel \in Seq(0..MaxUpdates)
  /\ open \in BOOLEAN
  /\ submitted \in 0..MaxUpdates
  /\ vendor \in VendorPCs
  /\ outcome \in {"open", "complete", "broken"}
  /\ task \in TaskPCs
  /\ hand \in 0..MaxUpdates
  /\ handled \in 0..MaxUpdates
  /\ result \in {"none", "ok", "error"}

\* Updates are handled in the order of their submission, none is skipped and
\* none is handled twice: the offset stored with an update covers all updates
\* before it (impl.go 263-287).
HandledInOrder == hand # Error => hand = handled + 1

\* The vendor's goroutine ends, however the task leaves: it is never blocked for
\* ever in a queue nobody reads.
VendorTerminates == vendor = "init" ~> vendor = "done"

\* A refresh whose goroutine was started returns.
RefreshReturns == vendor = "init" ~> task = "returned"

\* Neither side of the queue waits for the other for ever: the two above.
BothReturn == VendorTerminates /\ RefreshReturns

\* What the rest of the poller relies on: UpdateStream.
Stream ==
  INSTANCE UpdateStream
    WITH Ahead <- Preload + 1,
         offered <- submitted,
         source <- outcome,
         stopping <- cancelled

\* A refresh is taken for done only if the vendor completed and every update it
\* submitted was handled, and the vendor runs ahead by Preload updates and the
\* one being handled at most.
KeepsStream == Stream!Spec
=============================================================================
