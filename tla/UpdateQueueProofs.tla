-------------------------- MODULE UpdateQueueProofs --------------------------
(***************************************************************************)
(* Proofs about UpdateQueue for every capacity of the channel and every    *)
(* number of updates: its types, the order in which updates are handled,   *)
(* and the implementation of UpdateStream.                                 *)
(***************************************************************************)
EXTENDS UpdateQueue, SequenceTheorems, TLAPS

-----------------------------------------------------------------------------
(* The inductive invariant.                                                *)

\* The task reads the channel, or is about to.
Reading == task \in {"start", "receiving", "handling"}

\* How far the task has come in the order of submission.
Taken == IF hand = Error THEN handled ELSE handled + 1

\* The task holds an update exactly while it handles one, and has a result
\* exactly when it leaves.
TaskPlaces ==
  /\ hand # Error <=> task = "handling"
  /\ result # "none" <=> task \in {"leaving", "waiting", "returned"}
  /\ task = "start" => vendor = "none" /\ wg = 0

\* The wait group counts the vendor's goroutine until one of the two releases
\* it; as long as the task reads, only the end of the goroutine does.
WaitGroupCounts ==
  /\ task # "start" => wg = IF stopped THEN 0 ELSE 1
  /\ stopped => vendor = "done" \/ task \in {"waiting", "returned"}
  /\ vendor = "none" => ~stopped

\* What the place of the vendor's goroutine says of the channel and the outcome.
VendorPlaces ==
  /\ open <=> vendor \notin {"ending", "done"}
  /\ outcome = "open" <=> vendor \in {"none", "init", "working", "submitting"}
  /\ vendor \in {"unread", "failing"} => outcome = "broken"
  /\ vendor = "submitting" => submitted < MaxUpdates

\* Nobody has accepted more than was submitted.
Bounded ==
  /\ handled <= submitted
  /\ hand <= submitted
  /\ \A i \in 1..Len(channel) : channel[i] <= submitted

\* While the task reads, the channel holds the updates that follow the one it
\* has taken, one after another, and then perhaps errors.
ChannelInOrder ==
  Reading =>
    /\ hand # Error => hand = handled + 1
    /\ \A i \in 1..Len(channel) : channel[i] = Error \/ channel[i] = Taken + i

\* Before the vendor fails there is no error in the channel, and every update it
\* submitted is accounted for.
NothingLost ==
  outcome # "broken" =>
    /\ \A i \in 1..Len(channel) : channel[i] # Error
    /\ Reading => submitted = Taken + Len(channel)

\* When the vendor has failed and is done, its error waits in the channel, or
\* there was no room and the poller is being stopped.
FailureIsSeen ==
  outcome = "broken" /\ vendor \in {"closing", "ending", "done"} /\ Reading
    => cancelled \/ \E i \in 1..Len(channel) : channel[i] = Error

\* The vendor runs ahead of the task by what is in the channel and one update.
RunsAhead == outcome = "open" => submitted <= handled + 1 + Len(channel)

\* The row is touched only when the vendor completed without an update.
TouchJustified ==
  task = "touching" => ~open /\ (cancelled \/ (outcome = "complete" /\ handled = submitted))

IInv ==
  /\ TypeOK
  /\ TaskPlaces
  /\ WaitGroupCounts
  /\ VendorPlaces
  /\ Bounded
  /\ ChannelInOrder
  /\ NothingLost
  /\ FailureIsSeen
  /\ RunsAhead
  /\ TouchJustified

-----------------------------------------------------------------------------
LEMMA InitInvariant == Init => IInv
<1> SUFFICES ASSUME Init PROVE IInv
  OBVIOUS
<1>1. channel \in Seq(0..MaxUpdates) /\ Len(channel) = 0
  BY EmptySeq DEF Init
<1>2. submitted \in 0..MaxUpdates /\ hand \in 0..MaxUpdates /\ handled \in 0..MaxUpdates
  BY QueueAssumption DEF Init, Error
<1>3. cancelled \in BOOLEAN /\ stopped \in BOOLEAN /\ open \in BOOLEAN
  BY Zenon DEF Init
<1>4. /\ wg \in {0, 1}
      /\ vendor \in VendorPCs /\ outcome \in {"open", "complete", "broken"}
      /\ task \in TaskPCs /\ result \in {"none", "ok", "error"}
  BY DEF Init, VendorPCs, TaskPCs
<1>5. TypeOK
  BY <1>1, <1>2, <1>3, <1>4 DEF TypeOK
<1> QED
  BY <1>1, <1>2, <1>5 DEF Init, IInv, TaskPlaces, WaitGroupCounts, VendorPlaces, Bounded, ChannelInOrder,
     NothingLost, FailureIsSeen, RunsAhead, TouchJustified, Reading, Taken, Error

\* Steps of the vendor's goroutine that leave the channel alone.
LEMMA VendorStepInvariant ==
  ASSUME IInv,
         VendorInit \/ VendorSubmits \/ SubmitRefused \/ VendorReturns \/ CloseQueue \/ VendorEnds
  PROVE  IInv'
<1> USE QueueAssumption DEF IInv, TypeOK, Error, VendorPCs, TaskPCs, TaskPlaces, WaitGroupCounts,
        VendorPlaces, Bounded, ChannelInOrder, NothingLost, FailureIsSeen, RunsAhead,
        TouchJustified, Reading, Taken, syncVars, queueVars, vendorVars, taskVars
<1>1. CASE VendorInit
  BY <1>1 DEF VendorInit
<1>2. CASE VendorSubmits
  BY <1>2 DEF VendorSubmits
<1>3. CASE SubmitRefused
  BY <1>3 DEF SubmitRefused, Stopping
<1>4. CASE VendorReturns
  BY <1>4 DEF VendorReturns
<1>5. CASE CloseQueue
  BY <1>5 DEF CloseQueue
<1>6. CASE VendorEnds
  BY <1>6 DEF VendorEnds, Release
<1> QED
  BY <1>1, <1>2, <1>3, <1>4, <1>5, <1>6

\* What appending an update to the channel changes (the send in submit and in
\* cancel, queue.go 25-47).
LEMMA SendEffect ==
  ASSUME channel \in Seq(0..MaxUpdates), NEW u \in 0..MaxUpdates, channel' = Append(channel, u)
  PROVE  /\ channel' \in Seq(0..MaxUpdates)
         /\ Len(channel) \in Nat
         /\ Len(channel') = Len(channel) + 1
         /\ channel'[Len(channel) + 1] = u
         /\ \A i \in 1..Len(channel) : channel'[i] = channel[i]
BY AppendProperties, LenProperties

\* The channel accepts the next update: it follows all those before it.
LEMMA SubmitInvariant == IInv /\ SubmitAccepted => IInv'
<1> SUFFICES ASSUME IInv, SubmitAccepted PROVE IInv'
  OBVIOUS
<1> USE QueueAssumption DEF Error
<1>1. /\ vendor = "submitting" /\ vendor' = "working" /\ outcome = "open" /\ open
      /\ submitted < MaxUpdates /\ submitted' = submitted + 1
      /\ submitted \in 0..MaxUpdates /\ handled \in 0..MaxUpdates /\ hand \in 0..MaxUpdates
  BY DEF IInv, TypeOK, VendorPlaces, SubmitAccepted
<1>2. UNCHANGED <<cancelled, stopped, wg, open, outcome, task, hand, handled, result>>
  BY DEF SubmitAccepted, syncVars, taskVars
<1>3. /\ channel' \in Seq(0..MaxUpdates)
      /\ Len(channel) \in Nat
      /\ Len(channel') = Len(channel) + 1
      /\ channel'[Len(channel) + 1] = submitted + 1
      /\ \A i \in 1..Len(channel) : channel'[i] = channel[i]
  BY <1>1, SendEffect DEF SubmitAccepted, IInv, TypeOK
<1>4. /\ \A i \in 1..Len(channel) : channel[i] # Error
      /\ Reading => submitted = Taken + Len(channel)
  BY <1>1 DEF IInv, NothingLost
<1>5. Reading' = Reading /\ Taken' = Taken
  BY <1>2 DEF Reading, Taken
<1>6. TypeOK'
  BY <1>1, <1>2, <1>3 DEF IInv, TypeOK, VendorPCs
<1>7. TaskPlaces' /\ WaitGroupCounts' /\ VendorPlaces'
  BY <1>1, <1>2 DEF IInv, TaskPlaces, WaitGroupCounts, VendorPlaces
<1>8. Bounded'
  <2>1. \A i \in 1..Len(channel) : channel[i] <= submitted /\ channel[i] \in 0..MaxUpdates
    BY LenProperties DEF IInv, TypeOK, Bounded
  <2>2. \A i \in 1..Len(channel') : channel'[i] <= submitted'
    BY <1>1, <1>3, <2>1
  <2> QED
    BY <1>1, <1>2, <2>2 DEF IInv, Bounded
<1>9. ChannelInOrder'
  <2>1. ASSUME Reading, NEW i \in 1..Len(channel')
        PROVE  channel'[i] = Error \/ channel'[i] = Taken + i
    <3>1. channel[i] = Error \/ channel[i] = Taken + i \/ i = Len(channel) + 1
      BY <1>3, <2>1 DEF IInv, ChannelInOrder
    <3>2. Taken \in Int /\ submitted = Taken + Len(channel)
      BY <1>1, <1>4, <2>1 DEF Taken
    <3>3. i = Len(channel) + 1 => channel'[i] = Taken + i
      BY <1>1, <1>3, <3>2
    <3>4. i # Len(channel) + 1 => channel'[i] = channel[i]
      BY <1>3
    <3> QED
      BY <3>1, <3>3, <3>4
  <2> QED
    BY <1>2, <1>5, <2>1 DEF IInv, ChannelInOrder
<1>10. NothingLost'
  <2>1. \A i \in 1..Len(channel') : channel'[i] # Error
    BY <1>1, <1>3, <1>4
  <2>2. Reading => submitted' = Taken + Len(channel')
    BY <1>1, <1>3, <1>4 DEF Taken
  <2> QED
    BY <1>5, <2>1, <2>2 DEF NothingLost
<1>11. FailureIsSeen' /\ TouchJustified'
  BY <1>1, <1>2 DEF IInv, FailureIsSeen, TouchJustified
<1>12. RunsAhead'
  BY <1>1, <1>2, <1>3 DEF IInv, RunsAhead
<1> QED
  BY <1>6, <1>7, <1>8, <1>9, <1>10, <1>11, <1>12 DEF IInv

\* queue.cancel leaves its error behind the updates, unless it need not be read.
LEMMA CancelInvariant ==
  ASSUME IInv, Cancel("unread", "failing") \/ Cancel("failing", "closing")
  PROVE  IInv'
<1> USE QueueAssumption DEF Error
<1>1. /\ vendor \in {"unread", "failing"} /\ outcome = "broken" /\ open
      /\ vendor' \in {"failing", "closing"}
      /\ vendor = "unread" => vendor' = "failing"
      /\ submitted \in 0..MaxUpdates /\ handled \in 0..MaxUpdates /\ hand \in 0..MaxUpdates
  BY DEF IInv, TypeOK, VendorPlaces, Cancel
<1>2. UNCHANGED <<cancelled, stopped, wg, open, submitted, outcome, task, hand, handled, result>>
  BY DEF Cancel, syncVars, taskVars
<1>3. Reading' = Reading /\ Taken' = Taken
  BY <1>2 DEF Reading, Taken
<1>4. TaskPlaces' /\ WaitGroupCounts' /\ VendorPlaces'
  BY <1>1, <1>2 DEF IInv, TaskPlaces, WaitGroupCounts, VendorPlaces
<1>5. NothingLost' /\ RunsAhead' /\ TouchJustified'
  BY <1>1, <1>2 DEF IInv, NothingLost, RunsAhead, TouchJustified
<1>6. CASE channel' = Append(channel, Error)
  <2>1. /\ channel' \in Seq(0..MaxUpdates)
        /\ Len(channel) \in Nat
        /\ Len(channel') = Len(channel) + 1
        /\ channel'[Len(channel) + 1] = Error
        /\ \A i \in 1..Len(channel) : channel'[i] = channel[i]
    BY <1>6, SendEffect DEF IInv, TypeOK
  <2>2. TypeOK'
    BY <1>1, <1>2, <2>1 DEF IInv, TypeOK, VendorPCs
  <2>3. Bounded'
    BY <1>1, <1>2, <2>1 DEF IInv, Bounded
  <2>4. ChannelInOrder'
    BY <1>1, <1>2, <1>3, <2>1 DEF IInv, ChannelInOrder
  <2>5. FailureIsSeen'
    BY <2>1 DEF FailureIsSeen
  <2> QED
    BY <1>4, <1>5, <2>2, <2>3, <2>4, <2>5 DEF IInv
<1>7. CASE Stopping /\ UNCHANGED channel
  <2>1. TypeOK'
    BY <1>1, <1>2, <1>7 DEF IInv, TypeOK, VendorPCs
  <2>2. Bounded' /\ ChannelInOrder'
    BY <1>2, <1>3, <1>7 DEF IInv, Bounded, ChannelInOrder
  <2>3. cancelled \/ ~Reading
    BY <1>1, <1>7 DEF Stopping, IInv, WaitGroupCounts, Reading
  <2>4. FailureIsSeen'
    BY <1>2, <1>3, <2>3 DEF FailureIsSeen
  <2> QED
    BY <1>4, <1>5, <2>1, <2>2, <2>4 DEF IInv
<1> QED
  BY <1>6, <1>7 DEF Cancel

-----------------------------------------------------------------------------
\* The task takes the next update in the order of submission, or an error.
LEMMA ReceiveInvariant == IInv /\ Receive => IInv'
<1> SUFFICES ASSUME IInv, Receive PROVE IInv'
  OBVIOUS
<1> USE QueueAssumption DEF Error
<1>1. /\ task = "receiving" /\ hand = 0 /\ result = "none" /\ Reading /\ Taken = handled
      /\ submitted \in 0..MaxUpdates /\ handled \in 0..MaxUpdates
  BY DEF Receive, IInv, TypeOK, TaskPlaces, Reading, Taken
<1>2. UNCHANGED <<cancelled, stopped, wg, open, submitted, vendor, outcome, handled>>
  BY DEF Receive, syncVars, vendorVars
<1>3. /\ channel' \in Seq(0..MaxUpdates)
      /\ Len(channel) \in Nat \ {0}
      /\ Len(channel') = Len(channel) - 1
      /\ \A i \in 1..Len(channel') : channel'[i] = channel[i + 1]
      /\ hand' = channel[1] /\ hand' \in 0..MaxUpdates
  BY HeadTailProperties, LenProperties, EmptySeq DEF Receive, IInv, TypeOK
<1>4. \/ hand' = 0 /\ task' = "leaving" /\ result' = "error"
      \/ hand' # 0 /\ task' = "handling" /\ result' = "none"
  BY <1>1 DEF Receive
<1>5. Reading' <=> hand' # 0
  BY <1>4 DEF Reading
<1>6. hand' # 0 => hand' = handled + 1 /\ Taken' = handled + 1
  BY <1>1, <1>2, <1>3 DEF IInv, ChannelInOrder, Taken
<1>7. TypeOK'
  BY <1>2, <1>3, <1>4 DEF IInv, TypeOK, TaskPCs
<1>8. TaskPlaces' /\ WaitGroupCounts' /\ VendorPlaces'
  BY <1>1, <1>2, <1>4 DEF IInv, TaskPlaces, WaitGroupCounts, VendorPlaces
<1>9. Bounded'
  BY <1>2, <1>3 DEF IInv, Bounded
<1>10. ChannelInOrder'
  <2>1. ASSUME hand' # 0, NEW i \in 1..Len(channel')
        PROVE  channel'[i] = Error \/ channel'[i] = Taken' + i
    <3>1. i + 1 \in 1..Len(channel)
      BY <1>3
    <3>2. channel[i + 1] = Error \/ channel[i + 1] = handled + (i + 1)
      BY <1>1, <3>1 DEF IInv, ChannelInOrder
    <3> QED
      BY <1>1, <1>3, <1>6, <2>1, <3>2
  <2> QED
    BY <1>2, <1>5, <1>6, <2>1 DEF ChannelInOrder
<1>11. NothingLost'
  BY <1>1, <1>2, <1>3, <1>5, <1>6 DEF IInv, NothingLost
<1>12. FailureIsSeen'
  <2>1. ASSUME NEW i \in 1..Len(channel), channel[i] = Error, hand' # 0
        PROVE  i - 1 \in 1..Len(channel') /\ channel'[i - 1] = Error
    BY <1>3, <2>1
  <2> QED
    BY <1>1, <1>2, <1>5, <2>1 DEF IInv, FailureIsSeen
<1>13. RunsAhead'
  BY <1>1, <1>2, <1>3 DEF IInv, RunsAhead, NothingLost
<1>14. TouchJustified'
  BY <1>4 DEF TouchJustified
<1> QED
  BY <1>7, <1>8, <1>9, <1>10, <1>11, <1>12, <1>13, <1>14 DEF IInv

\* An update is handled or fails.
LEMMA HandleInvariant == IInv /\ Handle => IInv'
<1> SUFFICES ASSUME IInv, Handle PROVE IInv'
  OBVIOUS
<1> USE QueueAssumption DEF Error
<1>1. /\ task = "handling" /\ hand # 0 /\ result = "none" /\ Reading
      /\ hand = handled + 1 /\ Taken = handled + 1 /\ hand <= submitted
      /\ submitted \in 0..MaxUpdates /\ handled \in 0..MaxUpdates
  BY DEF Handle, IInv, TypeOK, TaskPlaces, ChannelInOrder, Bounded, Reading, Taken
<1>2. UNCHANGED <<cancelled, stopped, wg, channel, open, submitted, vendor, outcome>>
  BY DEF Handle, syncVars, queueVars, vendorVars
<1>3. /\ hand' = 0
      /\ \/ task' = "receiving" /\ handled' = handled + 1 /\ result' = "none"
         \/ task' = "leaving" /\ handled' = handled /\ result' = "error"
  BY <1>1 DEF Handle
<1>4. Reading' => Taken' = Taken
  BY <1>1, <1>3 DEF Reading, Taken
<1>5. TypeOK'
  BY <1>1, <1>2, <1>3 DEF IInv, TypeOK, TaskPCs
<1>6. TaskPlaces' /\ WaitGroupCounts' /\ VendorPlaces'
  BY <1>1, <1>2, <1>3 DEF IInv, TaskPlaces, WaitGroupCounts, VendorPlaces
<1>7. Bounded'
  BY <1>1, <1>2, <1>3 DEF IInv, Bounded
<1>8. ChannelInOrder' /\ NothingLost' /\ FailureIsSeen'
  BY <1>1, <1>2, <1>3, <1>4 DEF IInv, ChannelInOrder, NothingLost, FailureIsSeen
<1>9. RunsAhead' /\ TouchJustified'
  BY <1>1, <1>2, <1>3, LenProperties DEF IInv, TypeOK, RunsAhead, TouchJustified
<1> QED
  BY <1>5, <1>6, <1>7, <1>8, <1>9 DEF IInv

\* Steps of the task that leave the channel alone, the cancellation, and
\* stuttering.
LEMMA TaskStepInvariant ==
  ASSUME IInv,
         \/ GoSync \/ ReceiveClosed \/ Touch \/ Leave \/ Return
         \/ CancelTask \/ UNCHANGED vars
  PROVE  IInv'
<1> USE QueueAssumption, EmptySeq DEF IInv, TypeOK, Error, VendorPCs, TaskPCs, TaskPlaces,
        WaitGroupCounts, VendorPlaces, Bounded, ChannelInOrder, NothingLost, FailureIsSeen,
        RunsAhead, TouchJustified, Reading, Taken, syncVars, queueVars, vendorVars, taskVars
<1>1. CASE GoSync
  BY <1>1 DEF GoSync
<1>2. CASE ReceiveClosed
  BY <1>2 DEF ReceiveClosed
<1>3. CASE Touch
  BY <1>3 DEF Touch
<1>4. CASE Leave
  <2>1. CASE vendor = "none"
    BY <1>4, <2>1 DEF Leave
  <2>2. CASE vendor # "none"
    <3>1. stopped' = TRUE /\ wg' = 0
      BY <1>4, <2>2 DEF Leave, Release
    <3> QED
      BY <1>4, <2>2, <3>1 DEF Leave
  <2> QED
    BY <2>1, <2>2
<1>5. CASE Return
  BY <1>5 DEF Return
<1>6. CASE CancelTask
  BY <1>6 DEF CancelTask
<1>7. CASE UNCHANGED vars
  BY <1>7 DEF vars
<1> QED
  BY <1>1, <1>2, <1>3, <1>4, <1>5, <1>6, <1>7

\* Every step preserves the invariant.
LEMMA InvariantInductive == IInv /\ [Next]_vars => IInv'
BY VendorStepInvariant, SubmitInvariant, CancelInvariant, ReceiveInvariant, HandleInvariant,
   TaskStepInvariant DEF Next, VendorStep, TaskStep

\* The invariant holds in every reachable state.
LEMMA InvariantHolds == Spec => []IInv
BY InitInvariant, InvariantInductive, PTL DEF Spec

-----------------------------------------------------------------------------
\* Every reachable state has its types: the wait group of GoSync is never
\* released twice, although both ends of the goroutine call its CancelFunc
\* (flu/syncf/goroutine.go 24-61), and no update beyond those submitted is read.
THEOREM TypeCorrect == Spec => []TypeOK
BY InvariantHolds, PTL DEF IInv

\* Updates are handled in the order of their submission, without a gap and
\* without a repetition (impl.go 263-287), whatever the capacity of the channel,
\* whichever side gives up first.
THEOREM Order == Spec => []HandledInOrder
<1>1. IInv => HandledInOrder
  BY DEF IInv, HandledInOrder, TaskPlaces, ChannelInOrder, Reading
<1> QED
  BY <1>1, InvariantHolds, PTL

-----------------------------------------------------------------------------
(* The refinement: each step of the queue is a step of UpdateStream or      *)
(* changes nothing that UpdateStream sees.                                  *)

\* Accepting an update keeps the vendor within the bound: there was room in the
\* channel, or the task has handled all that came before.
LEMMA SubmitOffers == IInv /\ SubmitAccepted => Stream!Offer
<1> SUFFICES ASSUME IInv, SubmitAccepted PROVE Stream!Offer
  OBVIOUS
<1>1. /\ outcome = "open" /\ submitted' = submitted + 1
      /\ UNCHANGED <<handled, outcome, result, cancelled>>
      /\ submitted \in Nat /\ handled \in Nat /\ Len(channel) \in Nat
  BY LenProperties DEF SubmitAccepted, taskVars, IInv, TypeOK, VendorPlaces
<1>2. submitted - handled < Preload + 1
  <2>1. CASE Len(channel) < Preload
    BY <1>1, <2>1, QueueAssumption DEF IInv, RunsAhead
  <2>2. CASE task = "receiving" /\ channel = <<>>
    <3>1. Len(channel) = 0
      BY <2>2, EmptySeq
    <3>2. submitted = handled
      BY <1>1, <2>2, <3>1 DEF IInv, NothingLost, TaskPlaces, Reading, Taken
    <3> QED
      BY <1>1, <3>2, QueueAssumption
  <2> QED
    BY <2>1, <2>2 DEF SubmitAccepted, Accepts
<1> QED
  BY <1>1, <1>2 DEF Stream!Offer

\* The task takes the refresh for done only when nothing is left and the vendor
\* completed, or when the poller is being stopped.
LEMMA CloseSucceeds ==
  ASSUME IInv, ReceiveClosed \/ Touch
  PROVE  \/ Stream!Succeed
         \/ Stream!Fail
         \/ UNCHANGED <<submitted, handled, outcome, result, cancelled>>
<1>1. result = "none" /\ UNCHANGED <<submitted, handled, outcome, cancelled>>
  BY DEF ReceiveClosed, Touch, queueVars, vendorVars, IInv, TaskPlaces
<1>2. CASE ReceiveClosed
  <2>1. cancelled \/ (outcome = "complete" /\ handled = submitted)
    <3>1. task = "receiving" /\ Len(channel) = 0 /\ Reading /\ Taken = handled
      BY <1>2, EmptySeq DEF ReceiveClosed, Reading, Taken, IInv, TaskPlaces
    <3>2. vendor \in {"ending", "done"} /\ outcome # "open"
      BY <1>2 DEF ReceiveClosed, IInv, VendorPlaces, TypeOK
    <3>3. outcome = "broken" => cancelled
      BY <3>1, <3>2 DEF IInv, FailureIsSeen
    <3>4. outcome = "complete" => submitted = handled
      BY <3>1 DEF IInv, NothingLost, TypeOK
    <3> QED
      BY <3>2, <3>3, <3>4 DEF IInv, TypeOK
  <2>2. result' = "ok" \/ result' = result
    BY <1>2 DEF ReceiveClosed
  <2> QED
    BY <1>1, <2>1, <2>2 DEF Stream!Succeed
<1>3. CASE Touch
  <2>1. cancelled \/ (outcome = "complete" /\ handled = submitted)
    BY <1>3 DEF Touch, IInv, TouchJustified
  <2>2. result' \in {"ok", "error"}
    BY <1>3 DEF Touch
  <2> QED
    BY <1>1, <2>1, <2>2 DEF Stream!Succeed, Stream!Fail
<1> QED
  BY <1>2, <1>3

LEMMA RefinesInit == Init => Stream!Init
BY DEF Init, Stream!Init

LEMMA RefinesNext ==
  IInv /\ [Next]_vars
    => [Stream!Next]_<<submitted, handled, outcome, result, cancelled>>
<1> SUFFICES ASSUME IInv, [Next]_vars,
                    ~UNCHANGED <<submitted, handled, outcome, result, cancelled>>
             PROVE  Stream!Next
  OBVIOUS
<1> USE DEF syncVars, queueVars, vendorVars, taskVars
<1>1. CASE SubmitAccepted
  BY <1>1, SubmitOffers DEF Stream!Next
<1>2. CASE VendorInit \/ SubmitRefused \/ VendorReturns
  <2>1. outcome = "open" /\ UNCHANGED <<submitted, handled, result, cancelled>>
    BY <1>2 DEF VendorInit, SubmitRefused, VendorReturns, IInv, VendorPlaces
  <2>2. outcome' \in {"complete", "broken"} \/ outcome' = outcome
    BY <1>2 DEF VendorInit, SubmitRefused, VendorReturns
  <2> QED
    BY <2>1, <2>2 DEF Stream!SourceEnds, Stream!Next
<1>3. CASE Receive
  <2>1. result = "none" /\ UNCHANGED <<submitted, handled, outcome, cancelled>>
    BY <1>3 DEF Receive, IInv, TaskPlaces
  <2>2. result' = "error" \/ result' = result
    BY <1>3 DEF Receive
  <2> QED
    BY <2>1, <2>2 DEF Stream!Fail, Stream!Next
<1>4. CASE Handle
  <2>1. /\ result = "none" /\ UNCHANGED <<submitted, outcome, cancelled>>
        /\ handled < submitted
    BY <1>4 DEF Handle, IInv, TypeOK, TaskPlaces, ChannelInOrder, Bounded, Reading
  <2>2. \/ handled' = handled + 1 /\ result' = result
        \/ handled' = handled /\ result' = "error"
    BY <1>4 DEF Handle
  <2> QED
    BY <2>1, <2>2 DEF Stream!Handle, Stream!Fail, Stream!Next
<1>5. CASE ReceiveClosed \/ Touch
  BY <1>5, CloseSucceeds DEF Stream!Next
<1>6. CASE CancelTask
  BY <1>6 DEF CancelTask, Stream!Stop, Stream!Next
<1>7. ASSUME \/ VendorSubmits \/ Cancel("unread", "failing") \/ Cancel("failing", "closing")
             \/ CloseQueue \/ VendorEnds \/ GoSync \/ Leave \/ Return
             \/ UNCHANGED vars
      PROVE  FALSE
  BY <1>7 DEF VendorSubmits, Cancel, CloseQueue, VendorEnds, GoSync, Leave, Return, vars
<1> QED
  BY <1>1, <1>2, <1>3, <1>4, <1>5, <1>6, <1>7 DEF Next, VendorStep, TaskStep

\* A refresh keeps its promise to the poller (UpdateStream) for every capacity of
\* the channel: it succeeds only after a complete vendor whose updates are all
\* handled, unless the poller is being stopped, and the vendor is never more
\* than the capacity and one update ahead.
THEOREM Refinement == Spec => KeepsStream
<1>1. Init => Stream!Init
  BY RefinesInit
<1>2. IInv /\ [Next]_vars
        => [Stream!Next]_<<submitted, handled, outcome, result, cancelled>>
  BY RefinesNext
<1> QED
  BY <1>1, <1>2, InvariantHolds, PTL DEF Spec, KeepsStream, Stream!Spec

=============================================================================
