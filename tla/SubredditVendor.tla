--------------------------- MODULE SubredditVendor ---------------------------
(***************************************************************************)
(* Subscriptions to one subreddit by several chats (vendors/reddit         *)
(* subreddit.go, storage.go, thing_writer.go, thing_layout.go).  Every     *)
(* refresh saves the things it was shown in the table reddit, which all    *)
(* subscriptions share, and relays those it did not send before.  The IDs  *)
(* sent are part of the subscription's data; they are cleaned with the     *)
(* table of the things nobody has been shown for long.                     *)
(*                                                                         *)
(* Time is kept as ages in coarse units; an age stops growing at MaxAge,   *)
(* where no comparison depends on it.  Things are numbered by NumID.       *)
(***************************************************************************)
EXTENDS Integers, Sequences, FiniteSets, SequencesExt, FiniteSetsExt

CONSTANTS
  Feeds,
  Things,         \* the posts of the subreddit
  SelfPosts,      \* those that are text
  OptionSets,     \* the options users give
  ThingTTL,
  CleanInterval,
  Batch,
  Preload         \* how many updates wait in the queue

ThingAssumption == Things \subseteq Nat /\ SelfPosts \subseteq Things
OptionAssumption == OptionSets \subseteq SUBSET {"t", "!m"}
ConfigAssumption ==
  /\ ThingTTL \in Nat /\ CleanInterval \in Nat /\ Preload \in Nat
  /\ Batch \in Nat \ {0}

MaxAge == ThingTTL + CleanInterval + 1
Ages == 0..MaxAge
NoRow == -1
Older(age) == IF age \in 0..MaxAge - 1 THEN age + 1 ELSE age

VARIABLES
  lastSeen,   \* the table reddit: the age of each thing's last_seen, or NoRow
  row,        \* per feed: options, SentIDs and LastClean as stored; a set of one
              \* record, empty before Subscribe
  vendor,     \* per feed: the refresh, with its copy of the data
  queue,      \* per feed: the updates submitted and not handled
  shown,      \* the age of the last listing with the thing, whatever was deleted
  relayed,    \* per feed: the things sent and stored as sent
  absent      \* per feed: those of them that were not listed for ThingTTL since

ghosts == <<shown, relayed, absent>>
vars == <<lastSeen, row, vendor, queue, ghosts>>

Idle == [at |-> "idle", rest |-> {}, sent |-> {}, clean |-> MaxAge, cleaned |-> FALSE, count |-> 0]

Init ==
  /\ lastSeen = [t \in Things |-> NoRow]
  /\ row = [f \in Feeds |-> {}]
  /\ vendor = [f \in Feeds |-> Idle]
  /\ queue = [f \in Feeds |-> <<>>]
  /\ shown = [t \in Things |-> MaxAge]
  /\ relayed = [f \in Feeds |-> {}] /\ absent = [f \in Feeds |-> {}]

Data(f) == CHOOSE d \in row[f] : TRUE
OptionsOf(f) == Data(f).options
ShowText(f) == "t" \in OptionsOf(f)
HideMedia(f) == "!m" \in OptionsOf(f)

-----------------------------------------------------------------------------
\* A refresh gets from its listing to the cleaning within a unit of time; after
\* that it may wait for the queue.
Tick ==
  /\ \A f \in Feeds : vendor[f].at = "idle" \/ vendor[f].cleaned
  /\ lastSeen' = [t \in Things |-> Older(lastSeen[t])]
  /\ shown' = [t \in Things |-> Older(shown[t])]
  /\ row' = [f \in Feeds |-> {[d EXCEPT !.clean = Older(@)] : d \in row[f]}]
  /\ vendor' = [f \in Feeds |-> [vendor[f] EXCEPT !.clean = Older(@)]]
  /\ queue' = [f \in Feeds |->
                 [i \in DOMAIN queue[f] |-> [queue[f][i] EXCEPT !.clean = Older(@)]]]
  /\ UNCHANGED <<relayed, absent>>

\* A new subscription has sent nothing and was never cleaned.
Parse(f) ==
  /\ row[f] = {}
  /\ \E options \in OptionSets :
       row' = [row EXCEPT ![f] = {[options |-> options, sent |-> {}, clean |-> MaxAge]}]
  /\ UNCHANGED <<lastSeen, vendor, queue, ghosts>>

\* Refresh takes the stored data and asks for what is hot; when the request fails
\* nothing changes.
GetListing(f) ==
  /\ row[f] # {} /\ vendor[f].at = "idle"
  /\ \E things \in SUBSET Things :
       vendor' = [vendor EXCEPT ![f] =
         [Idle EXCEPT !.at = "listed", !.rest = things,
                      !.sent = Data(f).sent, !.clean = Data(f).clean]]
  /\ UNCHANGED <<lastSeen, row, queue, ghosts>>

\* Variant of the next definition: a conflict leaves last_seen as it was.
KeepLastSeen(things) ==
  [t \in Things |-> IF t \in things /\ lastSeen[t] = NoRow THEN 0 ELSE lastSeen[t]]
\* Insert, or update everything when the ID exists.
Upsert(things) == [t \in Things |-> IF t \in things THEN 0 ELSE lastSeen[t]]

SaveThings(f) ==
  /\ vendor[f].at = "listed"
  /\ LET things == vendor[f].rest IN
       /\ lastSeen' = Upsert(things)
       /\ shown' = [t \in Things |-> IF t \in things THEN 0 ELSE shown[t]]
       /\ absent' = [g \in Feeds |->
            absent[g] \cup {t \in things \cap relayed[g] : shown[t] > ThingTTL}]
  /\ vendor' = [vendor EXCEPT ![f].at = "items"]
  /\ UNCHANGED <<row, queue, relayed>>

-----------------------------------------------------------------------------
\* The loop takes the things in the order of their numbers.
NextThing(f) == Min(vendor[f].rest)

BatchDone(f) == vendor[f].count >= Batch
InLoop(f) == vendor[f].at = "items" /\ vendor[f].rest # {} /\ ~BatchDone(f)

Filtered(f, t) ==
  IF t \in SelfPosts THEN ~ShowText(f) ELSE HideMedia(f)

\* The thing was sent, is not of the kind wanted or not popular enough.
Skip(f) ==
  /\ InLoop(f)
  /\ vendor' = [vendor EXCEPT ![f].rest = @ \ {NextThing(f)}]
  /\ UNCHANGED <<lastSeen, row, queue, ghosts>>

Wanted(f) ==
  /\ InLoop(f)
  /\ NextThing(f) \notin vendor[f].sent
  /\ ~Filtered(f, NextThing(f))

Stale(t) == lastSeen[t] > ThingTTL

\* cleanData, once per refresh and before the first update: it is not due ...
SkipClean(f) ==
  /\ Wanted(f) /\ ~vendor[f].cleaned
  /\ vendor[f].clean < CleanInterval
  /\ vendor' = [vendor EXCEPT ![f].cleaned = TRUE]
  /\ UNCHANGED <<lastSeen, row, queue, ghosts>>

\* ... or it deletes the stale things of all subscriptions ...
DeleteStaleThings(f) ==
  /\ Wanted(f) /\ ~vendor[f].cleaned
  /\ vendor[f].clean >= CleanInterval
  /\ lastSeen' = [t \in Things |-> IF Stale(t) THEN NoRow ELSE lastSeen[t]]
  /\ vendor' = [vendor EXCEPT ![f].at = "deleted"]
  /\ UNCHANGED <<row, queue, ghosts>>

\* Variant of the next definition: only the table is cleaned.
AllIDs(ids) == ids
FreshIDs(ids) == {t \in ids : lastSeen[t] # NoRow}

\* ... and keeps the IDs that are still in the table.
GetFreshThingIDs(f) ==
  /\ vendor[f].at = "deleted"
  /\ vendor' = [vendor EXCEPT ![f].at = "items", ![f].cleaned = TRUE,
                              ![f].sent = FreshIDs(@), ![f].clean = 0]
  /\ UNCHANGED <<lastSeen, row, queue, ghosts>>

Submit(f) ==
  /\ Wanted(f) /\ vendor[f].cleaned
  /\ Len(queue[f]) < Preload
  /\ LET t == NextThing(f)
         sent == vendor[f].sent \cup {t}
     IN /\ vendor' = [vendor EXCEPT ![f].sent = sent, ![f].rest = @ \ {t}, ![f].count = @ + 1]
        /\ queue' = [queue EXCEPT ![f] =
             Append(@, [thing |-> t, sent |-> sent, clean |-> vendor[f].clean])]
  /\ UNCHANGED <<lastSeen, row, ghosts>>

\* writeHTML has no medium for a text post, nor when media are hidden; WriteHTML
\* writes one unless media are hidden.
NilMedia(f, t) == t \in SelfPosts /\ ~HideMedia(f)

\* The task sends the update and stores the data it came with.
Handle(f) ==
  /\ queue[f] # <<>>
  /\ LET update == Head(queue[f]) IN
       /\ ~NilMedia(f, update.thing)
       /\ row' = [row EXCEPT ![f] =
            {[options |-> OptionsOf(f), sent |-> update.sent, clean |-> update.clean]}]
       /\ relayed' = [relayed EXCEPT ![f] = @ \cup {update.thing}]
       /\ absent' = [absent EXCEPT ![f] = @ \ {update.thing}]
  /\ queue' = [queue EXCEPT ![f] = Tail(@)]
  /\ UNCHANGED <<lastSeen, vendor, shown>>

\* Chat.SendMedia calls the missing medium: a panic on the task's goroutine, which
\* ends the process.
Panic(f) ==
  /\ queue[f] # <<>> /\ NilMedia(f, Head(queue[f]).thing)
  /\ vendor' = [g \in Feeds |-> Idle]
  /\ queue' = [g \in Feeds |-> <<>>]
  /\ UNCHANGED <<lastSeen, row, ghosts>>

\* The refresh ends: with the last update, with the batch, or at any point by an
\* error, a suspension or the end of the process.
End(f) ==
  /\ vendor[f].at # "idle"
  /\ vendor' = [vendor EXCEPT ![f] = Idle]
  /\ queue' = [queue EXCEPT ![f] = <<>>]
  /\ UNCHANGED <<lastSeen, row, ghosts>>

Step(f) ==
  \/ Parse(f) \/ GetListing(f) \/ SaveThings(f) \/ Skip(f)
  \/ SkipClean(f) \/ DeleteStaleThings(f) \/ GetFreshThingIDs(f)
  \/ Submit(f) \/ Handle(f) \/ Panic(f) \/ End(f)

Next == Tick \/ \E f \in Feeds : Step(f)

Spec == Init /\ [][Next]_vars

-----------------------------------------------------------------------------
\* The type invariant; a refresh relays no more than a batch, nor does the queue
\* hold more than its capacity.
TypeOK ==
  /\ lastSeen \in [Things -> Ages \cup {NoRow}] /\ shown \in [Things -> Ages]
  /\ row \in [Feeds -> SUBSET [options : OptionSets, sent : SUBSET Things, clean : Ages]]
  /\ vendor \in [Feeds -> [at : {"idle", "listed", "items", "deleted"}, rest : SUBSET Things,
                           sent : SUBSET Things, clean : Ages, cleaned : BOOLEAN, count : 0..Batch]]
  /\ \A f \in Feeds : Len(queue[f]) <= Preload
  /\ relayed \in [Feeds -> SUBSET Things] /\ absent \in [Feeds -> SUBSET Things]

Submits(f) == Len(queue'[f]) > Len(queue[f])

\* A thing is relayed again to a chat only when it had disappeared from all
\* listings for longer than ThingTTL, however the refreshes of several chats and
\* the cleaning of the table they share interleave and whenever they are cut.
ResentOnlyAfterAbsence ==
  [][\A f \in Feeds : Submits(f) =>
       LET t == Last(queue'[f]).thing IN t \in relayed[f] => t \in absent[f]]_vars

\* SentIDs does not grow without bound: what is stored with an update holds no
\* thing that had not been listed for longer than ThingTTL when it was cleaned.
SentIsRecent ==
  [][\A f \in Feeds : Submits(f) =>
       \A t \in vendor'[f].sent : shown[t] <= ThingTTL + vendor[f].clean]_vars

\* SentIDs holds what has to be remembered, and no more: the two above.
Remembers == ResentOnlyAfterAbsence /\ SentIsRecent
=============================================================================
