---------------------------- MODULE DvachVendors ----------------------------
(***************************************************************************)
(* The vendors of 2ch.hk (ext/vendors/dvach) with their client             *)
(* (3rdparty/dvach): a catalog subscription relays the threads of a board  *)
(* that match a query, a thread subscription the posts of a thread, or     *)
(* those with files.  A refresh submits one update per post, each with the *)
(* offset to store once it is handled; the vendor runs ahead of the task   *)
(* by a queue, and whatever is in it is lost when the refresh is           *)
(* interrupted or the process stops.  The task sends a post first and      *)
(* stores its offset then, and either may fail.                            *)
(*                                                                         *)
(* Posts are numbered in the order of publication; the thread's number is  *)
(* that of its first post.                                                 *)
(***************************************************************************)
EXTENDS Integers, Sequences, FiniteSets, SequencesExt, Numbers

CONSTANTS
  Matching,  \* the posts that match the query; those with files
  MaxPost,   \* bound: how many posts are published
  MaxUnstored, \* bound: how many times a post is sent and its offset not stored
  Preload    \* how many updates wait in the queue

BoundAssumption == MaxPost \in Nat \ {0} /\ Preload \in Nat /\ MaxUnstored \in Nat

Posts == 1..MaxPost
OP == 1

VARIABLES
  kind,       \* what is subscribed to, a "catalog" or a "thread"
  published,  \* the number of the newest post
  deleted,    \* the posts that are gone; OP takes its thread with it
  sub,        \* the subscription: "none", "active" or "suspended"
  stored,     \* the offset in its row
  listing,    \* what the vendor has to look at yet
  offset,     \* data.Offset in the vendor
  queue,      \* the posts submitted and not handled
  refreshing, \* a refresh is in progress
  storing,    \* the last post sent is the task's, which has not stored its offset
  sent,       \* the posts sent to the chat
  unstored,   \* the places in it whose offset was not stored, or not yet
  read        \* the posts some refresh received from the site

siteVars == <<kind, published, deleted>>
vendorVars == <<listing, offset, queue, refreshing>>
chatVars == <<storing, sent, unstored>>
vars == <<siteVars, sub, stored, vendorVars, chatVars, read>>

Init ==
  /\ kind \in {"catalog", "thread"} /\ published = OP /\ deleted = {}
  /\ sub = "none" /\ stored = 0
  /\ listing = <<>> /\ offset = 0 /\ queue = <<>> /\ refreshing = FALSE
  /\ storing = FALSE /\ sent = <<>> /\ unstored = {} /\ read = {}

-----------------------------------------------------------------------------
Publish ==
  /\ published < MaxPost
  /\ published' = published + 1
  /\ UNCHANGED <<kind, deleted, sub, stored, vendorVars, chatVars, read>>

Disappear ==
  /\ \E p \in (1..published) \ deleted : deleted' = deleted \cup {p}
  /\ UNCHANGED <<kind, published, sub, stored, vendorVars, chatVars, read>>

Existing == (1..published) \ deleted
ThreadExists == OP \in Existing

\* The request "after" of GetThread includes the post it names; without an
\* offset the client names the first post.
AfterOffset == {p \in Existing : p >= (IF stored <= 0 THEN OP ELSE stored)}

\* The catalog comes in the order of the last replies, which may be any; a
\* thread in the order of its posts.
Answers ==
  IF kind = "catalog" THEN SetToSeqs(Existing)
  ELSE {Increasing(AfterOffset)}

\* Variant of the next definition: the threads are taken as they come.
AsListed(posts) == posts
Sorted(posts) == Increasing(ToSet(posts))

\* Parse asks for the catalog or the first post; when the request fails there is
\* no subscription.
Parse ==
  /\ sub = "none"
  /\ kind = "thread" => ThreadExists
  /\ sub' = "active"
  /\ UNCHANGED <<siteVars, stored, vendorVars, chatVars, read>>

\* Refresh starts from the stored offset.
Fetch ==
  /\ sub = "active" /\ ~refreshing
  /\ refreshing' = TRUE
  /\ offset' = stored
  /\ \E posts \in Answers :
       /\ listing' = (IF kind = "catalog" THEN Sorted(posts) ELSE posts)
       /\ read' = read \cup ToSet(posts)
  /\ kind = "thread" => ThreadExists
  /\ UNCHANGED <<siteVars, sub, stored, queue, chatVars>>

\* The site says that the thread does not exist: the error suspends the
\* subscription.  Any other failure to fetch is logged and ends the refresh.
FetchGone ==
  /\ sub = "active" /\ ~refreshing
  /\ kind = "thread" /\ ~ThreadExists
  /\ sub' = "suspended"
  /\ UNCHANGED <<siteVars, stored, vendorVars, chatVars, read>>

\* writeHTML returns an update.
Relayed(p) == p \in Matching /\ (kind = "catalog" => p > offset)

\* Variant of the next definition: the thread's offset is the post itself.
OffsetAtPost(p) == p
NextOffset(p) == IF kind = "catalog" THEN p ELSE p + 1

\* Variant of the next definition: one update too many.
RoomForOneMore == Len(queue) <= Preload
Room == Len(queue) < Preload

Skip ==
  /\ listing # <<>> /\ ~Relayed(Head(listing))
  /\ listing' = Tail(listing)
  /\ UNCHANGED <<siteVars, sub, stored, offset, queue, refreshing, chatVars, read>>

Submit ==
  /\ listing # <<>> /\ Relayed(Head(listing))
  /\ Room
  /\ offset' = NextOffset(Head(listing))
  /\ queue' = Append(queue, Head(listing))
  /\ listing' = Tail(listing)
  /\ UNCHANGED <<siteVars, sub, stored, refreshing, chatVars, read>>

\* The task takes an update and sends it.
Send ==
  /\ queue # <<>> /\ ~storing
  /\ sent' = Append(sent, Head(queue))
  /\ unstored' = unstored \cup {Len(sent) + 1}
  /\ storing' = TRUE
  /\ queue' = Tail(queue)
  /\ UNCHANGED <<siteVars, sub, stored, listing, offset, refreshing, read>>

\* Variant of the next definition: the data as the vendor has them by now.
StoreLatest ==
  /\ storing
  /\ stored' = offset
  /\ unstored' = unstored \ {Len(sent)}
  /\ storing' = FALSE
  /\ UNCHANGED <<siteVars, sub, vendorVars, sent, read>>

\* It stores the data the update came with.
Store ==
  /\ storing
  /\ stored' = NextOffset(Last(sent))
  /\ unstored' = unstored \ {Len(sent)}
  /\ storing' = FALSE
  /\ UNCHANGED <<siteVars, sub, vendorVars, sent, read>>

\* The refresh ends: with the last update, or interrupted at any point by an
\* update that cannot be sent or stored, a suspension or the end of the process.
End ==
  /\ refreshing
  /\ storing => Cardinality(unstored) <= MaxUnstored
  /\ refreshing' = FALSE /\ listing' = <<>> /\ queue' = <<>> /\ storing' = FALSE
  /\ \/ UNCHANGED sub
     \/ sub' = "suspended"
  /\ UNCHANGED <<siteVars, stored, offset, sent, unstored, read>>

Resume ==
  /\ sub = "suspended"
  /\ sub' = "active"
  /\ UNCHANGED <<siteVars, stored, vendorVars, chatVars, read>>

Next ==
  \/ Publish \/ Disappear \/ Parse \/ Fetch \/ FetchGone \/ Skip \/ Submit
  \/ Send \/ Store \/ End \/ Resume

Spec == Init /\ [][Next]_vars

-----------------------------------------------------------------------------
\* The type invariant; the queue keeps to its capacity.
TypeOK ==
  /\ kind \in {"catalog", "thread"} /\ published \in Posts /\ deleted \subseteq Posts
  /\ sub \in {"none", "active", "suspended"} /\ refreshing \in BOOLEAN
  /\ stored \in 0..MaxPost + 1 /\ offset \in 0..MaxPost + 1
  /\ listing \in Seq(Posts) /\ sent \in Seq(Posts)
  /\ queue \in Seq(Posts) /\ Len(queue) <= Preload
  /\ storing \in BOOLEAN /\ unstored \subseteq DOMAIN sent
  /\ read \subseteq Posts

\* Posts reach the chat in the order of their publication, whatever order the
\* site lists them in, and a post is sent again only as long as no sending of it was
\* followed by its storing, wherever refreshes are interrupted.
InOrder ==
  \A i, j \in DOMAIN sent : i < j =>
    sent[i] < sent[j] \/ (sent[i] = sent[j] /\ i \in unstored)

\* The stored offset passes no post by: a matching post that some refresh
\* received and that lies below the offset was sent, or deleted meanwhile.
NothingSkipped ==
  \A p \in (read \cap Matching) \ deleted : p < stored => p \in ToSet(sent)
=============================================================================
