------------------------------ MODULE Vendors -------------------------------
(* The vendors side by side: those of 2ch.hk, subscriptions to a subreddit   *)
(* that share its table, the share of it they relay, and the suggestions.    *)
(* They have no state in common.                                             *)
EXTENDS Integers, Sequences, FiniteSets

CONSTANTS
  Preload,                      \* the queue of a refresh, for every vendor
  Matching, MaxPost, MaxUnstored,                                        \* of DvachVendors
  Feeds, Things, SelfPosts, OptionSets, ThingTTL, CleanInterval, Batch,  \* of SubredditVendor
  Table, SentIDs, Presses, MaxUps, BaseTop, BaseOf, Scale, Members,      \* of SubredditPacing
  Subreddits, Liked, Related, Interval, MaxShown, MaxRating                     \* of SubredditSuggestions

VARIABLES
  kind, published, deleted, sub, stored, listing, offset, queue, refreshing, storing, sent,
  unstored, read,
  lastSeen, row, vendor, updates, shown, relayed, absent,
  ups, events, stable,
  rating, rows, fired, ranked, message, begun, failed

Dvach == INSTANCE DvachVendors
Subreddit == INSTANCE SubredditVendor WITH queue <- updates
Pacing == INSTANCE SubredditPacing WITH Things <- Table, Sent <- SentIDs
Suggestions == INSTANCE SubredditSuggestions

ASSUME PostsAssumption == Dvach!BoundAssumption
ASSUME SubredditAssumption ==
  Subreddit!ThingAssumption /\ Subreddit!OptionAssumption /\ Subreddit!ConfigAssumption
ASSUME ShareAssumption == Pacing!PacingAssumption
ASSUME ListAssumption == Suggestions!SuggestionsAssumption

dvachVars ==
  <<kind, published, deleted, sub, stored, listing, offset, queue, refreshing, storing, sent, unstored, read>>
subredditVars == <<lastSeen, row, vendor, updates, shown, relayed, absent>>
pacingVars == <<ups, events, stable>>
suggestionVars == <<rating, rows, fired, ranked, message, begun, failed>>
vendorsVars == <<dvachVars, subredditVars, pacingVars, suggestionVars>>

VendorsInit == Dvach!Init /\ Subreddit!Init /\ Pacing!Init /\ Suggestions!Init

DvachMoves == Dvach!Next /\ UNCHANGED <<subredditVars, pacingVars, suggestionVars>>
SubredditMoves == Subreddit!Next /\ UNCHANGED <<dvachVars, pacingVars, suggestionVars>>
PacingMoves == Pacing!Next /\ UNCHANGED <<dvachVars, subredditVars, suggestionVars>>
SuggestionsMove == Suggestions!Next /\ UNCHANGED <<dvachVars, subredditVars, pacingVars>>

VendorsNext == DvachMoves \/ SubredditMoves \/ PacingMoves \/ SuggestionsMove

VendorsSpec == VendorsInit /\ [][VendorsNext]_vendorsVars

\* The type invariants; and of dvach, that posts are relayed in order, none again
\* that was stored as sent (InOrder), and that none is passed by (NothingSkipped).
VendorsInvariant ==
  /\ Dvach!TypeOK /\ Dvach!InOrder /\ Dvach!NothingSkipped
  /\ Subreddit!TypeOK /\ Suggestions!TypeOK

\* SentIDs holds what has to be remembered, and no more: a thing is relayed again only
\* when it had disappeared from all listings for longer than ThingTTL, and what is
\* stored had not when it was cleaned.
Remembers == Subreddit!Remembers

\* Fewer things than the wanted share have more votes than the number asked for, and
\* with those that have just this number they make up the share.
SplitsAtShare == Pacing!SplitsAtShare

\* Nothing that has a row is suggested; what is left out is not better than what is
\* not, when all were named and their rows read; and a message comes an interval after
\* the refresh of the one before began.
Suggests == Suggestions!Suggests
=============================================================================
