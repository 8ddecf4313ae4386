--------------------------- MODULE SubredditPacing ---------------------------
(***************************************************************************)
(* Which things of a listing are popular enough to be relayed:             *)
(* getPercentile of vendors/reddit subreddit.go with the queries Score and *)
(* GetPercentile of storage.go.  What readers press under earlier updates  *)
(* sets the share of the table that passes; the table turns the share into *)
(* a number of votes.  Ratios are kept as fractions.                       *)
(***************************************************************************)
EXTENDS Integers, FiniteSets, FiniteSetsExt

CONSTANTS
  Things,    \* the rows of the subreddit in the table
  Sent,      \* SentIDs, which another chat may have cleaned from the table
  Presses,   \* which user may press what under which thing: <<user, thing, type>>
  MaxUps,    \* bound: votes of a thing
  BaseTop,   \* Pacing.Base is BaseTop / BaseOf
  BaseOf,
  Scale,     \* Pacing.Scale
  Members    \* members of the chat, or Pacing.Members when there are fewer

PacingAssumption ==
  /\ IsFiniteSet(Things) /\ Things # {} /\ IsFiniteSet(Sent) /\ Sent # {}
  /\ \A p \in Presses : p[2] \in Sent /\ p[3] \in {"like", "dislike", "click"}
  /\ MaxUps \in Nat /\ Scale \in Nat
  /\ BaseTop \in Nat \ {0} /\ BaseOf \in Nat \ {0} /\ Members \in Nat \ {0}

VARIABLES
  ups,      \* the votes in the table reddit
  events,   \* the rows of the chat in the table event
  stable    \* the first of them is older than Pacing.Gain

vars == <<ups, events, stable>>

Init ==
  /\ ups = [t \in Things |-> 0]
  /\ events = {} /\ stable = FALSE

\* A user has one preference per thing and may change it.
Press ==
  /\ \E p \in Presses \ events :
       events' = {p} \cup (IF p[3] = "click" THEN events
                           ELSE {e \in events : e[1] # p[1] \/ e[2] # p[2] \/ e[3] = "click"})
  /\ UNCHANGED <<ups, stable>>

GainPasses ==
  /\ events # {} /\ ~stable
  /\ stable' = TRUE
  /\ UNCHANGED <<ups, events>>

\* SaveThings updates the votes of what was listed.
Vote ==
  /\ \E t \in Things, n \in 0..MaxUps : ups' = [ups EXCEPT ![t] = n]
  /\ UNCHANGED <<events, stable>>

Next == Press \/ GainPasses \/ Vote
Spec == Init /\ [][Next]_vars

-----------------------------------------------------------------------------
Positive == {e \in events : e[3] \in {"like", "click"}}
Negative == {e \in events : e[3] = "dislike"}
UsersOf(es) == {e[1] : e \in es}

\* Score: the column disliked_things counts users, as dislikes does.
LikedThings == Cardinality({e[2] : e \in Positive})
DislikedThings == Cardinality(UsersOf(Negative))
Likes == Cardinality(UsersOf(Positive))
Dislikes == Cardinality(UsersOf(Negative))

\* 1 + boost is BoostedBy / BoostedOf, where boost is Scale times the ratio of
\* things times the ratio of users.
BoostedOf == Cardinality(Sent) * Members
BoostedBy ==
  IF stable THEN BoostedOf + Scale * (LikedThings - DislikedThings) * (Likes - Dislikes)
            ELSE BoostedOf

\* The share to relay is Top / TopOf, and not below Pacing.Min, 0 by default.
Top == LET top == BaseTop * BoostedBy IN IF top < 0 THEN 0 ELSE top
TopOf == BaseOf * BoostedOf

AtMost(n) == Cardinality({t \in Things : ups[t] <= n})
Above(n) == Cardinality({t \in Things : ups[t] > n})
AtLeast(n) == Cardinality({t \in Things : ups[t] >= n})

\* Variant of the next definition: the rank may equal the limit.
RankReaches(n) == AtMost(n) * TopOf >= (TopOf - Top) * Cardinality(Things)
\* cume_dist() > 1 - top
RankExceeds(n) == AtMost(n) * TopOf > (TopOf - Top) * Cardinality(Things)

\* The first row of the query; without one Scan leaves 0.
Percentile ==
  LET ranked == {ups[t] : t \in {u \in Things : RankExceeds(ups[u])}}
  IN IF ranked = {} THEN 0 ELSE Min(ranked)

-----------------------------------------------------------------------------
\* The number of votes asked for splits the table at the wanted share, ties and
\* ends included: fewer things than the share lie above it, and with those that
\* have just this number they make up the share.
SplitsAtShare ==
  (0 < Top /\ Top <= TopOf) =>
    /\ Above(Percentile) * TopOf < Top * Cardinality(Things)
    /\ Top * Cardinality(Things) <= AtLeast(Percentile) * TopOf
=============================================================================
