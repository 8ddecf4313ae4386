------------------------ MODULE SubredditSuggestions ------------------------
(***************************************************************************)
(* The vendor srstats (vendors/reddit subreddit_suggestions.go with the    *)
(* query CountEventsBy and the client 3rdparty/srstats): once per Interval *)
(* it posts subreddits related to those whose updates readers liked, with  *)
(* buttons to subscribe or to be spared the suggestion for ever.  Both     *)
(* leave a row in the table feed.                                          *)
(*                                                                         *)
(* A rating is the sum of a subreddit's events, likes and clicks counting  *)
(* 1 and dislikes -1; histograms hold small integers and no subreddit is   *)
(* globally more frequent than another, so dividing does not reorder.      *)
(***************************************************************************)
EXTENDS Integers, Sequences, FiniteSets, SequencesExt, FiniteSetsExt, Functions, Numbers

CONSTANTS
  Subreddits,
  Liked,      \* those whose updates readers may press buttons of
  Related,    \* the histogram of a subreddit: a function from some of Subreddits
  Interval,
  MaxShown,   \* 10 in the code
  MaxRating   \* bound on the ratings

SuggestionsAssumption ==
  /\ Interval \in Nat \ {0} /\ MaxShown \in Nat /\ MaxRating \in Nat
  /\ IsFiniteSet(Subreddits) /\ Liked \subseteq Subreddits /\ Liked \subseteq DOMAIN Related
  /\ \A s \in Liked : /\ DOMAIN Related[s] \subseteq Subreddits
                            /\ \A t \in DOMAIN Related[s] : Related[s][t] \in Nat

VARIABLES
  rating,   \* of the subreddits with events in the period
  rows,     \* SubIDs in the table feed for the chat of the readers
  fired,    \* the age of fired_at as stored, up to Interval
  ranked,   \* the update on its way: a set of at most one list, with the time since
            \* its refresh began, and the scores when its names are those of its IDs
  message,  \* the last message
  begun,    \* the time since its refresh began, up to Interval
  failed    \* its data could not be stored

messageVars == <<message, begun, failed>>
vars == <<rating, rows, fired, ranked, messageVars>>

Init ==
  /\ rating = <<>> /\ rows = {}
  /\ fired = Interval /\ ranked = {}
  /\ message = <<>> /\ begun = Interval /\ failed = FALSE

\* A subreddit is spelled in one way by srstats and in another by reddit.
Spelled(s) == [name |-> s, by |-> "srstats"]
SubID(s) == [name |-> s, by |-> "reddit"]

-----------------------------------------------------------------------------
\* Readers press buttons.  Events that leave the period are like those without a
\* histogram, in Refresh.
Rate ==
  /\ \E s \in Liked, n \in -MaxRating..MaxRating :
       rating' = [t \in DOMAIN rating \cup {s} |-> IF t = s THEN n ELSE rating[t]]
  /\ UNCHANGED <<rows, fired, ranked, messageVars>>

\* The two buttons of a suggestion: a subscription or a deadborn one.
Choose ==
  /\ \E i \in DOMAIN message : rows' = rows \cup {SubID(message[i].name)}
  /\ UNCHANGED <<rating, fired, ranked, messageVars>>

Later(age) == Min({age + 1, Interval})

\* Time also passes while srstats answers and while the update waits.
Tick ==
  /\ fired' = Later(fired) /\ begun' = Later(begun)
  /\ ranked' = {[update EXCEPT !.age = Later(@)] : update \in ranked}
  /\ UNCHANGED <<rating, rows, message, failed>>

\* getSuggestions with the histograms that could be had: the weighted sums ...
Sum(s, known) ==
  LET terms == [t \in {u \in known : s \in DOMAIN Related[u]} |-> rating[t] * Related[t][s]]
  IN FoldFunction(+, 0, terms)
Scores(known) ==
  [s \in UNION {DOMAIN Related[t] : t \in known} |-> Sum(s, known)]

\* ... in the order of a map, in which srstats is asked for the names and the list is
\* cut to as many as come: each name is put down to some ID, not always its own.
Named(owner, scores) == [s \in DOMAIN owner |-> scores[owner[s]]]

\* Variant of the next definition: the least related comes first.
Ascending(list, scores) ==
  \A i, j \in DOMAIN list : i < j => scores[list[i]] <= scores[list[j]]
\* Only then it is sorted, in descending order; equals come in any order.
Descending(list, scores) ==
  \A i, j \in DOMAIN list : i < j => scores[list[i]] >= scores[list[j]]

\* Variant of the next definition: the interval is not observed.
AlwaysDue == TRUE
Due == fired >= Interval

Sorted(owner, scores) ==
  {list \in SetToSeqs(DOMAIN owner) : Descending(list, Named(owner, scores))}
Owners(scores) == UNION {Injection(named, DOMAIN scores) : named \in SUBSET DOMAIN scores}
Updates(scores) ==
  UNION {{[list |-> list, age |-> 0,
           scores |-> IF owner = [s \in DOMAIN scores |-> s] THEN scores ELSE <<>>]
          : list \in Sorted(owner, scores)} : owner \in Owners(scores)}

\* The clock and the ratings are read first.
Refresh ==
  /\ Due /\ ranked = {}
  /\ \E known \in SUBSET DOMAIN rating : \E update \in Updates(Scores(known)) :
       ranked' = {update}
  /\ UNCHANGED <<rating, rows, fired, messageVars>>

\* Variant of the next definition: the spelling matters.
KnownAsSpelled(s) == Spelled(s) \in rows
\* GetSubscription compares in lower case.
Known(s) == \E r \in rows : r.name = s

\* The loop goes through the list and passes over what has a row, and what it
\* could not read the row of.
Places(list, missed) ==
  Increasing({i \in DOMAIN list : ~Known(list[i]) /\ list[i] \notin missed})
FirstOf(list) == SubSeq(list, 1, Min({MaxShown, Len(list)}))

\* The task writes the message, with the rows as they are then, and stores the data.
Write(missed) ==
  /\ ranked' = {}
  /\ \E update \in ranked :
       LET places == Places(update.list, missed) IN
         /\ message' = [i \in DOMAIN FirstOf(places) |-> Spelled(update.list[places[i]])]
         /\ begun' = update.age
         /\ \/ fired' = update.age /\ failed' = FALSE
            \/ failed' = TRUE /\ UNCHANGED fired
  /\ UNCHANGED <<rating, rows>>

\* The requests to srstats or the message itself fail.
Abandon ==
  /\ ranked # {} /\ ranked' = {}
  /\ UNCHANGED <<rating, rows, fired, messageVars>>

Writes == \E missed \in SUBSET Subreddits : Write(missed)

Next == Rate \/ Choose \/ Tick \/ Refresh \/ Writes \/ Abandon
Spec == Init /\ [][Next]_vars

-----------------------------------------------------------------------------
\* The type invariant; a message is no longer than the limit.
TypeOK ==
  /\ DOMAIN rating \subseteq Liked
  /\ rows \subseteq {SubID(s) : s \in Subreddits}
  /\ fired \in 0..Interval /\ begun \in 0..Interval /\ failed \in BOOLEAN
  /\ Len(message) <= MaxShown

\* What the supervisor has subscribed the chat to, or refused, is not suggested, even
\* when that happened after the list was made and whatever its spelling.
ChosenNotSuggested ==
  [][Writes => \A i \in DOMAIN message' : SubID(message'[i].name) \notin rows]_vars

\* What is left out of a message is not better than anything in it, unless it has
\* a row or its row could not be read, when srstats has named all that it was asked
\* for, in the order of the request.
BestAreSuggested ==
  [][\A missed \in SUBSET Subreddits : Write(missed) =>
       \A update \in ranked : \A s \in DOMAIN update.scores \ missed : \A i \in DOMAIN message' :
         update.scores[s] > update.scores[message'[i].name] =>
           \/ SubID(s) \in rows
           \/ \E j \in DOMAIN message' : message'[j].name = s]_vars

\* Between the beginning of the refresh that wrote a message and the next message
\* there is an interval, unless its data could not be stored.
OncePerInterval == [][Writes /\ ~failed => begun >= Interval]_vars

\* What a message of suggestions promises: the three above.
Suggests == ChosenNotSuggested /\ BestAreSuggested /\ OncePerInterval
=============================================================================
