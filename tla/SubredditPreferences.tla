------------------------ MODULE SubredditPreferences ------------------------
(***************************************************************************)
(* The buttons under a subreddit's updates (vendors/reddit                 *)
(* subreddit_command_listener.go) and the table event of the storage       *)
(* (core/internal/storage/sql.go) for one chat.  Like and dislike replace  *)
(* the user's preference and refresh the counts on the buttons; the info   *)
(* button copies the update to the user, who must have started the bot:    *)
(* otherwise the request is kept as an event "pre" until the user follows  *)
(* a link to the bot.  One goroutine executes the commands, one after      *)
(* another; each of their statements and calls may fail.                   *)
(***************************************************************************)
EXTENDS Integers, Sequences, FiniteSets

CONSTANTS
  Users,
  Messages,    \* the updates of the chat
  ThingOf,     \* what each of them shows; a thing may be shown more than once
  MaxEvents    \* bound: commands start while there are fewer rows

PreferencesAssumption ==
  IsFiniteSet(Users) /\ MaxEvents \in Nat /\ "none" \notin Users \cup Messages

VARIABLES
  events,    \* the rows of the chat in the order of time
  cmd,       \* the command in progress
  markup,    \* per message: the counts on its buttons
  started,   \* the users who have started the bot
  cut,       \* the messages whose last preference command failed
  requested  \* per user and thing: the message of the last request kept

ghosts == <<cut, requested>>
vars == <<events, cmd, markup, started, ghosts>>

Preferences == {"like", "dislike"}
Nothing == "none"
None == [at |-> "idle", type |-> Nothing, user |-> Nothing, message |-> Nothing, thing |-> Nothing]
Thing(m) == ThingOf[m]
Zero == [like |-> 0, dislike |-> 0]

Init ==
  /\ events = <<>> /\ cmd = None
  /\ markup = [m \in Messages |-> Zero]
  /\ started = {} /\ cut = {}
  /\ requested = [k \in Users \X {Thing(m) : m \in Messages} |-> Nothing]

-----------------------------------------------------------------------------
\* whereEvent: the types, and the columns a tag of SubredditEventData names.
OfUserAndMessage(e) == e.user = cmd.user /\ e.message = cmd.message
OfThing(e) == Thing(e.message) = Thing(cmd.message)
OfMessage(e) == e.message = cmd.message
OfUserAndThing(e) == e.user = cmd.user /\ Thing(e.message) = cmd.thing

SaveEvent(type) ==
  events' = Append(events, [type |-> type, user |-> cmd.user, message |-> cmd.message])
Goto(place) == cmd' = [cmd EXCEPT !.at = place]
Idle == cmd.at = "idle" /\ Len(events) < MaxEvents

Press ==
  /\ Idle
  /\ \E u \in Users, m \in Messages, type \in Preferences :
       cmd' = [at |-> "delete", type |-> type, user |-> u, message |-> m, thing |-> Thing(m)]
  /\ UNCHANGED <<events, markup, started, ghosts>>

\* Variant of the next definition: only the same preference.
ReplacedBySame(e) == e.type = cmd.type /\ OfUserAndMessage(e)
Replaced(e) == e.type \in Preferences /\ OfUserAndMessage(e)

\* What remains of the first n rows.
Remaining[n \in 0..Len(events)] ==
  IF n = 0 THEN <<>>
  ELSE IF Replaced(events[n]) THEN Remaining[n - 1]
  ELSE Append(Remaining[n - 1], events[n])

DeleteEvents ==
  /\ cmd.at = "delete"
  /\ events' = Remaining[Len(events)]
  /\ Goto("save")
  /\ UNCHANGED <<markup, started, ghosts>>

SavePreference ==
  /\ cmd.at = "save"
  /\ SaveEvent(cmd.type)
  /\ Goto("count")
  /\ UNCHANGED <<markup, started, ghosts>>

\* Variant of the next definition: the counts of the thing.
CountedForThing(e) == OfThing(e)
Counted(e) == OfMessage(e)

Count(type) == Cardinality({i \in DOMAIN events : events[i].type = type /\ Counted(events[i])})

\* CountEventsByType and, with its result, EditMessageReplyMarkup.  Nothing else
\* writes events in between.
EditMarkup ==
  /\ cmd.at = "count"
  /\ markup' = [markup EXCEPT ![cmd.message] = [like |-> Count("like"), dislike |-> Count("dislike")]]
  /\ cut' = cut \ {cmd.message}
  /\ cmd' = None
  /\ UNCHANGED <<events, started, requested>>

\* A statement or a call fails, or the process stops: the command ends there.
Fail ==
  /\ cmd.at # "idle"
  /\ cut' = IF cmd.type \in Preferences THEN cut \cup {cmd.message} ELSE cut
  /\ cmd' = None
  /\ UNCHANGED <<events, markup, started, requested>>

-----------------------------------------------------------------------------
Click ==
  /\ Idle
  /\ \E u \in Users, m \in Messages :
       cmd' = [at |-> "copy", type |-> "click", user |-> u, message |-> m, thing |-> Thing(m)]
  /\ UNCHANGED <<events, markup, started, ghosts>>

\* A user follows the link and starts the bot; the link names the thing only.
FollowLink ==
  /\ Idle
  /\ \E k \in DOMAIN requested :
       /\ started' = started \cup {k[1]}
       /\ cmd' = [at |-> "lookup", type |-> "click", user |-> k[1], message |-> Nothing, thing |-> k[2]]
  /\ UNCHANGED <<events, markup, ghosts>>

Requests == {i \in DOMAIN events : events[i].type = "pre" /\ OfUserAndThing(events[i])}
\* Variant of the next definition: the first one.
EarliestRequest == events[CHOOSE i \in Requests : \A j \in Requests : i <= j]
LastRequest == events[CHOOSE i \in Requests : \A j \in Requests : j <= i]

\* GetLastEventData; without a request its empty row is an error.
Lookup ==
  /\ cmd.at = "lookup" /\ Requests # {}
  /\ cmd' = [cmd EXCEPT !.at = "copy", !.message = LastRequest.message]
  /\ UNCHANGED <<events, markup, started, ghosts>>

\* CopyMessage, when the post was found.
Copy ==
  /\ cmd.at = "copy" /\ cmd.user \in started
  /\ Goto("click")
  /\ UNCHANGED <<events, markup, started, ghosts>>

\* Telegram forbids to write to the user: the request is kept and the user gets a
\* link to the bot ...
CopyForbidden ==
  /\ cmd.at = "copy" /\ cmd.user \notin started
  /\ SaveEvent("pre")
  /\ requested' = [requested EXCEPT ![<<cmd.user, cmd.thing>>] = cmd.message]
  /\ Goto("start")
  /\ UNCHANGED <<markup, started, cut>>

\* ... which counts as a click like a copy.
Start == cmd.at = "start" /\ Goto("click") /\ UNCHANGED <<events, markup, started, ghosts>>

SaveClick ==
  /\ cmd.at = "click"
  /\ SaveEvent("click")
  /\ cmd' = None
  /\ UNCHANGED <<markup, started, ghosts>>

\* The post is not found: errors.Wrap of no error is none, and the command ends.
PostNotFound ==
  /\ cmd.at = "copy"
  /\ cmd' = None
  /\ UNCHANGED <<events, markup, started, ghosts>>

Next ==
  \/ Press \/ DeleteEvents \/ SavePreference \/ EditMarkup \/ Fail
  \/ Click \/ FollowLink \/ Lookup \/ Copy \/ CopyForbidden \/ Start \/ SaveClick \/ PostNotFound

Spec == Init /\ [][Next]_vars

-----------------------------------------------------------------------------
Places == {"idle", "delete", "save", "count", "lookup", "copy", "start", "click"}

\* The type invariant; the buttons count no more readers than there are.
TypeOK ==
  /\ events \in Seq([type : Preferences \cup {"pre", "click"}, user : Users, message : Messages])
  /\ cmd.at \in Places
  /\ \A m \in Messages : markup[m].like + markup[m].dislike \in 0..Cardinality(Users)
  /\ started \subseteq Users /\ cut \subseteq Messages

\* A user has at most one preference under a message, whatever is pressed in which
\* order and wherever commands fail.
OnePreference ==
  \A i, j \in DOMAIN events :
    (/\ events[i].type \in Preferences /\ events[j].type \in Preferences
     /\ events[i].user = events[j].user /\ events[i].message = events[j].message) => i = j

\* Between commands the buttons show the preferences that are stored, under every
\* message whose last command did not fail.
MarkupIsCurrent ==
  cmd.at = "idle" => \A m \in Messages \ cut : \A type \in Preferences :
    markup[m][type] = Cardinality({i \in DOMAIN events :
                                     events[i].type = type /\ events[i].message = m})

\* Who follows the link gets the message whose button was pressed last, although
\* the link does not name it.
LinkLeadsToRequest ==
  [][\A u \in Users, m \in Messages :
       (cmd.at = "lookup" /\ cmd.user = u /\ cmd'.at = "copy" /\ cmd'.message = m)
         => requested[<<u, cmd.thing>>] = m]_vars
=============================================================================
