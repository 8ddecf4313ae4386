------------------------------- MODULE People --------------------------------
(* What people do with the bot, side by side: the supervisor's buttons in    *)
(* two instances of Interface, those of readers in two instances of          *)
(* SubredditPreferences, and the way of every command in CommandListener.    *)
(* The variable part says which of them moves in a behaviour; the others     *)
(* stay in their initial state.                                              *)
EXTENDS CommandListener

CONSTANTS
  Headers, Lower,                         \* those of Interface
  Users, Messages, ThingOf, MaxEvents,    \* those of SubredditPreferences
  User, MaxEventsOfOne                    \* one of the readers, who presses more often

VARIABLES
  part,
  row, cmd, pending, offered, lost,
  events, press, markup, started, cut, requested

NoCase == [t \in {} |-> t]

\* Subscriptions that differ in the case of a letter, which some of the database's
\* comparisons ignore, and the same if they did not.
Distinct == INSTANCE Interface WITH Lower <- NoCase
Cases == INSTANCE Interface

Readers == INSTANCE SubredditPreferences WITH cmd <- press
Reader == INSTANCE SubredditPreferences WITH
  Users <- {User}, MaxEvents <- MaxEventsOfOne, cmd <- press

ASSUME PeopleAssumption ==
  /\ CommandsAssumption
  /\ Cases!HeaderAssumption
  /\ Readers!PreferencesAssumption /\ Reader!PreferencesAssumption /\ User \in Users

chatVars == <<row, cmd, pending, offered, lost>>
readerVars == <<events, press, markup, started, cut, requested>>
botVars == <<siteVars, offset, handVars, alive, state, executions, stops>>
usersVars == <<part, chatVars, readerVars, botVars>>

UsersInit ==
  /\ part \in {"distinct", "cases", "readers", "reader", "bot"}
  /\ Cases!Init /\ Init
  /\ IF part = "reader" THEN Reader!Init ELSE Readers!Init

OfBot(Step) == part = "bot" /\ Step /\ UNCHANGED <<part, chatVars, readerVars>>

UsersNext ==
  \/ part = "distinct" /\ Distinct!Next /\ UNCHANGED <<part, readerVars, botVars>>
  \/ part = "cases" /\ Cases!Next /\ UNCHANGED <<part, readerVars, botVars>>
  \/ part = "readers" /\ Readers!Next /\ UNCHANGED <<part, chatVars, botVars>>
  \/ part = "reader" /\ Reader!Next /\ UNCHANGED <<part, chatVars, botVars>>
  \/ OfBot(Next)

UsersSpec ==
  /\ UsersInit /\ [][UsersNext]_usersVars
  /\ WF_usersVars(OfBot(GetUpdates)) /\ WF_usersVars(OfBot(HandOver))
  /\ WF_usersVars(OfBot(ListenEnds)) /\ WF_usersVars(OfBot(CommandsEnds))
  /\ WF_usersVars(OfBot(OnCommand)) /\ WF_usersVars(OfBot(Return))
  /\ WF_usersVars(OfBot(ListenerEnds)) /\ WF_usersVars(OfBot(CloseReturn))

\* The type invariants; a subscription the supervisor was told of has a button that
\* works (Manageable); a reader has one preference per update (OnePreference), and
\* its buttons count what the table holds (MarkupIsCurrent).
UsersInvariant ==
  /\ Distinct!TypeOK /\ (part = "distinct" => Distinct!Manageable)
  /\ Readers!TypeOK /\ Readers!OnePreference /\ Readers!MarkupIsCurrent
  /\ TypeOK

\* A button changes the subscription it was made for and no other, and a list offers
\* what applies, also where two subscriptions differ in case only.
ButtonsAct == Cases!ButtonsAct

\* Who follows the link gets the message whose button was pressed last, although the
\* link names the thing only, which several messages may show.
LinkLeadsToRequest == Readers!LinkLeadsToRequest
=============================================================================
