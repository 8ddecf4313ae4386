------------------------------ MODULE Interface ------------------------------
(***************************************************************************)
(* What the supervisor sees and presses (core/internal/iface/impl.go) and  *)
(* the listeners of the poller that tell of it (core/internal/poller       *)
(* state_listeners.go).  Buttons name a subscription by its header; they   *)
(* stay in the chat and may be pressed long after.  One goroutine executes *)
(* commands, while the tasks of feeds suspend subscriptions and tell so    *)
(* from goroutines of their own.                                           *)
(***************************************************************************)
EXTENDS Integers, Sequences, FiniteSets, SequencesExt, Functions

CONSTANTS
  Headers,   \* [feed, vendor, sub]; sub is a sequence of tokens
  Lower      \* the lower case of the tokens that have another one

Fold(sub) == [i \in DOMAIN sub |-> IF sub[i] \in DOMAIN Lower THEN Lower[sub[i]] ELSE sub[i]]

VARIABLES
  row,      \* the subscription: "none", "active", "suspended" or "deadborn"
  cmd,      \* the command in progress, with the notification it will send
  pending,  \* the headers whose task has suspended them and not told so
  offered,  \* the buttons in the chats, each with the header it was made for
  lost      \* the headers with a notification that could not be sent

vars == <<row, cmd, pending, offered, lost>>

Silent == [what |-> "none", about |-> {}, acted |-> {}]

Init ==
  /\ row = [h \in Headers |-> "none"]
  /\ cmd = Silent /\ pending = {} /\ offered = {}
  /\ lost = {}

-----------------------------------------------------------------------------
Delimiter == "+"

\* A header has three parts, and its sub ID is a sequence of tokens.
HeaderAssumption ==
  \A h \in Headers :
    /\ h = [feed |-> h.feed, vendor |-> h.vendor, sub |-> h.sub]
    /\ h.sub \in Seq(Range(h.sub))

\* No part contains the delimiter.  The query of a catalog is part of its sub ID and
\* may contain it.
Plain(h) == Delimiter \notin {h.feed, h.vendor} /\ \A i \in DOMAIN h.sub : h.sub[i] # Delimiter

\* Variant of the next definition: a vendor less.
formatHeaderShort(h) == <<h.feed, Delimiter>> \o h.sub
formatHeader(h) == <<h.feed, Delimiter, h.vendor, Delimiter>> \o h.sub

Delimiters(arg) == {i \in DOMAIN arg : arg[i] = Delimiter}

\* Three parts, or an error: no header.
parseHeader(arg) ==
  IF Cardinality(Delimiters(arg)) # 2 THEN {}
  ELSE {[feed |-> arg[1], vendor |-> arg[3], sub |-> SubSeq(arg, 5, Len(arg))]}

Button(key, h) == [key |-> key, arg |-> formatHeader(h), for |-> h]

-----------------------------------------------------------------------------
\* GetSubscription compares sub_id in lower case and takes the first row, in an
\* order that depends on the collation of the database.
Same(h, k) == h.feed = k.feed /\ h.vendor = k.vendor /\ Fold(h.sub) = Fold(k.sub)
GetSubscription(h) == {k \in Headers : row[k] # "none" /\ Same(h, k)}

\* Variant of the next definition: the statement compares like GetSubscription.
RowsOfAnyCase(h) == GetSubscription(h)
RowsOf(h) == {k \in Headers \cap {h} : row[k] # "none"}

Idle == cmd = Silent
SetRows(hs, status) == row' = [k \in Headers |-> IF k \in hs THEN status ELSE row[k]]
Tell(what, h, acted) == cmd' = [what |-> what, about |-> {h}, acted |-> {acted}]

\* Subscribe and its alias Sub; the option deadborn creates a suspended row.
Subscribe(h) ==
  /\ Idle /\ row[h] = "none"
  /\ \/ SetRows({h}, "active") /\ Tell("fire", h, h)
     \/ SetRows({h}, "deadborn") /\ Tell("stop", h, h)
  /\ UNCHANGED <<pending, offered, lost>>

\* A button is pressed; a key that does not apply, or an argument that is no
\* header, is an error and changes nothing.
Press(b) ==
  /\ Idle
  /\ \E h \in parseHeader(b.arg) :
       \/ /\ b.key = "suspend"
          /\ \E k \in RowsOf(h) : row[k] = "active"
          /\ SetRows({k \in RowsOf(h) : row[k] = "active"}, "suspended")
          /\ \E k \in GetSubscription(h) : Tell("stop", k, h)
       \/ /\ b.key = "resume"
          /\ \E k \in RowsOf(h) : row[k] \in {"suspended", "deadborn"}
          /\ SetRows({k \in RowsOf(h) : row[k] # "active"}, "active")
          /\ \E k \in GetSubscription(h) : Tell("fire", k, h)
       \/ /\ b.key = "delete"
          /\ RowsOf(h) # {}
          /\ SetRows(RowsOf(h), "none")
          /\ \E k \in GetSubscription(h) : Tell("bin", k, h)
  /\ UNCHANGED <<pending, offered, lost>>

\* Clear deletes the rows of a feed whose error matches the pattern; AfterClear
\* offers nothing.
Clear(f) ==
  /\ Idle
  /\ \E hs \in SUBSET {h \in Headers : h.feed = f /\ row[h] \in {"suspended", "deadborn"}} :
       hs # {} /\ SetRows(hs, "none")
  /\ UNCHANGED <<cmd, pending, offered, lost>>

-----------------------------------------------------------------------------
\* Variant of the next definition: a suspended subscription can only be deleted.
DeleteOnly(what) == IF what = "fire" THEN {"suspend"} ELSE IF what = "stop" THEN {"delete"} ELSE {}
ButtonsOf(what) ==
  CASE what = "fire" -> {"suspend"}
    [] what = "stop" -> {"resume", "delete"}
    [] OTHER -> {}

\* AfterResume, AfterSuspend, AfterDelete.
Send(what, h) == offered' = offered \cup {Button(key, h) : key \in ButtonsOf(what)}

\* The command ends with its notification, or with a warning in the log.
Notify ==
  /\ ~Idle
  /\ cmd' = Silent
  /\ \/ (\E h \in cmd.about : Send(cmd.what, h)) /\ UNCHANGED lost
     \/ lost' = lost \cup cmd.acted /\ UNCHANGED offered
  /\ UNCHANGED <<row, pending>>

\* A refresh fails: the task of the feed suspends the subscription and then tells so.
TaskSuspends(h) ==
  /\ row[h] = "active" /\ \A k \in pending : k.feed # h.feed
  /\ SetRows({h}, "suspended")
  /\ pending' = pending \cup {h}
  /\ UNCHANGED <<cmd, offered, lost>>

TaskNotifies(h) ==
  /\ h \in pending
  /\ pending' = pending \ {h}
  /\ \/ Send("stop", h) /\ UNCHANGED lost
     \/ lost' = lost \cup {h} /\ UNCHANGED offered
  /\ UNCHANGED <<row, cmd>>

-----------------------------------------------------------------------------
Listed(f, active) ==
  {h \in Headers : h.feed = f /\ row[h] = (IF active THEN "active" ELSE "suspended")}

\* Variant of the next definition: the buttons are those that were asked for.
ActiveAsAsked(f, r) == r
\* Without the option r active subscriptions are listed when none is suspended.
ActiveListed(f, r) == r \/ Listed(f, FALSE) = {}
ListedRows(f, r) == Listed(f, r \/ Listed(f, FALSE) = {})

List(f, r) ==
  /\ Idle
  /\ offered' = offered \cup
       {Button(IF ActiveListed(f, r) THEN "suspend" ELSE "resume", h) : h \in ListedRows(f, r)}
  /\ UNCHANGED <<row, cmd, pending, lost>>

\* resolveFeedID makes one of these of an alias, a user name or an ID.
Feeds == {h.feed : h \in Headers}

Next ==
  \/ \E h \in Headers : Subscribe(h) \/ TaskSuspends(h) \/ TaskNotifies(h)
  \/ \E b \in offered : Press(b)
  \/ \E f \in Feeds : Clear(f) \/ (\E r \in BOOLEAN : List(f, r))
  \/ Notify

Spec == Init /\ [][Next]_vars

-----------------------------------------------------------------------------
Keys == {"suspend", "resume", "delete"}

\* The type invariant; every button in a chat leads back to the header it was made
\* for or, where a part of that contains the delimiter, to none.
TypeOK ==
  /\ row \in [Headers -> {"none", "active", "suspended", "deadborn"}]
  /\ pending \subseteq Headers /\ lost \subseteq Headers
  /\ cmd.what \in {"none", "fire", "stop", "bin"} /\ cmd.about \subseteq Headers
  /\ \A b \in offered :
       b.key \in Keys /\ parseHeader(b.arg) = {h \in {b.for} : Plain(h)}

\* README.md 124: the notifications "will contain buttons to help you manage the
\* subscription during its lifecycle".  Unless a notification about a
\* subscription could not be sent, some button works that undoes its last change,
\* if the delimiter is in no part of its header.
Manageable ==
  \A h \in {k \in Headers : Plain(k)} :
    (h \notin pending \cup lost \cup cmd.acted /\ row[h] \in {"active", "suspended"}) =>
      \E b \in offered :
        /\ b.key = (IF row[h] = "active" THEN "suspend" ELSE "resume")
        /\ parseHeader(b.arg) = {h}

\* Pressing a button, however old, changes the subscription it was made for and no
\* other.
PressActsOnItsOwn ==
  [][\A b \in offered : Press(b) => \A h \in Headers \ {b.for} : row'[h] = row[h]]_vars

\* A list offers what applies: pressed at once each of its buttons works.
ListedButtonsApply ==
  [][\A f \in Feeds, r \in BOOLEAN : List(f, r) =>
       \A b \in offered' \ offered :
         row[b.for] = (IF b.key = "suspend" THEN "active" ELSE "suspended")]_vars

\* A button does what its list says to the subscription it names: the two above.
ButtonsAct == PressActsOnItsOwn /\ ListedButtonsApply
=============================================================================
