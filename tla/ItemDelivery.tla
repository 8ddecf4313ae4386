---------------------------- MODULE ItemDelivery ----------------------------
(***************************************************************************)
(* What the poller promises to the chat of a subscription: the items of a  *)
(* source come in order and without a gap, each once it is published, and  *)
(* whatever stops and restarts the process, a subscription goes on where   *)
(* it was.  What was sent is stored before the next item is sent, so that  *)
(* none but the last item is ever sent again, and one at most after the    *)
(* subscription was suspended or removed.                                  *)
(*                                                                         *)
(* The promise has one exception, Revert: a subscription that was removed  *)
(* and created anew may fall back to where the removed one was.            *)
(*                                                                         *)
(* It says nothing of tasks, commands in progress, the copies of rows that *)
(* refreshes work on, or crashes: those belong to Poller.                  *)
(***************************************************************************)
EXTENDS Naturals

CONSTANT Headers

VARIABLES
  published,   \* how many items the source of a header has
  births,      \* how often a header was subscribed to
  state,       \* "none", "off" or "on"
  stored,      \* the subscription the header descends from and its offset
  sent,        \* the items sent to the chat, each with its subscription
  late         \* how many items were sent since the header is not on

vars == <<published, births, state, stored, sent, late>>

Nothing == [born |-> 0, off |-> 0]

Init ==
  /\ published = [h \in Headers |-> 0]
  /\ births = [h \in Headers |-> 0]
  /\ state = [h \in Headers |-> "none"]
  /\ stored = [h \in Headers |-> Nothing]
  /\ sent = [h \in Headers |-> {}]
  /\ late = [h \in Headers |-> 0]

\* The first n items of subscription b of h have been sent and no other ones.
SentFirst(h, b, n) ==
  \A i \in 1..published[h] : <<b, i>> \in sent[h] <=> i <= n

Publish(h) ==
  /\ published' = [published EXCEPT ![h] = @ + 1]
  /\ UNCHANGED <<births, state, stored, sent, late>>

\* A new subscription begins with the first item.
Subscribe(h) ==
  /\ state[h] = "none"
  /\ births' = [births EXCEPT ![h] = @ + 1]
  /\ \E s \in {"on", "off"} : state' = [state EXCEPT ![h] = s]
  /\ stored' = [stored EXCEPT ![h] = [born |-> births[h] + 1, off |-> 0]]
  /\ late' = [late EXCEPT ![h] = 0]
  /\ UNCHANGED <<published, sent>>

Suspend(h) ==
  /\ state[h] = "on"
  /\ state' = [state EXCEPT ![h] = "off"]
  /\ UNCHANGED <<published, births, stored, sent, late>>

\* A subscription goes on where it was left.
Resume(h) ==
  /\ state[h] = "off"
  /\ state' = [state EXCEPT ![h] = "on"]
  /\ late' = [late EXCEPT ![h] = 0]
  /\ UNCHANGED <<published, births, stored, sent>>

Unsubscribe(S) ==
  /\ \A h \in S : state[h] # "none"
  /\ state' = [h \in Headers |-> IF h \in S THEN "none" ELSE state[h]]
  /\ stored' = [h \in Headers |-> IF h \in S THEN Nothing ELSE stored[h]]
  /\ UNCHANGED <<published, births, sent, late>>

\* Item n of subscription b, the next one or the last one again, which is not yet
\* stored.
Send(h, b, n) ==
  /\ SentFirst(h, b, n - 1) \/ SentFirst(h, b, n)
  /\ state[h] # "none" /\ stored[h].born = b => stored[h].off = n - 1
  /\ late[h] = 0
  /\ sent' = [sent EXCEPT ![h] = @ \cup {<<b, n>>}]
  /\ late' = [late EXCEPT ![h] = IF state[h] = "on" THEN 0 ELSE 1]
  /\ UNCHANGED <<published, births, state, stored>>

\* The item sent need not be sent again.
Store(h) ==
  LET next == stored[h].off + 1
  IN /\ state[h] = "on"
     /\ <<stored[h].born, next>> \in sent[h]
     /\ stored' = [stored EXCEPT ![h].off = next]
     /\ UNCHANGED <<published, births, state, sent, late>>

\* The header falls back to where subscription b, an earlier one, was.
Revert(h, b, n) ==
  /\ state[h] = "on"
  /\ b < stored[h].born
  /\ SentFirst(h, b, n) \/ SentFirst(h, b, n + 1)
  /\ stored' = [stored EXCEPT ![h] = [born |-> b, off |-> n]]
  /\ UNCHANGED <<published, births, state, sent, late>>

Next ==
  \/ \E h \in Headers :
       \/ Publish(h) \/ Subscribe(h) \/ Suspend(h) \/ Resume(h) \/ Store(h)
       \/ \E b \in 1..births[h] :
            \/ \E n \in 1..published[h] : Send(h, b, n)
            \/ \E n \in 0..published[h] : Revert(h, b, n)
  \/ \E S \in SUBSET Headers : Unsubscribe(S)

Spec == Init /\ [][Next]_vars
=============================================================================
