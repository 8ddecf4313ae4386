------------------------------- MODULE MCUsers -------------------------------
(* A small instance of People: two subscriptions that differ in the case of  *)
(* a letter, and one thing that was relayed twice.                           *)
EXTENDS People, TLC

Subscription(sub) == [feed |-> "chat", vendor |-> "2ch/catalog", sub |-> sub]
MCHeaders == {Subscription(<<"a">>), Subscription(<<"A">>)}
MCLower == "A" :> "a"
MCReaders == {"u1", "u2"}
MCMessages == {"m1", "m2"}
MCThingOf == [m \in {"m1", "m2"} |-> "thing"]
=============================================================================
