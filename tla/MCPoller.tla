------------------------------ MODULE MCPoller ------------------------------
(* Small instances of Poller.  Headers and feeds are model values; the      *)
(* numbers are given by each configuration.                                 *)
EXTENDS Poller, TLC

CONSTANTS h1, h2, f1, f2

\* One chat with two subscriptions, two chats with one each, one of each.
OneFeed == (h1 :> f1) @@ (h2 :> f1)
TwoFeeds == (h1 :> f1) @@ (h2 :> f2)
Single == h1 :> f1

MCData == DataOf(MaxBirths, MaxItems)
MCBlank == Data0

\* The two subscriptions of one chat are interchangeable.
Symmetric == Permutations({h1, h2})
=============================================================================
