---------------------------- MODULE RedditClient ----------------------------
(***************************************************************************)
(* Concurrent requests of 3rdparty/reddit/client.go.  The access token is  *)
(* kept in a channel of capacity one: a request takes it out, holds it     *)
(* while it authorizes, asks and retries, and puts it back when it ends.   *)
(* The context of a request may end at any time.                           *)
(*                                                                         *)
(* Tokens are numbered in the order in which the site issues them; the     *)
(* empty string is 0.  What the site answers is chosen freely.             *)
(***************************************************************************)
EXTENDS Integers

CONSTANTS
  Requests,       \* the calls of GetListing, GetPosts and Subscribe
  Interruptible,  \* those whose context may end
  MaxRetries      \* Config.MaxRetries

ASSUME RetriesAssumption == MaxRetries \in Nat
ASSUME ContextAssumption == Interruptible \subseteq Requests

Empty == 0        \* the token ""
NoToken == -1     \* the channel is empty; the request holds no token

VARIABLES
  channel,    \* the token in the channel
  fresh,      \* expiresAt is not over
  issued,     \* how many tokens the site issued
  rejected,   \* the tokens the site answered with 401
  pc,         \* the place of each request
  held,       \* the token each request holds
  tries,      \* the loop variable of execute
  ended       \* the requests whose context is done

siteVars == <<fresh, issued, rejected>>
vars == <<channel, siteVars, pc, held, tries, ended>>

Holding == {"trying", "authorizing", "asking", "sleeping", "ending"}
Places == {"idle", "waiting", "returned"} \cup Holding

Init ==
  /\ channel = Empty /\ fresh = FALSE /\ issued = 0 /\ rejected = {}
  /\ pc = [r \in Requests |-> "idle"]
  /\ held = [r \in Requests |-> NoToken]
  /\ tries = [r \in Requests |-> 0]
  /\ ended = {}

Goto(r, place) == pc' = [pc EXCEPT ![r] = place]
Hold(r, t) == held' = [held EXCEPT ![r] = t]

-----------------------------------------------------------------------------
Call(r) ==
  /\ pc[r] = "idle"
  /\ Goto(r, "waiting")
  /\ UNCHANGED <<channel, siteVars, held, tries, ended>>

\* Variant of the next definition: the token is read and left where it is.
Peek == channel
\* What is in the channel after a receive.
Rest == NoToken

\* The select of getToken: the token arrives, or the context is done.
GetToken(r) ==
  /\ pc[r] = "waiting"
  /\ channel # NoToken
  /\ Hold(r, channel)
  /\ channel' = Rest
  /\ Goto(r, "trying")
  /\ UNCHANGED <<siteVars, tries, ended>>

GiveUpWaiting(r) ==
  /\ pc[r] = "waiting" /\ r \in ended
  /\ Goto(r, "returned")
  /\ UNCHANGED <<channel, siteVars, held, tries, ended>>

\* Variant of the next definition: one attempt too many.
OneMoreAttempt(r) == tries[r] <= MaxRetries + 1
MoreAttempts(r) == tries[r] < MaxRetries + 1

\* The head of the loop.
Try(r) ==
  /\ pc[r] = "trying"
  /\ Goto(r, IF ~MoreAttempts(r) THEN "ending"
             ELSE IF held[r] = Empty \/ ~fresh THEN "authorizing" ELSE "asking")
  /\ UNCHANGED <<channel, siteVars, held, tries, ended>>

\* A failed authorization leaves the empty token behind.
Authorize(r) ==
  /\ pc[r] = "authorizing"
  /\ \/ /\ issued' = issued + 1 /\ fresh' = TRUE
        /\ Hold(r, issued')
        /\ Goto(r, "asking")
     \/ /\ Hold(r, Empty)
        /\ Goto(r, "ending")
        /\ UNCHANGED <<issued, fresh>>
  /\ UNCHANGED <<channel, rejected, tries, ended>>

\* The answer ends the request: a result, or an error that is not retried (a
\* broken connection, a body or a header that cannot be parsed).
Answered(r) ==
  /\ pc[r] = "asking"
  /\ Goto(r, "ending")
  /\ UNCHANGED <<channel, siteVars, held, tries, ended>>

\* Variant of the next definition: the token is kept after a 401.
KeptToken(r) == held[r]
AfterRejection(r) == Empty

\* 401: the token is forgotten.
Unauthorized(r) ==
  /\ pc[r] = "asking"
  /\ rejected' = rejected \cup {held[r]}
  /\ Hold(r, AfterRejection(r))
  /\ tries' = [tries EXCEPT ![r] = @ + 1]
  /\ Goto(r, "trying")
  /\ UNCHANGED <<channel, fresh, issued, ended>>

\* 429: the request sleeps, with the token, as long as it is told to.
RateLimited(r) ==
  /\ pc[r] = "asking"
  /\ Goto(r, "sleeping")
  /\ UNCHANGED <<channel, siteVars, held, tries, ended>>

\* Variant of the next definition: a rate limit does not count as an attempt.
AttemptForgotten(r) == tries
AttemptCounted(r) == [tries EXCEPT ![r] = @ + 1]

Wake(r) ==
  /\ pc[r] = "sleeping"
  /\ tries' = AttemptCounted(r)
  /\ Goto(r, "trying")
  /\ UNCHANGED <<channel, siteVars, held, ended>>

SleepInterrupted(r) ==
  /\ pc[r] = "sleeping" /\ r \in ended
  /\ Goto(r, "ending")
  /\ UNCHANGED <<channel, siteVars, held, tries, ended>>

\* The deferred done: the token is put back, or the context is done and the
\* token is gone.
Done(r) ==
  /\ pc[r] = "ending"
  /\ \/ channel = NoToken /\ channel' = held[r]
     \/ r \in ended /\ UNCHANGED channel
  /\ Hold(r, NoToken)
  /\ Goto(r, "returned")
  /\ UNCHANGED <<siteVars, tries, ended>>

EndContext(r) ==
  /\ r \in Interruptible \ ended
  /\ pc[r] # "returned"
  /\ ended' = ended \cup {r}
  /\ UNCHANGED <<channel, siteVars, pc, held, tries>>

\* The clock passes expiresAt.
Expire ==
  /\ fresh
  /\ fresh' = FALSE
  /\ UNCHANGED <<channel, issued, rejected, pc, held, tries, ended>>

Step(r) ==
  \/ GetToken(r) \/ GiveUpWaiting(r) \/ Try(r) \/ Authorize(r)
  \/ Answered(r) \/ Unauthorized(r) \/ RateLimited(r)
  \/ Wake(r) \/ SleepInterrupted(r) \/ Done(r)

Next == Expire \/ \E r \in Requests : Call(r) \/ EndContext(r) \/ Step(r)

Spec == Init /\ [][Next]_vars

\* A goroutine of the runtime runs, the site answers (the transport has
\* timeouts) and a sleep is over some time.
FairSpec == Spec /\ \A r \in Requests : WF_vars(Step(r))

-----------------------------------------------------------------------------
\* The type invariant.  A request never starts more than MaxRetries + 1
\* attempts, and no token is used that the site did not issue.
TypeOK ==
  /\ channel \in {NoToken} \cup 0..issued
  /\ fresh \in BOOLEAN /\ issued \in Nat /\ rejected \subseteq 1..issued
  /\ pc \in [Requests -> Places]
  /\ held \in [Requests -> {NoToken} \cup 0..issued]
  /\ tries \in [Requests -> 0..MaxRetries + 1]
  /\ ended \subseteq Interruptible

\* The token and the field expiresAt beside it, which no lock protects, belong
\* to one request at a time: nobody holds the token while another does or while
\* it is in the channel.
OneOwner ==
  \A r \in Requests : pc[r] \in Holding =>
    channel = NoToken /\ \A s \in Requests : pc[s] \in Holding => s = r

\* A token the site rejected is never sent again, neither by the request that
\* met the rejection nor by those it hands the channel to.
RejectedNotReused == \A r \in Requests : pc[r] = "asking" => held[r] \notin rejected

\* Done threw the token away: it is neither in the channel nor with a request.
TokenLost == channel = NoToken /\ \A r \in Requests : pc[r] \notin Holding

\* Every request ends, after MaxRetries + 1 attempts at the latest, whatever
\* the site answers and whoever waits for the token, unless the token was lost.
RequestsEnd == \A r \in Requests : pc[r] = "waiting" ~> pc[r] = "returned" \/ TokenLost
=============================================================================
