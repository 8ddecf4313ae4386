------------------------------ MODULE Clients -------------------------------
(* The clients of reddit and redditsave side by side.  The variable part     *)
(* says which of them moves in a behaviour; the other stays in its initial   *)
(* state.                                                                    *)
EXTENDS RedditClient

\* Those of RedditsaveClient; Cancelled are the calls whose context may end.
CONSTANTS Calls, Cancelled, RefreshEvery, MaxTime

VARIABLES part, clock, mu, lastRefresh, jar, place, now, done

Cookie == INSTANCE RedditsaveClient WITH
  Interruptible <- Cancelled, pc <- place, ended <- done

ASSUME CookieAssumption ==
  Cookie!ClockAssumption /\ Cookie!ContextAssumption /\ Cookie!FreeAssumption

tokenVars == <<channel, fresh, issued, rejected, pc, held, tries, ended>>
cookieVars == <<clock, mu, lastRefresh, jar, place, now, done>>
clientVars == <<part, tokenVars, cookieVars>>

OfToken(Steps) == part = "token" /\ Steps /\ UNCHANGED <<part, cookieVars>>
OfCookie(Steps) == part = "cookie" /\ Steps /\ UNCHANGED <<part, tokenVars>>

ClientsInit == part \in {"token", "cookie"} /\ Init /\ Cookie!Init

ClientsNext == OfToken(Next) \/ OfCookie(Cookie!Next)

ClientsSpec ==
  /\ ClientsInit /\ [][ClientsNext]_clientVars
  /\ \A r \in Requests : WF_clientVars(OfToken(Step(r)))
  /\ \A c \in Calls :
       SF_clientVars(OfCookie(Cookie!Lock(c))) /\ WF_clientVars(OfCookie(Cookie!Step(c)))

\* The type invariants of both, with the bound on attempts; and the cookie jar is
\* used by one call at a time, the one in the lock (OneInside).
ClientsInvariant == TypeOK /\ Cookie!TypeOK /\ Cookie!OneInside

\* A call that read the clock, then waited while others refreshed the cookie, does not
\* set the time of the last refresh back.
RefreshTimeGrows == Cookie!RefreshTimeGrows

\* Every call of the client of redditsave returns, in spite of its nested call to itself,
\* unless the lock was lost to a call whose context ended.
CallsReturn == Cookie!CallsReturn
=============================================================================
