---------------------------- MODULE SourcesProofs ----------------------------
(***************************************************************************)
(* The safety of what the feeds are made from: the clients of Clients for  *)
(* any set of requests and calls, any number of retries, any interval of   *)
(* refreshes and whichever contexts end; and the vendors of Vendors for    *)
(* any posts, things, chats, histograms and factors.                       *)
(*                                                                         *)
(* That no rejected token is sent again is no invariant by itself: a       *)
(* request gets its token from another one, through the channel.  IInv     *)
(* therefore speaks of the token in the channel and of the token of every  *)
(* request that holds one, and it needs OneOwner, because a request that   *)
(* has its token rejected would otherwise invalidate that of another.      *)
(*                                                                         *)
(* That the time of the last refresh only grows is an action property that *)
(* rests on two facts: the call that refreshes has found its clock ahead   *)
(* of lastRefresh, and no other call can move lastRefresh meanwhile, as it *)
(* is not in the lock.                                                     *)
(*                                                                         *)
(* That the vendors of 2ch.hk send every post that matches needs to be     *)
(* said of two offsets, the one stored and the one the refresh has         *)
(* reached: what the first has passed is sent (NoneLost), what only the    *)
(* second has passed is queued or in the hands of the task, and what       *)
(* neither has passed is still in the listing (NoneAhead), as the listing  *)
(* increases.  The order of what is sent, which may repeat what could not  *)
(* be stored, needs SentBefore: nothing sent is ahead of what may follow.  *)
(*                                                                         *)
(* That a subreddit is relayed without repetitions must hold of every copy *)
(* of the sent IDs: of the row, of the refresh and of each update in the   *)
(* queue, any of which may become the next row (Complete).  A copy may     *)
(* lack a thing only when it was absent from the listings for long, which  *)
(* the table and the ages agree on (AgesAgree).                            *)
(*                                                                         *)
(* That the votes asked for split the table at the share follows from      *)
(* their being the least that passes: the greatest number of votes below   *)
(* them does not.  That what is suggested has no row and is ranked best    *)
(* rests on the scores being integers, which is shown by induction over    *)
(* the number of terms, and on the list being read from its beginning, in  *)
(* order.                                                                  *)
(***************************************************************************)
EXTENDS Clients, Vendors, Numbers, SequencesExt, FiniteSetsExt, Functions, FiniteSetTheorems,
        SequenceTheorems, WellFoundedInduction, TLAPS

-----------------------------------------------------------------------------
(* The client of reddit.                                                   *)

\* What a request holds at each place, and the attempts it has left.
Shape ==
  \A r \in Requests :
    /\ pc[r] \in Holding => held[r] \in 0..issued
    /\ pc[r] = "asking" => held[r] # Empty
    /\ pc[r] \in {"authorizing", "asking", "sleeping"} => tries[r] <= MaxRetries

\* Wherever a token may come from, it was not rejected.
NotRejected ==
  /\ channel \notin rejected
  /\ \A r \in Requests : pc[r] \in Holding => held[r] \notin rejected

\* The inductive invariant of RedditClient.
IInv == TypeOK /\ Shape /\ OneOwner /\ NotRejected

\* The initial state satisfies the inductive invariant.
LEMMA Initially == Init => IInv
<1> USE RetriesAssumption DEF Init, Holding, Places, NoToken, Empty
<1>1. Init => TypeOK
  <2> SUFFICES ASSUME Init PROVE TypeOK OBVIOUS
  <2>1. fresh \in BOOLEAN /\ ended \subseteq Interruptible BY Zenon
  <2>2. issued \in Nat /\ channel \in {NoToken} \cup 0..issued /\ rejected \subseteq 1..issued OBVIOUS
  <2>3. pc \in [Requests -> Places] OBVIOUS
  <2>4. held \in [Requests -> {NoToken} \cup 0..issued] /\ tries \in [Requests -> 0..MaxRetries + 1] OBVIOUS
  <2>5. QED BY <2>1, <2>2, <2>3, <2>4 DEF TypeOK
<1>2. Init => Shape /\ OneOwner BY DEF Shape, OneOwner
<1>3. Init => NotRejected BY DEF NotRejected
<1>4. QED BY <1>1, <1>2, <1>3 DEF IInv

\* A request moves on with what it has, or its context ends.
LEMMA QuietStep ==
  ASSUME IInv, NEW r \in Requests,
         \/ Call(r) \/ GiveUpWaiting(r) \/ EndContext(r)
         \/ Answered(r) \/ RateLimited(r) \/ SleepInterrupted(r)
  PROVE  IInv'
<1> USE RetriesAssumption
  DEF IInv, Holding, Places, NoToken, Empty, Goto, siteVars, Call, GiveUpWaiting,
        EndContext, Answered, RateLimited, SleepInterrupted
<1>1. TypeOK' BY DEF TypeOK
<1>2. Shape' BY DEF TypeOK, Shape
<1>3. OneOwner' BY DEF TypeOK, OneOwner
<1>4. NotRejected' BY DEF TypeOK, NotRejected
<1>5. QED BY <1>1, <1>2, <1>3, <1>4

\* The token leaves the channel with the request that takes it.
LEMMA GetTokenStep == ASSUME IInv, NEW r \in Requests, GetToken(r) PROVE IInv'
<1> USE RetriesAssumption
  DEF IInv, Holding, Places, NoToken, Empty, Goto, Hold, GetToken, Rest, siteVars
<1>1. TypeOK' BY DEF TypeOK
<1>2. Shape' BY DEF TypeOK, Shape
<1>3. OneOwner' BY DEF TypeOK, OneOwner
<1>4. NotRejected' BY DEF TypeOK, NotRejected
<1>5. QED BY <1>1, <1>2, <1>3, <1>4

\* At the head of the loop the attempts are compared with their bound.
LEMMA TryStep == ASSUME IInv, NEW r \in Requests, Try(r) PROVE IInv'
<1> USE RetriesAssumption
  DEF IInv, Holding, Places, NoToken, Empty, Goto, Try, MoreAttempts, siteVars
<1>1. TypeOK' BY DEF TypeOK
<1>2. Shape' BY DEF TypeOK, Shape
<1>3. OneOwner' BY DEF TypeOK, OneOwner
<1>4. NotRejected' BY DEF TypeOK, NotRejected
<1>5. QED BY <1>1, <1>2, <1>3, <1>4

\* A new token is none of the rejected ones.
LEMMA AuthorizeStep == ASSUME IInv, NEW r \in Requests, Authorize(r) PROVE IInv'
<1> USE RetriesAssumption DEF IInv, Holding, Places, NoToken, Empty, Goto, Hold, Authorize
<1>1. TypeOK'
  <2>1. 0..issued \subseteq 0..issued' /\ issued' \in Nat /\ issued' \in 0..issued' BY DEF TypeOK
  <2>2. held' \in [Requests -> {NoToken} \cup 0..issued']
    <3>1. held \in [Requests -> {NoToken} \cup 0..issued'] BY <2>1 DEF TypeOK
    <3>2. held' = [held EXCEPT ![r] = issued'] \/ held' = [held EXCEPT ![r] = 0] OBVIOUS
    <3>3. 0 \in 0..issued' BY <2>1
    <3>4. QED BY <2>1, <3>1, <3>2, <3>3
  <2>3. channel' \in {NoToken} \cup 0..issued' /\ rejected' \subseteq 1..issued' BY <2>1 DEF TypeOK
  <2>4. pc' \in [Requests -> Places] BY DEF TypeOK
  <2>5. fresh' \in BOOLEAN BY Zenon DEF TypeOK
  <2>6. tries' \in [Requests -> 0..MaxRetries + 1] /\ ended' \subseteq Interruptible BY DEF TypeOK
  <2>7. QED BY <2>1, <2>2, <2>3, <2>4, <2>5, <2>6 DEF TypeOK
<1>2. Shape' BY DEF TypeOK, Shape
<1>3. OneOwner' BY DEF TypeOK, OneOwner
<1>4. NotRejected' BY DEF TypeOK, NotRejected
<1>5. QED BY <1>1, <1>2, <1>3, <1>4

\* Only the request itself held the token that is rejected.
LEMMA UnauthorizedStep == ASSUME IInv, NEW r \in Requests, Unauthorized(r) PROVE IInv'
<1> USE RetriesAssumption
  DEF IInv, Holding, Places, NoToken, Empty, Goto, Hold, Unauthorized, AfterRejection
<1>1. TypeOK'
  <2>1. held[r] \in 1..issued /\ tries[r] \in 0..MaxRetries BY DEF TypeOK, Shape
  <2>2. rejected' \subseteq 1..issued' BY <2>1 DEF TypeOK
  <2>3. tries' \in [Requests -> 0..MaxRetries + 1] BY <2>1 DEF TypeOK
  <2>4. 0 \in 0..issued BY DEF TypeOK
  <2>5. held' \in [Requests -> {NoToken} \cup 0..issued'] BY <2>4 DEF TypeOK
  <2>6. QED BY <2>2, <2>3, <2>5 DEF TypeOK
<1>2. Shape' BY DEF TypeOK, Shape
<1>3. OneOwner' BY DEF TypeOK, OneOwner
<1>4. NotRejected'
  <2>1. channel = NoToken /\ held[r] \in 1..issued BY DEF TypeOK, Shape, OneOwner
  <2>2. channel' \notin rejected' BY <2>1 DEF TypeOK, NotRejected
  <2>3. ASSUME NEW s \in Requests, pc'[s] \in Holding PROVE held'[s] \notin rejected'
    <3>1. s = r BY <2>3 DEF TypeOK, OneOwner
    <3>2. held'[s] = 0 BY <3>1 DEF TypeOK
    <3>3. QED BY <2>1, <3>2 DEF TypeOK
  <2>4. QED BY <2>2, <2>3 DEF NotRejected
<1>5. QED BY <1>1, <1>2, <1>3, <1>4

\* A rate limit costs an attempt.
LEMMA WakeStep == ASSUME IInv, NEW r \in Requests, Wake(r) PROVE IInv'
<1> USE RetriesAssumption
  DEF IInv, Holding, Places, NoToken, Empty, Goto, Wake, AttemptCounted, siteVars
<1>1. TypeOK' BY DEF TypeOK, Shape
<1>2. Shape' BY DEF TypeOK, Shape
<1>3. OneOwner' BY DEF TypeOK, OneOwner
<1>4. NotRejected' BY DEF TypeOK, NotRejected
<1>5. QED BY <1>1, <1>2, <1>3, <1>4

\* The token goes back to the channel, or is lost.
LEMMA DoneStep == ASSUME IInv, NEW r \in Requests, Done(r) PROVE IInv'
<1> USE RetriesAssumption DEF IInv, Holding, Places, NoToken, Empty, Goto, Hold, Done, siteVars
<1>1. TypeOK' BY DEF TypeOK, Shape
<1>2. Shape' BY DEF TypeOK, Shape
<1>3. OneOwner' BY DEF TypeOK, OneOwner
<1>4. NotRejected' BY DEF TypeOK, NotRejected
<1>5. QED BY <1>1, <1>2, <1>3, <1>4

\* Every step preserves IInv.
LEMMA Inductive == ASSUME IInv, [Next]_vars PROVE IInv'
<1>1. CASE Expire
  <2>1. TypeOK' /\ Shape' BY <1>1 DEF IInv, TypeOK, Shape, Expire
  <2>2. OneOwner' /\ NotRejected' BY <1>1 DEF IInv, OneOwner, NotRejected, Expire
  <2>3. QED BY <2>1, <2>2 DEF IInv
<1>2. ASSUME NEW r \in Requests, Call(r) \/ EndContext(r) \/ Step(r) PROVE IInv'
  BY <1>2, QuietStep, GetTokenStep, TryStep, AuthorizeStep, UnauthorizedStep, WakeStep, DoneStep
    DEF Step
<1>3. CASE UNCHANGED vars
  <2>1. TypeOK' /\ Shape' BY <1>3 DEF IInv, TypeOK, Shape, vars, siteVars
  <2>2. OneOwner' /\ NotRejected' BY <1>3 DEF IInv, OneOwner, NotRejected, vars, siteVars
  <2>3. QED BY <2>1, <2>2 DEF IInv
<1>4. QED BY <1>1, <1>2, <1>3 DEF Next

\* IInv is an invariant of the client.
THEOREM Invariance == Spec => []IInv
BY Initially, Inductive, PTL DEF Spec

\* The client's state is well typed: getToken hands out issued tokens only, and no
\* request starts more than MaxRetries + 1 attempts.
THEOREM TypeCorrect == Spec => []TypeOK
<1>1. IInv => TypeOK BY DEF IInv
<1>2. QED BY Invariance, <1>1, PTL

\* The token, and the field expiresAt that no lock protects, have one owner.
THEOREM Ownership == Spec => []OneOwner
<1>1. IInv => OneOwner BY DEF IInv
<1>2. QED BY Invariance, <1>1, PTL

\* No request sends a token that the site rejected, in whoever's hands it was.
THEOREM NoReuse == Spec => []RejectedNotReused
<1>1. IInv => RejectedNotReused BY DEF IInv, NotRejected, RejectedNotReused, Holding
<1>2. QED BY Invariance, <1>1, PTL

-----------------------------------------------------------------------------
(* The client of redditsave.                                               *)

\* The call that refreshes is ahead of the last refresh.
Ahead == \A c \in Calls : place[c] = "refreshing" => now[c] > lastRefresh

\* The inductive invariant of RedditsaveClient.
CookieInv == Cookie!TypeOK /\ Cookie!OneInside /\ Ahead

\* The initial state satisfies the inductive invariant.
LEMMA CookieInitially == Cookie!Init => CookieInv
<1> SUFFICES ASSUME Cookie!Init PROVE CookieInv OBVIOUS
<1> USE CookieAssumption
    DEF Cookie!ClockAssumption, Cookie!FreeAssumption, Cookie!Init, Cookie!Places,
        Cookie!Inside, Cookie!Free
<1>1. clock \in 0..MaxTime /\ mu \in Calls \cup {Cookie!Free} OBVIOUS
<1>2. lastRefresh \in {Cookie!Never} \cup 0..MaxTime /\ jar \in {Cookie!Never} \cup 0..MaxTime OBVIOUS
<1>3. place \in [Calls -> Cookie!Places] /\ now \in [Calls -> 0..MaxTime] OBVIOUS
<1>4. done \subseteq Cancelled OBVIOUS
<1>5. Cookie!OneInside BY DEF Cookie!OneInside
<1>6. Ahead BY DEF Ahead
<1>7. QED BY <1>1, <1>2, <1>3, <1>4, <1>5, <1>6 DEF CookieInv, Cookie!TypeOK

\* What no call holds may be taken by one, which is then the only one inside.
LEMMA LockStep ==
  ASSUME CookieInv, NEW c \in Calls,
         Cookie!Call(c) \/ Cookie!Lock(c) \/ Cookie!LockRefused(c) \/ Cookie!EndContext(c)
  PROVE  CookieInv'
<1> USE CookieAssumption DEF Cookie!ClockAssumption, Cookie!FreeAssumption,
    CookieInv, Cookie!Places, Cookie!Inside, Cookie!Free, Cookie!Goto, Cookie!ReadClock, Cookie!Call, Cookie!Lock, Cookie!LockRefused, Cookie!Interrupted, Cookie!EndContext
<1>1. Cookie!TypeOK' BY DEF Cookie!TypeOK
<1>2. Cookie!OneInside' BY DEF Cookie!TypeOK, Cookie!OneInside
<1>3. Ahead' BY DEF Cookie!TypeOK, Ahead
<1>4. QED BY <1>1, <1>2, <1>3

\* A call refreshes only when more time than the interval is over.
LEMMA CheckStep == ASSUME CookieInv, NEW c \in Calls, Cookie!Check(c) PROVE CookieInv'
<1> USE CookieAssumption
    DEF Cookie!ClockAssumption, Cookie!FreeAssumption, CookieInv, Cookie!Places,
        Cookie!Inside, Cookie!Free, Cookie!Goto, Cookie!Check
<1>1. Cookie!TypeOK' BY DEF Cookie!TypeOK
<1>2. Cookie!OneInside' BY DEF Cookie!TypeOK, Cookie!OneInside
<1>3. Ahead'
  <2> SUFFICES ASSUME NEW d \in Calls, place'[d] = "refreshing" PROVE now'[d] > lastRefresh' BY
    DEF Ahead
  <2>1. CASE d = c
    <3>1. ~Cookie!IsFresh(c) BY <2>1 DEF Cookie!TypeOK
    <3>2. now[c] \in Int /\ lastRefresh \in Int BY DEF Cookie!TypeOK, Cookie!Never
    <3>3. now[c] - lastRefresh > RefreshEvery BY <3>1, <3>2 DEF Cookie!IsFresh
    <3>4. QED BY <2>1, <3>2, <3>3
  <2>2. CASE d # c BY <2>2 DEF Cookie!TypeOK, Ahead
  <2>3. QED BY <2>1, <2>2
<1>4. QED BY <1>1, <1>2, <1>3

\* A refresh happens inside the lock, where the call is alone.
LEMMA RefreshStep == ASSUME CookieInv, NEW c \in Calls, Cookie!Refresh(c) PROVE CookieInv'
<1> USE CookieAssumption
    DEF Cookie!ClockAssumption, Cookie!FreeAssumption, CookieInv, Cookie!Places,
        Cookie!Inside, Cookie!Free, Cookie!Goto, Cookie!ReadClock, Cookie!Refresh,
        Cookie!Nested, Cookie!RefreshedAt
<1>1. Cookie!TypeOK' BY DEF Cookie!TypeOK
<1>2. Cookie!OneInside' BY DEF Cookie!TypeOK, Cookie!OneInside
<1>3. Ahead' BY DEF Cookie!TypeOK, Cookie!OneInside, Ahead
<1>4. QED BY <1>1, <1>2, <1>3

\* A call that leaves the lock, as every return of RefreshCookie does.
LEMMA LeaveStep ==
  ASSUME CookieInv, NEW c \in Calls, Cookie!Finish(c) \/ Cookie!Unlock(c)
  PROVE  CookieInv'
<1> USE CookieAssumption
    DEF Cookie!ClockAssumption, Cookie!FreeAssumption, CookieInv, Cookie!Places,
        Cookie!Inside, Cookie!Free, Cookie!Goto, Cookie!Finish, Cookie!Unlock
<1>1. Cookie!TypeOK' BY DEF Cookie!TypeOK
<1>2. Cookie!OneInside' BY DEF Cookie!TypeOK, Cookie!OneInside
<1>3. Ahead' BY DEF Cookie!TypeOK, Ahead
<1>4. QED BY <1>1, <1>2, <1>3

\* Every step preserves CookieInv.
LEMMA CookieInductive == ASSUME CookieInv, [Cookie!Next]_(Cookie!vars) PROVE CookieInv'
<1>1. CASE Cookie!Tick
  <2>1. Cookie!TypeOK' BY <1>1, CookieAssumption
    DEF Cookie!ClockAssumption, CookieInv, Cookie!TypeOK, Cookie!Tick
  <2>2. Cookie!OneInside' /\ Ahead' BY <1>1
    DEF CookieInv, Cookie!OneInside, Ahead, Cookie!Tick
  <2>3. QED BY <2>1, <2>2 DEF CookieInv
<1>2. ASSUME NEW c \in Calls, Cookie!Call(c) \/ Cookie!EndContext(c) \/ Cookie!Step(c) PROVE CookieInv'
  BY <1>2, LockStep, CheckStep, RefreshStep, LeaveStep DEF Cookie!Step
<1>3. CASE UNCHANGED Cookie!vars
  <2>1. Cookie!TypeOK' BY <1>3 DEF CookieInv, Cookie!TypeOK, Cookie!vars
  <2>2. Cookie!OneInside' /\ Ahead' BY <1>3
    DEF CookieInv, Cookie!OneInside, Ahead, Cookie!vars
  <2>3. QED BY <2>1, <2>2 DEF CookieInv
<1>4. QED BY <1>1, <1>2, <1>3 DEF Cookie!Next

\* A refresh is later than the one before, and nothing else moves its time.
LEMMA LaterRefresh == ASSUME CookieInv, Cookie!Next PROVE lastRefresh' >= lastRefresh
<1>1. lastRefresh \in Int BY CookieAssumption
  DEF Cookie!ClockAssumption, CookieInv, Cookie!TypeOK, Cookie!Never
<1>2. ASSUME NEW c \in Calls, Cookie!Refresh(c) PROVE lastRefresh' >= lastRefresh
  <2>1. lastRefresh' = now[c] /\ now[c] \in Int BY <1>2
    DEF Cookie!Refresh, Cookie!RefreshedAt, CookieInv, Cookie!TypeOK
  <2>2. now[c] > lastRefresh BY <1>2 DEF Cookie!Refresh, CookieInv, Ahead
  <2>3. QED BY <1>1, <2>1, <2>2
<1>3. CASE UNCHANGED lastRefresh BY <1>1, <1>3
<1>4. QED
  BY <1>2, <1>3
 
    DEF Cookie!Next, Cookie!Tick, Cookie!Step, Cookie!Call, Cookie!EndContext, Cookie!Lock,
        Cookie!LockRefused, Cookie!Check, Cookie!Finish, Cookie!Unlock

\* CookieInv is an invariant of the client.
THEOREM CookieInvariance == Cookie!Spec => []CookieInv
BY CookieInitially, CookieInductive, PTL DEF Cookie!Spec

\* The jar and the field lastRefresh are used in the lock only, although ResolveURL
\* calls itself and returns through two deferred unlocks.
THEOREM Exclusion == Cookie!Spec => []Cookie!OneInside
<1>1. CookieInv => Cookie!OneInside BY DEF CookieInv
<1>2. QED BY CookieInvariance, <1>1, PTL

\* No call sets the time of the last refresh back, however long it waited for the
\* lock with the time it had read before.
THEOREM Monotonicity == Cookie!Spec => RefreshTimeGrows
<1>1. CookieInv /\ [Cookie!Next]_(Cookie!vars) => [lastRefresh' >= lastRefresh]_(Cookie!vars)
  BY LaterRefresh, Zenon
<1>2. QED
  BY CookieInvariance, <1>1, PTL DEF Cookie!Spec, RefreshTimeGrows, Cookie!RefreshTimeGrows

-----------------------------------------------------------------------------
(* Side by side.                                                           *)

\* A step of the composition is one of a client or leaves it alone.
LEMMA StepsOfClients ==
  ASSUME [ClientsNext]_clientVars
  PROVE  [Next]_vars /\ [Cookie!Next]_(Cookie!vars)
BY
  DEF ClientsNext, OfToken, OfCookie, clientVars, tokenVars, cookieVars, vars, siteVars, Cookie!vars

\* Both invariants hold of the composition.
THEOREM ClientsInvariance == ClientsSpec => [](IInv /\ CookieInv)
<1>1. ClientsInit => IInv /\ CookieInv BY Initially, CookieInitially DEF ClientsInit
<1>2. IInv /\ CookieInv /\ [ClientsNext]_clientVars => IInv' /\ CookieInv'
  BY StepsOfClients, Inductive, CookieInductive
<1>3. QED BY <1>1, <1>2, PTL DEF ClientsSpec

\* Both clients are well typed, with the bound on attempts, and one call at a time uses
\* the jar.
THEOREM BothSafe == ClientsSpec => []ClientsInvariant
<1>1. IInv /\ CookieInv => ClientsInvariant BY DEF IInv, CookieInv, ClientsInvariant
<1>2. QED BY ClientsInvariance, <1>1, PTL

\* Whoever waits for the lock with an old time does not set the refresh back.
THEOREM RefreshesForward == ClientsSpec => RefreshTimeGrows
<1>1. CookieInv /\ [ClientsNext]_clientVars => [lastRefresh' >= lastRefresh]_(Cookie!vars)
  BY StepsOfClients, LaterRefresh, Zenon
<1>2. QED
  BY ClientsInvariance, <1>1, PTL DEF ClientsSpec, RefreshTimeGrows, Cookie!RefreshTimeGrows

-----------------------------------------------------------------------------
(* Sets and lists of numbers.                                              *)

\* A set of naturals that has a member has a least one.
LEMMA LeastExists ==
  ASSUME NEW S, S \in SUBSET Nat, S # {}
  PROVE  \E x \in S : \A y \in S : x <= y
<1>1. PICK x \in S : \A y \in S : ~ (<<y, x>> \in OpToRel(<, Nat))
  BY NatLessThanWellFounded, WFMin
<1>2. \A y \in S : ~(y < x) BY <1>1 DEF OpToRel
<1> QED BY <1>2

\* Min of a set of naturals is a member of it, and no member is less.
LEMMA OfMin ==
  ASSUME NEW S, S \in SUBSET Nat, S # {}
  PROVE  Min(S) \in S /\ \A y \in S : Min(S) <= y
BY LeastExists DEF Min

\* A bounded set of naturals that has a member has a greatest one.
LEMMA GreatestExists ==
  ASSUME NEW S, NEW M \in Nat, S \in SUBSET (0..M), S # {}
  PROVE  \E x \in S : \A y \in S : y <= x
<1> DEFINE D == {n \in Nat : \E x \in S : n = M - x}
<1>1. D # {}
  <2>1. PICK x \in S : TRUE OBVIOUS
  <2>2. M - x \in Nat OBVIOUS
  <2> QED BY <2>2
<1>2. D \in SUBSET Nat OBVIOUS
<1>3. PICK d \in D : \A e \in D : d <= e
  <2> HIDE DEF D
  <2> QED BY <1>1, <1>2, LeastExists
<1>4. PICK x \in S : d = M - x BY <1>3
<1>5. ASSUME NEW y \in S PROVE y <= x
  <2>1. M - y \in Nat /\ x \in Int /\ y \in Int /\ d \in Nat BY <1>2, <1>3
  <2>2. d <= M - y BY <1>3, <2>1
  <2> HIDE DEF D
  <2> QED BY <1>4, <2>1, <2>2
<1> QED BY <1>5

\* A number is one of the two it is the lesser of.
LEMMA MinOfTwo ==
  ASSUME NEW a \in Int, NEW b \in Int
  PROVE  Min({a, b}) = IF a <= b THEN a ELSE b
<1> DEFINE m == IF a <= b THEN a ELSE b
<1>1. m \in {a, b} /\ \A y \in {a, b} : m <= y OBVIOUS
<1>2. \A x \in {a, b} : (\A y \in {a, b} : x <= y) => x = m OBVIOUS
<1> QED BY <1>1, <1>2 DEF Min

\* A greater number has a greater rank.
LEMMA RankGrows ==
  ASSUME NEW S, S \in SUBSET Int, IsFiniteSet(S), NEW m \in S, NEW n \in S, m < n
  PROVE  Rank(S, m) < Rank(S, n)
<1> DEFINE Below(k) == {x \in S : x <= k}
<1> m \in Int /\ n \in Int OBVIOUS
<1>1. IsFiniteSet(Below(n)) BY FS_Subset
<1>2. Below(m) \subseteq Below(n)
  <2> SUFFICES ASSUME NEW x \in S, x <= m PROVE x <= n OBVIOUS
  <2> x \in Int OBVIOUS
  <2> QED OBVIOUS
<1>3. n \in Below(n) /\ n \notin Below(m) OBVIOUS
<1>4. Cardinality(Below(m)) < Cardinality(Below(n))
  <2> HIDE DEF Below
  <2> QED BY <1>1, <1>2, <1>3, FS_Subset, FS_CardinalityType
<1> QED BY <1>4 DEF Rank

\* Ranks in a finite set of numbers are its positions.
LEMMA RankType ==
  ASSUME NEW S, S \in SUBSET Int, IsFiniteSet(S), NEW n \in S
  PROVE  Rank(S, n) \in 1..Cardinality(S)
<1> DEFINE Low == {x \in S : x <= n}
<1> n \in Int OBVIOUS
<1>1. Low \subseteq S /\ n \in Low OBVIOUS
<1>2. IsFiniteSet(Low) /\ Cardinality(Low) <= Cardinality(S)
  <2> HIDE DEF Low
  <2> QED BY <1>1, FS_Subset
<1>3. Cardinality(Low) \in Nat /\ Cardinality(S) \in Nat
  <2> HIDE DEF Low
  <2> QED BY <1>2, FS_CardinalityType
<1>4. Cardinality(Low) # 0
  <2> HIDE DEF Low
  <2> QED BY <1>1, <1>2, FS_EmptySet
<1> HIDE DEF Low
<1>5. Cardinality(Low) \in 1..Cardinality(S) BY <1>2, <1>3, <1>4
<1> QED BY <1>5 DEF Rank, Low

\* Every place of the order is taken, by one number.
LEMMA RankOnto ==
  ASSUME NEW S, S \in SUBSET Int, IsFiniteSet(S), NEW i \in 1..Cardinality(S)
  PROVE  \E n \in S : Rank(S, n) = i
<1> DEFINE f == [n \in S |-> Rank(S, n)]
<1> DEFINE T == 1..Cardinality(S)
<1>1. Cardinality(S) \in Nat BY FS_CardinalityType
<1>2. IsFiniteSet(T) /\ Cardinality(T) = Cardinality(S) BY <1>1, FS_Interval
<1>3. f \in [S -> T] BY RankType
<1>4. \A m, n \in S : f[m] = f[n] => m = n
  <2> SUFFICES ASSUME NEW m \in S, NEW n \in S, m # n PROVE f[m] # f[n] OBVIOUS
  <2>1. m \in Int /\ n \in Int OBVIOUS
  <2>2. f[m] \in Int /\ f[n] \in Int BY <1>3, <1>1
  <2>3. ASSUME m < n PROVE f[m] < f[n] BY <2>3, RankGrows
  <2>4. ASSUME n < m PROVE f[n] < f[m] BY <2>4, RankGrows
  <2> HIDE DEF f
  <2> QED BY <2>1, <2>2, <2>3, <2>4
<1>5. f \in Injection(S, T) BY <1>3, <1>4 DEF Injection, IsInjective
<1>6. f \in Surjection(S, T)
  <2> HIDE DEF f, T
  <2> QED BY <1>2, <1>5, FS_Injection
<1> QED BY <1>6 DEF Surjection

\* The list has every member at its rank.
LEMMA IncreasingPlace ==
  ASSUME NEW S, S \in SUBSET Int, IsFiniteSet(S), NEW i \in 1..Cardinality(S)
  PROVE  Increasing(S)[i] \in S /\ Rank(S, Increasing(S)[i]) = i
<1>1. Increasing(S)[i] = CHOOSE n \in S : Rank(S, n) = i BY DEF Increasing
<1> QED BY <1>1, RankOnto

\* The list has as many elements as the set, each a member of it.
LEMMA IncreasingType ==
  ASSUME NEW S, S \in SUBSET Int, IsFiniteSet(S)
  PROVE  /\ Increasing(S) \in Seq(S)
         /\ DOMAIN Increasing(S) = 1..Cardinality(S) /\ Len(Increasing(S)) = Cardinality(S)
<1>1. Cardinality(S) \in Nat BY FS_CardinalityType
<1>2. \A i \in 1..Cardinality(S) : Increasing(S)[i] \in S BY IncreasingPlace
<1>3. DOMAIN Increasing(S) = 1..Cardinality(S) BY DEF Increasing
<1>4. Increasing(S) \in [1..Cardinality(S) -> S] BY <1>2 DEF Increasing
<1> HIDE DEF Increasing
<1> QED BY <1>1, <1>3, <1>4

\* The list increases.
LEMMA IncreasingOrder ==
  ASSUME NEW S, S \in SUBSET Int, IsFiniteSet(S),
         NEW i \in 1..Cardinality(S), NEW j \in 1..Cardinality(S), i < j
  PROVE  Increasing(S)[i] < Increasing(S)[j]
<1> DEFINE m == Increasing(S)[i]
<1> DEFINE n == Increasing(S)[j]
<1>1. m \in S /\ n \in S /\ Rank(S, m) = i /\ Rank(S, n) = j BY IncreasingPlace
<1> HIDE DEF m, n
<1>2. m \in Int /\ n \in Int BY <1>1
<1>3. m # n BY <1>1
<1>4. ~(n < m)
  <2> SUFFICES ASSUME n < m PROVE FALSE OBVIOUS
  <2>1. j < i BY <1>1, RankGrows
  <2> QED BY <2>1, FS_CardinalityType
<1> QED BY <1>2, <1>3, <1>4 DEF m, n

\* Every member of the set is in the list.
LEMMA IncreasingHolds ==
  ASSUME NEW S, S \in SUBSET Int, IsFiniteSet(S), NEW n \in S
  PROVE  \E i \in 1..Cardinality(S) : Increasing(S)[i] = n
<1> DEFINE i == Rank(S, n)
<1> DEFINE m == Increasing(S)[i]
<1>1. i \in 1..Cardinality(S) BY RankType
<1>2. m \in S /\ Rank(S, m) = i BY <1>1, IncreasingPlace
<1>3. m \in Int /\ n \in Int BY <1>2
<1>4. ~(n < m) /\ ~(m < n)
  <2>1. ASSUME n < m PROVE FALSE
    <3>1. i < i BY <2>1, <1>2, RankGrows
    <3> QED BY <3>1, <1>1, FS_CardinalityType
  <2>2. ASSUME m < n PROVE FALSE
    <3>1. i < i BY <2>2, <1>2, RankGrows
    <3> QED BY <3>1, <1>1, FS_CardinalityType
  <2> QED BY <2>1, <2>2
<1>5. m = n
  <2> HIDE DEF m
  <2> QED BY <1>3, <1>4
<1> QED BY <1>1, <1>5

\* The list increases: no element comes twice.
Grows(s) == \A i, j \in DOMAIN s : i < j => s[i] < s[j]

\* The members of a sequence are of its type.
LEMMA OfSeq == ASSUME NEW S, NEW s \in Seq(S) PROVE ToSet(s) \subseteq S
BY ElementOfSeq, LenProperties DEF ToSet

\* A sequence without its head has the rest of the members.
LEMMA OfTail ==
  ASSUME NEW S, NEW s \in Seq(S), s # <<>>
  PROVE  /\ Head(s) \in S /\ Head(s) \in ToSet(s)
         /\ Tail(s) \in Seq(S) /\ Len(Tail(s)) < Len(s) /\ ToSet(Tail(s)) \subseteq ToSet(s)
         /\ \A x \in ToSet(s) : x = Head(s) \/ x \in ToSet(Tail(s))
<1>1. Len(s) \in Nat \ {0} /\ DOMAIN s = 1..Len(s) BY EmptySeq, LenProperties
<1>2. Head(s) = s[1] /\ s[1] \in S BY <1>1, ElementOfSeq
<1>3. /\ Tail(s) \in Seq(S) /\ Len(Tail(s)) = Len(s) - 1 /\ DOMAIN Tail(s) = 1..Len(s) - 1
      /\ \A i \in 1..Len(s) - 1 : Tail(s)[i] = s[i + 1]
  BY <1>1, HeadTailProperties, LenProperties
<1>4. ToSet(Tail(s)) \subseteq ToSet(s)
  <2> SUFFICES ASSUME NEW i \in 1..Len(s) - 1 PROVE Tail(s)[i] \in ToSet(s) BY <1>3 DEF ToSet
  <2>1. i + 1 \in 1..Len(s) BY <1>1
  <2> QED BY <1>1, <1>3, <2>1 DEF ToSet
<1>5. \A x \in ToSet(s) : x = Head(s) \/ x \in ToSet(Tail(s))
  <2> SUFFICES ASSUME NEW i \in 1..Len(s), i # 1 PROVE s[i] \in ToSet(Tail(s))
    BY <1>1, <1>2 DEF ToSet
  <2>1. i - 1 \in 1..Len(s) - 1 /\ (i - 1) + 1 = i BY <1>1
  <2>2. Tail(s)[i - 1] = s[i] BY <1>3, <2>1
  <2> QED BY <1>3, <2>1, <2>2 DEF ToSet
<1>6. Head(s) \in ToSet(s)
  <2>1. 1 \in DOMAIN s BY <1>1
  <2> QED BY <1>2, <2>1 DEF ToSet
<1> QED BY <1>1, <1>2, <1>3, <1>4, <1>5, <1>6

\* The tail of an increasing list increases, and is ahead of the head.
LEMMA GrowsTail ==
  ASSUME NEW s \in Seq(Int), s # <<>>, Grows(s)
  PROVE  Grows(Tail(s)) /\ \A x \in ToSet(Tail(s)) : x > Head(s)
<1>1. Len(s) \in Nat \ {0} /\ DOMAIN s = 1..Len(s) BY EmptySeq, LenProperties
<1>2. Head(s) = s[1] /\ s[1] \in Int BY <1>1, ElementOfSeq
<1>3. /\ DOMAIN Tail(s) = 1..Len(s) - 1
      /\ \A i \in 1..Len(s) - 1 : Tail(s)[i] = s[i + 1]
  BY <1>1, HeadTailProperties, LenProperties
<1>4. Grows(Tail(s))
  <2> SUFFICES ASSUME NEW i \in 1..Len(s) - 1, NEW j \in 1..Len(s) - 1, i < j
               PROVE  s[i + 1] < s[j + 1]
    BY <1>3 DEF Grows
  <2>1. i + 1 \in 1..Len(s) /\ j + 1 \in 1..Len(s) /\ i + 1 < j + 1 BY <1>1
  <2> QED BY <1>1, <2>1 DEF Grows
<1>5. \A x \in ToSet(Tail(s)) : x > Head(s)
  <2> SUFFICES ASSUME NEW i \in 1..Len(s) - 1 PROVE s[1] < s[i + 1]
    BY <1>1, <1>2, <1>3, ElementOfSeq DEF ToSet
  <2>1. i + 1 \in 1..Len(s) /\ 1 \in 1..Len(s) /\ 1 < i + 1 BY <1>1
  <2> QED BY <1>1, <2>1 DEF Grows
<1> QED BY <1>4, <1>5

\* Appending adds one member.
LEMMA OfAppend ==
  ASSUME NEW S, NEW s \in Seq(S), NEW x \in S
  PROVE  /\ Append(s, x) \in Seq(S) /\ Len(Append(s, x)) = Len(s) + 1
         /\ ToSet(Append(s, x)) = ToSet(s) \cup {x}
<1>1. Len(s) \in Nat /\ DOMAIN s = 1..Len(s) BY LenProperties
<1>2. /\ Append(s, x) \in Seq(S) /\ Len(Append(s, x)) = Len(s) + 1
      /\ \A i \in 1..Len(s) : Append(s, x)[i] = s[i]
      /\ Append(s, x)[Len(s) + 1] = x
  BY AppendProperties
<1>3. DOMAIN Append(s, x) = 1..Len(s) + 1 BY <1>2, LenProperties
<1>4. ToSet(Append(s, x)) \subseteq ToSet(s) \cup {x}
  <2> SUFFICES ASSUME NEW i \in 1..Len(s) + 1, i # Len(s) + 1 PROVE Append(s, x)[i] \in ToSet(s)
    BY <1>2, <1>3 DEF ToSet
  <2>1. i \in 1..Len(s) BY <1>1
  <2> QED BY <1>1, <1>2, <2>1 DEF ToSet
<1>5. ToSet(s) \subseteq ToSet(Append(s, x))
  <2> SUFFICES ASSUME NEW i \in 1..Len(s) PROVE s[i] \in ToSet(Append(s, x)) BY <1>1 DEF ToSet
  <2>1. i \in 1..Len(s) + 1 BY <1>1
  <2> QED BY <1>2, <1>3, <2>1 DEF ToSet
<1>6. x \in ToSet(Append(s, x))
  <2>1. Len(s) + 1 \in 1..Len(s) + 1 BY <1>1
  <2> QED BY <1>2, <1>3, <2>1 DEF ToSet
<1> QED BY <1>2, <1>4, <1>5, <1>6

\* An increasing list increases with a greater number at its end.
LEMMA GrowsAppend ==
  ASSUME NEW s \in Seq(Int), NEW x \in Int, Grows(s), \A y \in ToSet(s) : y < x
  PROVE  Grows(Append(s, x))
<1>1. Len(s) \in Nat /\ DOMAIN s = 1..Len(s) BY LenProperties
<1>2. /\ Append(s, x) \in Seq(Int) /\ Len(Append(s, x)) = Len(s) + 1
      /\ \A i \in 1..Len(s) : Append(s, x)[i] = s[i]
      /\ Append(s, x)[Len(s) + 1] = x
  BY AppendProperties
<1>3. DOMAIN Append(s, x) = 1..Len(s) + 1 BY <1>2, LenProperties
<1> SUFFICES ASSUME NEW i \in 1..Len(s) + 1, NEW j \in 1..Len(s) + 1, i < j
             PROVE  Append(s, x)[i] < Append(s, x)[j]
  BY <1>3 DEF Grows
<1>4. i \in 1..Len(s) BY <1>1
<1>5. Append(s, x)[i] = s[i] /\ s[i] \in ToSet(s) BY <1>1, <1>2, <1>4 DEF ToSet
<1>6. CASE j = Len(s) + 1 BY <1>2, <1>5, <1>6
<1>7. CASE j # Len(s) + 1
  <2>1. j \in 1..Len(s) BY <1>1, <1>7
  <2> QED BY <1>1, <1>2, <1>4, <1>5, <2>1 DEF Grows
<1> QED BY <1>6, <1>7

\* Increasing(S) is an increasing list of exactly the members of S.
LEMMA OfIncreasing ==
  ASSUME NEW S, S \in SUBSET Int, IsFiniteSet(S)
  PROVE  /\ Increasing(S) \in Seq(S) /\ Grows(Increasing(S)) /\ ToSet(Increasing(S)) = S
<1>1. Increasing(S) \in Seq(S) /\ DOMAIN Increasing(S) = 1..Cardinality(S) BY IncreasingType
<1>2. Grows(Increasing(S)) BY <1>1, IncreasingOrder DEF Grows
<1>3. ToSet(Increasing(S)) \subseteq S BY <1>1, OfSeq
<1>4. S \subseteq ToSet(Increasing(S)) BY <1>1, IncreasingHolds DEF ToSet
<1> QED BY <1>1, <1>2, <1>3, <1>4

\* A list of a finite set holds all of it.
LEMMA OfSetToSeqs ==
  ASSUME NEW S, IsFiniteSet(S), NEW s \in SetToSeqs(S)
  PROVE  s \in Seq(S) /\ DOMAIN s = 1..Cardinality(S) /\ ToSet(s) = S
<1> DEFINE T == 1..Cardinality(S)
<1>1. Cardinality(S) \in Nat BY FS_CardinalityType
<1>2. IsFiniteSet(T) /\ Cardinality(T) = Cardinality(S) BY <1>1, FS_Interval
<1>3. s \in [T -> S] /\ \A i, j \in T : i # j => s[i] # s[j] BY DEF SetToSeqs
<1>4. s \in Injection(T, S) BY <1>3 DEF Injection, IsInjective
<1>5. s \in Surjection(T, S)
  <2> HIDE DEF T
  <2> QED BY <1>2, <1>4, FS_Injection
<1>6. s \in Seq(S) BY <1>1, <1>3
<1>7. ToSet(s) = S BY <1>3, <1>5 DEF Surjection, ToSet
<1> QED BY <1>3, <1>6, <1>7

\* A finite set has a finite image.
LEMMA FiniteImage ==
  ASSUME NEW S, IsFiniteSet(S), NEW f, DOMAIN f = S, f = [x \in S |-> f[x]]
  PROVE  IsFiniteSet({f[x] : x \in S}) /\ Cardinality({f[x] : x \in S}) \in Nat
<1> DEFINE T == {f[x] : x \in S}
<1>1. f \in [S -> T] OBVIOUS
<1>2. f \in Surjection(S, T) BY <1>1 DEF Surjection
<1>3. IsFiniteSet(T)
  <2> HIDE DEF T
  <2> QED BY <1>2, FS_Surjection
<1> QED BY <1>3, FS_CardinalityType

\* Induction over the naturals for a set of them.
LEMMA NaturalInduction ==
  ASSUME NEW S, 0 \in S, \A n \in Nat : n \in S => n + 1 \in S
  PROVE  Nat \subseteq S
<1> DEFINE T == Nat \ S
<1> SUFFICES ASSUME T # {} PROVE FALSE OBVIOUS
<1>1. PICK n \in T : \A m \in T : ~(<<m, n>> \in OpToRel(<, Nat))
  BY NatLessThanWellFounded, WFMin
<1>2. \A m \in T : m < n => <<m, n>> \in OpToRel(<, Nat) BY DEF OpToRel
<1>3. \A m \in T : ~(m < n) BY <1>1, <1>2, Zenon
<1>4. n \in Nat /\ n # 0 OBVIOUS
<1>5. n - 1 \in Nat /\ n - 1 < n /\ (n - 1) + 1 = n BY <1>4
<1>6. n - 1 \in S BY <1>3, <1>5
<1> QED BY <1>5, <1>6

\* Adding up integers over a finite domain gives an integer.
LEMMA FoldIsInt ==
  ASSUME NEW S, IsFiniteSet(S), NEW terms \in [S -> Int]
  PROVE  FoldFunction(+, 0, terms) \in Int
<1> DEFINE One(s) == CHOOSE x \in s : TRUE
           Fold(g, s) == IF s = {} THEN 0 ELSE terms[One(s)] + g[s \ {One(s)}]
           UpTo(n) == {s \in SUBSET S : Cardinality(s) <= n}
           Solves(g, n) == g = [s \in UpTo(n) |-> Fold(g, s)]
           Solvable == {n \in Nat : \E g : Solves(g, n)}
<1>1. \A s \in SUBSET S : /\ Cardinality(s) \in Nat
                          /\ s # {} => /\ One(s) \in s /\ s \ {One(s)} \in SUBSET S
                                       /\ Cardinality(s \ {One(s)}) = Cardinality(s) - 1
  <2> SUFFICES ASSUME NEW s \in SUBSET S
               PROVE  /\ Cardinality(s) \in Nat
                      /\ s # {} => /\ One(s) \in s /\ s \ {One(s)} \in SUBSET S
                                   /\ Cardinality(s \ {One(s)}) = Cardinality(s) - 1
    OBVIOUS
  <2>1. IsFiniteSet(s) BY FS_Subset
  <2>2. s # {} => One(s) \in s OBVIOUS
  <2> HIDE DEF One
  <2> QED BY <2>1, <2>2, FS_CardinalityType, FS_RemoveElement
<1>2. \A s \in SUBSET S : Cardinality(s) = 0 => s = {} BY FS_Subset, FS_EmptySet
<1>13. \A s \in SUBSET S : Cardinality(s) \in Nat BY <1>1
<1>14. \A s \in UpTo(0) : s = {}
  <2> SUFFICES ASSUME NEW s \in SUBSET S, Cardinality(s) <= 0 PROVE s = {} OBVIOUS
  <2>1. Cardinality(s) = 0 BY <1>13
  <2> QED BY <1>2, <2>1
<1>3. 0 \in Solvable
  <2> DEFINE g == [s \in UpTo(0) |-> 0]
  <2>2. Solves(g, 0) BY <1>14
  <2> QED BY <2>2
<1>4. ASSUME NEW n \in Nat, n \in Solvable PROVE n + 1 \in Solvable
  <2>1. PICK g : Solves(g, n) BY <1>4
  <2> DEFINE h == [s \in UpTo(n + 1) |-> Fold(g, s)]
  <2>2. \A s \in UpTo(n) : s \in UpTo(n + 1)
    <3> SUFFICES ASSUME NEW s \in SUBSET S, Cardinality(s) <= n PROVE Cardinality(s) <= n + 1 OBVIOUS
    <3>1. Cardinality(s) \in Nat BY <1>13
    <3> QED BY <3>1
  <2>3. \A s \in UpTo(n) : h[s] = g[s] BY <2>1, <2>2
  <2>4. \A s \in UpTo(n + 1) : s # {} => s \ {One(s)} \in UpTo(n)
    <3> HIDE DEF One
    <3> QED BY <1>1
  <2>5. \A s \in UpTo(n + 1) : h[s] = Fold(h, s)
    <3> SUFFICES ASSUME NEW s \in UpTo(n + 1) PROVE h[s] = Fold(h, s) OBVIOUS
    <3>1. h[s] = Fold(g, s) OBVIOUS
    <3>2. s # {} => h[s \ {One(s)}] = g[s \ {One(s)}] BY <2>3, <2>4
    <3> HIDE DEF h, UpTo, One
    <3> QED BY <3>1, <3>2
  <2>6. h = [s \in UpTo(n + 1) |-> h[s]] OBVIOUS
  <2>7. \E f : Solves(f, n + 1)
    <3> HIDE DEF h, UpTo, Fold
    <3>1. h = [s \in UpTo(n + 1) |-> Fold(h, s)] BY <2>5, <2>6
    <3> QED BY <3>1
  <2> HIDE DEF Solves
  <2> QED BY <2>7
<1>5. Nat \subseteq Solvable
  <2> HIDE DEF Solvable
  <2> QED BY <1>3, <1>4, NaturalInduction
<1> DEFINE iter == CHOOSE g : g = [s \in SUBSET S |-> Fold(g, s)]
<1>6. iter = [s \in SUBSET S |-> Fold(iter, s)]
  <2>1. Cardinality(S) \in Nat BY FS_CardinalityType
  <2>2. UpTo(Cardinality(S)) = SUBSET S BY <2>1, FS_Subset
  <2>3. PICK g : Solves(g, Cardinality(S)) BY <1>5, <2>1
  <2>4. g = [s \in SUBSET S |-> Fold(g, s)] BY <2>2, <2>3
  <2> QED BY <2>4
<1>7. FoldFunction(+, 0, terms) = iter[S]
  <2>1. DOMAIN terms = S OBVIOUS
  <2> QED BY <2>1 DEF FoldFunction, FoldFunctionOnSet, MapThenFoldSet
<1> DEFINE Good == {n \in Nat : \A s \in UpTo(n) : iter[s] \in Int}
<1> HIDE DEF iter
<1>8. \A s \in SUBSET S : iter[s] = Fold(iter, s) BY <1>6
<1>9. 0 \in Good
  <2>1. ASSUME NEW s \in UpTo(0) PROVE iter[s] = 0
    <3>1. s = {} BY <1>14
    <3> QED BY <1>8, <3>1
  <2> QED BY <2>1
<1>10. ASSUME NEW n \in Nat, n \in Good PROVE n + 1 \in Good
  <2> SUFFICES ASSUME NEW s \in UpTo(n + 1) PROVE iter[s] \in Int OBVIOUS
  <2>1. iter[s] = Fold(iter, s) BY <1>8
  <2>2. CASE s = {} BY <2>1, <2>2
  <2>3. CASE s # {}
    <3>1. One(s) \in S /\ s \ {One(s)} \in UpTo(n)
      <4> HIDE DEF One
      <4> QED BY <1>1, <2>3
    <3>2. iter[s \ {One(s)}] \in Int BY <1>10, <3>1
    <3> HIDE DEF One, UpTo
    <3> QED BY <2>1, <2>3, <3>1, <3>2
  <2> QED BY <2>2, <2>3
<1>11. Nat \subseteq Good
  <2> HIDE DEF Good
  <2> QED BY <1>9, <1>10, NaturalInduction
<1>12. Cardinality(S) \in Nat /\ S \in UpTo(Cardinality(S)) BY FS_CardinalityType
<1> QED BY <1>7, <1>11, <1>12

-----------------------------------------------------------------------------
(* The vendors of 2ch.hk.                                                  *)

\* A post below the offset, or at it in a catalog.
Past(o, p) == IF kind = "catalog" THEN p <= o ELSE p < o

\* An offset passes only what is published by.
Reached(o) == IF kind = "catalog" THEN o <= published ELSE o <= published + 1

\* Neither offset is ahead of what is published.
OffsetsReached == Reached(stored) /\ Reached(offset) /\ read \subseteq 1..published

\* What is sent is in order, and passed by the offset stored unless that failed, ...
SentPassed ==
  /\ Dvach!InOrder
  /\ \A i \in DOMAIN sent : Past(stored, sent[i]) \/ i \in unstored
  /\ \A p \in ToSet(sent) : p <= published

\* ... and not ahead of anything that the task may yet send.
SentBefore ==
  \A p \in ToSet(sent) :
    /\ \A q \in Matching \cap Dvach!Existing : ~Past(stored, q) => p <= q
    /\ \A q \in ToSet(queue) : p <= q
    /\ \A l \in ToSet(listing) \cap Matching : ~Past(offset, l) => p <= l

\* The post sent last.
Newest == sent[Len(sent)]

\* What the task has sent and not stored lies between the two offsets, before the queue.
InHands ==
  storing => /\ sent # <<>> /\ ~Past(stored, Newest) /\ Past(offset, Newest)
             /\ \A q \in ToSet(queue) : Newest < q

\* What is queued is in order, between the offset stored and that of the refresh.
QueuePassed ==
  /\ refreshing => stored <= offset
  /\ Grows(queue)
  /\ \A p \in ToSet(queue) : ~Past(stored, p) /\ Past(offset, p)

\* What is yet to be looked at is in order, and not behind the offset of a thread.
ListingAhead ==
  /\ Grows(listing)
  /\ \A p \in ToSet(listing) : p <= published /\ (kind = "thread" => p >= offset)

\* A vendor that does not refresh holds nothing, nor does its task.
Resting == ~refreshing => listing = <<>> /\ queue = <<>> /\ ~storing

\* What matches and was passed by is sent, or on its way, ...
NoneLost ==
  \A p \in Matching \cap Dvach!Existing :
    /\ Past(stored, p) => p \in ToSet(sent)
    /\ refreshing /\ Past(offset, p) =>
         Past(stored, p) \/ p \in ToSet(queue) \/ (storing /\ p = Newest)

\* ... and what was not is still to come.
NoneAhead ==
  \A p \in Matching \cap Dvach!Existing : \A l \in ToSet(listing) :
    ~Past(offset, p) /\ p < l => p \in ToSet(listing)

\* The inductive invariant of DvachVendors.
DvachInv ==
  /\ Dvach!TypeOK /\ OffsetsReached /\ SentPassed /\ SentBefore /\ InHands /\ QueuePassed
  /\ ListingAhead /\ Resting /\ NoneLost /\ NoneAhead

\* The operators of the libraries are the same in every instance.
LEMMA DvachOperators ==
  /\ \A s : Dvach!ToSet(s) = ToSet(s) /\ Dvach!Last(s) = s[Len(s)]
  /\ \A S : Dvach!SetToSeqs(S) = SetToSeqs(S) /\ Dvach!Increasing(S) = Increasing(S)
<1>1. \A S : Dvach!Cardinality(S) = Cardinality(S) BY DEF Dvach!Cardinality, Cardinality
<1>2. \A s : Dvach!ToSet(s) = ToSet(s) /\ Dvach!Last(s) = s[Len(s)]
  BY DEF Dvach!ToSet, ToSet, Dvach!Last
<1>3. \A S : Dvach!SetToSeqs(S) = SetToSeqs(S) BY <1>1 DEF Dvach!SetToSeqs, SetToSeqs
<1>4. \A S, n : Dvach!Rank(S, n) = Rank(S, n) BY <1>1 DEF Dvach!Rank, Rank
<1>5. \A S : Dvach!Increasing(S) = Increasing(S) BY <1>1, <1>4 DEF Dvach!Increasing, Increasing
<1> QED BY <1>2, <1>3, <1>5

\* Posts are integers.
LEMMA PostsInt == Dvach!Posts \subseteq Int /\ \A s \in Seq(Dvach!Posts) : s \in Seq(Int)
<1>1. Dvach!Posts \subseteq Int BY DEF Dvach!Posts
<1> QED BY <1>1, SeqMonotonic

\* The initial state satisfies the invariant.
LEMMA DvachInit == Dvach!BoundAssumption /\ Dvach!Init => DvachInv
<1> SUFFICES ASSUME Dvach!BoundAssumption, Dvach!Init PROVE DvachInv OBVIOUS
<1> USE DEF Dvach!BoundAssumption, Dvach!Init, Dvach!OP
<1>1. Dvach!TypeOK
  <2>1. 1 \in 1..MaxPost /\ 0 \in 0..MaxPost + 1 OBVIOUS
  <2>2. <<>> \in Seq(Dvach!Posts) /\ Len(<<>>) = 0 BY EmptySeq
  <2>3. Dvach!OP \in Dvach!Posts BY <2>1 DEF Dvach!Posts
  <2>4. Len(<<>>) <= Preload BY <2>2
  <2>5. {} \subseteq Dvach!Posts OBVIOUS
  <2>6. kind \in {"catalog", "thread"} OBVIOUS
  <2>7. Len(queue) <= Preload BY <2>4
  <2>8. listing \in Seq(Dvach!Posts) /\ sent \in Seq(Dvach!Posts) /\ queue \in Seq(Dvach!Posts)
    BY <2>2
  <2>9. published \in Dvach!Posts /\ stored \in 0..MaxPost + 1 /\ offset \in 0..MaxPost + 1
    BY <2>1, <2>3
  <2>10. storing \in BOOLEAN /\ unstored \subseteq DOMAIN sent OBVIOUS
  <2> QED BY <2>5, <2>6, <2>7, <2>8, <2>9, <2>10 DEF Dvach!TypeOK
<1>2. ToSet(<<>>) = {} BY DEF ToSet
<1>3. OffsetsReached BY DEF OffsetsReached, Reached
<1>4. SentPassed /\ SentBefore /\ QueuePassed /\ ListingAhead
  BY <1>2 DEF SentPassed, Dvach!InOrder, SentBefore, QueuePassed, ListingAhead, Grows
<1>5. Resting /\ InHands BY DEF Resting, InHands
<1>6. NoneLost /\ NoneAhead BY <1>2 DEF NoneLost, NoneAhead, Dvach!Existing, Past
<1> QED BY <1>1, <1>3, <1>4, <1>5, <1>6 DEF DvachInv

\* A new post is ahead of every offset, and of what is listed or queued.
LEMMA DvachPublish ==
  ASSUME Dvach!BoundAssumption, DvachInv, Dvach!Publish
  PROVE  DvachInv'
<1> USE DEF Dvach!Publish, Dvach!vendorVars, Dvach!chatVars
<1>1. published \in Int /\ published' = published + 1 /\ published + 1 <= MaxPost
  BY DEF DvachInv, Dvach!TypeOK, Dvach!Posts, Dvach!BoundAssumption
<1>2. Dvach!TypeOK' BY <1>1 DEF DvachInv, Dvach!TypeOK, Dvach!Posts, Dvach!BoundAssumption
<1>3. OffsetsReached'
  <2>1. stored \in Int /\ offset \in Int BY DEF DvachInv, Dvach!TypeOK, Dvach!BoundAssumption
  <2> QED BY <1>1, <2>1 DEF DvachInv, OffsetsReached, Reached
<1>11. ToSet(sent) \subseteq Int BY PostsInt, OfSeq DEF DvachInv, Dvach!TypeOK
<1>4. SentPassed' /\ QueuePassed' /\ InHands'
  <2>1. \A p \in ToSet(sent) : p <= published' BY <1>1, <1>11 DEF DvachInv, SentPassed
  <2>2. SentPassed' BY <2>1 DEF DvachInv, SentPassed, Dvach!InOrder, Past
  <2> QED BY <2>2 DEF DvachInv, QueuePassed, InHands, Newest, Grows, Past
<1>5. ListingAhead'
  <2>1. ToSet(listing) \subseteq Int BY PostsInt, OfSeq DEF DvachInv, Dvach!TypeOK
  <2> QED BY <1>1, <2>1 DEF DvachInv, ListingAhead, Grows
<1>6. Resting' BY DEF DvachInv, Resting
<1>7. \A p \in (Matching \cap Dvach!Existing)' : p \in Matching \cap Dvach!Existing \/ p = published + 1
  BY <1>1 DEF Dvach!Existing
<1>8. ~Past(stored, published + 1) /\ ~Past(offset, published + 1)
  <2>1. stored \in Int /\ offset \in Int BY DEF DvachInv, Dvach!TypeOK, Dvach!BoundAssumption
  <2> QED BY <1>1, <2>1 DEF DvachInv, OffsetsReached, Reached, Past
<1>9. NoneLost' BY <1>7, <1>8 DEF DvachInv, NoneLost, Newest, Past
<1>12. SentBefore'
  <2>1. \A p \in ToSet(sent) : p <= published + 1 BY <1>1, <1>11 DEF DvachInv, SentPassed
  <2> QED BY <1>7, <2>1 DEF DvachInv, SentBefore, Past
<1>10. NoneAhead'
  <2>1. \A l \in ToSet(listing) : ~(published + 1 < l)
    <3>1. ToSet(listing) \subseteq Int BY PostsInt, OfSeq DEF DvachInv, Dvach!TypeOK
    <3>2. \A l \in ToSet(listing) : l <= published BY DEF DvachInv, ListingAhead
    <3> QED BY <1>1, <3>1, <3>2
  <2> QED BY <1>7, <2>1 DEF DvachInv, NoneAhead, Past
<1> QED BY <1>2, <1>3, <1>4, <1>5, <1>6, <1>9, <1>10, <1>12 DEF DvachInv

\* A deleted post is neither lost nor to come.
LEMMA DvachDisappear ==
  ASSUME Dvach!BoundAssumption, DvachInv, Dvach!Disappear
  PROVE  DvachInv'
<1> USE DEF Dvach!Disappear, Dvach!vendorVars, Dvach!chatVars
<1>1. deleted \subseteq deleted' /\ Dvach!Existing' \subseteq Dvach!Existing BY DEF Dvach!Existing
<1>2. Dvach!TypeOK'
  <2>1. 1..published \subseteq Dvach!Posts
    BY DEF DvachInv, Dvach!TypeOK, Dvach!Posts, Dvach!BoundAssumption
  <2>2. deleted' \subseteq Dvach!Posts BY <2>1 DEF DvachInv, Dvach!TypeOK
  <2> QED BY <2>2 DEF DvachInv, Dvach!TypeOK
<1>3. OffsetsReached' BY DEF DvachInv, OffsetsReached, Reached
<1>4. (SentPassed /\ InHands /\ QueuePassed /\ ListingAhead /\ Resting)'
  BY
    DEF DvachInv, SentPassed, Dvach!InOrder, InHands, Newest, QueuePassed, ListingAhead, Resting,
        Grows, Past
<1>5. (NoneLost /\ NoneAhead /\ SentBefore)'
  BY <1>1 DEF DvachInv, NoneLost, NoneAhead, SentBefore, Newest, Past
<1> QED BY <1>2, <1>3, <1>4, <1>5 DEF DvachInv

\* The steps that only change the state of the subscription.
LEMMA DvachSub ==
  ASSUME DvachInv, sub' \in {"active", "suspended"},
         UNCHANGED <<Dvach!siteVars, stored, Dvach!vendorVars, Dvach!chatVars, read>>
  PROVE  DvachInv'
<1> USE DEF Dvach!vendorVars, Dvach!chatVars, Dvach!siteVars
<1>1. Dvach!TypeOK' BY DEF DvachInv, Dvach!TypeOK
<1>2. (OffsetsReached /\ SentPassed /\ InHands /\ QueuePassed /\ ListingAhead /\ Resting)'
  BY
    DEF DvachInv, OffsetsReached, Reached, SentPassed, Dvach!InOrder, InHands, Newest, QueuePassed,
        ListingAhead, Resting, Grows, Past
<1>3. (NoneLost /\ NoneAhead /\ SentBefore)'
  BY DEF DvachInv, NoneLost, NoneAhead, SentBefore, Newest, Dvach!Existing, Past
<1> QED BY <1>1, <1>2, <1>3 DEF DvachInv

\* What Fetch gets is in the order of publication: all that exists in a catalog, and
\* in a thread what the offset has not passed.
LEMMA DvachAnswer ==
  ASSUME Dvach!BoundAssumption, Dvach!TypeOK, NEW posts \in Dvach!Answers
  PROVE  LET got == IF kind = "catalog" THEN Dvach!Sorted(posts) ELSE posts
         IN /\ got \in Seq(Dvach!Existing) /\ Grows(got) /\ ToSet(posts) \subseteq Dvach!Existing
            /\ ToSet(got) = IF kind = "catalog" THEN Dvach!Existing ELSE Dvach!AfterOffset
<1>1. Dvach!Existing \subseteq 1..published /\ published \in Nat
  BY DEF Dvach!Existing, Dvach!TypeOK, Dvach!Posts, Dvach!BoundAssumption
<1>2. IsFiniteSet(Dvach!Existing)
  <2>1. IsFiniteSet(1..published) BY <1>1, FS_Interval
  <2> QED BY <1>1, <2>1, FS_Subset
<1>3. CASE kind = "catalog"
  <2>1. posts \in SetToSeqs(Dvach!Existing) BY <1>3, DvachOperators DEF Dvach!Answers
  <2>2. ToSet(posts) = Dvach!Existing BY <1>2, <2>1, OfSetToSeqs
  <2>3. Dvach!Existing \in SUBSET Int BY <1>1
  <2> QED BY <1>2, <1>3, <2>2, <2>3, OfIncreasing, DvachOperators DEF Dvach!Sorted
<1>4. CASE kind # "catalog"
  <2>1. posts = Increasing(Dvach!AfterOffset) BY <1>4, DvachOperators DEF Dvach!Answers
  <2>2. Dvach!AfterOffset \subseteq Dvach!Existing BY DEF Dvach!AfterOffset
  <2>3. IsFiniteSet(Dvach!AfterOffset) BY <1>2, <2>2, FS_Subset
  <2>6. Dvach!AfterOffset \in SUBSET Int BY <1>1, <2>2
  <2>4. posts \in Seq(Dvach!AfterOffset) /\ Grows(posts) /\ ToSet(posts) = Dvach!AfterOffset
    BY <2>1, <2>3, <2>6, OfIncreasing
  <2>5. posts \in Seq(Dvach!Existing) BY <2>2, <2>4
  <2> QED BY <1>4, <2>2, <2>4, <2>5
<1> QED BY <1>3, <1>4

\* A refresh reads an answer: everything that is to come is in it.
LEMMA DvachFetch == ASSUME Dvach!BoundAssumption, DvachInv, Dvach!Fetch PROVE DvachInv'
<1> USE DEF Dvach!Fetch, Dvach!siteVars, Dvach!chatVars
<1>1. PICK posts \in Dvach!Answers :
        /\ listing' = (IF kind = "catalog" THEN Dvach!Sorted(posts) ELSE posts)
        /\ read' = read \cup ToSet(posts)
  BY DvachOperators
<1>2. /\ listing' \in Seq(Dvach!Existing) /\ Grows(listing') /\ ToSet(posts) \subseteq Dvach!Existing
      /\ ToSet(listing') = IF kind = "catalog" THEN Dvach!Existing ELSE Dvach!AfterOffset
  BY <1>1, DvachAnswer DEF DvachInv
<1>3. Dvach!Existing \subseteq 1..published /\ 1..published \subseteq Dvach!Posts /\ published \in Nat
  BY DEF Dvach!Existing, DvachInv, Dvach!TypeOK, Dvach!Posts, Dvach!BoundAssumption
<1>4. listing' \in Seq(Dvach!Posts) /\ read' \subseteq 1..published
  <2>1. Dvach!Existing \subseteq Dvach!Posts BY <1>3
  <2>2. listing' \in Seq(Dvach!Posts) BY <1>2, <2>1
  <2> QED BY <1>1, <1>2, <1>3, <2>2 DEF DvachInv, OffsetsReached
<1>5. queue = <<>> /\ ~storing BY DEF DvachInv, Resting
<1>6. Dvach!TypeOK' BY <1>3, <1>4 DEF DvachInv, Dvach!TypeOK
<1>7. OffsetsReached' BY <1>4 DEF DvachInv, OffsetsReached, Reached
<1>8. SentPassed' /\ InHands' BY <1>5 DEF DvachInv, SentPassed, Dvach!InOrder, InHands, Past
<1>9. ToSet(queue') = {} /\ Grows(queue') BY <1>5 DEF ToSet, Grows
<1>16. SentBefore'
  <2>1. ToSet(listing') \subseteq Dvach!Existing BY <1>2 DEF Dvach!AfterOffset
  <2> QED BY <1>9, <2>1 DEF DvachInv, SentBefore, Dvach!Existing, Past
<1>15. stored' <= offset' BY DEF DvachInv, Dvach!TypeOK, Dvach!BoundAssumption
<1>10. QueuePassed' BY <1>9, <1>15 DEF QueuePassed
<1>11. ListingAhead'
  <2>1. ToSet(listing') \subseteq Dvach!Existing BY <1>2 DEF Dvach!AfterOffset
  <2>3. \A p \in ToSet(listing') : p <= published
    <3> SUFFICES ASSUME NEW p \in ToSet(listing') PROVE p <= published OBVIOUS
    <3>1. p \in 1..published BY <1>3, <2>1
    <3> QED BY <1>3, <3>1
  <2>4. stored \in Nat BY DEF DvachInv, Dvach!TypeOK, Dvach!BoundAssumption
  <2>2. kind = "thread" => \A p \in ToSet(listing') : p >= stored
    <3> SUFFICES ASSUME kind = "thread", NEW p \in Dvach!AfterOffset PROVE p >= stored BY <1>2
    <3>1. p \in Nat BY <1>3 DEF Dvach!AfterOffset
    <3> QED BY <3>1, <2>4 DEF Dvach!AfterOffset, Dvach!OP
  <2> QED BY <1>2, <2>3, <2>2 DEF ListingAhead
<1>12. Resting' BY DEF Resting
<1>13. NoneLost' BY <1>5 DEF DvachInv, NoneLost, Dvach!Existing, Past
<1>14. NoneAhead'
  <2> SUFFICES ASSUME NEW p \in Dvach!Existing, ~Past(stored, p) PROVE p \in ToSet(listing')
    BY DEF NoneAhead, Dvach!Existing, Past
  <2>1. p \in Nat /\ p >= 1 /\ stored \in Nat
    BY <1>3 DEF DvachInv, Dvach!TypeOK, Dvach!BoundAssumption
  <2>2. CASE kind = "catalog" BY <1>2, <2>2
  <2>3. CASE kind # "catalog"
    <3>1. p >= stored BY <2>1, <2>3 DEF Past
    <3> QED BY <1>2, <2>1, <2>3, <3>1 DEF Dvach!AfterOffset, Dvach!OP
  <2> QED BY <2>2, <2>3
<1> QED BY <1>6, <1>7, <1>8, <1>10, <1>11, <1>12, <1>13, <1>14, <1>16 DEF DvachInv

\* A post that is passed by is none to relay.
LEMMA DvachSkip == ASSUME Dvach!BoundAssumption, DvachInv, Dvach!Skip PROVE DvachInv'
<1> USE DEF Dvach!Skip, Dvach!siteVars, Dvach!chatVars
<1> DEFINE h == Head(listing)
<1>1. listing \in Seq(Dvach!Posts) /\ listing \in Seq(Int) BY PostsInt DEF DvachInv, Dvach!TypeOK
<1>2. /\ listing' \in Seq(Dvach!Posts) /\ ToSet(listing') \subseteq ToSet(listing)
      /\ \A p \in ToSet(listing) : p = h \/ p \in ToSet(listing')
  BY <1>1, OfTail
<1>3. Grows(listing') BY <1>1, GrowsTail DEF DvachInv, ListingAhead
<1>4. Dvach!TypeOK' BY <1>2 DEF DvachInv, Dvach!TypeOK
<1>5. (OffsetsReached /\ SentPassed /\ InHands /\ QueuePassed)'
  BY
    DEF DvachInv, OffsetsReached, Reached, SentPassed, Dvach!InOrder, InHands, Newest, QueuePassed,
        Past, Grows
<1>6. ListingAhead' BY <1>2, <1>3 DEF DvachInv, ListingAhead
<1>7. Resting' BY DEF DvachInv, Resting
<1>11. SentBefore' BY <1>2 DEF DvachInv, SentBefore, Dvach!Existing, Past
<1>8. NoneLost' BY DEF DvachInv, NoneLost, Newest, Dvach!Existing, Past
<1>9. h \in Matching => Past(offset, h)
  <2>1. h \in Int /\ offset \in Int
    BY <1>1, OfTail DEF DvachInv, Dvach!TypeOK, Dvach!BoundAssumption
  <2> QED BY <2>1 DEF Dvach!Relayed, Past
<1> HIDE DEF h
<1>10. NoneAhead'
  <2> SUFFICES ASSUME NEW p \in Matching \cap Dvach!Existing, NEW l \in ToSet(listing'),
                      ~Past(offset, p), p < l
               PROVE  p \in ToSet(listing')
    BY DEF NoneAhead, Dvach!Existing, Past
  <2>1. p \in ToSet(listing) BY <1>2 DEF DvachInv, NoneAhead
  <2> QED BY <1>2, <1>9, <2>1
<1> QED BY <1>4, <1>5, <1>6, <1>7, <1>8, <1>10, <1>11 DEF DvachInv

\* A post goes to the queue, behind all that are to be sent before it.
LEMMA DvachSubmit == ASSUME Dvach!BoundAssumption, DvachInv, Dvach!Submit PROVE DvachInv'
<1> USE DEF Dvach!Submit, Dvach!siteVars, Dvach!chatVars
<1>1. /\ listing \in Seq(Dvach!Posts) /\ listing \in Seq(Int) /\ Dvach!Posts \subseteq Int
      /\ queue \in Seq(Dvach!Posts) /\ queue \in Seq(Int) /\ Len(queue) \in Nat
  BY PostsInt, LenProperties DEF DvachInv, Dvach!TypeOK
<1> PICK h \in Dvach!Posts : h = Head(listing) BY <1>1, OfTail
<1>2. /\ listing' \in Seq(Dvach!Posts) /\ ToSet(listing') \subseteq ToSet(listing)
      /\ \A p \in ToSet(listing) : p = h \/ p \in ToSet(listing')
      /\ h \in Dvach!Posts /\ h \in ToSet(listing)
  BY <1>1, OfTail
<1>3. Grows(listing') /\ \A p \in ToSet(listing') : p > h
  BY <1>1, GrowsTail DEF DvachInv, ListingAhead
<1>4. queue' \in Seq(Dvach!Posts) /\ Len(queue') = Len(queue) + 1 /\ ToSet(queue') = ToSet(queue) \cup {h}
  BY <1>1, <1>2, OfAppend
<1>5. offset' = Dvach!NextOffset(h) /\ UNCHANGED <<kind, published, deleted, sub, stored, refreshing, storing, sent, unstored, read>>
  OBVIOUS
<1>6. h \in Matching /\ ~Past(offset, h) /\ h <= published
  <2>1. offset \in Int /\ h \in Int BY <1>1, <1>2 DEF DvachInv, Dvach!TypeOK, Dvach!BoundAssumption
  <2>2. h <= published /\ (kind = "thread" => h >= offset) BY <1>2 DEF DvachInv, ListingAhead
  <2>3. h \in Matching /\ (kind = "catalog" => h > offset) BY DEF Dvach!Relayed
  <2>4. kind \in {"catalog", "thread"} BY DEF DvachInv, Dvach!TypeOK
  <2> QED BY <2>1, <2>2, <2>3, <2>4 DEF Past
<1>7. queue' = Append(queue, h) /\ refreshing
  BY DEF DvachInv, Resting
<1>8. Len(queue) < Preload BY DEF Dvach!Room
<1> HIDE DEF Dvach!Submit
<1>9. kind \in {"catalog", "thread"} /\ published \in Int /\ stored \in Int /\ offset \in Int /\ h \in Int
  BY <1>1, <1>2 DEF DvachInv, Dvach!TypeOK, Dvach!BoundAssumption, Dvach!Posts
<1>10. Dvach!TypeOK'
  <2>1. offset' \in 0..MaxPost + 1
    BY <1>2, <1>5, <1>9 DEF Dvach!NextOffset, Dvach!Posts, Dvach!BoundAssumption
  <2>2. Len(queue') <= Preload BY <1>1, <1>4, <1>8 DEF Dvach!BoundAssumption
  <2> QED BY <1>2, <1>4, <1>5, <2>1, <2>2 DEF DvachInv, Dvach!TypeOK
<1>11. OffsetsReached' BY <1>5, <1>6, <1>9 DEF DvachInv, OffsetsReached, Reached, Dvach!NextOffset
<1>12. SentPassed' BY <1>5 DEF DvachInv, SentPassed, Dvach!InOrder, Past
<1>13. \A p \in Int : Past(offset, p) => p < h /\ Past(offset, p)'
  BY <1>5, <1>6, <1>9 DEF Past, Dvach!NextOffset
<1>14. \A p \in Int : Past(offset, p)' => p <= h BY <1>5, <1>9 DEF Past, Dvach!NextOffset
<1>15. Past(offset, h)' BY <1>5, <1>9 DEF Past, Dvach!NextOffset
<1>16. ToSet(queue) \subseteq Int /\ ToSet(listing) \subseteq Int BY <1>1, OfSeq
<1>17. \A p \in ToSet(queue) : Past(offset, p) /\ ~Past(stored, p) BY DEF DvachInv, QueuePassed
<1>25. SentBefore'
  <2>1. \A p \in ToSet(sent) : p <= h BY <1>2, <1>6 DEF DvachInv, SentBefore
  <2>2. \A l \in ToSet(listing') : ~Past(offset, l)' => ~Past(offset, l) BY <1>2, <1>13, <1>16
  <2>3. \A p \in ToSet(sent), l \in ToSet(listing') \cap Matching : ~Past(offset, l)' => p <= l
    BY <1>2, <2>2 DEF DvachInv, SentBefore
  <2>4. \A p \in ToSet(sent), q \in ToSet(queue') : p <= q BY <1>4, <2>1 DEF DvachInv, SentBefore
  <2>5. \A p \in ToSet(sent), q \in Matching \cap Dvach!Existing : ~Past(stored, q) => p <= q
    BY DEF DvachInv, SentBefore
  <2> QED BY <1>5, <2>3, <2>4, <2>5 DEF SentBefore, Dvach!Existing, Past
<1>26. InHands'
  <2> SUFFICES ASSUME storing
               PROVE  /\ sent # <<>> /\ ~Past(stored, Newest) /\ Past(offset, Newest)'
                      /\ \A q \in ToSet(queue') : Newest < q
    BY <1>5 DEF InHands, Newest, Past
  <2>1. /\ sent # <<>> /\ ~Past(stored, Newest) /\ Past(offset, Newest)
        /\ \A q \in ToSet(queue) : Newest < q
    BY DEF DvachInv, InHands
  <2>2. Newest \in Int
    <3>1. sent \in Seq(Int) BY PostsInt DEF DvachInv, Dvach!TypeOK
    <3>2. Len(sent) \in 1..Len(sent) BY <2>1, <3>1
    <3> QED BY <3>1, <3>2 DEF Newest
  <2>3. Newest < h /\ (kind = "catalog" => Newest <= offset') /\ (kind # "catalog" => Newest < offset')
    BY <1>5, <1>13, <2>1, <2>2 DEF Past
  <2>4. Past(offset, Newest)' BY <1>5, <2>3 DEF Past, Newest
  <2> QED BY <1>4, <2>1, <2>3, <2>4
<1>24. stored' <= offset'
  <2>1. stored <= offset BY <1>7 DEF DvachInv, QueuePassed
  <2>2. offset <= offset'
    <3>1. kind = "thread" => h >= offset BY <1>2 DEF DvachInv, ListingAhead
    <3>2. kind = "catalog" => h > offset BY <1>6, <1>9 DEF Past
    <3> QED BY <1>5, <1>9, <3>1, <3>2 DEF Dvach!NextOffset
  <2>3. offset' \in Int BY <1>5, <1>9 DEF Dvach!NextOffset
  <2> QED BY <1>5, <1>9, <2>1, <2>2, <2>3
<1>18. QueuePassed'
  <2>1. Grows(queue')
    <3>1. Grows(queue) /\ \A p \in ToSet(queue) : p < h
      BY <1>13, <1>16, <1>17 DEF DvachInv, QueuePassed
    <3> QED BY <1>1, <1>7, <1>9, <3>1, GrowsAppend
  <2>2. ~Past(stored, h)
    <3> SUFFICES ASSUME Past(stored, h) PROVE FALSE OBVIOUS
    <3>1. stored <= offset BY <1>7 DEF DvachInv, QueuePassed
    <3> QED BY <1>6, <1>9, <3>1 DEF Past
  <2>3. \A p \in ToSet(queue') : ~Past(stored, p)' BY <1>4, <1>5, <1>17, <2>2 DEF Past
  <2>4. \A p \in ToSet(queue') : Past(offset, p)' BY <1>4, <1>13, <1>15, <1>16, <1>17
  <2> QED BY <1>24, <2>1, <2>3, <2>4 DEF QueuePassed, Past
<1>19. ListingAhead'
  <2> SUFFICES ASSUME NEW p \in ToSet(listing') PROVE p <= published /\ p >= Dvach!NextOffset(h)
    BY <1>3, <1>5 DEF ListingAhead
  <2>1. p > h /\ p \in Int BY <1>2, <1>3, <1>16
  <2>2. p <= published BY <1>2 DEF DvachInv, ListingAhead
  <2> QED BY <1>9, <2>1, <2>2 DEF Dvach!NextOffset
<1>20. Resting' BY <1>5, <1>7 DEF Resting
<1>21. \A p \in Matching \cap Dvach!Existing : Past(offset, p) \/ p >= h
  <2> SUFFICES ASSUME NEW p \in Matching \cap Dvach!Existing, ~Past(offset, p), p < h PROVE FALSE
    BY <1>9 DEF Dvach!Existing
  <2>1. p \in ToSet(listing) BY <1>2 DEF DvachInv, NoneAhead
  <2>2. p \in Int BY <1>16, <2>1
  <2>3. p \in ToSet(listing') BY <1>2, <1>9, <2>1, <2>2
  <2> QED BY <1>3, <1>9, <2>2, <2>3
<1>22. NoneLost'
  <2> SUFFICES ASSUME NEW p \in Matching \cap Dvach!Existing
               PROVE  /\ Past(stored, p) => p \in ToSet(sent)
                      /\ Past(offset, p)' =>
                           Past(stored, p) \/ p \in ToSet(queue') \/ (storing /\ p = Newest)
    BY <1>5 DEF NoneLost, Newest, Dvach!Existing, Past
  <2>1. Past(stored, p) => p \in ToSet(sent) BY DEF DvachInv, NoneLost
  <2>2. p \in Int BY <1>9 DEF Dvach!Existing
  <2>3. CASE Past(offset, p) BY <1>4, <1>7, <2>1, <2>3 DEF DvachInv, NoneLost
  <2>4. CASE ~Past(offset, p)
    <3>1. Past(offset, p)' => p = h BY <1>9, <1>14, <1>21, <2>2, <2>4
    <3> QED BY <1>4, <2>1, <3>1
  <2> QED BY <2>3, <2>4
<1>23. NoneAhead'
  <2> SUFFICES ASSUME NEW p \in Matching \cap Dvach!Existing, NEW l \in ToSet(listing'),
                      ~Past(offset, p)', p < l
               PROVE  p \in ToSet(listing')
    BY <1>5 DEF NoneAhead, Dvach!Existing, Past
  <2>1. p \in Int BY <1>9 DEF Dvach!Existing
  <2>2. ~Past(offset, p) BY <1>13, <2>1
  <2>3. p \in ToSet(listing) BY <1>2, <2>2 DEF DvachInv, NoneAhead
  <2>4. p # h BY <1>15
  <2> QED BY <1>2, <2>3, <2>4
<1> QED BY <1>10, <1>11, <1>12, <1>18, <1>19, <1>20, <1>22, <1>23, <1>25, <1>26 DEF DvachInv

\* A post is sent: the least that is queued, and not before any that was sent.
LEMMA DvachSend == ASSUME Dvach!BoundAssumption, DvachInv, Dvach!Send PROVE DvachInv'
<1> USE DEF Dvach!Send, Dvach!siteVars
<1>1. /\ queue \in Seq(Dvach!Posts) /\ queue \in Seq(Int) /\ Dvach!Posts \subseteq Int
      /\ sent \in Seq(Dvach!Posts) /\ sent \in Seq(Int) /\ Len(queue) \in Nat /\ Len(sent) \in Nat
  BY PostsInt, LenProperties DEF DvachInv, Dvach!TypeOK
<1> PICK h \in Dvach!Posts : h = Head(queue) BY <1>1, OfTail
<1>2. /\ queue' \in Seq(Dvach!Posts) /\ ToSet(queue') \subseteq ToSet(queue) /\ Len(queue') <= Len(queue)
      /\ \A p \in ToSet(queue) : p = h \/ p \in ToSet(queue')
      /\ h \in ToSet(queue) /\ Len(queue') \in Nat
  BY <1>1, OfTail, LenProperties
<1>3. Grows(queue') /\ \A p \in ToSet(queue') : p > h BY <1>1, GrowsTail DEF DvachInv, QueuePassed
<1>4. sent' \in Seq(Dvach!Posts) /\ ToSet(sent') = ToSet(sent) \cup {h} BY <1>1, OfAppend
<1>5. /\ sent' = Append(sent, h) /\ unstored' = unstored \cup {Len(sent) + 1} /\ storing' = TRUE
      /\ ~storing
      /\ UNCHANGED <<kind, published, deleted, sub, stored, listing, offset, refreshing, read>>
  OBVIOUS
<1>6. /\ kind \in {"catalog", "thread"} /\ published \in Int /\ stored \in Int /\ offset \in Int
      /\ h \in Int /\ Preload \in Int
  BY <1>1 DEF DvachInv, Dvach!TypeOK, Dvach!BoundAssumption, Dvach!Posts
<1>7. refreshing BY DEF DvachInv, Resting
<1> HIDE DEF Dvach!Send
<1>8. ~Past(stored, h) /\ Past(offset, h) BY <1>2 DEF DvachInv, QueuePassed
<1>9. /\ DOMAIN sent = 1..Len(sent) /\ DOMAIN sent' = 1..Len(sent) + 1
      /\ Len(sent') = Len(sent) + 1 /\ sent'[Len(sent) + 1] = h
      /\ \A i \in DOMAIN sent : sent'[i] = sent[i]
  BY <1>1, <1>5
<1>10. Newest' = h BY <1>9 DEF Newest
<1>11. ToSet(sent) \subseteq Int /\ ToSet(queue) \subseteq Int BY <1>1, OfSeq
<1>12. \A i \in DOMAIN sent : sent[i] \in ToSet(sent) BY DEF ToSet
<1>13. \A p \in ToSet(sent) : p <= h BY <1>2 DEF DvachInv, SentBefore
<1>14. Dvach!TypeOK'
  <2>1. unstored' \subseteq DOMAIN sent' BY <1>1, <1>5, <1>9 DEF DvachInv, Dvach!TypeOK
  <2>2. Len(queue') <= Preload BY <1>1, <1>2, <1>6 DEF DvachInv, Dvach!TypeOK
  <2> QED BY <1>2, <1>4, <1>5, <2>1, <2>2 DEF DvachInv, Dvach!TypeOK
<1>15. OffsetsReached' BY <1>5 DEF DvachInv, OffsetsReached, Reached
<1>16. SentPassed'
  <2>1. ASSUME NEW i \in DOMAIN sent', NEW j \in DOMAIN sent', i < j
        PROVE  sent'[i] < sent'[j] \/ (sent'[i] = sent'[j] /\ i \in unstored')
    <3>1. i \in DOMAIN sent BY <1>1, <1>9, <2>1
    <3>2. CASE j \in DOMAIN sent
      BY <1>5, <1>9, <2>1, <3>1, <3>2 DEF DvachInv, SentPassed, Dvach!InOrder
    <3>3. CASE j \notin DOMAIN sent
      <4>1. sent'[j] = h BY <1>1, <1>9, <3>3
      <4>2. sent'[i] = sent[i] /\ sent[i] \in Int /\ sent[i] <= h BY <1>9, <1>11, <1>12, <1>13, <3>1
      <4>3. sent[i] = h => i \in unstored BY <1>8, <3>1 DEF DvachInv, SentPassed
      <4> QED BY <1>5, <1>6, <4>1, <4>2, <4>3
    <3> QED BY <3>2, <3>3
  <2>2. \A i \in DOMAIN sent' : Past(stored, sent'[i]) \/ i \in unstored'
    <3> SUFFICES ASSUME NEW i \in DOMAIN sent' PROVE Past(stored, sent'[i]) \/ i \in unstored' OBVIOUS
    <3>1. CASE i \in DOMAIN sent BY <1>5, <1>9, <3>1 DEF DvachInv, SentPassed
    <3>2. CASE i \notin DOMAIN sent BY <1>1, <1>5, <1>9, <3>2
    <3> QED BY <3>1, <3>2
  <2>3. h <= published BY <1>6, <1>8 DEF DvachInv, OffsetsReached, Reached, Past
  <2>4. \A p \in ToSet(sent') : p <= published BY <1>4, <2>3 DEF DvachInv, SentPassed
  <2>5. Dvach!InOrder' BY <2>1 DEF Dvach!InOrder
  <2> QED BY <1>5, <2>2, <2>4, <2>5 DEF SentPassed, Past
<1>17. InHands'
  <2>1. sent' # <<>> BY <1>1, <1>9
  <2>2. ~Past(stored, Newest)' /\ Past(offset, Newest)' BY <1>5, <1>8, <1>10 DEF Past
  <2>3. \A q \in ToSet(queue') : h < q BY <1>2, <1>3, <1>6, <1>11
  <2> QED BY <1>10, <2>1, <2>2, <2>3 DEF InHands
<1>18. SentBefore'
  <2>1. ASSUME NEW q \in Matching \cap Dvach!Existing, ~Past(stored, q) PROVE h <= q
    <3>1. q \in Int BY <1>6 DEF Dvach!Existing
    <3>2. CASE Past(offset, q)
      <4>1. q \in ToSet(queue) BY <1>5, <1>7, <2>1, <3>2 DEF DvachInv, NoneLost
      <4> QED BY <1>2, <1>3, <1>6, <3>1, <4>1
    <3>3. CASE ~Past(offset, q) BY <1>6, <1>8, <3>1, <3>3 DEF Past
    <3> QED BY <3>2, <3>3
  <2>2. ASSUME NEW l \in ToSet(listing), ~Past(offset, l) PROVE h <= l
    <3>1. l \in Int BY PostsInt, OfSeq DEF DvachInv, Dvach!TypeOK
    <3> QED BY <1>6, <1>8, <2>2, <3>1 DEF Past
  <2>3. \A q \in ToSet(queue') : h <= q BY <1>2, <1>3, <1>6, <1>11
  <2>4. \A p \in ToSet(sent'), q \in Matching \cap Dvach!Existing : ~Past(stored, q) => p <= q
    BY <1>4, <2>1 DEF DvachInv, SentBefore
  <2>5. \A p \in ToSet(sent'), q \in ToSet(queue') : p <= q
    BY <1>2, <1>4, <2>3 DEF DvachInv, SentBefore
  <2>6. \A p \in ToSet(sent'), l \in ToSet(listing) \cap Matching : ~Past(offset, l) => p <= l
    BY <1>4, <2>2 DEF DvachInv, SentBefore
  <2> QED BY <1>5, <2>4, <2>5, <2>6 DEF SentBefore, Dvach!Existing, Past
<1>19. QueuePassed' BY <1>2, <1>3, <1>5 DEF DvachInv, QueuePassed, Past
<1>20. ListingAhead' /\ Resting' BY <1>5, <1>7 DEF DvachInv, ListingAhead, Resting, Grows
<1>21. NoneLost'
  <2> SUFFICES ASSUME NEW p \in Matching \cap Dvach!Existing
               PROVE  /\ Past(stored, p) => p \in ToSet(sent')
                      /\ Past(offset, p) => Past(stored, p) \/ p \in ToSet(queue') \/ p = h
    BY <1>5, <1>10 DEF NoneLost, Dvach!Existing, Past
  <2> QED BY <1>2, <1>4, <1>5, <1>7 DEF DvachInv, NoneLost
<1>22. NoneAhead' BY <1>5 DEF DvachInv, NoneAhead, Dvach!Existing, Past
<1> QED BY <1>14, <1>15, <1>16, <1>17, <1>18, <1>19, <1>20, <1>21, <1>22 DEF DvachInv

\* The offset stored passes the post that was sent, and no other.
LEMMA DvachStore == ASSUME Dvach!BoundAssumption, DvachInv, Dvach!Store PROVE DvachInv'
<1> USE DEF Dvach!Store, Dvach!siteVars, Dvach!vendorVars
<1>1. /\ queue \in Seq(Int) /\ Dvach!Posts \subseteq Int
      /\ sent \in Seq(Dvach!Posts) /\ sent \in Seq(Int) /\ Len(sent) \in Nat
  BY PostsInt, LenProperties DEF DvachInv, Dvach!TypeOK
<1>2. sent # <<>> /\ ~Past(stored, Newest) /\ Past(offset, Newest) /\ \A q \in ToSet(queue) : Newest < q
  BY DEF DvachInv, InHands
<1>3. Len(sent) \in DOMAIN sent /\ DOMAIN sent = 1..Len(sent) BY <1>1, <1>2
<1> PICK h \in Dvach!Posts : h = Newest BY <1>1, <1>3 DEF Newest
<1>4. h \in ToSet(sent) BY <1>3 DEF ToSet, Newest
<1>5. /\ stored' = Dvach!NextOffset(h) /\ unstored' = unstored \ {Len(sent)} /\ storing' = FALSE
      /\ UNCHANGED <<kind, published, deleted, sub, listing, offset, queue, refreshing, sent, read>>
  BY DvachOperators DEF Newest
<1>6. /\ kind \in {"catalog", "thread"} /\ published \in Int /\ stored \in Int /\ offset \in Int
      /\ h \in Int
  BY <1>1 DEF DvachInv, Dvach!TypeOK, Dvach!BoundAssumption, Dvach!Posts
<1>7. refreshing BY DEF DvachInv, Resting
<1>8. ~Past(stored, h) /\ Past(offset, h) /\ \A q \in ToSet(queue) : h < q BY <1>2
<1> HIDE DEF Dvach!Store
<1>9. Dvach!TypeOK'
  <2>1. stored' \in 0..MaxPost + 1
    BY <1>5, <1>6 DEF Dvach!NextOffset, Dvach!Posts, Dvach!BoundAssumption
  <2> QED BY <1>5, <2>1 DEF DvachInv, Dvach!TypeOK
<1>10. OffsetsReached'
  BY <1>5, <1>6, <1>8 DEF DvachInv, OffsetsReached, Reached, Dvach!NextOffset, Past
<1>11. ToSet(sent) \subseteq Int /\ ToSet(queue) \subseteq Int BY <1>1, OfSeq
<1>12. \A p \in Int : Past(stored, p) => Past(stored, p)'
  BY <1>5, <1>6, <1>8 DEF Past, Dvach!NextOffset
<1>13. Past(stored, h)' BY <1>5, <1>6 DEF Past, Dvach!NextOffset
<1>14. \A p \in Int : Past(stored, p)' => p <= h /\ Past(offset, p)
  BY <1>5, <1>6, <1>8 DEF Past, Dvach!NextOffset
<1>15. \A i \in DOMAIN sent : sent[i] \in ToSet(sent) BY DEF ToSet
<1>16. SentPassed'
  <2>1. ASSUME NEW i \in DOMAIN sent, NEW j \in DOMAIN sent, i < j
        PROVE  sent[i] < sent[j] \/ (sent[i] = sent[j] /\ i \in unstored')
    <3>1. sent[i] < sent[j] \/ (sent[i] = sent[j] /\ i \in unstored)
      BY <2>1 DEF DvachInv, SentPassed, Dvach!InOrder
    <3>2. i # Len(sent) BY <1>1, <1>3, <2>1
    <3> QED BY <1>5, <3>1, <3>2
  <2>2. \A i \in DOMAIN sent : Past(stored, sent[i])' \/ i \in unstored'
    <3> SUFFICES ASSUME NEW i \in DOMAIN sent, i \notin unstored' PROVE Past(stored, sent[i])' OBVIOUS
    <3>1. sent' = sent /\ sent[i] \in Int BY <1>5, <1>11, <1>15
    <3>2. CASE i = Len(sent)
      <4>1. sent[i] = h BY <3>2 DEF Newest
      <4> QED BY <1>13, <3>1, <4>1 DEF Past
    <3>3. CASE i # Len(sent)
      <4>1. Past(stored, sent[i]) BY <1>5, <3>3 DEF DvachInv, SentPassed
      <4>2. kind' = kind BY <1>5
      <4> QED BY <1>12, <3>1, <4>1, <4>2 DEF Past
    <3> QED BY <3>2, <3>3
  <2>3. Dvach!InOrder' BY <1>5, <2>1 DEF Dvach!InOrder
  <2> QED BY <1>5, <2>2, <2>3 DEF DvachInv, SentPassed, Past
<1>17. SentBefore'
  <2>1. \A q \in Matching \cap Dvach!Existing : ~Past(stored, q)' => ~Past(stored, q)
    <3>1. \A q \in Dvach!Existing : q \in Int BY <1>6 DEF Dvach!Existing
    <3> QED BY <1>12, <3>1
  <2>2. \A p \in ToSet(sent), q \in Matching \cap Dvach!Existing : ~Past(stored, q)' => p <= q
    BY <2>1 DEF DvachInv, SentBefore
  <2>3. \A p \in ToSet(sent) :
          /\ \A q \in ToSet(queue) : p <= q
          /\ \A l \in ToSet(listing) \cap Matching : ~Past(offset, l) => p <= l
    BY DEF DvachInv, SentBefore
  <2> QED BY <1>5, <2>2, <2>3 DEF SentBefore, Dvach!Existing, Past
<1>18. InHands' BY <1>5 DEF InHands
<1>19. QueuePassed'
  <2>1. \A q \in ToSet(queue) : ~Past(stored, q)'
    <3> SUFFICES ASSUME NEW q \in ToSet(queue) PROVE ~Past(stored, q)' OBVIOUS
    <3>1. q > h /\ q \in Int BY <1>6, <1>8, <1>11
    <3> QED BY <1>6, <1>14, <3>1
  <2>2. stored' <= offset' BY <1>5, <1>6, <1>8 DEF Past, Dvach!NextOffset
  <2> QED BY <1>5, <2>1, <2>2 DEF DvachInv, QueuePassed, Past
<1>20. ListingAhead' /\ Resting' BY <1>5, <1>7 DEF DvachInv, ListingAhead, Resting, Grows
<1>21. NoneLost'
  <2> SUFFICES ASSUME NEW p \in Matching \cap Dvach!Existing
               PROVE  /\ Past(stored, p)' => p \in ToSet(sent)
                      /\ Past(offset, p) => Past(stored, p)' \/ p \in ToSet(queue)
    BY <1>5 DEF NoneLost, Dvach!Existing, Past
  <2>1. p \in Int BY <1>6 DEF Dvach!Existing
  <2>2. Past(offset, p) => Past(stored, p) \/ p \in ToSet(queue) \/ p = h
    BY <1>7 DEF DvachInv, NoneLost
  <2>3. Past(offset, p) => Past(stored, p)' \/ p \in ToSet(queue) BY <1>12, <1>13, <2>1, <2>2
  <2>4. ASSUME Past(stored, p)' PROVE p \in ToSet(sent)
    <3>1. p <= h /\ Past(offset, p) BY <1>14, <2>1, <2>4
    <3>2. p \notin ToSet(queue) BY <1>6, <1>8, <2>1, <3>1
    <3> QED BY <1>4, <2>2, <3>1, <3>2 DEF DvachInv, NoneLost
  <2> QED BY <2>3, <2>4
<1>22. NoneAhead' BY <1>5 DEF DvachInv, NoneAhead, Dvach!Existing, Past
<1> QED BY <1>9, <1>10, <1>16, <1>17, <1>18, <1>19, <1>20, <1>21, <1>22 DEF DvachInv

\* What a refresh read is forgotten: the next one starts from what is stored.
LEMMA DvachEnd == ASSUME Dvach!BoundAssumption, DvachInv, Dvach!End PROVE DvachInv'
<1> USE DEF Dvach!End, Dvach!siteVars
<1>1. Dvach!TypeOK'
  <2>1. <<>> \in Seq(Dvach!Posts) /\ Len(<<>>) = 0 BY EmptySeq
  <2>2. Len(queue') <= Preload BY <2>1 DEF Dvach!BoundAssumption
  <2>3. listing' \in Seq(Dvach!Posts) /\ queue' \in Seq(Dvach!Posts) BY <2>1
  <2>4. sub' \in {"none", "active", "suspended"} BY DEF DvachInv, Dvach!TypeOK
  <2> QED BY <2>2, <2>3, <2>4 DEF DvachInv, Dvach!TypeOK
<1>2. ToSet(<<>>) = {} BY DEF ToSet
<1>3. (OffsetsReached /\ SentPassed)'
  BY DEF DvachInv, OffsetsReached, Reached, SentPassed, Dvach!InOrder, Past
<1>4. (InHands /\ QueuePassed /\ ListingAhead /\ Resting)'
  BY <1>2 DEF InHands, QueuePassed, ListingAhead, Resting, Grows
<1>5. (NoneLost /\ NoneAhead /\ SentBefore)'
  BY <1>2 DEF DvachInv, NoneLost, NoneAhead, SentBefore, Dvach!Existing, Past
<1> QED BY <1>1, <1>3, <1>4, <1>5 DEF DvachInv

\* The invariant is inductive.
LEMMA DvachNext == ASSUME Dvach!BoundAssumption, DvachInv, Dvach!Next PROVE DvachInv'
<1> USE DvachPublish, DvachDisappear, DvachFetch, DvachSkip, DvachSubmit, DvachSend, DvachStore,
       DvachEnd
<1>1. CASE Dvach!Parse BY <1>1, DvachSub DEF Dvach!Parse
<1>2. CASE Dvach!FetchGone BY <1>2, DvachSub DEF Dvach!FetchGone
<1>3. CASE Dvach!Resume BY <1>3, DvachSub DEF Dvach!Resume
<1> QED BY <1>1, <1>2, <1>3 DEF Dvach!Next

\* The invariant implies what is checked.
LEMMA DvachSafe ==
  ASSUME DvachInv
  PROVE  Dvach!TypeOK /\ Dvach!InOrder /\ Dvach!NothingSkipped
<1>1. Dvach!InOrder BY DEF DvachInv, SentPassed
<1>2. Dvach!NothingSkipped
  <2> SUFFICES ASSUME NEW p \in (read \cap Matching) \ deleted, p < stored PROVE p \in ToSet(sent)
    BY DvachOperators DEF Dvach!NothingSkipped
  <2>1. p \in Matching \cap Dvach!Existing /\ p \in Int
    BY DEF DvachInv, OffsetsReached, Dvach!Existing
  <2>2. stored \in Int BY DEF DvachInv, Dvach!TypeOK
  <2>3. Past(stored, p) BY <2>1, <2>2 DEF Past
  <2> QED BY <2>1, <2>3 DEF DvachInv, NoneLost
<1> QED BY <1>1, <1>2 DEF DvachInv

-----------------------------------------------------------------------------
(* Subscriptions to a subreddit.                                           *)

\* What the queue of a feed holds.
Updates == [thing : Things, sent : SUBSET Things, clean : Subreddit!Ages]
QueueTypes == updates \in [Feeds -> Seq(Updates)]

\* Every row of the table has the age of the last listing with the thing; what has
\* no row was not listed for ThingTTL.
AgesAgree ==
  \A t \in Things :
    IF lastSeen[t] = Subreddit!NoRow THEN shown[t] > ThingTTL ELSE lastSeen[t] = shown[t]

\* What a copy of the sent IDs of a feed has to have, and may have.
Complete(f, ids) ==
  \A t \in relayed[f] : t \in ids \/ t \in absent[f] \/ shown[t] > ThingTTL
Recent(ids, clean) == \A t \in ids : shown[t] <= ThingTTL + clean

\* The copy in the row, ...
RowKept(f) ==
  /\ row[f] = {} => relayed[f] = {} /\ vendor[f].at = "idle"
  /\ \A d \in row[f] : Complete(f, d.sent) /\ Recent(d.sent, d.clean)

\* ... the copy of a refresh, ...
VendorKept(f) ==
  vendor[f].at # "idle" =>
    Complete(f, vendor[f].sent) /\ Recent(vendor[f].sent, vendor[f].clean)

\* ... and those of the updates in the queue, each with the updates before it.
QueueKept(f) ==
  /\ updates[f] # <<>> => vendor[f].at = "items" /\ vendor[f].cleaned
  /\ \A i \in DOMAIN updates[f] :
       /\ Complete(f, updates[f][i].sent) /\ Recent(updates[f][i].sent, updates[f][i].clean)
       /\ updates[f][i].thing \in vendor[f].sent \ vendor[f].rest
       /\ \A j \in DOMAIN updates[f] : j <= i => updates[f][j].thing \in updates[f][i].sent

\* What a refresh has yet to look at, once it is saved.
RestKept(f) ==
  /\ vendor[f].at \in {"listed", "deleted"} => ~vendor[f].cleaned
  /\ vendor[f].at \in {"items", "deleted"} =>
       \A t \in vendor[f].rest :
         /\ t \in relayed[f] => t \in vendor[f].sent \cup absent[f]
         /\ shown[t] <= vendor[f].clean
         /\ ~vendor[f].cleaned => lastSeen[t] = 0
  /\ vendor[f].at = "deleted" => \A t \in Things : lastSeen[t] <= ThingTTL

\* The inductive invariant of SubredditVendor.
FeedInv(f) == RowKept(f) /\ VendorKept(f) /\ QueueKept(f) /\ RestKept(f)
SubredditInv == Subreddit!TypeOK /\ QueueTypes /\ AgesAgree /\ \A f \in Feeds : FeedInv(f)

\* The types of a refresh and of a row.
Refreshes == [at : {"idle", "listed", "items", "deleted"}, rest : SUBSET Things,
              sent : SUBSET Things, clean : Subreddit!Ages, cleaned : BOOLEAN, count : 0..Batch]
Rows == [options : OptionSets, sent : SUBSET Things, clean : Subreddit!Ages]
\* The assumptions of SubredditVendor.
SubredditAssumed == Subreddit!ThingAssumption /\ Subreddit!OptionAssumption /\ Subreddit!ConfigAssumption

\* The clock of the model.
LEMMA AgeTypes ==
  ASSUME SubredditAssumed
  PROVE  /\ ThingTTL \in Nat /\ CleanInterval \in Nat /\ Preload \in Nat /\ Batch \in Nat \ {0}
         /\ Subreddit!MaxAge \in Nat /\ Subreddit!Ages = 0..Subreddit!MaxAge /\ Subreddit!MaxAge > ThingTTL
         /\ Subreddit!Ages \subseteq Int /\ 0 \in Subreddit!Ages /\ Subreddit!MaxAge \in Subreddit!Ages
BY DEF SubredditAssumed, Subreddit!ConfigAssumption, Subreddit!MaxAge, Subreddit!Ages

\* Ageing yields an age that is no less.
LEMMA OlderAge ==
  ASSUME SubredditAssumed, NEW a \in Subreddit!Ages
  PROVE  Subreddit!Older(a) \in Subreddit!Ages /\ Subreddit!Older(a) >= a
BY AgeTypes DEF Subreddit!Older

\* Ageing keeps the order of ages, whatever they are ahead of each other.
LEMMA OlderOrder ==
  ASSUME SubredditAssumed, NEW a \in Subreddit!Ages, NEW b \in Subreddit!Ages, NEW c \in Nat, a <= c + b
  PROVE  Subreddit!Older(a) <= c + Subreddit!Older(b)
<1>1. Subreddit!MaxAge \in Nat /\ a \in 0..Subreddit!MaxAge /\ b \in 0..Subreddit!MaxAge BY AgeTypes
<1>2. Subreddit!Older(a) = IF a < Subreddit!MaxAge THEN a + 1 ELSE a BY <1>1 DEF Subreddit!Older
<1>3. Subreddit!Older(b) = IF b < Subreddit!MaxAge THEN b + 1 ELSE b BY <1>1 DEF Subreddit!Older
<1>4. CASE b < Subreddit!MaxAge BY <1>1, <1>2, <1>3, <1>4
<1>5. CASE b = Subreddit!MaxAge BY <1>1, <1>2, <1>3, <1>5
<1> QED BY <1>1, <1>4, <1>5

\* The types of what belongs to one feed.
LEMMA FeedTypes ==
  ASSUME Subreddit!TypeOK, QueueTypes, NEW f \in Feeds
  PROVE  /\ vendor[f] \in Refreshes /\ row[f] \subseteq Rows
         /\ updates[f] \in Seq(Updates) /\ Len(updates[f]) \in Nat /\ Len(updates[f]) <= Preload
         /\ DOMAIN updates[f] = 1..Len(updates[f])
         /\ \A i \in DOMAIN updates[f] : updates[f][i] \in Updates
         /\ relayed[f] \subseteq Things /\ absent[f] \subseteq Things
         /\ (row[f] # {} => Subreddit!Data(f) \in Rows /\ Subreddit!Data(f) \in row[f])
<1>1. vendor[f] \in Refreshes /\ row[f] \subseteq Rows /\ Len(updates[f]) <= Preload
      /\ relayed[f] \subseteq Things /\ absent[f] \subseteq Things
  BY DEF Subreddit!TypeOK, Refreshes, Rows
<1>2. updates[f] \in Seq(Updates) BY DEF QueueTypes
<1>3. Len(updates[f]) \in Nat /\ DOMAIN updates[f] = 1..Len(updates[f]) BY <1>2, LenProperties
<1>4. \A i \in DOMAIN updates[f] : updates[f][i] \in Updates BY <1>2, <1>3, ElementOfSeq
<1>5. row[f] # {} => Subreddit!Data(f) \in row[f] BY DEF Subreddit!Data
<1> QED BY <1>1, <1>2, <1>3, <1>4, <1>5

\* A step leaves a feed as it is that changes neither its variables nor the ages.
LEMMA Elsewhere ==
  ASSUME NEW g \in Feeds, FeedInv(g), UNCHANGED <<lastSeen, shown>>,
         row'[g] = row[g], vendor'[g] = vendor[g], updates'[g] = updates[g],
         relayed'[g] = relayed[g], absent'[g] = absent[g]
  PROVE  FeedInv(g)'
<1>1. RowKept(g)' BY DEF FeedInv, RowKept, Complete, Recent
<1>2. VendorKept(g)' BY DEF FeedInv, VendorKept, Complete, Recent
<1>3. QueueKept(g)' BY DEF FeedInv, QueueKept, Complete, Recent
<1>4. RestKept(g)' BY DEF FeedInv, RestKept
<1> QED BY <1>1, <1>2, <1>3, <1>4 DEF FeedInv

\* The vendor of a feed before its first refresh.
LEMMA IdleType ==
  SubredditAssumed => Subreddit!Idle \in Refreshes /\ Subreddit!Idle.cleaned = FALSE /\ Subreddit!Idle.at = "idle"
BY AgeTypes DEF Subreddit!Idle, Refreshes

\* The initial state satisfies the invariant.
LEMMA SubredditInit == SubredditAssumed /\ Subreddit!Init => SubredditInv
<1> SUFFICES ASSUME SubredditAssumed, Subreddit!Init PROVE SubredditInv OBVIOUS
<1> USE DEF Subreddit!Init
<1>1. Subreddit!Idle \in Refreshes BY IdleType
<1>2. <<>> \in Seq(Updates) /\ Len(<<>>) = 0 BY EmptySeq
<1>3. Subreddit!TypeOK
  <2>1. lastSeen \in [Things -> Subreddit!Ages \cup {Subreddit!NoRow}] /\ shown \in [Things -> Subreddit!Ages]
    BY AgeTypes
  <2>2. row \in [Feeds -> SUBSET Rows] /\ vendor \in [Feeds -> Refreshes] BY <1>1
  <2>3. \A f \in Feeds : Len(updates[f]) <= Preload BY <1>2, AgeTypes
  <2>4. relayed \in [Feeds -> SUBSET Things] /\ absent \in [Feeds -> SUBSET Things] OBVIOUS
  <2> QED BY <2>1, <2>2, <2>3, <2>4 DEF Subreddit!TypeOK, Refreshes, Rows
<1>4. QueueTypes BY <1>2 DEF QueueTypes
<1>5. AgesAgree BY AgeTypes DEF AgesAgree, Subreddit!NoRow
<1>6. ASSUME NEW f \in Feeds PROVE FeedInv(f)
  <2>1. vendor[f].at = "idle" /\ ~vendor[f].cleaned /\ row[f] = {} /\ relayed[f] = {} /\ updates[f] = <<>>
    BY DEF Subreddit!Idle
  <2> QED BY <2>1 DEF FeedInv, RowKept, VendorKept, QueueKept, RestKept
<1> QED BY <1>3, <1>4, <1>5, <1>6 DEF SubredditInv

\* All ages grow together: what was recent is recent, or is older than ThingTTL.
LEMMA SubredditTick ==
  ASSUME SubredditAssumed, SubredditInv, Subreddit!Tick
  PROVE  SubredditInv'
<1> USE DEF SubredditInv
<1>1. \A t \in Things : /\ lastSeen'[t] = Subreddit!Older(lastSeen[t]) /\ shown'[t] = Subreddit!Older(shown[t])
                        /\ lastSeen[t] \in Subreddit!Ages \cup {Subreddit!NoRow} /\ shown[t] \in Subreddit!Ages
  BY DEF Subreddit!Tick, Subreddit!TypeOK
<1>2. Subreddit!Older(Subreddit!NoRow) = Subreddit!NoRow
  BY AgeTypes DEF Subreddit!Older, Subreddit!NoRow
<1>3. \A t \in Things : shown'[t] \in Subreddit!Ages /\ shown'[t] >= shown[t] BY <1>1, OlderAge
<1>4. \A t \in Things : lastSeen'[t] \in Subreddit!Ages \cup {Subreddit!NoRow}
  BY <1>1, <1>2, OlderAge
<1>5. \A f \in Feeds : vendor'[f] = [vendor[f] EXCEPT !.clean = Subreddit!Older(@)] /\ vendor'[f] \in Refreshes
  <2> SUFFICES ASSUME NEW f \in Feeds
               PROVE  vendor'[f] = [vendor[f] EXCEPT !.clean = Subreddit!Older(@)] /\ vendor'[f] \in Refreshes
    OBVIOUS
  <2>1. vendor'[f] = [vendor[f] EXCEPT !.clean = Subreddit!Older(@)] BY DEF Subreddit!Tick
  <2>2. vendor[f] \in Refreshes BY FeedTypes
  <2>3. Subreddit!Older(vendor[f].clean) \in Subreddit!Ages BY <2>2, OlderAge DEF Refreshes
  <2> QED BY <2>1, <2>2, <2>3 DEF Refreshes
<1>6. \A f \in Feeds : row'[f] = {[d EXCEPT !.clean = Subreddit!Older(@)] : d \in row[f]} /\ row'[f] \subseteq Rows
  <2> SUFFICES ASSUME NEW f \in Feeds
               PROVE  row'[f] = {[d EXCEPT !.clean = Subreddit!Older(@)] : d \in row[f]} /\ row'[f] \subseteq Rows
    OBVIOUS
  <2>1. row'[f] = {[d EXCEPT !.clean = Subreddit!Older(@)] : d \in row[f]} BY DEF Subreddit!Tick
  <2>2. ASSUME NEW d \in row[f] PROVE [d EXCEPT !.clean = Subreddit!Older(@)] \in Rows
    <3>1. d \in Rows BY FeedTypes
    <3>2. Subreddit!Older(d.clean) \in Subreddit!Ages BY <3>1, OlderAge DEF Rows
    <3> QED BY <3>1, <3>2 DEF Rows
  <2> QED BY <2>1, <2>2
<1>7. \A f \in Feeds :
        /\ updates'[f] \in Seq(Updates) /\ Len(updates'[f]) = Len(updates[f])
        /\ DOMAIN updates'[f] = DOMAIN updates[f]
        /\ \A i \in DOMAIN updates[f] : updates'[f][i] = [updates[f][i] EXCEPT !.clean = Subreddit!Older(@)]
  <2> SUFFICES ASSUME NEW f \in Feeds
               PROVE  /\ updates'[f] \in Seq(Updates) /\ Len(updates'[f]) = Len(updates[f])
                      /\ DOMAIN updates'[f] = DOMAIN updates[f]
                      /\ \A i \in DOMAIN updates[f] : updates'[f][i] = [updates[f][i] EXCEPT !.clean = Subreddit!Older(@)]
    OBVIOUS
  <2>1. updates'[f] = [i \in DOMAIN updates[f] |-> [updates[f][i] EXCEPT !.clean = Subreddit!Older(@)]]
    BY DEF Subreddit!Tick
  <2>2. DOMAIN updates[f] = 1..Len(updates[f]) /\ Len(updates[f]) \in Nat BY FeedTypes
  <2>3. ASSUME NEW i \in DOMAIN updates[f] PROVE [updates[f][i] EXCEPT !.clean = Subreddit!Older(@)] \in Updates
    <3>1. updates[f][i] \in Updates BY FeedTypes
    <3>2. Subreddit!Older(updates[f][i].clean) \in Subreddit!Ages BY <3>1, OlderAge DEF Updates
    <3> QED BY <3>1, <3>2 DEF Updates
  <2>4. updates'[f] \in [1..Len(updates[f]) -> Updates] BY <2>1, <2>2, <2>3
  <2>5. updates'[f] \in Seq(Updates) BY <2>2, <2>4, SeqDef
  <2>6. Len(updates'[f]) = Len(updates[f]) BY <2>2, <2>4, <2>5, LenProperties
  <2> QED BY <2>1, <2>5, <2>6
<1>8. Subreddit!TypeOK'
  <2>1. lastSeen' \in [Things -> Subreddit!Ages \cup {Subreddit!NoRow}] /\ shown' \in [Things -> Subreddit!Ages]
    BY <1>3, <1>4 DEF Subreddit!Tick
  <2>2. row' \in [Feeds -> SUBSET Rows] /\ vendor' \in [Feeds -> Refreshes]
    BY <1>5, <1>6 DEF Subreddit!Tick
  <2>3. \A f \in Feeds : Len(updates'[f]) <= Preload BY <1>7, FeedTypes
  <2> QED BY <2>1, <2>2, <2>3 DEF Subreddit!TypeOK, Refreshes, Rows, Subreddit!Tick
<1>9. QueueTypes' BY <1>7 DEF QueueTypes, Subreddit!Tick
<1>10. AgesAgree'
  <2> SUFFICES ASSUME NEW t \in Things
               PROVE  IF lastSeen'[t] = Subreddit!NoRow THEN shown'[t] > ThingTTL ELSE lastSeen'[t] = shown'[t]
    BY DEF AgesAgree
  <2>1. CASE lastSeen[t] = Subreddit!NoRow
    <3>1. shown[t] > ThingTTL BY <2>1 DEF AgesAgree
    <3> QED BY <1>1, <1>2, <1>3, <2>1, <3>1, AgeTypes
  <2>2. CASE lastSeen[t] # Subreddit!NoRow
    <3>1. lastSeen[t] = shown[t] BY <2>2 DEF AgesAgree
    <3>2. shown'[t] # Subreddit!NoRow BY <1>3, AgeTypes DEF Subreddit!NoRow
    <3> QED BY <1>1, <3>1, <3>2
  <2> QED BY <2>1, <2>2
<1>11. ASSUME NEW f \in Feeds PROVE FeedInv(f)'
  <2>1. relayed'[f] = relayed[f] /\ absent'[f] = absent[f] BY DEF Subreddit!Tick
  <2>2. \A ids : Complete(f, ids) => Complete(f, ids)'
    <3>1. \A t \in relayed[f] : shown[t] > ThingTTL => shown'[t] > ThingTTL
      <4> SUFFICES ASSUME NEW t \in relayed[f], shown[t] > ThingTTL PROVE shown'[t] > ThingTTL OBVIOUS
      <4>1. t \in Things BY FeedTypes
      <4> QED BY <1>1, <1>3, <4>1, AgeTypes
    <3> QED BY <2>1, <3>1 DEF Complete
  <2>3. \A ids \in SUBSET Things, c \in Subreddit!Ages : Recent(ids, c) => Recent(ids, Subreddit!Older(c))'
    <3> SUFFICES ASSUME NEW ids \in SUBSET Things, NEW c \in Subreddit!Ages, Recent(ids, c), NEW t \in ids
                 PROVE  shown'[t] <= ThingTTL + Subreddit!Older(c)
      BY DEF Recent
    <3>1. shown[t] \in Subreddit!Ages /\ shown'[t] = Subreddit!Older(shown[t]) BY <1>1
    <3>2. shown[t] <= ThingTTL + c BY DEF Recent
    <3> QED BY <3>1, <3>2, OlderOrder, AgeTypes
  <2>4. RowKept(f)'
    <3>1. ASSUME NEW e \in row'[f] PROVE Complete(f, e.sent)' /\ Recent(e.sent, e.clean)'
      <4>1. PICK d \in row[f] : e = [d EXCEPT !.clean = Subreddit!Older(@)] BY <1>6, <3>1
      <4>2. d \in Rows BY FeedTypes
      <4>3. e.sent = d.sent /\ e.clean = Subreddit!Older(d.clean) /\ d.sent \in SUBSET Things /\ d.clean \in Subreddit!Ages
        BY <4>1, <4>2 DEF Rows
      <4>4. Complete(f, d.sent) /\ Recent(d.sent, d.clean) BY DEF FeedInv, RowKept
      <4> QED BY <2>2, <2>3, <4>3, <4>4
    <3>2. ASSUME NEW d \in row[f] PROVE row'[f] # {}
      <4>1. [d EXCEPT !.clean = Subreddit!Older(@)] \in row'[f] BY <1>6
      <4> QED BY <4>1
    <3>3. vendor'[f].at = vendor[f].at BY <1>5, FeedTypes DEF Refreshes
    <3> QED BY <2>1, <3>1, <3>2, <3>3 DEF FeedInv, RowKept
  <2>5. /\ vendor[f].sent \in SUBSET Things /\ vendor[f].clean \in Subreddit!Ages
        /\ vendor'[f].at = vendor[f].at /\ vendor'[f].sent = vendor[f].sent /\ vendor'[f].rest = vendor[f].rest
        /\ vendor'[f].clean = Subreddit!Older(vendor[f].clean) /\ vendor'[f].cleaned = vendor[f].cleaned
    <3>1. vendor[f] \in Refreshes BY FeedTypes
    <3>2. vendor'[f] = [vendor[f] EXCEPT !.clean = Subreddit!Older(@)] BY <1>5
    <3> QED BY <3>1, <3>2 DEF Refreshes
  <2>6. VendorKept(f)' BY <2>2, <2>3, <2>5 DEF FeedInv, VendorKept
  <2>7. QueueKept(f)'
    <3>1. ASSUME NEW i \in DOMAIN updates[f]
          PROVE  /\ updates'[f][i].thing = updates[f][i].thing /\ updates'[f][i].sent = updates[f][i].sent
                 /\ Complete(f, updates[f][i].sent)' /\ Recent(updates[f][i].sent, updates[f][i].clean)'
      <4>1. PICK u \in Updates : u = updates[f][i] BY FeedTypes
      <4>2. updates'[f][i] = [u EXCEPT !.clean = Subreddit!Older(@)] BY <1>7, <4>1
      <4>3. PICK v : v = updates'[f][i] OBVIOUS
      <4>4. /\ v.thing = u.thing /\ v.sent = u.sent /\ v.clean = Subreddit!Older(u.clean)
            /\ u.sent \in SUBSET Things /\ u.clean \in Subreddit!Ages
        BY <4>2, <4>3 DEF Updates
      <4>5. Complete(f, u.sent) /\ Recent(u.sent, u.clean) BY <4>1 DEF FeedInv, QueueKept
      <4>6. Complete(f, v.sent)' /\ Recent(v.sent, v.clean)' BY <2>2, <2>3, <4>4, <4>5
      <4> QED BY <4>1, <4>3, <4>4, <4>6
    <3>2. updates'[f] # <<>> => updates[f] # <<>> BY <1>7, FeedTypes, EmptySeq
    <3>3. DOMAIN updates'[f] = DOMAIN updates[f] BY <1>7
    <3>4. QueueKept(f) BY DEF FeedInv
    <3>5. updates'[f] # <<>> => vendor'[f].at = "items" /\ vendor'[f].cleaned
      BY <2>5, <3>2, <3>4 DEF QueueKept
    <3>6. \A i \in DOMAIN updates'[f] :
            /\ updates'[f][i].thing \in vendor'[f].sent \ vendor'[f].rest
            /\ \A j \in DOMAIN updates'[f] : j <= i => updates'[f][j].thing \in updates'[f][i].sent
      BY <2>5, <3>1, <3>3, <3>4 DEF QueueKept
    <3>7. \A i \in DOMAIN updates'[f] : Complete(f, updates[f][i].sent)' /\ Recent(updates[f][i].sent, updates[f][i].clean)'
      BY <3>1, <3>3
    <3> QED BY <3>5, <3>6, <3>7 DEF QueueKept
  <2>8. RestKept(f)'
    <3>1. vendor[f].at = "idle" \/ vendor[f].cleaned BY DEF Subreddit!Tick
    <3>2. vendor[f].at # "deleted" BY <3>1 DEF FeedInv, RestKept
    <3>3. ASSUME NEW t \in vendor[f].rest, shown[t] <= vendor[f].clean PROVE shown'[t] <= vendor'[f].clean
      <4>1. t \in Things BY FeedTypes DEF Refreshes
      <4>2. shown[t] \in Subreddit!Ages /\ shown'[t] = Subreddit!Older(shown[t]) /\ shown[t] <= 0 + vendor[f].clean
        BY <1>1, <2>5, <3>3, <4>1, AgeTypes
      <4>3. Subreddit!Older(shown[t]) <= 0 + Subreddit!Older(vendor[f].clean)
        BY <2>5, <4>2, OlderOrder
      <4> QED BY <2>5, <4>2, <4>3, OlderAge, AgeTypes
    <3> QED BY <2>1, <2>5, <3>1, <3>2, <3>3 DEF FeedInv, RestKept
  <2> QED BY <2>4, <2>6, <2>7, <2>8 DEF FeedInv
<1> QED BY <1>8, <1>9, <1>10, <1>11

\* A step of one feed.
LEMMA OfOneFeed ==
  ASSUME SubredditInv, NEW f \in Feeds, Subreddit!TypeOK', QueueTypes', UNCHANGED <<lastSeen, shown>>, FeedInv(f)',
         \A g \in Feeds \ {f} : /\ row'[g] = row[g] /\ vendor'[g] = vendor[g] /\ updates'[g] = updates[g]
                                /\ relayed'[g] = relayed[g] /\ absent'[g] = absent[g]
  PROVE  SubredditInv'
<1>1. ASSUME NEW g \in Feeds PROVE FeedInv(g)'
  <2>1. CASE g = f BY <2>1
  <2>2. CASE g # f BY <2>2, Elsewhere DEF SubredditInv
  <2> QED BY <2>1, <2>2
<1>2. AgesAgree' BY DEF SubredditInv, AgesAgree
<1> QED BY <1>1, <1>2 DEF SubredditInv

\* A step that changes a refresh only.
LEMMA OfOneRefresh ==
  ASSUME SubredditInv, NEW f \in Feeds, NEW w \in Refreshes, vendor' = [vendor EXCEPT ![f] = w],
         UNCHANGED <<lastSeen, row, updates, Subreddit!ghosts>>,
         VendorKept(f)', QueueKept(f)', RestKept(f)', row[f] # {} \/ w.at = "idle"
  PROVE  SubredditInv'
<1> USE DEF Subreddit!ghosts
<1>1. Subreddit!TypeOK'
  <2>1. vendor' \in [Feeds -> Refreshes] BY DEF SubredditInv, Subreddit!TypeOK, Refreshes
  <2> QED BY <2>1 DEF SubredditInv, Subreddit!TypeOK, Refreshes
<1>2. QueueTypes' BY DEF SubredditInv, QueueTypes
<1>3. vendor'[f] = w BY DEF SubredditInv, Subreddit!TypeOK
<1>4. RowKept(f)' BY <1>3 DEF SubredditInv, FeedInv, RowKept, Complete, Recent
<1>5. FeedInv(f)' BY <1>4 DEF FeedInv
<1>6. \A g \in Feeds \ {f} : vendor'[g] = vendor[g] BY DEF SubredditInv, Subreddit!TypeOK
<1> QED BY <1>1, <1>2, <1>5, <1>6, OfOneFeed

\* A new row has nothing sent, and nothing was relayed to its feed.
LEMMA SubredditParse ==
  ASSUME SubredditAssumed, SubredditInv, NEW f \in Feeds, Subreddit!Parse(f)
  PROVE  SubredditInv'
<1> USE DEF Subreddit!ghosts
<1>1. PICK options \in OptionSets :
        row' = [row EXCEPT ![f] = {[options |-> options, sent |-> {}, clean |-> Subreddit!MaxAge]}]
  BY DEF Subreddit!Parse
<1>2. row[f] = {} /\ UNCHANGED <<lastSeen, vendor, updates, Subreddit!ghosts>>
  BY DEF Subreddit!Parse
<1>3. row \in [Feeds -> SUBSET Rows] BY DEF SubredditInv, Subreddit!TypeOK, Rows
<1> DEFINE d == [options |-> options, sent |-> {}, clean |-> Subreddit!MaxAge]
<1>4. d \in Rows BY AgeTypes DEF Rows
<1>5. d.sent = {} OBVIOUS
<1>6. row' = [row EXCEPT ![f] = {d}] BY <1>1
<1> HIDE DEF d
<1>7. row' \in [Feeds -> SUBSET Rows] /\ row'[f] = {d} /\ \A g \in Feeds \ {f} : row'[g] = row[g]
  BY <1>3, <1>4, <1>6
<1>8. Subreddit!TypeOK' /\ QueueTypes'
  BY <1>2, <1>7 DEF SubredditInv, Subreddit!TypeOK, QueueTypes, Rows
<1>9. RowKept(f)'
  <2>1. relayed[f] = {} BY <1>2 DEF SubredditInv, FeedInv, RowKept
  <2> QED BY <1>2, <1>5, <1>7, <2>1 DEF RowKept, Complete, Recent
<1>10. FeedInv(f)'
  BY <1>2, <1>9 DEF SubredditInv, FeedInv, VendorKept, QueueKept, RestKept, Complete, Recent
<1> QED BY <1>2, <1>7, <1>8, <1>10, OfOneFeed

\* A refresh starts from the row.
LEMMA SubredditGetListing ==
  ASSUME SubredditAssumed, SubredditInv, NEW f \in Feeds, Subreddit!GetListing(f)
  PROVE  SubredditInv'
<1> USE DEF Subreddit!ghosts
<1>1. PICK things \in SUBSET Things : vendor' = [vendor EXCEPT ![f] =
         [Subreddit!Idle EXCEPT !.at = "listed", !.rest = things,
                      !.sent = Subreddit!Data(f).sent, !.clean = Subreddit!Data(f).clean]]
  BY DEF Subreddit!GetListing
<1>2. /\ row[f] # {} /\ vendor[f].at = "idle" /\ UNCHANGED <<lastSeen, row, updates, Subreddit!ghosts>>
  BY DEF Subreddit!GetListing
<1>3. Subreddit!Data(f) \in Rows /\ Subreddit!Data(f) \in row[f] BY <1>2, FeedTypes DEF SubredditInv
<1> PICK d \in Rows : d = Subreddit!Data(f) BY <1>3
<1> PICK w : w = [Subreddit!Idle EXCEPT !.at = "listed", !.rest = things, !.sent = d.sent, !.clean = d.clean]
  OBVIOUS
<1>4. w \in Refreshes /\ w.at = "listed" /\ w.sent = d.sent /\ w.clean = d.clean /\ w.cleaned = FALSE
  <2>1. Subreddit!Idle \in Refreshes /\ Subreddit!Idle.cleaned = FALSE BY IdleType
  <2> QED BY <2>1 DEF Refreshes, Rows
<1>5. vendor' = [vendor EXCEPT ![f] = w] BY <1>1
<1>6. vendor'[f] = w BY <1>5 DEF SubredditInv, Subreddit!TypeOK
<1>7. Complete(f, d.sent) /\ Recent(d.sent, d.clean) BY <1>3 DEF SubredditInv, FeedInv, RowKept
<1>8. VendorKept(f)' BY <1>2, <1>4, <1>6, <1>7 DEF VendorKept, Complete, Recent
<1>9. updates[f] = <<>> BY <1>2 DEF SubredditInv, FeedInv, QueueKept
<1>10. QueueKept(f)' BY <1>2, <1>9 DEF QueueKept
<1>11. RestKept(f)' BY <1>4, <1>6 DEF RestKept
<1> QED BY <1>2, <1>4, <1>5, <1>8, <1>10, <1>11, OfOneRefresh

\* A refresh passes by a thing.
LEMMA SubredditSkip ==
  ASSUME SubredditAssumed, SubredditInv, NEW f \in Feeds, Subreddit!Skip(f)
  PROVE  SubredditInv'
<1> USE DEF Subreddit!ghosts
<1> PICK w : w = [vendor[f] EXCEPT !.rest = @ \ {Subreddit!NextThing(f)}] OBVIOUS
<1>1. vendor[f] \in Refreshes BY FeedTypes DEF SubredditInv
<1>2. /\ w \in Refreshes /\ w.at = vendor[f].at /\ w.sent = vendor[f].sent /\ w.clean = vendor[f].clean
      /\ w.cleaned = vendor[f].cleaned /\ w.rest \subseteq vendor[f].rest
  BY <1>1 DEF Refreshes
<1>3. vendor' = [vendor EXCEPT ![f] = w] /\ UNCHANGED <<lastSeen, row, updates, Subreddit!ghosts>>
  BY DEF Subreddit!Skip
<1>4. vendor'[f] = w BY <1>3 DEF SubredditInv, Subreddit!TypeOK
<1>5. FeedInv(f) /\ row[f] # {}
  BY DEF SubredditInv, FeedInv, RowKept, Subreddit!Skip, Subreddit!InLoop
<1>6. VendorKept(f)' BY <1>2, <1>3, <1>4, <1>5 DEF FeedInv, VendorKept, Complete, Recent
<1>7. QueueKept(f)' BY <1>2, <1>3, <1>4, <1>5 DEF FeedInv, QueueKept, Complete, Recent
<1>8. RestKept(f)' BY <1>2, <1>3, <1>4, <1>5 DEF FeedInv, RestKept
<1> QED BY <1>2, <1>3, <1>5, <1>6, <1>7, <1>8, OfOneRefresh

\* A refresh finds that it is not yet time to clean.
LEMMA SubredditSkipClean ==
  ASSUME SubredditAssumed, SubredditInv, NEW f \in Feeds, Subreddit!SkipClean(f)
  PROVE  SubredditInv'
<1> USE DEF Subreddit!ghosts
<1> PICK w : w = [vendor[f] EXCEPT !.cleaned = TRUE] OBVIOUS
<1>1. vendor[f] \in Refreshes BY FeedTypes DEF SubredditInv
<1>2. /\ w \in Refreshes /\ w.at = vendor[f].at /\ w.sent = vendor[f].sent /\ w.clean = vendor[f].clean
      /\ w.cleaned = TRUE /\ w.rest = vendor[f].rest
  BY <1>1 DEF Refreshes
<1>3. vendor' = [vendor EXCEPT ![f] = w] /\ UNCHANGED <<lastSeen, row, updates, Subreddit!ghosts>>
  BY DEF Subreddit!SkipClean
<1>4. vendor'[f] = w BY <1>3 DEF SubredditInv, Subreddit!TypeOK
<1>5. FeedInv(f) /\ row[f] # {} /\ vendor[f].at = "items"
  BY DEF SubredditInv, FeedInv, RowKept, Subreddit!SkipClean, Subreddit!Wanted, Subreddit!InLoop
<1>6. VendorKept(f)' BY <1>2, <1>3, <1>4, <1>5 DEF FeedInv, VendorKept, Complete, Recent
<1>7. QueueKept(f)' BY <1>2, <1>3, <1>4, <1>5 DEF FeedInv, QueueKept, Complete, Recent
<1>8. RestKept(f)' BY <1>2, <1>3, <1>4, <1>5 DEF FeedInv, RestKept
<1> QED BY <1>2, <1>3, <1>5, <1>6, <1>7, <1>8, OfOneRefresh

\* What cleaning drops from the sent IDs is not in the table, so it is not listed.
LEMMA SubredditGetFresh ==
  ASSUME SubredditAssumed, SubredditInv, NEW f \in Feeds, Subreddit!GetFreshThingIDs(f)
  PROVE  SubredditInv'
<1> USE DEF Subreddit!ghosts
<1>1. vendor[f] \in Refreshes BY FeedTypes DEF SubredditInv
<1>2. vendor[f].at = "deleted" /\ UNCHANGED <<lastSeen, row, updates, Subreddit!ghosts>>
  BY DEF Subreddit!GetFreshThingIDs
<1> PICK w : w = [vendor[f] EXCEPT !.at = "items", !.cleaned = TRUE, !.sent = Subreddit!FreshIDs(@), !.clean = 0]
  OBVIOUS
<1>3. Subreddit!FreshIDs(vendor[f].sent) \subseteq Things BY <1>1 DEF Subreddit!FreshIDs, Refreshes
<1>4. /\ w \in Refreshes /\ w.at = "items" /\ w.sent = Subreddit!FreshIDs(vendor[f].sent) /\ w.clean = 0
      /\ w.cleaned = TRUE /\ w.rest = vendor[f].rest
  BY <1>1, <1>3, AgeTypes DEF Refreshes
<1>5. vendor' = [vendor EXCEPT ![f] = w] BY DEF Subreddit!GetFreshThingIDs
<1>6. vendor'[f] = w BY <1>5 DEF SubredditInv, Subreddit!TypeOK
<1>7. FeedInv(f) /\ row[f] # {} BY <1>2 DEF SubredditInv, FeedInv, RowKept
<1>8. ~vendor[f].cleaned /\ updates[f] = <<>> BY <1>2, <1>7 DEF FeedInv, QueueKept, RestKept
<1>9. \A t \in Things : lastSeen[t] # Subreddit!NoRow => shown[t] = lastSeen[t] /\ shown[t] <= ThingTTL
  BY <1>2, <1>7 DEF SubredditInv, AgesAgree, FeedInv, RestKept
<1>10. \A t \in Things : lastSeen[t] = Subreddit!NoRow => shown[t] > ThingTTL
  BY DEF SubredditInv, AgesAgree
<1>11. VendorKept(f)'
  <2>1. Complete(f, w.sent)
    <3> SUFFICES ASSUME NEW t \in relayed[f], t \notin absent[f], ~(shown[t] > ThingTTL)
                 PROVE  t \in Subreddit!FreshIDs(vendor[f].sent)
      BY <1>4 DEF Complete
    <3>1. t \in vendor[f].sent BY <1>2, <1>7 DEF FeedInv, VendorKept, Complete
    <3>2. t \in Things BY <1>1, <3>1 DEF Refreshes
    <3> QED BY <1>10, <3>1, <3>2 DEF Subreddit!FreshIDs
  <2>2. Recent(w.sent, w.clean)
    <3> SUFFICES ASSUME NEW t \in Subreddit!FreshIDs(vendor[f].sent) PROVE shown[t] <= ThingTTL + 0
      BY <1>4 DEF Recent
    <3>1. shown[t] <= ThingTTL BY <1>3, <1>9 DEF Subreddit!FreshIDs
    <3> QED BY <3>1, AgeTypes
  <2> QED BY <1>2, <1>6, <2>1, <2>2 DEF VendorKept, Complete, Recent
<1>12. QueueKept(f)' BY <1>2, <1>8 DEF QueueKept
<1>13. RestKept(f)'
  <2> SUFFICES ASSUME NEW t \in vendor[f].rest
               PROVE  (t \in relayed[f] => t \in Subreddit!FreshIDs(vendor[f].sent) \cup absent[f]) /\ shown[t] <= 0
    BY <1>2, <1>4, <1>6 DEF RestKept
  <2>1. /\ t \in relayed[f] => t \in vendor[f].sent \cup absent[f]
        /\ lastSeen[t] = 0 /\ t \in Things
    BY <1>1, <1>2, <1>7, <1>8 DEF FeedInv, RestKept, Refreshes
  <2>2. lastSeen[t] # Subreddit!NoRow BY <2>1 DEF Subreddit!NoRow
  <2> QED BY <1>9, <2>1, <2>2 DEF Subreddit!FreshIDs
<1> QED BY <1>2, <1>4, <1>5, <1>7, <1>11, <1>12, <1>13, OfOneRefresh

\* Min is the same in every instance.
LEMMA SubredditOperators == \A S : Subreddit!Min(S) = Min(S)
BY DEF Subreddit!Min, Min

\* The thing that a refresh takes is one of those it has yet to look at.
LEMMA ThingTaken ==
  ASSUME SubredditAssumed, SubredditInv, NEW f \in Feeds, Subreddit!InLoop(f)
  PROVE  Subreddit!NextThing(f) \in vendor[f].rest /\ Subreddit!NextThing(f) \in Things
<1>1. vendor[f].rest \subseteq Things BY FeedTypes DEF SubredditInv, Refreshes
<1>2. vendor[f].rest # {} /\ vendor[f].rest \in SUBSET Nat
  BY <1>1 DEF Subreddit!InLoop, SubredditAssumed, Subreddit!ThingAssumption
<1> QED BY <1>1, <1>2, OfMin, SubredditOperators DEF Subreddit!NextThing

\* An update goes to the queue with the sent IDs that include it.
LEMMA SubredditSubmit ==
  ASSUME SubredditAssumed, SubredditInv, NEW f \in Feeds, Subreddit!Submit(f)
  PROVE  SubredditInv'
<1> USE DEF Subreddit!ghosts
<1> PICK t : t = Subreddit!NextThing(f) OBVIOUS
<1>1. /\ Subreddit!Wanted(f) /\ vendor[f].cleaned /\ Len(updates[f]) < Preload
      /\ UNCHANGED <<lastSeen, row, Subreddit!ghosts>>
      /\ vendor[f].at = "items" /\ t \notin vendor[f].sent /\ ~Subreddit!BatchDone(f)
  BY DEF Subreddit!Submit, Subreddit!Wanted, Subreddit!InLoop
<1>2. t \in vendor[f].rest /\ t \in Things BY <1>1, ThingTaken DEF Subreddit!Wanted
<1>3. vendor[f] \in Refreshes /\ updates[f] \in Seq(Updates) /\ Len(updates[f]) \in Nat
      /\ DOMAIN updates[f] = 1..Len(updates[f])
  BY FeedTypes DEF SubredditInv
<1> PICK w : w = [vendor[f] EXCEPT !.sent = vendor[f].sent \cup {t}, !.rest = @ \ {t}, !.count = @ + 1]
  OBVIOUS
<1> PICK u : u = [thing |-> t, sent |-> vendor[f].sent \cup {t}, clean |-> vendor[f].clean] OBVIOUS
<1> PICK q : q = Append(updates[f], u) OBVIOUS
<1>4. vendor' = [vendor EXCEPT ![f] = w] /\ updates' = [updates EXCEPT ![f] = q]
  BY DEF Subreddit!Submit
<1>5. vendor[f].count + 1 \in 0..Batch BY <1>1, <1>3, AgeTypes DEF Subreddit!BatchDone, Refreshes
<1>6. /\ w \in Refreshes /\ w.at = "items" /\ w.sent = vendor[f].sent \cup {t}
      /\ w.rest = vendor[f].rest \ {t} /\ w.clean = vendor[f].clean /\ w.cleaned = TRUE
  BY <1>1, <1>2, <1>3, <1>5 DEF Refreshes
<1>7. u \in Updates /\ u.thing = t /\ u.sent = w.sent /\ u.clean = w.clean
  BY <1>2, <1>3, <1>6 DEF Updates, Refreshes
<1>8. /\ q \in Seq(Updates) /\ Len(q) = Len(updates[f]) + 1 /\ Len(q) <= Preload
      /\ DOMAIN q = 1..Len(updates[f]) + 1 /\ q[Len(updates[f]) + 1] = u
      /\ \A i \in DOMAIN updates[f] : i \in DOMAIN q /\ i < Len(updates[f]) + 1 /\ q[i] = updates[f][i]
      /\ \A i \in DOMAIN q : i \in DOMAIN updates[f] \/ i = Len(updates[f]) + 1
  <2>1. /\ q \in Seq(Updates) /\ Len(q) = Len(updates[f]) + 1 /\ q[Len(updates[f]) + 1] = u
        /\ \A i \in 1..Len(updates[f]) : q[i] = updates[f][i]
    BY <1>3, <1>7, AppendProperties
  <2>2. DOMAIN q = 1..Len(updates[f]) + 1 BY <2>1, LenProperties
  <2> QED BY <1>1, <1>3, <2>1, <2>2, AgeTypes
<1>9. /\ vendor' \in [Feeds -> Refreshes] /\ vendor'[f] = w
      /\ updates' \in [Feeds -> Seq(Updates)] /\ updates'[f] = q
      /\ \A g \in Feeds \ {f} : vendor'[g] = vendor[g] /\ updates'[g] = updates[g]
  BY <1>4, <1>6, <1>8 DEF SubredditInv, Subreddit!TypeOK, QueueTypes, Refreshes
<1>10. Subreddit!TypeOK' /\ QueueTypes'
  <2>1. \A g \in Feeds : Len(updates'[g]) <= Preload
    BY <1>8, <1>9 DEF SubredditInv, Subreddit!TypeOK
  <2> QED BY <1>1, <1>9, <2>1 DEF SubredditInv, Subreddit!TypeOK, QueueTypes, Refreshes
<1>11. FeedInv(f) /\ row[f] # {} BY <1>1 DEF SubredditInv, FeedInv, RowKept
<1>12. RowKept(f)' BY <1>1, <1>11 DEF FeedInv, RowKept, Complete, Recent
<1>13. Complete(f, w.sent) /\ Recent(w.sent, w.clean)
  <2>1. Complete(f, w.sent) BY <1>1, <1>6, <1>11 DEF FeedInv, VendorKept, Complete
  <2>2. shown[t] <= ThingTTL + w.clean
    <3>1. shown[t] <= vendor[f].clean BY <1>1, <1>2, <1>11 DEF FeedInv, RestKept
    <3>2. shown[t] \in Int /\ vendor[f].clean \in Int
      BY <1>2, <1>3, AgeTypes DEF SubredditInv, Subreddit!TypeOK, Refreshes
    <3> QED BY <1>6, <3>1, <3>2, AgeTypes
  <2>3. Recent(vendor[f].sent, vendor[f].clean) BY <1>1, <1>11 DEF FeedInv, VendorKept
  <2> QED BY <1>6, <2>1, <2>2, <2>3 DEF Recent
<1>14. VendorKept(f)' BY <1>1, <1>9, <1>13 DEF VendorKept, Complete, Recent
<1>15. RestKept(f)' BY <1>1, <1>6, <1>9, <1>11 DEF FeedInv, RestKept
<1>16. \A i \in DOMAIN updates[f] :
         /\ Complete(f, updates[f][i].sent) /\ Recent(updates[f][i].sent, updates[f][i].clean)
         /\ updates[f][i].thing \in vendor[f].sent \ vendor[f].rest
         /\ \A j \in DOMAIN updates[f] : j <= i => updates[f][j].thing \in updates[f][i].sent
  BY <1>11 DEF FeedInv, QueueKept
<1>17. \A i \in DOMAIN q :
         /\ Complete(f, q[i].sent) /\ Recent(q[i].sent, q[i].clean)
         /\ q[i].thing \in w.sent \ w.rest
         /\ \A j \in DOMAIN q : j <= i => q[j].thing \in q[i].sent
  <2> SUFFICES ASSUME NEW i \in DOMAIN q
               PROVE  /\ Complete(f, q[i].sent) /\ Recent(q[i].sent, q[i].clean)
                      /\ q[i].thing \in w.sent \ w.rest
                      /\ \A j \in DOMAIN q : j <= i => q[j].thing \in q[i].sent
    OBVIOUS
  <2>1. CASE i \in DOMAIN updates[f]
    <3>1. q[i] = updates[f][i] BY <1>8, <2>1
    <3>2. \A j \in DOMAIN q : j <= i => j \in DOMAIN updates[f] /\ q[j] = updates[f][j]
      BY <1>3, <1>8, <2>1
    <3> QED BY <1>6, <1>16, <2>1, <3>1, <3>2
  <2>2. CASE i = Len(updates[f]) + 1
    <3>1. q[i] = u BY <1>8, <2>2
    <3>2. \A j \in DOMAIN q : q[j].thing \in w.sent
      <4> SUFFICES ASSUME NEW j \in DOMAIN q PROVE q[j].thing \in w.sent OBVIOUS
      <4>1. CASE j \in DOMAIN updates[f] BY <1>6, <1>8, <1>16, <4>1
      <4>2. CASE j = Len(updates[f]) + 1 BY <1>6, <1>7, <1>8, <4>2
      <4> QED BY <1>8, <4>1, <4>2
    <3> QED BY <1>6, <1>7, <1>13, <3>1, <3>2
  <2> QED BY <1>8, <2>1, <2>2
<1>18. QueueKept(f)'
  <2>1. \A i \in DOMAIN q : Complete(f, q[i].sent)' /\ Recent(q[i].sent, q[i].clean)'
    BY <1>1, <1>17 DEF Complete, Recent
  <2> QED BY <1>6, <1>9, <1>17, <2>1 DEF QueueKept, Complete, Recent
<1>19. FeedInv(f)' BY <1>12, <1>14, <1>15, <1>18 DEF FeedInv
<1> QED BY <1>1, <1>9, <1>10, <1>19, OfOneFeed

\* The row gets the sent IDs of the update that is relayed.
LEMMA SubredditHandle ==
  ASSUME SubredditAssumed, SubredditInv, NEW f \in Feeds, Subreddit!Handle(f)
  PROVE  SubredditInv'
<1> USE DEF Subreddit!ghosts
<1>1. updates[f] # <<>> /\ UNCHANGED <<lastSeen, vendor, shown>> BY DEF Subreddit!Handle
<1>2. /\ updates[f] \in Seq(Updates) /\ Len(updates[f]) \in Nat /\ Len(updates[f]) <= Preload
      /\ DOMAIN updates[f] = 1..Len(updates[f])
  BY FeedTypes DEF SubredditInv
<1>3. Len(updates[f]) \in Nat \ {0} /\ 1 \in DOMAIN updates[f] BY <1>1, <1>2, EmptySeq
<1> PICK u \in Updates : u = updates[f][1] BY <1>2, <1>3, ElementOfSeq
<1>4. Head(updates[f]) = u BY <1>1, <1>2
<1> PICK q : q = Tail(updates[f]) OBVIOUS
<1>5. /\ q \in Seq(Updates) /\ Len(q) <= Preload
      /\ \A i \in DOMAIN q : i + 1 \in DOMAIN updates[f] /\ i \in Int /\ q[i] = updates[f][i + 1]
  <2>1. /\ q \in Seq(Updates) /\ Len(q) = Len(updates[f]) - 1
        /\ \A i \in 1..Len(q) : q[i] = updates[f][i + 1]
    BY <1>1, <1>2, HeadTailProperties
  <2>2. DOMAIN q = 1..Len(q) BY <2>1, LenProperties
  <2> QED BY <1>2, <1>3, <2>1, <2>2, AgeTypes
<1>6. FeedInv(f) BY DEF SubredditInv
<1>7. vendor[f].at = "items" /\ vendor[f].cleaned BY <1>1, <1>6 DEF FeedInv, QueueKept
<1>8. row[f] # {} BY <1>6, <1>7 DEF FeedInv, RowKept
<1> PICK d : d = [options |-> Subreddit!OptionsOf(f), sent |-> u.sent, clean |-> u.clean] OBVIOUS
<1>9. d \in Rows /\ d.sent = u.sent /\ d.clean = u.clean
  <2>1. Subreddit!Data(f) \in Rows BY <1>8, FeedTypes DEF SubredditInv
  <2> QED BY <2>1 DEF Subreddit!OptionsOf, Rows, Updates
<1>10. /\ row' = [row EXCEPT ![f] = {d}] /\ updates' = [updates EXCEPT ![f] = q]
       /\ relayed' = [relayed EXCEPT ![f] = @ \cup {u.thing}]
       /\ absent' = [absent EXCEPT ![f] = @ \ {u.thing}]
  BY <1>4 DEF Subreddit!Handle
<1>11. u.thing \in Things BY DEF Updates
<1>12. /\ row' \in [Feeds -> SUBSET Rows] /\ row'[f] = {d}
       /\ updates' \in [Feeds -> Seq(Updates)] /\ updates'[f] = q
       /\ \A g \in Feeds \ {f} : row'[g] = row[g] /\ updates'[g] = updates[g]
  BY <1>5, <1>9, <1>10 DEF SubredditInv, Subreddit!TypeOK, QueueTypes, Rows
<1>13. /\ relayed' \in [Feeds -> SUBSET Things] /\ relayed'[f] = relayed[f] \cup {u.thing}
       /\ absent' \in [Feeds -> SUBSET Things] /\ absent'[f] = absent[f] \ {u.thing}
       /\ \A g \in Feeds \ {f} : relayed'[g] = relayed[g] /\ absent'[g] = absent[g]
  BY <1>10, <1>11 DEF SubredditInv, Subreddit!TypeOK
<1>14. Subreddit!TypeOK' /\ QueueTypes'
  <2>1. \A g \in Feeds : Len(updates'[g]) <= Preload
    BY <1>5, <1>12 DEF SubredditInv, Subreddit!TypeOK
  <2> QED BY <1>1, <1>12, <1>13, <2>1 DEF SubredditInv, Subreddit!TypeOK, QueueTypes, Rows
<1>15. \A ids : Complete(f, ids) /\ u.thing \in ids => Complete(f, ids)'
  BY <1>1, <1>13 DEF Complete
<1>16. \A i \in DOMAIN updates[f] :
         /\ Complete(f, updates[f][i].sent) /\ Recent(updates[f][i].sent, updates[f][i].clean)
         /\ updates[f][i].thing \in vendor[f].sent \ vendor[f].rest
         /\ \A j \in DOMAIN updates[f] : j <= i => updates[f][j].thing \in updates[f][i].sent
  BY <1>6 DEF FeedInv, QueueKept
<1>17. u.thing \in u.sent /\ u.thing \in vendor[f].sent \ vendor[f].rest BY <1>3, <1>16
<1>18. RowKept(f)'
  <2>1. Complete(f, d.sent)' /\ Recent(d.sent, d.clean)
    <3>1. Complete(f, u.sent) /\ Recent(u.sent, u.clean) BY <1>3, <1>16
    <3> QED BY <1>9, <1>15, <1>17, <3>1
  <2> QED BY <1>1, <1>12, <2>1 DEF RowKept, Recent
<1>19. VendorKept(f)'
  <2> PICK ids : ids = vendor[f].sent OBVIOUS
  <2>1. Complete(f, ids) /\ u.thing \in ids BY <1>6, <1>7, <1>17 DEF FeedInv, VendorKept
  <2>2. Complete(f, ids)' BY <1>15, <2>1
  <2>3. Recent(vendor[f].sent, vendor[f].clean) BY <1>6, <1>7 DEF FeedInv, VendorKept
  <2> QED BY <1>1, <2>2, <2>3 DEF VendorKept, Recent
<1>20. \A i \in DOMAIN q :
         /\ Complete(f, q[i].sent) /\ Recent(q[i].sent, q[i].clean)
         /\ q[i].thing \in vendor[f].sent \ vendor[f].rest /\ u.thing \in q[i].sent
         /\ \A j \in DOMAIN q : j <= i => q[j].thing \in q[i].sent
  <2> SUFFICES ASSUME NEW i \in DOMAIN q
               PROVE  /\ Complete(f, q[i].sent) /\ Recent(q[i].sent, q[i].clean)
                      /\ q[i].thing \in vendor[f].sent \ vendor[f].rest /\ u.thing \in q[i].sent
                      /\ \A j \in DOMAIN q : j <= i => q[j].thing \in q[i].sent
    OBVIOUS
  <2>1. q[i] = updates[f][i + 1] /\ i + 1 \in DOMAIN updates[f] /\ i \in Int BY <1>5
  <2>2. u.thing \in q[i].sent
    <3>1. 1 <= i + 1 BY <1>2, <2>1
    <3> QED BY <1>3, <1>16, <2>1, <3>1
  <2>3. ASSUME NEW j \in DOMAIN q, j <= i PROVE q[j].thing \in q[i].sent
    <3>1. q[j] = updates[f][j + 1] /\ j + 1 \in DOMAIN updates[f] /\ j \in Int BY <1>5
    <3>2. j + 1 <= i + 1 BY <2>1, <2>3, <3>1
    <3> QED BY <1>16, <2>1, <3>1, <3>2
  <2> QED BY <1>16, <2>1, <2>2, <2>3
<1>21. QueueKept(f)'
  <2>1. ASSUME NEW i \in DOMAIN q PROVE Complete(f, q[i].sent)' /\ Recent(q[i].sent, q[i].clean)'
    <3>1. Complete(f, q[i].sent) /\ u.thing \in q[i].sent /\ Recent(q[i].sent, q[i].clean) BY <1>20
    <3>2. PICK ids : ids = q[i].sent OBVIOUS
    <3>3. Complete(f, ids)' BY <1>15, <3>1, <3>2
    <3> QED BY <1>1, <3>1, <3>2, <3>3 DEF Recent
  <2> QED BY <1>1, <1>7, <1>12, <1>20, <2>1 DEF QueueKept, Complete, Recent
<1>22. RestKept(f)'
  BY <1>1, <1>6, <1>13, <1>17 DEF FeedInv, RestKept
<1>23. FeedInv(f)' BY <1>18, <1>19, <1>21, <1>22 DEF FeedInv
<1> QED BY <1>1, <1>12, <1>13, <1>14, <1>23, OfOneFeed

\* A refresh that ends, for one feed or for all.
LEMMA SubredditIdle ==
  ASSUME SubredditAssumed, SubredditInv, NEW f \in Feeds, UNCHANGED <<lastSeen, row, Subreddit!ghosts>>,
         vendor'[f] = Subreddit!Idle, updates'[f] = <<>>
  PROVE  FeedInv(f)'
<1>1. vendor'[f].at = "idle" BY IdleType
<1>2. RowKept(f)' BY <1>1 DEF Subreddit!ghosts, SubredditInv, FeedInv, RowKept, Complete, Recent
<1> QED BY <1>1, <1>2 DEF FeedInv, VendorKept, QueueKept, RestKept

\* What a refresh holds is forgotten: the next one starts from the row.
LEMMA SubredditEnd ==
  ASSUME SubredditAssumed, SubredditInv, NEW f \in Feeds, Subreddit!End(f)
  PROVE  SubredditInv'
<1>1. /\ vendor' = [vendor EXCEPT ![f] = Subreddit!Idle] /\ updates' = [updates EXCEPT ![f] = <<>>]
      /\ UNCHANGED <<lastSeen, row, shown, relayed, absent>> /\ UNCHANGED <<lastSeen, row, Subreddit!ghosts>>
  BY DEF Subreddit!End, Subreddit!ghosts
<1>2. Subreddit!Idle \in Refreshes /\ <<>> \in Seq(Updates) /\ Len(<<>>) = 0 BY IdleType, EmptySeq
<1>3. /\ vendor' \in [Feeds -> Refreshes] /\ vendor'[f] = Subreddit!Idle
      /\ updates' \in [Feeds -> Seq(Updates)] /\ updates'[f] = <<>>
      /\ \A g \in Feeds \ {f} : vendor'[g] = vendor[g] /\ updates'[g] = updates[g]
  BY <1>1, <1>2 DEF SubredditInv, Subreddit!TypeOK, QueueTypes, Refreshes
<1>4. \A g \in Feeds : Len(updates'[g]) <= Preload
  <2>1. Len(<<>>) <= Preload BY <1>2, AgeTypes
  <2>2. Len(updates'[f]) <= Preload BY <1>3, <2>1
  <2> QED BY <1>3, <2>2 DEF SubredditInv, Subreddit!TypeOK
<1>5. Subreddit!TypeOK' /\ QueueTypes'
  BY <1>1, <1>3, <1>4 DEF SubredditInv, Subreddit!TypeOK, QueueTypes, Refreshes
<1>6. FeedInv(f)' BY <1>1, <1>3, SubredditIdle
<1> QED BY <1>1, <1>3, <1>5, <1>6, OfOneFeed

\* A panic ends the refreshes of all feeds, and leaves the rows as they are.
LEMMA SubredditPanic ==
  ASSUME SubredditAssumed, SubredditInv, NEW f \in Feeds, Subreddit!Panic(f)
  PROVE  SubredditInv'
<1>1. /\ vendor' = [g \in Feeds |-> Subreddit!Idle] /\ updates' = [g \in Feeds |-> <<>>]
      /\ UNCHANGED <<lastSeen, row, shown, relayed, absent>> /\ UNCHANGED <<lastSeen, row, Subreddit!ghosts>>
  BY DEF Subreddit!Panic, Subreddit!ghosts
<1>2. Subreddit!Idle \in Refreshes /\ <<>> \in Seq(Updates) /\ Len(<<>>) = 0 BY IdleType, EmptySeq
<1>3. vendor' \in [Feeds -> Refreshes] /\ updates' \in [Feeds -> Seq(Updates)] BY <1>1, <1>2
<1>4. \A g \in Feeds : Len(updates'[g]) <= Preload BY <1>1, <1>2, AgeTypes
<1>5. Subreddit!TypeOK' /\ QueueTypes'
  BY <1>1, <1>3, <1>4 DEF SubredditInv, Subreddit!TypeOK, QueueTypes, Refreshes
<1>6. AgesAgree' BY <1>1 DEF SubredditInv, AgesAgree
<1>7. ASSUME NEW g \in Feeds PROVE FeedInv(g)'
  <2>1. vendor'[g] = Subreddit!Idle /\ updates'[g] = <<>> BY <1>1
  <2> QED BY <1>1, <2>1, SubredditIdle
<1> QED BY <1>5, <1>6, <1>7 DEF SubredditInv

\* The ages of what is listed start again, and what was absent from the listings for
\* longer than ThingTTL may be sent again.
LEMMA SubredditSave ==
  ASSUME SubredditAssumed, SubredditInv, NEW f \in Feeds, Subreddit!SaveThings(f)
  PROVE  SubredditInv'
<1>1. vendor[f] \in Refreshes /\ vendor[f].rest \in SUBSET Things
  BY FeedTypes DEF SubredditInv, Refreshes
<1> PICK things \in SUBSET Things : things = vendor[f].rest BY <1>1
<1>2. /\ vendor[f].at = "listed" /\ UNCHANGED <<row, updates, relayed>>
      /\ lastSeen' = [t \in Things |-> IF t \in things THEN 0 ELSE lastSeen[t]]
      /\ shown' = [t \in Things |-> IF t \in things THEN 0 ELSE shown[t]]
      /\ absent' = [g \in Feeds |->
            absent[g] \cup {t \in things \cap relayed[g] : shown[t] > ThingTTL}]
  BY DEF Subreddit!SaveThings, Subreddit!Upsert
<1> PICK w : w = [vendor[f] EXCEPT !.at = "items"] OBVIOUS
<1>3. /\ w \in Refreshes /\ w.at = "items" /\ w.rest = things /\ w.sent = vendor[f].sent
      /\ w.clean = vendor[f].clean /\ w.cleaned = vendor[f].cleaned
  BY <1>1 DEF Refreshes
<1>4. vendor' = [vendor EXCEPT ![f] = w] BY DEF Subreddit!SaveThings
<1>5. vendor' \in [Feeds -> Refreshes] /\ vendor'[f] = w /\ \A g \in Feeds \ {f} : vendor'[g] = vendor[g]
  BY <1>3, <1>4 DEF SubredditInv, Subreddit!TypeOK, Refreshes
<1>6. \A t \in Things : /\ shown[t] \in Subreddit!Ages /\ shown[t] \in Nat
                        /\ lastSeen[t] \in Subreddit!Ages \cup {Subreddit!NoRow} /\ lastSeen[t] \in Int
  BY AgeTypes DEF SubredditInv, Subreddit!TypeOK, Subreddit!NoRow
<1>7. \A t \in Things : IF t \in things THEN lastSeen'[t] = 0 /\ shown'[t] = 0
                        ELSE lastSeen'[t] = lastSeen[t] /\ shown'[t] = shown[t]
  BY <1>2
<1>8. \A t \in Things : shown'[t] <= shown[t] BY <1>6, <1>7
<1>9. \A g \in Feeds : absent[g] \subseteq absent'[g] /\ absent'[g] \subseteq Things
  BY <1>2, FeedTypes DEF SubredditInv
<1>10. Subreddit!TypeOK' /\ QueueTypes'
  <2>1. lastSeen' \in [Things -> Subreddit!Ages \cup {Subreddit!NoRow}] /\ shown' \in [Things -> Subreddit!Ages]
    BY <1>2, <1>6, AgeTypes
  <2>2. absent' \in [Feeds -> SUBSET Things] BY <1>2, <1>9
  <2> QED BY <1>2, <1>5, <2>1, <2>2 DEF SubredditInv, Subreddit!TypeOK, QueueTypes, Refreshes
<1>11. AgesAgree' BY <1>7 DEF SubredditInv, AgesAgree, Subreddit!NoRow
<1>12. ASSUME NEW g \in Feeds, NEW ids, Complete(g, ids) PROVE Complete(g, ids)'
  <2> SUFFICES ASSUME NEW t \in relayed[g], t \notin ids, t \notin absent'[g]
               PROVE  shown'[t] > ThingTTL
    BY <1>2 DEF Complete
  <2>1. t \in Things /\ t \notin absent[g] BY <1>9, FeedTypes DEF SubredditInv
  <2>2. shown[t] > ThingTTL BY <1>12, <2>1 DEF Complete
  <2>3. t \notin things BY <1>2, <2>2
  <2> QED BY <1>7, <2>1, <2>2, <2>3
<1>13. ASSUME NEW ids \in SUBSET Things, NEW c \in Subreddit!Ages, Recent(ids, c) PROVE Recent(ids, c)'
  <2> SUFFICES ASSUME NEW t \in ids PROVE shown'[t] <= ThingTTL + c BY DEF Recent
  <2>1. t \in Things /\ shown[t] <= ThingTTL + c BY <1>13 DEF Recent
  <2>2. shown'[t] \in Int /\ shown[t] \in Int BY <1>6, <1>7, <2>1
  <2> QED BY <1>8, <2>1, <2>2, AgeTypes
<1>14. ASSUME NEW g \in Feeds PROVE FeedInv(g)'
  <2>1. FeedInv(g) BY DEF SubredditInv
  <2>2. vendor[g] \in Refreshes /\ vendor[g].sent \in SUBSET Things /\ vendor[g].clean \in Subreddit!Ages
    BY FeedTypes DEF SubredditInv, Refreshes
  <2>3. /\ vendor'[g].sent = vendor[g].sent /\ vendor'[g].clean = vendor[g].clean
        /\ vendor'[g].rest = vendor[g].rest /\ vendor'[g].cleaned = vendor[g].cleaned
        /\ IF g = f THEN vendor'[g].at = "items" ELSE vendor'[g].at = vendor[g].at
    BY <1>3, <1>5
  <2>4. RowKept(g)'
    <3>1. ASSUME NEW d \in row[g] PROVE Complete(g, d.sent)' /\ Recent(d.sent, d.clean)'
      <4>1. d \in Rows BY FeedTypes DEF SubredditInv
      <4>2. d.sent \in SUBSET Things /\ d.clean \in Subreddit!Ages BY <4>1 DEF Rows
      <4>3. Complete(g, d.sent) /\ Recent(d.sent, d.clean) BY <2>1 DEF FeedInv, RowKept
      <4> QED BY <1>12, <1>13, <4>2, <4>3
    <3>2. row[g] = {} => relayed[g] = {} /\ vendor[g].at = "idle" BY <2>1 DEF FeedInv, RowKept
    <3>3. row[g] = {} => g # f BY <1>2, <3>2
    <3> QED BY <1>2, <2>3, <3>1, <3>2, <3>3 DEF RowKept
  <2>5. vendor[g].at # "idle" =>
          Complete(g, vendor[g].sent) /\ Recent(vendor[g].sent, vendor[g].clean)
    BY <2>1 DEF FeedInv, VendorKept
  <2>6. vendor'[g].at # "idle" => vendor[g].at # "idle" BY <1>2, <2>3
  <2>7. VendorKept(g)'
    <3>1. PICK ids \in SUBSET Things, c \in Subreddit!Ages : ids = vendor[g].sent /\ c = vendor[g].clean
      BY <2>2
    <3> QED BY <1>12, <1>13, <2>3, <2>5, <2>6, <3>1 DEF VendorKept
  <2>8. QueueKept(g)'
    <3>1. ASSUME NEW i \in DOMAIN updates[g]
          PROVE  Complete(g, updates[g][i].sent)' /\ Recent(updates[g][i].sent, updates[g][i].clean)'
      <4>1. PICK u \in Updates : u = updates[g][i] BY FeedTypes DEF SubredditInv
      <4>2. u.sent \in SUBSET Things /\ u.clean \in Subreddit!Ages BY DEF Updates
      <4>3. Complete(g, u.sent) /\ Recent(u.sent, u.clean) BY <2>1, <4>1 DEF FeedInv, QueueKept
      <4>4. Complete(g, u.sent)' /\ Recent(u.sent, u.clean)' BY <1>12, <1>13, <4>2, <4>3
      <4> QED BY <1>2, <4>1, <4>4
    <3>2. updates[g] # <<>> => vendor'[g].at = "items" /\ vendor'[g].cleaned
      BY <2>1, <2>3 DEF FeedInv, QueueKept
    <3> QED BY <1>2, <2>1, <2>3, <3>1, <3>2 DEF FeedInv, QueueKept
  <2>9. RestKept(g)'
    <3>1. CASE g = f
      <4> SUFFICES ASSUME NEW t \in things
                   PROVE  /\ t \in relayed[f] => t \in vendor[f].sent \cup absent'[f]
                          /\ shown'[t] <= vendor[f].clean /\ lastSeen'[t] = 0
        BY <1>2, <1>3, <1>5, <3>1 DEF RestKept
      <4>1. shown'[t] = 0 /\ lastSeen'[t] = 0 BY <1>7
      <4>2. 0 <= vendor[f].clean BY <2>2, <3>1, AgeTypes
      <4>3. t \in relayed[f] => t \in vendor[f].sent \cup absent'[f]
        <5> SUFFICES ASSUME t \in relayed[f], t \notin vendor[f].sent, t \notin absent[f] PROVE t \in absent'[f]
          BY <1>9
        <5>1. shown[t] > ThingTTL BY <1>2, <2>5, <3>1 DEF Complete
        <5> QED BY <1>2, <5>1
      <4> QED BY <4>1, <4>2, <4>3
    <3>2. CASE g # f
      <4>1. vendor'[g] = vendor[g] BY <1>5, <3>2
      <4>2. RestKept(g) BY <2>1 DEF FeedInv
      <4>3. ASSUME NEW t \in vendor[g].rest, shown[t] <= vendor[g].clean PROVE shown'[t] <= vendor[g].clean
        <5>1. t \in Things BY <2>2 DEF Refreshes
        <5>2. shown'[t] \in Int /\ shown[t] \in Int BY <1>6, <1>7, <5>1
        <5> QED BY <1>8, <2>2, <4>3, <5>1, <5>2, AgeTypes
      <4>4. ASSUME NEW t \in vendor[g].rest, lastSeen[t] = 0 PROVE lastSeen'[t] = 0
        <5>1. t \in Things BY <2>2 DEF Refreshes
        <5> QED BY <1>7, <4>4, <5>1
      <4>5. ASSUME NEW t \in Things, lastSeen[t] <= ThingTTL PROVE lastSeen'[t] <= ThingTTL
        BY <1>7, <4>5, AgeTypes
      <4> QED BY <1>2, <1>9, <4>1, <4>2, <4>3, <4>4, <4>5 DEF RestKept
    <3> QED BY <3>1, <3>2
  <2> QED BY <2>4, <2>7, <2>8, <2>9 DEF FeedInv
<1> QED BY <1>10, <1>11, <1>14 DEF SubredditInv

\* What has no row any more was not listed for longer than ThingTTL.
LEMMA SubredditDelete ==
  ASSUME SubredditAssumed, SubredditInv, NEW f \in Feeds, Subreddit!DeleteStaleThings(f)
  PROVE  SubredditInv'
<1>1. /\ vendor[f].at = "items" /\ ~vendor[f].cleaned
      /\ lastSeen' = [t \in Things |-> IF Subreddit!Stale(t) THEN Subreddit!NoRow ELSE lastSeen[t]]
      /\ UNCHANGED <<row, updates, shown, relayed, absent>>
  BY DEF Subreddit!DeleteStaleThings, Subreddit!Wanted, Subreddit!InLoop, Subreddit!ghosts
<1>2. vendor[f] \in Refreshes BY FeedTypes DEF SubredditInv
<1> PICK w : w = [vendor[f] EXCEPT !.at = "deleted"] OBVIOUS
<1>3. /\ w \in Refreshes /\ w.at = "deleted" /\ w.rest = vendor[f].rest /\ w.sent = vendor[f].sent
      /\ w.clean = vendor[f].clean /\ w.cleaned = vendor[f].cleaned
  BY <1>2 DEF Refreshes
<1>4. vendor' = [vendor EXCEPT ![f] = w] BY DEF Subreddit!DeleteStaleThings
<1>5. vendor' \in [Feeds -> Refreshes] /\ vendor'[f] = w /\ \A g \in Feeds \ {f} : vendor'[g] = vendor[g]
  BY <1>3, <1>4 DEF SubredditInv, Subreddit!TypeOK, Refreshes
<1>6. \A t \in Things : lastSeen[t] \in Int
  BY AgeTypes DEF SubredditInv, Subreddit!TypeOK, Subreddit!NoRow
<1>7. \A t \in Things : /\ lastSeen'[t] = IF lastSeen[t] > ThingTTL THEN Subreddit!NoRow ELSE lastSeen[t]
                        /\ lastSeen'[t] <= ThingTTL
  BY <1>1, <1>6, AgeTypes DEF Subreddit!Stale, Subreddit!NoRow
<1>8. Subreddit!TypeOK' /\ QueueTypes'
  <2>1. lastSeen' \in [Things -> Subreddit!Ages \cup {Subreddit!NoRow}]
    BY <1>1 DEF SubredditInv, Subreddit!TypeOK
  <2> QED BY <1>1, <1>5, <2>1 DEF SubredditInv, Subreddit!TypeOK, QueueTypes, Refreshes
<1>9. AgesAgree' BY <1>1, <1>7 DEF SubredditInv, AgesAgree
<1>10. ASSUME NEW g \in Feeds PROVE FeedInv(g)'
  <2>1. FeedInv(g) BY DEF SubredditInv
  <2>2. vendor[g] \in Refreshes BY FeedTypes DEF SubredditInv
  <2>3. /\ vendor'[g].sent = vendor[g].sent /\ vendor'[g].clean = vendor[g].clean
        /\ vendor'[g].rest = vendor[g].rest /\ vendor'[g].cleaned = vendor[g].cleaned
        /\ IF g = f THEN vendor'[g].at = "deleted" /\ vendor[g].at = "items" /\ ~vendor[g].cleaned
           ELSE vendor'[g].at = vendor[g].at
    BY <1>1, <1>3, <1>5
  <2>4. RowKept(g)' BY <1>1, <2>1, <2>3 DEF FeedInv, RowKept, Complete, Recent
  <2>5. VendorKept(g)' BY <1>1, <2>1, <2>3 DEF FeedInv, VendorKept, Complete, Recent
  <2>6. QueueKept(g)'
    <3>1. updates[g] # <<>> => vendor'[g].at = "items" /\ vendor'[g].cleaned
      BY <2>1, <2>3 DEF FeedInv, QueueKept
    <3> QED BY <1>1, <2>1, <2>3, <3>1 DEF FeedInv, QueueKept, Complete, Recent
  <2>7. RestKept(g)'
    <3>1. ASSUME NEW t \in vendor[g].rest, lastSeen[t] = 0 PROVE lastSeen'[t] = 0
      <4>1. t \in Things BY <2>2 DEF Refreshes
      <4> QED BY <1>7, <3>1, <4>1, AgeTypes
    <3> QED BY <1>1, <1>7, <2>1, <2>3, <3>1 DEF FeedInv, RestKept
  <2> QED BY <2>4, <2>5, <2>6, <2>7 DEF FeedInv
<1> QED BY <1>8, <1>9, <1>10 DEF SubredditInv

\* The invariant is inductive.
LEMMA SubredditNext ==
  ASSUME SubredditAssumed, SubredditInv, Subreddit!Next
  PROVE  SubredditInv'
<1>1. CASE Subreddit!Tick BY <1>1, SubredditTick
<1>2. ASSUME NEW f \in Feeds, Subreddit!Step(f) PROVE SubredditInv'
  BY <1>2, SubredditParse, SubredditGetListing, SubredditSave, SubredditSkip, SubredditSkipClean, SubredditDelete, SubredditGetFresh, SubredditSubmit, SubredditHandle,
     SubredditPanic, SubredditEnd DEF Subreddit!Step
<1> QED BY <1>1, <1>2 DEF Subreddit!Next

\* Only Submit lets the queue of a feed grow, and only that feed's own.
LEMMA OnlySubmit ==
  ASSUME SubredditAssumed, SubredditInv, NEW f \in Feeds, Subreddit!Submits(f), Subreddit!Next
  PROVE  Subreddit!Submit(f)
<1>1. Len(updates[f]) \in Nat /\ updates[f] \in Seq(Updates) /\ DOMAIN updates[f] = 1..Len(updates[f])
  BY FeedTypes DEF SubredditInv
<1>2. DOMAIN updates = Feeds BY DEF SubredditInv, QueueTypes
<1>3. ~Subreddit!Tick
  <2> SUFFICES ASSUME Subreddit!Tick PROVE FALSE OBVIOUS
  <2>1. updates'[f] = [i \in DOMAIN updates[f] |-> [updates[f][i] EXCEPT !.clean = Subreddit!Older(@)]]
    BY DEF Subreddit!Tick
  <2>2. Len(updates'[f]) = Len(updates[f]) BY <1>1, <2>1
  <2> QED BY <1>1, <2>2 DEF Subreddit!Submits
<1>4. PICK g \in Feeds : Subreddit!Step(g) BY <1>3 DEF Subreddit!Next
<1>5. updates' # updates BY <1>1 DEF Subreddit!Submits
<1>6. ~Subreddit!Panic(g)
  <2> SUFFICES ASSUME Subreddit!Panic(g) PROVE FALSE OBVIOUS
  <2>1. updates'[f] = <<>> BY DEF Subreddit!Panic
  <2> QED BY <1>1, <2>1, EmptySeq DEF Subreddit!Submits
<1>7. ~Subreddit!End(g)
  <2> SUFFICES ASSUME Subreddit!End(g) PROVE FALSE OBVIOUS
  <2>1. updates'[f] = <<>> \/ updates'[f] = updates[f] BY <1>2 DEF Subreddit!End
  <2> QED BY <1>1, <2>1, EmptySeq DEF Subreddit!Submits
<1>8. ~Subreddit!Handle(g)
  <2> SUFFICES ASSUME Subreddit!Handle(g) PROVE FALSE OBVIOUS
  <2>1. updates[g] # <<>> /\ (updates'[f] = updates[f] \/ (f = g /\ updates'[f] = Tail(updates[f])))
    BY <1>2 DEF Subreddit!Handle
  <2>2. f = g => Len(Tail(updates[f])) = Len(updates[f]) - 1 BY <1>1, <2>1, HeadTailProperties
  <2>3. Len(updates'[f]) = Len(updates[f]) \/ Len(updates'[f]) = Len(updates[f]) - 1 BY <2>1, <2>2
  <2> QED BY <1>1, <2>3 DEF Subreddit!Submits
<1>9. Subreddit!Submit(g)
  BY <1>4, <1>5, <1>6, <1>7, <1>8
  DEF Subreddit!Step, Subreddit!Parse, Subreddit!GetListing, Subreddit!SaveThings,
      Subreddit!Skip, Subreddit!SkipClean, Subreddit!DeleteStaleThings, Subreddit!GetFreshThingIDs
<1>10. f = g
  <2> SUFFICES ASSUME f # g PROVE FALSE OBVIOUS
  <2>1. updates'[f] = updates[f] BY <1>2, <1>9 DEF Subreddit!Submit
  <2> QED BY <1>1, <2>1 DEF Subreddit!Submits
<1> QED BY <1>9, <1>10

\* What the invariant says of an update that is submitted.
LEMMA SubredditRemembers ==
  ASSUME SubredditAssumed, SubredditInv, NEW f \in Feeds, Subreddit!Submits(f), Subreddit!Next
  PROVE  /\ LET t == Subreddit!Last(updates'[f]).thing IN t \in relayed[f] => t \in absent[f]
         /\ \A t \in vendor'[f].sent : shown[t] <= ThingTTL + vendor[f].clean
<1>1. Subreddit!Submit(f) BY OnlySubmit
<1> PICK t : t = Subreddit!NextThing(f) OBVIOUS
<1> PICK u : u = [thing |-> t, sent |-> vendor[f].sent \cup {t}, clean |-> vendor[f].clean] OBVIOUS
<1>2. updates' = [updates EXCEPT ![f] = Append(updates[f], u)] BY <1>1 DEF Subreddit!Submit
<1>3. updates[f] \in Seq(Updates) /\ vendor[f] \in Refreshes /\ DOMAIN updates = Feeds
  BY FeedTypes DEF SubredditInv, QueueTypes
<1>4. /\ t \in vendor[f].rest /\ t \in Things /\ t \notin vendor[f].sent /\ vendor[f].at = "items"
  BY <1>1, ThingTaken DEF Subreddit!Submit, Subreddit!Wanted, Subreddit!InLoop
<1>5. u \in Updates /\ u.thing = t BY <1>3, <1>4 DEF Updates, Refreshes
<1>6. Subreddit!Last(updates'[f]) = u
  <2>1. updates'[f] = Append(updates[f], u) BY <1>2, <1>3
  <2>2. Len(updates'[f]) = Len(updates[f]) + 1 /\ updates'[f][Len(updates[f]) + 1] = u
    BY <1>3, <1>5, <2>1, AppendProperties
  <2> QED BY <2>2 DEF Subreddit!Last
<1>7. t \in relayed[f] => t \in absent[f] BY <1>4 DEF SubredditInv, FeedInv, RestKept
<1>8. vendor'[f].sent = vendor[f].sent \cup {t} /\ vendor'[f].clean = vendor[f].clean
  <2>1. vendor'[f] = [vendor[f] EXCEPT !.sent = vendor[f].sent \cup {t}, !.rest = @ \ {t}, !.count = @ + 1]
    BY <1>1 DEF Subreddit!Submit, SubredditInv, Subreddit!TypeOK
  <2> QED BY <1>3, <2>1 DEF Refreshes
<1>9. \A x \in vendor'[f].sent : shown[x] <= ThingTTL + vendor[f].clean
  <2>1. \A x \in vendor[f].sent : shown[x] <= ThingTTL + vendor[f].clean
    BY <1>4 DEF SubredditInv, FeedInv, VendorKept, Recent
  <2>2. shown[t] <= vendor[f].clean /\ shown[t] \in Int /\ vendor[f].clean \in Int
    BY <1>3, <1>4, AgeTypes DEF SubredditInv, FeedInv, RestKept, Subreddit!TypeOK, Refreshes
  <2>3. shown[t] <= ThingTTL + vendor[f].clean BY <2>2, AgeTypes
  <2> QED BY <1>8, <2>1, <2>3
<1> QED BY <1>5, <1>6, <1>7, <1>9

-----------------------------------------------------------------------------
(* The share of the table that is relayed.                                 *)

\* The operators of the libraries are the same in every instance.
LEMMA PacingOperators ==
  \A S : /\ Pacing!Cardinality(S) = Cardinality(S) /\ Pacing!IsFiniteSet(S) = IsFiniteSet(S)
         /\ Pacing!Min(S) = Min(S)
BY DEF Pacing!Cardinality, Cardinality, Pacing!IsFiniteSet, IsFiniteSet, Pacing!Min, Min

\* The inductive invariant of SubredditPacing.
PacingInv == ups \in [Table -> 0..MaxUps] /\ IsFiniteSet(events) /\ stable \in BOOLEAN

\* The initial state satisfies the invariant.
LEMMA PacingInit == Pacing!PacingAssumption /\ Pacing!Init => PacingInv
<1> SUFFICES ASSUME Pacing!PacingAssumption, Pacing!Init PROVE PacingInv OBVIOUS
<1>1. ups \in [Table -> 0..MaxUps] BY DEF Pacing!Init, Pacing!PacingAssumption
<1>2. IsFiniteSet(events) BY FS_EmptySet DEF Pacing!Init
<1> QED BY <1>1, <1>2 DEF PacingInv, Pacing!Init

\* The invariant is inductive: an event that is added leaves finitely many.
LEMMA PacingNext == ASSUME PacingInv, Pacing!Next PROVE PacingInv'
<1>1. CASE Pacing!Press
  <2>1. PICK p : events' = {p} \cup (IF p[3] = "click" THEN events
                           ELSE {e \in events : e[1] # p[1] \/ e[2] # p[2] \/ e[3] = "click"})
    BY <1>1 DEF Pacing!Press
  <2>2. PICK kept \in SUBSET events : events' = kept \cup {p}
    <3> DEFINE kept == IF p[3] = "click" THEN events
                           ELSE {e \in events : e[1] # p[1] \/ e[2] # p[2] \/ e[3] = "click"}
    <3>1. kept \in SUBSET events OBVIOUS
    <3>2. events' = kept \cup {p} BY <2>1
    <3> QED BY <3>1, <3>2
  <2>3. IsFiniteSet(kept) BY FS_Subset DEF PacingInv
  <2>4. IsFiniteSet(events') BY <2>2, <2>3, FS_AddElement
  <2> QED BY <1>1, <2>4 DEF PacingInv, Pacing!Press
<1>2. CASE Pacing!GainPasses BY <1>2 DEF PacingInv, Pacing!GainPasses
<1>3. CASE Pacing!Vote
  <2>1. PICK t \in Table, n \in 0..MaxUps : ups' = [ups EXCEPT ![t] = n] BY <1>3 DEF Pacing!Vote
  <2> QED BY <1>3, <2>1 DEF PacingInv, Pacing!Vote
<1> QED BY <1>1, <1>2, <1>3 DEF Pacing!Next

\* The share is a fraction.
LEMMA ShareType ==
  ASSUME Pacing!PacingAssumption, PacingInv
  PROVE  Pacing!Top \in Int /\ Pacing!TopOf \in Nat \ {0}
<1>1. Cardinality(SentIDs) \in Nat \ {0}
  BY FS_CardinalityType, FS_EmptySet, PacingOperators DEF Pacing!PacingAssumption
<1>2. IsFiniteSet(Pacing!Positive) /\ IsFiniteSet(Pacing!Negative)
  BY FS_Subset DEF PacingInv, Pacing!Positive, Pacing!Negative
<1>3. \A es : IsFiniteSet(es) => Cardinality(Pacing!UsersOf(es)) \in Nat
  <2> SUFFICES ASSUME NEW es, IsFiniteSet(es) PROVE Cardinality(Pacing!UsersOf(es)) \in Nat OBVIOUS
  <2> DEFINE f == [e \in es |-> e[1]]
  <2>1. Pacing!UsersOf(es) = {f[e] : e \in es} BY DEF Pacing!UsersOf
  <2>2. DOMAIN f = es /\ f = [e \in es |-> f[e]] OBVIOUS
  <2> HIDE DEF f
  <2> QED BY <2>1, <2>2, FiniteImage
<1>4. Pacing!LikedThings \in Nat
  <2> DEFINE f == [e \in Pacing!Positive |-> e[2]]
  <2>1. Pacing!LikedThings = Cardinality({f[e] : e \in Pacing!Positive})
    BY PacingOperators DEF Pacing!LikedThings
  <2>2. DOMAIN f = Pacing!Positive /\ f = [e \in Pacing!Positive |-> f[e]] OBVIOUS
  <2> HIDE DEF f
  <2> QED BY <1>2, <2>1, <2>2, FiniteImage
<1>5. Pacing!DislikedThings \in Nat /\ Pacing!Likes \in Nat /\ Pacing!Dislikes \in Nat
  BY <1>2, <1>3, PacingOperators DEF Pacing!DislikedThings, Pacing!Likes, Pacing!Dislikes
<1>6. \A a, b \in Nat \ {0} : a * b \in Nat \ {0} OBVIOUS
<1>7. Pacing!BoostedOf \in Nat \ {0}
  BY <1>1, <1>6, PacingOperators DEF Pacing!BoostedOf, Pacing!PacingAssumption
<1>8. Pacing!TopOf \in Nat \ {0} BY <1>6, <1>7 DEF Pacing!TopOf, Pacing!PacingAssumption
<1>9. \A a, b \in Int : a * b \in Int OBVIOUS
<1>10. Pacing!LikedThings - Pacing!DislikedThings \in Int /\ Pacing!Likes - Pacing!Dislikes \in Int
  BY <1>4, <1>5
<1>11. Scale * (Pacing!LikedThings - Pacing!DislikedThings) * (Pacing!Likes - Pacing!Dislikes) \in Int
  BY <1>9, <1>10 DEF Pacing!PacingAssumption
<1>12. Pacing!BoostedBy \in Int
  <2> HIDE DEF Pacing!BoostedBy
  <2> QED BY <1>7, <1>11 DEF Pacing!BoostedBy
<1>13. BaseTop * Pacing!BoostedBy \in Int BY <1>9, <1>12 DEF Pacing!PacingAssumption
<1> QED BY <1>8, <1>13 DEF Pacing!Top

\* The table without the things above n.
LEMMA Counts ==
  ASSUME Pacing!PacingAssumption, PacingInv, NEW n \in Int
  PROVE  /\ Pacing!AtMost(n) \in Nat /\ Pacing!Above(n) \in Nat /\ Pacing!AtLeast(n) \in Nat
         /\ Pacing!Above(n) = Cardinality(Table) - Pacing!AtMost(n)
<1> DEFINE A == {t \in Table : ups[t] <= n}
<1> DEFINE B == {t \in Table : ups[t] > n}
<1> DEFINE C == {t \in Table : ups[t] >= n}
<1>1. IsFiniteSet(Table) BY PacingOperators DEF Pacing!PacingAssumption
<1>2. A \subseteq Table /\ B \subseteq Table /\ C \subseteq Table OBVIOUS
<1>3. B = Table \ A
  <2>1. \A t \in Table : ups[t] \in Int BY PacingOperators DEF PacingInv, Pacing!PacingAssumption
  <2> QED BY <2>1
<1>4. Table \cap A = A OBVIOUS
<1>5. Pacing!AtMost(n) = Cardinality(A) /\ Pacing!Above(n) = Cardinality(B) /\ Pacing!AtLeast(n) = Cardinality(C)
  BY PacingOperators DEF Pacing!AtMost, Pacing!Above, Pacing!AtLeast
<1> HIDE DEF A, B, C
<1>6. IsFiniteSet(A) /\ IsFiniteSet(B) /\ IsFiniteSet(C) BY <1>1, <1>2, FS_Subset
<1>7. Cardinality(B) = Cardinality(Table) - Cardinality(A) BY <1>1, <1>3, <1>4, FS_Difference
<1> QED BY <1>5, <1>6, <1>7, FS_CardinalityType

\* The invariant implies what is checked.
LEMMA PacingSplits == ASSUME Pacing!PacingAssumption, PacingInv PROVE Pacing!SplitsAtShare
<1> SUFFICES ASSUME 0 < Pacing!Top, Pacing!Top <= Pacing!TopOf
             PROVE  /\ Pacing!Above(Pacing!Percentile) * Pacing!TopOf < Pacing!Top * Cardinality(Table)
                    /\ Pacing!Top * Cardinality(Table) <= Pacing!AtLeast(Pacing!Percentile) * Pacing!TopOf
  BY PacingOperators DEF Pacing!SplitsAtShare
<1> DEFINE N == Cardinality(Table)
<1> DEFINE T == Pacing!Top
<1> DEFINE O == Pacing!TopOf
<1>1. T \in Nat \ {0} /\ O \in Nat \ {0} /\ T <= O BY ShareType
<1>2. N \in Nat \ {0}
  BY FS_CardinalityType, FS_EmptySet, PacingOperators DEF Pacing!PacingAssumption
<1>3. IsFiniteSet(Table) /\ Table # {} /\ MaxUps \in Nat /\ ups \in [Table -> 0..MaxUps]
  BY PacingOperators DEF PacingInv, Pacing!PacingAssumption
<1> DEFINE reached == {ups[t] : t \in {u \in Table : Pacing!RankExceeds(ups[u])}}
<1>4. \A n : Pacing!RankExceeds(n) <=> Pacing!AtMost(n) * O > (O - T) * N
  BY PacingOperators DEF Pacing!RankExceeds
<1>5. reached # {}
  <2> DEFINE V == {ups[t] : t \in Table}
  <2>1. V \in SUBSET (0..MaxUps) /\ V # {} BY <1>3
  <2>2. PICK m \in V : \A v \in V : v <= m
    <3> HIDE DEF V
    <3> QED BY <1>3, <2>1, GreatestExists
  <2>3. PICK t \in Table : m = ups[t] BY <2>2
  <2>4. {u \in Table : ups[u] <= m} = Table BY <2>2
  <2>5. Pacing!AtMost(m) = N BY <2>4, PacingOperators DEF Pacing!AtMost
  <2>6. N * O > (O - T) * N
    <3> HIDE DEF N, O, T
    <3>1. (O - T) * N = O * N - T * N BY <1>1, <1>2
    <3>2. T * N > 0 BY <1>1, <1>2
    <3>3. N * O = O * N /\ O * N \in Int /\ T * N \in Int BY <1>1, <1>2
    <3> QED BY <3>1, <3>2, <3>3
  <2>7. Pacing!RankExceeds(m) BY <1>4, <2>5, <2>6
  <2> QED BY <2>3, <2>7
<1>6. reached \in SUBSET Nat BY <1>3
<1>7. Pacing!Percentile = Min(reached) BY <1>5, PacingOperators DEF Pacing!Percentile
<1> DEFINE p == Pacing!Percentile
<1>8. p \in reached /\ \A v \in reached : p <= v
  <2> HIDE DEF reached
  <2> QED BY <1>5, <1>6, <1>7, OfMin
<1>9. p \in Nat /\ Pacing!RankExceeds(p) BY <1>6, <1>8
<1> HIDE DEF p
<1>10. Pacing!AtMost(p) * O > (O - T) * N BY <1>4, <1>9
<1>11. Pacing!Above(p) * O < T * N
  <2> DEFINE a == Pacing!AtMost(p)
  <2>1. a \in Nat /\ Pacing!Above(p) = N - a BY <1>9, Counts
  <2>2. a * O > (O - T) * N BY <1>10
  <2> HIDE DEF N, O, T, a
  <2>3. (N - a) * O = N * O - a * O /\ (O - T) * N = O * N - T * N BY <1>1, <1>2, <2>1
  <2>4. N * O = O * N /\ O * N \in Int /\ T * N \in Int /\ a * O \in Int BY <1>1, <1>2, <2>1
  <2> QED BY <2>1, <2>2, <2>3, <2>4
<1>12. T * N <= Pacing!AtLeast(p) * O
  <2> DEFINE L == {t \in Table : ups[t] < p}
  <2> DEFINE H == {t \in Table : ups[t] >= p}
  <2> DEFINE l == Cardinality(L)
  <2>1. L \subseteq Table /\ H = Table \ L
    <3>1. \A t \in Table : ups[t] \in Int BY <1>3
    <3> QED BY <1>9, <3>1
  <2>2. Pacing!AtLeast(p) = Cardinality(H) BY PacingOperators DEF Pacing!AtLeast
  <2>3. IsFiniteSet(L) /\ l \in Nat
    <3> HIDE DEF L
    <3> QED BY <1>3, <2>1, FS_Subset, FS_CardinalityType
  <2>4. Pacing!AtLeast(p) = N - l
    <3>1. Table \cap L = L BY <2>1
    <3> HIDE DEF L, H
    <3> QED BY <1>3, <2>1, <2>2, <3>1, FS_Difference
  <2>5. l * O <= (O - T) * N
    <3>1. CASE L = {}
      <4>1. l = 0 BY <3>1, FS_EmptySet
      <4> HIDE DEF l, O, T, N
      <4>2. (O - T) \in Nat BY <1>1
      <4>3. \A x, y \in Nat : 0 <= x * y OBVIOUS
      <4>4. l * O = 0 BY <1>1, <4>1
      <4> QED BY <1>2, <4>2, <4>3, <4>4
    <3>2. CASE L # {}
      <4> DEFINE V == {ups[t] : t \in L}
      <4>1. V \in SUBSET (0..MaxUps) /\ V # {} BY <1>3, <2>1, <3>2
      <4>2. PICK q \in V : \A v \in V : v <= q
        <5> HIDE DEF V
        <5> QED BY <1>3, <4>1, GreatestExists
      <4>3. q < p /\ q \in Nat BY <1>3, <4>2
      <4>4. L = {t \in Table : ups[t] <= q}
        <5>1. \A t \in Table : ups[t] \in Int BY <1>3
        <5>2. \A t \in Table : ups[t] < p <=> ups[t] <= q
          <6> SUFFICES ASSUME NEW t \in Table PROVE ups[t] < p <=> ups[t] <= q OBVIOUS
          <6>1. CASE t \in L BY <4>2, <6>1
          <6>2. CASE t \notin L BY <1>9, <4>3, <5>1, <6>2
          <6> QED BY <6>1, <6>2
        <5> QED BY <5>2
      <4>5. Pacing!AtMost(q) = l BY <4>4, PacingOperators DEF Pacing!AtMost
      <4>6. ~Pacing!RankExceeds(q)
        <5>1. PICK t \in Table : q = ups[t] BY <4>2
        <5>2. Pacing!RankExceeds(q) => q \in reached BY <5>1
        <5> HIDE DEF reached
        <5> QED BY <1>8, <1>9, <4>3, <5>2 DEF p
      <4>7. ~(l * O > (O - T) * N) BY <1>4, <4>5, <4>6
      <4> HIDE DEF l, O, T, N
      <4>8. l * O \in Int /\ (O - T) * N \in Int BY <1>1, <1>2, <2>3
      <4> QED BY <4>7, <4>8
    <3> QED BY <3>1, <3>2
  <2> HIDE DEF N, O, T, l
  <2>6. (N - l) * O = N * O - l * O /\ (O - T) * N = O * N - T * N BY <1>1, <1>2, <2>3
  <2>7. N * O = O * N /\ O * N \in Int /\ T * N \in Int /\ l * O \in Int BY <1>1, <1>2, <2>3
  <2> QED BY <2>4, <2>5, <2>6, <2>7
<1> QED BY <1>11, <1>12 DEF p

-----------------------------------------------------------------------------
(* Suggestions.                                                            *)

\* The operators of the libraries are the same in every instance.
LEMMA SuggestionsOperators ==
  /\ \A S : Suggestions!IsFiniteSet(S) = IsFiniteSet(S) /\ Suggestions!Min(S) = Min(S)
  /\ \A S : Suggestions!SetToSeqs(S) = SetToSeqs(S) /\ Suggestions!Increasing(S) = Increasing(S)
<1>1. \A S : Suggestions!Cardinality(S) = Cardinality(S) BY DEF Suggestions!Cardinality, Cardinality
<1>2. \A S : Suggestions!IsFiniteSet(S) = IsFiniteSet(S) /\ Suggestions!Min(S) = Min(S)
  BY DEF Suggestions!IsFiniteSet, IsFiniteSet, Suggestions!Min, Min
<1>3. \A S : Suggestions!SetToSeqs(S) = SetToSeqs(S) BY <1>1 DEF Suggestions!SetToSeqs, SetToSeqs
<1>4. \A S, n : Suggestions!Rank(S, n) = Rank(S, n) BY <1>1 DEF Suggestions!Rank, Rank
<1>5. \A S : Suggestions!Increasing(S) = Increasing(S)
  BY <1>1, <1>4 DEF Suggestions!Increasing, Increasing
<1> QED BY <1>2, <1>3, <1>5

\* A list is of names; when all have scores of their own, it is ranked by them.
Ranked(update) ==
  /\ update = [list |-> update.list, age |-> update.age, scores |-> update.scores]
  /\ update.list \in Seq(Subreddits) /\ update.age \in 0..Interval
  /\ \A s \in DOMAIN update.scores : update.scores[s] \in Int
  /\ DOMAIN update.scores # {} =>
       /\ ToSet(update.list) = DOMAIN update.scores
       /\ Suggestions!Descending(update.list, update.scores)

\* Types that the scores and the messages rest on.
Ratings == \A s \in DOMAIN rating : rating[s] \in Int
Messages == message \in Seq({Suggestions!Spelled(s) : s \in Subreddits})
\* There is at most one list, and it was made when the interval was over.
OneRanked ==
  /\ \A u, v \in ranked : u = v
  /\ \A u \in ranked : Ranked(u)
  /\ ranked # {} => fired >= Interval
\* The time stored is not before the refresh of the last message, unless storing it
\* failed.
Spaced == ~failed => begun >= fired

\* The inductive invariant of SubredditSuggestions.
SuggestionsInv == Suggestions!TypeOK /\ Ratings /\ Messages /\ OneRanked /\ Spaced

\* The initial state satisfies the invariant.
LEMMA SuggestionsInit ==
  Suggestions!SuggestionsAssumption /\ Suggestions!Init => SuggestionsInv
<1> SUFFICES ASSUME Suggestions!SuggestionsAssumption, Suggestions!Init PROVE SuggestionsInv OBVIOUS
<1> USE DEF Suggestions!Init
<1>1. DOMAIN rating = {} OBVIOUS
<1>2. message \in Seq({Suggestions!Spelled(s) : s \in Subreddits}) /\ Len(message) = 0 BY EmptySeq
<1>3. Interval \in 0..Interval /\ MaxShown \in Nat BY DEF Suggestions!SuggestionsAssumption
<1>4. Len(message) <= MaxShown BY <1>2, <1>3
<1>5. Suggestions!TypeOK BY <1>1, <1>3, <1>4 DEF Suggestions!TypeOK
<1>6. Ratings /\ Messages /\ OneRanked BY <1>1, <1>2 DEF Ratings, Messages, OneRanked
<1>7. Spaced BY <1>3 DEF Spaced
<1> QED BY <1>5, <1>6, <1>7 DEF SuggestionsInv

\* Scores are integers: sums of products over a finite set.
LEMMA ScoresType ==
  ASSUME Suggestions!SuggestionsAssumption, SuggestionsInv, NEW known \in SUBSET DOMAIN rating
  PROVE  /\ DOMAIN Suggestions!Scores(known) \subseteq Subreddits
         /\ \A s \in DOMAIN Suggestions!Scores(known) : Suggestions!Scores(known)[s] \in Int
<1>1. known \subseteq Liked /\ Liked \subseteq Subreddits
  BY DEF SuggestionsInv, Suggestions!TypeOK, Suggestions!SuggestionsAssumption
<1>2. DOMAIN Suggestions!Scores(known) = UNION {DOMAIN Related[t] : t \in known}
  BY DEF Suggestions!Scores
<1>3. DOMAIN Suggestions!Scores(known) \subseteq Subreddits
  BY <1>1, <1>2 DEF Suggestions!SuggestionsAssumption
<1>4. ASSUME NEW s \in DOMAIN Suggestions!Scores(known) PROVE Suggestions!Scores(known)[s] \in Int
  <2> DEFINE T == {u \in known : s \in DOMAIN Related[u]}
  <2> DEFINE terms == [t \in T |-> rating[t] * Related[t][s]]
  <2>1. Suggestions!Scores(known)[s] = Suggestions!Sum(s, known)
    BY <1>2, <1>4 DEF Suggestions!Scores
  <2>2. Suggestions!Sum(s, known) = FoldFunction(+, 0, terms)
    BY DEF Suggestions!Sum, Suggestions!FoldFunction, Suggestions!FoldFunctionOnSet,
       Suggestions!MapThenFoldSet, FoldFunction, FoldFunctionOnSet, MapThenFoldSet
  <2>3. \A t \in T : rating[t] * Related[t][s] \in Int
    <3> SUFFICES ASSUME NEW t \in T PROVE rating[t] * Related[t][s] \in Int OBVIOUS
    <3>1. rating[t] \in Int BY DEF SuggestionsInv, Ratings
    <3>2. Related[t][s] \in Int BY <1>1 DEF Suggestions!SuggestionsAssumption
    <3> HIDE DEF T
    <3> QED BY <3>1, <3>2
  <2>4. terms \in [T -> Int] BY <2>3
  <2>5. T \subseteq Subreddits BY <1>1
  <2> HIDE DEF T, terms
  <2>6. IsFiniteSet(T)
    BY <2>5, FS_Subset, SuggestionsOperators DEF Suggestions!SuggestionsAssumption
  <2> QED BY <2>1, <2>2, <2>4, <2>6, FoldIsInt
<1> QED BY <1>3, <1>4

\* What Refresh may submit is a list of names, and ranked when they are all in place.
LEMMA UpdatesType ==
  ASSUME Suggestions!SuggestionsAssumption, NEW D, IsFiniteSet(D), D \subseteq Subreddits,
         NEW scores \in [D -> Int], NEW update \in Suggestions!Updates(scores)
  PROVE  Ranked(update)
<1>1. PICK owner \in Suggestions!Owners(scores) :
        \E list \in Suggestions!Sorted(owner, scores) :
          update = [list |-> list, age |-> 0,
                    scores |-> IF owner = [s \in DOMAIN scores |-> s] THEN scores ELSE <<>>]
  BY DEF Suggestions!Updates
<1>2. PICK list \in Suggestions!Sorted(owner, scores) :
        update = [list |-> list, age |-> 0,
                  scores |-> IF owner = [s \in DOMAIN scores |-> s] THEN scores ELSE <<>>]
  BY <1>1
<1>3. DOMAIN scores = D OBVIOUS
<1>4. PICK named \in SUBSET D : owner \in [named -> D]
  BY <1>3 DEF Suggestions!Owners, Suggestions!Injection
<1>5. /\ list \in SetToSeqs(named)
      /\ Suggestions!Descending(list, Suggestions!Named(owner, scores))
  BY <1>4, SuggestionsOperators DEF Suggestions!Sorted
<1>6. IsFiniteSet(named) BY <1>4, FS_Subset
<1>7. list \in Seq(named) /\ ToSet(list) = named BY <1>5, <1>6, OfSetToSeqs
<1>8. list \in Seq(Subreddits) BY <1>4, <1>7, SeqMonotonic
<1>9. 0 \in 0..Interval BY DEF Suggestions!SuggestionsAssumption
<1>10. CASE owner = [s \in DOMAIN scores |-> s]
  <2>1. update.scores = scores BY <1>2, <1>10
  <2>2. named = D BY <1>3, <1>4, <1>10
  <2>3. Suggestions!Named(owner, scores) = scores BY <1>3, <1>10 DEF Suggestions!Named
  <2> QED BY <1>2, <1>3, <1>5, <1>7, <1>8, <1>9, <2>1, <2>2, <2>3 DEF Ranked
<1>11. CASE owner # [s \in DOMAIN scores |-> s]
  <2>1. update.scores = <<>> /\ DOMAIN <<>> = {} BY <1>2, <1>11
  <2> QED BY <1>2, <1>8, <1>9, <2>1 DEF Ranked
<1> QED BY <1>10, <1>11

\* A refresh makes a list when the interval is over.
LEMMA SuggestionsRefresh ==
  ASSUME Suggestions!SuggestionsAssumption, SuggestionsInv, Suggestions!Refresh
  PROVE  SuggestionsInv'
<1>1. PICK known \in SUBSET DOMAIN rating : \E u \in Suggestions!Updates(Suggestions!Scores(known)) :
        ranked' = {u}
  BY DEF Suggestions!Refresh
<1> PICK scores : scores = Suggestions!Scores(known) OBVIOUS
<1>2. PICK u \in Suggestions!Updates(scores) : ranked' = {u} BY <1>1
<1> PICK D : D = DOMAIN scores OBVIOUS
<1>3. D \subseteq Subreddits /\ \A s \in D : scores[s] \in Int BY ScoresType
<1>4. scores \in [D -> Int]
  <2>1. scores = [s \in D |-> scores[s]] BY DEF Suggestions!Scores
  <2> QED BY <1>3, <2>1
<1>5. IsFiniteSet(D)
  BY <1>3, FS_Subset, SuggestionsOperators DEF Suggestions!SuggestionsAssumption
<1>6. Ranked(u) BY <1>3, <1>4, <1>5, UpdatesType
<1>9. UNCHANGED <<rating, rows, fired, message, begun, failed>> /\ fired >= Interval
  BY DEF Suggestions!Refresh, Suggestions!Due, Suggestions!messageVars
<1>10. Suggestions!TypeOK' /\ Ratings' /\ Messages' /\ Spaced'
  BY <1>9 DEF SuggestionsInv, Suggestions!TypeOK, Ratings, Messages, Spaced
<1>11. OneRanked' BY <1>2, <1>6, <1>9 DEF OneRanked, Ranked
<1> QED BY <1>10, <1>11 DEF SuggestionsInv

\* The places of a list that are not passed over, in their order.
LEMMA PlacesType ==
  ASSUME NEW S, NEW list \in Seq(S), NEW missed
  PROVE  /\ Suggestions!Places(list, missed) \in Seq(Int) /\ Len(Suggestions!Places(list, missed)) \in Nat
         /\ DOMAIN Suggestions!Places(list, missed) = 1..Len(Suggestions!Places(list, missed))
         /\ Grows(Suggestions!Places(list, missed))
         /\ ToSet(Suggestions!Places(list, missed)) =
              {i \in DOMAIN list : ~Suggestions!Known(list[i]) /\ list[i] \notin missed}
<1> DEFINE P == {i \in DOMAIN list : ~Suggestions!Known(list[i]) /\ list[i] \notin missed}
<1>1. Len(list) \in Nat /\ DOMAIN list = 1..Len(list) BY LenProperties
<1>2. P \in SUBSET Int /\ P \subseteq 1..Len(list) BY <1>1
<1>3. Suggestions!Places(list, missed) = Increasing(P) BY SuggestionsOperators DEF Suggestions!Places
<1> HIDE DEF P
<1>4. IsFiniteSet(1..Len(list)) BY <1>1, FS_Interval
<1>5. IsFiniteSet(P) BY <1>2, <1>4, FS_Subset
<1>6. /\ Suggestions!Places(list, missed) \in Seq(P) /\ Grows(Suggestions!Places(list, missed))
      /\ ToSet(Suggestions!Places(list, missed)) = P
  BY <1>2, <1>3, <1>5, OfIncreasing
<1>7. Suggestions!Places(list, missed) \in Seq(Int) BY <1>2, <1>6, SeqMonotonic
<1> QED BY <1>6, <1>7, LenProperties DEF P

\* A message is the beginning of the places.
LEMMA WriteType ==
  ASSUME Suggestions!SuggestionsAssumption, SuggestionsInv, NEW missed, Suggestions!Write(missed),
         NEW update \in ranked
  PROVE  LET places == Suggestions!Places(update.list, missed)
             n == IF MaxShown <= Len(places) THEN MaxShown ELSE Len(places)
         IN /\ n \in Nat /\ n <= MaxShown /\ n <= Len(places)
            /\ message' = [i \in 1..n |-> Suggestions!Spelled(update.list[places[i]])]
            /\ message' \in Seq({Suggestions!Spelled(s) : s \in Subreddits}) /\ Len(message') = n
            /\ \A i \in 1..n : /\ places[i] \in DOMAIN update.list
                               /\ ~Suggestions!Known(update.list[places[i]])
                               /\ update.list[places[i]] \in Subreddits
<1> DEFINE places == Suggestions!Places(update.list, missed)
<1> DEFINE n == IF MaxShown <= Len(places) THEN MaxShown ELSE Len(places)
<1>1. Ranked(update) BY DEF SuggestionsInv, OneRanked
<1>2. update.list \in Seq(Subreddits) BY <1>1 DEF Ranked
<1>3. /\ places \in Seq(Int) /\ Len(places) \in Nat /\ DOMAIN places = 1..Len(places)
      /\ ToSet(places) =
           {i \in DOMAIN update.list : ~Suggestions!Known(update.list[i]) /\ update.list[i] \notin missed}
  BY <1>2, PlacesType
<1>4. message' = [i \in DOMAIN Suggestions!FirstOf(places) |-> Suggestions!Spelled(update.list[places[i]])]
  <2>1. PICK u \in ranked : message' = [i \in DOMAIN Suggestions!FirstOf(Suggestions!Places(u.list, missed)) |->
                                          Suggestions!Spelled(u.list[Suggestions!Places(u.list, missed)[i]])]
    BY DEF Suggestions!Write
  <2>2. u = update BY DEF SuggestionsInv, OneRanked
  <2> QED BY <2>1, <2>2
<1> HIDE DEF places
<1>5. n \in Nat /\ n <= MaxShown /\ n <= Len(places) BY <1>3 DEF Suggestions!SuggestionsAssumption
<1>6. Min({MaxShown, Len(places)}) = n BY <1>3, MinOfTwo DEF Suggestions!SuggestionsAssumption
<1>7. DOMAIN Suggestions!FirstOf(places) = 1..n
  <2>1. Suggestions!FirstOf(places) = SubSeq(places, 1, n)
    BY <1>6, SuggestionsOperators DEF Suggestions!FirstOf
  <2> HIDE DEF n
  <2>2. SubSeq(places, 1, n) = [i \in 1..n |-> places[i]] BY <1>3, <1>5
  <2> QED BY <2>1, <2>2
<1>8. message' = [i \in 1..n |-> Suggestions!Spelled(update.list[places[i]])] BY <1>4, <1>7
<1> HIDE DEF n
<1>9. \A i \in 1..n : /\ places[i] \in DOMAIN update.list
                      /\ ~Suggestions!Known(update.list[places[i]])
                      /\ update.list[places[i]] \in Subreddits
  <2> SUFFICES ASSUME NEW i \in 1..n
               PROVE  /\ places[i] \in DOMAIN update.list
                      /\ ~Suggestions!Known(update.list[places[i]])
                      /\ update.list[places[i]] \in Subreddits
    OBVIOUS
  <2>1. i \in DOMAIN places BY <1>3, <1>5
  <2>2. places[i] \in ToSet(places) BY <2>1 DEF ToSet
  <2>3. places[i] \in DOMAIN update.list /\ ~Suggestions!Known(update.list[places[i]]) BY <1>3, <2>2
  <2>4. update.list[places[i]] \in Subreddits BY <1>2, <2>3, ElementOfSeq, LenProperties
  <2> QED BY <2>3, <2>4
<1>10. message' \in [1..n -> {Suggestions!Spelled(s) : s \in Subreddits}] BY <1>8, <1>9
<1>11. message' \in Seq({Suggestions!Spelled(s) : s \in Subreddits}) BY <1>5, <1>10, SeqDef
<1>12. Len(message') = n BY <1>5, <1>10, <1>11, LenProperties
<1> QED BY <1>5, <1>8, <1>9, <1>11, <1>12 DEF n, places

\* A message is the beginning of the list, and the list is used up.
LEMMA SuggestionsWrite ==
  ASSUME Suggestions!SuggestionsAssumption, SuggestionsInv, NEW missed, Suggestions!Write(missed)
  PROVE  SuggestionsInv'
<1>1. PICK update \in ranked :
        /\ begun' = update.age
        /\ (fired' = update.age /\ failed' = FALSE) \/ (failed' = TRUE /\ fired' = fired)
  BY DEF Suggestions!Write
<1>2. message' \in Seq({Suggestions!Spelled(s) : s \in Subreddits}) /\ Len(message') <= MaxShown
  BY WriteType
<1>3. ranked' = {} /\ rating' = rating /\ rows' = rows BY DEF Suggestions!Write
<1>4. update.age \in 0..Interval BY DEF SuggestionsInv, OneRanked, Ranked
<1>5. Suggestions!TypeOK'
  <2>1. begun' \in 0..Interval /\ fired' \in 0..Interval /\ failed' \in BOOLEAN
    BY <1>1, <1>4 DEF SuggestionsInv, Suggestions!TypeOK
  <2> QED BY <1>2, <1>3, <2>1 DEF SuggestionsInv, Suggestions!TypeOK
<1>6. Ratings' /\ Messages' /\ OneRanked'
  BY <1>2, <1>3 DEF SuggestionsInv, Ratings, Messages, OneRanked
<1>7. Spaced' BY <1>1, <1>4 DEF Spaced, Suggestions!SuggestionsAssumption
<1> QED BY <1>5, <1>6, <1>7 DEF SuggestionsInv

\* Time passes, and an update that waits grows older.
LEMMA SuggestionsTick ==
  ASSUME Suggestions!SuggestionsAssumption, SuggestionsInv, Suggestions!Tick
  PROVE  SuggestionsInv'
<1> DEFINE Aged(age) == IF age + 1 <= Interval THEN age + 1 ELSE Interval
<1>1. Interval \in Nat BY DEF Suggestions!SuggestionsAssumption
<1>2. \A age \in 0..Interval : Suggestions!Later(age) = Aged(age) /\ Aged(age) \in 0..Interval
  <2> SUFFICES ASSUME NEW age \in 0..Interval
               PROVE  Suggestions!Later(age) = Aged(age) /\ Aged(age) \in 0..Interval
    OBVIOUS
  <2>1. Suggestions!Later(age) = Min({age + 1, Interval}) BY SuggestionsOperators DEF Suggestions!Later
  <2> QED BY <1>1, <2>1, MinOfTwo
<1>3. fired \in 0..Interval /\ begun \in 0..Interval BY DEF SuggestionsInv, Suggestions!TypeOK
<1>4. /\ fired' = Aged(fired) /\ begun' = Aged(begun)
      /\ ranked' = {[u EXCEPT !.age = Suggestions!Later(@)] : u \in ranked}
      /\ UNCHANGED <<rating, rows, message, failed>>
  BY <1>2, <1>3 DEF Suggestions!Tick
<1>5. Suggestions!TypeOK' BY <1>2, <1>3, <1>4 DEF SuggestionsInv, Suggestions!TypeOK
<1>6. Ratings' /\ Messages' BY <1>4 DEF SuggestionsInv, Ratings, Messages
<1>7. Spaced' BY <1>1, <1>3, <1>4 DEF SuggestionsInv, Spaced
<1> HIDE DEF Aged
<1>8. ASSUME NEW u \in ranked PROVE Ranked([u EXCEPT !.age = Suggestions!Later(@)])
  <2>1. Ranked(u) BY DEF SuggestionsInv, OneRanked
  <2>2. u = [list |-> u.list, age |-> u.age, scores |-> u.scores] /\ u.age \in 0..Interval
    BY <2>1, Zenon DEF Ranked
  <2>3. PICK v : v = [u EXCEPT !.age = Suggestions!Later(@)] OBVIOUS
  <2>4. v = [list |-> u.list, age |-> Suggestions!Later(u.age), scores |-> u.scores] BY <2>2, <2>3
  <2>5. v.list = u.list /\ v.scores = u.scores /\ v.age \in 0..Interval BY <1>2, <2>2, <2>4
  <2>6. v = [list |-> v.list, age |-> v.age, scores |-> v.scores] BY <2>4
  <2>7. Ranked(v) BY <2>1, <2>5, <2>6 DEF Ranked
  <2> QED BY <2>3, <2>7
<1>9. OneRanked'
  <2>1. \A u, v \in ranked' : u = v BY <1>4 DEF SuggestionsInv, OneRanked
  <2>2. \A v \in ranked' : Ranked(v) BY <1>4, <1>8
  <2>3. ranked' # {} => fired' >= Interval
    BY <1>1, <1>3, <1>4 DEF SuggestionsInv, OneRanked, Aged
  <2> QED BY <2>1, <2>2, <2>3 DEF OneRanked, Ranked
<1> QED BY <1>5, <1>6, <1>7, <1>9 DEF SuggestionsInv

\* The invariant is inductive.
LEMMA SuggestionsNext ==
  ASSUME Suggestions!SuggestionsAssumption, SuggestionsInv, Suggestions!Next
  PROVE  SuggestionsInv'
<1>1. CASE Suggestions!Rate
  <2>1. PICK s \in Liked, n \in -MaxRating..MaxRating :
          rating' = [t \in DOMAIN rating \cup {s} |-> IF t = s THEN n ELSE rating[t]]
    BY <1>1 DEF Suggestions!Rate
  <2>2. UNCHANGED <<rows, fired, ranked, message, begun, failed>>
    BY <1>1 DEF Suggestions!Rate, Suggestions!messageVars
  <2>3. n \in Int BY DEF Suggestions!SuggestionsAssumption
  <2>4. Ratings' BY <2>1, <2>3 DEF SuggestionsInv, Ratings
  <2>5. Suggestions!TypeOK' BY <2>1, <2>2 DEF SuggestionsInv, Suggestions!TypeOK
  <2>6. Messages' /\ OneRanked' /\ Spaced' BY <2>2 DEF SuggestionsInv, Messages, OneRanked, Spaced
  <2> QED BY <2>4, <2>5, <2>6 DEF SuggestionsInv
<1>2. CASE Suggestions!Choose
  <2>1. PICK i \in DOMAIN message : rows' = rows \cup {Suggestions!SubID(message[i].name)}
    BY <1>2 DEF Suggestions!Choose
  <2>2. UNCHANGED <<rating, fired, ranked, message, begun, failed>>
    BY <1>2 DEF Suggestions!Choose, Suggestions!messageVars
  <2>3. PICK s \in Subreddits : message[i] = Suggestions!Spelled(s)
    BY ElementOfSeq, LenProperties DEF SuggestionsInv, Messages
  <2>4. message[i].name = s BY <2>3 DEF Suggestions!Spelled
  <2>5. rows' \subseteq {Suggestions!SubID(t) : t \in Subreddits}
    BY <2>1, <2>4 DEF SuggestionsInv, Suggestions!TypeOK
  <2>6. Suggestions!TypeOK' BY <2>2, <2>5 DEF SuggestionsInv, Suggestions!TypeOK
  <2>7. Ratings' /\ Messages' /\ OneRanked' /\ Spaced'
    BY <2>2 DEF SuggestionsInv, Ratings, Messages, OneRanked, Spaced
  <2> QED BY <2>6, <2>7 DEF SuggestionsInv
<1>3. CASE Suggestions!Tick BY <1>3, SuggestionsTick
<1>4. CASE Suggestions!Abandon
  BY <1>4
    DEF Suggestions!Abandon, Suggestions!messageVars, SuggestionsInv, Suggestions!TypeOK, Ratings,
        Messages, OneRanked, Spaced
<1>5. CASE Suggestions!Writes BY <1>5, SuggestionsWrite DEF Suggestions!Writes
<1> QED BY <1>1, <1>2, <1>3, <1>4, <1>5, SuggestionsRefresh DEF Suggestions!Next

\* What is in a message has no row.
LEMMA NoneChosen ==
  ASSUME Suggestions!SuggestionsAssumption, SuggestionsInv, Suggestions!Writes, NEW i \in DOMAIN message'
  PROVE  Suggestions!SubID(message'[i].name) \notin rows
<1> PICK missed \in SUBSET Subreddits : Suggestions!Write(missed) BY DEF Suggestions!Writes
<1>1. PICK update \in ranked : TRUE BY DEF Suggestions!Write
<1>2. PICK n \in Nat :
        /\ message' = [k \in 1..n |-> Suggestions!Spelled(update.list[Suggestions!Places(update.list, missed)[k]])]
        /\ \A k \in 1..n : ~Suggestions!Known(update.list[Suggestions!Places(update.list, missed)[k]])
  BY WriteType
<1>3. PICK s : message'[i] = Suggestions!Spelled(s) /\ ~Suggestions!Known(s) BY <1>2
<1> QED BY <1>3 DEF Suggestions!Spelled, Suggestions!SubID, Suggestions!Known

\* What is left out of a message has a row or no better score, or was not looked up.
LEMMA BestFirst ==
  ASSUME Suggestions!SuggestionsAssumption, SuggestionsInv, NEW missed, Suggestions!Write(missed),
         NEW update \in ranked, NEW s \in DOMAIN update.scores \ missed, NEW i \in DOMAIN message',
         update.scores[s] > update.scores[message'[i].name], Suggestions!SubID(s) \notin rows
  PROVE  \E j \in DOMAIN message' : message'[j].name = s
<1> DEFINE list == update.list
<1> DEFINE places == Suggestions!Places(list, missed)
<1> DEFINE n == IF MaxShown <= Len(places) THEN MaxShown ELSE Len(places)
<1>1. Ranked(update) BY DEF SuggestionsInv, OneRanked
<1>2. list \in Seq(Subreddits) /\ ToSet(list) = DOMAIN update.scores
      /\ Suggestions!Descending(list, update.scores) /\ \A t \in DOMAIN update.scores : update.scores[t] \in Int
  BY <1>1 DEF Ranked
<1>3. /\ places \in Seq(Int) /\ Len(places) \in Nat /\ DOMAIN places = 1..Len(places)
      /\ ToSet(places) = {k \in DOMAIN list : ~Suggestions!Known(list[k]) /\ list[k] \notin missed}
      /\ Grows(places)
  BY <1>2, PlacesType
<1>4. /\ n \in Nat /\ n <= Len(places) /\ message' = [k \in 1..n |-> Suggestions!Spelled(list[places[k]])]
      /\ \A k \in 1..n : places[k] \in DOMAIN list
  BY WriteType
<1>5. ~Suggestions!Known(s)
  <2>1. \A r \in rows : \E t \in Subreddits : r = Suggestions!SubID(t)
    BY DEF SuggestionsInv, Suggestions!TypeOK
  <2> QED BY <2>1 DEF Suggestions!Known, Suggestions!SubID
<1>6. PICK k \in DOMAIN list : list[k] = s BY <1>2 DEF ToSet
<1>7. k \in ToSet(places) BY <1>3, <1>5, <1>6
<1>8. PICK j \in DOMAIN places : places[j] = k BY <1>7 DEF ToSet
<1> HIDE DEF places, n
<1>9. i \in 1..n /\ message'[i].name = list[places[i]] BY <1>4 DEF Suggestions!Spelled
<1>10. /\ i \in DOMAIN places /\ i \in Int /\ j \in Int /\ j \in 1..Len(places)
       /\ places[i] \in DOMAIN list
  BY <1>3, <1>4, <1>9
<1>11. DOMAIN list \subseteq Int /\ \A a \in DOMAIN list : list[a] \in DOMAIN update.scores
  <2>1. DOMAIN list = 1..Len(list) /\ Len(list) \in Nat BY <1>2, LenProperties
  <2> QED BY <1>2, <2>1 DEF ToSet
<1>12. update.scores[list[k]] > update.scores[list[places[i]]] BY <1>6, <1>9
<1>13. k < places[i]
  <2> SUFFICES ASSUME ~(k < places[i]) PROVE FALSE OBVIOUS
  <2>1. k = places[i] \/ places[i] < k BY <1>10, <1>11
  <2>2. update.scores[list[places[i]]] >= update.scores[list[k]]
    <3>1. CASE k = places[i] BY <1>2, <1>11, <3>1
    <3>2. CASE places[i] < k BY <1>2, <1>10, <3>2 DEF Suggestions!Descending
    <3> QED BY <2>1, <3>1, <3>2
  <2>3. update.scores[list[places[i]]] \in Int /\ update.scores[list[k]] \in Int
    BY <1>2, <1>10, <1>11
  <2> QED BY <1>12, <2>2, <2>3
<1>14. j < i
  <2> SUFFICES ASSUME i <= j PROVE FALSE BY <1>10
  <2>1. places[i] <= places[j]
    <3>1. places[i] \in Int /\ places[j] \in Int BY <1>3, <1>8, <1>10, ElementOfSeq
    <3>2. CASE i = j BY <3>1, <3>2
    <3>3. CASE i # j
      <4>1. i < j BY <1>10, <3>3
      <4>2. places[i] < places[j] BY <1>3, <1>8, <1>10, <4>1 DEF Grows
      <4> QED BY <3>1, <4>2
    <3> QED BY <3>2, <3>3
  <2> QED BY <1>8, <1>10, <1>11, <1>13, <2>1
<1>15. j \in 1..n BY <1>4, <1>9, <1>10, <1>14
<1>16. message'[j].name = s BY <1>4, <1>6, <1>8, <1>15 DEF Suggestions!Spelled
<1> QED BY <1>4, <1>15, <1>16

\* Unless its time could not be stored, a message is followed by the next an interval
\* after its refresh began.
LEMMA OneAnInterval ==
  ASSUME Suggestions!SuggestionsAssumption, SuggestionsInv, Suggestions!Writes, ~failed
  PROVE  begun >= Interval
<1>1. fired >= Interval /\ begun >= fired
  BY DEF SuggestionsInv, OneRanked, Spaced, Suggestions!Writes, Suggestions!Write
<1> QED BY <1>1 DEF SuggestionsInv, Suggestions!TypeOK, Suggestions!SuggestionsAssumption
-----------------------------------------------------------------------------
(* The vendors side by side.                                               *)

\* The inductive invariant of Vendors.
VendorsInv == DvachInv /\ SubredditInv /\ PacingInv /\ SuggestionsInv

\* The initial state satisfies every component's invariant.
LEMMA VendorsInitially == VendorsInit => VendorsInv
<1> SUFFICES ASSUME VendorsInit PROVE VendorsInv OBVIOUS
<1>1. Dvach!Init /\ Subreddit!Init /\ Pacing!Init /\ Suggestions!Init BY DEF VendorsInit
<1>2. DvachInv BY <1>1, DvachInit, PostsAssumption
<1>3. SubredditInv BY <1>1, SubredditInit, SubredditAssumption DEF SubredditAssumed
<1>4. PacingInv BY <1>1, PacingInit, ShareAssumption
<1>5. SuggestionsInv BY <1>1, SuggestionsInit, ListAssumption
<1> QED BY <1>2, <1>3, <1>4, <1>5 DEF VendorsInv

\* A vendor that another one's step leaves alone keeps its invariant: each of the four.
LEMMA DvachStays == ASSUME DvachInv, UNCHANGED dvachVars PROVE DvachInv'
<1> USE DEF dvachVars
<1>1. Dvach!TypeOK' BY DEF DvachInv, Dvach!TypeOK
<1>2. (OffsetsReached /\ SentPassed /\ InHands /\ QueuePassed /\ ListingAhead /\ Resting)'
  BY
    DEF DvachInv, OffsetsReached, Reached, SentPassed, Dvach!InOrder, InHands, Newest, QueuePassed,
        ListingAhead, Resting, Grows, Past
<1>3. (NoneLost /\ NoneAhead /\ SentBefore)'
  BY DEF DvachInv, NoneLost, NoneAhead, SentBefore, Newest, Dvach!Existing, Past
<1> QED BY <1>1, <1>2, <1>3 DEF DvachInv

LEMMA SubredditStays == ASSUME SubredditInv, UNCHANGED subredditVars PROVE SubredditInv'
<1> USE DEF subredditVars
<1>1. Subreddit!TypeOK' /\ QueueTypes' /\ AgesAgree'
  BY DEF SubredditInv, Subreddit!TypeOK, QueueTypes, AgesAgree
<1>2. ASSUME NEW f \in Feeds PROVE FeedInv(f)' BY Elsewhere DEF SubredditInv
<1> QED BY <1>1, <1>2 DEF SubredditInv

LEMMA PacingStays == ASSUME PacingInv, UNCHANGED pacingVars PROVE PacingInv'
BY DEF PacingInv, pacingVars

LEMMA SuggestionsStay ==
  ASSUME SuggestionsInv, UNCHANGED suggestionVars
  PROVE  SuggestionsInv'
<1> USE DEF suggestionVars
<1>1. Suggestions!TypeOK' BY DEF SuggestionsInv, Suggestions!TypeOK
<1>2. Ratings' /\ Messages' /\ OneRanked' /\ Spaced'
  BY DEF SuggestionsInv, Ratings, Messages, OneRanked, Spaced
<1> QED BY <1>1, <1>2 DEF SuggestionsInv

\* Every step is one of a vendor, or leaves that vendor alone.
LEMMA StepsOfVendors ==
  ASSUME [VendorsNext]_vendorsVars
  PROVE  /\ Dvach!Next \/ UNCHANGED dvachVars
         /\ Subreddit!Next \/ UNCHANGED subredditVars
         /\ Pacing!Next \/ UNCHANGED pacingVars
         /\ Suggestions!Next \/ UNCHANGED suggestionVars
BY DEF VendorsNext, vendorsVars, DvachMoves, SubredditMoves, PacingMoves, SuggestionsMove

\* The invariants of the vendors are inductive side by side.
LEMMA VendorsInductive == ASSUME VendorsInv, [VendorsNext]_vendorsVars PROVE VendorsInv'
<1> USE DEF VendorsInv
<1>1. DvachInv' BY StepsOfVendors, DvachNext, DvachStays, PostsAssumption
<1>2. SubredditInv'
  BY StepsOfVendors, SubredditNext, SubredditStays, SubredditAssumption DEF SubredditAssumed
<1>3. PacingInv' BY StepsOfVendors, PacingNext, PacingStays
<1>4. SuggestionsInv' BY StepsOfVendors, SuggestionsNext, SuggestionsStay, ListAssumption
<1> QED BY <1>1, <1>2, <1>3, <1>4

\* The four invariants hold in every state, whichever of the vendors moves.
THEOREM VendorsInvariance == VendorsSpec => []VendorsInv
<1>1. VendorsInv /\ [VendorsNext]_vendorsVars => VendorsInv' BY VendorsInductive
<1> QED BY VendorsInitially, <1>1, PTL DEF VendorsSpec

\* Every vendor keeps to its types; and posts of 2ch.hk are relayed in the order of
\* their publication, none again that was stored as sent, and none that matches is
\* passed by, wherever refreshes are interrupted and whatever order the catalog comes in.
THEOREM VendorsSafe == VendorsSpec => []VendorsInvariant
<1>1. VendorsInv => VendorsInvariant
  BY DvachSafe DEF VendorsInv, VendorsInvariant, SubredditInv, SuggestionsInv
<1> QED BY VendorsInvariance, <1>1, PTL

\* The number of votes asked for is the least that keeps what is relayed within the
\* wanted share of the table, for any table, votes, events and factors.
THEOREM ShareSplit == VendorsSpec => []SplitsAtShare
<1>1. VendorsInv => SplitsAtShare BY PacingSplits, ShareAssumption DEF VendorsInv, SplitsAtShare
<1> QED BY VendorsInvariance, <1>1, PTL

\* A thing is relayed again to a chat only when it was absent from all listings for
\* longer than ThingTTL, and no older ID is kept, for any chats, things and batches.
THEOREM NeverForgets == VendorsSpec => Remembers
<1>1. VendorsInv /\ [VendorsNext]_vendorsVars =>
        [\A f \in Feeds : Subreddit!Submits(f) =>
           LET t == Subreddit!Last(updates'[f]).thing IN t \in relayed[f] => t \in absent[f]]_(Subreddit!vars)
  BY StepsOfVendors, SubredditRemembers, SubredditAssumption
  DEF VendorsInv, SubredditAssumed, subredditVars, Subreddit!vars, Subreddit!ghosts
<1>2. VendorsInv /\ [VendorsNext]_vendorsVars =>
        [\A f \in Feeds : Subreddit!Submits(f) =>
           \A t \in vendor'[f].sent : shown[t] <= ThingTTL + vendor[f].clean]_(Subreddit!vars)
  BY StepsOfVendors, SubredditRemembers, SubredditAssumption
  DEF VendorsInv, SubredditAssumed, subredditVars, Subreddit!vars, Subreddit!ghosts
<1>3. VendorsSpec => Subreddit!ResentOnlyAfterAbsence
  BY VendorsInvariance, <1>1, PTL DEF VendorsSpec, Subreddit!ResentOnlyAfterAbsence
<1>4. VendorsSpec => Subreddit!SentIsRecent
  BY VendorsInvariance, <1>2, PTL DEF VendorsSpec, Subreddit!SentIsRecent
<1> QED BY <1>3, <1>4 DEF Remembers, Subreddit!Remembers

\* Nothing that has a row is suggested, whenever it got it and whatever could not be
\* read; what is left out of a message is not better than what is in it, where all were
\* named and read; and a message comes an interval after the refresh of the one before
\* began: for any subreddits, histograms and ratings.
THEOREM Suggested == VendorsSpec => Suggests
<1>1. VendorsInv /\ [VendorsNext]_vendorsVars =>
        [Suggestions!Writes => \A i \in DOMAIN message' :
           Suggestions!SubID(message'[i].name) \notin rows]_(Suggestions!vars)
  BY NoneChosen, ListAssumption DEF VendorsInv
<1>2. VendorsInv /\ [VendorsNext]_vendorsVars =>
        [\A missed \in SUBSET Subreddits : Suggestions!Write(missed) =>
           \A update \in ranked : \A s \in DOMAIN update.scores \ missed : \A i \in DOMAIN message' :
             update.scores[s] > update.scores[message'[i].name] =>
               \/ Suggestions!SubID(s) \in rows
               \/ \E j \in DOMAIN message' : message'[j].name = s]_(Suggestions!vars)
  BY BestFirst, ListAssumption DEF VendorsInv
<1>3. VendorsInv /\ [VendorsNext]_vendorsVars =>
        [Suggestions!Writes /\ ~failed => begun >= Interval]_(Suggestions!vars)
  BY OneAnInterval, ListAssumption DEF VendorsInv
<1>4. VendorsSpec => Suggestions!ChosenNotSuggested
  BY VendorsInvariance, <1>1, PTL DEF VendorsSpec, Suggestions!ChosenNotSuggested
<1>5. VendorsSpec => Suggestions!BestAreSuggested
  BY VendorsInvariance, <1>2, PTL DEF VendorsSpec, Suggestions!BestAreSuggested
<1>6. VendorsSpec => Suggestions!OncePerInterval
  BY VendorsInvariance, <1>3, PTL DEF VendorsSpec, Suggestions!OncePerInterval
<1> QED BY <1>4, <1>5, <1>6 DEF Suggests, Suggestions!Suggests
=============================================================================
