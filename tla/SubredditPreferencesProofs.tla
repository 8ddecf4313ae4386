--------------------- MODULE SubredditPreferencesProofs ---------------------
(***************************************************************************)
(* The safety of SubredditPreferences for any finite set of users, any     *)
(* messages and things, and any number of events.                          *)
(*                                                                         *)
(* DeleteEvents is a recursive function over the rows.  What it returns is *)
(* proved by induction on their number; as the library's theorem on        *)
(* induction takes an operator, NaturalInduction states it for a set,      *)
(* which follows from the well-foundedness of the natural numbers.         *)
(***************************************************************************)
EXTENDS SubredditPreferences, FiniteSetTheorems, SequenceTheorems, WellFoundedInduction, TLAPS

-----------------------------------------------------------------------------
\* A set that has 0, and with a number the next, has every number.
LEMMA NaturalInduction ==
  ASSUME NEW S, 0 \in S, \A n \in Nat : n \in S => n + 1 \in S
  PROVE  Nat \subseteq S
<1> DEFINE T == Nat \ S
<1> SUFFICES ASSUME T # {} PROVE FALSE OBVIOUS
<1>1. PICK n \in T : \A m \in T : ~(<<m, n>> \in OpToRel(<, Nat))
  BY NatLessThanWellFounded, WFMin
<1>2. \A m \in T : m < n => <<m, n>> \in OpToRel(<, Nat) BY DEF OpToRel
<1>3. \A m \in T : ~(m < n) BY <1>1, <1>2, Zenon
<1>4. n \in Nat /\ n # 0 OBVIOUS
<1>5. n - 1 \in Nat /\ n - 1 < n /\ (n - 1) + 1 = n BY <1>4
<1>6. n - 1 \in S BY <1>3, <1>5
<1> QED BY <1>5, <1>6

Row == [type : Preferences \cup {"pre", "click"}, user : Users, message : Messages]

\* The function that goes through the rows exists and is what its definition says.
LEMMA RemainingDefined ==
  ASSUME events \in Seq(Row)
  PROVE  Remaining =
           [n \in 0..Len(events) |->
             IF n = 0 THEN <<>>
             ELSE IF Replaced(events[n]) THEN Remaining[n - 1]
             ELSE Append(Remaining[n - 1], events[n])]
<1> DEFINE At(g, n) == IF n = 0 THEN <<>>
                       ELSE IF Replaced(events[n]) THEN g[n - 1]
                       ELSE Append(g[n - 1], events[n])
           Solves(g, n) == g = [k \in 0..n |-> At(g, k)]
           Solvable == {n \in Nat : \E g : Solves(g, n)}
<1>1. 0 \in Solvable
  <2>1. Solves([k \in 0..0 |-> <<>>], 0) OBVIOUS
  <2> QED BY <2>1
<1>2. ASSUME NEW n \in Nat, n \in Solvable PROVE n + 1 \in Solvable
  <2>1. PICK g : Solves(g, n) BY <1>2
  <2> DEFINE h == [k \in 0..n + 1 |-> IF k <= n THEN g[k] ELSE At(g, n + 1)]
  <2>2. \A k \in 0..n : h[k] = g[k] OBVIOUS
  <2>3. h[n + 1] = At(g, n + 1) OBVIOUS
  <2>4. \A k \in 0..n : g[k] = At(g, k) BY <2>1
  <2>5. \A k \in 0..n + 1 : h[k] = At(h, k)
    <3> SUFFICES ASSUME NEW k \in 0..n + 1 PROVE h[k] = At(h, k) OBVIOUS
    <3>1. CASE k = 0 BY <3>1, <2>2, <2>4
    <3>2. CASE k \in 1..n
      <4>1. k - 1 \in 0..n /\ k \in 0..n BY <3>2
      <4>2. h[k - 1] = g[k - 1] /\ h[k] = g[k] BY <4>1, <2>2
      <4> HIDE DEF h
      <4> QED BY <4>1, <4>2, <2>4
    <3>3. CASE k = n + 1
      <4>1. (n + 1) - 1 = n /\ n \in 0..n BY <1>2
      <4>2. h[n] = g[n] BY <4>1, <2>2
      <4> HIDE DEF h
      <4> QED BY <3>3, <4>1, <4>2, <2>3
    <3> QED BY <3>1, <3>2, <3>3
  <2>6. h = [k \in 0..n + 1 |-> h[k]] OBVIOUS
  <2> HIDE DEF h
  <2>7. \E f : Solves(f, n + 1) BY <2>5, <2>6
  <2> HIDE DEF Solves
  <2> QED BY <2>7
<1> HIDE DEF Solvable
<1>3. Nat \subseteq Solvable BY <1>1, <1>2, NaturalInduction
<1>4. PICK g : Solves(g, Len(events)) BY <1>3, LenProperties DEF Solvable
<1>5. Remaining = CHOOSE f : f = [n \in 0..Len(events) |->
                                    IF n = 0 THEN <<>>
                                    ELSE IF Replaced(events[n]) THEN f[n - 1]
                                    ELSE Append(f[n - 1], events[n])]
  BY DEF Remaining
<1> QED BY <1>4, <1>5

\* s are those of the first n rows that are not replaced, in their order: g says where
\* each of them was.
Selects(s, g, n) ==
  /\ s \in Seq(Row) /\ g \in [1..Len(s) -> 1..n]
  /\ \A i, j \in 1..Len(s) : i < j => g[i] < g[j]
  /\ \A i \in 1..Len(s) : s[i] = events[g[i]] /\ ~Replaced(events[g[i]])
  /\ \A k \in 1..n : ~Replaced(events[k]) => \E i \in 1..Len(s) : g[i] = k

LEMMA RemainingSelects ==
  ASSUME events \in Seq(Row)
  PROVE  \E g : Selects(Remaining[Len(events)], g, Len(events))
<1> DEFINE Good == {n \in Nat : n <= Len(events) => \E g : Selects(Remaining[n], g, n)}
<1>1. Len(events) \in Nat /\ DOMAIN events = 1..Len(events)
      /\ \A k \in 1..Len(events) : events[k] \in Row
  BY LenProperties, ElementOfSeq
<1>2. 0 \in Good
  <2>1. Remaining[0] = <<>> BY RemainingDefined, <1>1
  <2>2. Selects(<<>>, [i \in 1..0 |-> 0], 0) BY DEF Selects
  <2> QED BY <2>1, <2>2
<1>3. ASSUME NEW n \in Nat, n \in Good PROVE n + 1 \in Good
  <2> SUFFICES ASSUME n + 1 <= Len(events) PROVE \E g : Selects(Remaining[n + 1], g, n + 1)
    OBVIOUS
  <2>1. n + 1 \in 0..Len(events) /\ n + 1 # 0 /\ (n + 1) - 1 = n /\ n + 1 \in 1..Len(events)
    BY <1>1
  <2>2. PICK g : Selects(Remaining[n], g, n) BY <1>1, <1>3
  <2>3. Remaining[n + 1] = IF Replaced(events[n + 1]) THEN Remaining[n]
                           ELSE Append(Remaining[n], events[n + 1])
    BY RemainingDefined, <2>1
  <2>4. CASE Replaced(events[n + 1])
    <3>1. \A k \in 1..n + 1 : k = n + 1 \/ k \in 1..n OBVIOUS
    <3>2. Selects(Remaining[n], g, n + 1) BY <2>2, <2>4, <3>1 DEF Selects
    <3> QED BY <2>3, <2>4, <3>2
  <2>5. CASE ~Replaced(events[n + 1])
    <3> DEFINE s == Remaining[n]
               t == Append(s, events[n + 1])
               h == [i \in 1..Len(s) + 1 |-> IF i <= Len(s) THEN g[i] ELSE n + 1]
    <3>1. s \in Seq(Row) /\ Len(s) \in Nat BY <2>2, LenProperties DEF Selects
    <3>2. /\ t \in Seq(Row) /\ Len(t) = Len(s) + 1 /\ t[Len(s) + 1] = events[n + 1]
          /\ \A i \in 1..Len(s) : t[i] = s[i]
      BY <3>1, <1>1, <2>1, AppendProperties
    <3>3. (\A i \in 1..Len(s) : h[i] = g[i]) /\ h[Len(s) + 1] = n + 1 BY <3>1
    <3>4. h \in [1..Len(t) -> 1..n + 1] BY <2>2, <3>1, <3>2 DEF Selects
    <3> HIDE DEF h, t
    <3>5. \A i \in 1..Len(t) : i = Len(s) + 1 \/ i \in 1..Len(s) BY <3>1, <3>2
    <3>6. \A i, j \in 1..Len(t) : i < j => h[i] < h[j]
      <4> SUFFICES ASSUME NEW i \in 1..Len(t), NEW j \in 1..Len(t), i < j PROVE h[i] < h[j]
        OBVIOUS
      <4>0. i \in 1..Len(s) BY <3>1, <3>2
      <4>1. i \in 1..Len(s) /\ g[i] \in 1..n BY <2>2, <4>0 DEF Selects
      <4>2. CASE j \in 1..Len(s) BY <2>2, <3>3, <4>1, <4>2 DEF Selects
      <4>3. CASE j = Len(s) + 1 BY <3>3, <4>1, <4>3
      <4> QED BY <3>5, <4>2, <4>3
    <3>7. \A i \in 1..Len(t) : t[i] = events[h[i]] /\ ~Replaced(events[h[i]])
      BY <2>2, <2>5, <3>2, <3>3, <3>5 DEF Selects
    <3>8. ASSUME NEW k \in 1..n + 1, ~Replaced(events[k]) PROVE \E i \in 1..Len(t) : h[i] = k
      <4>1. CASE k = n + 1 BY <3>1, <3>2, <3>3, <4>1
      <4>2. CASE k \in 1..n
        <5>1. PICK i \in 1..Len(s) : g[i] = k BY <2>2, <3>8, <4>2 DEF Selects
        <5>2. i \in 1..Len(t) BY <3>1, <3>2
        <5> QED BY <5>1, <5>2, <3>3
      <4> QED BY <4>1, <4>2
    <3>9. Selects(t, h, n + 1) BY <3>2, <3>4, <3>6, <3>7, <3>8 DEF Selects
    <3> QED BY <2>3, <2>5, <3>9 DEF t
  <2> QED BY <2>4, <2>5
<1> HIDE DEF Good
<1>4. Nat \subseteq Good BY <1>2, <1>3, NaturalInduction
<1>5. Len(events) \in Good BY <1>1, <1>4
<1> QED BY <1>1, <1>5 DEF Good

-----------------------------------------------------------------------------
Relayed == {Thing(m) : m \in Messages}

\* What a command knows at each of its steps.
CommandTypes ==
  \/ cmd = None
  \/ /\ cmd \in [at : {"delete", "save", "count"}, type : Preferences, user : Users,
                 message : Messages, thing : Relayed]
     /\ cmd.thing = Thing(cmd.message)
  \/ /\ cmd \in [at : {"copy", "start", "click"}, type : {"click"}, user : Users,
                 message : Messages, thing : Relayed]
     /\ cmd.thing = Thing(cmd.message)
  \/ cmd \in [at : {"lookup"}, type : {"click"}, user : Users,
              message : {Nothing}, thing : Relayed]

Types ==
  /\ events \in Seq(Row) /\ CommandTypes
  /\ markup \in [Messages -> [like : Nat, dislike : Nat]]
  /\ started \subseteq Users /\ cut \subseteq Messages
  /\ requested \in [Users \X Relayed -> Messages \cup {Nothing}]

\* Once the old preference is deleted there is none until the new one is saved.
Cleared ==
  cmd.at = "save" =>
    \A i \in DOMAIN events :
      ~(events[i].type \in Preferences /\ events[i].user = cmd.user /\ events[i].message = cmd.message)

Rows(type, m) == {i \in DOMAIN events : events[i].type = type /\ events[i].message = m}
Number(type, m) == Cardinality(Rows(type, m))

\* The buttons are up to date except while their own command is in progress.
Current ==
  \A m \in Messages \ cut :
    (cmd.at \in {"delete", "save", "count"} => m # cmd.message) =>
      markup[m].like = Number("like", m) /\ markup[m].dislike = Number("dislike", m)

\* The buttons under a message count no more readers than there are.
Bounded == \A m \in Messages : markup[m].like + markup[m].dislike <= Cardinality(Users)

\* The last request of a user for a thing is the one that was kept last.
Asks(i, u, t) == events[i].type = "pre" /\ events[i].user = u /\ Thing(events[i].message) = t
Latest(i, u, t) == Asks(i, u, t) /\ \A j \in DOMAIN events : Asks(j, u, t) => j <= i
Kept ==
  \A u \in Users, t \in Relayed, i \in DOMAIN events :
    Latest(i, u, t) => requested[<<u, t>>] = events[i].message

IInv == Types /\ OnePreference /\ Cleared /\ Current /\ Bounded /\ Kept

LEMMA Finite ==
  ASSUME NEW n \in Nat, NEW S \in SUBSET (1..n)
  PROVE  IsFiniteSet(S) /\ Cardinality(S) \in Nat
<1>1. IsFiniteSet(1..n) BY FS_Interval
<1> QED BY <1>1, FS_Subset, FS_CardinalityType

LEMMA Initially == ASSUME PreferencesAssumption PROVE Init => IInv
<1> SUFFICES ASSUME Init PROVE IInv OBVIOUS
<1>1. events = <<>> /\ cmd = None /\ cmd.at = "idle" /\ DOMAIN events = {}
  BY DEF Init, None
<1>2. Types BY <1>1 DEF Init, Types, CommandTypes, Zero, Relayed
<1>3. OnePreference /\ Cleared /\ Kept BY <1>1 DEF OnePreference, Cleared, Kept
<1>4. Cardinality({}) = 0 BY FS_EmptySet
<1>5. Current
  <2>1. \A type, m : Rows(type, m) = {} BY <1>1 DEF Rows
  <2> QED BY <2>1, <1>4 DEF Init, Zero, Current, Number
<1>6. \A m \in Messages : markup[m].like = 0 /\ markup[m].dislike = 0 BY DEF Init, Zero
<1>7. Bounded
  BY <1>6, FS_CardinalityType DEF Bounded, PreferencesAssumption
<1> QED BY <1>2, <1>3, <1>5, <1>7 DEF IInv

-----------------------------------------------------------------------------
\* The old preference is deleted: the other rows stay, in their order.
LEMMA DeleteStep == ASSUME IInv, DeleteEvents PROVE IInv'
<1> USE DEF IInv
<1>1. /\ cmd.at = "delete" /\ events' = Remaining[Len(events)] /\ cmd' = [cmd EXCEPT !.at = "save"]
      /\ UNCHANGED <<markup, started, cut, requested>>
  BY DEF DeleteEvents, Goto, ghosts
<1>2. events \in Seq(Row) BY DEF Types
<1>3. PICK g : Selects(events', g, Len(events)) BY <1>1, <1>2, RemainingSelects
<1>4. /\ DOMAIN events = 1..Len(events) /\ Len(events) \in Nat
      /\ DOMAIN events' = 1..Len(events') /\ Len(events') \in Nat
      /\ \A k \in DOMAIN events : events[k] \in Row
  BY <1>2, <1>3, LenProperties, ElementOfSeq DEF Selects
<1>5. /\ events' \in Seq(Row)
      /\ \A i \in DOMAIN events' : g[i] \in DOMAIN events /\ events'[i] = events[g[i]]
                                /\ ~Replaced(events[g[i]])
      /\ \A i, j \in DOMAIN events' : i < j => g[i] < g[j]
      /\ \A k \in DOMAIN events : ~Replaced(events[k]) => \E i \in DOMAIN events' : g[i] = k
  BY <1>3, <1>4 DEF Selects
<1>6. \A i, j \in DOMAIN events' : g[i] = g[j] => i = j
  <2> SUFFICES ASSUME NEW i \in DOMAIN events', NEW j \in DOMAIN events', g[i] = g[j], i # j
               PROVE  FALSE
    OBVIOUS
  <2>1. i < j \/ j < i BY <1>4
  <2>2. g[i] \in Int BY <1>4, <1>5
  <2> QED BY <1>5, <2>1, <2>2
<1>7. cmd \in [at : {"delete", "save", "count"}, type : Preferences, user : Users,
              message : Messages, thing : Relayed]
      /\ cmd.thing = Thing(cmd.message)
  BY <1>1 DEF Types, CommandTypes, None
<1>8. /\ cmd' \in [at : {"delete", "save", "count"}, type : Preferences, user : Users,
                   message : Messages, thing : Relayed]
      /\ cmd'.at = "save" /\ cmd'.thing = Thing(cmd'.message)
      /\ cmd'.user = cmd.user /\ cmd'.message = cmd.message
  BY <1>1, <1>7
<1>9. Types' BY <1>1, <1>5, <1>8 DEF Types, CommandTypes
<1>10. OnePreference' BY <1>5, <1>6 DEF OnePreference
<1>11. Cleared' BY <1>5, <1>8 DEF Cleared, Replaced, OfUserAndMessage
<1>12. Current'
  <2> SUFFICES ASSUME NEW m \in Messages \ cut, m # cmd.message
               PROVE  \A type \in Preferences : Number(type, m)' = Number(type, m)
    BY <1>1, <1>8 DEF Current, Preferences
  <2> SUFFICES ASSUME NEW type \in Preferences PROVE Number(type, m)' = Number(type, m) OBVIOUS
  <2> DEFINE f == [i \in Rows(type, m)' |-> g[i]]
  <2>1. \A i \in Rows(type, m)' : g[i] \in Rows(type, m) BY <1>5 DEF Rows
  <2>2. \A k \in Rows(type, m) : \E i \in Rows(type, m)' : g[i] = k
    <3> SUFFICES ASSUME NEW k \in Rows(type, m) PROVE \E i \in Rows(type, m)' : g[i] = k OBVIOUS
    <3>1. k \in DOMAIN events /\ ~Replaced(events[k]) BY DEF Rows, Replaced, OfUserAndMessage
    <3> QED BY <1>5, <3>1 DEF Rows
  <2>3. \A i, j \in Rows(type, m)' : g[i] = g[j] => i = j BY <1>6 DEF Rows
  <2>4. f \in Bijection(Rows(type, m)', Rows(type, m))
    BY <2>1, <2>2, <2>3 DEF Bijection, Injection, Surjection, IsInjective
  <2>5. ExistsBijection(Rows(type, m)', Rows(type, m)) BY <2>4 DEF ExistsBijection
  <2>6. IsFiniteSet(Rows(type, m)')
    <3>1. Rows(type, m)' \subseteq 1..Len(events') BY <1>4 DEF Rows
    <3> HIDE DEF f
    <3> QED BY <3>1, <1>4, Finite
  <2> QED BY <2>5, <2>6, FS_Bijection DEF Number
<1>13. Bounded' BY <1>1 DEF Bounded
<1>14. Kept'
  <2> SUFFICES ASSUME NEW u \in Users, NEW t \in Relayed, NEW i \in DOMAIN events',
                      Asks(i, u, t)', \A j \in DOMAIN events' : Asks(j, u, t)' => j <= i
               PROVE  requested[<<u, t>>] = events'[i].message
    BY <1>1 DEF Kept, Latest
  <2>1. g[i] \in DOMAIN events /\ events[g[i]] = events'[i] BY <1>5
  <2>2. Asks(g[i], u, t) BY <2>1 DEF Asks
  <2>3. ASSUME NEW k \in DOMAIN events, Asks(k, u, t) PROVE k <= g[i]
    <3>1. ~Replaced(events[k]) BY <2>3 DEF Asks, Replaced, Preferences
    <3>2. PICK j \in DOMAIN events' : g[j] = k BY <1>5, <3>1
    <3>3. Asks(j, u, t)' BY <1>5, <2>3, <3>2 DEF Asks
    <3>4. j <= i BY <3>3
    <3>5. j = i \/ j < i BY <1>4, <3>4
    <3>6. k \in Int /\ g[i] \in Int BY <1>4, <2>1
    <3> QED BY <1>5, <3>2, <3>5, <3>6
  <2>4. requested[<<u, t>>] = events[g[i]].message BY <2>1, <2>2, <2>3 DEF Kept, Latest
  <2> QED BY <2>1, <2>4
<1> QED BY <1>9, <1>10, <1>11, <1>12, <1>13, <1>14

-----------------------------------------------------------------------------
\* What a row more changes.
LEMMA OneRowMore ==
  ASSUME events \in Seq(Row), NEW e \in Row, events' = Append(events, e)
  PROVE  /\ events' \in Seq(Row) /\ Len(events) \in Nat
         /\ DOMAIN events = 1..Len(events) /\ DOMAIN events' = 1..Len(events) + 1
         /\ \A i \in DOMAIN events : i \in DOMAIN events' /\ events'[i] = events[i]
         /\ events'[Len(events) + 1] = e
         /\ \A i \in DOMAIN events' : i \in DOMAIN events \/ i = Len(events) + 1
<1>1. /\ events' \in Seq(Row) /\ Len(events') = Len(events) + 1 /\ events'[Len(events) + 1] = e
      /\ \A i \in 1..Len(events) : events'[i] = events[i]
  BY AppendProperties
<1>2. Len(events) \in Nat /\ DOMAIN events = 1..Len(events) /\ DOMAIN events' = 1..Len(events')
  BY <1>1, LenProperties
<1> QED BY <1>1, <1>2

\* The other numbers stay.
LEMMA OtherNumbers ==
  ASSUME events \in Seq(Row), NEW e \in Row, events' = Append(events, e),
         NEW type, NEW m, e.type # type \/ e.message # m
  PROVE  Number(type, m)' = Number(type, m)
<1>1. Rows(type, m)' = Rows(type, m) BY OneRowMore DEF Rows
<1> QED BY <1>1 DEF Number

\* A row that is no preference leaves the preferences as they are.
LEMMA NoPreferenceMore ==
  ASSUME events \in Seq(Row), OnePreference, NEW e \in Row, e.type \notin Preferences,
         events' = Append(events, e)
  PROVE  OnePreference' /\ \A type \in Preferences, m \in Messages : Number(type, m)' = Number(type, m)
<1>1. OnePreference' BY OneRowMore DEF OnePreference
<1>2. \A type \in Preferences, m \in Messages : Number(type, m)' = Number(type, m)
  BY OtherNumbers
<1> QED BY <1>1, <1>2

\* A row that is no request leaves the requests as they are.
LEMMA NoRequestMore ==
  ASSUME events \in Seq(Row), Kept, NEW e \in Row, e.type # "pre",
         events' = Append(events, e), requested' = requested
  PROVE  Kept'
<1> SUFFICES ASSUME NEW u \in Users, NEW t \in Relayed, NEW i \in DOMAIN events', Latest(i, u, t)'
             PROVE  requested[<<u, t>>] = events'[i].message
  BY DEF Kept
<1>1. \A j \in DOMAIN events : Asks(j, u, t)' <=> Asks(j, u, t) BY OneRowMore DEF Asks
<1>2. events'[i].type = "pre" BY DEF Latest, Asks
<1>3. i \in DOMAIN events BY <1>2, OneRowMore
<1>4. Latest(i, u, t) BY <1>1, <1>3, OneRowMore DEF Latest
<1>5. events'[i] = events[i] BY <1>3, OneRowMore
<1> QED BY <1>3, <1>4, <1>5 DEF Kept

LEMMA SavePreferenceStep == ASSUME IInv, SavePreference PROVE IInv'
<1> USE DEF IInv
<1> DEFINE e == [type |-> cmd.type, user |-> cmd.user, message |-> cmd.message]
<1>1. /\ cmd.at = "save" /\ events' = Append(events, e) /\ cmd' = [cmd EXCEPT !.at = "count"]
      /\ UNCHANGED <<markup, started, cut, requested>>
  BY DEF SavePreference, SaveEvent, Goto, ghosts
<1>2. /\ cmd \in [at : {"delete", "save", "count"}, type : Preferences, user : Users,
                  message : Messages, thing : Relayed]
      /\ cmd.thing = Thing(cmd.message)
  BY <1>1 DEF Types, CommandTypes, None
<1>3. /\ cmd' \in [at : {"delete", "save", "count"}, type : Preferences, user : Users,
                   message : Messages, thing : Relayed]
      /\ cmd'.at = "count" /\ cmd'.thing = Thing(cmd'.message)
      /\ cmd'.user = cmd.user /\ cmd'.message = cmd.message
  BY <1>1, <1>2
<1>4. /\ e \in Row /\ e.type \in Preferences /\ e.type # "pre"
      /\ e.user = cmd.user /\ e.message = cmd.message
  BY <1>2 DEF Row, Preferences
<1> HIDE DEF e
<1>5. events \in Seq(Row) BY DEF Types
<1>6. Types' BY <1>1, <1>3, <1>4, <1>5, OneRowMore DEF Types, CommandTypes
<1>7. OnePreference'
  <2>1. \A i \in DOMAIN events :
          ~(events[i].type \in Preferences /\ events[i].user = e.user /\ events[i].message = e.message)
    BY <1>1, <1>4 DEF Cleared
  <2> QED BY <1>1, <1>4, <1>5, <2>1, OneRowMore DEF OnePreference
<1>8. Cleared' BY <1>3 DEF Cleared
<1>9. Current'
  <2>1. ASSUME NEW m \in Messages \ cut, m # cmd.message
        PROVE  Number("like", m)' = Number("like", m) /\ Number("dislike", m)' = Number("dislike", m)
    BY <1>1, <1>4, <1>5, <2>1, OtherNumbers
  <2> QED BY <1>1, <1>3, <2>1 DEF Current
<1>10. Bounded' BY <1>1 DEF Bounded
<1>11. Kept' BY <1>1, <1>4, <1>5, NoRequestMore
<1> QED BY <1>6, <1>7, <1>8, <1>9, <1>10, <1>11

\* Each reader of a message is counted once.
LEMMA CountBound ==
  ASSUME PreferencesAssumption, events \in Seq(Row), OnePreference, NEW m
  PROVE  /\ Number("like", m) \in Nat /\ Number("dislike", m) \in Nat
         /\ Number("like", m) + Number("dislike", m) <= Cardinality(Users)
<1> DEFINE L == Rows("like", m)
           D == Rows("dislike", m)
           reader == [i \in L \cup D |-> events[i].user]
<1>1. Len(events) \in Nat /\ DOMAIN events = 1..Len(events) /\ \A i \in DOMAIN events : events[i] \in Row
  BY LenProperties, ElementOfSeq
<1>2. L \in SUBSET (1..Len(events)) /\ D \in SUBSET (1..Len(events)) BY <1>1 DEF Rows
<1>3. L \cap D = {} BY DEF Rows
<1>4. \A i \in L \cup D : events[i].user \in Users BY <1>1 DEF Rows, Row
<1>5. \A i, j \in L \cup D : events[i].user = events[j].user => i = j
  BY DEF Rows, OnePreference, Preferences
<1> HIDE DEF L, D
<1>6. /\ IsFiniteSet(L) /\ Cardinality(L) \in Nat /\ IsFiniteSet(D) /\ Cardinality(D) \in Nat
  BY <1>1, <1>2, Finite
<1>7. Cardinality(L \cap D) = 0 BY <1>3, FS_EmptySet
<1>8. Cardinality(L \cup D) = Cardinality(L) + Cardinality(D)
  <2>1. Cardinality(L \cup D) = Cardinality(L) + Cardinality(D) - Cardinality(L \cap D)
    BY <1>6, FS_Union
  <2> QED BY <1>6, <1>7, <2>1
<1>9. reader \in Injection(L \cup D, Users) BY <1>4, <1>5 DEF Injection, IsInjective
<1> HIDE DEF reader
<1>10. Cardinality(L \cup D) <= Cardinality(Users)
  BY <1>9, FS_Injection DEF PreferencesAssumption
<1> QED BY <1>6, <1>8, <1>10 DEF Number, L, D

LEMMA EditMarkupStep == ASSUME PreferencesAssumption, IInv, EditMarkup PROVE IInv'
<1> USE DEF IInv
<1>1. /\ cmd.at = "count" /\ cmd' = None /\ cmd'.at = "idle"
      /\ cut' = cut \ {cmd.message} /\ UNCHANGED <<events, started, requested>>
      /\ markup' = [markup EXCEPT ![cmd.message] = [like |-> Number("like", cmd.message),
                                                   dislike |-> Number("dislike", cmd.message)]]
  BY DEF EditMarkup, None, Count, Counted, OfMessage, Number, Rows
<1>2. cmd.message \in Messages BY <1>1 DEF Types, CommandTypes, None
<1>3. \A m : Number("like", m)' = Number("like", m) /\ Number("dislike", m)' = Number("dislike", m)
  BY <1>1 DEF Number, Rows
<1>4. /\ markup \in [Messages -> [like : Nat, dislike : Nat]] /\ events \in Seq(Row)
  BY DEF Types
<1>5. /\ Number("like", cmd.message) \in Nat /\ Number("dislike", cmd.message) \in Nat
      /\ Number("like", cmd.message) + Number("dislike", cmd.message) <= Cardinality(Users)
  BY <1>4, CountBound
<1>6. /\ markup'[cmd.message].like = Number("like", cmd.message)
      /\ markup'[cmd.message].dislike = Number("dislike", cmd.message)
      /\ \A m \in Messages : m # cmd.message => markup'[m] = markup[m]
  BY <1>1, <1>2, <1>4
<1>7. Types' BY <1>1, <1>4, <1>5 DEF Types, CommandTypes
<1>8. Current' BY <1>1, <1>3, <1>6 DEF Current
<1>9. Bounded' BY <1>5, <1>6, <1>2 DEF Bounded
<1>10. OnePreference' /\ Cleared' /\ Kept'
  BY <1>1 DEF OnePreference, Cleared, Kept, Latest, Asks
<1> QED BY <1>7, <1>8, <1>9, <1>10

-----------------------------------------------------------------------------
\* A set of the first numbers that is not empty has a greatest one.
LEMMA Greatest ==
  ASSUME NEW n \in Nat, NEW S \in SUBSET (1..n), S # {}
  PROVE  \E i \in S : \A j \in S : j <= i
<1> DEFINE HasOne == {k \in Nat : \A R \in SUBSET (1..k) : R # {} => \E i \in R : \A j \in R : j <= i}
<1>1. 0 \in HasOne
  <2>1. \A R \in SUBSET (1..0) : R = {} OBVIOUS
  <2> QED BY <2>1
<1>2. ASSUME NEW k \in Nat, k \in HasOne PROVE k + 1 \in HasOne
  <2> SUFFICES ASSUME NEW R \in SUBSET (1..k + 1), R # {}
               PROVE  \E i \in R : \A j \in R : j <= i
    OBVIOUS
  <2>1. CASE k + 1 \in R BY <2>1
  <2>2. CASE k + 1 \notin R
    <3>1. R \in SUBSET (1..k) BY <2>2
    <3> QED BY <1>2, <3>1
  <2> QED BY <2>1, <2>2
<1> HIDE DEF HasOne
<1>3. n \in HasOne BY <1>1, <1>2, NaturalInduction
<1> QED BY <1>3 DEF HasOne

\* The request the lookup finds is the one that was kept last.
LEMMA LookupFinds ==
  ASSUME IInv, Lookup
  PROVE  /\ cmd.user \in Users /\ cmd.thing \in Relayed
         /\ LastRequest.message \in Messages /\ Thing(LastRequest.message) = cmd.thing
         /\ requested[<<cmd.user, cmd.thing>>] = LastRequest.message
<1>1. Types /\ Kept /\ cmd.at = "lookup" /\ Requests # {} BY DEF IInv, Lookup
<1>2. cmd.user \in Users /\ cmd.thing \in Relayed BY <1>1 DEF Types, CommandTypes, None
<1>3. Len(events) \in Nat /\ DOMAIN events = 1..Len(events) /\ \A i \in DOMAIN events : events[i] \in Row
  BY <1>1, LenProperties, ElementOfSeq DEF Types
<1>4. Requests \in SUBSET (1..Len(events)) BY <1>3 DEF Requests
<1>5. \E i \in Requests : \A j \in Requests : j <= i BY <1>1, <1>3, <1>4, Greatest
<1>6. PICK i \in Requests : (\A j \in Requests : j <= i) /\ LastRequest = events[i]
  BY <1>5 DEF LastRequest
<1>7. i \in DOMAIN events /\ LastRequest \in Row BY <1>3, <1>6 DEF Requests
<1>8. Latest(i, cmd.user, cmd.thing)
  BY <1>6, <1>7 DEF Latest, Asks, Requests, OfUserAndThing
<1>9. Thing(LastRequest.message) = cmd.thing BY <1>6, <1>8 DEF Latest, Asks
<1> QED BY <1>1, <1>2, <1>6, <1>7, <1>8, <1>9 DEF Kept, Row

LEMMA LookupStep == ASSUME IInv, Lookup PROVE IInv'
<1> USE DEF IInv
<1>1. /\ cmd.at = "lookup" /\ cmd' = [cmd EXCEPT !.at = "copy", !.message = LastRequest.message]
      /\ UNCHANGED <<events, markup, started, cut, requested>>
  BY DEF Lookup, ghosts
<1>2. cmd \in [at : {"lookup"}, type : {"click"}, user : Users, message : {Nothing}, thing : Relayed]
  BY <1>1 DEF Types, CommandTypes, None
<1>3. /\ cmd' \in [at : {"copy", "start", "click"}, type : {"click"}, user : Users,
                   message : Messages, thing : Relayed]
      /\ cmd'.at = "copy" /\ cmd'.thing = Thing(cmd'.message)
  BY <1>1, <1>2, LookupFinds
<1>4. Types' BY <1>1, <1>3 DEF Types, CommandTypes
<1>5. Cleared' BY <1>3 DEF Cleared
<1>6. Current' BY <1>1, <1>3 DEF Current, Number, Rows
<1>7. OnePreference' /\ Bounded' /\ Kept'
  BY <1>1 DEF OnePreference, Bounded, Kept, Latest, Asks
<1> QED BY <1>4, <1>5, <1>6, <1>7

LEMMA CopyForbiddenStep == ASSUME IInv, CopyForbidden PROVE IInv'
<1> USE DEF IInv
<1> DEFINE e == [type |-> "pre", user |-> cmd.user, message |-> cmd.message]
<1>1. /\ cmd.at = "copy" /\ events' = Append(events, e) /\ cmd' = [cmd EXCEPT !.at = "start"]
      /\ requested' = [requested EXCEPT ![<<cmd.user, cmd.thing>>] = cmd.message]
      /\ UNCHANGED <<markup, started, cut>>
  BY DEF CopyForbidden, SaveEvent, Goto
<1>2. /\ cmd \in [at : {"copy", "start", "click"}, type : {"click"}, user : Users,
                  message : Messages, thing : Relayed]
      /\ cmd.thing = Thing(cmd.message)
  BY <1>1 DEF Types, CommandTypes, None
<1>3. /\ cmd' \in [at : {"copy", "start", "click"}, type : {"click"}, user : Users,
                   message : Messages, thing : Relayed]
      /\ cmd'.at = "start" /\ cmd'.thing = Thing(cmd'.message)
  BY <1>1, <1>2
<1>4. /\ e \in Row /\ e.type = "pre" /\ e.type \notin Preferences
      /\ e.user = cmd.user /\ e.message = cmd.message
  BY <1>2 DEF Row, Preferences
<1> HIDE DEF e
<1>5. events \in Seq(Row) /\ requested \in [Users \X Relayed -> Messages \cup {Nothing}]
  BY DEF Types
<1>6. Types'
  <2>1. requested' \in [Users \X Relayed -> Messages \cup {Nothing}] BY <1>1, <1>2, <1>5
  <2> QED BY <1>1, <1>3, <1>4, <1>5, <2>1, OneRowMore DEF Types, CommandTypes
<1>7. OnePreference' /\ \A type \in Preferences, m \in Messages : Number(type, m)' = Number(type, m)
  BY <1>1, <1>4, <1>5, NoPreferenceMore
<1>8. Cleared' BY <1>3 DEF Cleared
<1>9. Current' BY <1>1, <1>2, <1>7 DEF Current, Preferences
<1>10. Bounded' BY <1>1 DEF Bounded
<1>11. Kept'
  <2> SUFFICES ASSUME NEW u \in Users, NEW t \in Relayed, NEW i \in DOMAIN events', Latest(i, u, t)'
               PROVE  requested'[<<u, t>>] = events'[i].message
    BY DEF Kept
  <2> DEFINE n == Len(events) + 1
  <2>0. n \in DOMAIN events' /\ events'[n] = e BY <1>1, <1>4, <1>5, OneRowMore
  <2>1. CASE u = cmd.user /\ t = cmd.thing
    <3>1. events'[n].type = "pre" /\ events'[n].user = u /\ Thing(events'[n].message) = t
      BY <1>2, <1>4, <2>0, <2>1
    <3>2. n <= i BY <2>0, <3>1 DEF Latest, Asks
    <3>3. i = n BY <1>1, <1>4, <1>5, <3>2, OneRowMore
    <3>4. requested'[<<u, t>>] = cmd.message BY <1>1, <1>2, <1>5, <2>1
    <3> QED BY <1>4, <2>0, <3>3, <3>4
  <2>2. CASE ~(u = cmd.user /\ t = cmd.thing)
    <3>1. i # n BY <1>2, <1>4, <2>0, <2>2 DEF Latest, Asks
    <3>2. i \in DOMAIN events /\ events'[i] = events[i] BY <1>1, <1>4, <1>5, <3>1, OneRowMore
    <3>3. \A j \in DOMAIN events : Asks(j, u, t)' <=> Asks(j, u, t)
      BY <1>1, <1>4, <1>5, OneRowMore DEF Asks
    <3>4. Latest(i, u, t) BY <1>1, <1>4, <1>5, <3>2, <3>3, OneRowMore DEF Latest
    <3>5. requested'[<<u, t>>] = requested[<<u, t>>] BY <1>1, <1>5, <2>2
    <3> QED BY <3>2, <3>4, <3>5 DEF Kept
  <2> QED BY <2>1, <2>2
<1> QED BY <1>6, <1>7, <1>8, <1>9, <1>10, <1>11

LEMMA SaveClickStep == ASSUME IInv, SaveClick PROVE IInv'
<1> USE DEF IInv
<1> DEFINE e == [type |-> "click", user |-> cmd.user, message |-> cmd.message]
<1>1. /\ cmd.at = "click" /\ events' = Append(events, e) /\ cmd' = None /\ cmd'.at = "idle"
      /\ UNCHANGED <<markup, started, cut, requested>>
  BY DEF SaveClick, SaveEvent, ghosts, None
<1>2. cmd.user \in Users /\ cmd.message \in Messages
  BY <1>1 DEF Types, CommandTypes, None
<1>3. e \in Row /\ e.type \notin Preferences /\ e.type # "pre" BY <1>2 DEF Row, Preferences
<1> HIDE DEF e
<1>4. events \in Seq(Row) BY DEF Types
<1>5. Types' BY <1>1, <1>3, <1>4, OneRowMore DEF Types, CommandTypes
<1>6. OnePreference' /\ \A type \in Preferences, m \in Messages : Number(type, m)' = Number(type, m)
  BY <1>1, <1>3, <1>4, NoPreferenceMore
<1>7. cmd.at \notin {"delete", "save", "count"} BY <1>1
<1>8. Current' BY <1>1, <1>6, <1>7 DEF Current, Preferences
<1>9. Cleared' /\ Bounded' BY <1>1 DEF Cleared, Bounded
<1>10. Kept' BY <1>1, <1>3, <1>4, NoRequestMore
<1> QED BY <1>5, <1>6, <1>8, <1>9, <1>10

-----------------------------------------------------------------------------
\* A step that writes no row and no button keeps all but what the command knows.
LEMMA CommandStep ==
  ASSUME IInv, UNCHANGED <<events, markup, requested>>, started' \subseteq Users,
         CommandTypes', cmd'.at = "save" => cmd' = cmd, cut \subseteq cut', cut' \subseteq Messages,
         \A m \in Messages \ cut' :
           (cmd'.at \in {"delete", "save", "count"} => m # cmd'.message) =>
             (cmd.at \in {"delete", "save", "count"} => m # cmd.message)
  PROVE  IInv'
<1>1. Types' BY DEF IInv, Types
<1>2. Cleared' BY DEF IInv, Cleared
<1>3. \A m : Number("like", m)' = Number("like", m) /\ Number("dislike", m)' = Number("dislike", m)
  BY DEF Number, Rows
<1>4. Current' BY <1>3 DEF IInv, Current
<1>5. OnePreference' /\ Bounded' /\ Kept'
  BY DEF IInv, OnePreference, Bounded, Kept, Latest, Asks
<1> QED BY <1>1, <1>2, <1>4, <1>5 DEF IInv

LEMMA Inductive == PreferencesAssumption /\ IInv /\ [Next]_vars => IInv'
<1> SUFFICES ASSUME PreferencesAssumption, IInv, [Next]_vars PROVE IInv' OBVIOUS
<1>0. Types BY DEF IInv
<1>1. CASE Press
  <2>1. cmd.at = "idle" /\ UNCHANGED <<events, markup, started, cut, requested>>
        /\ cmd' \in [at : {"delete", "save", "count"}, type : Preferences, user : Users,
                     message : Messages, thing : Relayed]
        /\ cmd'.at = "delete" /\ cmd'.thing = Thing(cmd'.message)
    BY <1>1 DEF Press, Idle, ghosts, Relayed
  <2> QED BY <1>0, <2>1, CommandStep DEF CommandTypes, Types
<1>2. CASE Click
  <2>1. cmd.at = "idle" /\ UNCHANGED <<events, markup, started, cut, requested>>
        /\ cmd' \in [at : {"copy", "start", "click"}, type : {"click"}, user : Users,
                     message : Messages, thing : Relayed]
        /\ cmd'.at = "copy" /\ cmd'.thing = Thing(cmd'.message)
    BY <1>2 DEF Click, Idle, ghosts, Relayed
  <2> QED BY <1>0, <2>1, CommandStep DEF CommandTypes, Types
<1>3. CASE FollowLink
  <2>1. PICK k \in Users \X Relayed :
          /\ started' = started \cup {k[1]}
          /\ cmd' = [at |-> "lookup", type |-> "click", user |-> k[1], message |-> Nothing, thing |-> k[2]]
    BY <1>0, <1>3 DEF FollowLink, Types
  <2>2. cmd.at = "idle" /\ UNCHANGED <<events, markup, cut, requested>>
    BY <1>3 DEF FollowLink, Idle, ghosts
  <2>3. /\ cmd' \in [at : {"lookup"}, type : {"click"}, user : Users, message : {Nothing},
                     thing : Relayed]
        /\ cmd'.at = "lookup" /\ started' \subseteq Users
    BY <1>0, <2>1 DEF Types
  <2> QED BY <1>0, <2>2, <2>3, CommandStep DEF CommandTypes, Types
<1>4. CASE Copy \/ Start
  <2>1. cmd.at \in {"copy", "start"} /\ cmd' = [cmd EXCEPT !.at = "click"]
        /\ UNCHANGED <<events, markup, started, cut, requested>>
    BY <1>4 DEF Copy, Start, Goto, ghosts
  <2>2. /\ cmd \in [at : {"copy", "start", "click"}, type : {"click"}, user : Users,
                    message : Messages, thing : Relayed]
        /\ cmd.thing = Thing(cmd.message)
    BY <1>0, <2>1 DEF Types, CommandTypes, None
  <2>3. /\ cmd' \in [at : {"copy", "start", "click"}, type : {"click"}, user : Users,
                     message : Messages, thing : Relayed]
        /\ cmd'.at = "click" /\ cmd'.thing = Thing(cmd'.message)
    BY <2>1, <2>2
  <2> QED BY <1>0, <2>1, <2>3, CommandStep DEF CommandTypes, Types
<1>5. CASE PostNotFound
  <2>1. cmd.at = "copy" /\ cmd' = None /\ cmd'.at = "idle"
        /\ UNCHANGED <<events, markup, started, cut, requested>>
    BY <1>5 DEF PostNotFound, ghosts, None
  <2> QED BY <1>0, <2>1, CommandStep DEF CommandTypes, Types
<1>6. CASE Fail
  <2>1. cmd.at # "idle" /\ cmd' = None /\ cmd'.at = "idle"
        /\ cut' = (IF cmd.type \in Preferences THEN cut \cup {cmd.message} ELSE cut)
        /\ UNCHANGED <<events, markup, started, requested>>
    BY <1>6 DEF Fail, None
  <2>2. cmd.type \in Preferences => cmd.message \in Messages
    BY <1>0, <2>1 DEF Types, CommandTypes, None, Preferences
  <2>3. cmd.at \in {"delete", "save", "count"} => cmd.type \in Preferences
    BY <1>0, <2>1 DEF Types, CommandTypes, None
  <2>4. cut \subseteq cut' /\ cut' \subseteq Messages BY <1>0, <2>1, <2>2 DEF Types
  <2>5. \A m \in Messages \ cut' : cmd.at \in {"delete", "save", "count"} => m # cmd.message
    BY <2>1, <2>3
  <2> QED BY <1>0, <2>1, <2>4, <2>5, CommandStep DEF CommandTypes, Types
<1>7. CASE UNCHANGED vars
  <2>1. UNCHANGED <<events, cmd, markup, started, cut, requested>> BY <1>7 DEF vars, ghosts
  <2>2. CommandTypes' BY <1>0, <2>1 DEF Types, CommandTypes
  <2> QED BY <1>0, <2>1, <2>2, CommandStep DEF Types
<1> QED
  BY <1>1, <1>2, <1>3, <1>4, <1>5, <1>6, <1>7, DeleteStep, SavePreferenceStep, EditMarkupStep,
     LookupStep, CopyForbiddenStep, SaveClickStep
  DEF Next

LEMMA Invariance == PreferencesAssumption => (Spec => []IInv)
<1> SUFFICES ASSUME PreferencesAssumption PROVE Spec => []IInv OBVIOUS
<1> QED BY Initially, Inductive, PTL DEF Spec

-----------------------------------------------------------------------------
\* The type invariant: the buttons never count more readers than there are.
THEOREM TypeCorrect == PreferencesAssumption => (Spec => []TypeOK)
<1>1. IInv => TypeOK
  <2> SUFFICES ASSUME IInv PROVE TypeOK OBVIOUS
  <2>1. Types /\ Bounded BY DEF IInv
  <2>2. cmd.at \in Places BY <2>1 DEF Types, CommandTypes, None, Places
  <2> QED BY <2>1, <2>2 DEF Types, Bounded, TypeOK, Row
<1> QED BY <1>1, Invariance, PTL

\* A user has at most one preference under a message, whatever is pressed in which
\* order and wherever commands fail.
THEOREM OneEach == PreferencesAssumption => (Spec => []OnePreference)
<1>1. IInv => OnePreference BY DEF IInv
<1> QED BY <1>1, Invariance, PTL

\* Between commands the buttons show the preferences that are stored, under every
\* message whose last command did not fail.
THEOREM ButtonsShowStored == PreferencesAssumption => (Spec => []MarkupIsCurrent)
<1>1. ASSUME IInv PROVE MarkupIsCurrent
  <2> SUFFICES ASSUME cmd.at = "idle", NEW m \in Messages \ cut, NEW type \in Preferences
               PROVE  markup[m][type] = Number(type, m)
    BY DEF MarkupIsCurrent, Number, Rows
  <2> HIDE DEF Number
  <2>1. markup[m].like = Number("like", m) /\ markup[m].dislike = Number("dislike", m)
    BY <1>1 DEF IInv, Current
  <2> QED BY <2>1 DEF Preferences
<1> QED BY <1>1, Invariance, PTL

\* The step from the lookup to the copy.
LEMMA FoundStep ==
  ASSUME IInv, [Next]_vars, NEW u \in Users, NEW m \in Messages,
         cmd.at = "lookup", cmd.user = u, cmd'.at = "copy", cmd'.message = m
  PROVE  requested[<<u, cmd.thing>>] = m
<1>1. CASE Lookup
  <2>1. cmd.message = Nothing /\ cmd' = [cmd EXCEPT !.at = "copy", !.message = LastRequest.message]
    BY <1>1 DEF Lookup, IInv, Types, CommandTypes, None
  <2>2. cmd \in [at : {"lookup"}, type : {"click"}, user : Users, message : {Nothing}, thing : Relayed]
    BY DEF IInv, Types, CommandTypes, None
  <2>3. cmd'.message = LastRequest.message BY <2>1, <2>2
  <2> QED BY <1>1, <2>3, LookupFinds
<1>2. CASE Fail BY <1>2 DEF Fail, None
<1>3. CASE UNCHANGED vars BY <1>3 DEF vars
<1> QED
  BY <1>1, <1>2, <1>3
  DEF Next, Press, Idle, DeleteEvents, SavePreference, EditMarkup, Click, FollowLink, Copy,
      CopyForbidden, Start, SaveClick, PostNotFound

\* Who follows the link gets the message whose button was pressed last.
THEOREM LinkFinds == PreferencesAssumption => (Spec => LinkLeadsToRequest)
<1> DEFINE Found == \A u \in Users, m \in Messages :
                      (cmd.at = "lookup" /\ cmd.user = u /\ cmd'.at = "copy" /\ cmd'.message = m)
                        => requested[<<u, cmd.thing>>] = m
<1>1. IInv /\ [Next]_vars => [Found]_vars BY FoundStep
<1> QED BY <1>1, Invariance, PTL DEF Spec, LinkLeadsToRequest
=============================================================================
