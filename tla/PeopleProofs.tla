----------------------------- MODULE PeopleProofs -----------------------------
(***************************************************************************)
(* How often a command is executed, for any number of updates, of which    *)
(* any may be commands, and any number of ends of the process: each end    *)
(* loses two commands at most, and repeats a command once at most.  Then   *)
(* the safety of what People puts side by side, from this, from that of    *)
(* Interface and from that of SubredditPreferences.                        *)
(***************************************************************************)
EXTENDS People, TLAPS, FiniteSetTheorems, SequenceTheorems

\* A channel or a goroutine holds one command at most.
Cell == {<<>>} \cup {<<c>> : c \in Commands}

Types ==
  /\ issued \in Nat /\ confirmed \in Nat /\ offset \in Nat /\ stops \in Nat
  /\ confirmed <= issued /\ offset <= issued + 1
  /\ batch \in Seq(Nat) /\ pipe \in Cell /\ handling \in Cell
  /\ executions \in [Commands -> Nat]

\* The update that is handed over next in this life of the process.
Position == IF offset = 0 THEN confirmed + 1 ELSE offset

\* The site is asked for what follows the last update handed over, ...
Ahead == offset = 0 \/ offset > confirmed

\* ... and what is left of its answer follows it one by one.
BatchFollows ==
  /\ \A i \in 1..Len(batch) : batch[i] = Position + i - 1
  /\ Position + Len(batch) <= issued + 1

\* What is in hand has been handed over, and no command twice.
HandsBehind ==
  /\ \A c \in InHand : c < Position
  /\ pipe # <<>> => pipe # handling

\* A command still to be handed over, or in hand, was not executed in this life.
Counted == \A c \in Commands :
  /\ executions[c] <= 1 + stops
  /\ c \in InHand \/ c >= Position => executions[c] <= stops

\* What was handed over and not confirmed yet is executed or in hand, so that the next
\* request confirms nothing else.
Held == \A c \in Commands :
  confirmed < c /\ c < Position => executions[c] > 0 \/ c \in InHand

IInv == Types /\ Ahead /\ BatchFollows /\ HandsBehind /\ Counted /\ Held /\ LostAtMostTwo

-----------------------------------------------------------------------------
\* The commands in hand are the one in the channel and the one in the handler.
LEMMA Hands ==
  ASSUME NEW p \in Cell, NEW q \in Cell
  PROVE  /\ \A c : c \in ToSet(p) \cup ToSet(q) <=> p = <<c>> \/ q = <<c>>
         /\ ToSet(p) \cup ToSet(q) \subseteq Commands
         /\ IsFiniteSet(ToSet(p) \cup ToSet(q)) /\ Cardinality(ToSet(p) \cup ToSet(q)) <= 2
<1>1. ASSUME NEW s \in Cell
      PROVE  /\ \A c : c \in ToSet(s) <=> s = <<c>>
             /\ ToSet(s) \subseteq Commands
             /\ IsFiniteSet(ToSet(s)) /\ Cardinality(ToSet(s)) <= 1
  <2>1. CASE s = <<>>
    <3>1. ToSet(s) = {} BY <2>1 DEF ToSet
    <3>2. \A c : s # <<c>> BY <2>1
    <3> QED BY <3>1, <3>2, FS_EmptySet
  <2>2. ASSUME NEW d \in Commands, s = <<d>>
        PROVE  /\ \A c : c \in ToSet(s) <=> s = <<c>>
               /\ ToSet(s) \subseteq Commands
               /\ IsFiniteSet(ToSet(s)) /\ Cardinality(ToSet(s)) <= 1
    <3>1. ToSet(s) = {d} BY <2>2 DEF ToSet
    <3>2. \A c : s = <<c>> <=> c = d BY <2>2
    <3>3. IsFiniteSet({d}) /\ Cardinality({d}) = 1 BY FS_Singleton
    <3> QED BY <3>1, <3>2, <3>3
  <2> QED BY <2>1, <2>2 DEF Cell
<1>2. \A c : c \in (ToSet(p) \cup ToSet(q)) <=> p = <<c>> \/ q = <<c>> BY <1>1
<1>3. (ToSet(p) \cup ToSet(q)) \subseteq Commands BY <1>1
<1>4. IsFiniteSet(ToSet(p)) /\ IsFiniteSet(ToSet(q)) BY <1>1
<1>5. /\ IsFiniteSet(ToSet(p) \cup ToSet(q))
      /\ Cardinality(ToSet(p) \cup ToSet(q)) = Cardinality(ToSet(p)) + Cardinality(ToSet(q))
                               - Cardinality(ToSet(p) \cap ToSet(q))
  BY <1>4, FS_Union
<1>6. Cardinality(ToSet(p) \cap ToSet(q)) \in Nat
  BY <1>4, FS_Intersection, FS_CardinalityType
<1>7. Cardinality(ToSet(p)) \in Nat /\ Cardinality(ToSet(q)) \in Nat
  BY <1>4, FS_CardinalityType
<1>8. Cardinality(ToSet(p)) <= 1 /\ Cardinality(ToSet(q)) <= 1 BY <1>1
<1>9. Cardinality(ToSet(p) \cup ToSet(q)) <= 2 BY <1>5, <1>6, <1>7, <1>8
<1> QED BY <1>2, <1>3, <1>5, <1>9

LEMMA LostFinite ==
  ASSUME CommandsAssumption, NEW S \in SUBSET Commands
  PROVE  IsFiniteSet(S) /\ Cardinality(S) \in Nat
<1>1. IsFiniteSet(1..MaxUpdates) BY FS_Interval DEF CommandsAssumption
<1>2. S \subseteq 1..MaxUpdates BY DEF CommandsAssumption
<1> QED BY <1>1, <1>2, FS_Subset, FS_CardinalityType

LEMMA Initially == ASSUME CommandsAssumption PROVE Init => IInv
<1> SUFFICES ASSUME Init PROVE IInv OBVIOUS
<1>1. Types BY DEF Init, Types, Cell
<1>2. InHand = {} BY <1>1, Hands DEF InHand, Init, Types
<1>3. Ahead /\ HandsBehind BY <1>2 DEF Init, Ahead, HandsBehind
<1>4. BatchFollows BY DEF Init, BatchFollows, Position
<1>5. Counted /\ Held
  BY <1>2 DEF Init, Counted, Held, Position, CommandsAssumption
<1>6. LostAtMostTwo
  <2>1. Lost = {} BY DEF Init, Lost, CommandsAssumption
  <2> QED BY <2>1, FS_EmptySet DEF LostAtMostTwo, Init
<1> QED BY <1>1, <1>3, <1>4, <1>5, <1>6 DEF IInv

\* While the process runs nothing is lost anew.
LEMMA LostStep ==
  ASSUME CommandsAssumption, IInv, stops' = stops, Lost' \subseteq Lost
  PROVE  LostAtMostTwo'
<1>1. IsFiniteSet(Lost) /\ Cardinality(Lost) \in Nat BY LostFinite DEF Lost
<1>2. Cardinality(Lost') <= Cardinality(Lost) /\ Cardinality(Lost') \in Nat
  BY <1>1, FS_Subset, FS_CardinalityType
<1> QED BY <1>1, <1>2 DEF IInv, Types, LostAtMostTwo

\* New updates, goroutines that end and a close that begins or returns: at most the
\* batch is cut.
LEMMA QuietStep ==
  ASSUME CommandsAssumption, IInv,
         UNCHANGED <<confirmed, offset, pipe, handling, executions, stops>>,
         issued' = issued \/ issued' = issued + 1,
         batch' = batch \/ (batch # <<>> /\ batch' = <<Head(batch)>>)
  PROVE  IInv'
<1>1. /\ batch' \in Seq(Nat) /\ Len(batch') \in Nat /\ Len(batch) \in Nat
      /\ Len(batch') <= Len(batch) /\ \A i \in 1..Len(batch') : batch'[i] = batch[i]
  <2>1. CASE batch' = batch BY <2>1 DEF IInv, Types
  <2>2. CASE batch # <<>> /\ batch' = <<Head(batch)>>
    <3>1. Len(batch) \in Nat /\ Len(batch) >= 1 /\ Head(batch) = batch[1] /\ Head(batch) \in Nat
      BY <2>2, HeadTailProperties, EmptySeq DEF IInv, Types
    <3>2. PICK u : u = Head(batch) OBVIOUS
    <3>3. <<u>> \in Seq(Nat) /\ Len(<<u>>) = 1 /\ <<u>>[1] = u BY <3>1, <3>2
    <3> QED BY <2>2, <3>1, <3>2, <3>3
  <2> QED BY <2>1, <2>2
<1>2. Types'
  <2>1. /\ issued \in Nat /\ confirmed \in Nat /\ offset \in Nat
        /\ confirmed <= issued /\ offset <= issued + 1
    BY DEF IInv, Types
  <2>2. issued' \in Nat /\ confirmed <= issued' /\ offset <= issued' + 1 BY <2>1
  <2> QED BY <2>1, <2>2, <1>1 DEF IInv, Types
<1>3. InHand' = InHand /\ Position' = Position /\ Lost' = Lost BY DEF InHand, Position, Lost
<1>4. Ahead' /\ HandsBehind' /\ Counted' /\ Held'
  BY <1>3 DEF IInv, Ahead, HandsBehind, Counted, Held
<1>5. Position \in Nat BY DEF IInv, Types, Position
<1>6. BatchFollows' BY <1>1, <1>3, <1>5 DEF IInv, Types, BatchFollows
<1>7. LostAtMostTwo' BY <1>3, LostStep
<1> QED BY <1>2, <1>4, <1>6, <1>7 DEF IInv

\* A request confirms what was handed over, and its answer begins where the last ended.
LEMMA GetStep ==
  ASSUME CommandsAssumption, IInv, GetUpdates
  PROVE  IInv'
<1> DEFINE kept == IF offset > confirmed THEN offset ELSE confirmed + 1
<1>1. /\ UNCHANGED <<issued, offset, pipe, handling, executions, stops>>
      /\ confirmed' = kept - 1 /\ batch' = [i \in 1..(issued + 1 - kept) |-> kept + i - 1]
  BY DEF GetUpdates
<1>2. kept = Position /\ kept \in Nat /\ kept <= issued + 1 /\ kept > confirmed
  BY DEF IInv, Types, Ahead, Position
<1>3. PICK n, k : n = issued + 1 - kept /\ k = kept OBVIOUS
<1>4. n \in Nat /\ k \in Nat /\ k >= 1 BY <1>2, <1>3 DEF IInv, Types
<1>5. batch' = [i \in 1..n |-> k + i - 1] BY <1>1, <1>3
<1>6. batch' \in Seq(Nat) /\ Len(batch') = n /\ \A i \in 1..n : batch'[i] = k + i - 1
  BY <1>4, <1>5
<1>7. confirmed' = k - 1 /\ k = Position /\ k > confirmed /\ n = issued + 1 - k
  BY <1>1, <1>2, <1>3
<1> HIDE DEF kept
<1>8. Position' = k
  BY <1>1, <1>4, <1>7 DEF Position
<1>9. Types' BY <1>1, <1>4, <1>6, <1>7 DEF IInv, Types
<1>10. InHand' = InHand BY <1>1 DEF InHand
<1>11. Ahead' BY <1>1, <1>7, <1>8, <1>4 DEF Ahead, Position, IInv, Types
<1>12. BatchFollows'
  <2>1. issued' = issued /\ issued \in Nat BY <1>1 DEF IInv, Types
  <2>2. k + n <= issued + 1 BY <2>1, <1>4, <1>7
  <2>3. Position' + Len(batch') <= issued' + 1 BY <2>1, <2>2, <1>6, <1>8
  <2>4. \A i \in 1..Len(batch') : batch'[i] = Position' + i - 1 BY <1>6, <1>8
  <2> QED BY <2>3, <2>4 DEF BatchFollows
<1>13. HandsBehind' /\ Counted' BY <1>1, <1>7, <1>8, <1>10 DEF IInv, HandsBehind, Counted
<1>14. Held' BY <1>4, <1>7, <1>8 DEF Held, CommandsAssumption
<1>15. Lost' \subseteq Lost
  <2> SUFFICES ASSUME NEW c \in Commands, c <= k - 1, executions[c] = 0, c \notin InHand
               PROVE  c <= confirmed
    BY <1>1, <1>7, <1>10 DEF Lost
  <2> QED BY <1>4, <1>7 DEF IInv, Types, Held, CommandsAssumption
<1>16. LostAtMostTwo' BY <1>1, <1>15, LostStep
<1> QED BY <1>9, <1>11, <1>12, <1>13, <1>14, <1>16 DEF IInv

\* The next update is handed over; a command fills the empty channel.
LEMMA HandOverStep ==
  ASSUME CommandsAssumption, IInv, HandOver
  PROVE  IInv'
<1>0. PICK u : u = Head(batch) OBVIOUS
<1>1. /\ UNCHANGED <<issued, confirmed, handling, executions, stops>>
      /\ batch # <<>> /\ pipe = <<>> /\ offset' = u + 1 /\ batch' = Tail(batch)
      /\ pipe' = IF u \in Commands THEN Append(pipe, u) ELSE pipe
  BY <1>0 DEF HandOver, PipeFree, After, siteVars
<1>2. /\ Len(batch) \in Nat /\ Len(batch) >= 1 /\ u = batch[1]
      /\ batch' \in Seq(Nat) /\ Len(batch') = Len(batch) - 1
      /\ \A i \in 1..Len(batch') : batch'[i] = batch[i + 1]
  BY <1>0, <1>1, HeadTailProperties, EmptySeq DEF IInv, Types
<1>3. Position \in Nat /\ Position > confirmed BY DEF IInv, Types, Ahead, Position
<1>4. u = Position /\ u \in Nat BY <1>2, <1>3 DEF IInv, BatchFollows
<1>5. Position' = u + 1 BY <1>1, <1>4 DEF Position
<1>6. pipe' = IF u \in Commands THEN <<u>> ELSE <<>> BY <1>1
<1>7. pipe' \in Cell /\ handling' \in Cell BY <1>1, <1>6 DEF IInv, Types, Cell
<1>8. /\ \A c : c \in InHand <=> handling = <<c>>
      /\ \A c : c \in InHand' <=> (c = u /\ u \in Commands) \/ handling = <<c>>
  <2>1. \A c : c \in InHand <=> pipe = <<c>> \/ handling = <<c>> BY Hands DEF InHand, IInv, Types
  <2>2. \A c : c \in InHand' <=> pipe' = <<c>> \/ handling' = <<c>>
    BY <1>7, Hands DEF InHand
  <2>3. \A c : pipe' = <<c>> <=> c = u /\ u \in Commands BY <1>6
  <2> QED BY <2>1, <2>2, <2>3, <1>1
<1>9. Types'
  <2>1. u + 1 <= issued + 1 BY <1>2, <1>3, <1>4 DEF IInv, Types, BatchFollows
  <2> QED BY <2>1, <1>1, <1>2, <1>4, <1>7 DEF IInv, Types
<1>10. Ahead' BY <1>1, <1>3, <1>4 DEF Ahead, IInv, Types
<1>11. BatchFollows' BY <1>1, <1>2, <1>3, <1>4, <1>5 DEF IInv, Types, BatchFollows
<1>12. u \notin InHand BY <1>4 DEF IInv, HandsBehind
<1>13. HandsBehind'
  <2>0. InHand \subseteq Commands BY Hands DEF InHand, IInv, Types
  <2>1. \A c \in InHand : c \in Nat /\ c < u
    BY <2>0, <1>4 DEF IInv, HandsBehind, CommandsAssumption
  <2>2. \A c \in InHand' : c = u \/ c \in InHand BY <1>8
  <2>3. \A c \in InHand' : c < Position' BY <2>1, <2>2, <1>4, <1>5
  <2>4. pipe' # <<>> => pipe' # handling' BY <1>1, <1>6, <1>8, <1>12
  <2> QED BY <2>3, <2>4 DEF HandsBehind
<1>14. Counted'
  <2> SUFFICES ASSUME NEW c \in Commands
               PROVE  /\ executions[c] <= 1 + stops
                      /\ c \in InHand' \/ c >= u + 1 => executions[c] <= stops
    BY <1>1, <1>5 DEF Counted
  <2>1. c \in Nat BY DEF CommandsAssumption
  <2> QED BY <2>1, <1>4, <1>8 DEF IInv, Counted
<1>15. Held'
  <2> SUFFICES ASSUME NEW c \in Commands, confirmed < c, c < u + 1
               PROVE  executions[c] > 0 \/ c \in InHand'
    BY <1>1, <1>5 DEF Held
  <2>1. c \in Nat BY DEF CommandsAssumption
  <2> QED BY <2>1, <1>4, <1>8 DEF IInv, Held
<1>16. Lost' \subseteq Lost BY <1>1, <1>8 DEF Lost
<1>17. LostAtMostTwo' BY <1>1, <1>16, LostStep
<1> QED BY <1>9, <1>10, <1>11, <1>13, <1>14, <1>15, <1>17 DEF IInv

\* A command moves from the channel to its handler.
LEMMA OnCommandStep ==
  ASSUME CommandsAssumption, IInv, OnCommand
  PROVE  IInv'
<1>1. /\ UNCHANGED <<issued, confirmed, offset, batch, executions, stops>>
      /\ handling = <<>> /\ pipe # <<>> /\ handling' = <<Head(pipe)>> /\ pipe' = Tail(pipe)
  BY DEF OnCommand, siteVars
<1>2. PICK d \in Commands : pipe = <<d>> BY <1>1 DEF IInv, Types, Cell
<1>3. handling' = <<d>> /\ pipe' = <<>> BY <1>1, <1>2
<1>4. pipe' \in Cell /\ handling' \in Cell BY <1>3 DEF Cell
<1>5. InHand' = InHand
  <2>1. \A c : c \in InHand <=> pipe = <<c>> \/ handling = <<c>> BY Hands DEF InHand, IInv, Types
  <2>2. \A c : c \in InHand' <=> pipe' = <<c>> \/ handling' = <<c>> BY <1>4, Hands DEF InHand
  <2> QED BY <2>1, <2>2, <1>1, <1>2, <1>3
<1>6. Types' BY <1>1, <1>4 DEF IInv, Types
<1>7. Position' = Position /\ Lost' = Lost BY <1>1, <1>5 DEF Position, Lost
<1>8. Ahead' /\ BatchFollows' /\ HandsBehind' /\ Counted' /\ Held'
  BY <1>1, <1>3, <1>5, <1>7 DEF IInv, Ahead, BatchFollows, HandsBehind, Counted, Held
<1>9. LostAtMostTwo' BY <1>1, <1>7, LostStep
<1> QED BY <1>6, <1>8, <1>9 DEF IInv

\* A handler returns, with whatever error.
LEMMA ReturnStep ==
  ASSUME CommandsAssumption, IInv, Return \/ ReturnInterrupted
  PROVE  IInv'
<1>1. /\ UNCHANGED <<issued, confirmed, offset, batch, pipe, stops>>
      /\ handling # <<>> /\ handling' = <<>> /\ Executed(Head(handling))
  BY DEF Return, ReturnInterrupted, siteVars
<1>2. PICK d \in Commands : handling = <<d>> BY <1>1 DEF IInv, Types, Cell
<1>3. executions' = [executions EXCEPT ![d] = executions[d] + 1]
  BY <1>1, <1>2 DEF Executed
<1>4. \A c \in Commands : executions'[c] = IF c = d THEN executions[c] + 1 ELSE executions[c]
  BY <1>3 DEF IInv, Types
<1>5. pipe' \in Cell /\ handling' \in Cell BY <1>1 DEF IInv, Types, Cell
<1>6. /\ d \in InHand
      /\ \A c : c \in InHand' <=> c \in InHand /\ c # d
  <2>1. \A c : c \in InHand <=> pipe = <<c>> \/ handling = <<c>> BY Hands DEF InHand, IInv, Types
  <2>2. \A c : c \in InHand' <=> pipe' = <<c>> \/ handling' = <<c>> BY <1>5, Hands DEF InHand
  <2>3. pipe # <<d>> BY <1>2 DEF IInv, HandsBehind
  <2> QED BY <2>1, <2>2, <2>3, <1>1, <1>2
<1>7. Types' BY <1>1, <1>3, <1>5 DEF IInv, Types
<1>8. Position' = Position BY <1>1 DEF Position
<1>9. d < Position /\ d \in Nat /\ Position \in Nat
  BY <1>6 DEF IInv, HandsBehind, CommandsAssumption, Types, Position
<1>10. Ahead' /\ BatchFollows' BY <1>1, <1>8 DEF IInv, Ahead, BatchFollows
<1>11. HandsBehind' BY <1>1, <1>6, <1>8 DEF IInv, HandsBehind
<1>12. Counted'
  <2> SUFFICES ASSUME NEW c \in Commands
               PROVE  /\ executions'[c] <= 1 + stops
                      /\ c \in InHand' \/ c >= Position => executions'[c] <= stops
    BY <1>1, <1>8 DEF Counted
  <2>1. executions[c] \in Nat /\ stops \in Nat BY DEF IInv, Types
  <2>2. CASE c = d BY <2>1, <2>2, <1>4, <1>6, <1>9 DEF IInv, Counted
  <2>3. CASE c # d BY <2>3, <1>4, <1>6 DEF IInv, Counted
  <2> QED BY <2>2, <2>3
<1>13. Held'
  <2> SUFFICES ASSUME NEW c \in Commands, confirmed < c, c < Position
               PROVE  executions'[c] > 0 \/ c \in InHand'
    BY <1>1, <1>8 DEF Held
  <2>1. executions[c] \in Nat BY DEF IInv, Types
  <2> QED BY <2>1, <1>4, <1>6 DEF IInv, Held
<1>14. Lost' \subseteq Lost
  <2> SUFFICES ASSUME NEW c \in Commands, executions'[c] = 0, c \notin InHand'
               PROVE  executions[c] = 0 /\ c \notin InHand
    BY <1>1 DEF Lost
  <2>1. executions[c] \in Nat BY DEF IInv, Types
  <2> QED BY <2>1, <1>4, <1>6
<1>15. LostAtMostTwo' BY <1>1, <1>14, LostStep
<1> QED BY <1>7, <1>10, <1>11, <1>12, <1>13, <1>15 DEF IInv

\* An end of the process loses what is in hand, and the site repeats what it was not told.
LEMMA RestartStep ==
  ASSUME CommandsAssumption, IInv, Restart
  PROVE  IInv'
<1>1. /\ UNCHANGED <<issued, confirmed, executions>>
      /\ stops' = stops + 1 /\ offset' = 0 /\ batch' = <<>> /\ pipe' = <<>> /\ handling' = <<>>
  BY DEF Restart, siteVars
<1>2. Types' BY <1>1 DEF IInv, Types, Cell
<1>3. InHand' = {}
  <2>1. \A c : c \in InHand' <=> pipe' = <<c>> \/ handling' = <<c>> BY <1>2, Hands DEF InHand, Types
  <2> QED BY <2>1, <1>1
<1>4. Position' = confirmed + 1 BY <1>1 DEF Position
<1>5. Ahead' /\ HandsBehind' BY <1>1, <1>3 DEF Ahead, HandsBehind
<1>6. BatchFollows' BY <1>1, <1>4 DEF BatchFollows, IInv, Types
<1>7. Counted' BY <1>1, <1>3 DEF IInv, Types, Counted
<1>8. Held' BY <1>1, <1>4 DEF Held, IInv, Types, CommandsAssumption
<1>9. Lost' \subseteq Lost \cup InHand BY <1>1 DEF Lost
<1>10. IsFiniteSet(Lost) /\ Cardinality(Lost) \in Nat BY LostFinite DEF Lost
<1>11. IsFiniteSet(InHand) /\ Cardinality(InHand) <= 2 BY Hands DEF InHand, IInv, Types
<1>12. Cardinality(InHand) \in Nat BY <1>11, FS_CardinalityType
<1>13. /\ IsFiniteSet(Lost \cup InHand)
       /\ Cardinality(Lost \cup InHand) = Cardinality(Lost) + Cardinality(InHand)
                                          - Cardinality(Lost \cap InHand)
  BY <1>10, <1>11, FS_Union
<1>14. Cardinality(Lost \cap InHand) \in Nat BY <1>10, FS_Intersection, FS_CardinalityType
<1>15. Cardinality(Lost') <= Cardinality(Lost \cup InHand) /\ Cardinality(Lost') \in Nat
  BY <1>9, <1>13, FS_Subset, FS_CardinalityType
<1>16. LostAtMostTwo'
  BY <1>1, <1>10, <1>11, <1>12, <1>13, <1>14, <1>15 DEF LostAtMostTwo, IInv, Types
<1> QED BY <1>2, <1>5, <1>6, <1>7, <1>8, <1>16 DEF IInv

\* Every step is one of these.
LEMMA Step == ASSUME CommandsAssumption, IInv, [Next]_vars PROVE IInv'
<1>1. CASE \/ Issue \/ ListenEnds \/ CommandsEnds \/ ListenerEnds \/ CloseCancel \/ CloseReturn
           \/ UNCHANGED vars
  <2>1. /\ UNCHANGED <<confirmed, offset, pipe, handling, executions, stops>>
        /\ issued' = issued \/ issued' = issued + 1
        /\ batch' = batch \/ (batch # <<>> /\ batch' = <<Head(batch)>>)
    BY <1>1 DEF Issue, ListenEnds, CommandsEnds, ListenerEnds, CloseCancel, CloseReturn,
                vars, siteVars, handVars
  <2> QED BY <2>1, QuietStep
<1> QED BY <1>1, GetStep, HandOverStep, OnCommandStep, ReturnStep, RestartStep DEF Next, Bot

-----------------------------------------------------------------------------
\* An end of the process loses two commands at most and repeats a command once at most
\* (bot.go 74-195: the offset moves on when an update is handed over, and the next
\* request confirms it while it may still be on its way).
THEOREM Counts == CommandsAssumption => (Spec => []CommandsCounted)
<1> SUFFICES ASSUME CommandsAssumption PROVE Spec => []CommandsCounted OBVIOUS
<1>1. Init => IInv BY Initially
<1>2. IInv /\ [Next]_vars => IInv' BY Step
<1>3. IInv => CommandsCounted
  BY DEF IInv, Counted, CommandsCounted, RepeatedOnlyAfterStop
<1> QED BY <1>1, <1>2, <1>3, PTL DEF Spec

-----------------------------------------------------------------------------
(* The parts of People side by side.                                       *)

DistinctProofs == INSTANCE InterfaceProofs WITH Lower <- NoCase
CasesProofs == INSTANCE InterfaceProofs
ReadersProofs == INSTANCE SubredditPreferencesProofs WITH cmd <- press
ReaderProofs == INSTANCE SubredditPreferencesProofs WITH
  Users <- {User}, MaxEvents <- MaxEventsOfOne, cmd <- press

\* What TypeOK says beyond Types: the bounds, and the goroutines.
Bounds ==
  /\ issued <= MaxUpdates /\ stops <= MaxStops
  /\ alive \subseteq Goroutines /\ state \in {"running", "closing", "closed"}

\* The proofs are about instances of their own, which are the same.
LEMMA DistinctSame ==
  /\ Distinct!Init => DistinctProofs!Init
  /\ [Distinct!Next]_(Distinct!vars) <=> [DistinctProofs!Next]_(DistinctProofs!vars)
  /\ \A b : Distinct!Press(b) <=> DistinctProofs!Press(b)
  /\ \A f, r : Distinct!List(f, r) <=> DistinctProofs!List(f, r)
<1>1. Distinct!vars = DistinctProofs!vars BY DEF Distinct!vars, DistinctProofs!vars
<1>2. Distinct!Init => DistinctProofs!Init
  BY DEF Distinct!Init, DistinctProofs!Init, Distinct!Silent, DistinctProofs!Silent
<1>3. \A b : Distinct!Press(b) <=> DistinctProofs!Press(b)
  <2>1. \A arg : Distinct!parseHeader(arg) = DistinctProofs!parseHeader(arg)
    <3>1. \A S : Distinct!Cardinality(S) = DistinctProofs!Cardinality(S)
      BY DEF Distinct!Cardinality, DistinctProofs!Cardinality
    <3>2. \A arg : Distinct!Delimiters(arg) = DistinctProofs!Delimiters(arg)
      BY DEF Distinct!Delimiters, DistinctProofs!Delimiters, Distinct!Delimiter,
             DistinctProofs!Delimiter
    <3> QED BY <3>1, <3>2 DEF Distinct!parseHeader, DistinctProofs!parseHeader
  <2>2. \A h : Distinct!RowsOf(h) = DistinctProofs!RowsOf(h)
    BY DEF Distinct!RowsOf, DistinctProofs!RowsOf
  <2>3. \A h : Distinct!GetSubscription(h) = DistinctProofs!GetSubscription(h)
    BY DEF Distinct!GetSubscription, DistinctProofs!GetSubscription, Distinct!Same,
           DistinctProofs!Same, Distinct!Fold, DistinctProofs!Fold
  <2>4. \A hs, status : Distinct!SetRows(hs, status) <=> DistinctProofs!SetRows(hs, status)
    BY DEF Distinct!SetRows, DistinctProofs!SetRows
  <2>5. \A what, h, acted : Distinct!Tell(what, h, acted) <=> DistinctProofs!Tell(what, h, acted)
    BY DEF Distinct!Tell, DistinctProofs!Tell
  <2>6. Distinct!Idle <=> DistinctProofs!Idle
    BY DEF Distinct!Idle, DistinctProofs!Idle, Distinct!Silent, DistinctProofs!Silent
  <2> QED BY <2>1, <2>2, <2>3, <2>4, <2>5, <2>6 DEF Distinct!Press, DistinctProofs!Press
<1>4. \A h : Distinct!Subscribe(h) <=> DistinctProofs!Subscribe(h)
  BY DEF Distinct!Subscribe, DistinctProofs!Subscribe, Distinct!Idle, DistinctProofs!Idle,
         Distinct!Silent, DistinctProofs!Silent, Distinct!SetRows, DistinctProofs!SetRows,
         Distinct!Tell, DistinctProofs!Tell
<1>5. \A h : Distinct!TaskSuspends(h) <=> DistinctProofs!TaskSuspends(h)
  BY DEF Distinct!TaskSuspends, DistinctProofs!TaskSuspends, Distinct!SetRows,
         DistinctProofs!SetRows
<1>6. \A h : Distinct!TaskNotifies(h) <=> DistinctProofs!TaskNotifies(h)
  BY DEF Distinct!TaskNotifies, DistinctProofs!TaskNotifies, Distinct!Send, DistinctProofs!Send,
         Distinct!Button, DistinctProofs!Button, Distinct!ButtonsOf, DistinctProofs!ButtonsOf,
         Distinct!formatHeader, DistinctProofs!formatHeader, Distinct!Delimiter,
         DistinctProofs!Delimiter
<1>7. \A f : Distinct!Clear(f) <=> DistinctProofs!Clear(f)
  BY DEF Distinct!Clear, DistinctProofs!Clear, Distinct!Idle, DistinctProofs!Idle,
         Distinct!Silent, DistinctProofs!Silent, Distinct!SetRows, DistinctProofs!SetRows
<1>8. \A f, r : Distinct!List(f, r) <=> DistinctProofs!List(f, r)
  BY DEF Distinct!List, DistinctProofs!List, Distinct!Idle, DistinctProofs!Idle, Distinct!Silent,
         DistinctProofs!Silent, Distinct!Button, DistinctProofs!Button, Distinct!formatHeader,
         DistinctProofs!formatHeader, Distinct!Delimiter, DistinctProofs!Delimiter,
         Distinct!Listed, DistinctProofs!Listed, Distinct!ActiveListed,
         DistinctProofs!ActiveListed, Distinct!ListedRows, DistinctProofs!ListedRows
<1>9. Distinct!Notify <=> DistinctProofs!Notify
  BY DEF Distinct!Notify, DistinctProofs!Notify, Distinct!Idle, DistinctProofs!Idle,
         Distinct!Silent, DistinctProofs!Silent, Distinct!Send, DistinctProofs!Send,
         Distinct!Button, DistinctProofs!Button, Distinct!ButtonsOf, DistinctProofs!ButtonsOf,
         Distinct!formatHeader, DistinctProofs!formatHeader, Distinct!Delimiter,
         DistinctProofs!Delimiter
<1>10. Distinct!Next <=> DistinctProofs!Next
  BY <1>3, <1>4, <1>5, <1>6, <1>7, <1>8, <1>9, Zenon
  DEF Distinct!Next, DistinctProofs!Next, Distinct!Feeds, DistinctProofs!Feeds
<1> QED BY <1>1, <1>2, <1>3, <1>8, <1>10 DEF Distinct!vars, DistinctProofs!vars

LEMMA CasesSame ==
  /\ Cases!Init => CasesProofs!Init
  /\ [Cases!Next]_(Cases!vars) <=> [CasesProofs!Next]_(CasesProofs!vars)
  /\ \A b : Cases!Press(b) <=> CasesProofs!Press(b)
  /\ \A f, r : Cases!List(f, r) <=> CasesProofs!List(f, r)
<1>1. Cases!vars = CasesProofs!vars BY DEF Cases!vars, CasesProofs!vars
<1>2. Cases!Init => CasesProofs!Init
  BY DEF Cases!Init, CasesProofs!Init, Cases!Silent, CasesProofs!Silent
<1>3. \A b : Cases!Press(b) <=> CasesProofs!Press(b)
  <2>1. \A arg : Cases!parseHeader(arg) = CasesProofs!parseHeader(arg)
    <3>1. \A S : Cases!Cardinality(S) = CasesProofs!Cardinality(S)
      BY DEF Cases!Cardinality, CasesProofs!Cardinality
    <3>2. \A arg : Cases!Delimiters(arg) = CasesProofs!Delimiters(arg)
      BY DEF Cases!Delimiters, CasesProofs!Delimiters, Cases!Delimiter, CasesProofs!Delimiter
    <3> QED BY <3>1, <3>2 DEF Cases!parseHeader, CasesProofs!parseHeader
  <2>2. \A h : Cases!RowsOf(h) = CasesProofs!RowsOf(h)
    BY DEF Cases!RowsOf, CasesProofs!RowsOf
  <2>3. \A h : Cases!GetSubscription(h) = CasesProofs!GetSubscription(h)
    BY DEF Cases!GetSubscription, CasesProofs!GetSubscription, Cases!Same, CasesProofs!Same,
           Cases!Fold, CasesProofs!Fold
  <2>4. \A hs, status : Cases!SetRows(hs, status) <=> CasesProofs!SetRows(hs, status)
    BY DEF Cases!SetRows, CasesProofs!SetRows
  <2>5. \A what, h, acted : Cases!Tell(what, h, acted) <=> CasesProofs!Tell(what, h, acted)
    BY DEF Cases!Tell, CasesProofs!Tell
  <2>6. Cases!Idle <=> CasesProofs!Idle
    BY DEF Cases!Idle, CasesProofs!Idle, Cases!Silent, CasesProofs!Silent
  <2> QED BY <2>1, <2>2, <2>3, <2>4, <2>5, <2>6 DEF Cases!Press, CasesProofs!Press
<1>4. \A h : Cases!Subscribe(h) <=> CasesProofs!Subscribe(h)
  BY DEF Cases!Subscribe, CasesProofs!Subscribe, Cases!Idle, CasesProofs!Idle, Cases!Silent,
         CasesProofs!Silent, Cases!SetRows, CasesProofs!SetRows, Cases!Tell, CasesProofs!Tell
<1>5. \A h : Cases!TaskSuspends(h) <=> CasesProofs!TaskSuspends(h)
  BY DEF Cases!TaskSuspends, CasesProofs!TaskSuspends, Cases!SetRows, CasesProofs!SetRows
<1>6. \A h : Cases!TaskNotifies(h) <=> CasesProofs!TaskNotifies(h)
  BY DEF Cases!TaskNotifies, CasesProofs!TaskNotifies, Cases!Send, CasesProofs!Send, Cases!Button,
         CasesProofs!Button, Cases!ButtonsOf, CasesProofs!ButtonsOf, Cases!formatHeader,
         CasesProofs!formatHeader, Cases!Delimiter, CasesProofs!Delimiter
<1>7. \A f : Cases!Clear(f) <=> CasesProofs!Clear(f)
  BY DEF Cases!Clear, CasesProofs!Clear, Cases!Idle, CasesProofs!Idle, Cases!Silent,
         CasesProofs!Silent, Cases!SetRows, CasesProofs!SetRows
<1>8. \A f, r : Cases!List(f, r) <=> CasesProofs!List(f, r)
  BY DEF Cases!List, CasesProofs!List, Cases!Idle, CasesProofs!Idle, Cases!Silent,
         CasesProofs!Silent, Cases!Button, CasesProofs!Button, Cases!formatHeader,
         CasesProofs!formatHeader, Cases!Delimiter, CasesProofs!Delimiter, Cases!Listed,
         CasesProofs!Listed, Cases!ActiveListed, CasesProofs!ActiveListed, Cases!ListedRows,
         CasesProofs!ListedRows
<1>9. Cases!Notify <=> CasesProofs!Notify
  BY DEF Cases!Notify, CasesProofs!Notify, Cases!Idle, CasesProofs!Idle, Cases!Silent,
         CasesProofs!Silent, Cases!Send, CasesProofs!Send, Cases!Button, CasesProofs!Button,
         Cases!ButtonsOf, CasesProofs!ButtonsOf, Cases!formatHeader, CasesProofs!formatHeader,
         Cases!Delimiter, CasesProofs!Delimiter
<1>10. Cases!Next <=> CasesProofs!Next
  BY <1>3, <1>4, <1>5, <1>6, <1>7, <1>8, <1>9, Zenon
  DEF Cases!Next, CasesProofs!Next, Cases!Feeds, CasesProofs!Feeds
<1> QED BY <1>1, <1>2, <1>3, <1>8, <1>10 DEF Cases!vars, CasesProofs!vars

LEMMA ReadersSame ==
  /\ Readers!Init => ReadersProofs!Init
  /\ [Readers!Next]_(Readers!vars) <=> [ReadersProofs!Next]_(ReadersProofs!vars)
<1>1. Readers!vars = ReadersProofs!vars
  BY DEF Readers!vars, ReadersProofs!vars, Readers!ghosts, ReadersProofs!ghosts
<1>2. Readers!Init => ReadersProofs!Init
  BY DEF Readers!Init, ReadersProofs!Init, Readers!None, ReadersProofs!None, Readers!Nothing,
         ReadersProofs!Nothing, Readers!Zero, ReadersProofs!Zero, Readers!Thing,
         ReadersProofs!Thing
<1>3. Readers!EditMarkup <=> ReadersProofs!EditMarkup
  <2>1. \A S : Readers!Cardinality(S) = ReadersProofs!Cardinality(S)
    BY DEF Readers!Cardinality, ReadersProofs!Cardinality
  <2>2. \A type : Readers!Count(type) = ReadersProofs!Count(type)
    BY <2>1
    DEF Readers!Count, ReadersProofs!Count, Readers!Counted, ReadersProofs!Counted, Readers!OfMessage, ReadersProofs!OfMessage
  <2> QED
    BY <2>2
    DEF Readers!EditMarkup, ReadersProofs!EditMarkup, Readers!None, ReadersProofs!None, Readers!Nothing, ReadersProofs!Nothing
<1>4. Readers!Press <=> ReadersProofs!Press
  BY DEF Readers!Press, ReadersProofs!Press, Readers!Idle, ReadersProofs!Idle,
         Readers!Preferences, ReadersProofs!Preferences, Readers!Thing, ReadersProofs!Thing,
         Readers!ghosts, ReadersProofs!ghosts
<1>5. Readers!DeleteEvents <=> ReadersProofs!DeleteEvents
  BY DEF Readers!DeleteEvents, ReadersProofs!DeleteEvents, Readers!Remaining,
         ReadersProofs!Remaining, Readers!Replaced, ReadersProofs!Replaced,
         Readers!OfUserAndMessage, ReadersProofs!OfUserAndMessage, Readers!Preferences,
         ReadersProofs!Preferences, Readers!Goto, ReadersProofs!Goto, Readers!ghosts,
         ReadersProofs!ghosts
<1>6. Readers!SavePreference <=> ReadersProofs!SavePreference
  BY DEF Readers!SavePreference, ReadersProofs!SavePreference, Readers!SaveEvent,
         ReadersProofs!SaveEvent, Readers!Goto, ReadersProofs!Goto, Readers!ghosts,
         ReadersProofs!ghosts
<1>7. Readers!Fail <=> ReadersProofs!Fail
  BY DEF Readers!Fail, ReadersProofs!Fail, Readers!None, ReadersProofs!None, Readers!Nothing,
         ReadersProofs!Nothing, Readers!Preferences, ReadersProofs!Preferences
<1>8. Readers!Click <=> ReadersProofs!Click
  BY DEF Readers!Click, ReadersProofs!Click, Readers!Idle, ReadersProofs!Idle, Readers!Thing,
         ReadersProofs!Thing, Readers!ghosts, ReadersProofs!ghosts
<1>9. Readers!FollowLink <=> ReadersProofs!FollowLink
  BY DEF Readers!FollowLink, ReadersProofs!FollowLink, Readers!Idle, ReadersProofs!Idle,
         Readers!Nothing, ReadersProofs!Nothing, Readers!ghosts, ReadersProofs!ghosts
<1>10. Readers!Lookup <=> ReadersProofs!Lookup
  BY DEF Readers!Lookup, ReadersProofs!Lookup, Readers!LastRequest, ReadersProofs!LastRequest,
         Readers!Requests, ReadersProofs!Requests, Readers!OfUserAndThing,
         ReadersProofs!OfUserAndThing, Readers!Thing, ReadersProofs!Thing, Readers!ghosts,
         ReadersProofs!ghosts
<1>11. Readers!Copy <=> ReadersProofs!Copy
  BY DEF Readers!Copy, ReadersProofs!Copy, Readers!Goto, ReadersProofs!Goto, Readers!ghosts,
         ReadersProofs!ghosts
<1>12. Readers!CopyForbidden <=> ReadersProofs!CopyForbidden
  BY DEF Readers!CopyForbidden, ReadersProofs!CopyForbidden, Readers!SaveEvent,
         ReadersProofs!SaveEvent, Readers!Goto, ReadersProofs!Goto
<1>13. Readers!Start <=> ReadersProofs!Start
  BY DEF Readers!Start, ReadersProofs!Start, Readers!Goto, ReadersProofs!Goto, Readers!ghosts,
         ReadersProofs!ghosts
<1>14. Readers!SaveClick <=> ReadersProofs!SaveClick
  BY DEF Readers!SaveClick, ReadersProofs!SaveClick, Readers!SaveEvent, ReadersProofs!SaveEvent,
         Readers!None, ReadersProofs!None, Readers!Nothing, ReadersProofs!Nothing, Readers!ghosts,
         ReadersProofs!ghosts
<1>15. Readers!PostNotFound <=> ReadersProofs!PostNotFound
  BY DEF Readers!PostNotFound, ReadersProofs!PostNotFound, Readers!None, ReadersProofs!None,
         Readers!Nothing, ReadersProofs!Nothing, Readers!ghosts, ReadersProofs!ghosts
<1>16. Readers!Next <=> ReadersProofs!Next
  BY <1>3, <1>4, <1>5, <1>6, <1>7, <1>8, <1>9, <1>10, <1>11, <1>12, <1>13, <1>14, <1>15, Zenon
  DEF Readers!Next, ReadersProofs!Next
<1> QED BY <1>1, <1>2, <1>16 DEF Readers!vars, ReadersProofs!vars, Readers!ghosts, ReadersProofs!ghosts

LEMMA ReaderSame ==
  /\ Reader!Init => ReaderProofs!Init
  /\ [Reader!Next]_(Reader!vars) <=> [ReaderProofs!Next]_(ReaderProofs!vars)
<1>1. Reader!vars = ReaderProofs!vars
  BY DEF Reader!vars, ReaderProofs!vars, Reader!ghosts, ReaderProofs!ghosts
<1>2. Reader!Init => ReaderProofs!Init
  BY DEF Reader!Init, ReaderProofs!Init, Reader!None, ReaderProofs!None, Reader!Nothing,
         ReaderProofs!Nothing, Reader!Zero, ReaderProofs!Zero, Reader!Thing, ReaderProofs!Thing
<1>3. Reader!EditMarkup <=> ReaderProofs!EditMarkup
  <2>1. \A S : Reader!Cardinality(S) = ReaderProofs!Cardinality(S)
    BY DEF Reader!Cardinality, ReaderProofs!Cardinality
  <2>2. \A type : Reader!Count(type) = ReaderProofs!Count(type)
    BY <2>1
    DEF Reader!Count, ReaderProofs!Count, Reader!Counted, ReaderProofs!Counted, Reader!OfMessage, ReaderProofs!OfMessage
  <2> QED
    BY <2>2
    DEF Reader!EditMarkup, ReaderProofs!EditMarkup, Reader!None, ReaderProofs!None, Reader!Nothing, ReaderProofs!Nothing
<1>4. Reader!Press <=> ReaderProofs!Press
  BY DEF Reader!Press, ReaderProofs!Press, Reader!Idle, ReaderProofs!Idle, Reader!Preferences,
         ReaderProofs!Preferences, Reader!Thing, ReaderProofs!Thing, Reader!ghosts,
         ReaderProofs!ghosts
<1>5. Reader!DeleteEvents <=> ReaderProofs!DeleteEvents
  BY DEF Reader!DeleteEvents, ReaderProofs!DeleteEvents, Reader!Remaining, ReaderProofs!Remaining,
         Reader!Replaced, ReaderProofs!Replaced, Reader!OfUserAndMessage,
         ReaderProofs!OfUserAndMessage, Reader!Preferences, ReaderProofs!Preferences, Reader!Goto,
         ReaderProofs!Goto, Reader!ghosts, ReaderProofs!ghosts
<1>6. Reader!SavePreference <=> ReaderProofs!SavePreference
  BY DEF Reader!SavePreference, ReaderProofs!SavePreference, Reader!SaveEvent,
         ReaderProofs!SaveEvent, Reader!Goto, ReaderProofs!Goto, Reader!ghosts,
         ReaderProofs!ghosts
<1>7. Reader!Fail <=> ReaderProofs!Fail
  BY DEF Reader!Fail, ReaderProofs!Fail, Reader!None, ReaderProofs!None, Reader!Nothing,
         ReaderProofs!Nothing, Reader!Preferences, ReaderProofs!Preferences
<1>8. Reader!Click <=> ReaderProofs!Click
  BY DEF Reader!Click, ReaderProofs!Click, Reader!Idle, ReaderProofs!Idle, Reader!Thing,
         ReaderProofs!Thing, Reader!ghosts, ReaderProofs!ghosts
<1>9. Reader!FollowLink <=> ReaderProofs!FollowLink
  BY DEF Reader!FollowLink, ReaderProofs!FollowLink, Reader!Idle, ReaderProofs!Idle,
         Reader!Nothing, ReaderProofs!Nothing, Reader!ghosts, ReaderProofs!ghosts
<1>10. Reader!Lookup <=> ReaderProofs!Lookup
  BY DEF Reader!Lookup, ReaderProofs!Lookup, Reader!LastRequest, ReaderProofs!LastRequest,
         Reader!Requests, ReaderProofs!Requests, Reader!OfUserAndThing,
         ReaderProofs!OfUserAndThing, Reader!Thing, ReaderProofs!Thing, Reader!ghosts,
         ReaderProofs!ghosts
<1>11. Reader!Copy <=> ReaderProofs!Copy
  BY DEF Reader!Copy, ReaderProofs!Copy, Reader!Goto, ReaderProofs!Goto, Reader!ghosts,
         ReaderProofs!ghosts
<1>12. Reader!CopyForbidden <=> ReaderProofs!CopyForbidden
  BY DEF Reader!CopyForbidden, ReaderProofs!CopyForbidden, Reader!SaveEvent,
         ReaderProofs!SaveEvent, Reader!Goto, ReaderProofs!Goto
<1>13. Reader!Start <=> ReaderProofs!Start
  BY DEF Reader!Start, ReaderProofs!Start, Reader!Goto, ReaderProofs!Goto, Reader!ghosts,
         ReaderProofs!ghosts
<1>14. Reader!SaveClick <=> ReaderProofs!SaveClick
  BY DEF Reader!SaveClick, ReaderProofs!SaveClick, Reader!SaveEvent, ReaderProofs!SaveEvent,
         Reader!None, ReaderProofs!None, Reader!Nothing, ReaderProofs!Nothing, Reader!ghosts,
         ReaderProofs!ghosts
<1>15. Reader!PostNotFound <=> ReaderProofs!PostNotFound
  BY DEF Reader!PostNotFound, ReaderProofs!PostNotFound, Reader!None, ReaderProofs!None,
         Reader!Nothing, ReaderProofs!Nothing, Reader!ghosts, ReaderProofs!ghosts
<1>16. Reader!Next <=> ReaderProofs!Next
  BY <1>3, <1>4, <1>5, <1>6, <1>7, <1>8, <1>9, <1>10, <1>11, <1>12, <1>13, <1>14, <1>15, Zenon
  DEF Reader!Next, ReaderProofs!Next
<1> QED BY <1>1, <1>2, <1>16 DEF Reader!vars, ReaderProofs!vars, Reader!ghosts, ReaderProofs!ghosts

-----------------------------------------------------------------------------
\* What is assumed of the parameters is what the proofs assume, and without lower case
\* every two subscriptions are told apart.
LEMMA Assumed ==
  /\ DistinctProofs!HeaderAssumption /\ CasesProofs!HeaderAssumption
  /\ ReadersProofs!PreferencesAssumption /\ ReaderProofs!PreferencesAssumption
  /\ CommandsAssumption
<1> USE PeopleAssumption DEF PeopleAssumption
<1>1. DistinctProofs!HeaderAssumption /\ CasesProofs!HeaderAssumption
  BY DEF Cases!HeaderAssumption, DistinctProofs!HeaderAssumption, CasesProofs!HeaderAssumption,
         Cases!Range, DistinctProofs!Range, CasesProofs!Range
<1>2. ReadersProofs!PreferencesAssumption
  BY DEF Readers!PreferencesAssumption, ReadersProofs!PreferencesAssumption,
         Readers!IsFiniteSet, ReadersProofs!IsFiniteSet
<1>3. ReaderProofs!PreferencesAssumption
  BY DEF Reader!PreferencesAssumption, ReaderProofs!PreferencesAssumption,
         Reader!IsFiniteSet, ReaderProofs!IsFiniteSet
<1> QED BY <1>1, <1>2, <1>3

LEMMA ToldApart == DistinctProofs!Distinguished
<1> SUFFICES ASSUME NEW h \in Headers, NEW k \in Headers, DistinctProofs!Same(h, k)
             PROVE  h = k
  BY DEF DistinctProofs!Distinguished
<1>1. \A g \in Headers : /\ g.sub = [i \in DOMAIN g.sub |-> g.sub[i]]
                         /\ g = [feed |-> g.feed, vendor |-> g.vendor, sub |-> g.sub]
  <2> SUFFICES ASSUME NEW g \in Headers
               PROVE  /\ g.sub = [i \in DOMAIN g.sub |-> g.sub[i]]
                      /\ g = [feed |-> g.feed, vendor |-> g.vendor, sub |-> g.sub]
    OBVIOUS
  <2>1. /\ g = [feed |-> g.feed, vendor |-> g.vendor, sub |-> g.sub]
        /\ g.sub \in Seq(DistinctProofs!Range(g.sub))
    BY Assumed DEF DistinctProofs!HeaderAssumption
  <2> QED BY <2>1
<1>2. DOMAIN NoCase = {} BY DEF NoCase
<1>3. \A g \in Headers : DistinctProofs!Fold(g.sub) = g.sub
  BY <1>1, <1>2 DEF DistinctProofs!Fold
<1>4. h.feed = k.feed /\ h.vendor = k.vendor /\ h.sub = k.sub
  BY <1>3 DEF DistinctProofs!Same
<1> QED BY <1>1, <1>4

\* The invariant of the buttons does not depend on the case of letters.
LEMMA ChatSame ==
  /\ DistinctProofs!IInv <=> CasesProofs!IInv
  /\ CasesProofs!IInv' => DistinctProofs!IInv'
BY DEF DistinctProofs!IInv, CasesProofs!IInv, DistinctProofs!Carries, CasesProofs!Carries,
       DistinctProofs!Keys, CasesProofs!Keys, DistinctProofs!formatHeader, CasesProofs!formatHeader,
       DistinctProofs!Delimiter, CasesProofs!Delimiter

UsersInv ==
  /\ DistinctProofs!IInv /\ (part = "distinct" => DistinctProofs!Manages)
  /\ IF part = "reader" THEN ReaderProofs!IInv ELSE ReadersProofs!IInv
  /\ IInv /\ Bounds

LEMMA UsersInitially == UsersInit => UsersInv
<1> SUFFICES ASSUME UsersInit PROVE UsersInv OBVIOUS
<1>1. DistinctProofs!Init
  BY CasesSame DEF UsersInit, CasesProofs!Init, DistinctProofs!Init, CasesProofs!Silent,
                   DistinctProofs!Silent
<1>2. DistinctProofs!IInv BY <1>1, DistinctProofs!Initially
<1>3. DistinctProofs!Manages
  BY <1>1 DEF DistinctProofs!Init, DistinctProofs!Manages, DistinctProofs!Acted,
              DistinctProofs!Undoable, DistinctProofs!Silent
<1>4. IF part = "reader" THEN ReaderProofs!IInv ELSE ReadersProofs!IInv
  BY Assumed, ReadersSame, ReaderSame, ReadersProofs!Initially, ReaderProofs!Initially DEF UsersInit
<1>5. IInv BY Assumed, Initially DEF UsersInit
<1>6. Bounds BY Assumed DEF UsersInit, Init, Bounds, CommandsAssumption
<1> QED BY <1>2, <1>3, <1>4, <1>5, <1>6 DEF UsersInv

\* The goroutines of the bot stay within the bounds.
LEMMA BoundsStep == ASSUME CommandsAssumption, IInv, Bounds, [Next]_vars PROVE Bounds'
<1>1. issued \in Nat /\ stops \in Nat /\ MaxUpdates \in Nat /\ MaxStops \in Nat
  BY DEF IInv, Types, CommandsAssumption
<1>2. CASE Issue \/ Restart
  BY <1>1, <1>2 DEF Bounds, Issue, Restart, siteVars
<1>3. CASE GetUpdates \/ HandOver \/ OnCommand \/ Return \/ UNCHANGED vars
  BY <1>3 DEF Bounds, GetUpdates, HandOver, OnCommand, Return, vars, siteVars
<1>4. CASE ListenEnds \/ CommandsEnds \/ ListenerEnds \/ ReturnInterrupted
  BY <1>4 DEF Bounds, ListenEnds, CommandsEnds, ListenerEnds, ReturnInterrupted, End, siteVars
<1>5. CASE CloseCancel \/ CloseReturn
  BY <1>5 DEF Bounds, CloseCancel, CloseReturn, siteVars
<1> QED BY <1>2, <1>3, <1>4, <1>5 DEF Next, Bot

\* Who does not move stays as it is.
LEMMA ChatStays ==
  ASSUME UNCHANGED chatVars
  PROVE  /\ DistinctProofs!IInv => DistinctProofs!IInv'
         /\ DistinctProofs!Manages => DistinctProofs!Manages'
<1>1. [DistinctProofs!Next]_(DistinctProofs!vars) BY DEF chatVars, DistinctProofs!vars
<1> QED
  BY <1>1, Assumed, ToldApart
  DEF chatVars, DistinctProofs!IInv, DistinctProofs!Carries, DistinctProofs!Manages,
      DistinctProofs!Acted, DistinctProofs!Undoable, DistinctProofs!Offered

LEMMA ReadersStay ==
  ASSUME UNCHANGED readerVars
  PROVE  /\ ReadersProofs!IInv => ReadersProofs!IInv'
         /\ ReaderProofs!IInv => ReaderProofs!IInv'
<1>1. [ReadersProofs!Next]_(ReadersProofs!vars)
  BY DEF readerVars, ReadersProofs!vars, ReadersProofs!ghosts
<1>2. [ReaderProofs!Next]_(ReaderProofs!vars)
  BY DEF readerVars, ReaderProofs!vars, ReaderProofs!ghosts
<1> QED BY <1>1, <1>2, Assumed, ReadersProofs!Inductive, ReaderProofs!Inductive

LEMMA BotStays == ASSUME UNCHANGED botVars PROVE IInv /\ Bounds => IInv' /\ Bounds'
<1>1. [Next]_vars BY DEF botVars, vars
<1> QED BY <1>1, Assumed, Step, BoundsStep

LEMMA UsersInductive == UsersInv /\ [UsersNext]_usersVars => UsersInv'
<1> SUFFICES ASSUME UsersInv, [UsersNext]_usersVars PROVE UsersInv' OBVIOUS
<1> USE DEF UsersInv
<1>1. CASE part = "distinct" /\ Distinct!Next /\ UNCHANGED <<part, readerVars, botVars>>
  <2>1. DistinctProofs!IInv' BY <1>1, Assumed, DistinctSame, DistinctProofs!Step
  <2>2. DistinctProofs!Manages'
    BY <1>1, Assumed, ToldApart, DistinctSame, DistinctProofs!ManagesInductive
  <2> QED BY <1>1, <2>1, <2>2, ReadersStay, BotStays
<1>2. CASE part = "cases" /\ Cases!Next /\ UNCHANGED <<part, readerVars, botVars>>
  <2>1. CasesProofs!IInv' BY <1>2, Assumed, CasesSame, ChatSame, CasesProofs!Step
  <2>2. DistinctProofs!IInv' BY <2>1, ChatSame
  <2> QED BY <1>2, <2>2, ReadersStay, BotStays
<1>3. CASE part = "readers" /\ Readers!Next /\ UNCHANGED <<part, chatVars, botVars>>
  <2>1. ReadersProofs!IInv' BY <1>3, Assumed, ReadersSame, ReadersProofs!Inductive
  <2> QED BY <1>3, <2>1, ChatStays, BotStays
<1>4. CASE part = "reader" /\ Reader!Next /\ UNCHANGED <<part, chatVars, botVars>>
  <2>1. ReaderProofs!IInv' BY <1>4, Assumed, ReaderSame, ReaderProofs!Inductive
  <2> QED BY <1>4, <2>1, ChatStays, BotStays
<1>5. CASE OfBot(Next)
  <2>1. part = "bot" /\ Next /\ UNCHANGED <<part, chatVars, readerVars>> BY <1>5 DEF OfBot
  <2>2. IInv' /\ Bounds' BY <2>1, Assumed, Step, BoundsStep
  <2> QED BY <2>1, <2>2, ChatStays, ReadersStay
<1>6. CASE UNCHANGED usersVars
  <2>1. UNCHANGED <<part, chatVars, readerVars, botVars>> BY <1>6 DEF usersVars
  <2> QED BY <2>1, ChatStays, ReadersStay, BotStays
<1> QED BY <1>1, <1>2, <1>3, <1>4, <1>5, <1>6 DEF UsersNext

LEMMA UsersInvariance == UsersSpec => []UsersInv
BY UsersInitially, UsersInductive, PTL DEF UsersSpec

\* A sequence of things that are in T is a sequence over T.
LEMMA Over ==
  ASSUME NEW S, NEW T, NEW s \in Seq(S), \A i \in 1..Len(s) : s[i] \in T
  PROVE  s \in Seq(T)
<1>1. PICK n \in Nat : n = Len(s) /\ s \in [1..n -> S] BY LenProperties
<1>2. s \in [1..n -> T] BY <1>1
<1> QED BY <1>2

\* A reader by itself is one of the readers.
LEMMA OneIsSome ==
  ASSUME ReaderProofs!IInv
  PROVE  Readers!TypeOK /\ Readers!OnePreference /\ Readers!MarkupIsCurrent
<1> USE PeopleAssumption DEF PeopleAssumption, ReaderProofs!IInv
<1>1. {User} \subseteq Users /\ IsFiniteSet(Users)
  BY DEF Readers!PreferencesAssumption, Readers!IsFiniteSet, IsFiniteSet
<1>2. Cardinality({User}) <= Cardinality(Users) /\ Cardinality({User}) \in Nat
      /\ Cardinality(Users) \in Nat
  BY <1>1, FS_Subset, FS_CardinalityType
<1>3. \A S : ReaderProofs!Cardinality(S) = Cardinality(S) /\ Readers!Cardinality(S) = Cardinality(S)
  BY DEF ReaderProofs!Cardinality, Readers!Cardinality, Cardinality
<1>4. /\ ReaderProofs!Types /\ ReaderProofs!Bounded /\ ReaderProofs!Current
      /\ ReaderProofs!OnePreference
  OBVIOUS
<1>5. events \in Seq([type : Readers!Preferences \cup {"pre", "click"}, user : Users, message : Messages])
  <2>1. events \in Seq(ReaderProofs!Row) BY DEF ReaderProofs!Types
  <2>2. ReaderProofs!Row \subseteq
          [type : Readers!Preferences \cup {"pre", "click"}, user : Users, message : Messages]
    BY <1>1 DEF ReaderProofs!Row, ReaderProofs!Preferences, Readers!Preferences
  <2> HIDE DEF ReaderProofs!IInv
  <2> QED BY <2>1, <2>2, Over, ElementOfSeq
<1>6. press.at \in Readers!Places
  BY DEF ReaderProofs!Types, ReaderProofs!CommandTypes, ReaderProofs!None, Readers!Places
<1>7. ASSUME NEW m \in Messages
      PROVE  markup[m].like + markup[m].dislike \in 0..Readers!Cardinality(Users)
  <2>1. markup[m].like \in Nat /\ markup[m].dislike \in Nat BY DEF ReaderProofs!Types
  <2>2. markup[m].like + markup[m].dislike <= Cardinality({User}) BY <1>3 DEF ReaderProofs!Bounded
  <2> QED BY <1>2, <1>3, <2>1, <2>2
<1>8. started \subseteq Users /\ cut \subseteq Messages BY <1>1 DEF ReaderProofs!Types
<1>9. Readers!TypeOK BY <1>5, <1>6, <1>7, <1>8 DEF Readers!TypeOK
<1>10. Readers!OnePreference
  BY DEF ReaderProofs!OnePreference, Readers!OnePreference, ReaderProofs!Preferences,
         Readers!Preferences
<1>11. Readers!MarkupIsCurrent
  <2> SUFFICES ASSUME press.at = "idle", NEW m \in Messages \ cut, NEW type \in Readers!Preferences
               PROVE  markup[m][type] = ReaderProofs!Number(type, m)
    BY <1>3 DEF Readers!MarkupIsCurrent, ReaderProofs!Number, ReaderProofs!Rows
  <2>1. /\ markup[m].like = ReaderProofs!Number("like", m)
        /\ markup[m].dislike = ReaderProofs!Number("dislike", m)
    BY DEF ReaderProofs!Current
  <2> QED BY <2>1 DEF Readers!Preferences
<1> QED BY <1>9, <1>10, <1>11

LEMMA SeveralReaders ==
  ASSUME ReadersProofs!IInv
  PROVE  Readers!TypeOK /\ Readers!OnePreference /\ Readers!MarkupIsCurrent
<1> USE PeopleAssumption DEF PeopleAssumption, ReadersProofs!IInv
<1>2. Cardinality(Users) \in Nat
  BY FS_CardinalityType DEF Readers!PreferencesAssumption, Readers!IsFiniteSet, IsFiniteSet
<1>3. \A S : ReadersProofs!Cardinality(S) = Cardinality(S) /\ Readers!Cardinality(S) = Cardinality(S)
  BY DEF ReadersProofs!Cardinality, Readers!Cardinality, Cardinality
<1>4. press.at \in Readers!Places
  BY DEF ReadersProofs!Types, ReadersProofs!CommandTypes, ReadersProofs!None, Readers!Places
<1>5. ASSUME NEW m \in Messages
      PROVE  markup[m].like + markup[m].dislike \in 0..Readers!Cardinality(Users)
  <2>1. markup[m].like \in Nat /\ markup[m].dislike \in Nat BY DEF ReadersProofs!Types
  <2>2. markup[m].like + markup[m].dislike <= Cardinality(Users) BY <1>3 DEF ReadersProofs!Bounded
  <2> QED BY <1>2, <1>3, <2>1, <2>2
<1>6. Readers!TypeOK
  BY <1>4, <1>5 DEF ReadersProofs!Types, ReadersProofs!Row, Readers!TypeOK, ReadersProofs!Preferences,
                    Readers!Preferences
<1>7. Readers!OnePreference
  BY DEF ReadersProofs!OnePreference, Readers!OnePreference, ReadersProofs!Preferences,
         Readers!Preferences
<1>8. Readers!MarkupIsCurrent
  <2> SUFFICES ASSUME press.at = "idle", NEW m \in Messages \ cut, NEW type \in Readers!Preferences
               PROVE  markup[m][type] = ReadersProofs!Number(type, m)
    BY <1>3 DEF Readers!MarkupIsCurrent, ReadersProofs!Number, ReadersProofs!Rows
  <2>1. /\ markup[m].like = ReadersProofs!Number("like", m)
        /\ markup[m].dislike = ReadersProofs!Number("dislike", m)
    BY DEF ReadersProofs!Current
  <2> QED BY <2>1 DEF Readers!Preferences
<1> QED BY <1>6, <1>7, <1>8

\* The bot's own state.
LEMMA BotTyped == ASSUME CommandsAssumption, IInv, Bounds PROVE TypeOK
<1>1. /\ issued \in Nat /\ confirmed \in Nat /\ offset \in Nat /\ stops \in Nat
      /\ confirmed <= issued /\ offset <= issued + 1
  BY DEF IInv, Types
<1>2. batch \in Seq(1..issued)
  <2>1. batch \in Seq(Nat) /\ Len(batch) \in Nat BY LenProperties DEF IInv, Types
  <2>2. Position \in Nat /\ Position >= 1 BY <1>1 DEF Position
  <2>3. /\ \A i \in 1..Len(batch) : batch[i] = Position + i - 1
        /\ Position + Len(batch) <= issued + 1
    BY DEF IInv, BatchFollows
  <2>4. \A i \in 1..Len(batch) : batch[i] \in 1..issued BY <1>1, <2>1, <2>2, <2>3
  <2> QED BY <2>1, <2>4, Over
<1>3. \A s \in Cell : s \in Seq(Commands) /\ Len(s) <= 1
  <2> SUFFICES ASSUME NEW s \in Cell PROVE s \in Seq(Commands) /\ Len(s) <= 1 OBVIOUS
  <2>1. CASE s = <<>> BY <2>1, EmptySeq
  <2>2. CASE \E c \in Commands : s = <<c>>
    <3>1. PICK c \in Commands : s = <<c>> BY <2>2
    <3> QED BY <3>1
  <2> QED BY <2>1, <2>2 DEF Cell
<1> QED BY <1>1, <1>2, <1>3 DEF TypeOK, IInv, Types, Bounds, CommandsAssumption

\* What the supervisor, the readers and the bot rely on, whoever of them moves: the
\* buttons of a subscription lead back to it, or to none if its header contains the
\* delimiter, and else one of them works; a reader has one preference per update, and
\* the buttons count what is stored (impl.go 122-203 and 272-301,
\* subreddit_command_listener.go, bot.go 74-195).
THEOREM PeopleSafe == UsersSpec => []UsersInvariant
<1>1. UsersInv => UsersInvariant
  <2> SUFFICES ASSUME UsersInv PROVE UsersInvariant OBVIOUS
  <2>1. \A h \in Headers : Distinct!parseHeader(DistinctProofs!formatHeader(h)) =
                            {k \in {h} : Distinct!Plain(k)}
    <3>1. \A S : Distinct!Cardinality(S) = DistinctProofs!Cardinality(S)
      BY DEF Distinct!Cardinality, DistinctProofs!Cardinality
    <3>2. \A arg : Distinct!Delimiters(arg) = DistinctProofs!Delimiters(arg)
      BY DEF Distinct!Delimiters, DistinctProofs!Delimiters, Distinct!Delimiter,
             DistinctProofs!Delimiter
    <3>3. \A arg : Distinct!parseHeader(arg) = DistinctProofs!parseHeader(arg)
      BY <3>1, <3>2 DEF Distinct!parseHeader, DistinctProofs!parseHeader
    <3>4. \A h : Distinct!Plain(h) <=> DistinctProofs!Plain(h)
      BY DEF Distinct!Plain, DistinctProofs!Plain, Distinct!Delimiter, DistinctProofs!Delimiter
    <3> QED BY <3>3, <3>4, Assumed, DistinctProofs!FormattedIsParsed
  <2>2. Distinct!TypeOK
    BY <2>1 DEF UsersInv, DistinctProofs!IInv, DistinctProofs!Carries, Distinct!TypeOK,
                DistinctProofs!Keys, Distinct!Keys
  <2>3. ASSUME part = "distinct" PROVE Distinct!Manageable
    <3> SUFFICES ASSUME NEW h \in Headers, Distinct!Plain(h), h \notin pending \cup lost \cup cmd.acted,
                        row[h] \in {"active", "suspended"}
                 PROVE  \E b \in offered :
                          /\ b.key = (IF row[h] = "active" THEN "suspend" ELSE "resume")
                          /\ Distinct!parseHeader(b.arg) = {h}
      BY DEF Distinct!Manageable
    <3>1. DistinctProofs!Undoable(h) BY <2>3 DEF UsersInv, DistinctProofs!Manages
    <3>2. DistinctProofs!Button(IF row[h] = "active" THEN "suspend" ELSE "resume", h) \in offered
      BY <3>1 DEF DistinctProofs!Undoable, DistinctProofs!Offered
    <3> QED BY <2>1, <3>2 DEF DistinctProofs!Button
  <2>4. Readers!TypeOK /\ Readers!OnePreference /\ Readers!MarkupIsCurrent
    BY OneIsSome, SeveralReaders DEF UsersInv
  <2>5. TypeOK BY Assumed, BotTyped DEF UsersInv
  <2> QED BY <2>2, <2>3, <2>4, <2>5 DEF UsersInvariant
<1> QED BY <1>1, UsersInvariance, PTL

\* Pressing a button changes the subscription it was made for and no other, and a list
\* offers what applies, also where the database ignores the case of letters.
THEOREM PeoplePress == UsersSpec => ButtonsAct
<1> DEFINE Own == \A b \in offered : Cases!Press(b) => \A h \in Headers \ {b.for} : row'[h] = row[h]
           Applies == \A f \in Cases!Feeds, r \in BOOLEAN : Cases!List(f, r) =>
                        \A b \in offered' \ offered :
                          row[b.for] = (IF b.key = "suspend" THEN "active" ELSE "suspended")
<1>1. UsersInv => Own
  BY Assumed, ChatSame, CasesSame, CasesProofs!PressStep DEF UsersInv, CasesProofs!OwnRowOnly
<1>2. Applies
  BY CasesSame, CasesProofs!ListStep DEF CasesProofs!ListApplies, Cases!Feeds, CasesProofs!Feeds
<1>3. UsersSpec => Cases!PressActsOnItsOwn
  BY UsersInvariance, <1>1, PTL DEF Cases!PressActsOnItsOwn
<1>4. UsersSpec => Cases!ListedButtonsApply BY <1>2, PTL DEF Cases!ListedButtonsApply
<1> QED BY <1>3, <1>4 DEF ButtonsAct, Cases!ButtonsAct

\* Who follows the link gets the message whose button was pressed last.
THEOREM PeopleLink == UsersSpec => LinkLeadsToRequest
<1> DEFINE Found == \A u \in Users, m \in Messages :
                      (press.at = "lookup" /\ press.user = u /\ press'.at = "copy" /\ press'.message = m)
                        => requested[<<u, press.thing>>] = m
<1>1. UsersInv /\ [UsersNext]_usersVars => [Found]_(Readers!vars)
  <2> SUFFICES ASSUME UsersInv, [UsersNext]_usersVars, NEW u \in Users, NEW m \in Messages,
                      press.at = "lookup", press.user = u, press'.at = "copy", press'.message = m
               PROVE  requested[<<u, press.thing>>] = m
    OBVIOUS
  <2>1. CASE part = "readers" /\ Readers!Next
    <3>1. [ReadersProofs!Next]_(ReadersProofs!vars) BY <2>1, ReadersSame
    <3> QED BY <2>1, <3>1, ReadersProofs!FoundStep DEF UsersInv
  <2>2. CASE part = "reader" /\ Reader!Next
    <3>1. [ReaderProofs!Next]_(ReaderProofs!vars) /\ ReaderProofs!IInv
      BY <2>2, ReaderSame DEF UsersInv
    <3>2. u \in {User}
      BY <3>1 DEF ReaderProofs!IInv, ReaderProofs!Types, ReaderProofs!CommandTypes, ReaderProofs!None
    <3> QED BY <3>1, <3>2, ReaderProofs!FoundStep
  <2>3. CASE press' = press BY <2>3
  <2>4. \/ part = "readers" /\ Readers!Next
        \/ part = "reader" /\ Reader!Next
        \/ press' = press
    BY DEF UsersNext, OfBot, usersVars, readerVars
  <2> QED BY <2>1, <2>2, <2>3, <2>4
<1> QED BY <1>1, UsersInvariance, PTL DEF UsersSpec, LinkLeadsToRequest, Readers!LinkLeadsToRequest
=============================================================================
