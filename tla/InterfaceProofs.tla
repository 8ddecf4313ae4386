--------------------------- MODULE InterfaceProofs ---------------------------
(***************************************************************************)
(* What the supervisor's buttons do, for any subscriptions, any letters    *)
(* that have a lower case and any order of commands: a button acts on the  *)
(* subscription it was made for and on no other, however the names of two  *)
(* subscriptions resemble each other and whatever they contain.            *)
(***************************************************************************)
EXTENDS Interface, TLAPS, FiniteSetTheorems, SequenceTheorems

\* Every button carries the header it was made for, and notifications are about
\* subscriptions there may be.
Carries == \A b \in offered : b.key \in Keys /\ b.for \in Headers /\ b.arg = formatHeader(b.for)

IInv ==
  /\ row \in [Headers -> {"none", "active", "suspended", "deadborn"}]
  /\ pending \subseteq Headers /\ lost \subseteq Headers
  /\ cmd.what \in {"none", "fire", "stop", "bin"}
  /\ cmd.about \subseteq Headers /\ cmd.acted \subseteq Headers
  /\ Carries

-----------------------------------------------------------------------------
\* The places of a formatted header.
LEMMA Formatted ==
  ASSUME NEW S, NEW s \in Seq(S), NEW a, NEW b, NEW c, NEW d
  PROVE  /\ <<a, b, c, d>> \o s \in Seq(S \cup {a, b, c, d})
         /\ Len(<<a, b, c, d>> \o s) = Len(s) + 4
         /\ (<<a, b, c, d>> \o s)[1] = a /\ (<<a, b, c, d>> \o s)[2] = b
         /\ (<<a, b, c, d>> \o s)[3] = c /\ (<<a, b, c, d>> \o s)[4] = d
         /\ \A i \in 1..Len(s) : (<<a, b, c, d>> \o s)[i + 4] = s[i]
         /\ SubSeq(<<a, b, c, d>> \o s, 5, Len(<<a, b, c, d>> \o s)) = s
<1> DEFINE T == S \cup {a, b, c, d}
           head == <<a, b, c, d>>
           t == head \o s
<1>1. head \in Seq(T) /\ s \in Seq(T) /\ Len(head) = 4 OBVIOUS
<1>2. /\ t \in Seq(T) /\ Len(t) = Len(s) + 4 /\ Len(s) \in Nat
      /\ \A i \in 1..Len(t) : t[i] = IF i <= 4 THEN head[i] ELSE s[i - 4]
  BY <1>1, ConcatProperties, LenProperties
<1>3. /\ head[1] = a /\ head[2] = b /\ head[3] = c /\ head[4] = d OBVIOUS
<1> HIDE DEF t, head, T
<1>4. t[1] = a /\ t[2] = b /\ t[3] = c /\ t[4] = d BY <1>2, <1>3
<1>5. \A i \in 1..Len(s) : t[i + 4] = s[i] BY <1>2
<1>6. SubSeq(t, 5, Len(t)) = s
  <2>1. /\ SubSeq(t, 5, Len(t)) \in Seq(T) /\ Len(SubSeq(t, 5, Len(t))) = Len(s)
        /\ \A i \in 1..Len(s) : SubSeq(t, 5, Len(t))[i] = t[5 + i - 1]
    BY <1>2, SubSeqProperties
  <2>2. \A i \in 1..Len(s) : SubSeq(t, 5, Len(t))[i] = s[i] BY <2>1, <1>2, <1>5
  <2> QED BY <2>1, <2>2, <1>1, SeqEqual
<1> QED BY <1>2, <1>4, <1>5, <1>6 DEF t, head, T

\* What parseHeader finds in a formatted header is that header or nothing; nothing
\* exactly where a part contains the delimiter.
LEMMA ParsedIsFormatted ==
  ASSUME HeaderAssumption, NEW h \in Headers
  PROVE  parseHeader(formatHeader(h)) \subseteq {h}
<1>1. /\ h.sub \in Seq(Range(h.sub))
      /\ h = [feed |-> h.feed, vendor |-> h.vendor, sub |-> h.sub]
  BY DEF HeaderAssumption
<1>2. PICK arg : arg = formatHeader(h) OBVIOUS
<1>3. arg[1] = h.feed /\ arg[3] = h.vendor /\ SubSeq(arg, 5, Len(arg)) = h.sub
  BY <1>1, <1>2, Formatted DEF formatHeader
<1> QED BY <1>1, <1>2, <1>3 DEF parseHeader

LEMMA FormattedIsParsed ==
  ASSUME HeaderAssumption, NEW h \in Headers
  PROVE  parseHeader(formatHeader(h)) = {k \in {h} : Plain(k)}
<1>1. /\ h.sub \in Seq(Range(h.sub))
      /\ h = [feed |-> h.feed, vendor |-> h.vendor, sub |-> h.sub]
  BY DEF HeaderAssumption
<1>2. PICK arg : arg = formatHeader(h) OBVIOUS
<1>3. /\ arg \in Seq(Range(h.sub) \cup {h.feed, Delimiter, h.vendor, Delimiter})
      /\ Len(arg) = Len(h.sub) + 4 /\ arg[1] = h.feed /\ arg[2] = Delimiter
      /\ arg[3] = h.vendor /\ arg[4] = Delimiter /\ SubSeq(arg, 5, Len(arg)) = h.sub
      /\ \A i \in 1..Len(h.sub) : arg[i + 4] = h.sub[i]
  BY <1>1, <1>2, Formatted DEF formatHeader
<1>4. DOMAIN arg = 1..Len(h.sub) + 4 /\ DOMAIN h.sub = 1..Len(h.sub) /\ Len(h.sub) \in Nat
  BY <1>1, <1>3
<1>5. {2, 4} \subseteq Delimiters(arg) /\ Delimiters(arg) \subseteq 1..Len(h.sub) + 4
  BY <1>3, <1>4 DEF Delimiters
<1>6. IsFiniteSet(Delimiters(arg))
  <2>1. PICK n \in Int : n = Len(h.sub) + 4 BY <1>4
  <2>2. IsFiniteSet(1..n) BY FS_Interval
  <2> QED BY <1>5, <2>1, <2>2, FS_Subset
<1>7. IsFiniteSet({2, 4}) /\ Cardinality({2, 4}) = 2
  <2>1. IsFiniteSet({2}) /\ Cardinality({2}) = 1 BY FS_Singleton
  <2>2. IsFiniteSet({2} \cup {4}) /\ Cardinality({2} \cup {4}) = Cardinality({2}) + 1
    BY <2>1, FS_AddElement
  <2>3. {2} \cup {4} = {2, 4} OBVIOUS
  <2> QED BY <2>1, <2>2, <2>3
<1>8. Plain(h) <=> Delimiters(arg) = {2, 4}
  <2>1. ASSUME Plain(h), NEW i \in 5..Len(h.sub) + 4 PROVE arg[i] # Delimiter
    <3>1. i - 4 \in 1..Len(h.sub) /\ (i - 4) + 4 = i BY <1>4
    <3>2. arg[i] = h.sub[i - 4] BY <3>1, <1>3
    <3> QED BY <2>1, <3>1, <3>2, <1>4 DEF Plain
  <2>2. ASSUME Plain(h) PROVE Delimiters(arg) = {2, 4}
    <3>1. arg[1] # Delimiter /\ arg[3] # Delimiter BY <2>2, <1>3 DEF Plain
    <3>2. \A i \in Delimiters(arg) : i \in {1, 2, 3, 4} \/ i \in 5..Len(h.sub) + 4
      BY <1>4, <1>5
    <3>3. \A i \in Delimiters(arg) : arg[i] = Delimiter BY DEF Delimiters
    <3> QED BY <2>1, <2>2, <3>1, <3>2, <3>3, <1>5
  <2>3. ASSUME Delimiters(arg) = {2, 4} PROVE Plain(h)
    <3>1. \A i \in 1..Len(h.sub) : i + 4 \in DOMAIN arg /\ i + 4 \notin {2, 4} BY <1>4
    <3>2. \A i \in 1..Len(h.sub) : h.sub[i] # Delimiter
      BY <2>3, <3>1, <1>3 DEF Delimiters
    <3>3. arg[1] # Delimiter /\ arg[3] # Delimiter
      <4>1. {1, 3} \subseteq DOMAIN arg /\ 1 \notin {2, 4} /\ 3 \notin {2, 4} BY <1>4
      <4> QED BY <2>3, <4>1 DEF Delimiters
    <3> QED BY <1>3, <1>4, <3>2, <3>3 DEF Plain
  <2> QED BY <2>2, <2>3
<1>9. Cardinality(Delimiters(arg)) = 2 <=> Delimiters(arg) = {2, 4}
  <2>1. ASSUME Cardinality(Delimiters(arg)) = 2 PROVE Delimiters(arg) = {2, 4}
    <3>1. Cardinality({2, 4}) = Cardinality(Delimiters(arg)) BY <2>1, <1>7
    <3> QED BY <3>1, <1>5, <1>6, FS_Subset
  <2> QED BY <2>1, <1>7
<1>10. parseHeader(arg) = IF Plain(h) THEN {h} ELSE {}
  BY <1>1, <1>3, <1>8, <1>9 DEF parseHeader
<1> QED BY <1>2, <1>10

-----------------------------------------------------------------------------
LEMMA Initially == Init => IInv
BY DEF Init, IInv, Silent, Carries

\* New buttons are made for headers.
LEMMA OfferStep ==
  ASSUME IInv, NEW news, offered' = offered \cup news,
         \A b \in news : \E key \in Keys, h \in Headers : b = Button(key, h)
  PROVE  Carries'
BY DEF IInv, Carries, Button

LEMMA SendStep ==
  ASSUME IInv, NEW what, NEW h \in Headers, Send(what, h)
  PROVE  Carries'
<1>1. ButtonsOf(what) \subseteq Keys \/ what \notin {"fire", "stop"} BY DEF ButtonsOf, Keys
<1>2. ButtonsOf(what) \subseteq Keys BY <1>1 DEF ButtonsOf, Keys
<1>3. PICK news : news = {Button(key, h) : key \in ButtonsOf(what)} OBVIOUS
<1>4. offered' = offered \cup news BY <1>3 DEF Send
<1>5. \A b \in news : \E key \in Keys, k \in Headers : b = Button(key, k) BY <1>2, <1>3
<1> QED BY <1>4, <1>5, OfferStep

\* Commands change rows of headers, and tell of headers.
LEMMA CommandStep ==
  ASSUME HeaderAssumption, IInv,
         \/ \E h \in Headers : Subscribe(h) \/ TaskSuspends(h)
         \/ \E b \in offered : Press(b)
         \/ \E f \in Feeds : Clear(f)
  PROVE  IInv'
<1>1. ASSUME NEW h \in Headers, Subscribe(h) \/ TaskSuspends(h) PROVE IInv'
  BY <1>1 DEF Subscribe, TaskSuspends, IInv, Carries, SetRows, Tell
<1>2. ASSUME NEW b \in offered, Press(b) PROVE IInv'
  <2>1. b.for \in Headers /\ parseHeader(b.arg) \subseteq {b.for}
    BY <1>2, ParsedIsFormatted DEF IInv, Carries
  <2>2. PICK h \in Headers :
          \/ /\ SetRows({k \in RowsOf(h) : row[k] = "active"}, "suspended")
             /\ \E k \in GetSubscription(h) : Tell("stop", k, h)
          \/ /\ SetRows({k \in RowsOf(h) : row[k] # "active"}, "active")
             /\ \E k \in GetSubscription(h) : Tell("fire", k, h)
          \/ /\ SetRows(RowsOf(h), "none")
             /\ \E k \in GetSubscription(h) : Tell("bin", k, h)
    BY <1>2, <2>1 DEF Press
  <2>3. row' \in [Headers -> {"none", "active", "suspended", "deadborn"}]
    BY <2>2 DEF SetRows, IInv
  <2>4. cmd'.what \in {"fire", "stop", "bin"} /\ cmd'.about \subseteq Headers /\ cmd'.acted \subseteq Headers
    BY <2>2 DEF Tell, GetSubscription
  <2> QED BY <1>2, <2>3, <2>4 DEF Press, IInv, Carries
<1>3. ASSUME NEW f \in Feeds, Clear(f) PROVE IInv'
  BY <1>3 DEF Clear, SetRows, IInv, Carries
<1> QED BY <1>1, <1>2, <1>3

\* Notifications and lists offer buttons.
LEMMA ShowStep ==
  ASSUME IInv,
         \/ Notify
         \/ \E h \in Headers : TaskNotifies(h)
         \/ \E f \in Feeds, r \in BOOLEAN : List(f, r)
  PROVE  IInv'
<1>1. CASE Notify
  <2>1. Carries' BY <1>1, SendStep DEF Notify, IInv, Carries
  <2> QED BY <1>1, <2>1 DEF Notify, IInv, Silent
<1>2. ASSUME NEW h \in Headers, TaskNotifies(h) PROVE IInv'
  <2>1. Carries' BY <1>2, SendStep DEF TaskNotifies, IInv, Carries
  <2> QED BY <1>2, <2>1 DEF TaskNotifies, IInv
<1>3. ASSUME NEW f \in Feeds, NEW r \in BOOLEAN, List(f, r) PROVE IInv'
  <2>1. PICK news : news = {Button(IF ActiveListed(f, r) THEN "suspend" ELSE "resume", h) :
                              h \in ListedRows(f, r)}
    OBVIOUS
  <2>2. offered' = offered \cup news BY <1>3, <2>1 DEF List
  <2>3. ListedRows(f, r) \subseteq Headers BY DEF ListedRows, Listed
  <2>4. \A b \in news : \E key \in Keys, h \in Headers : b = Button(key, h)
    BY <2>1, <2>3 DEF Keys
  <2>5. Carries' BY <2>2, <2>4, OfferStep
  <2> QED BY <1>3, <2>5 DEF List, IInv
<1> QED BY <1>1, <1>2, <1>3

LEMMA Step == ASSUME HeaderAssumption, IInv, [Next]_vars PROVE IInv'
<1>1. CASE UNCHANGED vars BY <1>1 DEF vars, IInv, Carries
<1>2. CASE Next BY <1>2, CommandStep, ShowStep DEF Next
<1> QED BY <1>1, <1>2

-----------------------------------------------------------------------------
\* The steps of one button and one list.
OwnRowOnly == \A b \in offered : Press(b) => \A h \in Headers \ {b.for} : row'[h] = row[h]
ListApplies ==
  \A f \in Feeds, r \in BOOLEAN : List(f, r) =>
    \A b \in offered' \ offered :
      row[b.for] = (IF b.key = "suspend" THEN "active" ELSE "suspended")

LEMMA PressStep == ASSUME HeaderAssumption, IInv PROVE OwnRowOnly
<1> SUFFICES ASSUME NEW b \in offered, Press(b), NEW k \in Headers \ {b.for}
             PROVE  row'[k] = row[k]
  BY DEF OwnRowOnly
<1>1. parseHeader(b.arg) \subseteq {b.for}
  BY ParsedIsFormatted DEF IInv, Carries
<1>2. PICK hs \in SUBSET RowsOf(b.for) : \E status : SetRows(hs, status)
  BY <1>1 DEF Press
<1>3. k \notin hs BY DEF RowsOf
<1> QED BY <1>2, <1>3 DEF SetRows

LEMMA ListStep == ListApplies
<1> SUFFICES ASSUME NEW f \in Feeds, NEW r \in BOOLEAN, List(f, r), NEW b \in offered' \ offered
             PROVE  row[b.for] = (IF b.key = "suspend" THEN "active" ELSE "suspended")
  BY DEF ListApplies
<1>1. PICK h \in ListedRows(f, r) : b = Button(IF ActiveListed(f, r) THEN "suspend" ELSE "resume", h)
  BY DEF List
<1>2. b.for = h /\ b.key = IF ActiveListed(f, r) THEN "suspend" ELSE "resume"
  BY <1>1 DEF Button
<1>3. row[h] = IF ActiveListed(f, r) THEN "active" ELSE "suspended"
  BY DEF ListedRows, Listed, ActiveListed
<1> QED BY <1>2, <1>3

\* Every button leads back to the subscription it was made for or, if a part of that
\* contains the delimiter, as the query of a catalog may, to none: never to another
\* (formatHeader and parseHeader, impl.go 272-301).
THEOREM TypeCorrect == HeaderAssumption => (Spec => []TypeOK)
<1> SUFFICES ASSUME HeaderAssumption PROVE Spec => []TypeOK OBVIOUS
<1>1. Init => IInv BY Initially
<1>2. IInv /\ [Next]_vars => IInv' BY Step
<1>3. IInv => TypeOK BY FormattedIsParsed DEF IInv, Carries, TypeOK
<1> QED BY <1>1, <1>2, <1>3, PTL DEF Spec

\* However old a button is, pressing it changes the subscription it was made for and no
\* other, and the buttons of a list do what applies (S_callback, R_callback,
\* D_callback and List, impl.go 122-203): whatever the parts of headers contain.
THEOREM OwnButtons == HeaderAssumption => (Spec => ButtonsAct)
<1> SUFFICES ASSUME HeaderAssumption PROVE Spec => ButtonsAct OBVIOUS
<1>1. Init => IInv BY Initially
<1>2. IInv /\ [Next]_vars => IInv' BY Step
<1>3. IInv => OwnRowOnly BY PressStep
<1>4. [OwnRowOnly]_vars
      => [\A b \in offered : Press(b) => \A h \in Headers \ {b.for} : row'[h] = row[h]]_vars
  BY DEF OwnRowOnly
<1>5. [\A f \in Feeds, r \in BOOLEAN : List(f, r) =>
         \A b \in offered' \ offered :
           row[b.for] = (IF b.key = "suspend" THEN "active" ELSE "suspended")]_vars
  BY ListStep DEF ListApplies
<1>6. Spec => PressActsOnItsOwn
  BY <1>1, <1>2, <1>3, <1>4, PTL DEF Spec, PressActsOnItsOwn
<1>7. Spec => ListedButtonsApply BY <1>5, PTL DEF ListedButtonsApply
<1> QED BY <1>6, <1>7 DEF ButtonsAct

-----------------------------------------------------------------------------
(* That the supervisor is left with a button that works.                    *)

\* The database tells the subscriptions apart, whatever case it ignores.
Distinguished == \A h, k \in Headers : Same(h, k) => h = k

Offered(key, h) == Button(key, h) \in offered

\* What is active can be suspended, even while a notification of its former suspension
\* is under way; what is suspended can be resumed once that was sent.
Undoable(h) ==
  /\ row[h] = "active" => Offered("suspend", h)
  /\ row[h] = "suspended" /\ h \notin pending => Offered("resume", h)

\* Until the command in progress has sent its notification, its subscription is in the
\* state that the notification tells of, unless a task has suspended it meanwhile.
Acted ==
  \A h \in cmd.acted :
    /\ cmd.about = {h}
    /\ \/ /\ cmd.what = "fire" /\ row[h] \in {"active", "suspended"}
          /\ row[h] = "suspended" /\ h \notin pending \cup lost => Offered("resume", h)
       \/ cmd.what = "stop" /\ row[h] \in {"suspended", "deadborn"}
       \/ cmd.what = "bin" /\ row[h] = "none"

Manages == Acted /\ (\A h \in Headers \ (lost \cup cmd.acted) : Undoable(h))

\* A command begins.
LEMMA CommandManages ==
  ASSUME HeaderAssumption, Distinguished, IInv, Manages,
         \/ \E h \in Headers : Subscribe(h)
         \/ \E b \in offered : Press(b)
         \/ \E f \in Feeds : Clear(f)
  PROVE  Manages'
<1> USE DEF IInv
<1>1. ASSUME NEW h \in Headers, NEW what, NEW hs \in SUBSET {h}, NEW status,
             cmd = Silent, SetRows(hs, status), Tell(what, h, h),
             UNCHANGED <<pending, offered, lost>>,
             \/ what = "fire" /\ row'[h] = "active"
             \/ what = "stop" /\ row'[h] \in {"suspended", "deadborn"}
             \/ what = "bin" /\ row'[h] = "none"
      PROVE  Manages'
  <2>1. cmd' = [what |-> what, about |-> {h}, acted |-> {h}] BY <1>1 DEF Tell
  <2>2. Acted' BY <1>1, <2>1 DEF Acted
  <2>3. ASSUME NEW k \in Headers \ (lost' \cup cmd'.acted) PROVE Undoable(k)'
    <3>1. k # h /\ k \notin lost BY <1>1, <2>1, <2>3
    <3>2. row'[k] = row[k] BY <1>1, <3>1 DEF SetRows
    <3>3. Undoable(k) BY <1>1, <3>1 DEF Manages, Silent
    <3> QED BY <1>1, <3>2, <3>3 DEF Undoable, Offered
  <2> QED BY <2>2, <2>3 DEF Manages
<1>2. ASSUME NEW h \in Headers, Subscribe(h) PROVE Manages'
  <2>1. CASE SetRows({h}, "active") /\ Tell("fire", h, h)
    <3>1. row'[h] = "active" BY <2>1 DEF SetRows
    <3> QED BY <1>1, <1>2, <2>1, <3>1 DEF Subscribe, Idle
  <2>2. CASE SetRows({h}, "deadborn") /\ Tell("stop", h, h)
    <3>1. row'[h] = "deadborn" BY <2>2 DEF SetRows
    <3> QED BY <1>1, <1>2, <2>2, <3>1 DEF Subscribe, Idle
  <2> QED BY <1>2, <2>1, <2>2 DEF Subscribe
<1>3. ASSUME NEW b \in offered, Press(b) PROVE Manages'
  <2>1. PICK h \in Headers : h \in parseHeader(b.arg) /\
          \/ /\ row[h] = "active"
             /\ SetRows({k \in RowsOf(h) : row[k] = "active"}, "suspended")
             /\ \E k \in GetSubscription(h) : Tell("stop", k, h)
          \/ /\ row[h] \in {"suspended", "deadborn"}
             /\ SetRows({k \in RowsOf(h) : row[k] # "active"}, "active")
             /\ \E k \in GetSubscription(h) : Tell("fire", k, h)
          \/ /\ RowsOf(h) # {}
             /\ SetRows(RowsOf(h), "none")
             /\ \E k \in GetSubscription(h) : Tell("bin", k, h)
    <3>1. parseHeader(b.arg) \subseteq {b.for} /\ b.for \in Headers
      BY ParsedIsFormatted DEF Carries
    <3> QED BY <1>3, <3>1 DEF Press, RowsOf
  <2>2. \A k \in GetSubscription(h) : k = h BY DEF GetSubscription, Distinguished
  <2>3. RowsOf(h) \subseteq {h} /\ (row[h] # "none" => h \in RowsOf(h))
        /\ (RowsOf(h) # {} => h \in RowsOf(h))
    BY DEF RowsOf
  <2>4. cmd = Silent /\ UNCHANGED <<pending, offered, lost>> BY <1>3 DEF Press, Idle
  <2>5. CASE /\ row[h] = "active" /\ SetRows({k \in RowsOf(h) : row[k] = "active"}, "suspended")
             /\ Tell("stop", h, h)
    <3>1. row'[h] = "suspended" BY <2>3, <2>5 DEF SetRows
    <3> QED BY <1>1, <2>3, <2>4, <2>5, <3>1
  <2>6. CASE /\ row[h] \in {"suspended", "deadborn"}
             /\ SetRows({k \in RowsOf(h) : row[k] # "active"}, "active") /\ Tell("fire", h, h)
    <3>1. row'[h] = "active" BY <2>3, <2>6 DEF SetRows
    <3> QED BY <1>1, <2>3, <2>4, <2>6, <3>1
  <2>7. CASE RowsOf(h) # {} /\ SetRows(RowsOf(h), "none") /\ Tell("bin", h, h)
    <3>1. row'[h] = "none" BY <2>3, <2>7 DEF SetRows
    <3> QED BY <1>1, <2>3, <2>4, <2>7, <3>1
  <2> QED BY <2>1, <2>2, <2>5, <2>6, <2>7
<1>4. ASSUME NEW f \in Feeds, Clear(f) PROVE Manages'
  <2>1. PICK hs : SetRows(hs, "none") BY <1>4 DEF Clear
  <2>2. cmd' = Silent /\ cmd = Silent /\ UNCHANGED <<pending, offered, lost>>
    BY <1>4 DEF Clear, Idle
  <2>3. \A k \in Headers : row'[k] = row[k] \/ row'[k] = "none" BY <2>1 DEF SetRows
  <2> QED BY <2>2, <2>3 DEF Manages, Acted, Undoable, Offered, Silent
<1> QED BY <1>2, <1>3, <1>4

\* A command ends with its notification.
LEMMA NotifyManages == ASSUME IInv, Manages, Notify PROVE Manages'
<1> USE DEF IInv
<1>1. cmd' = Silent /\ UNCHANGED <<row, pending>> BY DEF Notify
<1>2. offered \subseteq offered' BY DEF Notify, Send
<1>3. Acted' BY <1>1 DEF Acted, Silent
<1>4. ASSUME NEW h \in Headers, h \notin lost' PROVE Undoable(h)'
  <2>1. h \notin lost BY <1>4 DEF Notify
  <2>2. CASE h \notin cmd.acted
    <3>1. Undoable(h) BY <2>1, <2>2 DEF Manages
    <3> QED BY <1>1, <1>2, <3>1 DEF Undoable, Offered
  <2>3. CASE h \in cmd.acted
    <3>1. Send(cmd.what, h) BY <1>4, <2>3 DEF Notify, Manages, Acted
    <3>2. CASE cmd.what = "fire"
      <4>1. Offered("suspend", h)' BY <3>1, <3>2 DEF Send, ButtonsOf, Offered
      <4>2. row[h] = "suspended" /\ h \notin pending => Offered("resume", h)
        BY <2>1, <2>3, <3>2 DEF Manages, Acted
      <4> QED BY <1>1, <1>2, <4>1, <4>2 DEF Undoable, Offered
    <3>3. CASE cmd.what = "stop"
      <4>1. Offered("resume", h)' BY <3>1, <3>3 DEF Send, ButtonsOf, Offered
      <4>2. row[h] # "active" BY <2>3, <3>3 DEF Manages, Acted
      <4> QED BY <1>1, <4>1, <4>2 DEF Undoable
    <3>4. CASE cmd.what = "bin"
      <4>1. row[h] = "none" BY <2>3, <3>4 DEF Manages, Acted
      <4> QED BY <1>1, <4>1 DEF Undoable
    <3> QED BY <2>3, <3>2, <3>3, <3>4 DEF Manages, Acted
  <2> QED BY <2>2, <2>3
<1> QED BY <1>1, <1>3, <1>4 DEF Manages, Silent

\* A task suspends a subscription, tells so, or a list is shown.
LEMMA TaskManages ==
  ASSUME IInv, Manages,
         \/ \E h \in Headers : TaskSuspends(h) \/ TaskNotifies(h)
         \/ \E f \in Feeds, r \in BOOLEAN : List(f, r)
  PROVE  Manages'
<1> USE DEF IInv
<1>1. ASSUME NEW h \in Headers, TaskSuspends(h) PROVE Manages'
  <2>1. row[h] = "active" /\ pending' = pending \cup {h} /\ UNCHANGED <<cmd, offered, lost>>
    BY <1>1 DEF TaskSuspends
  <2>2. row'[h] = "suspended" /\ \A k \in Headers \ {h} : row'[k] = row[k]
    BY <1>1 DEF TaskSuspends, SetRows
  <2>3. Acted' BY <2>1, <2>2 DEF Manages, Acted, Offered
  <2>4. ASSUME NEW k \in Headers, k \notin lost \cup cmd.acted PROVE Undoable(k)'
    <3>1. Undoable(k) BY <2>4 DEF Manages
    <3> QED BY <2>1, <2>2, <3>1 DEF Undoable, Offered
  <2> QED BY <2>1, <2>3, <2>4 DEF Manages
<1>2. ASSUME NEW h \in Headers, TaskNotifies(h) PROVE Manages'
  <2>1. pending' = pending \ {h} /\ UNCHANGED <<row, cmd>> /\ offered \subseteq offered'
        /\ (lost' = lost \cup {h} \/ (lost' = lost /\ Offered("resume", h)'))
    BY <1>2 DEF TaskNotifies, Send, ButtonsOf, Offered
  <2>2. Acted' BY <2>1 DEF Manages, Acted, Offered
  <2>3. ASSUME NEW k \in Headers, k \notin lost' \cup cmd.acted PROVE Undoable(k)'
    <3>1. Undoable(k) BY <2>1, <2>3 DEF Manages
    <3> QED BY <2>1, <2>3, <3>1 DEF Undoable, Offered
  <2> QED BY <2>1, <2>2, <2>3 DEF Manages
<1>3. ASSUME NEW f \in Feeds, NEW r \in BOOLEAN, List(f, r) PROVE Manages'
  <2>1. offered \subseteq offered' /\ UNCHANGED <<row, cmd, pending, lost>> BY <1>3 DEF List
  <2> QED BY <2>1 DEF Manages, Acted, Undoable, Offered
<1> QED BY <1>1, <1>2, <1>3

LEMMA ManagesInductive ==
  ASSUME HeaderAssumption, Distinguished, IInv, Manages, [Next]_vars
  PROVE  Manages'
<1>1. CASE UNCHANGED vars BY <1>1 DEF vars, Manages, Acted, Undoable, Offered
<1>2. CASE Next BY <1>2, CommandManages, NotifyManages, TaskManages DEF Next
<1> QED BY <1>1, <1>2

LEMMA ManagesIsManageable ==
  ASSUME HeaderAssumption, IInv, Manages
  PROVE  Manageable
<1> SUFFICES ASSUME NEW h \in Headers, Plain(h), h \notin pending \cup lost \cup cmd.acted,
                    row[h] \in {"active", "suspended"}
             PROVE  \E b \in offered :
                      /\ b.key = (IF row[h] = "active" THEN "suspend" ELSE "resume")
                      /\ parseHeader(b.arg) = {h}
  BY DEF Manageable
<1>1. Undoable(h) BY DEF Manages
<1>2. Button(IF row[h] = "active" THEN "suspend" ELSE "resume", h) \in offered
  BY <1>1 DEF Undoable, Offered
<1> QED BY <1>2, FormattedIsParsed DEF Button

\* Whenever no notification is under way or was lost, the supervisor has a button that
\* undoes the last change of a subscription without the delimiter (impl.go 122-190,
\* state_listeners.go), as long as the database tells subscriptions apart: with two
\* that differ in case only, the notification may name the other one.
THEOREM AlwaysManageable ==
  HeaderAssumption /\ Distinguished => (Spec => []Manageable)
<1> SUFFICES ASSUME HeaderAssumption, Distinguished
             PROVE  Spec => []Manageable
  OBVIOUS
<1>1. Init => IInv /\ Manages
  BY Initially DEF Init, Manages, Acted, Undoable, Silent
<1>2. IInv /\ Manages /\ [Next]_vars => IInv' /\ Manages' BY Step, ManagesInductive
<1>3. IInv /\ Manages => Manageable BY ManagesIsManageable
<1> QED BY <1>1, <1>2, <1>3, PTL DEF Spec
=============================================================================
