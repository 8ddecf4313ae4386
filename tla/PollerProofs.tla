---------------------------- MODULE PollerProofs ----------------------------
(***************************************************************************)
(* What Poller promises about messages and offsets, for every finite set   *)
(* of headers, all feeds and faults and any number of births, items and    *)
(* crashes: nothing is lost, one message at most is repeated, one at most  *)
(* is late, and offsets never move back; every step is one of ItemDelivery *)
(* or none; every value keeps its type; a feed has one loop, while its     *)
(* goroutine runs; and a feed with an active row has a loop as long as     *)
(* nothing makes rows inactive.                                            *)
(***************************************************************************)
EXTENDS Poller, FiniteSetTheorems, TLAPS

-----------------------------------------------------------------------------
(* The inductive invariant.  A task works on a copy of the row it took     *)
(* from ShiftSubscription, and commands change or replace the row          *)
(* meanwhile.  So the invariant speaks of the copy as of the row, and of   *)
(* the two together: where they descend from the same Subscribe they agree *)
(* on the offset, because a feed has one task and only this task writes    *)
(* offsets; and where they do not, the copy is of the earlier one.         *)

Datum == [born : Nat, off : Nat]

\* What is read from a row that is not there is Blank.
Column == Datum \cup {Blank}

LoopRecord ==
  [pc : LoopPCs, header : Headers \cup {NoHeader}, data : Column, seen : Nat, sent : BOOLEAN]

Types ==
  /\ rows \in [Headers -> [status : Status, data : Column]]
  /\ loop \in [Feeds -> LoopRecord]
  /\ published \in [Headers -> Nat]
  /\ births \in [Headers -> Nat]
  /\ delivered \in [Headers -> SUBSET (Nat \X Nat)]
  /\ late \in [Headers -> 0..1]

\* All items up to the offset of d are among those sent, ...
SentUpTo(d, items) == \A i \in 1..d.off : <<d.born, i>> \in items

\* ... and none but the next beyond it.
SentNoMore(d, items) == \A item \in items : item[1] = d.born => item[2] <= d.off + 1

\* Data d of header h descends from a Subscribe of h and agrees with what was sent.
Agrees(h, d) ==
  /\ d \in Datum /\ d.born \in 1..births[h]
  /\ SentUpTo(d, delivered[h]) /\ SentNoMore(d, delivered[h])

RowsAgree == \A h \in Headers : Exists(h) => Agrees(h, rows[h].data)

\* What was sent belongs to a Subscribe and had been published.
ItemsKnown ==
  \A h \in Headers : \A item \in delivered[h] :
    item[1] <= births[h] /\ item[2] \in 1..published[h]

ActiveNotLate == \A h \in Headers : Active(h) => late[h] = 0

\* The task may still send or store an offset.
Working == {"start", "refresh", "persist", "touch"}

\* The loop of f may be r.
Fits(f, r) ==
  /\ r.pc \in Working \cup {"suspend"} => r.header \in Headers /\ FeedOf[r.header] = f
  /\ r.pc \in Working =>
       /\ Agrees(r.header, r.data)
       /\ Exists(r.header) => r.data.born <= rows[r.header].data.born
       /\ Exists(r.header) /\ rows[r.header].data.born = r.data.born
            => rows[r.header].data.off = r.data.off
  /\ r.pc = "persist" => <<r.data.born, r.data.off + 1>> \in delivered[r.header]
  /\ r.pc \in {"start", "refresh"} => late[r.header] = 0
  /\ r.pc \in {"refresh", "persist"} => r.seen <= published[r.header]

LoopsFit == \A f \in Feeds : Fits(f, loop[f])

IInv == Types /\ RowsAgree /\ ItemsKnown /\ ActiveNotLate /\ LoopsFit

\* No offset moves back in this step.
Forward ==
  \A h \in Headers :
    LET old == rows[h] new == rows'[h] IN
    (old.status # "absent" /\ new.status # "absent" /\ old.data.born = new.data.born)
      => new.data.off >= old.data.off

\* The promise sees of the table whether a subscription is on and where it is.
StateSeen ==
  [h \in Headers |-> IF Active(h) THEN "on" ELSE IF Exists(h) THEN "off" ELSE "none"]

StoredSeen == [h \in Headers |-> IF Exists(h) THEN rows[h].data ELSE Data0]

\* This step is one of the promise or none.
Promised == [Promise!Next]_<<published, births, StateSeen, StoredSeen, delivered, late>>

-----------------------------------------------------------------------------
\* A process that starts for the first time has an empty table and no task.
LEMMA Initially == Init => IInv
<1> SUFFICES ASSUME Init PROVE IInv OBVIOUS
<1> USE DEF Init, NoRow, NoLoop, NoHeader, Exists, Active
<1>1. Types
  BY DEF Types, Status, Errors, Column, LoopRecord, LoopPCs
<1>2. RowsAgree /\ ItemsKnown /\ ActiveNotLate
  BY DEF RowsAgree, ItemsKnown, ActiveNotLate
<1>3. LoopsFit
  BY DEF LoopsFit, Fits, Working
<1> QED BY <1>1, <1>2, <1>3 DEF IInv

\* Steps of the listener, the executor and the sources leave all of this alone.
LEMMA QuietStep ==
  ASSUME IInv, UNCHANGED <<rows, loop, delivered, births, late>>,
         \/ UNCHANGED published
         \/ \E h \in Headers : published' = [published EXCEPT ![h] = @ + 1]
  PROVE  IInv' /\ Forward /\ Promised
<1>0. /\ published' \in [Headers -> Nat]
      /\ \A h \in Headers : published[h] <= published'[h]
  BY DEF IInv, Types
<1>1. Types' BY <1>0 DEF IInv, Types
<1>2. RowsAgree' /\ ActiveNotLate'
  BY DEF IInv, RowsAgree, ActiveNotLate, Exists, Active, Agrees
<1>3. ItemsKnown' BY <1>0 DEF IInv, ItemsKnown, Types
<1>4. LoopsFit'
  <2> SUFFICES ASSUME NEW f \in Feeds PROVE Fits(f, loop[f])' BY DEF LoopsFit
  <2>1. Fits(f, loop[f]) BY DEF IInv, LoopsFit
  <2>2. loop[f].pc \in {"refresh", "persist"} => loop[f].seen <= published'[loop[f].header]
    BY <1>0, <2>1 DEF Fits, Working, IInv, Types, LoopRecord
  <2> QED BY <2>1, <2>2 DEF Fits, Exists, Agrees
<1>5. Forward BY DEF IInv, Types, RowsAgree, Exists, Agrees, Datum, Forward
<1>6. Promised
  <2>1. UNCHANGED <<StateSeen, StoredSeen>> BY DEF StateSeen, StoredSeen, Active, Exists
  <2>2. ASSUME NEW h \in Headers, published' = [published EXCEPT ![h] = @ + 1]
        PROVE  Promise!Publish(h)
    BY <2>1, <2>2 DEF Promise!Publish, StateSeen, StoredSeen
  <2> QED BY <2>1, <2>2 DEF Promised, Promise!Next
<1> QED BY <1>1, <1>2, <1>3, <1>4, <1>5, <1>6 DEF IInv

\* A task moves on without sending or writing: to a place where it may be.
LEMMA LoopStep ==
  ASSUME IInv, UNCHANGED <<rows, delivered, births, late, published>>,
         NEW f \in Feeds, NEW r \in LoopRecord, Fits(f, r),
         loop' = [loop EXCEPT ![f] = r]
  PROVE  IInv' /\ Forward /\ Promised
<1>1. Types' BY DEF IInv, Types
<1>2. RowsAgree' /\ ItemsKnown' /\ ActiveNotLate'
  BY DEF IInv, RowsAgree, ItemsKnown, ActiveNotLate, Exists, Active, Agrees
<1>3. LoopsFit'
  <2> SUFFICES ASSUME NEW g \in Feeds PROVE Fits(g, loop[g])' BY DEF LoopsFit
  <2>1. Fits(g, IF g = f THEN r ELSE loop[g]) BY DEF IInv, LoopsFit
  <2>2. loop'[g] = IF g = f THEN r ELSE loop[g] BY DEF IInv, Types
  <2> QED BY <2>1, <2>2 DEF Fits, Exists, Agrees
<1>4. Forward BY DEF IInv, Types, RowsAgree, Exists, Agrees, Datum, Forward
<1>5. Promised BY DEF Promised, StateSeen, StoredSeen, Active, Exists
<1> QED BY <1>1, <1>2, <1>3, <1>4, <1>5 DEF IInv

\* Of data that agrees with what was sent, the last item was stored or the last but one.
LEMMA SentFirst ==
  ASSUME NEW h \in Headers, NEW d, Agrees(h, d), published[h] \in Nat
  PROVE  \/ Promise!SentFirst(h, d.born, d.off)
         \/ Promise!SentFirst(h, d.born, d.off + 1)
<1>1. \A i \in 1..published[h] : i <= d.off => <<d.born, i>> \in delivered[h]
  BY DEF Agrees, SentUpTo, Datum
<1>2. \A i \in 1..published[h] : <<d.born, i>> \in delivered[h] => i <= d.off + 1
  BY DEF Agrees, SentNoMore
<1>3. CASE <<d.born, d.off + 1>> \in delivered[h]
  BY <1>1, <1>2, <1>3 DEF Promise!SentFirst, Agrees, Datum
<1>4. CASE <<d.born, d.off + 1>> \notin delivered[h]
  BY <1>1, <1>2, <1>4 DEF Promise!SentFirst, Agrees, Datum
<1> QED BY <1>3, <1>4

\* A task sends the next item.  Its place afterwards is r, with which it stores the
\* offset or gives up; the row, if it descends from the same Subscribe, is at the
\* offset of the task.
LEMMA SentStep ==
  ASSUME IInv, NEW f \in Feeds, HasNext(f), Sent(f),
         UNCHANGED <<rows, births, published>>,
         NEW r \in LoopRecord, loop' = [loop EXCEPT ![f] = r],
         r.pc \in {"none", "suspend", "persist"},
         r.pc # "none" =>
           r.header = loop[f].header /\ r.data = loop[f].data /\ r.seen = loop[f].seen
  PROVE  IInv' /\ Forward /\ Promised
<1>0. PICK h, d, seen :
        h = loop[f].header /\ d = loop[f].data /\ seen = loop[f].seen /\ loop[f].pc = "refresh"
  BY DEF HasNext, At
<1> DEFINE item == <<d.born, d.off + 1>>
<1>1. /\ h \in Headers /\ FeedOf[h] = f /\ Agrees(h, d) /\ late[h] = 0
      /\ Exists(h) => d.born <= rows[h].data.born
      /\ Exists(h) /\ rows[h].data.born = d.born => rows[h].data.off = d.off
  BY <1>0 DEF IInv, LoopsFit, Fits, Working
<1>2. d \in Datum /\ item \in Nat \X Nat BY <1>1 DEF Agrees, Datum
<1>next. d.off + 1 \in 1..published[h] /\ seen <= published[h]
  <2>1. d.off < seen /\ seen <= published[h]
    BY <1>0 DEF HasNext, IInv, LoopsFit, Fits
  <2>2. seen \in Nat /\ published[h] \in Nat BY <1>0, <1>1 DEF IInv, Types, LoopRecord
  <2> QED BY <1>2, <2>1, <2>2 DEF Datum
<1>3. Next1(f).off = d.off + 1 BY <1>0, <1>2 DEF Next1, Datum
<1>4. delivered' = [delivered EXCEPT ![h] = delivered[h] \cup {item}]
  BY <1>0, <1>3 DEF Sent
<1>5. late' = [late EXCEPT ![h] = IF Active(h) THEN 0 ELSE 1]
  BY <1>0, <1>1 DEF Sent
<1>6. \A g \in Headers : delivered'[g] = IF g = h THEN delivered[h] \cup {item} ELSE delivered[g]
  BY <1>1, <1>4 DEF IInv, Types
<1>7. \A g \in Headers : late'[g] = IF g = h THEN IF Active(h) THEN 0 ELSE 1 ELSE late[g]
  BY <1>1, <1>5 DEF IInv, Types
<1> HIDE DEF item
<1>8. Types'
  <2>1. delivered' \in [Headers -> SUBSET (Nat \X Nat)] BY <1>1, <1>2, <1>4 DEF IInv, Types
  <2>2. late' \in [Headers -> 0..1] BY <1>1, <1>5 DEF IInv, Types
  <2>3. loop' \in [Feeds -> LoopRecord] BY DEF IInv, Types
  <2> QED BY <2>1, <2>2, <2>3 DEF IInv, Types
<1>9. RowsAgree'
  <2> SUFFICES ASSUME NEW g \in Headers, Exists(g) PROVE Agrees(g, rows[g].data)'
    BY DEF RowsAgree, Exists
  <2>1. Agrees(g, rows[g].data) BY DEF IInv, RowsAgree
  <2>2. CASE g # h BY <2>1, <2>2, <1>6 DEF Agrees, SentUpTo, SentNoMore
  <2>3. CASE g = h
    <3>1. SentUpTo(rows[g].data, delivered'[g])
      BY <2>1, <2>3, <1>6 DEF Agrees, SentUpTo
    <3>2. SentNoMore(rows[g].data, delivered'[g])
      BY <2>1, <2>3, <1>1, <1>2, <1>6 DEF Agrees, SentNoMore, Datum, item
    <3> QED BY <2>1, <3>1, <3>2 DEF Agrees
  <2> QED BY <2>2, <2>3
<1>10. ItemsKnown'
  <2> SUFFICES ASSUME NEW g \in Headers, NEW i \in delivered'[g]
               PROVE  i[1] <= births[g] /\ i[2] \in 1..published[g]
    BY DEF ItemsKnown
  <2>1. item[1] <= births[h] /\ item[2] \in 1..published[h]
    BY <1>1, <1>2, <1>next DEF Agrees, item, IInv, Types, Datum
  <2> QED BY <2>1, <1>6 DEF IInv, ItemsKnown
<1>11. ActiveNotLate'
  BY <1>7 DEF IInv, ActiveNotLate, Active
<1>12. LoopsFit'
  <2> SUFFICES ASSUME NEW g \in Feeds PROVE Fits(g, loop[g])' BY DEF LoopsFit
  <2>1. CASE g = f
    <3>1. loop'[g] = r BY <2>1 DEF IInv, Types
    <3>2. CASE r.pc = "none" BY <3>1, <3>2 DEF Fits, Working
    <3>3. CASE r.pc = "suspend" BY <2>1, <3>1, <3>3, <1>0, <1>1 DEF Fits, Working
    <3>4. CASE r.pc = "persist"
      <4>1. r.header = h /\ r.data = d /\ r.seen = seen BY <1>0, <3>4
      <4>2. Agrees(h, d)'
        <5>1. SentUpTo(d, delivered'[h]) BY <1>1, <1>6 DEF Agrees, SentUpTo
        <5>2. SentNoMore(d, delivered'[h]) BY <1>1, <1>2, <1>6 DEF Agrees, SentNoMore, Datum, item
        <5> QED BY <5>1, <5>2, <1>1, <1>2 DEF Agrees
      <4>3. item \in delivered'[h] BY <1>1, <1>6
      <4>4. Exists(h)' <=> Exists(h) BY DEF Exists
      <4> HIDE DEF Agrees
      <4> QED BY <2>1, <3>1, <3>4, <4>1, <4>2, <4>3, <4>4, <1>1, <1>next DEF Fits, Working, item
    <3> QED BY <3>2, <3>3, <3>4
  <2>2. CASE g # f
    <3>1. loop'[g] = loop[g] BY <2>2 DEF IInv, Types
    <3>2. Fits(g, loop[g]) BY DEF IInv, LoopsFit
    <3>3. loop[g].pc \in Working => loop[g].header \in Headers \ {h}
      BY <3>2, <2>2, <1>1 DEF Fits
    <3> QED BY <3>1, <3>2, <3>3, <1>6, <1>7 DEF Fits, Agrees, Exists, Working
  <2> QED BY <2>1, <2>2
<1>13. Forward BY DEF IInv, Types, RowsAgree, Exists, Agrees, Datum, Forward
<1>14. Promised
  <2>1. UNCHANGED <<StateSeen, StoredSeen>> BY DEF StateSeen, StoredSeen, Active, Exists
  <2>2. Promise!SentFirst(h, d.born, d.off) \/ Promise!SentFirst(h, d.born, d.off + 1)
    BY <1>1, SentFirst DEF IInv, Types
  <2>3. /\ (StateSeen[h] = "on") <=> Active(h)
        /\ StateSeen[h] # "none" => Exists(h) /\ StoredSeen[h] = rows[h].data
    BY <1>1 DEF StateSeen, StoredSeen, Active, Exists
  <2>4. (d.off + 1) - 1 = d.off BY <1>2 DEF Datum
  <2>5. StateSeen[h] # "none" /\ StoredSeen[h].born = d.born => StoredSeen[h].off = d.off
    BY <1>1, <2>3
  <2>6. late' = [late EXCEPT ![h] = IF StateSeen[h] = "on" THEN 0 ELSE 1]
    BY <1>5, <2>3
  <2>7. Promise!Send(h, d.born, d.off + 1)
    BY <1>1, <1>4, <2>1, <2>2, <2>4, <2>5, <2>6 DEF Promise!Send, StateSeen, StoredSeen, item
  <2>8. d.born \in 1..births[h] BY <1>1 DEF Agrees
  <2> QED BY <1>1, <1>next, <2>7, <2>8 DEF Promised, Promise!Next
<1> QED BY <1>8, <1>9, <1>10, <1>11, <1>12, <1>13, <1>14 DEF IInv

\* A task stores data d in the row it works on: the offset it has just sent, or the
\* one it began with.  The row is active, and of another Subscribe or at the offset
\* of the task.
LEMMA WriteStep ==
  ASSUME IInv, NEW f \in Feeds, loop[f].pc \in {"persist", "touch"},
         NEW d \in Datum, d.born = loop[f].data.born,
         \/ d.off = loop[f].data.off
         \/ loop[f].pc = "persist" /\ d.off = loop[f].data.off + 1,
         WriteData(loop[f].header, d), UNCHANGED <<delivered, births, late, published>>,
         NEW r \in LoopRecord, loop' = [loop EXCEPT ![f] = r],
         \/ r.pc = "sleep"
         \/ /\ r.pc = "refresh" /\ r.header = loop[f].header /\ r.data = d
            /\ r.seen = loop[f].seen /\ loop[f].pc = "persist"
  PROVE  IInv' /\ Forward /\ Promised
<1>0. PICK h, old : h = loop[f].header /\ old = loop[f].data OBVIOUS
<1>1. /\ h \in Headers /\ FeedOf[h] = f /\ Agrees(h, old) /\ old \in Datum
      /\ Exists(h) => old.born <= rows[h].data.born
      /\ Exists(h) /\ rows[h].data.born = old.born => rows[h].data.off = old.off
      /\ loop[f].pc = "persist" =>
           <<old.born, old.off + 1>> \in delivered[h] /\ loop[f].seen <= published[h]
  BY <1>0 DEF IInv, LoopsFit, Fits, Working, Agrees
<1>2. Active(h) /\ late[h] = 0
  BY <1>0, <1>1 DEF WriteData, IInv, ActiveNotLate
<1>3. rows' = [rows EXCEPT ![h] = [rows[h] EXCEPT !.data = d]]
  BY <1>0 DEF WriteData
<1>4. /\ rows' \in [Headers -> [status : Status, data : Column]]
      /\ rows'[h].status = rows[h].status /\ rows'[h].data = d
      /\ \A g \in Headers \ {h} : rows'[g] = rows[g]
  BY <1>1, <1>3 DEF IInv, Types, Column
<1>5. Agrees(h, d)
  <2>1. d.born \in 1..births[h] BY <1>0, <1>1 DEF Agrees
  <2>2. SentUpTo(d, delivered[h]) BY <1>0, <1>1 DEF Agrees, SentUpTo, Datum
  <2>3. SentNoMore(d, delivered[h])
    BY <1>0, <1>1 DEF Agrees, SentNoMore, Datum, IInv, Types
  <2> QED BY <2>1, <2>2, <2>3 DEF Agrees
<1>6. Types' BY <1>4 DEF IInv, Types
<1>7. RowsAgree'
  BY <1>4, <1>5 DEF IInv, RowsAgree, Exists, Agrees
<1>8. ItemsKnown' /\ ActiveNotLate'
  BY <1>2, <1>4 DEF IInv, ItemsKnown, ActiveNotLate, Active
<1>9. LoopsFit'
  <2> SUFFICES ASSUME NEW g \in Feeds PROVE Fits(g, loop[g])' BY DEF LoopsFit
  <2>1. CASE g = f
    <3>1. loop'[g] = r BY <2>1 DEF IInv, Types
    <3> QED BY <2>1, <3>1, <1>0, <1>1, <1>2, <1>4, <1>5 DEF Fits, Working, Agrees
  <2>2. CASE g # f
    <3>1. loop'[g] = loop[g] BY <2>2 DEF IInv, Types
    <3>2. Fits(g, loop[g]) BY DEF IInv, LoopsFit
    <3>3. loop[g].pc \in Working => loop[g].header \in Headers \ {h}
      BY <3>2, <2>2, <1>1 DEF Fits
    <3> QED BY <3>1, <3>2, <3>3, <1>4 DEF Fits, Agrees, Exists, Working
  <2> QED BY <2>1, <2>2
<1>10. Forward
  <2> SUFFICES ASSUME NEW g \in Headers, Exists(g), rows'[g].data.born = rows[g].data.born
               PROVE  rows'[g].data.off >= rows[g].data.off
    BY DEF Forward, Exists
  <2>1. CASE g = h
    BY <2>1, <1>0, <1>1, <1>4 DEF Datum
  <2>2. CASE g # h
    BY <2>2, <1>4 DEF IInv, RowsAgree, Agrees, Datum
  <2> QED BY <2>1, <2>2
<1>11. Promised
  <2>1. /\ StateSeen[h] = "on" /\ StateSeen' = StateSeen
        /\ StoredSeen[h] = rows[h].data /\ StoredSeen' = [StoredSeen EXCEPT ![h] = d]
    BY <1>1, <1>2, <1>4 DEF StateSeen, StoredSeen, Active, Exists
  <2>2. d.off \in 0..published[h]
    <3>1. d.off >= 1 => <<d.born, d.off>> \in delivered[h]
      BY <1>5 DEF Agrees, SentUpTo, Datum
    <3>2. d.off >= 1 => d.off \in 1..published[h]
      BY <1>1, <3>1 DEF IInv, ItemsKnown
    <3> QED BY <1>1, <3>2 DEF IInv, Types, Datum
  <2>3. rows[h].data \in Datum /\ d.born <= rows[h].data.born
    BY <1>0, <1>1, <1>2 DEF IInv, RowsAgree, Agrees, Active, Exists
  <2>4. CASE rows[h].data.born # d.born
    <3>1. Promise!SentFirst(h, d.born, d.off) \/ Promise!SentFirst(h, d.born, d.off + 1)
      BY <1>1, <1>5, SentFirst DEF IInv, Types
    <3>2. d.born < rows[h].data.born BY <2>3, <2>4 DEF Datum
    <3>3. d = [born |-> d.born, off |-> d.off] BY DEF Datum
    <3>4. Promise!Revert(h, d.born, d.off)
      BY <2>1, <3>1, <3>2, <3>3 DEF Promise!Revert, StateSeen, StoredSeen
    <3> QED BY <1>1, <1>5, <2>2, <3>4 DEF Promised, Promise!Next, Agrees
  <2>5. CASE rows[h].data.born = d.born /\ d.off = old.off
    <3>1. rows[h].data = d BY <1>0, <1>1, <1>2, <2>3, <2>5 DEF Datum, Active, Exists
    <3>2. StoredSeen' = StoredSeen BY <2>1, <3>1 DEF StoredSeen
    <3> QED BY <2>1, <3>2 DEF Promised
  <2>6. CASE rows[h].data.born = d.born /\ loop[f].pc = "persist" /\ d.off = old.off + 1
    <3>1. rows[h].data.off = old.off /\ <<d.born, d.off>> \in delivered[h]
      BY <1>0, <1>1, <1>2, <2>6 DEF Active, Exists
    <3>2. d = [rows[h].data EXCEPT !.off = rows[h].data.off + 1]
      BY <2>3, <2>6, <3>1 DEF Datum
    <3>3. Promise!Store(h)
      BY <2>1, <2>6, <3>1, <3>2 DEF Promise!Store, StateSeen, StoredSeen
    <3> QED BY <1>1, <3>3 DEF Promised, Promise!Next
  <2> QED BY <1>0, <2>4, <2>5, <2>6
<1> QED BY <1>6, <1>7, <1>8, <1>9, <1>10, <1>11 DEF IInv

\* A command or the task changes the status of a row and leaves its data alone; the
\* task that does so is done with the row.
LEMMA StatusStep ==
  ASSUME IInv, NEW h \in Headers, NEW s \in Status, s # "absent", Exists(h),
         rows' = [rows EXCEPT ![h].status = s],
         late' = IF s = "active" THEN [late EXCEPT ![h] = 0] ELSE late,
         UNCHANGED <<delivered, births, published>>,
         loop' \in [Feeds -> LoopRecord],
         \A g \in Feeds : loop'[g] = loop[g] \/ loop'[g].pc = "sleep"
  PROVE  IInv' /\ Forward /\ Promised
<1>1. rows' = [rows EXCEPT ![h] = [rows[h] EXCEPT !.status = s]] OBVIOUS
<1>2. /\ rows' \in [Headers -> [status : Status, data : Column]]
      /\ rows'[h].status = s /\ rows'[h].data = rows[h].data
      /\ \A g \in Headers \ {h} : rows'[g] = rows[g]
  BY <1>1 DEF IInv, Types
<1>3. \A g \in Headers : rows'[g].data = rows[g].data /\ (Exists(g)' <=> Exists(g))
  BY <1>2 DEF Exists
<1>4. \A g \in Headers : late'[g] \in {late[g], 0} BY DEF IInv, Types
<1>5. Types'
  <2>1. late' \in [Headers -> 0..1] BY DEF IInv, Types
  <2> QED BY <1>2, <2>1 DEF IInv, Types
<1>6. RowsAgree' BY <1>3 DEF IInv, RowsAgree, Agrees
<1>7. ItemsKnown' BY DEF IInv, ItemsKnown
<1>8. ActiveNotLate'
  <2>1. s = "active" => late'[h] = 0 BY DEF IInv, Types
  <2> QED BY <2>1, <1>2, <1>4 DEF IInv, ActiveNotLate, Active
<1>9. LoopsFit'
  <2> SUFFICES ASSUME NEW g \in Feeds PROVE Fits(g, loop[g])' BY DEF LoopsFit
  <2>1. CASE loop'[g] = loop[g]
    <3>1. Fits(g, loop[g]) BY DEF IInv, LoopsFit
    <3> QED BY <2>1, <3>1, <1>3, <1>4 DEF Fits, Agrees, Working
  <2>2. CASE loop'[g].pc = "sleep" BY <2>2 DEF Fits, Working
  <2> QED BY <2>1, <2>2
<1>10. Forward BY <1>3 DEF IInv, RowsAgree, Exists, Agrees, Datum, Forward
<1>11. Promised
  <2>1. StoredSeen' = StoredSeen BY <1>3 DEF StoredSeen
  <2>2. StateSeen' = [StateSeen EXCEPT ![h] = IF s = "active" THEN "on" ELSE "off"]
    BY <1>2, <1>3 DEF StateSeen, Active, Exists
  <2>3. StateSeen[h] = IF Active(h) THEN "on" ELSE "off" BY DEF StateSeen
  <2>4. CASE Active(h) /\ s = "active"
    <3>1. late' = late BY <2>4 DEF IInv, ActiveNotLate, Types
    <3>2. StateSeen' = StateSeen BY <2>2, <2>3, <2>4 DEF StateSeen
    <3> QED BY <2>1, <3>1, <3>2 DEF Promised
  <2>5. CASE Active(h) /\ s # "active"
    <3>1. Promise!Suspend(h)
      BY <2>1, <2>2, <2>3, <2>5 DEF Promise!Suspend, StateSeen, StoredSeen
    <3> QED BY <3>1 DEF Promised, Promise!Next
  <2>6. CASE ~Active(h) /\ s = "active"
    <3>1. Promise!Resume(h)
      BY <2>1, <2>2, <2>3, <2>6 DEF Promise!Resume, StateSeen, StoredSeen
    <3> QED BY <3>1 DEF Promised, Promise!Next
  <2>7. CASE ~Active(h) /\ s # "active"
    <3>1. StateSeen' = StateSeen BY <2>2, <2>3, <2>7 DEF StateSeen
    <3> QED BY <2>1, <2>7, <3>1 DEF Promised
  <2> QED BY <2>4, <2>5, <2>6, <2>7
<1> QED BY <1>5, <1>6, <1>7, <1>8, <1>9, <1>10, <1>11 DEF IInv

\* Delete and Clear remove rows, whoever works on them.
LEMMA RemoveStep ==
  ASSUME IInv, rows' \in [Headers -> [status : Status, data : Column]],
         \A g \in Headers : rows'[g] = rows[g] \/ rows'[g] = NoRow,
         UNCHANGED <<loop, delivered, births, late, published>>
  PROVE  IInv' /\ Forward /\ Promised
<1>1. \A g \in Headers : Exists(g)' => rows'[g] = rows[g] /\ Exists(g)
  BY DEF Exists, NoRow
<1>2. Types' BY DEF IInv, Types
<1>3. RowsAgree' /\ ItemsKnown'
  BY <1>1 DEF IInv, RowsAgree, ItemsKnown, Agrees
<1>4. ActiveNotLate' BY <1>1 DEF IInv, ActiveNotLate, Active, Exists
<1>5. LoopsFit' BY <1>1 DEF IInv, LoopsFit, Fits, Agrees, Working
<1>6. Forward BY <1>1 DEF IInv, RowsAgree, Exists, Agrees, Datum, Forward
<1>7. Promised
  <2>0. PICK gone \in SUBSET Headers :
          gone = {h \in Headers : rows[h].status # "absent" /\ rows'[h].status = "absent"}
    OBVIOUS
  <2>1. ASSUME NEW h \in Headers, h \in gone
        PROVE  /\ StateSeen[h] # "none" /\ StateSeen'[h] = "none"
               /\ StoredSeen'[h] = Data0
    BY <2>0, <2>1 DEF StateSeen, StoredSeen, Active, Exists
  <2>2. ASSUME NEW h \in Headers, h \notin gone
        PROVE  StateSeen'[h] = StateSeen[h] /\ StoredSeen'[h] = StoredSeen[h]
    BY <2>0, <2>2, <1>1 DEF StateSeen, StoredSeen, Active, Exists
  <2>4. StateSeen' = [h \in Headers |-> IF h \in gone THEN "none" ELSE StateSeen[h]]
    BY <2>1, <2>2 DEF StateSeen
  <2>5. StoredSeen' = [h \in Headers |-> IF h \in gone THEN Data0 ELSE StoredSeen[h]]
    BY <2>1, <2>2 DEF StoredSeen
  <2>6. Promise!Unsubscribe(gone)
    BY <2>1, <2>4, <2>5 DEF Promise!Unsubscribe, StateSeen, StoredSeen, Promise!Nothing, Data0
  <2> QED BY <2>6 DEF Promised, Promise!Next
<1> QED BY <1>2, <1>3, <1>4, <1>5, <1>6, <1>7 DEF IInv

\* A new row descends from a Subscribe nothing was sent of, so no task in flight can
\* be working on it.
LEMMA SubscribeStep ==
  ASSUME IInv, NEW h \in Headers, NEW s \in {"active", "deadborn"}, Subscribe(h, s)
  PROVE  IInv' /\ Forward /\ Promised
<1>0. PICK d : d = [born |-> births[h] + 1, off |-> 0] OBVIOUS
<1>1. /\ births' = [births EXCEPT ![h] = births[h] + 1]
      /\ late' = [late EXCEPT ![h] = 0]
      /\ rows' = [rows EXCEPT ![h] = [status |-> s, data |-> d]]
      /\ UNCHANGED <<loop, published, delivered>> /\ ~Exists(h)
  BY <1>0 DEF Subscribe, Create
<1>2. d \in Datum /\ births[h] \in Nat /\ d.born = births[h] + 1 /\ d.off = 0
  BY <1>0 DEF IInv, Types, Datum
<1>3. /\ rows'[h] = [status |-> s, data |-> d] /\ births'[h] = d.born /\ late'[h] = 0
      /\ \A g \in Headers \ {h} : rows'[g] = rows[g] /\ births'[g] = births[g] /\ late'[g] = late[g]
  BY <1>1, <1>2 DEF IInv, Types
<1>4. Types'
  <2>1. rows' \in [Headers -> [status : Status, data : Column]]
    BY <1>1, <1>2 DEF IInv, Types, Column, Status, Errors
  <2>2. births' \in [Headers -> Nat] /\ late' \in [Headers -> 0..1] BY <1>1 DEF IInv, Types
  <2> QED BY <1>1, <2>1, <2>2 DEF IInv, Types
<1>5. \A item \in delivered[h] : item[1] < d.born
  BY <1>2 DEF IInv, ItemsKnown, Types
<1>6. Agrees(h, d)'
  BY <1>1, <1>2, <1>3, <1>5 DEF Agrees, SentUpTo, SentNoMore
<1>7. \A g \in Headers : births[g] \in Nat /\ births'[g] \in Nat /\ births[g] <= births'[g]
  BY <1>2, <1>3, <1>4 DEF IInv, Types
<1>8. ASSUME NEW g \in Headers, NEW e, Agrees(g, e) PROVE Agrees(g, e)'
  BY <1>8, <1>1, <1>7 DEF Agrees, Datum
<1>9. RowsAgree'
  <2> SUFFICES ASSUME NEW g \in Headers, Exists(g)' PROVE Agrees(g, rows[g].data)' BY DEF RowsAgree
  <2>1. CASE g = h BY <2>1, <1>3, <1>6 DEF Agrees
  <2>2. CASE g # h
    <3>1. rows'[g] = rows[g] /\ Exists(g) BY <2>2, <1>3 DEF Exists
    <3>2. Agrees(g, rows[g].data) BY <3>1 DEF IInv, RowsAgree
    <3> QED BY <3>1, <3>2, <1>8 DEF Agrees
  <2> QED BY <2>1, <2>2
<1>10. ItemsKnown'
  BY <1>1, <1>7 DEF IInv, ItemsKnown, Types
<1>11. ActiveNotLate' BY <1>3 DEF IInv, ActiveNotLate, Active
<1>12. LoopsFit'
  <2> SUFFICES ASSUME NEW g \in Feeds PROVE Fits(g, loop[g])' BY DEF LoopsFit
  <2>1. Fits(g, loop[g]) BY DEF IInv, LoopsFit
  <2>2. PICK k, r : k = loop[g].header /\ r = loop[g] OBVIOUS
  <2>3. r.pc \in Working => k \in Headers /\ Agrees(k, r.data) BY <2>1, <2>2 DEF Fits
  <2>4. r.pc \in Working => Agrees(k, r.data)' BY <2>3, <1>1, <1>7 DEF Agrees, Datum
  <2>5. r.pc \in Working /\ k = h => r.data.born # d.born
    BY <2>3, <1>2 DEF Agrees, Datum
  <2>6. r.pc \in Working /\ Exists(k)' /\ rows'[k].data.born = r.data.born
          => rows'[k].data.off = r.data.off
    <3>1. CASE k = h BY <3>1, <2>5, <1>3
    <3>2. CASE k # h BY <3>2, <2>1, <2>2, <2>3, <1>3 DEF Fits, Exists
    <3> QED BY <3>1, <3>2
  <2>7. r.pc \in {"start", "refresh"} => late'[k] = 0
    BY <2>1, <2>2, <2>3, <1>3 DEF Fits, Working
  <2>8. loop'[g] = r /\ r.header = k BY <2>2, <1>1
  <2>9. /\ r.pc \in Working \cup {"suspend"} => k \in Headers /\ FeedOf[k] = g
        /\ r.pc = "persist" => <<r.data.born, r.data.off + 1>> \in delivered'[k]
        /\ r.pc \in {"refresh", "persist"} => r.seen <= published'[k]
    BY <2>1, <2>2, <1>1 DEF Fits
  <2>10. r.pc \in Working /\ Exists(k)' => r.data.born <= rows'[k].data.born
    <3>1. CASE k = h BY <3>1, <2>3, <1>2, <1>3 DEF Agrees, Datum
    <3>2. CASE k # h BY <3>2, <2>1, <2>2, <2>3, <1>3 DEF Fits, Exists
    <3> QED BY <3>1, <3>2
  <2> QED BY <2>4, <2>6, <2>7, <2>8, <2>9, <2>10 DEF Fits, Exists, Agrees
<1>13. Forward
  <2> SUFFICES ASSUME NEW g \in Headers, Exists(g), rows'[g].data.born = rows[g].data.born
               PROVE  rows'[g].data.off >= rows[g].data.off
    BY DEF Forward, Exists
  <2>1. rows'[g] = rows[g] BY <1>1, <1>3
  <2> QED BY <2>1 DEF IInv, RowsAgree, Agrees, Datum
<1>14. Promised
  <2> DEFINE on == IF s = "active" THEN "on" ELSE "off"
  <2>0. /\ Exists(h)' /\ (Active(h)' <=> s = "active") /\ ~Active(h) /\ rows'[h].data = d
        /\ \A g \in Headers \ {h} : rows'[g] = rows[g]
    BY <1>1, <1>3 DEF Active, Exists
  <2>1. /\ StateSeen[h] = "none" /\ StateSeen' = [StateSeen EXCEPT ![h] = on]
        /\ StoredSeen' = [StoredSeen EXCEPT ![h] = d]
    <3>1. \A g \in Headers \ {h} : (Exists(g)' <=> Exists(g)) /\ (Active(g)' <=> Active(g))
      BY <2>0 DEF Active, Exists
    <3>2. StateSeen[h] = "none" BY <1>1, <2>0 DEF StateSeen
    <3>3. StateSeen' = [StateSeen EXCEPT ![h] = on] BY <2>0, <3>1 DEF StateSeen
    <3>4. StoredSeen' = [StoredSeen EXCEPT ![h] = d] BY <2>0, <3>1 DEF StoredSeen
    <3> QED BY <3>2, <3>3, <3>4
  <2>2. on \in {"on", "off"} OBVIOUS
  <2> HIDE DEF on
  <2>3. Promise!Subscribe(h)
    BY <1>0, <1>1, <2>1, <2>2 DEF Promise!Subscribe, StateSeen, StoredSeen
  <2> QED BY <2>3 DEF Promised, Promise!Next
<1> QED BY <1>4, <1>9, <1>10, <1>11, <1>12, <1>13, <1>14 DEF IInv

\* A stop of the process forgets all tasks.
LEMMA CrashStep == ASSUME IInv, Crash PROVE IInv' /\ Forward /\ Promised
<1>1. UNCHANGED <<rows, delivered, births, late, published>> /\ loop' = [f \in Feeds |-> NoLoop]
  BY DEF Crash, tableVars, sourceVars
<1>2. Types' BY <1>1 DEF IInv, Types, LoopRecord, LoopPCs, NoLoop, Column
<1>3. RowsAgree' /\ ItemsKnown' /\ ActiveNotLate'
  BY <1>1 DEF IInv, RowsAgree, ItemsKnown, ActiveNotLate, Exists, Active, Agrees
<1>4. LoopsFit' BY <1>1 DEF LoopsFit, Fits, Working, NoLoop
<1>5. Forward BY <1>1 DEF IInv, RowsAgree, Exists, Agrees, Datum, Forward
<1>6. Promised BY <1>1 DEF Promised, StateSeen, StoredSeen, Active, Exists
<1> QED BY <1>2, <1>3, <1>4, <1>5, <1>6 DEF IInv

-----------------------------------------------------------------------------
\* Steps of a loop that neither send nor write.
LEMMA MoveStep ==
  ASSUME IInv, NEW f \in Feeds,
         \/ Shift(f) \/ ShiftFails(f) \/ RefreshStart(f) \/ RefreshHangs(f) \/ RefreshEnd(f)
         \/ VendorFails(f) \/ WriteMisses(f) \/ SuspendMisses(f) \/ Sleep(f)
         \/ ReturnTask(f)
  PROVE  IInv' /\ Forward /\ Promised
<1> USE DEF tableVars, sourceVars, At, Goto
<1>0. UNCHANGED <<rows, delivered, births, late, published>>
  BY DEF Shift, ShiftFails, RefreshStart, RefreshHangs, RefreshEnd, VendorFails,
         WriteMisses, SuspendMisses, Sleep, ReturnTask
<1>1. loop[f] \in LoopRecord /\ Fits(f, loop[f]) BY DEF IInv, Types, LoopsFit
<1>2. ASSUME NEW r \in LoopRecord, Fits(f, r), loop' = [loop EXCEPT ![f] = r]
      PROVE  IInv' /\ Forward /\ Promised
  BY <1>0, <1>2, LoopStep
<1>3. CASE Shift(f)
  <2>1. PICK h \in Shiftable(f) :
          loop' = [loop EXCEPT ![f] =
                     [NoLoop EXCEPT !.pc = "start", !.header = h, !.data = rows[h].data]]
    BY <1>3 DEF Shift
  <2> DEFINE r == [NoLoop EXCEPT !.pc = "start", !.header = h, !.data = rows[h].data]
  <2>2. h \in Headers /\ FeedOf[h] = f /\ Active(h) BY DEF Shiftable, ActiveIn
  <2>3. Agrees(h, rows[h].data) /\ late[h] = 0
    BY <2>2 DEF IInv, RowsAgree, ActiveNotLate, Active, Exists
  <2>4. r \in LoopRecord BY <2>2 DEF IInv, Types, LoopRecord, LoopPCs, NoLoop
  <2>5. r.pc = "start" /\ r.header = h /\ r.data = rows[h].data BY DEF NoLoop
  <2>6. loop' = [loop EXCEPT ![f] = r] BY <2>1
  <2>7. rows[h].data.born <= rows[h].data.born BY <2>3 DEF Agrees, Datum
  <2> HIDE DEF r
  <2>8. Fits(f, r) BY <2>2, <2>3, <2>5, <2>7 DEF Fits, Working
  <2> QED BY <2>4, <2>6, <2>8, <1>2
<1>4. CASE ShiftFails(f) \/ ReturnTask(f)
  <2>1. NoLoop \in LoopRecord /\ Fits(f, NoLoop)
    BY DEF NoLoop, LoopRecord, LoopPCs, Column, Fits, Working
  <2> QED BY <1>4, <2>1, <1>2 DEF ShiftFails, ReturnTask
<1>5. CASE Sleep(f)
  <2>1. Begin \in LoopRecord /\ Fits(f, Begin)
    BY DEF NoLoop, Begin, LoopRecord, LoopPCs, Column, Fits, Working
  <2> QED BY <1>5, <2>1, <1>2 DEF Sleep
<1>6. CASE RefreshStart(f)
  <2> DEFINE r == [loop[f] EXCEPT !.pc = "refresh", !.seen = published[loop[f].header]]
  <2>1. loop[f].pc = "start" /\ loop' = [loop EXCEPT ![f] = r]
    BY <1>6, <1>1 DEF RefreshStart, IInv, Types
  <2>2. loop[f].header \in Headers BY <2>1, <1>1 DEF Fits, Working
  <2>3. r \in LoopRecord BY <2>2, <1>1 DEF LoopRecord, LoopPCs, IInv, Types
  <2>4. /\ r.pc = "refresh" /\ r.header = loop[f].header /\ r.data = loop[f].data
        /\ r.seen = published[r.header]
    BY <1>1 DEF LoopRecord
  <2> HIDE DEF r
  <2>5. published[r.header] \in Nat BY <2>2, <2>4 DEF IInv, Types
  <2>6. Fits(f, r) BY <2>1, <2>4, <2>5, <1>1 DEF Fits, Working
  <2> QED BY <2>1, <2>3, <2>6, <1>2
<1>7. CASE RefreshHangs(f) \/ RefreshEnd(f) \/ VendorFails(f) \/ WriteMisses(f) \/ SuspendMisses(f)
  <2>1. PICK pc : /\ loop' = [loop EXCEPT ![f].pc = pc]
                  /\ \/ pc \in {"hung", "sleep"}
                     \/ pc = "touch" /\ loop[f].pc = "refresh"
                     \/ pc = "suspend" /\ loop[f].pc \in Working
    BY <1>7 DEF RefreshHangs, RefreshEnd, VendorFails, WriteMisses, SuspendMisses, Working
  <2> DEFINE r == [loop[f] EXCEPT !.pc = pc]
  <2>2. r \in LoopRecord BY <1>1, <2>1 DEF LoopRecord, LoopPCs
  <2>3. r.pc = pc /\ r.header = loop[f].header /\ r.data = loop[f].data
    BY <1>1 DEF LoopRecord
  <2>4. loop' = [loop EXCEPT ![f] = r] BY <2>1
  <2> HIDE DEF r
  <2>5. Fits(f, r) BY <2>1, <2>3, <1>1 DEF Fits, Working
  <2> QED BY <2>2, <2>4, <2>5, <1>2
<1> QED BY <1>3, <1>4, <1>5, <1>6, <1>7

\* A refresh that fails or is aborted, which may have sent the message.
LEMMA FailStep ==
  ASSUME IInv, NEW f \in Feeds, DeliverFails(f) \/ RefreshAborted(f)
  PROVE  IInv' /\ Forward /\ Promised
<1> USE DEF tableVars, sourceVars, At, Goto
<1>1. loop[f].pc = "refresh" /\ loop[f] \in LoopRecord /\ Fits(f, loop[f])
  BY DEF DeliverFails, RefreshAborted, HasNext, IInv, Types, LoopsFit
<1>2. PICK r \in LoopRecord :
        /\ loop' = [loop EXCEPT ![f] = r]
        /\ \/ r = NoLoop
           \/ /\ r.pc = "suspend" /\ r.header = loop[f].header
              /\ r.data = loop[f].data /\ r.seen = loop[f].seen
  <2>1. CASE DeliverFails(f)
    <3>1. [loop[f] EXCEPT !.pc = "suspend"] \in LoopRecord BY <1>1 DEF LoopRecord, LoopPCs
    <3>2. loop' = [loop EXCEPT ![f] = [loop[f] EXCEPT !.pc = "suspend"]]
      BY <2>1 DEF DeliverFails
    <3> QED BY <3>1, <3>2, <1>1 DEF LoopRecord
  <2>2. CASE RefreshAborted(f)
    BY <2>2 DEF RefreshAborted, NoLoop, LoopRecord, LoopPCs, Column
  <2> QED BY <2>1, <2>2
<1>3. /\ UNCHANGED <<rows, births, published>>
      /\ (HasNext(f) /\ Sent(f)) \/ UNCHANGED <<delivered, late>>
  BY DEF DeliverFails, RefreshAborted
<1>4. CASE HasNext(f) /\ Sent(f) BY <1>1, <1>2, <1>3, <1>4, SentStep DEF NoLoop
<1>5. CASE UNCHANGED <<delivered, late>>
  <2>1. Fits(f, r) BY <1>1, <1>2 DEF Fits, Working, NoLoop
  <2> QED BY <1>2, <1>3, <1>5, <2>1, LoopStep
<1> QED BY <1>3, <1>4, <1>5

\* A refresh that sends, stores or suspends.
LEMMA RefreshStep ==
  ASSUME IInv, NEW f \in Feeds, Deliver(f) \/ Persist(f) \/ Touch(f) \/ SuspendFailed(f)
  PROVE  IInv' /\ Forward /\ Promised
<1> USE DEF tableVars, sourceVars, At, Goto
<1>1. loop[f] \in LoopRecord /\ Fits(f, loop[f]) BY DEF IInv, Types, LoopsFit
<1>2. ASSUME NEW pc \in LoopPCs, loop' = [loop EXCEPT ![f].pc = pc]
      PROVE  \E r \in LoopRecord : /\ loop' = [loop EXCEPT ![f] = r]
                                   /\ r.pc = pc /\ r.header = loop[f].header
                                   /\ r.data = loop[f].data /\ r.seen = loop[f].seen
  <2>1. [loop[f] EXCEPT !.pc = pc] \in LoopRecord BY <1>1 DEF LoopRecord
  <2> QED BY <1>1, <1>2, <2>1 DEF LoopRecord
<1>3. CASE Deliver(f)
  <2>1. PICK r \in LoopRecord : /\ loop' = [loop EXCEPT ![f] = r]
                                /\ r.pc = "persist" /\ r.header = loop[f].header
                                /\ r.data = loop[f].data /\ r.seen = loop[f].seen
    BY <1>2, <1>3 DEF Deliver, LoopPCs
  <2>2. HasNext(f) /\ Sent(f) /\ UNCHANGED <<rows, births, published>>
    BY <1>3 DEF Deliver
  <2> QED BY <2>1, <2>2, SentStep
<1>4. CASE Persist(f)
  <2>1. loop[f].pc = "persist" /\ loop[f].data \in Datum
    BY <1>1, <1>4 DEF Persist, Fits, Working, Agrees
  <2>2. PICK d : d = Next1(f) OBVIOUS
  <2>3. d \in Datum /\ d.born = loop[f].data.born /\ d.off = loop[f].data.off + 1
    BY <2>1, <2>2 DEF Next1, Datum
  <2> DEFINE r == [loop[f] EXCEPT !.pc = "refresh", !.data = d, !.sent = TRUE]
  <2>4. /\ r \in LoopRecord /\ r.pc = "refresh" /\ r.header = loop[f].header
        /\ r.data = d /\ r.seen = loop[f].seen
    BY <1>1, <2>3 DEF LoopRecord, LoopPCs, Column
  <2>5. loop' = [loop EXCEPT ![f] = r] BY <1>4, <2>2 DEF Persist
  <2>6. WriteData(loop[f].header, d) /\ UNCHANGED <<delivered, births, late, published>>
    BY <1>4, <2>2 DEF Persist
  <2> HIDE DEF r
  <2> QED BY <2>1, <2>3, <2>4, <2>5, <2>6, WriteStep
<1>5. CASE Touch(f)
  <2>1. loop[f].pc = "touch" /\ loop[f].data \in Datum
    BY <1>1, <1>5 DEF Touch, Fits, Working, Agrees
  <2>2. PICK r \in LoopRecord : loop' = [loop EXCEPT ![f] = r] /\ r.pc = "sleep"
    BY <1>2, <1>5 DEF Touch, LoopPCs
  <2>3. WriteData(loop[f].header, loop[f].data) /\ UNCHANGED <<delivered, births, late, published>>
    BY <1>5 DEF Touch
  <2> QED BY <2>1, <2>2, <2>3, WriteStep
<1>6. CASE SuspendFailed(f)
  <2>1. loop[f].header \in Headers BY <1>1, <1>6 DEF SuspendFailed, Fits
  <2>2. /\ rows' = [rows EXCEPT ![loop[f].header].status = "failed"] /\ Exists(loop[f].header)
        /\ UNCHANGED <<late, delivered, births, published>>
    BY <1>6 DEF SuspendFailed, WriteError, Active, Exists
  <2>3. PICK r \in LoopRecord : loop' = [loop EXCEPT ![f] = r] /\ r.pc = "sleep"
    BY <1>2, <1>6 DEF SuspendFailed, LoopPCs
  <2>4. /\ loop' \in [Feeds -> LoopRecord]
        /\ \A g \in Feeds : loop'[g] = loop[g] \/ loop'[g].pc = "sleep"
    BY <2>3 DEF IInv, Types
  <2>5. "failed" \in Status BY DEF Status, Errors
  <2> QED BY <2>1, <2>2, <2>4, <2>5, StatusStep
<1> QED BY <1>3, <1>4, <1>5, <1>6

\* The commands of the supervisor.
LEMMA CommandStep == ASSUME IInv, Command PROVE IInv' /\ Forward /\ Promised
<1> USE DEF tableVars, sourceVars
<1>1. ASSUME NEW h \in Headers, Suspend(h) \/ Resume(h) PROVE IInv' /\ Forward /\ Promised
  <2>1. PICK s \in Status \ {"absent"} :
          /\ rows' = [rows EXCEPT ![h].status = s]
          /\ late' = IF s = "active" THEN [late EXCEPT ![h] = 0] ELSE late
    BY <1>1 DEF Suspend, Resume, WriteError, ClearError, Status, Errors
  <2>2. UNCHANGED <<loop, delivered, births, published>> BY <1>1 DEF Suspend, Resume
  <2>4. Exists(h)
    BY <1>1 DEF Suspend, Resume, WriteError, ClearError, Active, Suspended, Exists, Errors
  <2>5. loop' \in [Feeds -> LoopRecord] /\ \A g \in Feeds : loop'[g] = loop[g]
    BY <2>2 DEF IInv, Types
  <2> QED BY <2>1, <2>2, <2>4, <2>5, StatusStep
<1>2. ASSUME NEW h \in Headers, DeleteSub(h) PROVE IInv' /\ Forward /\ Promised
  <2>1. rows' = [rows EXCEPT ![h] = NoRow] /\ UNCHANGED <<loop, delivered, births, late, published>>
    BY <1>2 DEF DeleteSub, Delete
  <2>2. NoRow \in [status : Status, data : Column] BY DEF NoRow, Status, Column
  <2> QED BY <2>1, <2>2, RemoveStep DEF IInv, Types
<1>3. ASSUME NEW f \in Feeds, NEW pattern, Clear(f, pattern) PROVE IInv' /\ Forward /\ Promised
  <2>1. PICK gone : rows' = [h \in Headers |-> IF h \in gone THEN NoRow ELSE rows[h]]
    BY <1>3 DEF Clear, DeleteAll
  <2>2. UNCHANGED <<loop, delivered, births, late, published>> BY <1>3 DEF Clear
  <2>3. NoRow \in [status : Status, data : Column] BY DEF NoRow, Status, Column
  <2>4. /\ rows' \in [Headers -> [status : Status, data : Column]]
        /\ \A g \in Headers : rows'[g] = rows[g] \/ rows'[g] = NoRow
    BY <2>1, <2>3 DEF IInv, Types
  <2> QED BY <2>2, <2>4, RemoveStep
<1> QED BY <1>1, <1>2, <1>3, SubscribeStep DEF Command

\* Steps that change neither a row nor what was sent, and give a feed a new task at most.
LEMMA OtherStep ==
  ASSUME IInv,
         \/ ListenerStep \/ ExecSubmitStep \/ CloseBegin \/ CloseEnd \/ UNCHANGED vars
         \/ \E f \in Feeds : ExecExitStep(f)
         \/ \E h \in Headers : Publish(h)
  PROVE  IInv' /\ Forward /\ Promised
<1> USE DEF tableVars, sourceVars
<1>1. UNCHANGED <<rows, delivered, births, late>>
  BY DEF ListenerStep, RestoreQuery, RestoreSubmit, RestoreDone, GetUpdated, GetFails, FailureReplied,
         SubmitTask, SubmitReturned, ExecSubmitStep, ExecExitStep, Publish, CloseBegin, CloseEnd, vars
<1>2. \/ loop' = loop
      \/ loop' = [loop EXCEPT ![submit.key] = Begin] /\ UNCHANGED published
  BY DEF ListenerStep, RestoreQuery, RestoreSubmit, RestoreDone, GetUpdated, GetFails, FailureReplied,
         SubmitTask, SubmitReturned, ExecSubmitStep, ExecExitStep, Publish, CloseBegin, CloseEnd, vars
<1>3. UNCHANGED published \/ \E h \in Headers : published' = [published EXCEPT ![h] = @ + 1]
  BY DEF ListenerStep, RestoreQuery, RestoreSubmit, RestoreDone, GetUpdated, GetFails, FailureReplied,
         SubmitTask, SubmitReturned, ExecSubmitStep, ExecExitStep, Publish, CloseBegin, CloseEnd, vars
<1>4. CASE loop' = loop BY <1>1, <1>3, <1>4, QuietStep
<1>5. CASE loop' = [loop EXCEPT ![submit.key] = Begin] /\ UNCHANGED published
  <2>1. Begin \in LoopRecord
    BY DEF NoLoop, Begin, LoopRecord, LoopPCs, Column
  <2>2. Fits(submit.key, Begin) BY DEF NoLoop, Begin, Fits, Working
  <2>3. CASE submit.key \in Feeds BY <1>1, <1>5, <2>1, <2>2, <2>3, LoopStep
  <2>4. CASE submit.key \notin Feeds
    <3>1. loop' = loop BY <1>5, <2>4 DEF IInv, Types
    <3> QED BY <3>1, <1>4
  <2> QED BY <2>3, <2>4
<1> QED BY <1>2, <1>4, <1>5

\* Every step keeps the invariant and moves no offset back.
LEMMA Step == ASSUME IInv, [Next]_vars PROVE IInv' /\ Forward /\ Promised
<1>1. ASSUME NEW f \in Feeds, TaskStep(f) PROVE IInv' /\ Forward /\ Promised
  BY <1>1, MoveStep, FailStep, RefreshStep DEF TaskStep, DeadlineMissed, Interrupted
<1> QED BY <1>1, OtherStep, CommandStep, CrashStep DEF Next

-----------------------------------------------------------------------------
\* The copy of a task and its row agree wherever they descend from the same Subscribe
\* (impl.go 263-293, between ShiftSubscription and UpdateSubscription).
THEOREM Invariance == Spec => []IInv
<1>1. Init => IInv BY Initially
<1>2. IInv /\ [Next]_vars => IInv' BY Step
<1> QED BY <1>1, <1>2, PTL DEF Spec

\* No item is below the stored offset that was not sent, whatever commands, failures and
\* stops fall between sending a message and storing its offset (impl.go 271-282).
THEOREM NoLoss == Spec => []DeliveredBeforeStored
<1>1. IInv => DeliveredBeforeStored
  BY DEF IInv, RowsAgree, Agrees, SentUpTo, DeliveredBeforeStored
<1> QED BY <1>1, Invariance, PTL

\* One message at most is sent and not stored, so that no failure and no stop repeats
\* more than one (impl.go 269-282).
THEOREM RepeatsOne == Spec => []AtMostOneUnstored
<1>1. IInv => AtMostOneUnstored
  BY DEF IInv, RowsAgree, Agrees, SentNoMore, AtMostOneUnstored
<1> QED BY <1>1, Invariance, PTL

\* One message at most leaves after the subscription has been suspended or removed, as the
\* next write finds no active row and ends the refresh (sql.go 195-222, impl.go 269-282).
THEOREM LateOne == Spec => []AtMostOneLate
<1>1. IInv => AtMostOneLate BY DEF IInv, Types, AtMostOneLate
<1> QED BY <1>1, Invariance, PTL

\* No write moves the offset of a row back, neither that of an update nor that of a
\* refresh without updates, which stores what it began with (impl.go 280-293).
THEOREM Offsets == Spec => OffsetNeverRegresses
<1>1. IInv /\ [Next]_vars => [Forward]_vars BY Step
<1>2. [Forward]_vars => [\A h \in Headers :
       LET old == rows[h] new == rows'[h] IN
       (old.status # "absent" /\ new.status # "absent" /\ old.data.born = new.data.born)
         => new.data.off >= old.data.off]_vars
  BY DEF Forward
<1> QED BY <1>1, <1>2, Invariance, PTL DEF Spec, OffsetNeverRegresses

\* The poller keeps its promise to the chats, step by step (impl.go 263-293 and the
\* commands of impl.go 69-202): items in order and none below the stored offset, and a
\* row falls back to an earlier Subscribe only, never to a later one or an unknown place.
THEOREM Refinement == Spec => KeepsDelivery
<1>1. Init => Promise!Init
  <2> SUFFICES ASSUME Init PROVE Promise!Init OBVIOUS
  <2>1. \A h \in Headers : ~Exists(h) /\ ~Active(h) BY DEF Init, NoRow, Exists, Active
  <2> QED BY <2>1 DEF Init, Promise!Init, Promise!Nothing, Data0
<1>2. IInv /\ [Next]_vars => [Promise!Next]_Promise!vars
  BY Step DEF Promised, StateSeen, StoredSeen, Promise!vars
<1> QED BY <1>1, <1>2, Invariance, PTL DEF Spec, KeepsDelivery, Promise!Spec

-----------------------------------------------------------------------------
(* The executor in the composition.  What TaskExecutorProofs proves of the *)
(* executor alone holds here: every step of the poller is one of the       *)
(* executor or leaves it alone, or stops the process, which starts with an *)
(* empty executor.                                                         *)

Executor == INSTANCE TaskExecutorProofs WITH Keys <- Feeds

\* The command in progress works on a header.
ListenerHasHeader == listener.step \in {"get", "submit"} => listener.header \in Headers

\* A feed's loop runs exactly while a goroutine executes its task.
LoopsMatchGoroutines ==
  \A f \in Feeds : workers[f]["running"] = IF At(f, "none") THEN 0 ELSE 1

ExecInv ==
  /\ Executor!IInv
  /\ Executor!WorkCountsGoroutines
  /\ LoopsMatchGoroutines

\* The operations of the executor, by either name.
LEMMA SameExecutor ==
  /\ Exec!Init <=> Executor!Init
  /\ Exec!TypeOK <=> Executor!TypeOK
  /\ \A f \in Feeds : /\ Exec!SubmitCall(f) <=> Executor!SubmitCall(f)
                      /\ Exec!TaskReturn(f) <=> Executor!TaskReturn(f)
                      /\ Exec!ExitStep(f) <=> Executor!ExitStep(f)
  /\ Exec!SubmitLock <=> Executor!SubmitLock
  /\ Exec!SubmitDrop <=> Executor!SubmitDrop
  /\ Exec!SubmitSpawn <=> Executor!SubmitSpawn
  /\ Exec!SubmitAdd <=> Executor!SubmitAdd
  /\ Exec!CloseCancel <=> Executor!CloseCancel
  /\ Exec!CloseReturn <=> Executor!CloseReturn
<1> USE DEF Exec!Free, Executor!Free, Exec!Caller, Executor!Caller, Exec!Phase, Executor!Phase,
            Exec!Move, Executor!Move
<1>1. Exec!Init <=> Executor!Init
  BY DEF Exec!Init, Executor!Init, Exec!NoGoroutine, Executor!NoGoroutine
<1>2. Exec!TypeOK <=> Executor!TypeOK
  BY DEF Exec!TypeOK, Executor!TypeOK, Exec!SubmitPC, Executor!SubmitPC
<1>3. ASSUME NEW f \in Feeds
      PROVE  /\ Exec!SubmitCall(f) <=> Executor!SubmitCall(f)
             /\ Exec!TaskReturn(f) <=> Executor!TaskReturn(f)
  BY DEF Exec!SubmitCall, Executor!SubmitCall, Exec!TaskReturn, Executor!TaskReturn
<1>4. ASSUME NEW f \in Feeds PROVE Exec!ExitStep(f) <=> Executor!ExitStep(f)
  BY DEF Exec!ExitStep, Executor!ExitStep, Exec!ExitLock, Executor!ExitLock,
         Exec!ExitDelete, Executor!ExitDelete, Exec!GoroutineEnd, Executor!GoroutineEnd
<1>5. /\ Exec!SubmitLock <=> Executor!SubmitLock
      /\ Exec!SubmitDrop <=> Executor!SubmitDrop
      /\ Exec!SubmitSpawn <=> Executor!SubmitSpawn
      /\ Exec!SubmitAdd <=> Executor!SubmitAdd
  BY DEF Exec!SubmitLock, Executor!SubmitLock, Exec!SubmitDrop, Executor!SubmitDrop,
         Exec!SubmitSpawn, Executor!SubmitSpawn, Exec!SubmitAdd, Executor!SubmitAdd
<1>6. /\ Exec!CloseCancel <=> Executor!CloseCancel
      /\ Exec!CloseReturn <=> Executor!CloseReturn
  BY DEF Exec!CloseCancel, Executor!CloseCancel, Exec!CloseReturn, Executor!CloseReturn
<1> QED BY <1>1, <1>2, <1>3, <1>4, <1>5, <1>6

\* Steps that leave the executor and the set of feeds with a loop alone.
Outside ==
  /\ UNCHANGED execVars
  /\ \A f \in Feeds : At(f, "none")' <=> At(f, "none")

\* Feed f's task returns and its loop ends, for one of three reasons.
LoopReturns(f) ==
  /\ ShiftFails(f) \/ DeadlineMissed(f) \/ Interrupted(f)
  /\ Exec!TaskReturn(f) /\ ~At(f, "none") /\ loop' = [loop EXCEPT ![f] = NoLoop]

\* What a step of the poller is to the executor.
LEMMA ExecutorSteps ==
  ASSUME TypeOK, ListenerHasHeader, [Next]_vars
  PROVE  \/ Outside
         \/ UNCHANGED loop /\ \E f \in Feeds : Exec!SubmitCall(f) \/ Exec!ExitStep(f)
         \/ UNCHANGED loop /\ (Exec!SubmitLock \/ Exec!SubmitDrop \/ Exec!SubmitAdd)
         \/ Exec!SubmitSpawn /\ loop' = [loop EXCEPT ![submit.key] = Begin]
         \/ \E f \in Feeds : LoopReturns(f)
         \/ UNCHANGED loop /\ (Exec!CloseCancel \/ Exec!CloseReturn)
         \/ Crash
<1> DEFINE Goal ==
      \/ Outside
      \/ UNCHANGED loop /\ \E f \in Feeds : Exec!SubmitCall(f) \/ Exec!ExitStep(f)
      \/ UNCHANGED loop /\ (Exec!SubmitLock \/ Exec!SubmitDrop \/ Exec!SubmitAdd)
      \/ Exec!SubmitSpawn /\ loop' = [loop EXCEPT ![submit.key] = Begin]
      \/ \E f \in Feeds : LoopReturns(f)
      \/ UNCHANGED loop /\ (Exec!CloseCancel \/ Exec!CloseReturn)
      \/ Crash
<1>1. UNCHANGED <<execVars, loop>> => Outside
  BY DEF Outside, At
<1>2. CASE ListenerStep
  <2>1. ASSUME RestoreSubmit PROVE Goal
    <3>1. listener.todo \subseteq Feeds BY DEF TypeOK
    <3> QED BY <2>1, <3>1 DEF RestoreSubmit
  <2>2. ASSUME SubmitTask PROVE Goal
    <3>1. FeedOf[listener.header] \in Feeds
      BY <2>2, FeedOfAssumption DEF SubmitTask, ListenerHasHeader
    <3> QED BY <2>2, <3>1 DEF SubmitTask
  <2>3. ASSUME RestoreQuery \/ RestoreDone \/ GetUpdated \/ GetFails \/ FailureReplied
                 \/ SubmitReturned
        PROVE  Goal
    BY <1>1, <2>3 DEF RestoreQuery, RestoreDone, GetUpdated, GetFails, FailureReplied, SubmitReturned
  <2> QED BY <1>2, <2>1, <2>2, <2>3 DEF ListenerStep
<1>3. CASE Command
  <2>1. UNCHANGED <<execVars, loop>>
    BY <1>3 DEF Command, Subscribe, Suspend, Resume, DeleteSub, Clear
  <2> QED BY <1>1, <2>1
<1>4. CASE ExecSubmitStep
  BY <1>4 DEF ExecSubmitStep
<1>5. ASSUME NEW f \in Feeds, ExecExitStep(f) PROVE Goal
  BY <1>5 DEF ExecExitStep
<1>6. ASSUME NEW f \in Feeds, TaskStep(f) PROVE Goal
  <2>1. loop[f] \in [pc : LoopPCs, header : Headers \cup {NoHeader}, data : Data,
                     seen : 0..MaxItems, sent : BOOLEAN]
    BY DEF TypeOK
  <2>2. ASSUME ShiftFails(f) \/ DeadlineMissed(f) \/ Interrupted(f) PROVE Goal
    BY <2>2 DEF ShiftFails, DeadlineMissed, RefreshAborted, Interrupted, ReturnTask, LoopReturns, At
  <2>3. ASSUME NEW r, loop' = [loop EXCEPT ![f] = r], r.pc # "none", ~At(f, "none"),
               UNCHANGED execVars
        PROVE  Outside
    BY <2>3 DEF Outside, At, TypeOK
  <2>4. ASSUME NEW pc, pc # "none", Goto(f, pc), ~At(f, "none"), UNCHANGED execVars
        PROVE  Outside
    <3>1. [loop[f] EXCEPT !.pc = pc].pc = pc BY <2>1
    <3> QED BY <2>3, <2>4, <3>1 DEF Goto
  <2>5. ASSUME Shift(f) PROVE Goal
    <3>1. PICK h \in Shiftable(f) :
            loop' = [loop EXCEPT ![f] =
                       [NoLoop EXCEPT !.pc = "start", !.header = h, !.data = rows[h].data]]
      BY <2>5 DEF Shift
    <3>2. [NoLoop EXCEPT !.pc = "start", !.header = h, !.data = rows[h].data].pc = "start"
      BY DEF NoLoop
    <3> QED BY <2>3, <2>5, <3>1, <3>2 DEF Shift, At
  <2>6. ASSUME Sleep(f) PROVE Goal
    <3>1. Begin.pc = "shift" BY DEF Begin, NoLoop
    <3> QED BY <2>3, <2>6, <3>1 DEF Sleep, At
  <2>7. ASSUME RefreshStart(f) PROVE Goal
    <3> DEFINE r == [loop[f] EXCEPT !.pc = "refresh", !.seen = published[loop[f].header]]
    <3>1. r.pc = "refresh" BY <2>1
    <3>2. loop' = [loop EXCEPT ![f] = r] BY <2>7 DEF RefreshStart
    <3> HIDE DEF r
    <3> QED BY <2>3, <2>7, <3>1, <3>2 DEF RefreshStart, At
  <2>8. ASSUME Persist(f) PROVE Goal
    <3> DEFINE r == [loop[f] EXCEPT !.pc = "refresh", !.data = Next1(f), !.sent = TRUE]
    <3>1. r.pc = "refresh" BY <2>1
    <3>2. loop' = [loop EXCEPT ![f] = r] BY <2>8 DEF Persist
    <3> HIDE DEF r
    <3> QED BY <2>3, <2>8, <3>1, <3>2 DEF Persist, At
  <2>9. ASSUME RefreshHangs(f) \/ Deliver(f) \/ DeliverFails(f) \/ VendorFails(f) PROVE Goal
    BY <2>4, <2>9 DEF RefreshHangs, Deliver, DeliverFails, VendorFails, HasNext, At
  <2>10. ASSUME WriteMisses(f) \/ Touch(f) \/ SuspendFailed(f) \/ SuspendMisses(f) PROVE Goal
    BY <2>4, <2>10 DEF WriteMisses, Touch, SuspendFailed, SuspendMisses, At
  <2>11. ASSUME RefreshEnd(f) PROVE Goal
    BY <2>4, <2>11 DEF RefreshEnd, At
  <2> QED BY <1>6, <2>2, <2>5, <2>6, <2>7, <2>8, <2>9, <2>10, <2>11 DEF TaskStep
<1>7. ASSUME NEW h \in Headers, Publish(h) PROVE Goal
  BY <1>1, <1>7 DEF Publish
<1>8. CASE CloseBegin \/ CloseEnd
  BY <1>8 DEF CloseBegin, CloseEnd
<1>9. CASE UNCHANGED vars
  BY <1>1, <1>9 DEF vars
<1> QED BY <1>2, <1>3, <1>4, <1>5, <1>6, <1>7, <1>8, <1>9 DEF Next

-----------------------------------------------------------------------------
(* Types.  What a row holds stays within the bounds because an offset is   *)
(* stored only after its item was sent (IInv).                             *)

LEMMA TouchedType ==
  ASSUME age \in [Headers -> Int], NEW h \in Headers
  PROVE  Touched(h) \in [Headers -> Int]
BY DEF Touched, Never

LEMMA DroppedType ==
  ASSUME age \in [Headers -> Int], NEW S \in SUBSET Headers
  PROVE  Dropped(S) \in [Headers -> Int]
<1> SUFFICES ASSUME NEW g \in Headers
             PROVE  Cardinality({d \in S : age[d] # Never /\ age[d] < age[g]}) \in Int
  BY DEF Dropped, Never
<1>1. {d \in S : age[d] # Never /\ age[d] < age[g]} \subseteq Headers OBVIOUS
<1> QED BY <1>1, HeadersAssumption, FS_Subset, FS_CardinalityType

\* What a task stores and what a Subscribe begins with are values of the column.
LEMMA StoredData ==
  ASSUME IInv, TypeOK
  PROVE  /\ \A f \in Feeds : At(f, "persist") => loop[f].header \in Headers /\ Next1(f) \in Data
         /\ \A h \in Headers :
              births[h] < MaxBirths => [born |-> births[h] + 1, off |-> 0] \in Data
<1>1. ASSUME NEW f \in Feeds, At(f, "persist")
      PROVE  loop[f].header \in Headers /\ Next1(f) \in DataOf(MaxBirths, MaxItems)
  <2>0. PICK h, d : h = loop[f].header /\ d = loop[f].data OBVIOUS
  <2>1. h \in Headers /\ d \in Datum /\ <<d.born, d.off + 1>> \in delivered[h]
    BY <1>1, <2>0 DEF At, IInv, LoopsFit, Fits, Working, Agrees
  <2>2. <<d.born, d.off + 1>> \in (0..MaxBirths) \X (1..MaxItems)
    BY <2>1 DEF TypeOK
  <2>3. d.born \in 0..MaxBirths /\ d.off + 1 \in 0..MaxItems
    BY <2>1, <2>2 DEF Datum
  <2>4. [d EXCEPT !.off = @ + 1] = [born |-> d.born, off |-> d.off + 1]
    BY <2>1 DEF Datum
  <2> QED BY <2>0, <2>1, <2>3, <2>4 DEF Next1, DataOf
<1>2. ASSUME NEW h \in Headers, births[h] < MaxBirths
      PROVE  [born |-> births[h] + 1, off |-> 0] \in DataOf(MaxBirths, MaxItems)
  BY <1>2, PollerAssumption DEF TypeOK, DataOf
<1> QED BY <1>1, <1>2, DataAssumption

\* Every step is one statement on the table at most.
LEMMA Statement ==
  ASSUME IInv, TypeOK, [Next]_vars
  PROVE  \/ UNCHANGED tableVars
         \/ \E h \in Headers, s \in {"active", "deadborn"}, d \in Data : Create(h, s, d)
         \/ \E h \in Headers, d \in Data : WriteData(h, d)
         \/ \E h \in Headers, e \in Errors :
              WriteError(h, e) /\ ("suspend" \in Ops \/ \E f \in Feeds : At(f, "suspend"))
         \/ \E h \in Headers : ClearError(h) \/ (Delete(h) /\ "delete" \in Ops)
         \/ \E f \in Feeds, pattern \in SUBSET Errors : DeleteAll(f, pattern)
<1> DEFINE Goal ==
         \/ UNCHANGED tableVars
         \/ \E h \in Headers, s \in {"active", "deadborn"}, d \in Data : Create(h, s, d)
         \/ \E h \in Headers, d \in Data : WriteData(h, d)
         \/ \E h \in Headers, e \in Errors :
              WriteError(h, e) /\ ("suspend" \in Ops \/ \E f \in Feeds : At(f, "suspend"))
         \/ \E h \in Headers : ClearError(h) \/ (Delete(h) /\ "delete" \in Ops)
         \/ \E f \in Feeds, pattern \in SUBSET Errors : DeleteAll(f, pattern)
<1>1. CASE Command
  <2>1. ASSUME NEW h \in Headers, NEW s \in {"active", "deadborn"}, Subscribe(h, s) PROVE Goal
    BY <2>1, StoredData DEF Subscribe
  <2>2. ASSUME NEW h \in Headers, Suspend(h) \/ Resume(h) \/ DeleteSub(h) PROVE Goal
    BY <2>2 DEF Suspend, Resume, DeleteSub, Accepts, Errors
  <2>3. ASSUME NEW f \in Feeds, NEW pattern \in {Errors, {"failed"}}, Clear(f, pattern) PROVE Goal
    BY <2>3 DEF Clear, Errors
  <2> QED BY <1>1, <2>1, <2>2, <2>3 DEF Command
<1>2. ASSUME NEW f \in Feeds, TaskStep(f) PROVE Goal
  <2>1. loop[f].pc \in {"persist", "touch", "suspend"} => loop[f].header \in Headers
    BY DEF IInv, LoopsFit, Fits, Working
  <2>2. CASE Persist(f) BY <2>1, <2>2, StoredData DEF Persist, At
  <2>3. CASE Touch(f) BY <2>1, <2>3 DEF Touch, At, TypeOK
  <2>4. CASE SuspendFailed(f) BY <2>1, <2>4 DEF SuspendFailed, At, Errors
  <2>5. CASE ~(Persist(f) \/ Touch(f) \/ SuspendFailed(f))
    BY <1>2, <2>5 DEF TaskStep, Shift, ShiftFails, ReturnTask, RefreshStart, RefreshHangs, RefreshEnd,
       Deliver, DeliverFails, VendorFails, DeadlineMissed, RefreshAborted, WriteMisses,
       SuspendMisses, Sleep, Interrupted
  <2> QED BY <2>2, <2>3, <2>4, <2>5
<1>3. CASE ListenerStep \/ ExecSubmitStep \/ CloseBegin \/ CloseEnd \/ Crash
  BY <1>3 DEF ListenerStep, RestoreQuery, RestoreSubmit, RestoreDone, GetUpdated, GetFails,
     FailureReplied, SubmitTask, SubmitReturned, ExecSubmitStep, CloseBegin, CloseEnd, Crash
<1>4. CASE (\E f \in Feeds : ExecExitStep(f)) \/ \E h \in Headers : Publish(h)
  BY <1>4 DEF ExecExitStep, Publish
<1>5. CASE UNCHANGED vars BY <1>5 DEF vars, tableVars
<1> QED BY <1>1, <1>2, <1>3, <1>4, <1>5 DEF Next

LEMMA TableTypes == ASSUME IInv, TypeOK, [Next]_vars PROVE TableTypeOK'
<1> USE DEF TableTypeOK, Row
<1>0. /\ rows \in [Headers -> Row] /\ age \in [Headers -> Int]
      /\ Errors \subseteq Status /\ "active" \in Status /\ NoRow \in Row
  BY BlankAssumption DEF TypeOK, Status, NoRow
<1>1. CASE UNCHANGED tableVars BY <1>0, <1>1 DEF tableVars
<1>2. ASSUME NEW h \in Headers, NEW s \in {"active", "deadborn"}, NEW d \in Data, Create(h, s, d)
      PROVE  TableTypeOK'
  BY <1>0, <1>2 DEF Create, Errors
<1>3. ASSUME NEW h \in Headers, NEW r \in Row, rows' = [rows EXCEPT ![h] = r],
             age' = Touched(h) \/ age' = Dropped({h})
      PROVE  TableTypeOK'
  BY <1>0, <1>3, TouchedType, DroppedType
<1>4. ASSUME NEW h \in Headers, NEW d \in Data, WriteData(h, d) PROVE TableTypeOK'
  <2>1. [rows[h] EXCEPT !.data = d] \in Row BY <1>0
  <2> QED BY <1>3, <1>4, <2>1 DEF WriteData
<1>5. ASSUME NEW h \in Headers, NEW s \in Status, rows' = [rows EXCEPT ![h].status = s],
             age' = Touched(h)
      PROVE  TableTypeOK'
  <2>1. [rows[h] EXCEPT !.status = s] \in Row BY <1>0
  <2> QED BY <1>3, <1>5, <2>1
<1>6. ASSUME NEW h \in Headers, NEW e \in Errors, WriteError(h, e) PROVE TableTypeOK'
  BY <1>0, <1>5, <1>6 DEF WriteError
<1>7. ASSUME NEW h \in Headers, ClearError(h) \/ Delete(h) PROVE TableTypeOK'
  BY <1>0, <1>3, <1>5, <1>7 DEF ClearError, Delete
<1>8. ASSUME NEW f \in Feeds, NEW pattern \in SUBSET Errors, DeleteAll(f, pattern)
      PROVE  TableTypeOK'
  <2>1. PICK gone \in SUBSET Headers :
          /\ rows' = [h \in Headers |-> IF h \in gone THEN NoRow ELSE rows[h]]
          /\ age' = Dropped(gone)
    BY <1>8 DEF DeleteAll
  <2> QED BY <1>0, <2>1, DroppedType
<1> QED BY Statement, <1>1, <1>2, <1>4, <1>6, <1>7, <1>8

LoopType ==
  [pc : LoopPCs, header : Headers \cup {NoHeader}, data : Data, seen : 0..MaxItems, sent : BOOLEAN]

\* A loop that moves to place pc keeps the rest.
LEMMA GotoType ==
  ASSUME loop \in [Feeds -> LoopType], NEW f \in Feeds, NEW pc \in LoopPCs, Goto(f, pc)
  PROVE  loop' \in [Feeds -> LoopType]
<1>1. [loop[f] EXCEPT !.pc = pc] \in LoopType BY DEF LoopType
<1> QED BY <1>1 DEF Goto

LEMMA LoopTypes ==
  ASSUME IInv, TypeOK, [Next]_vars
  PROVE  loop' \in [Feeds -> LoopType]
<1>1. loop \in [Feeds -> LoopType] BY DEF TypeOK, LoopType
<1>0. 0 \in 0..MaxItems BY PollerAssumption
<1>2. NoLoop \in LoopType /\ Begin \in LoopType
  <2>1. NoLoop \in LoopType BY <1>0, BlankAssumption DEF LoopType, NoLoop, LoopPCs
  <2> QED BY <2>1 DEF Begin, LoopType, LoopPCs
<1>3. ASSUME NEW f \in Feeds, TaskStep(f) PROVE loop' \in [Feeds -> LoopType]
  <2>1. CASE Shift(f)
    <3>1. PICK h \in Shiftable(f) :
            loop' = [loop EXCEPT ![f] =
                       [NoLoop EXCEPT !.pc = "start", !.header = h, !.data = rows[h].data]]
      BY <2>1 DEF Shift
    <3>2. h \in Headers /\ rows[h].data \in Data
      BY DEF Shiftable, ActiveIn, TypeOK, TableTypeOK, Row
    <3>3. [NoLoop EXCEPT !.pc = "start", !.header = h, !.data = rows[h].data] \in LoopType
      BY <1>2, <3>2 DEF LoopType, LoopPCs
    <3> QED BY <1>1, <3>1, <3>3
  <2>2. CASE RefreshStart(f)
    <3>1. loop[f].header \in Headers
      BY <2>2 DEF RefreshStart, At, IInv, LoopsFit, Fits, Working
    <3>2. [loop[f] EXCEPT !.pc = "refresh", !.seen = published[loop[f].header]] \in LoopType
      BY <1>1, <3>1 DEF LoopType, LoopPCs, TypeOK
    <3> QED BY <1>1, <2>2, <3>2 DEF RefreshStart
  <2>3. CASE Persist(f)
    <3>1. Next1(f) \in Data BY <2>3, StoredData DEF Persist
    <3>2. [loop[f] EXCEPT !.pc = "refresh", !.data = Next1(f), !.sent = TRUE] \in LoopType
      BY <1>1, <3>1 DEF LoopType, LoopPCs
    <3> QED BY <1>1, <2>3, <3>2 DEF Persist
  <2>4. CASE ShiftFails(f) \/ RefreshAborted(f) \/ Interrupted(f) \/ Sleep(f)
    BY <1>1, <1>2, <2>4 DEF ShiftFails, RefreshAborted, Interrupted, ReturnTask, Sleep
  <2>5. CASE RefreshHangs(f) \/ RefreshEnd(f) \/ Deliver(f) \/ DeliverFails(f) \/ VendorFails(f)
             \/ WriteMisses(f) \/ Touch(f) \/ SuspendFailed(f) \/ SuspendMisses(f)
    <3>1. \E pc \in LoopPCs : Goto(f, pc)
      BY <2>5 DEF RefreshHangs, RefreshEnd, Deliver, DeliverFails, VendorFails,
         WriteMisses, Touch, SuspendFailed, SuspendMisses, LoopPCs
    <3> QED BY <1>1, <3>1, GotoType
  <2> QED BY <1>3, <2>1, <2>2, <2>3, <2>4, <2>5 DEF TaskStep, DeadlineMissed
<1>4. CASE ExecSubmitStep
  BY <1>1, <1>2, <1>4 DEF ExecSubmitStep
<1>5. CASE Crash BY <1>2, <1>5 DEF Crash
<1>6. CASE ListenerStep \/ CloseBegin \/ CloseEnd
  BY <1>1, <1>6 DEF ListenerStep, RestoreQuery, RestoreSubmit, RestoreDone, GetUpdated, GetFails,
     FailureReplied, SubmitTask, SubmitReturned, CloseBegin, CloseEnd
<1>7. CASE Command \/ (\E f \in Feeds : ExecExitStep(f)) \/ \E h \in Headers : Publish(h)
  BY <1>1, <1>7 DEF Command, Subscribe, Suspend, Resume, DeleteSub, Clear, ExecExitStep, Publish
<1>8. CASE UNCHANGED vars BY <1>1, <1>8 DEF vars
<1> QED BY <1>3, <1>4, <1>5, <1>6, <1>7, <1>8 DEF Next

ListenerType ==
  [step : ListenerSteps, op : Ops \cup {"none"}, header : Headers \cup {NoHeader},
   was : Status, todo : SUBSET Feeds]

LEMMA ListenerTypes ==
  ASSUME TypeOK, ListenerHasHeader, [Next]_vars
  PROVE  listener' \in ListenerType /\ ListenerHasHeader'
<1> DEFINE Goal == listener' \in ListenerType /\ ListenerHasHeader'
<1>1. listener \in ListenerType BY DEF TypeOK, ListenerType
<1>2. Listening \in ListenerType /\ Booting \in ListenerType
      /\ Listening.step = "idle" /\ Booting.step = "boot"
  BY DEF ListenerType, Listening, Booting, ListenerSteps, Status, NoHeader
<1>3. ASSUME UNCHANGED listener PROVE Goal BY <1>1, <1>3 DEF ListenerHasHeader
<1>4. ASSUME listener' = Listening \/ listener' = Booting PROVE Goal
  BY <1>2, <1>4 DEF ListenerHasHeader
<1>5. ASSUME NEW s \in ListenerSteps, listener' = [listener EXCEPT !.step = s],
             s = "submit" => listener.step = "get", s # "get"
      PROVE  Goal
  <2>1. [listener EXCEPT !.step = s] \in ListenerType BY <1>1 DEF ListenerType
  <2>2. listener'.step = s /\ listener'.header = listener.header BY <1>1, <1>5 DEF ListenerType
  <2> QED BY <1>5, <2>1, <2>2 DEF ListenerHasHeader
<1>6. ASSUME NEW s \in {"restore"}, NEW todo \in SUBSET Feeds,
             listener' = [listener EXCEPT !.step = s, !.todo = todo]
      PROVE  Goal
  <2>1. [listener EXCEPT !.step = s, !.todo = todo] \in ListenerType
    BY <1>1 DEF ListenerType, ListenerSteps
  <2>2. listener'.step = s BY <1>1, <1>6 DEF ListenerType
  <2> QED BY <1>6, <2>1, <2>2 DEF ListenerHasHeader
<1>7. ASSUME NEW op \in Ops, NEW h \in Headers, NEW step \in {"get", "submit"}, Runs(op, h, step)
      PROVE  Goal
  <2>1. rows[h].status \in Status BY DEF TypeOK, TableTypeOK, Row
  <2>2. PICK was \in Status :
          listener' = [Listening EXCEPT !.step = step, !.op = op, !.header = h, !.was = was]
    BY <1>7, <2>1 DEF Runs
  <2>3. [Listening EXCEPT !.step = step, !.op = op, !.header = h, !.was = was] \in ListenerType
    BY DEF ListenerType, Listening, ListenerSteps
  <2>4. listener'.header = h BY <2>2 DEF Listening
  <2> QED BY <2>2, <2>3, <2>4 DEF ListenerHasHeader
<1>8. CASE ListenerStep
  <2>1. CASE RestoreQuery
    <3>1. ActiveFeedIDs \in SUBSET Feeds BY DEF ActiveFeedIDs
    <3> QED BY <1>6, <2>1, <3>1 DEF RestoreQuery
  <2>2. CASE RestoreSubmit
    <3>1. PICK f \in listener.todo : listener' = [listener EXCEPT !.todo = @ \ {f}]
      BY <2>2 DEF RestoreSubmit
    <3> DEFINE todo == listener.todo \ {f}
    <3>2. todo \in SUBSET Feeds BY <1>1 DEF ListenerType
    <3>3. listener' = [listener EXCEPT !.step = "restore", !.todo = todo]
      BY <1>1, <2>2, <3>1 DEF RestoreSubmit, ListenerType
    <3> HIDE DEF todo
    <3> QED BY <1>6, <3>2, <3>3
  <2>3. CASE GetUpdated BY <1>4, <1>5, <2>3 DEF GetUpdated, ListenerSteps
  <2>4. CASE GetFails \/ SubmitTask BY <1>5, <2>4 DEF GetFails, SubmitTask, ListenerSteps
  <2>5. CASE RestoreDone \/ FailureReplied \/ SubmitReturned
    BY <1>4, <2>5 DEF RestoreDone, FailureReplied, SubmitReturned
  <2> QED BY <1>8, <2>1, <2>2, <2>3, <2>4, <2>5 DEF ListenerStep
<1>9. CASE Command
  <2>1. ASSUME NEW h \in Headers, NEW s \in {"active", "deadborn"}, Subscribe(h, s) PROVE Goal
    BY <1>3, <1>7, <2>1 DEF Subscribe, Accepts
  <2>2. ASSUME NEW h \in Headers, Suspend(h) \/ Resume(h) PROVE Goal
    BY <1>7, <2>2 DEF Suspend, Resume, Accepts
  <2>3. ASSUME UNCHANGED listener PROVE Goal BY <1>3, <2>3
  <2> QED BY <1>9, <2>1, <2>2, <2>3 DEF Command, DeleteSub, Clear
<1>10. CASE Crash BY <1>4, <1>10 DEF Crash
<1>11. CASE \/ ExecSubmitStep \/ CloseBegin \/ CloseEnd \/ UNCHANGED vars
            \/ \E f \in Feeds : ExecExitStep(f)
            \/ \E h \in Headers : Publish(h)
  BY <1>3, <1>11 DEF ExecSubmitStep, CloseBegin, CloseEnd, vars, ExecExitStep, Publish
<1>12. ASSUME NEW f \in Feeds, TaskStep(f) PROVE UNCHANGED listener
  BY <1>12 DEF TaskStep, Shift, ShiftFails, ReturnTask, RefreshStart, RefreshHangs, RefreshEnd,
     Deliver, DeliverFails, VendorFails, DeadlineMissed, RefreshAborted, Persist, WriteMisses,
     Touch, SuspendFailed, SuspendMisses, Sleep, Interrupted
<1> QED BY <1>3, <1>8, <1>9, <1>10, <1>11, <1>12 DEF Next

LEMMA SourceTypes ==
  ASSUME IInv, TypeOK, IInv', [Next]_vars
  PROVE  /\ published' \in [Headers -> 0..MaxItems]
         /\ delivered' \in [Headers -> SUBSET ((0..MaxBirths) \X (1..MaxItems))]
         /\ births' \in [Headers -> 0..MaxBirths]
         /\ late' \in [Headers -> 0..2]
         /\ crashes' \in 0..MaxCrashes
<1>1. late' \in [Headers -> 0..2] BY DEF IInv, Types
<1>2. /\ published \in [Headers -> 0..MaxItems] /\ births \in [Headers -> 0..MaxBirths]
      /\ delivered \in [Headers -> SUBSET ((0..MaxBirths) \X (1..MaxItems))]
      /\ crashes \in 0..MaxCrashes
  BY DEF TypeOK
<1>3. \/ UNCHANGED published
      \/ \E h \in Headers :
           published[h] < MaxItems /\ published' = [published EXCEPT ![h] = @ + 1]
  <2>1. ASSUME NEW f \in Feeds, TaskStep(f) PROVE UNCHANGED published
    BY <2>1 DEF TaskStep, Shift, ShiftFails, ReturnTask, RefreshStart, RefreshHangs, RefreshEnd,
       Deliver, DeliverFails, VendorFails, DeadlineMissed, RefreshAborted, Persist, WriteMisses,
       Touch, SuspendFailed, SuspendMisses, Sleep, Interrupted, sourceVars
  <2>2. ASSUME ListenerStep \/ ExecSubmitStep \/ CloseBegin \/ CloseEnd \/ Crash \/ UNCHANGED vars
        PROVE  UNCHANGED published
    BY <2>2 DEF ListenerStep, RestoreQuery, RestoreSubmit, RestoreDone, GetUpdated, GetFails,
       FailureReplied, SubmitTask, SubmitReturned, ExecSubmitStep, CloseBegin, CloseEnd, Crash,
       vars, sourceVars
  <2>3. ASSUME Command \/ \E f \in Feeds : ExecExitStep(f) PROVE UNCHANGED published
    BY <2>3 DEF Command, Subscribe, Suspend, Resume, DeleteSub, Clear, ExecExitStep, sourceVars
  <2> QED BY <2>1, <2>2, <2>3 DEF Next, Publish
<1>4. \/ UNCHANGED births
      \/ \E h \in Headers : births[h] < MaxBirths /\ births' = [births EXCEPT ![h] = @ + 1]
  <2>1. ASSUME NEW f \in Feeds, TaskStep(f) PROVE UNCHANGED births
    BY <2>1 DEF TaskStep, Shift, ShiftFails, ReturnTask, RefreshStart, RefreshHangs, RefreshEnd,
       Deliver, DeliverFails, VendorFails, DeadlineMissed, RefreshAborted, Persist, WriteMisses,
       Touch, SuspendFailed, SuspendMisses, Sleep, Interrupted, sourceVars
  <2>2. ASSUME ListenerStep \/ ExecSubmitStep \/ CloseBegin \/ CloseEnd \/ Crash \/ UNCHANGED vars
        PROVE  UNCHANGED births
    BY <2>2 DEF ListenerStep, RestoreQuery, RestoreSubmit, RestoreDone, GetUpdated, GetFails,
       FailureReplied, SubmitTask, SubmitReturned, ExecSubmitStep, CloseBegin, CloseEnd, Crash,
       vars, sourceVars
  <2>3. ASSUME \/ \E f \in Feeds : ExecExitStep(f)
               \/ \E h \in Headers : Publish(h)
        PROVE UNCHANGED births
    BY <2>3 DEF ExecExitStep, Publish, sourceVars
  <2>4. ASSUME Command
        PROVE  \/ UNCHANGED births
               \/ \E h \in Headers : births[h] < MaxBirths /\ births' = [births EXCEPT ![h] = @ + 1]
    BY <2>4 DEF Command, Subscribe, Suspend, Resume, DeleteSub, Clear, sourceVars
  <2> QED BY <2>1, <2>2, <2>3, <2>4 DEF Next
<1>5. UNCHANGED delivered \/ \E f \in Feeds : HasNext(f) /\ Sent(f)
  <2>1. ASSUME NEW f \in Feeds, TaskStep(f) PROVE UNCHANGED delivered \/ (HasNext(f) /\ Sent(f))
    <3>1. CASE Deliver(f) \/ DeliverFails(f) \/ RefreshAborted(f)
      BY <3>1 DEF Deliver, DeliverFails, RefreshAborted
    <3>2. CASE ~(Deliver(f) \/ DeliverFails(f) \/ RefreshAborted(f))
      BY <2>1, <3>2 DEF TaskStep, Shift, ShiftFails, ReturnTask, RefreshStart, RefreshHangs,
         RefreshEnd, VendorFails, DeadlineMissed, Persist, WriteMisses, Touch, SuspendFailed,
         SuspendMisses, Sleep, Interrupted, sourceVars
    <3> QED BY <3>1, <3>2
  <2>2. ASSUME ListenerStep \/ ExecSubmitStep \/ CloseBegin \/ CloseEnd \/ Crash \/ UNCHANGED vars
        PROVE  UNCHANGED delivered
    BY <2>2 DEF ListenerStep, RestoreQuery, RestoreSubmit, RestoreDone, GetUpdated, GetFails,
       FailureReplied, SubmitTask, SubmitReturned, ExecSubmitStep, CloseBegin, CloseEnd, Crash,
       vars, sourceVars
  <2>3. ASSUME \/ Command \/ \E f \in Feeds : ExecExitStep(f)
               \/ \E h \in Headers : Publish(h)
        PROVE UNCHANGED delivered
    BY <2>3 DEF Command, Subscribe, Suspend, Resume, DeleteSub, Clear, ExecExitStep, Publish,
       sourceVars
  <2> QED BY <2>1, <2>2, <2>3 DEF Next
<1>6. published' \in [Headers -> 0..MaxItems] BY <1>2, <1>3, PollerAssumption
<1>7. births' \in [Headers -> 0..MaxBirths] BY <1>2, <1>4, PollerAssumption
<1>8. ASSUME NEW f \in Feeds, HasNext(f), Sent(f)
      PROVE  delivered' \in [Headers -> SUBSET ((0..MaxBirths) \X (1..MaxItems))]
  <2>0. PICK h, d : h = loop[f].header /\ d = loop[f].data OBVIOUS
  <2>1. h \in Headers /\ d \in Datum /\ d.born <= births[h]
    <3>1. h \in Headers /\ Agrees(h, d)
      BY <1>8, <2>0 DEF HasNext, At, IInv, LoopsFit, Fits, Working
    <3> QED BY <3>1 DEF Agrees
  <2>2. d.off < loop[f].seen /\ loop[f].seen \in 0..MaxItems
    BY <1>8, <2>0 DEF HasNext, TypeOK
  <2>3. births[h] \in 0..MaxBirths BY <1>2, <2>1
  <2>4. <<d.born, d.off + 1>> \in (0..MaxBirths) \X (1..MaxItems)
    BY <2>1, <2>2, <2>3, PollerAssumption DEF Datum
  <2>5. Next1(f).off = d.off + 1 BY <2>0, <2>1 DEF Next1, Datum
  <2>6. delivered' = [delivered EXCEPT ![h] = @ \cup {<<d.born, d.off + 1>>}]
    BY <1>8, <2>0, <2>5 DEF Sent
  <2> QED BY <1>2, <2>1, <2>4, <2>6
<1>9. crashes' \in 0..MaxCrashes
  <2>1. CASE Crash BY <1>2, <2>1, PollerAssumption DEF Crash
  <2>2. ASSUME NEW f \in Feeds, TaskStep(f) PROVE UNCHANGED crashes
    BY <2>2 DEF TaskStep, Shift, ShiftFails, ReturnTask, RefreshStart, RefreshHangs, RefreshEnd,
       Deliver, DeliverFails, VendorFails, DeadlineMissed, RefreshAborted, Persist, WriteMisses,
       Touch, SuspendFailed, SuspendMisses, Sleep, Interrupted
  <2>3. ASSUME ListenerStep \/ ExecSubmitStep \/ CloseBegin \/ CloseEnd \/ UNCHANGED vars
        PROVE  UNCHANGED crashes
    BY <2>3 DEF ListenerStep, RestoreQuery, RestoreSubmit, RestoreDone, GetUpdated, GetFails,
       FailureReplied, SubmitTask, SubmitReturned, ExecSubmitStep, CloseBegin, CloseEnd, vars
  <2>4. ASSUME \/ Command \/ \E f \in Feeds : ExecExitStep(f)
               \/ \E h \in Headers : Publish(h)
        PROVE UNCHANGED crashes
    BY <2>4 DEF Command, Subscribe, Suspend, Resume, DeleteSub, Clear, ExecExitStep, Publish
  <2> QED BY <1>2, <2>1, <2>2, <2>3, <2>4 DEF Next
<1> QED BY <1>1, <1>2, <1>5, <1>6, <1>7, <1>8, <1>9

-----------------------------------------------------------------------------
\* The steps of the executor keep what TaskExecutorProofs proves of it.
LEMMA ExecutorInductive ==
  ASSUME TypeOK, ListenerHasHeader, Executor!IInv, Executor!WorkCountsGoroutines, [Next]_vars
  PROVE  Executor!IInv' /\ Executor!WorkCountsGoroutines'
<1>1. [Executor!Next]_(Executor!execVars) \/ Crash
  BY ExecutorSteps, SameExecutor
     DEF Outside, execVars, LoopReturns, Executor!execVars, Executor!Next, Executor!SubmitStep
<1>2. ASSUME [Executor!Next]_(Executor!execVars)
      PROVE  Executor!IInv' /\ Executor!WorkCountsGoroutines'
  BY <1>2, ExecutorAssumption, Executor!InvariantInductive, Executor!CountInductive
     DEF Exec!Free, Executor!Free, Exec!Caller, Executor!Caller
<1>3. ASSUME Crash
      PROVE  Executor!IInv' /\ Executor!WorkCountsGoroutines'
  <2>1. submit' \in [pc : {"idle"}, key : Feeds]
    BY <1>3 DEF Crash, TypeOK, Exec!TypeOK
  <2>2. Executor!Init'
    BY <1>3, <2>1 DEF Crash, Executor!Init, Exec!Free, Executor!Free, Exec!NoGoroutine,
       Executor!NoGoroutine, Exec!Phase, Executor!Phase
  <2>3. Executor!Init' => Executor!IInv' /\ Executor!WorkCountsGoroutines'
    BY ExecutorAssumption, Executor!InitInvariant, Executor!CountInit, PTL
       DEF Exec!Free, Executor!Free, Exec!Caller, Executor!Caller
  <2> QED BY <2>2, <2>3
<1> QED BY <1>1, <1>2, <1>3

\* A loop begins with its goroutine, on which mutual exclusion keeps another from
\* starting, and ends with it.
LEMMA LoopsMatch ==
  ASSUME TypeOK, ListenerHasHeader, Executor!IInv, LoopsMatchGoroutines, [Next]_vars
  PROVE  LoopsMatchGoroutines'
<1> USE DEF LoopsMatchGoroutines, At
<1>0. /\ workers \in [Feeds -> [Executor!Phase -> Nat]] /\ submit.key \in Feeds
      /\ \A f \in Feeds : f \in DOMAIN loop
      /\ loop \in [Feeds -> [pc : LoopPCs, header : Headers \cup {NoHeader}, data : Data,
                             seen : 0..MaxItems, sent : BOOLEAN]]
  BY SameExecutor DEF TypeOK, Executor!TypeOK
<1>1. CASE Outside
  BY <1>1 DEF Outside, execVars
<1>2. ASSUME UNCHANGED loop, \A f \in Feeds : workers'[f]["running"] = workers[f]["running"]
      PROVE  LoopsMatchGoroutines'
  BY <1>2
<1>3. ASSUME UNCHANGED <<loop, workers>> PROVE LoopsMatchGoroutines'
  BY <1>3
<1>4. ASSUME NEW f \in Feeds, Executor!ExitStep(f)
      PROVE  \A g \in Feeds : workers'[g]["running"] = workers[g]["running"]
  <2>1. CASE Executor!ExitLock(f) \/ Executor!ExitDelete(f)
    <3>1. \E p, q \in Executor!Phase \ {"running"} : p # q /\ Executor!Move(f, p, q)
      BY <2>1 DEF Executor!ExitLock, Executor!ExitDelete, Executor!Phase
    <3>2. PICK p \in Executor!Phase \ {"running"} :
            \E q \in Executor!Phase \ {"running"} : p # q /\ Executor!Move(f, p, q)
      BY <3>1
    <3>3. PICK q \in Executor!Phase \ {"running"} : p # q /\ Executor!Move(f, p, q)
      BY <3>2
    <3>4. /\ \A r \in Executor!Phase \ {p, q} : workers'[f][r] = workers[f][r]
          /\ \A j \in Feeds \ {f} : workers'[j] = workers[j]
      BY <1>0, <3>3, ExecutorAssumption, Executor!MoveEffect
         DEF Exec!Free, Executor!Free, Exec!Caller, Executor!Caller
    <3> QED BY <3>3, <3>4 DEF Executor!Phase
  <2>2. CASE Executor!GoroutineEnd(f)
    <3>1. /\ \A r \in Executor!Phase \ {"draining"} : workers'[f][r] = workers[f][r]
          /\ \A j \in Feeds \ {f} : workers'[j] = workers[j]
      BY <1>0, <2>2, ExecutorAssumption, Executor!EndEffect
         DEF Exec!Free, Executor!Free, Exec!Caller, Executor!Caller
    <3> QED BY <3>1 DEF Executor!Phase
  <2> QED BY <1>4, <2>1, <2>2 DEF Executor!ExitStep
<1>5. ASSUME NEW f \in Feeds, Executor!SubmitCall(f) PROVE UNCHANGED workers
  BY <1>5 DEF Executor!SubmitCall
<1>6. ASSUME \/ Executor!SubmitLock \/ Executor!SubmitDrop \/ Executor!SubmitAdd
             \/ Executor!CloseCancel \/ Executor!CloseReturn
      PROVE  UNCHANGED workers
  BY <1>6 DEF Executor!SubmitLock, Executor!SubmitDrop, Executor!SubmitAdd,
              Executor!CloseCancel, Executor!CloseReturn
<1>7. CASE Executor!SubmitSpawn /\ loop' = [loop EXCEPT ![submit.key] = Begin]
  <2>1. submit.key \notin tasks /\ ~Executor!Adding(submit.key)
    BY <1>7 DEF Executor!SubmitSpawn, Executor!Adding
  <2>2. workers[submit.key]["running"] = 0
    BY <1>0, <2>1, ExecutorAssumption, Executor!LiveAtMostOne
       DEF Executor!IInv, Executor!KeysMatchGoroutines, Exec!Free, Executor!Free, Exec!Caller,
           Executor!Caller
  <2>3. /\ workers'[submit.key]["running"] = workers[submit.key]["running"] + 1
        /\ \A j \in Feeds \ {submit.key} : workers'[j] = workers[j]
    BY <1>0, <1>7, ExecutorAssumption, Executor!SpawnEffect
       DEF Exec!Free, Executor!Free, Exec!Caller, Executor!Caller
  <2>4. Begin.pc # "none" BY DEF Begin, NoLoop
  <2> QED BY <1>0, <1>7, <2>2, <2>3, <2>4
<1>8. ASSUME NEW f \in Feeds, LoopReturns(f) PROVE LoopsMatchGoroutines'
  <2>1. /\ workers'[f]["running"] = workers[f]["running"] - 1
        /\ \A j \in Feeds \ {f} : workers'[j] = workers[j]
    BY <1>0, <1>8, SameExecutor, ExecutorAssumption, Executor!MoveEffect
       DEF LoopReturns, Executor!TaskReturn, Executor!Phase, Exec!Free, Executor!Free,
           Exec!Caller, Executor!Caller
  <2>2. workers[f]["running"] = 1 BY <1>8 DEF LoopReturns
  <2>3. NoLoop.pc = "none" BY DEF NoLoop
  <2> QED BY <1>0, <1>8, <2>1, <2>2, <2>3 DEF LoopReturns
<1>9. CASE Crash
  BY <1>9 DEF Crash, Exec!NoGoroutine, Exec!Phase, NoLoop
<1> QED BY ExecutorSteps, SameExecutor, <1>1, <1>2, <1>3, <1>4, <1>5, <1>6, <1>7, <1>8, <1>9

-----------------------------------------------------------------------------
LEMMA ExecutorTypes == Executor!IInv /\ Executor!WorkCountsGoroutines => Executor!TypeOK
BY ExecutorAssumption, Executor!CountedTypes
   DEF Exec!Free, Executor!Free, Exec!Caller, Executor!Caller

WholeInv == IInv /\ TypeOK /\ ListenerHasHeader /\ ExecInv

LEMMA WholeInitially == Init => WholeInv
<1> SUFFICES ASSUME Init PROVE WholeInv OBVIOUS
<1>1. IInv BY Initially
<1>2. Executor!Init BY SameExecutor DEF Init
<1>3. Executor!IInv /\ Executor!WorkCountsGoroutines
  BY <1>2, ExecutorAssumption, Executor!InitInvariant, Executor!CountInit
     DEF Exec!Free, Executor!Free, Exec!Caller, Executor!Caller
<1>4. LoopsMatchGoroutines
  BY <1>2 DEF Init, LoopsMatchGoroutines, At, NoLoop, Executor!Init, Executor!NoGoroutine,
     Executor!Phase
<1>5. TypeOK
  <2>1. Exec!TypeOK BY <1>3, ExecutorTypes, SameExecutor
  <2>2. TableTypeOK
    BY BlankAssumption DEF Init, TableTypeOK, Row, NoRow, Status, Never
  <2>3. listener \in [step : ListenerSteps, op : Ops \cup {"none"},
                      header : Headers \cup {NoHeader}, was : Status, todo : SUBSET Feeds]
    BY DEF Init, Booting, Listening, ListenerSteps, Status
  <2>4. 0 \in 0..MaxItems /\ 0 \in 0..MaxBirths /\ 0 \in 0..MaxCrashes BY PollerAssumption
  <2>5. NoLoop \in [pc : LoopPCs, header : Headers \cup {NoHeader}, data : Data,
                    seen : 0..MaxItems, sent : BOOLEAN]
    BY <2>4, BlankAssumption DEF NoLoop, LoopPCs
  <2> QED BY <2>1, <2>2, <2>3, <2>4, <2>5 DEF Init, TypeOK
<1>6. ListenerHasHeader BY DEF Init, ListenerHasHeader, Booting, Listening
<1> QED BY <1>1, <1>3, <1>4, <1>5, <1>6 DEF WholeInv, ExecInv

LEMMA WholeInductive == WholeInv /\ [Next]_vars => WholeInv'
<1> SUFFICES ASSUME WholeInv, [Next]_vars PROVE WholeInv' OBVIOUS
<1> USE DEF WholeInv, ExecInv
<1>1. IInv' BY Step
<1>2. Executor!IInv' /\ Executor!WorkCountsGoroutines' BY ExecutorInductive
<1>3. LoopsMatchGoroutines' BY LoopsMatch
<1>4. TypeOK'
  <2>1. Exec!TypeOK'
    <3>1. Executor!TypeOK' BY <1>2, ExecutorTypes, PTL
    <3>2. Exec!TypeOK' <=> Executor!TypeOK' BY SameExecutor, PTL
    <3> QED BY <3>1, <3>2
  <2>2. listener' \in ListenerType BY ListenerTypes
  <2>3. loop' \in [Feeds -> LoopType] BY LoopTypes
  <2> QED BY <2>1, <2>2, <2>3, <1>1, TableTypes, SourceTypes DEF TypeOK, ListenerType, LoopType
<1>5. ListenerHasHeader' BY ListenerTypes
<1> QED BY <1>1, <1>2, <1>3, <1>4, <1>5

LEMMA WholeHolds == Spec => []WholeInv
BY WholeInitially, WholeInductive, PTL DEF Spec

\* Every value stays within its type, for all bounds: an offset never exceeds what
\* the source has published, nor the data of a row what the column can hold.
THEOREM Typed == Spec => []TypeOK
BY WholeHolds, PTL DEF WholeInv

\* At most one goroutine polls a feed, and it is the one whose loop the poller runs; when
\* Close has returned no loop is left (core/task.go 54-85 under impl.go 214-261).
OneLoopPerFeed ==
  \A f \in Feeds :
    /\ workers[f]["running"] = IF At(f, "none") THEN 0 ELSE 1
    /\ closed => At(f, "none")

\* This holds whatever commands, failures and stops of the process fall between the
\* executor's steps.
THEOREM OneLoop == Spec => []OneLoopPerFeed
<1>1. WholeInv => OneLoopPerFeed
  <2> SUFFICES ASSUME WholeInv, NEW f \in Feeds
               PROVE  /\ workers[f]["running"] = IF At(f, "none") THEN 0 ELSE 1
                      /\ closed => At(f, "none")
    BY DEF OneLoopPerFeed
  <2>1. workers[f]["running"] = IF At(f, "none") THEN 0 ELSE 1
    BY DEF WholeInv, ExecInv, LoopsMatchGoroutines
  <2>2. ASSUME closed PROVE workers[f] = Executor!NoGoroutine
    <3>1. workers \in [Feeds -> [Executor!Phase -> Nat]] /\ Executor!Counted(workers, 0)
      BY <2>2 DEF WholeInv, ExecInv, Executor!IInv, Executor!Typed, Executor!WorkCountsGoroutines
    <3> QED BY <3>1, ExecutorAssumption, Executor!NoneCounted
            DEF Exec!Free, Executor!Free, Exec!Caller, Executor!Caller
  <2> QED BY <2>1, <2>2 DEF Executor!NoGoroutine, Executor!Phase
<1> QED BY <1>1, WholeHolds, PTL

-----------------------------------------------------------------------------
(* Feeds with active rows have a task, but for the ways NoOtherOrphans     *)
(* names.  What rows there are, and what is awaited, changes with every    *)
(* kind of step, so the steps are taken by what they do to the two: only   *)
(* the listener and Submit end a wait, and only a task's return ends a     *)
(* loop.                                                                   *)

\* Numbers have a least one in every set of them.
LEMMA LeastNumber ==
  ASSUME NEW T \in SUBSET Nat, T # {}
  PROVE  \E n \in T : \A m \in T : n <= m
<1>1. PICK n \in T : \A m \in T : ~(<<m, n>> \in OpToRel(<, Nat))
  BY NatLessThanWellFounded, WFMin
<1>2. \A m \in T : m < n => <<m, n>> \in OpToRel(<, Nat)
  BY DEF OpToRel
<1>3. \A m \in T : ~(m < n) BY <1>1, <1>2, Zenon
<1> QED BY <1>3

\* ShiftSubscription finds a row whenever the feed has an active one (sql.go 51-63):
\* among finitely many rows one was updated longest ago.
LEMMA OldestExists ==
  ASSUME age \in [Headers -> Int], NEW f \in Feeds, ActiveIn(f) # {}
  PROVE  Shiftable(f) # {}
<1> DEFINE Older(h) == {g \in ActiveIn(f) : age[g] > age[h]}
           Counts == {Cardinality(Older(h)) : h \in ActiveIn(f)}
<1>1. ActiveIn(f) \subseteq Headers BY DEF ActiveIn
<1>2. \A h \in ActiveIn(f) : IsFiniteSet(Older(h)) /\ Cardinality(Older(h)) \in Nat
  <2> TAKE h \in ActiveIn(f)
  <2>1. Older(h) \subseteq Headers BY <1>1
  <2> QED BY <2>1, HeadersAssumption, FS_Subset, FS_CardinalityType
<1>3. Counts \subseteq Nat /\ Counts # {} BY <1>2
<1>4. PICK n \in Counts : \A m \in Counts : n <= m BY <1>3, LeastNumber
<1>5. PICK h \in ActiveIn(f) : n = Cardinality(Older(h)) BY <1>4
<1>6. Older(h) = {}
  <2> SUFFICES ASSUME NEW g \in Older(h) PROVE FALSE OBVIOUS
  <2>1. g \in ActiveIn(f) /\ age[g] > age[h] OBVIOUS
  <2>2. Older(g) \subseteq Older(h) \ {g} BY <1>1, <2>1
  <2>3. /\ IsFiniteSet(Older(h) \ {g})
        /\ Cardinality(Older(h) \ {g}) = Cardinality(Older(h)) - 1
    BY <1>2, <1>5, FS_RemoveElement
  <2>4. Cardinality(Older(g)) <= Cardinality(Older(h) \ {g})
    BY <2>2, <2>3, FS_Subset
  <2>5. Cardinality(Older(g)) \in Counts BY <2>1
  <2> HIDE DEF Older, Counts
  <2> QED BY <1>2, <1>4, <1>5, <2>1, <2>3, <2>4, <2>5
<1>7. \A g \in ActiveIn(f) : age[g] <= age[h] BY <1>1, <1>6
<1> QED BY <1>7 DEF Shiftable

\* A row becomes active by Subscribe or Resume, which goes on to submit a task.
LEMMA NewActive ==
  ASSUME WholeInv, [Next]_vars, NEW h \in Headers, Active(h)', ~Active(h)
  PROVE  Awaited(FeedOf[h])'
<1>1. rows \in [Headers -> Row] BY DEF WholeInv, TypeOK, TableTypeOK
<1>2. ASSUME NEW g \in Headers, NEW op, NEW step, Runs(op, g, step)
      PROVE  listener'.step = step /\ listener'.header = g /\ listener'.op = op
  BY <1>2 DEF Runs, Listening
<1>3. ASSUME NEW g \in Headers, NEW s \in {"active", "deadborn"}, Subscribe(g, s)
      PROVE  Awaited(FeedOf[h])'
  <2>1. g = h /\ s = "active" BY <1>1, <1>3 DEF Subscribe, Create, Active
  <2> QED BY <1>2, <1>3, <2>1 DEF Subscribe, Awaited
<1>4. ASSUME NEW g \in Headers, Resume(g)
      PROVE  Awaited(FeedOf[h])'
  <2>1. g = h BY <1>1, <1>4 DEF Resume, ClearError, Active
  <2> QED BY <1>2, <1>4, <2>1 DEF Resume, Awaited
<1>5. ASSUME UNCHANGED rows PROVE FALSE BY <1>5 DEF Active
<1>6. ASSUME NEW g, NEW d, WriteData(g, d) PROVE FALSE
  <2>1. g \in Headers => rows'[g].status = rows[g].status BY <1>1, <1>6 DEF WriteData, Row
  <2> QED BY <1>1, <1>6, <2>1 DEF WriteData, Active
<1>7. ASSUME NEW g, NEW e \in Errors, WriteError(g, e) PROVE FALSE
  <2>1. g \in Headers => rows'[g].status = e BY <1>1, <1>7 DEF WriteError, Row
  <2> QED BY <1>1, <1>7, <2>1 DEF WriteError, Active, Errors
<1>8. ASSUME NEW g \in Headers, Suspend(g) \/ DeleteSub(g) PROVE FALSE
  BY <1>1, <1>7, <1>8 DEF Suspend, DeleteSub, Delete, Active, NoRow, Errors
<1>9. ASSUME NEW f \in Feeds, NEW pattern, Clear(f, pattern) PROVE FALSE
  BY <1>1, <1>9 DEF Clear, DeleteAll, Active, NoRow
<1>10. ASSUME NEW f \in Feeds, TaskStep(f) PROVE FALSE
  <2>1. CASE Persist(f) BY <1>6, <2>1 DEF Persist
  <2>2. CASE Touch(f) BY <1>6, <2>2 DEF Touch
  <2>3. CASE SuspendFailed(f) BY <1>7, <2>3 DEF SuspendFailed, Errors
  <2>4. CASE ~(Persist(f) \/ Touch(f) \/ SuspendFailed(f))
    BY <1>5, <1>10, <2>4 DEF TaskStep, Shift, ShiftFails, ReturnTask, RefreshStart, RefreshHangs,
       RefreshEnd, Deliver, DeliverFails, VendorFails, DeadlineMissed, RefreshAborted, WriteMisses,
       SuspendMisses, Sleep, Interrupted, tableVars
  <2> QED BY <2>1, <2>2, <2>3, <2>4
<1>11. ASSUME ListenerStep \/ ExecSubmitStep \/ CloseBegin \/ CloseEnd \/ Crash PROVE FALSE
  BY <1>5, <1>11 DEF ListenerStep, RestoreQuery, RestoreSubmit, RestoreDone, GetUpdated, GetFails,
     FailureReplied, SubmitTask, SubmitReturned, ExecSubmitStep, CloseBegin, CloseEnd, Crash,
     tableVars
<1>12. ASSUME \/ UNCHANGED vars \/ \E f \in Feeds : ExecExitStep(f)
              \/ \E g \in Headers : Publish(g)
       PROVE  FALSE
  BY <1>5, <1>12 DEF vars, ExecExitStep, Publish, tableVars
<1> QED BY <1>3, <1>4, <1>8, <1>9, <1>10, <1>11, <1>12 DEF Next, Command

\* Steps of others leave the listener and its call of Submit alone.
LEMMA Bystanders ==
  ASSUME \/ UNCHANGED vars \/ CloseEnd
         \/ \E f \in Feeds : TaskStep(f) \/ ExecExitStep(f)
         \/ \E h \in Headers : Publish(h)
  PROVE  UNCHANGED <<listener, submit>>
<1>1. CASE \E f \in Feeds : TaskStep(f)
  BY <1>1 DEF TaskStep, Shift, ShiftFails, ReturnTask, RefreshStart, RefreshHangs, RefreshEnd,
     Deliver, DeliverFails, VendorFails, DeadlineMissed, RefreshAborted, Persist, WriteMisses,
     Touch, SuspendFailed, SuspendMisses, Sleep, Interrupted, Exec!TaskReturn, execVars
<1>2. CASE \/ \E f \in Feeds : ExecExitStep(f)
           \/ \E h \in Headers : Publish(h)
  BY <1>2 DEF ExecExitStep, Exec!ExitStep, Exec!ExitLock, Exec!ExitDelete, Exec!GoroutineEnd,
     Publish, execVars
<1>3. CASE CloseEnd \/ UNCHANGED vars
  BY <1>3 DEF CloseEnd, Exec!CloseReturn, vars, execVars
<1> QED BY <1>1, <1>2, <1>3

\* A row that is active after a step and for which nobody waits was active before.
LEMMA WasActive ==
  ASSUME WholeInv, [Next]_vars, NEW f \in Feeds, ActiveIn(f)' # {}, ~Awaited(f)'
  PROVE  ActiveIn(f) # {}
<1>1. PICK h \in Headers : FeedOf[h] = f /\ Active(h)' BY DEF ActiveIn
<1>2. Active(h) BY <1>1, NewActive
<1> QED BY <1>1, <1>2 DEF ActiveIn

\* A loop that ends while its feed has an active row ends for a failure.
LEMMA LoopEnds ==
  ASSUME WholeInv, [Next]_vars, ~cancelled', NEW f \in Feeds, ActiveIn(f) # {},
         ~At(f, "none"), At(f, "none")', ~Crash
  PROVE  GivesUp(f)
<1>1. loop \in [Feeds -> LoopType] /\ submit.key \in Feeds
  BY SameExecutor DEF WholeInv, TypeOK, LoopType, Executor!TypeOK
<1>2. loop'[f] # loop[f] BY DEF At
<1>3. ~(Exec!SubmitSpawn /\ loop' = [loop EXCEPT ![submit.key] = Begin])
  BY <1>1, <1>2 DEF At, Begin, NoLoop
<1>4. PICK g \in Feeds : LoopReturns(g)
  BY <1>2, <1>3, ExecutorSteps DEF WholeInv, Outside
<1>5. g = f BY <1>1, <1>2, <1>4 DEF LoopReturns
<1>6. ~cancelled BY <1>4 DEF LoopReturns, Exec!TaskReturn
<1>7. Shiftable(f) # {} BY OldestExists DEF WholeInv, TypeOK, TableTypeOK
<1> QED BY <1>4, <1>5, <1>6, <1>7 DEF LoopReturns, GivesUp, ShiftFails, Interrupted

\* A wait that ends without a task ends by one of two races with the listener.
LEMMA WaitEnds ==
  ASSUME WholeInv, [Next]_vars, ~cancelled', NEW f \in Feeds, ActiveIn(f) # {},
         At(f, "none"), At(f, "none")', Awaited(f), ~Awaited(f)', ~Crash
  PROVE  LostWakeup(f) \/ ResumeCut(f)
<1>1. /\ listener \in ListenerType /\ loop \in [Feeds -> LoopType]
      /\ submit \in [pc : Executor!SubmitPC, key : Feeds]
  BY SameExecutor DEF WholeInv, TypeOK, ListenerType, LoopType, Executor!TypeOK
<1>2. ~UNCHANGED <<listener, submit>> BY DEF Awaited
<1>3. CASE ListenerStep
  <2>1. ~RestoreQuery
    <3> SUFFICES ASSUME RestoreQuery PROVE Awaited(f)' OBVIOUS
    <3>1. listener'.step = "restore" /\ listener'.todo = ActiveFeedIDs
      BY <1>1 DEF RestoreQuery, ListenerType
    <3> QED BY <3>1 DEF Awaited, ActiveFeedIDs
  <2>2. ~RestoreSubmit
    <3> SUFFICES ASSUME RestoreSubmit PROVE Awaited(f)' OBVIOUS
    <3>1. PICK g \in listener.todo :
            Exec!SubmitCall(g) /\ listener' = [listener EXCEPT !.todo = @ \ {g}]
      BY DEF RestoreSubmit
    <3>2. listener.step = "restore" /\ submit.pc = "idle" /\ submit' = [pc |-> "waiting", key |-> g]
      BY <3>1 DEF RestoreSubmit, Exec!SubmitCall
    <3>3. listener'.step = "restore" /\ listener'.todo = listener.todo \ {g}
      BY <1>1, <3>1, <3>2 DEF ListenerType
    <3> QED BY <3>2, <3>3 DEF Awaited
  <2>3. ~GetUpdated
    <3> SUFFICES ASSUME GetUpdated PROVE Awaited(f)' OBVIOUS
    <3>1. listener.step = "get" /\ submit' = submit BY DEF GetUpdated, execVars
    <3>2. CASE listener.op = "resume"
      <4>1. listener'.step = "submit" /\ listener'.header = listener.header
        BY <1>1, <3>2 DEF GetUpdated, ListenerType
      <4> QED BY <3>1, <4>1 DEF Awaited
    <3>3. CASE listener.op # "resume" BY <3>1, <3>3 DEF Awaited
    <3> QED BY <3>2, <3>3
  <2>4. ~SubmitTask
    <3> SUFFICES ASSUME SubmitTask PROVE Awaited(f)' OBVIOUS
    <3>1. /\ listener.step = "submit" /\ submit.pc = "idle"
          /\ submit' = [pc |-> "waiting", key |-> FeedOf[listener.header]]
      BY DEF SubmitTask, Exec!SubmitCall
    <3> QED BY <3>1 DEF Awaited
  <2>5. ~RestoreDone /\ ~SubmitReturned
    BY DEF RestoreDone, SubmitReturned, Awaited
  <2>6. ~FailureReplied BY DEF FailureReplied, Awaited, execVars
  <2>7. GetFails => ResumeCut(f)
    <3> SUFFICES ASSUME GetFails PROVE ResumeCut(f) OBVIOUS
    <3>1. listener.step = "get" /\ submit' = submit BY DEF GetFails, execVars
    <3> QED BY <3>1 DEF ResumeCut, Awaited
  <2> QED BY <1>3, <2>1, <2>2, <2>3, <2>4, <2>5, <2>6, <2>7 DEF ListenerStep
<1>4. ~Command
  <2> SUFFICES ASSUME Command PROVE Awaited(f)' OBVIOUS
  <2>1. listener.step = "idle" /\ submit' = submit
    BY DEF Command, Subscribe, Suspend, Resume, DeleteSub, Clear, Accepts, execVars
  <2> QED BY <2>1 DEF Awaited
<1>5. CASE ExecSubmitStep
  <2>1. UNCHANGED listener BY <1>5 DEF ExecSubmitStep
  <2>2. submit.pc \in {"waiting", "locked"} /\ submit.key = f BY <2>1 DEF Awaited
  <2>3. ~Exec!SubmitLock
    <3> SUFFICES ASSUME Exec!SubmitLock PROVE Awaited(f)' OBVIOUS
    <3>1. submit'.pc = "locked" /\ submit'.key = submit.key BY <1>1 DEF Exec!SubmitLock
    <3> QED BY <2>2, <3>1 DEF Awaited
  <2>4. ASSUME Exec!SubmitDrop PROVE LostWakeup(f)
    <3>1. f \in tasks /\ ~Executor!Adding(f) BY <2>2, <2>4 DEF Exec!SubmitDrop, Executor!Adding
    <3>2. Executor!Live(f) = 1
      BY <3>1 DEF WholeInv, ExecInv, Executor!IInv, Executor!KeysMatchGoroutines
    <3>3. workers[f]["running"] = 0 BY DEF WholeInv, ExecInv, LoopsMatchGoroutines
    <3>4. workers[f]["leaving"] \in Nat /\ workers[f]["locked"] \in Nat
      BY DEF WholeInv, ExecInv, Executor!IInv, Executor!Typed, Executor!Phase
    <3>5. workers[f]["leaving"] + workers[f]["locked"] = 1
      BY <3>2, <3>3, <3>4 DEF Executor!Live
    <3> QED BY <2>2, <2>4, <3>5 DEF LostWakeup
  <2>5. ~(Exec!SubmitSpawn /\ loop' = [loop EXCEPT ![submit.key] = Begin])
    BY <1>1, <2>2 DEF At, Begin, NoLoop
  <2>6. ~Exec!SubmitAdd BY <2>2 DEF Exec!SubmitAdd
  <2> QED BY <1>5, <2>3, <2>4, <2>5, <2>6 DEF ExecSubmitStep
<1>6. ~CloseBegin BY DEF CloseBegin, Exec!CloseCancel
<1> QED BY Bystanders, <1>2, <1>3, <1>4, <1>5, <1>6 DEF Next

\* A feed with an active row keeps its task, or a call of Submit that is due, through
\* every interleaving of commands, restoring, refreshes, failures and stops of the
\* process, but for three: Submit meets the key of a goroutine that has left its loop
\* (MCPollerLostWakeup), the task returns for a failure it only logs, and Resume fails
\* after its write (poller/impl.go 54-67, 147-230; core/task.go 54-79).
THEOREM OrphansAreKnown == Spec => NoOtherOrphans
<1>1. WholeInv /\ [Next]_vars =>
        [\A f \in Feeds : Orphaned(f)' /\ ~Orphaned(f) /\ ~cancelled'
                           => LostWakeup(f) \/ GivesUp(f) \/ ResumeCut(f)]_vars
  <2> SUFFICES ASSUME WholeInv, [Next]_vars, NEW f \in Feeds,
                      Orphaned(f)', ~Orphaned(f), ~cancelled'
               PROVE  LostWakeup(f) \/ GivesUp(f) \/ ResumeCut(f)
    OBVIOUS
  <2>1. ActiveIn(f)' # {} /\ At(f, "none")' /\ ~Awaited(f)' BY DEF Orphaned
  <2>2. ActiveIn(f) # {} BY <2>1, WasActive
  <2>3. ~At(f, "none") \/ Awaited(f) BY <2>2 DEF Orphaned
  <2>4. ~Crash
    <3> SUFFICES ASSUME Crash PROVE Awaited(f)' BY <2>1
    <3> QED BY DEF Crash, Booting, Listening, Awaited
  <2> QED BY <2>1, <2>2, <2>3, <2>4, LoopEnds, WaitEnds
<1> QED BY <1>1, WholeHolds, PTL DEF Spec, NoOtherOrphans
=============================================================================
