----------------------------- MODULE FeedTable -----------------------------
(***************************************************************************)
(* The table "feed" and the statements core/internal/storage/sql.go runs   *)
(* on it.  Every operator that changes the table is one SQL statement and  *)
(* is atomic.  SQL.Tx opens a transaction but hands its body a handle on   *)
(* the database itself (sql.go 88-90), so the statements of a "Tx" body    *)
(* are separate steps here, and nothing undoes the first when the second   *)
(* fails.                                                                  *)
(***************************************************************************)
EXTENDS Integers, FiniteSets

CONSTANTS
  Headers,   \* primary keys: sub ID, vendor, feed ID
  Feeds,     \* feed IDs (chats)
  FeedOf,    \* the feed ID of a header
  Data,      \* the values of the column "data"
  Blank      \* the member of Data that stands for no data

ASSUME FeedOfAssumption == FeedOf \in [Headers -> Feeds]
ASSUME BlankAssumption == Blank \in Data
ASSUME HeadersAssumption == IsFiniteSet(Headers)

VARIABLES
  rows,   \* the row of each header: its status and its data
  age     \* the column "updated_at", as a rank: 0 for the last update

tableVars == <<rows, age>>

-----------------------------------------------------------------------------
\* The column "error" is null in an active row.  The other statuses stand for
\* the texts the program writes there: the deadborn option, the suspension by
\* the user and the error of a refresh.
Errors == {"deadborn", "byUser", "failed"}

Status == {"absent", "active"} \cup Errors

Row == [status : Status, data : Data]

NoRow == [status |-> "absent", data |-> Blank]

Never == -1   \* updated_at is null

Exists(h) == rows[h].status # "absent"

Active(h) == rows[h].status = "active"

Suspended(h) == rows[h].status \in Errors

ActiveIn(f) == {h \in Headers : FeedOf[h] = f /\ Active(h)}

\* updated_at after h is updated now.
Touched(h) ==
  [g \in Headers |->
     IF g = h THEN 0
     ELSE IF age[g] # Never /\ (age[h] = Never \/ age[g] < age[h]) THEN age[g] + 1
     ELSE age[g]]

\* updated_at after the rows of S are gone.
Dropped(S) ==
  [g \in Headers |->
     IF g \in S THEN Never
     ELSE age[g] - Cardinality({d \in S : age[d] # Never /\ age[d] < age[g]})]

-----------------------------------------------------------------------------
\* GetActiveFeedIDs.
ActiveFeedIDs == {f \in Feeds : ActiveIn(f) # {}}

\* Variant of the next query: the last updated row first.
ShiftNewest(f) ==
  {h \in ActiveIn(f) : \A g \in ActiveIn(f) : age[h] <= age[g]}

\* ShiftSubscription: an active row with the oldest updated_at, nulls first.
\* Which of several nulls comes first is a matter of names and left open.
Shiftable(f) ==
  LET active == ActiveIn(f)
      fresh == {h \in active : age[h] = Never}
  IN IF fresh # {} THEN fresh
     ELSE {h \in active : \A g \in active : age[g] <= age[h]}

\* Variant of the next statement: an upsert.
CreateReplacing(h, status, data) ==
  /\ rows' = [rows EXCEPT ![h] = [status |-> status, data |-> data]]
  /\ UNCHANGED age

\* CreateSubscription inserts a row that does not exist yet, and leaves
\* updated_at null.
Create(h, status, data) ==
  /\ ~Exists(h)
  /\ rows' = [rows EXCEPT ![h] = [status |-> status, data |-> data]]
  /\ UNCHANGED age

\* UpdateSubscription with a JSONB value.
WriteData(h, data) ==
  /\ Active(h)
  /\ rows' = [rows EXCEPT ![h].data = data]
  /\ age' = Touched(h)

\* UpdateSubscription with an error.
WriteError(h, error) ==
  /\ Active(h)
  /\ rows' = [rows EXCEPT ![h].status = error]
  /\ age' = Touched(h)

\* UpdateSubscription with nil.
ClearError(h) ==
  /\ Suspended(h)
  /\ rows' = [rows EXCEPT ![h].status = "active"]
  /\ age' = Touched(h)

\* DeleteSubscription.
Delete(h) ==
  /\ Exists(h)
  /\ rows' = [rows EXCEPT ![h] = NoRow]
  /\ age' = Dropped({h})

\* DeleteAllSubscriptions: the pattern of "error like ?" is the set of errors
\* it matches; an active row has none.
DeleteAll(f, pattern) ==
  LET gone == {h \in Headers : FeedOf[h] = f /\ rows[h].status \in pattern}
  IN /\ gone # {}
     /\ rows' = [h \in Headers |-> IF h \in gone THEN NoRow ELSE rows[h]]
     /\ age' = Dropped(gone)

TableTypeOK ==
  /\ rows \in [Headers -> Row]
  /\ age \in [Headers -> Int]
=============================================================================
