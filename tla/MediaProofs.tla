----------------------------- MODULE MediaProofs -----------------------------
(***************************************************************************)
(* The safety of Mediator for any finite set of media, any hashes, and any *)
(* timeout that does not exceed the TTL of files.                          *)
(*                                                                         *)
(* Neither property is inductive.  That no duplicate is delivered needs    *)
(* that whoever got past the table of hashes is alone with its hash, from  *)
(* then on until it is delivered.  That no file is removed from under a    *)
(* goroutine needs that the goroutine is younger than the timeout, that    *)
(* its file is younger than itself, that the wait group counts it, and     *)
(* that the mediator's Close waits for that group if there was a call      *)
(* before it.                                                              *)
(*                                                                         *)
(* Then the pipeline, for any sizes, limits and converters: that what is   *)
(* sent fits, although three parts of the code tell a size in three ways,  *)
(* one of them 0 and one of them wrong after a conversion.                 *)
(***************************************************************************)
EXTENDS Media, Sequences, TLAPS, FiniteSetTheorems, SequenceTheorems

Jobs == {"none", "unstarted", "ended"} \cup Running
Answers == {"none", "media", "nothing", "error"}
Posts == {"new", "queued", "waiting", "delivered", "filtered", "without", "dropped"}

\* The part of TypeOK without the wait group.
Types ==
  /\ clock \in 0..MaxTime /\ seen \subseteq Nat
  /\ job \in [Media -> Jobs] /\ began \in [Media -> 0..MaxTime]
  /\ file \in [Media -> {NoFile, Gone} \cup 0..MaxTime]
  /\ answer \in [Media -> Answers] /\ post \in [Media -> Posts]
  /\ state \in States /\ ctx \in {"none", "live", "cancelled"} /\ work \in Int

\* Whose goroutine was counted: calls that were made.
Called == {m \in Media : post[m] # "new"}
Counted == Cardinality(Active) <= work /\ work <= Cardinality(Called)

\* A call starts with nothing, its goroutine runs without an answer, and what was
\* delivered was answered; one runs as long as its context is alive, or until Close
\* has waited for it.
Progress ==
  \A m \in Media :
    /\ post[m] = "new" => job[m] = "none" /\ answer[m] = "none"
    /\ job[m] \in Running => answer[m] = "none" /\ (ctx = "live" \/ (ctx = "cancelled" /\ state = "cancelled"))
    /\ post[m] = "delivered" => answer[m] = "media"

\* The call's hash was not stored before it.
Claims(m) == m \in Deduplicated /\ (job[m] \in {"converting", "sizing"} \/ answer[m] = "media")

Unique ==
  /\ \A m \in Media : Claims(m) => Hash[m] \in seen
  /\ \A m, n \in Media : Claims(m) /\ Claims(n) /\ Hash[m] = Hash[n] => m = n

\* The directory was removed although a goroutine may be at work.
Swept == Late /\ state \in {"removed", "stopped"}

\* The file of a goroutine that uses one is younger than the goroutine.
Fresh(m) ==
  \/ file[m] = NoFile
  \/ file[m] >= began[m] /\ file[m] <= clock
  \/ file[m] = Gone /\ Swept

\* A running goroutine, and the file it uses, are young.
Young ==
  \A m \in Media :
    /\ began[m] <= clock
    /\ job[m] \in Running => clock <= began[m] + Timeout
    /\ job[m] \in {"none", "resolving", "measuring"} => file[m] = NoFile
    /\ job[m] \in UsingFile => Fresh(m)

IInv == Types /\ Counted /\ Progress /\ Unique /\ Young

-----------------------------------------------------------------------------
LEMMA Initially == Init => IInv
<1> SUFFICES ASSUME Init PROVE IInv OBVIOUS
<1> USE MediaAssumption, TimeAssumption DEF Init
<1>1. Types BY DEF Types, Jobs, Answers, Posts, States, NoFile
<1>2. Counted
  <2>1. Active = {} /\ Called = {} BY DEF Active, Called, Running
  <2>2. QED BY <2>1, FS_EmptySet DEF Counted
<1>3. Progress BY DEF Progress, Running
<1>4. Unique BY DEF Unique, Claims
<1>5. Young BY DEF Young, Running, UsingFile
<1>6. QED BY <1>1, <1>2, <1>3, <1>4, <1>5 DEF IInv

\* Sets of calls are finite, and counted by natural numbers.
LEMMA Finite ==
  /\ IsFiniteSet(Active) /\ IsFiniteSet(Called)
  /\ Cardinality(Active) \in Nat /\ Cardinality(Called) \in Nat
<1>1. Active \in SUBSET Media /\ Called \in SUBSET Media BY DEF Active, Called
<1>2. IsFiniteSet(Active) /\ IsFiniteSet(Called) BY <1>1, MediaAssumption, FS_Subset
<1>3. QED BY <1>2, FS_CardinalityType

\* Neither goroutines nor calls come or go.
LEMMA SameCounts ==
  ASSUME Counted, Active' = Active, Called' = Called, work' = work PROVE Counted'
BY DEF Counted

\* A goroutine that runs ends and is taken off the wait group.
LEMMA EndCounts ==
  ASSUME IInv, NEW m \in Media, job[m] \in Running, job' = [job EXCEPT ![m] = "ended"],
         work' = work - 1, post' = post
  PROVE  Counted'
<1>1. Active' = Active \ {m} /\ m \in Active BY DEF IInv, Types, Active, Running
<1>2. Called' = Called BY DEF Called
<1>3. Cardinality(Active') = Cardinality(Active) - 1 BY <1>1, Finite, FS_RemoveElement
<1>4. QED BY <1>2, <1>3, Finite DEF IInv, Types, Counted

\* alloc gives a new file to its caller and removes none that is in use: it would
\* have to be older than the TTL, but its user is younger than the timeout.
LEMMA AllocEffect ==
  ASSUME IInv, NEW m \in Media, AllocFor(m)
  PROVE  /\ file' \in [Media -> {NoFile, Gone} \cup 0..MaxTime]
         /\ file'[m] = clock
         /\ \A n \in Media \ {m} : job[n] \in UsingFile \/ file[n] = NoFile => file'[n] = file[n]
<1>1. file' \in [Media -> {NoFile, Gone} \cup 0..MaxTime]
  BY DEF IInv, Types, AllocFor
<1>2. file'[m] = clock BY DEF AllocFor
<1>3. ASSUME NEW n \in Media \ {m}, job[n] \in UsingFile \/ file[n] = NoFile PROVE file'[n] = file[n]
  <2>1. ~(file[n] >= 0 /\ Expired(file[n]))
    <3>1. file[n] \in {-1, -2} \/ (clock <= began[n] + Timeout /\ file[n] >= began[n])
      BY <1>3 DEF IInv, Young, Fresh, UsingFile, Running, NoFile, Gone
    <3>2. clock \in Int /\ began[n] \in Int BY TimeAssumption DEF IInv, Types
    <3>3. file[n] \in Int BY TimeAssumption DEF IInv, Types, NoFile, Gone
    <3>4. QED BY <3>1, <3>2, <3>3, TimeAssumption DEF Expired
  <2>2. file'[n] = IF file[n] >= 0 /\ Expired(file[n]) THEN Gone ELSE file[n]
    BY <1>3 DEF AllocFor
  <2>3. QED BY <2>1, <2>2
<1>4. QED BY <1>1, <1>2, <1>3

-----------------------------------------------------------------------------
\* A vendor calls Mediate; the goroutine, if one starts, is counted first.
LEMMA CallStep == ASSUME IInv, NEW m \in Media, Mediate(m) \/ MediateInvalid(m) PROVE IInv'
<1>1. CASE Mediate(m)
  <2> USE <1>1 DEF IInv, Mediate, Goto
  <2>1. Types'
    <3>1. began' \in [Media -> 0..MaxTime] /\ work' \in Int BY DEF Types
    <3>2. post' \in [Media -> Posts] BY DEF Types, Posts
    <3>3. job' \in [Media -> Jobs] /\ answer' \in [Media -> Answers]
      BY DEF Types, Jobs, Answers, Running
    <3>4. QED BY <3>1, <3>2, <3>3 DEF Types
  <2>2. Counted'
    <3>1. Called' = Called \cup {m} /\ m \notin Called BY DEF Types, Called
    <3>2. Cardinality(Called') = Cardinality(Called) + 1 BY <3>1, Finite, FS_AddElement
    <3>3. m \notin Active BY DEF Progress, Active, Running
    <3>4. Active' = Active \cup {m} \/ Active' = Active BY <3>3 DEF Types, Active, Running
    <3>5. Cardinality(Active') \in {Cardinality(Active), Cardinality(Active) + 1}
      BY <3>3, <3>4, Finite, FS_AddElement
    <3>6. QED BY <3>2, <3>5, Finite DEF Types, Counted
  <2>3. Progress' BY DEF Types, Progress, Running
  <2>4. Unique'
    <3>1. \A n \in Media : Claims(n)' => Claims(n) BY DEF Types, Progress, Claims
    <3>2. QED BY <3>1 DEF Unique
  <2>5. Young'
    <3>1. clock \in Int /\ \A n \in Media : began[n] \in Int BY TimeAssumption DEF Types
    <3>2. Swept => Swept' BY DEF Swept, Late
    <3>3. QED BY <3>1, <3>2, TimeAssumption DEF Types, Young, Fresh, Progress, Running, UsingFile
  <2>6. QED BY <2>1, <2>2, <2>3, <2>4, <2>5
<1>2. CASE MediateInvalid(m)
  <2> USE <1>2 DEF IInv, MediateInvalid, jobVars, appVars
  <2>1. Types' BY DEF Types, Answers, Posts
  <2>2. Counted'
    <3>1. Called' = Called \cup {m} /\ m \notin Called BY DEF Types, Called
    <3>2. Cardinality(Called') = Cardinality(Called) + 1 BY <3>1, Finite, FS_AddElement
    <3>3. Active' = Active BY DEF Active
    <3>4. QED BY <3>2, <3>3, Finite DEF Types, Counted
  <2>3. Progress' BY DEF Types, Progress, Running
  <2>4. Unique'
    <3>1. \A n \in Media : Claims(n)' => Claims(n) BY DEF Types, Claims
    <3>2. QED BY <3>1 DEF Unique
  <2>5. Young' BY DEF Young, Fresh, Swept, Late
  <2>6. QED BY <2>1, <2>2, <2>3, <2>4, <2>5
<1>3. QED BY <1>1, <1>2

\* A goroutine goes on, perhaps with a new file.
LEMMA MoveStep == ASSUME IInv, NEW m \in Media, Resolve(m) \/ Measure(m) \/ Convert(m) PROVE IInv'
<1> USE DEF IInv
<1>1. /\ job[m] \in {"resolving", "measuring", "converting"}
      /\ UNCHANGED <<clock, began, seen, answer, post, work, state, ctx>>
  BY DEF Resolve, Measure, Convert, appVars
<1>2. PICK place \in {"measuring", "hashing", "converting", "sizing"} : job' = [job EXCEPT ![m] = place]
  BY DEF Resolve, Measure, Convert, Goto
<1>3. \/ UNCHANGED file \/ AllocFor(m) \/ file' = [file EXCEPT ![m] = NoFile]
  BY DEF Resolve, Measure, Convert
<1>4. Types'
  <2>1. job' \in [Media -> Jobs] BY <1>2 DEF Types, Jobs, Running
  <2>2. file' \in [Media -> {NoFile, Gone} \cup 0..MaxTime] BY <1>3, AllocEffect DEF Types
  <2>3. QED BY <1>1, <2>1, <2>2 DEF Types
<1>5. Counted'
  <2>1. Active' = Active BY <1>1, <1>2 DEF Types, Active, Running
  <2>2. Called' = Called BY <1>1 DEF Called
  <2>3. QED BY <1>1, <2>1, <2>2, SameCounts
<1>6. Progress' BY <1>1, <1>2 DEF Types, Progress, Running
<1>7. Unique'
  <2>1. place = "converting" => m \notin Deduplicated BY <1>2 DEF Types, Resolve, Measure, Convert, Goto
  <2>2. place = "sizing" => job[m] = "converting" BY <1>2 DEF Types, Resolve, Measure, Convert, Goto
  <2>3. \A n \in Media : Claims(n)' => Claims(n) BY <1>1, <1>2, <2>1, <2>2 DEF Types, Claims
  <2>4. QED BY <1>1, <2>3 DEF Unique
<1>8. Young'
  <2>1. \A n \in Media \ {m} : job[n] \in UsingFile \/ file[n] = NoFile => file'[n] = file[n]
    BY <1>3, AllocEffect DEF Types
  <2>2. file'[m] \in {file[m], clock, NoFile} BY <1>3, AllocEffect DEF Types
  <2>3. clock \in Int /\ began[m] \in Int /\ clock >= began[m] BY TimeAssumption DEF Types, Young
  <2>4. Fresh(m) /\ (Swept' <=> Swept)
    BY <1>1 DEF Young, Fresh, UsingFile, Swept, Late
  <2>5. Fresh(m)' BY <1>1, <2>2, <2>3, <2>4 DEF Fresh
  <2>6. place = "measuring" => file'[m] = NoFile
    <3>1. SUFFICES ASSUME place = "measuring" PROVE file'[m] = NoFile OBVIOUS
    <3>2. Resolve(m) BY <1>2, <3>1 DEF Types, Measure, Convert, Goto
    <3>3. QED BY <3>2 DEF Resolve, Young
  <2>7. ASSUME NEW n \in Media \ {m}
        PROVE  /\ job'[n] \in {"none", "resolving", "measuring"} => file'[n] = NoFile
               /\ job'[n] \in UsingFile => Fresh(n)'
    BY <1>1, <1>2, <2>1, <2>4 DEF Types, Young, Fresh
  <2>8. \A n \in Media : job'[n] \in Running => job[n] \in Running BY <1>1, <1>2 DEF Types, Running
  <2>9. job'[m] = place BY <1>2 DEF Types
  <2>10. QED BY <1>1, <2>5, <2>6, <2>7, <2>8, <2>9 DEF Young
<1>9. QED BY <1>4, <1>5, <1>6, <1>7, <1>8

\* A goroutine ends with an answer, or without one.
LEMMA EndStep ==
  ASSUME IInv, NEW m \in Media, NEW a \in {"media", "nothing", "error"},
         job[m] \in Running, End(m, a), UNCHANGED <<clock, began, seen, post, state, ctx>>,
         UNCHANGED file \/ AllocFor(m),
         a = "media" => job[m] = "sizing"
  PROVE  IInv'
<1> USE DEF IInv
<1>1. job' = [job EXCEPT ![m] = "ended"] /\ work' = work - 1 BY DEF End, Goto, Released
<1>2. answer' = [answer EXCEPT ![m] = a] \/ answer' = answer BY DEF End, Completed
<1>3. Types'
  <2>1. job' \in [Media -> Jobs] BY <1>1 DEF Types, Jobs
  <2>2. answer' \in [Media -> Answers] BY <1>2 DEF Types, Answers
  <2>3. file' \in [Media -> {NoFile, Gone} \cup 0..MaxTime] BY AllocEffect DEF Types
  <2>4. QED BY <1>1, <2>1, <2>2, <2>3 DEF Types
<1>4. Counted' BY <1>1, EndCounts
<1>5. Progress'
  <2>1. post[m] # "new" /\ post[m] # "delivered" BY DEF Progress, Running
  <2>2. QED BY <1>1, <1>2, <2>1 DEF Types, Progress, Running
<1>6. Unique'
  <2>1. \A n \in Media : Claims(n)' => Claims(n) BY <1>1, <1>2 DEF Types, Claims
  <2>2. QED BY <2>1 DEF Unique
<1>7. Young'
  <2>1. \A n \in Media \ {m} : job[n] \in UsingFile \/ file[n] = NoFile => file'[n] = file[n]
    BY AllocEffect
  <2>2. job'[m] = "ended" /\ \A n \in Media \ {m} : job'[n] = job[n] BY <1>1 DEF Types
  <2>3. ASSUME NEW n \in Media \ {m}
        PROVE  /\ job'[n] \in {"none", "resolving", "measuring"} => file'[n] = NoFile
               /\ job'[n] \in UsingFile => Fresh(n)'
    BY <2>1, <2>2 DEF Types, Young, Fresh, Swept, Late
  <2>4. QED BY <2>2, <2>3 DEF Young, Running, UsingFile
<1>8. QED BY <1>3, <1>4, <1>5, <1>6, <1>7

\* The look-up stores the hash and lets the first through, or finds it and ends.
LEMMA DedupStep == ASSUME IInv, NEW m \in Media, Dedup(m), job[m] = "hashing" PROVE IInv'
<1> USE DEF IInv
<1>1. CASE Key(m) \in seen
  <2>1. End(m, "nothing") /\ UNCHANGED <<clock, began, seen, file, post, state, ctx>> BY <1>1 DEF Dedup
  <2>2. QED BY <2>1, EndStep DEF Running, Dedup
<1>2. CASE Key(m) \notin seen
  <2>1. /\ job' = [job EXCEPT ![m] = "converting"] /\ seen' = seen \cup {Hash[m]} /\ Hash[m] \notin seen
        /\ UNCHANGED <<clock, began, file, answer, post, work, state, ctx>>
    BY <1>2 DEF Dedup, Goto, Key
  <2>2. Types'
    <3>1. job' \in [Media -> Jobs] BY <2>1 DEF Types, Jobs, Running
    <3>2. seen' \subseteq Nat BY <2>1, MediaAssumption DEF Types
    <3>3. QED BY <2>1, <3>1, <3>2 DEF Types
  <2>3. Counted'
    <3>1. Active' = Active BY <2>1 DEF Types, Active, Running
    <3>2. Called' = Called BY <2>1 DEF Called
    <3>3. QED BY <2>1, <3>1, <3>2, SameCounts
  <2>4. Progress' BY <2>1 DEF Types, Progress, Running
  <2>5. Unique'
    <3>1. \A n \in Media \ {m} : Claims(n)' => Claims(n) BY <2>1 DEF Types, Claims
    <3>2. \A n \in Media : Claims(n)' => Hash[n] \in seen' BY <2>1, <3>1 DEF Unique
    <3>3. \A n \in Media \ {m} : Claims(n)' => Hash[n] # Hash[m] BY <2>1, <3>1 DEF Unique
    <3>4. QED BY <3>1, <3>2, <3>3 DEF Unique
  <2>6. Young' BY <2>1 DEF Types, Young, Fresh, Swept, Late, Running, UsingFile
  <2>7. QED BY <2>2, <2>3, <2>4, <2>5, <2>6
<1>3. QED BY <1>1, <1>2

\* The task of the feed receives, drops and delivers.
LEMMA TaskSteps == ASSUME IInv, NEW m \in Media, TaskStep(m) PROVE IInv'
<1> USE DEF IInv
<1>1. PICK place \in Posts \ {"new"} : post' = [post EXCEPT ![m] = place]
  BY DEF TaskStep, Receive, Drop, Deliver, Interrupt, Posts
<1>2. post[m] # "new" /\ UNCHANGED <<clock, seen, job, began, file, answer, work, state, ctx>>
  BY DEF TaskStep, Receive, Drop, Deliver, Interrupt, jobVars, appVars
<1>3. place = "delivered" => answer[m] = "media"
  BY <1>1 DEF Types, TaskStep, Receive, Drop, Deliver, Interrupt
<1>4. Types' BY <1>1, <1>2 DEF Types
<1>5. Counted'
  <2>1. Active' = Active BY <1>2 DEF Active
  <2>2. Called' = Called BY <1>1, <1>2 DEF Types, Called
  <2>3. QED BY <1>2, <2>1, <2>2, SameCounts
<1>6. Progress' BY <1>1, <1>2, <1>3 DEF Types, Progress
<1>7. Unique' BY <1>2 DEF Unique, Claims
<1>8. Young' BY <1>2 DEF Young, Fresh, Swept, Late
<1>9. QED BY <1>4, <1>5, <1>6, <1>7, <1>8

\* No goroutine outlives its timeout.
LEMMA TickStep == ASSUME IInv, Tick PROVE IInv'
<1> USE DEF IInv, Tick, jobVars, appVars
<1>1. Types' BY TimeAssumption DEF Types
<1>2. Counted' BY DEF Counted, Active, Called
<1>3. Progress' /\ Unique' BY DEF Progress, Unique, Claims
<1>4. Young'
  <2> SUFFICES ASSUME NEW m \in Media
      PROVE /\ began[m] <= clock'
            /\ job[m] \in Running => clock' <= began[m] + Timeout
            /\ job[m] \in {"none", "resolving", "measuring"} => file[m] = NoFile
            /\ job[m] \in UsingFile => Fresh(m)'
    BY DEF Young
  <2>1. clock \in Int /\ began[m] \in Int /\ file[m] \in Int /\ Timeout \in Int
    BY TimeAssumption DEF Types, NoFile, Gone
  <2>2. job[m] \in Running => clock < began[m] + Timeout BY DEF Active
  <2>3. QED BY <2>1, <2>2 DEF Young, Fresh, Swept, Late
<1>5. QED BY <1>1, <1>2, <1>3, <1>4

\* The mediator closes when its wait group is empty, or without having been called,
\* so that no goroutine is left; those that start later run on.
LEMMA CloseStep == ASSUME IInv, CloseCancel \/ Shutdown PROVE IInv'
<1> USE DEF IInv
<1>1. CASE CloseCancel
  <2>1. /\ state = "open" /\ UNCHANGED <<clock, seen, job, began, file, answer, post, work>>
        /\ \/ ctx = "none" /\ ctx' = "none" /\ state' = "closed"
           \/ ctx # "none" /\ ctx' = "cancelled" /\ state' = "cancelled"
    BY <1>1 DEF CloseCancel, jobVars
  <2>2. Types' BY <2>1 DEF Types, States
  <2>3. Counted' BY <2>1 DEF Counted, Active, Called
  <2>4. Progress' BY <2>1 DEF Progress
  <2>5. Unique' BY <2>1 DEF Unique, Claims
  <2>6. ~Swept BY <2>1 DEF Swept
  <2>7. Young' BY <2>1, <2>6 DEF Young, Fresh
  <2>8. QED BY <2>2, <2>3, <2>4, <2>5, <2>7
<1>2. CASE CloseReturn
  <2>1. /\ state = "cancelled" /\ state' = "closed" /\ work = 0
        /\ UNCHANGED <<clock, seen, job, began, file, answer, post, work, ctx>>
    BY <1>2 DEF CloseReturn, AllDone, jobVars
  <2>2. Active = {}
    <3>1. Cardinality(Active) = 0 BY <2>1, Finite DEF Counted
    <3>2. QED BY <3>1, Finite, FS_EmptySet
  <2>3. Types' BY <2>1 DEF Types, States
  <2>4. Counted' BY <2>1 DEF Counted, Active, Called
  <2>5. Progress' BY <2>1, <2>2 DEF Progress, Active
  <2>6. Unique' BY <2>1 DEF Unique, Claims
  <2>7. ~Swept BY <2>1 DEF Swept
  <2>8. Young' BY <2>1, <2>7 DEF Young, Fresh
  <2>9. QED BY <2>3, <2>4, <2>5, <2>6, <2>8
<1>3. CASE CloseBlobs
  <2>1. /\ state = "closed" /\ state' = "removed"
        /\ UNCHANGED <<clock, seen, job, began, answer, post, work, ctx>>
        /\ file' = [m \in Media |-> IF file[m] >= 0 THEN Gone ELSE file[m]]
    BY <1>3 DEF CloseBlobs
  <2>2. Types'
    <3>1. file' \in [Media -> {NoFile, Gone} \cup 0..MaxTime] BY <2>1 DEF Types
    <3>2. QED BY <2>1, <3>1 DEF Types, States
  <2>3. Counted' BY <2>1 DEF Counted, Active, Called
  <2>4. Progress' BY <2>1 DEF Progress
  <2>5. Unique' BY <2>1 DEF Unique, Claims
  <2>6. Young'
    <3> SUFFICES ASSUME NEW m \in Media
        PROVE /\ began[m] <= clock
              /\ job[m] \in Running => clock <= began[m] + Timeout
              /\ job[m] \in {"none", "resolving", "measuring"} => file'[m] = NoFile
              /\ job[m] \in UsingFile => Fresh(m)'
      BY <2>1 DEF Young
    <3>1. file[m] = NoFile => file'[m] = NoFile BY <2>1 DEF NoFile
    <3>2. job[m] \in Running => Swept' BY <2>1 DEF Progress, Swept, Late
    <3>3. file'[m] = NoFile \/ file'[m] = Gone BY <2>1 DEF Types
    <3>4. job[m] \in UsingFile => Fresh(m)' BY <3>2, <3>3 DEF Fresh, UsingFile, Running
    <3>5. QED BY <3>1, <3>4 DEF Young
  <2>7. QED BY <2>2, <2>3, <2>4, <2>5, <2>6
<1>4. CASE CloseExecutor
  <2>1. /\ state = "removed" /\ state' = "stopped"
        /\ UNCHANGED <<clock, seen, job, began, file, answer, post, work, ctx>>
    BY <1>4 DEF CloseExecutor, jobVars
  <2>2. Types' BY <2>1 DEF Types, States
  <2>3. Counted' BY <2>1 DEF Counted, Active, Called
  <2>4. Progress' BY <2>1 DEF Progress
  <2>5. Unique' BY <2>1 DEF Unique, Claims
  <2>6. Swept => Swept' BY <2>1 DEF Swept, Late
  <2>7. Young' BY <2>1, <2>6 DEF Young, Fresh
  <2>8. QED BY <2>2, <2>3, <2>4, <2>5, <2>7
<1>5. QED BY <1>1, <1>2, <1>3, <1>4 DEF Shutdown

-----------------------------------------------------------------------------
\* IInv is an invariant of the mediator.
THEOREM Invariance == Spec => []IInv
<1>1. IInv /\ [Next]_vars => IInv'
  <2> SUFFICES ASSUME IInv, [Next]_vars PROVE IInv' OBVIOUS
  <2>1. ASSUME NEW m \in Media, Mediate(m) \/ MediateInvalid(m) PROVE IInv' BY <2>1, CallStep
  <2>2. ASSUME NEW m \in Media, Step(m) PROVE IInv'
    <3>1. CASE Resolve(m) \/ Measure(m) \/ Convert(m) BY <3>1, MoveStep
    <3>2. CASE Dedup(m) BY <3>2, DedupStep DEF Dedup
    <3>3. CASE Finish(m)
      <4>1. job[m] = "sizing" /\ End(m, "media") /\ (UNCHANGED file \/ AllocFor(m))
            /\ UNCHANGED <<clock, began, seen, post, state, ctx>>
        BY <3>3 DEF Finish
      <4>2. QED BY <4>1, EndStep DEF Running
    <3>4. CASE Fail(m)
      <4>1. job[m] \in Running /\ End(m, "error") /\ UNCHANGED <<clock, began, file, seen, post, state, ctx>>
        BY <3>4 DEF Fail
      <4>2. QED BY <4>1, EndStep
    <3>5. QED BY <2>2, <3>1, <3>2, <3>3, <3>4 DEF Step
  <2>3. ASSUME NEW m \in Media, TaskStep(m) PROVE IInv' BY <2>3, TaskSteps
  <2>4. CASE UNCHANGED vars
    <3> USE <2>4 DEF vars, jobVars, appVars, IInv
    <3>1. Types' /\ Counted' BY DEF Types, Counted, Active, Called
    <3>2. Progress' /\ Unique' BY DEF Progress, Unique, Claims
    <3>3. Young' BY DEF Young, Fresh, Swept, Late
    <3>4. QED BY <3>1, <3>2, <3>3
  <2>5. QED BY <2>1, <2>2, <2>3, <2>4, TickStep, CloseStep DEF Next
<1>2. QED BY Initially, <1>1, PTL DEF Spec

\* The mediator's state is well typed; the wait group counts every goroutine that
\* runs, and is never released more often than it was counted.
THEOREM TypeCorrect == Spec => []TypeOK
<1>1. IInv => TypeOK
  <2> SUFFICES ASSUME IInv PROVE TypeOK OBVIOUS
  <2>1. Cardinality(Called) <= Cardinality(Media) /\ Cardinality(Media) \in Nat
    <3>1. Called \in SUBSET Media BY DEF Called
    <3>2. QED BY <3>1, MediaAssumption, FS_Subset, FS_CardinalityType
  <2>2. work \in Cardinality(Active)..Cardinality(Media) BY <2>1, Finite DEF IInv, Types, Counted
  <2>3. QED BY <2>2 DEF IInv, Types, TypeOK, Jobs, Answers, Posts
<1>2. QED BY Invariance, <1>1, PTL

\* No chat gets a medium twice from subscriptions that filter duplicates.
THEOREM NoDuplicates == Spec => []NoDuplicateDelivered
<1>1. IInv => NoDuplicateDelivered
  <2> SUFFICES ASSUME IInv, NEW m \in Deduplicated, NEW n \in Deduplicated,
                      post[m] = "delivered", post[n] = "delivered", Hash[m] = Hash[n]
               PROVE  m = n
    BY DEF NoDuplicateDelivered
  <2>1. m \in Media /\ n \in Media BY MediaAssumption
  <2>2. Claims(m) /\ Claims(n) BY <2>1 DEF IInv, Progress, Claims
  <2>3. QED BY <2>1, <2>2 DEF IInv, Unique
<1>2. QED BY Invariance, <1>1, PTL

\* No file is removed while a goroutine works on it, as long as the timeout of the
\* mediator does not exceed the TTL of files: neither by another's clean-up nor by the
\* shutdown.  The shutdown spares those of goroutines that Close knew of; where the
\* mediator is called for the first time after its Close, files are lost from the
\* removal of their directory on, and not before (mediator/impl.go 63, 265-270).
THEOREM FilesKept == Spec => []FileKeptWhileUsed
<1>1. IInv => FileKeptWhileUsed
  <2> SUFFICES ASSUME IInv, NEW m \in Media, job[m] \in UsingFile, file[m] = Gone PROVE Swept
    BY DEF FileKeptWhileUsed, Swept
  <2>1. began[m] \in Int /\ began[m] >= 0 BY TimeAssumption DEF IInv, Types
  <2>2. ~(file[m] = NoFile \/ (file[m] >= began[m] /\ file[m] <= clock))
    BY <2>1 DEF NoFile, Gone
  <2>3. QED BY <2>2 DEF IInv, Young, Fresh
<1>2. QED BY Invariance, <1>1, PTL

-----------------------------------------------------------------------------
(* The pipeline.                                                           *)

\* What the medium, its metadata and its reference may be.
PipelineTypes ==
  /\ content \in [type : Pipeline!Types, size : Nat]
  /\ meta \in [type : Pipeline!Types, size : Nat \cup {Pipeline!Unknown}]
  /\ known \subseteq [type : Pipeline!Types, size : Nat]

\* A reference that brings its metadata tells the type of what it leads to, and its size
\* or 0; one that does not brings nothing.
Declared ==
  /\ at \in {"none", "new"} => known = {}
  /\ \A k \in known : k.type = content.type /\ k.size \in {0, content.size}

\* What was measured is of this type, and of this size if any is known.
Measured ==
  at \in {"measured", "unique"} =>
    meta.type = content.type /\ meta.size \in {0, Pipeline!Unknown, content.size}

PipelineInv == Pipeline!TypeOK /\ PipelineTypes /\ Declared /\ Measured /\ Pipeline!SentFits

LEMMA PipelineInitially == Pipeline!Init => PipelineInv
<1> SUFFICES ASSUME Pipeline!Init PROVE PipelineInv OBVIOUS
<1> USE PipelineAssumption DEF Pipeline!Init, Pipeline!Unknown, Pipeline!Types, Pipeline!Sources
<1>1. PipelineTypes BY DEF PipelineTypes
<1>2. next \in 1..Len(Converters) + 1 BY DEF Pipeline!ConverterAssumption
<1>3. Pipeline!TypeOK BY <1>1, <1>2 DEF Pipeline!TypeOK, PipelineTypes
<1> QED BY <1>1, <1>3
        DEF PipelineInv, Declared, Measured, Pipeline!SentFits, Pipeline!Sent

\* The medium is chosen and resolved: nothing is measured yet.
LEMMA ResolveSteps ==
  ASSUME PipelineInv,
         \/ Pipeline!Mediate \/ Pipeline!ResolveImgurPage \/ Pipeline!ResolveGfycat
         \/ Pipeline!ResolveReddit \/ Pipeline!ResolveDirect
  PROVE  PipelineInv'
<1> USE PipelineAssumption
    DEF PipelineInv, Pipeline!SizeAssumption, Pipeline!Types, Pipeline!Sources, Pipeline!Unknown
<1>1. CASE Pipeline!Mediate
  <2>1. PipelineTypes' /\ Declared' /\ Measured'
    BY <1>1 DEF Pipeline!Mediate, Pipeline!Goto, PipelineTypes, Declared, Measured
  <2>2. Pipeline!TypeOK' /\ Pipeline!SentFits'
    BY <1>1, <2>1
    DEF Pipeline!Mediate, Pipeline!Goto, PipelineTypes, Pipeline!TypeOK, Pipeline!SentFits,
        Pipeline!Sent
  <2> QED BY <2>1, <2>2
<1>2. ASSUME Pipeline!Stop("failed") \/ Pipeline!Stop("refused") PROVE PipelineInv'
  BY <1>2 DEF Pipeline!Stop, Pipeline!Goto, PipelineTypes, Declared, Measured, Pipeline!TypeOK,
              Pipeline!SentFits, Pipeline!Sent
<1>3. ASSUME Pipeline!ResolvedAsPage PROVE PipelineInv'
  <2>1. Pipeline!Page \in [type : Pipeline!Types, size : Nat] BY DEF Pipeline!Page
  <2>2. content' = Pipeline!Page /\ known' = {} /\ at' = "resolved" /\ ref' = "url"
        /\ UNCHANGED <<source, dedup, meta, next>>
    BY <1>3 DEF Pipeline!ResolvedAsPage, Pipeline!Goto
  <2>3. PipelineTypes' /\ Declared' /\ Measured' BY <2>1, <2>2 DEF PipelineTypes, Declared, Measured
  <2>4. Pipeline!TypeOK' /\ Pipeline!SentFits'
    BY <2>1, <2>2 DEF PipelineTypes, Pipeline!TypeOK, Pipeline!SentFits, Pipeline!Sent
  <2> QED BY <2>3, <2>4
<1>4. ASSUME NEW r \in {"url", "client", "file"}, NEW m,
             m \subseteq [type : Pipeline!Types, size : Nat],
             \A k \in m : k.type = content.type /\ k.size \in {0, content.size},
             Pipeline!ResolvedTo(r, m)
      PROVE  PipelineInv'
  <2>1. known' = m /\ at' = "resolved" /\ ref' = r
        /\ UNCHANGED <<source, dedup, content, meta, next>>
    BY <1>4 DEF Pipeline!ResolvedTo, Pipeline!Goto
  <2>3. PipelineTypes' /\ Declared' /\ Measured' BY <1>4, <2>1 DEF PipelineTypes, Declared, Measured
  <2>4. Pipeline!TypeOK' /\ Pipeline!SentFits'
    BY <2>1 DEF PipelineTypes, Pipeline!TypeOK, Pipeline!SentFits, Pipeline!Sent
  <2> QED BY <2>3, <2>4
<1>5. CASE Pipeline!ResolveImgurPage
  BY <1>5, <1>2, <1>4 DEF Pipeline!ResolveImgurPage
<1>6. CASE Pipeline!ResolveGfycat
  BY <1>6, <1>3, <1>4 DEF Pipeline!ResolveGfycat
<1>7. CASE Pipeline!ResolveReddit
  <2>1. ASSUME content.type = "video", Pipeline!ResolvedTo("client", {[type |-> "video", size |-> 0]})
        PROVE  PipelineInv'
    <3> DEFINE m == {[type |-> "video", size |-> 0]}
    <3>1. m \subseteq [type : Pipeline!Types, size : Nat]
          /\ \A k \in m : k.type = content.type /\ k.size \in {0, content.size}
      BY <2>1
    <3> QED BY <2>1, <3>1, <1>4
  <2> QED BY <1>7, <1>3, <2>1 DEF Pipeline!ResolveReddit
<1>8. CASE Pipeline!ResolveDirect
  BY <1>8, <1>4 DEF Pipeline!ResolveDirect
<1> QED BY <1>1, <1>5, <1>6, <1>7, <1>8

\* The medium stops where it is, or in an end that sends nothing.
LEMMA StopSteps ==
  ASSUME PipelineInv, NEW place \in {"filtered", "refused", "failed"}, Pipeline!Stop(place)
  PROVE  PipelineInv'
<1>1. at' = place /\ UNCHANGED <<source, dedup, content, ref, known, meta, next>>
  BY DEF Pipeline!Stop, Pipeline!Goto
<1> QED BY <1>1 DEF PipelineInv, PipelineTypes, Declared, Measured, Pipeline!TypeOK,
                    Pipeline!SentFits, Pipeline!Sent

\* The metadata are those the reference brings, or what the site declares.
LEMMA MeasureStep == ASSUME PipelineInv, Pipeline!GetMeta PROVE PipelineInv'
<1> USE DEF PipelineInv, Pipeline!Unknown
<1>1. CASE Pipeline!Stop("failed") BY <1>1, StopSteps
<1>2. CASE /\ meta' \in (IF known # {} THEN known
                         ELSE {[content EXCEPT !.size = s] : s \in {content.size, Pipeline!Unknown}})
           /\ at' = "measured"
           /\ UNCHANGED <<source, dedup, content, ref, known, next>>
  <2>1. /\ meta' \in [type : Pipeline!Types, size : Nat \cup {Pipeline!Unknown}]
        /\ meta'.type = content.type /\ meta'.size \in {0, Pipeline!Unknown, content.size}
    <3>1. CASE known # {} BY <1>2, <3>1 DEF PipelineTypes, Declared
    <3>2. CASE known = {}
      <4>1. PICK s \in {content.size, Pipeline!Unknown} : meta' = [content EXCEPT !.size = s]
        BY <1>2, <3>2
      <4> QED BY <4>1 DEF PipelineTypes
    <3> QED BY <3>1, <3>2
  <2>2. PipelineTypes' /\ Declared' /\ Measured'
    BY <1>2, <2>1 DEF PipelineTypes, Declared, Measured
  <2>3. Pipeline!TypeOK' /\ Pipeline!SentFits'
    BY <1>2, <2>2 DEF PipelineTypes, Pipeline!TypeOK, Pipeline!SentFits, Pipeline!Sent
  <2> QED BY <2>2, <2>3
<1> QED BY <1>1, <1>2 DEF Pipeline!GetMeta, Pipeline!Goto

\* Who deduplicates goes on with a file.
LEMMA UniqueSteps ==
  ASSUME PipelineInv, Pipeline!Dedup \/ Pipeline!SkipDedup
  PROVE  PipelineInv'
<1> USE DEF PipelineInv
<1>1. CASE Pipeline!Stop("filtered") \/ Pipeline!Stop("failed") BY <1>1, StopSteps
<1>2. CASE /\ at = "measured" /\ at' = "unique" /\ (ref' = "file" \/ (~dedup /\ ref' = ref))
           /\ UNCHANGED <<source, dedup, content, known, meta, next>>
  <2>1. PipelineTypes' /\ Declared' /\ Measured' BY <1>2 DEF PipelineTypes, Declared, Measured
  <2>2. Pipeline!TypeOK' /\ Pipeline!SentFits'
    BY <1>2, <2>1 DEF Pipeline!TypeOK, Pipeline!SentFits, Pipeline!Sent
  <2> QED BY <2>1, <2>2
<1> QED BY <1>1, <1>2
        DEF Pipeline!Dedup, Pipeline!SkipDedup, Pipeline!NoKey, Pipeline!Stop, Pipeline!Goto

\* A converter makes something else of another size, which it tells or leaves unknown.
LEMMA ConvertSteps ==
  ASSUME PipelineInv,
         Pipeline!ConvertFFmpeg \/ Pipeline!ConvertAconvert \/ Pipeline!ConvertFails
  PROVE  PipelineInv'
<1> USE PipelineAssumption DEF PipelineInv
<1>1. CASE Pipeline!ConvertFails
  <2>1. next \in DOMAIN Converters /\ next' = next + 1
        /\ UNCHANGED <<at, source, dedup, content, ref, known, meta>>
    BY <1>1 DEF Pipeline!ConvertFails, Pipeline!Convertible
  <2>2. next' \in 1..Len(Converters) + 1
    BY <2>1, LenProperties DEF Pipeline!ConverterAssumption
  <2>3. PipelineTypes' /\ Declared' /\ Measured' BY <2>1 DEF PipelineTypes, Declared, Measured
  <2>4. Pipeline!TypeOK' /\ Pipeline!SentFits'
    BY <2>1, <2>2 DEF Pipeline!TypeOK, Pipeline!SentFits, Pipeline!Sent
  <2> QED BY <2>3, <2>4
<1>2. ASSUME NEW by, NEW r \in {"url", "file"}, NEW size \in Sizes, NEW m,
             content' = [type |-> "video", size |-> size],
             m \subseteq {content'}, Pipeline!Converted(by, r, m)
      PROVE  PipelineInv'
  <2>1. at' = "resolved" /\ dedup' = FALSE /\ ref' = r /\ known' = m
        /\ UNCHANGED <<source, meta, next>>
    BY <1>2 DEF Pipeline!Converted, Pipeline!Goto
  <2>2. content' \in [type : Pipeline!Types, size : Nat]
    BY <1>2 DEF Pipeline!Types, Pipeline!SizeAssumption
  <2>3. PipelineTypes' /\ Declared' /\ Measured'
    BY <1>2, <2>1, <2>2 DEF PipelineTypes, Declared, Measured
  <2>4. Pipeline!TypeOK' /\ Pipeline!SentFits'
    BY <2>1, <2>2 DEF Pipeline!TypeOK, Pipeline!SentFits, Pipeline!Sent
  <2> QED BY <2>3, <2>4
<1>3. CASE Pipeline!ConvertFFmpeg
  <2>1. PICK size \in Sizes : /\ content' = [type |-> "video", size |-> size]
                              /\ Pipeline!Converted("ffmpeg", "file", {content'})
    BY <1>3 DEF Pipeline!ConvertFFmpeg
  <2> QED BY <2>1, <1>2
<1>4. CASE Pipeline!ConvertAconvert
  <2>1. PICK size \in Sizes : /\ content' = [type |-> "video", size |-> size]
                              /\ Pipeline!Converted("aconvert", "url", {})
    BY <1>4 DEF Pipeline!ConvertAconvert
  <2> QED BY <2>1, <1>2
<1> QED BY <1>1, <1>3, <1>4

\* What is sent has been measured: a size above 0 is the real one, and everything else
\* is copied and measured again.
LEMMA SendSteps ==
  ASSUME PipelineInv, Pipeline!SendSmall \/ Pipeline!SendLarge
  PROVE  PipelineInv'
<1> USE PipelineAssumption DEF PipelineInv, Pipeline!SizeAssumption, Pipeline!Supported
<1>1. at = "unique" /\ meta.type = content.type /\ content.type \in {"photo", "video"}
      /\ meta.size \in {0, Pipeline!Unknown, content.size} /\ content.size \in Nat
  BY DEF Pipeline!SendSmall, Pipeline!SendLarge, Measured, PipelineTypes
<1>2. ASSUME NEW place \in {"sentAsURL", "sentAsFile"}, at' = place,
             UNCHANGED <<source, dedup, content, known, meta, next>>, ref' \in {ref, "file"},
             Pipeline!SentFits'
      PROVE  PipelineInv'
  <2>1. PipelineTypes' /\ Declared' /\ Measured' BY <1>2 DEF PipelineTypes, Declared, Measured
  <2>2. Pipeline!TypeOK' BY <1>2 DEF Pipeline!TypeOK
  <2> QED BY <1>2, <2>1, <2>2
<1>3. CASE Pipeline!Stop("failed") BY <1>3, StopSteps
<1>4. CASE Pipeline!SendSmall /\ ~Pipeline!Stop("failed")
  <2>1. /\ meta.size > 0 /\ meta.size <= RemoteMax[meta.type]
        /\ ref = "url" \/ Pipeline!InBounds(content.size)
        /\ at' = IF ref = "url" THEN "sentAsURL" ELSE "sentAsFile"
        /\ UNCHANGED <<source, dedup, content, ref, known, meta, next>>
    BY <1>4 DEF Pipeline!SendSmall, Pipeline!Small, Pipeline!HasInput, Pipeline!Stop, Pipeline!Goto
  <2>2. content.size > 0 /\ content.size <= RemoteMax[content.type]
        /\ content.size <= AttachMax[content.type]
    BY <1>1, <2>1 DEF Pipeline!Unknown
  <2>3. ref # "url" => content.size < MaxSize BY <2>1, <2>2 DEF Pipeline!InBounds
  <2>4. Pipeline!SentFits' BY <1>1, <2>1, <2>2, <2>3 DEF Pipeline!SentFits
  <2> QED BY <1>2, <2>1, <2>4
<1>5. CASE Pipeline!SendLarge /\ ~Pipeline!Stop("failed")
  <2>1. /\ Pipeline!InBounds(content.size) /\ content.size <= AttachMax[meta.type]
        /\ at' = "sentAsFile" /\ ref' = "file"
        /\ UNCHANGED <<source, dedup, content, known, meta, next>>
    BY <1>5 DEF Pipeline!SendLarge, Pipeline!CopyFits, Pipeline!Goto
  <2>2. content.size < MaxSize BY <1>1, <2>1 DEF Pipeline!InBounds
  <2>3. Pipeline!SentFits' BY <1>1, <2>1, <2>2 DEF Pipeline!SentFits
  <2> QED BY <1>2, <2>1, <2>3
<1> QED BY <1>3, <1>4, <1>5

LEMMA PipelineInductive ==
  ASSUME PipelineInv, [Pipeline!Next]_(Pipeline!vars)
  PROVE  PipelineInv'
<1>1. CASE UNCHANGED Pipeline!vars
  BY <1>1 DEF Pipeline!vars, PipelineInv, PipelineTypes, Declared, Measured, Pipeline!TypeOK,
              Pipeline!SentFits, Pipeline!Sent
<1>2. CASE Pipeline!Reject \/ Pipeline!Fail
  BY <1>2, StopSteps DEF Pipeline!Reject, Pipeline!Fail
<1> QED
  BY <1>1, <1>2, ResolveSteps, MeasureStep, UniqueSteps, ConvertSteps, SendSteps
  DEF Pipeline!Next

\* Whatever a site declares of the size of a medium and whatever converters make of it:
\* what is sent is of a type that Telegram shows and within its limit for this way of
\* sending, and a chat that deduplicates gets a file (Impl.mediate and Impl.convert,
\* impl.go 90-160).
THEOREM WhatIsSentFits == MediaSpec => []PipelineInvariant
<1>1. MediaInit => PipelineInv BY PipelineInitially DEF MediaInit
<1>2. [MediaNext]_mediaVars => [Pipeline!Next]_(Pipeline!vars)
  BY DEF MediaNext, OfMediator, OfKeeping, mediaVars, pipelineVars, Pipeline!vars
<1>3. PipelineInv /\ [MediaNext]_mediaVars => PipelineInv' BY <1>2, PipelineInductive
<1>4. PipelineInv => PipelineInvariant BY DEF PipelineInv, PipelineInvariant
<1> QED BY <1>1, <1>3, <1>4, PTL DEF MediaSpec
=============================================================================
