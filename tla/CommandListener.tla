--------------------------- MODULE CommandListener ---------------------------
(***************************************************************************)
(* How commands reach their handlers: the goroutines of Bot (bot.go of the *)
(* Telegram library) between GetUpdates and OnCommand, which hand updates  *)
(* over through channels without buffers.  The site keeps updates until a  *)
(* later request names a higher offset; a process that starts anew has no  *)
(* offset and gets whatever is kept.                                       *)
(***************************************************************************)
EXTENDS Integers, Sequences, FiniteSets, SequencesExt

CONSTANTS
  Commands,     \* the updates that are commands
  Interrupts,   \* a handler may return an error of its context or of a timeout
  MaxUpdates,   \* bound: updates that users cause
  MaxStops      \* bound: ends of the process

CommandsAssumption ==
  /\ MaxUpdates \in Nat /\ MaxStops \in Nat
  /\ Commands \subseteq 1..MaxUpdates /\ Interrupts \in BOOLEAN

VARIABLES
  issued,      \* the number of the newest update
  confirmed,   \* the site keeps those above
  offset,      \* options.Offset
  batch,       \* what is left of the answer to GetUpdates
  pipe,        \* the command Commands holds
  handling,    \* the command whose handler runs
  alive,       \* the goroutines
  state,       \* "running", "closing" or "closed"
  executions,  \* how often each command was executed
  stops

siteVars == <<issued, confirmed>>
handVars == <<batch, pipe, handling>>
vars == <<siteVars, offset, handVars, alive, state, executions, stops>>

Goroutines == {"listen", "commands", "listener"}

Init ==
  /\ issued = 0 /\ confirmed = 0 /\ offset = 0
  /\ batch = <<>> /\ pipe = <<>> /\ handling = <<>>
  /\ alive = Goroutines /\ state = "running"
  /\ executions = [c \in Commands |-> 0] /\ stops = 0

End(g) == g \in alive /\ alive' = alive \ {g}

-----------------------------------------------------------------------------
Issue ==
  /\ issued < MaxUpdates
  /\ issued' = issued + 1
  /\ UNCHANGED <<confirmed, offset, handVars, alive, state, executions, stops>>

\* The request confirms everything below its offset.
GetUpdates ==
  /\ "listen" \in alive /\ batch = <<>> /\ state = "running"
  /\ LET kept == IF offset > confirmed THEN offset ELSE confirmed + 1 IN
       /\ confirmed' = kept - 1
       /\ batch' = [i \in 1..(issued + 1 - kept) |-> kept + i - 1]
  /\ UNCHANGED <<issued, offset, pipe, handling, alive, state, executions, stops>>

\* Variant of the next definition: a channel with a buffer of one.
Buffered == Len(pipe) < 2
PipeFree == pipe = <<>>

\* Variants of the next definition: the update itself is asked for again, and the
\* one after it is passed by.
SameUpdate(u) == u
NextButOne(u) == u + 2
After(u) == u + 1

\* The update goes through the first channel; what is no command ends there.
HandOver ==
  /\ "listen" \in alive /\ batch # <<>>
  /\ "commands" \in alive /\ PipeFree
  /\ offset' = After(Head(batch))
  /\ pipe' = (IF Head(batch) \in Commands THEN Append(pipe, Head(batch)) ELSE pipe)
  /\ batch' = Tail(batch)
  /\ UNCHANGED <<siteVars, handling, alive, state, executions, stops>>

\* Whatever Listen does, it ends with its context.
ListenEnds ==
  /\ state # "running" /\ End("listen")
  /\ UNCHANGED <<siteVars, offset, handVars, state, executions, stops>>

\* Variant of the next definition: Listen does not close its channel.
NeverClosed == FALSE
UpdatesClosed == "listen" \notin alive

CommandsEnds ==
  /\ UpdatesClosed /\ pipe = <<>> /\ End("commands")
  /\ UNCHANGED <<siteVars, offset, handVars, state, executions, stops>>

\* The second channel; Commands sends without looking at its context.
OnCommand ==
  /\ "listener" \in alive /\ handling = <<>> /\ pipe # <<>>
  /\ handling' = <<Head(pipe)>>
  /\ pipe' = Tail(pipe)
  /\ UNCHANGED <<siteVars, offset, batch, alive, state, executions, stops>>

Executed(c) == executions' = [executions EXCEPT ![c] = @ + 1]

\* The handler returns, with or without an error, which is replied.
Return ==
  /\ handling # <<>>
  /\ Executed(Head(handling))
  /\ handling' = <<>>
  /\ UNCHANGED <<siteVars, offset, batch, pipe, alive, state, stops>>

\* An error of a context, or of a request whose time was up, ends the goroutine.
ReturnInterrupted ==
  /\ Interrupts /\ handling # <<>>
  /\ Executed(Head(handling))
  /\ handling' = <<>>
  /\ End("listener")
  /\ UNCHANGED <<siteVars, offset, batch, pipe, state, stops>>

ListenerEnds ==
  /\ handling = <<>> /\ pipe = <<>> /\ "commands" \notin alive
  /\ End("listener")
  /\ UNCHANGED <<siteVars, offset, handVars, state, executions, stops>>

\* Listen looks at its context before each update, so only the one that it may
\* already offer is handed over.
CloseCancel ==
  /\ state = "running" /\ state' = "closing"
  /\ batch' = (IF batch = <<>> THEN batch ELSE <<Head(batch)>>)
  /\ UNCHANGED <<siteVars, offset, pipe, handling, alive, executions, stops>>

CloseReturn ==
  /\ state = "closing" /\ alive = {} /\ state' = "closed"
  /\ UNCHANGED <<siteVars, offset, handVars, alive, executions, stops>>

\* The process stops anywhere, and starts anew.
Restart ==
  /\ stops < MaxStops /\ stops' = stops + 1
  /\ offset' = 0
  /\ batch' = <<>> /\ pipe' = <<>> /\ handling' = <<>>
  /\ alive' = Goroutines /\ state' = "running"
  /\ UNCHANGED <<siteVars, executions>>

Bot ==
  \/ GetUpdates \/ HandOver \/ ListenEnds \/ CommandsEnds
  \/ OnCommand \/ Return \/ ListenerEnds \/ CloseReturn

Next == Issue \/ Bot \/ ReturnInterrupted \/ CloseCancel \/ Restart
Spec == Init /\ [][Next]_vars

\* Goroutines run, requests have limits of time and handlers return.
FairSpec ==
  /\ Spec
  /\ WF_vars(GetUpdates) /\ WF_vars(HandOver) /\ WF_vars(ListenEnds) /\ WF_vars(CommandsEnds)
  /\ WF_vars(OnCommand) /\ WF_vars(Return) /\ WF_vars(ListenerEnds) /\ WF_vars(CloseReturn)

-----------------------------------------------------------------------------
\* The type invariant; a channel holds nothing, a goroutine one command.
TypeOK ==
  /\ issued \in 0..MaxUpdates /\ confirmed \in 0..issued /\ offset \in 0..issued + 1
  /\ batch \in Seq(1..issued)
  /\ pipe \in Seq(Commands) /\ Len(pipe) <= 1
  /\ handling \in Seq(Commands) /\ Len(handling) <= 1
  /\ alive \subseteq Goroutines /\ state \in {"running", "closing", "closed"}
  /\ executions \in [Commands -> Nat] /\ stops \in 0..MaxStops

InHand == ToSet(pipe) \cup ToSet(handling)

Lost == {c \in Commands : c <= confirmed /\ executions[c] = 0 /\ c \notin InHand}

\* An end of the process loses two commands at most: those that were confirmed to the
\* site while the goroutines still held them.
LostAtMostTwo == Cardinality(Lost) <= 2 * stops

\* A command is executed a second time only after an end of the process.
RepeatedOnlyAfterStop == \A c \in Commands : executions[c] <= 1 + stops

\* How often a command may be executed, the two above.
CommandsCounted == LostAtMostTwo /\ RepeatedOnlyAfterStop

\* A handler that was interrupted ended the goroutine which receives commands, and
\* the one which sends them is left alone: nothing is executed any more.
Deaf == "listener" \notin alive

\* Every command is executed as long as the bot is neither closed nor stopped and no
\* handler was interrupted.
CommandsExecuted ==
  \A c \in Commands : c <= issued ~> executions[c] > 0 \/ state # "running" \/ stops > 0 \/ Deaf

\* "Close closes the context and shuts down the application" (apfel/core.go): the
\* bot, which is closed first, closes, unless a command can never be handed over.
CloseReturns == state = "closing" ~> state # "closing" \/ (Deaf /\ pipe # <<>>)

\* Neither commands nor Close wait for ever: the two above.
NoneWaits == CommandsExecuted /\ CloseReturns
=============================================================================
