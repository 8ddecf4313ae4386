# A verification project for hikkabot

hikkabot is a Telegram bot that polls sources (dvach threads and catalogs,
subreddits) and posts what is new to chats.  A supervisor subscribes a chat to a
source, suspends, resumes and deletes subscriptions; the bot keeps them in a
database and restores them when it starts.  This directory holds TLA+ modules
that follow the source in `../src`, TLC configurations that check them on small
instances, and proofs.  Paths below are relative to `src/internal` unless they
begin with `cmd` or `vendor`.

## The system

| part | state | operations | talks to |
|---|---|---|---|
| poller, `core/internal/poller/impl.go` | vendors (fixed at start); the task of each feed | RestoreActive, Subscribe, Suspend, Resume, Delete, Clear; the task loop (ShiftSubscription, refresh, suspend on error, sleep) | storage, executor, vendors, Telegram, listeners |
| update queue, `core/internal/poller/queue.go` | a channel of `preload` updates | Init, Submit, cancel, close | vendor's goroutine on one side, the task on the other |
| task executor, `core/task.go` | registered keys, lock, wait group, context | Submit, Close | tasks of the poller |
| storage, `core/internal/storage/sql.go` | tables feed, event, blob | one method per statement; Tx, EventTx | called by everything |
| commands, `core/internal/iface/impl.go` | none | /sub, /suspend, /resume, /delete, /clear, /list, buttons; notifications | poller, storage, Telegram |
| vendors, `ext/vendors` | their data inside the row (`Offset`, `SentIDs`), one round at a time | Parse, Refresh, BeforeResume | queue, mediator, clients |
| mediator, `core/internal/mediator` | goroutines, hashes in the table blob | Mediate, Close | resolvers, converters, blobs, storage |
| blobs, `core/internal/blobs` | map of temporary files | Buffer, alloc, Close | mediator |
| clients, `3rdparty` | Reddit's token, Redditsave's cookie and lock | requests | vendors, resolvers |
| Telegram bot, `vendor/github.com/jfk9w-go/telegram-bot-api` | goroutines for updates, commands | Listen, Commands, CommandListener, Close | commands, receivers |
| flu, `vendor/github.com/jfk9w-go/flu` | | GoWith, GoSync, WaitGroup, RWMutex, Var, application life cycle | everything |

**How they interact.**  `main` wires the parts, calls RestoreActive and then
runs the bot until a signal.  *One* goroutine of the bot executes commands, one
after another; so the poller's operations never run beside each other, and
Executor.Submit has one caller at a time.  Each feed (chat) with an active
subscription has a task on a goroutine of its own; within a refresh the vendor
has a further one.  Commands and tasks meet in the database, where every
statement is atomic and nothing larger is (the body of `Tx` runs outside the
transaction it is given, `sql.go` 88-90), and in the executor.  On shutdown the
bot is closed first and waits for its command goroutine, then the executor is
closed, which cancels the context of all tasks and waits for them, and then the
database.

**What is hard.**  A row read by ShiftSubscription is used for as long as a
refresh takes while commands rewrite it; the message goes out before its offset
is stored; a task ends in several steps and its key is given back in the last;
vendor and task may each give up while the other waits; contexts are cancelled
at any moment; and the process may stop anywhere.  `PROJECT.json` lists each such
place with the properties that cover it.

**What makes each part correct.**

* executor: one task per key; keys and goroutines agree; Close waits for all;
* queue and refresh: order, no success without completion, nobody blocked for ever;
* storage: the turn of each subscription; updates only of rows in the right state;
* poller: no loss, bounded repetition, prompt suspension, active feeds polled,
  rows that descend from their own input, shutdown that ends;
* vendors: offsets that move with what was submitted and never skip a match,
  nothing relayed again once its offset (or sent IDs) was stored, the share of
  popular posts that was asked for;
* mediator and blobs: one upload per medium, no file removed while needed, what is
  sent fits the way it is sent, Close ends;
* clients: one owner of the token and one call in the lock, attempts that end;
* preferences and suggestions: one preference per reader, buttons that agree with
  the table, no suggestion that was chosen or refused;
* commands: a header survives the way through a button, a button acts on its own
  subscription, lists offer what applies;
* bot: every command is executed, a restart loses and repeats few, Close ends.

## Modules

| module | models | state and actions |
|---|---|---|
| `KeyedExecutor` | the promise of `feed.TaskExecutor` | tasks being executed per key; Start, Finish, Stop |
| `TaskExecutor` | `core/task.go` with GoWith, Spawn and the lock of `flu/syncf` | keys, owner of the lock, place of the call of Submit, goroutines per key and phase, wait group; one action per step between which another goroutine may run |
| `TaskExecutorProofs` | theorems about it | |
| `FeedTable` | the table feed and its statements | rows (status, data), rank of `updated_at` |
| `ItemDelivery` | the promise of `feed.Poller` to a chat | per header whether it is on, the offset, items sent; Subscribe, Suspend, Resume, Unsubscribe, Publish, Send, Store, and Revert, which the promise would rather not have |
| `Poller` | `impl.go` composed with `FeedTable` and an instance of `TaskExecutor` | the command goroutine, one loop per feed, items published and delivered |
| `PollerProofs` | theorems about it | |
| `UpdateStream` | the promise of one refresh | numbers of updates offered and handled, how source and refresh ended |
| `UpdateQueue` | `refresh`, `queue.go`, `GoSync` | channel, wait group, places of the vendor's goroutine and of the task |
| `UpdateQueueProofs` | theorems about it | |
| `CommandListener` | the bot's goroutines between the site and a handler, `bot.go` 74-195 and Close | updates the site keeps, the batch of Listen, what two unbuffered channels hold, goroutines alive |
| `Interface` | `core/internal/iface/impl.go`, `state_listeners.go` | rows, the command in progress, buttons shown, notifications under way; Subscribe, Press, Clear, List, suspensions by tasks |
| `DvachVendors` | both vendors of `ext/vendors/dvach` with `3rdparty/dvach` | what the site has, the row's offset, the vendor's listing and queue; a variable says which of the two it is |
| `SubredditVendor` | `ext/vendors/reddit` `subreddit.go`, `storage.go`, `thing_writer.go`, `thing_layout.go` | the table reddit that all chats share, SentIDs per chat, the refresh of each chat in steps |
| `SubredditPacing` | getPercentile and its two queries | votes, preferences, the percentile |
| `SubredditPreferences` | `subreddit_command_listener.go` with the table event | the command in progress step by step, events, the counts on each button, links |
| `SubredditSuggestions` | `subreddit_suggestions.go` with CountEventsBy and the client srstats | ratings, rows, the list that waits, the clock of the interval |
| `Mediator` | `mediator/impl.go`, `blobs/files.go`, IsMediaUnique | a goroutine per call, its file and age, hashes, the Var that is waited for, the update that carries the medium, shutdown |
| `MediaPipeline` | resolvers, references, converters, bounds on sizes | one medium with its source, type, declared and real size, step by step |
| `Numbers` | the order of `post_sorter.go` | finite sets of numbers as increasing lists |
| `RedditClient` | `3rdparty/reddit/client.go` | the token in its channel, each request's place, token and attempts |
| `RedditsaveClient` | `3rdparty/redditsave` with the reentrant lock of `flu/syncf` | clock, lock, time of the last refresh, jar, each call's place |
| `Clients` | both clients side by side | those of the two |
| `Media` | `Mediator`, once for chats that deduplicate and once for one that does not, and `MediaPipeline` side by side | those of the two |
| `People` | the bot, `Interface` where the database tells case apart and where it does not, `SubredditPreferences` for all readers and for one who presses more often, side by side | those of the three |
| `Vendors` | the four modules of the vendors side by side | those of the four |
| `SourcesProofs`, `MediaProofs`, `InterfaceProofs`, `SubredditPreferencesProofs`, `PeopleProofs` | theorems about these | |
| `MC...` | small instances for TLC | |

*Abstractions.*  In `Poller` a vendor is a source of items numbered from 1 and
the data of a row is the offset up to which items are stored, with the number of
the Subscribe it descends from (a ghost: it tells two lives of one primary key
apart).  `late` and `delivered` are observations and guard no action.  A refresh
takes the items its source has when it begins; the queue between vendor and task
is `UpdateQueue`, which shows that updates arrive in order, so `Poller` takes
them one by one.  Commands that are refused before their first write are no
steps.  `updated_at` is a rank, 0 for the last write, which is all that "order
by" observes.  A task that is stuck for ever is the place "hung".

The parts above the poller are modelled one by one, each against the little of
its surroundings that it sees.  A vendor meets a queue that takes updates in
order and loses the rest when a refresh is cut anywhere, which is what
`UpdateQueue` and `Poller` say of the real one; `Mediator` meets tasks that
receive, drop or send an update; `Interface` meets a task that may suspend a
row at any time.  Tables that several parts write are modelled where they are
shared: the rows of one chat in `Interface`, the table of things in
`SubredditVendor`, the events of one chat in `SubredditPreferences`.

* Time is a clock in coarse units where durations are compared (`Mediator`,
  `RedditsaveClient`), an age in `SubredditVendor`.  There it passes only while
  a refresh rests or has cleaned, because a refresh takes seconds and the ages
  are days.
* `Mediator` interrupts a goroutine exactly at its timeout, and assumes
  `Timeout <= TTL`, which the defaults satisfy (`TimeAssumption`).
* `MediaPipeline` takes a size that a site declares for the real one.
* `SubredditPacing` keeps ratios as fractions and `SubredditSuggestions` has
  integer histograms in which no subreddit is more frequent than another, so
  that its normalisation in floating point does not reorder.
* In `DvachVendors` the task sends a post (`Send`) and stores its offset in a
  step of its own (`Store`); a refresh may end in between, and the post is sent
  again.  `SubredditVendor` has one step for the two: what `Remembers` says is
  about what was sent *and* stored, and that a failed store repeats one message
  at most is `AtMostOneUnstored` of the poller.
* `SubredditSuggestions` answers with fewer names than were asked for by a set of
  names each of which belongs to some ID (`Owners`), which is all that a list cut
  in the order of a map comes to; whose row could not be read is a set of the
  step that writes (`missed`).  The data of an update carry the time its refresh
  began, as an age.
* `Interface.List` is one step for the queries of a list and its sending.  Nothing
  but tasks that suspend could come in between, and a list that is old when it
  arrives is one that was current and then went stale, which buttons in a chat do
  anyway.
* A DELETE of events visits the rows of the table one by one (`Remaining` of
  `SubredditPreferences`).
* `sort.Sort` is modelled by what it returns: the increasing list of the numbers
  of the posts, which are distinct (`Increasing`).
* The loop that writes suggestions takes the places of the list whose subreddits
  have no row and could be looked up, in their order, up to the limit (`Places`,
  `FirstOf`).
* Sub IDs in `Interface` are sequences of tokens, one of which may be the
  delimiter.  The two of the run do not contain it; what becomes of one that does
  is the theorem `TypeCorrect` (below), and a run with a third header would
  exceed its time.
* Every storage statement and every call to Telegram in `SubredditPreferences`
  may fail; so may everything in `Mediator`.

In `TaskExecutor` goroutines are counted, not named: those of one key in one
phase are alike.  Definitions with a comment that begins "Variant" are plausible
mistakes, used to test the properties: `PROJECT.json` says which property each
of them breaks.

## Runs

| run | shows | bounds |
|---|---|---|
| executor | agreement of keys and goroutines, Close waits, liveness of Submit and Close, refinement of KeyedExecutor, which includes mutual exclusion | 3 keys; no call of Submit while 4 goroutines exist |
| queue | order, termination of both sides, refinement of UpdateStream | 4 updates; a channel of 2, and one of 0 |
| commands | no loss, at most one repetition, at most one late message, offsets only grow, an active row is left without a task in known ways only, refinement of ItemDelivery | 1 header, 2 lives, 2 items, every command and fault, 1 crash, close |
| restore | active feeds are polled and every item arrives, across a crash | 2 feeds, 1 crash, no faults, no suspension |
| rotation | each active subscription gets its turn | 2 headers of one feed, suspend, resume, failing vendors |
| clients | one owner of the token, no rejected token reused, attempts bounded, requests end; one call in the lock, the time of the refresh grows, calls return | 3 requests, 1 of them cancelled anywhere, 1 retry; 3 calls, 1 cancelled anywhere, interval 1, clock to 2 |
| media | no duplicate sent, no file removed in use unless Close came before the first call, waiting tasks are answered, shutdown ends; what is sent fits the way it is sent | 2 copies of one medium, with and without deduplication, Close before, between and after the calls, timeout and TTL 1, clock to 2; every source and type, 11 sizes on both sides of each limit, declared or not |
| vendors | order, a post sent again only if no sending of it was stored, nothing skipped; nothing sent again while it is listed, sent IDs do not pile up; the percentile splits the table at the share; nothing chosen is suggested, the best come first, once per interval | a catalog or a thread of 5 posts, 4 of which match, queue of 2, 2 sendings that are not stored; 2 chats with either choice of options, 2 things, batch and queue of 2, TTL and cleaning interval 1; 4 things with up to 3 votes, any of 4 presses; 3 related subreddits, 2 of them rated from -1 to 1, lists of 1, interval 1, any row unreadable and any names missing |
| users | no command lost but at most two per end of the process, none repeated but after one, every command executed, Close returns; buttons that lead back, act on their own subscription and offer what applies; one preference per reader, current counts, links that lead to the update asked for | 5 updates, 4 of them commands, 1 restart, interrupted handlers; 2 subscriptions that differ in case, as the database tells it and as it does not; 2 readers with 2 rows of events, 1 reader with 4, 2 updates about one thing, a failure between any two steps |
| lost_wakeup, stale_data, close | disagreements 1 to 3, below | the smallest that shows each |

*Several modules in one run.*  The parts of `Clients`, `Media`, `People` and
`Vendors` share no variable in the models, and what they share in the
program is modelled inside one module.  A behaviour therefore moves one of them
only: `part` is chosen at the beginning, and the others stay in their initial
states.  (`Vendors` itself interleaves its parts, and so do the theorems about it;
the choice is that of `MCVendors`, where it is called `mover`.)  The reachable states are those of the parts one after another, not their
product, and each part's properties are checked for the part that moves; of the
others they hold as they do initially.  Fairness is stated per part, on the steps
that this part's module says are fair.

*Properties of several parts.*  Promises that belong together are conjunctions of
named parts, each defined and explained in its module: `AllReturn`
(SubmitReturns, KeyGivenBack, CloseReturns), `BothReturn` (VendorTerminates,
RefreshReturns), `ClientsInvariant` (both type invariants, OneInside),
`PipelineInvariant` (type invariant, SentFits), `VendorsInvariant` (type
invariants, InOrder, NothingSkipped), `Remembers` (ResentOnlyAfterAbsence,
SentIsRecent), `Suggests` (ChosenNotSuggested, BestAreSuggested,
OncePerInterval), `NoneWaits` (the bot's CommandsExecuted and CloseReturns),
`UsersInvariant` (type invariants, Manageable, OnePreference,
MarkupIsCurrent), `CommandsCounted` (LostAtMostTwo, RepeatedOnlyAfterStop) and
`ButtonsAct` (PressActsOnItsOwn, ListedButtonsApply).  `PROJECT.json` has a
mistake for each part that breaks it.

*Why the bounds are enough.*  In the executor three keys let one be submitted,
one leave and one contend for the lock at once, and four goroutines let a key
have one that drains beside one that runs.  In the poller a second life of a
header is what an in-flight refresh can confuse; a second item is what makes
"one" in the bounds on repetition and lateness different from "all"; one crash
is enough as a restart forgets everything but the table.  Two rows of one feed
are what the order of ShiftSubscription is about.  In the queue four updates
exceed what the channel and the hands of both sides hold (2 + 1), so both sides
wait in turn; without a buffer every one of them is handed over.

For the token three requests are one that holds it and two that contend, and one
retry distinguishes the first attempt from the last.  For the cookie a clock to
2 with an interval of 1 lets a call read the clock, wait while another
refreshes, and go on with an old time.  In the mediator two copies are what can
race for a hash, and a clock to 2 with a TTL of 1 lets a file expire; that
neither number matters is proved.  Five posts with one that does not match, and
a queue of two, leave updates on both sides of the queue when a refresh is cut;
two sendings that are not stored are one post sent three times, or two posts
sent twice.
Two chats are what it takes for one to clean what the other is about to look up.
In the pacing four things give ties, an inner and two outer ranks.  Two users
and two updates of one thing are what a count, a link and a preference may be
confused about.  In the bot two commands fill the hands of the goroutines, a
third and a fourth wait in the batch and at the site.

*Fairness.*  Goroutines are scheduled and their calls return (requests and
statements have limits of time): weak fairness per goroutine.  The lock of
`flu/syncf` is a channel of capacity one, whose blocked senders the runtime serves
in order of arrival: strong fairness for taking it.  A task is required to
return only once its context is cancelled.  A goroutine of the mediator ends at
its timeout at the latest (weak fairness of its steps); a request of the Reddit
client is answered, as the transport has time limits, and its sleep is over some
day; handlers of commands return, by themselves or with the error of a timeout.  Nothing is assumed of the supervisor, readers,
sources, faults, cancellation and crashes.

*What liveness leaves out.*  Some liveness properties name, as an alternative, the
one state from which the code has no way out, each a disagreement listed below: `TokenLost` (RequestsEnd), `LockLost` (CallsReturn), `Stranded`
(WaiterServed and the mediator's CloseReturns) and `Deaf` (`NoneWaits`).  The runs
show that there is no other.  In the same way one safety property exempts a state
that is a disagreement: `Late` (FileKeptWhileUsed).

`CHECK_DEADLOCK FALSE` is set everywhere as the system may rest: after Close, after
a refresh returned, or with a source that publishes nothing more.

### Disagreements found

With a run that shows them:

1. **lost_wakeup.**  A task that finds no active row returns and then removes its
   key.  A Resume in between updates the row and calls Submit, which finds the
   key and drops the task (`core/task.go` 62).  The subscription is active and
   nobody polls it.
2. **stale_data.**  After Delete and a new Subscribe a refresh in flight writes
   the old data, options included, into the new row.
3. **close.**  Closing between ShiftSubscription and GoSync leaves the task
   reading a channel nobody will close; shutdown hangs.

Noticed while modelling.  The models behave so, and their properties are stated
such that they hold all the same; no run is kept for these:

* the body of `Tx` and `EventTx` gets a handle on the database and not on the
  transaction (`sql.go` 89, 128): a Resume that reports an error has resumed the
  row, and a preference may be deleted without being replaced;
* the cancel function of GoSync does not wait for the goroutine, against its
  comment; the poller tolerates it, as the vendor ends by itself;
* a Reddit request whose context ends may drop the token instead of putting it
  back, and no later request gets one (`TokenLost`);
* when the context ends just as the lock of `flu/syncf` is taken, the caller gets
  a function that does not release it (`LockLost`);
* Mediate during Close counts a goroutine that does not start, and Close waits
  for it (`Stranded`); the configured concurrency limits nothing; a medium whose
  update is dropped or fails is taken for a duplicate of itself by the next
  refresh and never sent;
* a mediator that is closed before its first call has no context to cancel; a
  call that comes later makes one, runs, is not waited for, and loses its file
  to the Close of the blobs (`mediator/impl.go` 63 and 265-270, `Late`);
* when srstats names fewer subreddits than it was asked for, the list is cut before
  it is sorted and names are put down to the scores of others
  (`subreddit_suggestions.go` 236-245); a subreddit is passed over on any error of
  GetSubscription and not only when it is not found (167);
* an inverted test refuses the imgur pages it is to resolve; the minimum size is
  neither applied to media sent by URL nor to empty files;
* option `t` without `!m` writes a medium that does not exist, which panics on the
  task's goroutine, where nothing recovers (the action Panic); `!m` hides media,
  while the README says that it adds text;
* few critics push the wanted share of a subreddit below zero, whereupon
  everything passes;
* the buttons of a subscription whose sub ID contains "+" do not work; reading
  ignores case and writing does not, so that with two subscriptions that differ
  in case a notification names the wrong one; the notification of a suspension
  may overtake that of the resumption that followed it;
* a handler whose request times out ends the goroutine that receives commands:
  the bot is deaf from then on and cannot be closed (`Deaf`).

## Proofs

`TaskExecutorProofs`, for every set of keys that does not contain the two names
of lock owners (`KeysAssumption`; the bound on goroutines plays no part):

* `TypeCorrect`, `MutualExclusion`, `NoKeyLeftBehind`: `Spec => []TypeOK`,
  `[]OneWorkerPerKey`, `[]KeyHeldByGoroutine`;
* `CloseJoinsGoroutines`: `Spec => []NothingRunsAfterClose`;
* `Refinement`: `Spec => KeepsPromise`.

*The argument.*  None of the properties is inductive.  The invariant `IInv` adds
who holds the lock (Submit from "locked" to "spawned", or the one goroutine in
phase "locked" that `mu` names), and that a key is registered exactly when one
goroutine will give it back, *except* for the key Submit is adding, whose
goroutine already exists.  Deletion by a goroutine excludes this exception
because it holds the lock; so the key it deletes is the one it is counted for.
That Submit and Close do not overlap (`NoSubmitWhenClosing`) is what the
refinement needs: a goroutine never starts after the stop.  Three lemmas say
what a step does to the counts of goroutines, one lemma per action says why it
preserves the invariant.  `IInv` was checked with TLC on the instance of the run
`executor` before it was proved.

That Close returns after the last goroutine needs that the wait group counts the
goroutines of all keys.  A sum over keys would be an induction over data; instead
the goroutines of a key in a phase are numbered, `Goroutines(w)` is the set of
all triples of key, phase and number, and the wait group is its cardinality
(`WorkCountsGoroutines`), so that `Done` is never called once too often either.
What a step does to one count then adds or removes one
element (`OneMore`, `OneFewer`) or exchanges one for another (`AsMany`), and the
library's theorems on finite sets do the rest; an empty set is no goroutine
(`NoneCounted`).

`PollerProofs`, for every set of headers and feeds, every assignment of the one
to the other, all faults and any number of births, items and crashes:

* `Typed`: `Spec => []TypeOK`;
* `NoLoss`, `RepeatsOne`, `LateOne`: `Spec => []DeliveredBeforeStored`,
  `[]AtMostOneUnstored`, `[]AtMostOneLate`;
* `Offsets`: `Spec => OffsetNeverRegresses`;
* `Refinement`: `Spec => KeepsDelivery`, the poller implements `ItemDelivery`;
* `OneLoop`: `Spec => []OneLoopPerFeed`;
* `OrphansAreKnown`: `Spec => NoOtherOrphans`, how an active feed may come to be
  without a task.

The assumptions are that headers are finitely many (`HeadersAssumption`, without
which the ranks of a table mean nothing), that the set `Data` contains what rows
can hold within the bounds (`DataAssumption`, only `Typed` needs it) and that the
executor's two labels are not feeds (`ExecutorAssumption`).

*The argument of the first six.*  A task works on a copy of the row that
ShiftSubscription gave it, while commands change, delete and create rows.  The
invariant `IInv` says of the copy what the first two properties say of the row
(`Agrees`), that copy and row are at the same offset wherever they descend from
the same Subscribe, and that the copy is of the earlier one where they do not
(`Fits`): a feed has one loop, and only loops write offsets.  A loop that is
about to store an offset has sent the item; one that is about to send has sent
nothing late, and what it will send had been published when it began.  A row
created under a key of which a task is still working on a former life descends
from a Subscribe of which nothing was sent (`ItemsKnown`), so neither is mistaken
for the other; what the run `stale_data` shows, that the task may then overwrite
the new row's data, breaks none of the others.  One lemma per kind of step
(sending, storing, changing a status, removing, creating, moving on, a stop)
preserves the invariant, and the same lemma says that no offset moved back
(`Forward`) and which step of the promise this is (`Promised`).  `IInv` was checked
with TLC on the instance of `commands` and on one with two headers in one feed
before it was proved.

*The promise.*  `ItemDelivery` sees of the poller the rows, as on, off or none
with an offset, and what was sent; not the tasks, the copies of rows or crashes.
So a crash, a refresh that begins, fails or ends, and every step of the executor
are stutters, and each write of a loop has to be one of three: the offset it sent
(`Store`), the offset that is there already (a stutter), or, where the row was
created anew meanwhile, where the removed subscription had been (`Revert`).  That
nothing else can happen is the content of the theorem.  A message sent again
leaves no trace in a set, so that the refinement says of repetitions what it says
of offsets: the next item goes out only after the last one was stored.

*The executor in the composition.*  `Poller` keeps one `loop` per feed, which is
right only if the executor never runs two tasks of one feed.  Each step of the
poller is a step of its executor or leaves it alone (`ExecutorSteps`), so the
theorems of `TaskExecutorProofs`, instantiated for the poller's variables, hold of
the composition (`ExecutorInductive`); a crash puts the executor back to its
beginning.  With them a goroutine of a feed is in phase "running" exactly when
the feed's loop has not ended (`LoopsMatch`), which is `OneLoop`; after Close there
is none.

*Active feeds.*  That every feed with an active row has a task, or a command on
its way to submit one (`Awaited`), is false, as the run `lost_wakeup` shows.  What
is true under all commands, faults, crashes and closes is a statement about
steps: the step after which a feed is `Orphaned` and was not before is a Submit
dropped because the ending task still holds the key (`LostWakeup`), a loop that
returns because ShiftSubscription failed or a deadline was missed (`GivesUp`), or
a Resume whose second statement fails after its first has written (`ResumeCut`);
once Close has cancelled the tasks nothing is claimed.  The proof goes by what
a step does to the three things involved, rather than by its name: a row becomes
active only by a command that then submits its feed (`NewActive`, `WasActive`;
`Bystanders` for the steps that write no row), a loop that ends with active rows
left gives up (`LoopEnds`), and a wait that ends without a task was dropped or cut
(`WaitEnds`).  A crash ends all tasks and makes every feed awaited by the restore.
That RestoreActive misses no feed needs that the numbering of feeds by their least
header is one to one, by the well-foundedness of the natural numbers
(`LeastNumber`, `OldestExists`).  `LoopsMatch` and the executor's invariant were
checked with TLC on both instances of `MCPoller` before they were proved.

`UpdateQueueProofs`, for every capacity of the channel and every number of
updates (`QueueAssumption`: both are natural numbers):

* `TypeCorrect`, `Order`: `Spec => []TypeOK`, `[]HandledInOrder`;
* `Refinement`: `Spec => KeepsStream`.

*The argument.*  That the next update is the one after the last handled is not
inductive: it needs that the channel holds the successors of the update the task
has taken, one after another, followed by errors only (`ChannelInOrder`).  This
is preserved by a send because until the vendor fails every update it submitted
is handled, in the hand or in the channel (`NothingLost`).  The refinement needs
the converse for failures: once the failed vendor is done its error is still in
the channel, or there was no room and the poller is being stopped
(`FailureIsSeen`).  For that the vendor's context must not be done on its own
account while the task reads, which `WaitGroupCounts` says: only the end of the
goroutine or the leaving task releases it.  So an empty closed channel means a
vendor that completed and whose updates are all handled.  Appending and taking
the tail are the library's `AppendProperties` and `HeadTailProperties`; each part
of the invariant was checked with TLC for capacities 0 to 3 first.

`MediaProofs`, for every finite set of media, all hashes and any times
(`MediaAssumption`, `TimeAssumption`: the timeout does not exceed the TTL):

* `TypeCorrect`, `NoDuplicates`, `FilesKept`: `Spec => []TypeOK`,
  `[]NoDuplicateDelivered`, `[]FileKeptWhileUsed`;
* `WhatIsSentFits`: `MediaSpec => []PipelineInvariant`.

*The argument.*  Whoever passes the table of hashes is alone with its hash until
it is delivered (`Unique`): the look-up and the insertion are one transaction,
and what passed was answered "media" at most.  A running goroutine is not older
than the timeout and its file is not older than the goroutine (`Young`), so the
file is not older than the TTL and `alloc` keeps it (`AllocEffect`).  The
shutdown removes files only when the wait group is empty, and it counts every
goroutine that runs (`Counted`, by the library's theorems on cardinalities), so
none is left (`CloseStep`).  Unless the context was never made: then Close
waits for nothing, as nothing runs yet, and what is called afterwards runs in a
context that nobody cancels, which is `Late`.  A goroutine runs only in a context
that was made, and in a cancelled one only until Close has waited (`Progress`), so
the file of one that works on it is young, or gone for having come `Late`
(`Fresh`, `Swept`).  Here the assumption on the times is what the proof needs and
the code does not check.

*What is sent fits*, for any sizes, any sequence of converters and any limits
such that a type's limit by URL does not exceed its limit as a file, as in
`vendor/github.com/jfk9w-go/telegram-bot-api/sendable.go` 52-66.  The size in the
metadata is what a site declared, what a copy has, 0 or unknown, and the pipeline
does not remember which.  The invariant says that it is nevertheless the real one
or no positive number (`Measured`), because a reference that brings metadata
brings those of what it leads to (`Declared`); a converter replaces the medium
together with its metadata.  So a positive size within the limit by URL is real,
and everything else is copied and measured once more before it is sent.  It
rests on what the models say of sites: a size that is declared is 0 or true.

`SourcesProofs`.  For every set of requests, number of retries and choice of
contexts that end: `TypeCorrect`, `Ownership`, `NoReuse`.  *The argument.*  A
rejected token is in nobody's hands and not in the channel (`NotRejected`).  The
step that rejects one preserves this because its holder is the only one
(`OneOwner`), and the new token of an authorization is larger than all before.

For every set of calls, interval and clock: `Exclusion`, `Monotonicity`, with the
clock and the name of the free lock as `CookieAssumption` of `Clients` says.
*The argument.*  The call that refreshes has found its clock ahead of the last
refresh (`Ahead`), and no other call moves it meanwhile, as it would have to be
in the lock (`OneInside`).  The action property follows from the two.

For both side by side: `BothSafe`, that is `ClientsSpec => []ClientsInvariant`,
and `RefreshesForward`.  A step of the composition is a step of each client or
leaves it alone (`StepsOfClients`), so the conjunction of the two invariants is
inductive.

`InterfaceProofs`, for every set of headers, whatever they contain
(`HeaderAssumption`: a header has three parts): `TypeCorrect` and `OwnButtons`,
that is `Spec => []TypeOK` and `Spec => ButtonsAct`.  *The argument.*  A button
carries the formatted header it was made for (`Carries`).  What parseHeader finds
in one is that header if no part of it contains the delimiter (`Plain`) and nothing
otherwise (`FormattedIsParsed`): a text is split in three exactly if it has two
delimiters, and the formatted header has two besides those in its parts.  The
number of delimiters is a cardinality, and the library's theorems on
concatenation and sub-sequences say what is at which place.  So a catalog whose
query contains "+" has buttons that do nothing, and never buttons that do
something to another subscription.

`AlwaysManageable`, that is `Spec => []Manageable`, says of headers without the
delimiter that they have a button that undoes what was done last.  It needs
`Distinguished`: no two headers are the same for the database, whatever case it
ignores.  Without it the property is false: of two subscriptions that differ in
case a notification may name the other, which then has no button for its state
(see the disagreements).
*The argument.*  `Manageable` speaks of moments when no notification is under
way.  Its strengthening `Manages` also says what the notification under way will
offer: while a command tells of a change (`Acted`) the row has the status the
button is for, unless a task has suspended it since, in which case that task's
own notification is pending or lost; and whatever is active can be suspended
even while the notification of its former suspension is still to come
(`Undoable`), as buttons stay in the chat.

`SubredditPreferencesProofs`, for every finite set of readers, any messages and
things and any number of events (`PreferencesAssumption`):

* `TypeCorrect`, `OneEach`, `ButtonsShowStored`: `Spec => []TypeOK`,
  `[]OnePreference`, `[]MarkupIsCurrent`;
* `LinkFinds`: `Spec => LinkLeadsToRequest`.

*The argument.*  A press is several statements without a transaction, any of
which may be the last.  `IInv` follows them: once the old preference is deleted
the reader has none under this message until the new one is saved (`Cleared`),
so there is never a second; the buttons of all messages but that of the command
in progress, and but those whose last command failed, show the number of rows
(`Current`); and the last request of a reader for a thing is the one that was
kept last (`Kept`), although rows are deleted in between.  The type of the
buttons needs that they count no more than there are readers (`Bounded`), which
one preference each implies: the rows of both kinds under one message map one to
one to readers (`CountBound`).

*Induction over data.*  What DELETE leaves of a table is a recursive function
of the number of rows, so what it returns is an induction.  The library's
theorem takes an operator, which the provers cannot instantiate; but stated for a
*set* of numbers it takes none, and in this form it follows from the
well-foundedness of the natural numbers (`NaturalInduction`).  With it the
function is shown to exist (`RemainingDefined`: for every length there is a
function on the shorter tables that satisfies the equation) and to select
(`RemainingSelects`: what remains are the rows that do not match, in their
order).

`PeopleProofs`, for every set of commands among finitely many updates
and any number of ends of the process (`CommandsAssumption`): `Counts`, that is
`Spec => []CommandsCounted`.  *The argument.*  There is a position: what is
before it was handed over in this life of the process or confirmed in an earlier
one, and the batch continues it one by one (`BatchFollows`).  What is before it
and not confirmed is executed or in hand (`Held`), so that a request, which
confirms up to the position, loses nothing; an end of the process loses what is
in hand, and that is what one channel and one handler hold.  What is behind the
position or in hand has not been executed in this life (`Counted`).

And for what people do side by side (`PeopleAssumption`): `PeopleSafe`,
`PeoplePress`, `PeopleLink`, that is `UsersSpec => []UsersInvariant`, `ButtonsAct`
and `LinkLeadsToRequest`.  *The argument.*  The lemmas on steps of
`InterfaceProofs` and `SubredditPreferencesProofs` are instantiated with the
variables of `People`.  An instance of a proof module has definitions of its own,
so four lemmas say that its initial states and its steps are those of the
instance that `People` runs (`DistinctSame`, `CasesSame`, `ReadersSame`,
`ReaderSame`).  Where the database tells case apart, headers are `Distinguished`
by themselves (`ToldApart`).  The one reader who presses more often is one of the
readers, so what holds of him alone holds of all (`OneIsSome`).

*The vendors*, in the last parts of `SourcesProofs`: with `VendorsSpec`, which
interleaves the four of them in any way, `VendorsSafe`, `ShareSplit`,
`NeverForgets` and `Suggested` are `VendorsSpec => []VendorsInvariant`,
`[]SplitsAtShare`, `Remembers` and `Suggests`, for every value of the constants.
The assumptions are those the modules state, which say what the code gives:
bounds and intervals are natural numbers, the batch and the suggestions' interval
not 0; of the table of a subreddit and the sent IDs that they are finite and not
empty where a percentile is asked for, as the thing in hand was saved before, and
as the code does not boost without sent IDs; of histograms that they hold natural
numbers.  `VendorsInvariance` has the invariant, the conjunction of one per module.

*2ch.hk.*  A vendor runs ahead of the task by a queue, and an interrupted refresh
forgets what is in it, so there are two offsets: the one in the row and the one
of the refresh.  That no match is passed by (`NothingSkipped`) speaks of the
first only.  `DvachInv` says which matches are where: what the row's offset has
passed is sent; what the refresh has passed is sent or in the queue (`NoneLost`);
and what neither has passed and is below anything still listed is itself still
listed (`NoneAhead`).  The last is what sorting is for, as it needs that the
listing increases, so that a step takes the least (`ListingAhead`).  "Passed" is
below or at the offset for a catalog and below it for a thread (`Past`), because
the one stores the number of the last post and the other the next.

Between sending and storing there is a third place, the hand of the task: its
post is behind the offset of the refresh, ahead of the row's and before the queue
(`InHands`).  A refresh that is cut there leaves a post that was sent and that no
offset has passed.  Hence what was sent is passed by the row's offset or is one
of those (`SentPassed`), and nothing that was sent is ahead of what may follow it
(`SentBefore`); the two give `InOrder`: a post comes after another that is its
equal only if that one was not stored.

*Subreddits.*  Which things were sent is kept in as many copies as a chat has
updates under way: in the row, in the refresh and with each update in the queue,
and each may become the row.  `SubredditInv` says of every copy that it holds
what was relayed, except what was absent from all listings for longer than
ThingTTL (`Complete`), and nothing older than that when it was cleaned
(`Recent`).  Cleaning drops what has no row in the table, and the table is shared:
another chat may delete a row or bring it back at any time.  The invariant
therefore relates the column `last_seen` to the age of the last listing
(`AgesAgree`), and says of what a refresh has still to look at that it was just
listed (`RestKept`), so that none of it can be missing from a copy for being old.

*The share.*  The percentile is the least number of votes whose rank is above
the limit.  The greatest number of votes below it, or none, has a rank that is
not; so what has more votes than the percentile is less than the share, and what
has as many or more is not (`PacingSplits`, with the count of a table split at a
number, `Counts`).

*Suggestions.*  Nothing is suggested that has a row because the rows are read
when the message is written, as the code does, and not when the list is made.
What is left out is not better because the list descends and the message is its
beginning, of the places without a row and whose row could be read (`WriteType`,
`BestFirst`).  The code orders the scores of the IDs, so this is claimed only where
the names are those of the IDs (`UpdatesType`); otherwise the update carries no
scores, and nothing is promised of it.  That scores can
be compared at all needs that they are integers; they are sums over a finite set,
and the fold of the library is a choice of a function that satisfies an equation,
so that it exists and yields integers is again an induction (`FoldIsInt`).  What is
stored is the time at which the refresh began, and the interval is counted from
there: messages themselves may be closer by the time a refresh takes.  That
refreshes that wrote are an interval apart needs that the clock stored is not
ahead of the one of the last message (`Spaced`), unless storing it failed.

The lemmas on `Increasing` (`OfIncreasing`: it lists the set and increases; by the
library's theorem that an injection between sets of one size is onto) serve the
first and the last of these.  `DvachInv` and `SubredditInv` were checked with TLC
before they were proved.

*Only model-checked.*  Liveness, which is outside the prover's reach, and with it
`AllReturn`, `BothReturn`, `NoneWaits` and the other properties of that kind; and
`ActiveFeedsArePolled`, which the run `restore` checks where nobody suspends and
nothing fails, and which is false elsewhere: what is proved instead is the list
of the steps that break it (`NoOtherOrphans`).  Every other invariant and every
action property of a run that passes is stated by a theorem.

## Not modelled

Not modelled, because it keeps no state that anything depends on afterwards:

* wiring and configuration (`core/poller.go`, `core/interface.go`,
  `core/storage.go`, most of `cmd/hikkabot`), which builds the objects once;
* HTTP and the decoding of JSON and HTML in the clients of dvach, srstats,
  Reddit and Redditsave, whose answers are inputs of the models;
* hash functions, FFmpeg and aconvert, which are their outcomes;
* the formatting of messages, captions, sizes and dates;
* the floating-point normalisation of suggestions;
* metrics and logs;
* of the Telegram library flood control and questions: no command asks one.
