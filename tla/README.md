# Formal models of the Discord gateway

TLA+ models of `herrscher-discord-gateway`, the Go package `discord`: the code
that turns Discord messages into work for an agent daemon, and the daemon's turn
events back into Discord messages. The models are checked with TLC on small
instances; what matters most is proved with TLAPS for every instance.

## The system

| Component | State it keeps | Operations | Talks to |
|---|---|---|---|
| **Websocket client** (`ws.go`) | connection, heartbeat acknowledged, sequence number, handlers in flight | run, session, dispatch, bounded, heartbeat loop | calls the router and the slash surface, one goroutine per event |
| **Router** (`router.go`, `router_threads.go`, `gone.go`, `sessionkey.go`) | messages waiting for a repo menu and their jobs | onMessage, ask, place, bind, fork, onBindPick, onChannelGone | state files, daemon (Create, Submit, Close), Discord (threads, menus), sinks |
| **State files** (`routerstore.go`, `allow.go`) | bindings, threads, parents, modes, repos; the allow list; a lock that refuses an unreadable file | persist and the changes made through it, load | the file system |
| **Sinks** (`sink.go`, `progress.go`) | per conversation: queue of steps, the ping acked, the last ping, the progress view | submit, await, drain, handOff, abort; ack, fail, noteUser, and the turn events | Discord (reactions, posts, deletions) |
| **Slash surface** (`slash.go`, `slash_commands.go`, `choice.go`, `mode.go`) | none of its own | /allow, /mode, /verbosity, /stop, components, session commands | state files, router, daemon |
| **Gateway** (`gateway.go`, `slashrun.go`, `lifetime.go`) | running or closed | BindSessionControl, Close, EmitTo, Notify | starts and stops the websocket, feeds the sinks |
| **Policies** (`access.go`, `address.go`, `idset.go`, `principal.go`) | none | permits, authorizes, addressed, mentioned | asked by the router |
| **Text** (`text.go`, `reference.go`, `topic.go`, `heads.go`, `message.go`, `session_language.go`) | catalogues | rendering, quoting, tokenising | everyone |
| **Adapters, commands, registration** (`adapters.go`, `commands.go`, `register.go`) | none | one Discord call each; wiring | host |

What is hard in it:

* Every websocket event has a goroutine of its own (`ws.go`, `bounded`), so
  message handlers, menu clicks, deletions and `/mode` interleave at every call
  of Discord or of the daemon.
* A sink has no goroutine: callers share its work. The lead passes from call to
  call while contexts end and steps panic.
* Turn events of several sessions arrive in one sink, which has one acked ping
  and one progress view.
* Discord may refuse any call; a state file may fail to be written; the process
  may die between any two steps.

What makes each component correct:

* sink queue: one step at a time, in order of submission, each begun at most
  once, none lost; every call returns; the mutex is never held while blocked;
* sink rendering: what the sink remembers is what Discord shows; an hourglass
  ends with its ping; only answered pings of the owner are deleted;
* state files: what was answered saved stays saved; the file never goes back; an
  unreadable file is not touched;
* router: a message reaches one session once; a binding is where the next
  message looks; a deletion ends the sessions of the room, and no others;
* websocket: one heartbeat at a time, dead peers noticed, reconnection for ever
  unless permanently closed; handlers bounded and waited for;
* gateway: one slash runtime, never one after Close, none left once Close
  answered nil;
* slash surface: one answer per interaction, and never an effect for somebody
  who could not be let in;
* policies: who is let in follows from the settings alone, and threads follow
  their channel; a message, a /stop and a choice find the same session;
* progress and answer: the message shows the end of what happened, within the
  limits of Discord; the answer is cut without losing anything.

## Modules

| Module | Models |
|---|---|
| `StepOrder` | what the queue promises, abstractly: steps in order, one in hand |
| `SinkQueue` | the queue of one sink, one action per critical section of `s.mu`; implements `StepOrder` |
| `SinkQueueProofs` | theorems of `SinkQueue` |
| `SinkRender` | what the steps do to Discord; a step is one action, as `SinkQueue` allows |
| `SinkRenderProofs` | theorems of `SinkRender` |
| `StateFile` | `persist`, `writeAtomic` and loading, for both stores |
| `StateFileProofs` | theorems of `StateFile` |
| `Router` | bindings, buffered messages, sessions and rooms, and the handlers that race over them |
| `RouterProofs` | theorems of `Router` |
| `Socket` | the websocket client: connections, heartbeats, backoff, slots for handlers |
| `Gateway` | the slash runtime around `Socket`: binding, closing, registration; composes with it and implements it |
| `GatewayProofs` | theorems of `Socket` and `Gateway` |
| `Slash` | slash interactions and clicks over the allow list |
| `SlashProofs` | theorems of `Slash` |
| `Access` | the access and address policies, the scope of sessions |
| `Topic` | which repository, thread name and files a message gives |
| `Intake` | the way of one message through `Access` and `Topic` |
| `IntakeProofs` | theorems of `Intake` |
| `View` | the progress message, and the answer in parts |
| `ViewProofs` | theorems of `View` |
| `MCSinkQueue`, `MCSinkRender`, `MCStateFile`, `MCRouter`, `MCGateway` | instances for TLC: symmetry and constant functions |
| `MCEdges` | `Slash`, `Intake` and `View` in one instance |

### SinkQueue

A job is a call of `submit` and the `sinkJob` it makes. `queue`, `draining`,
`waiting`, `promoted`, `lead` and `finished` are the fields of the same name;
`pc` is the place of the call in the code, `cur` the job it executes, `used` the
budget it has spent and `next` where it goes after `execute` or `handOff` (back
into the drain loop, to `await`, to `stoppedOutcome`, or out). An action is one
critical section of `s.mu` or one step outside of it. `parked` is the call that
holds `s.mu` while it sends on a full channel: nothing that takes the mutex is
enabled meanwhile. `abort` is one action; a panic under a `handOff` that was
called by `drain` meets two deferred aborts (`Abort`, `AbortAgain`).

A panic is not recovered in the package itself; the tests recover it, and so may
a host. `reaborted` records that a second abort has happened: from there on the
code promises less (see Findings), and the properties that it breaks say so in
their premise. It can only happen when a step panics, so `Faulty = {}` makes the
premise true throughout.

### SinkRender

`lastUser`, `acked` and `view` are the fields of the sink; `hourglass`, `cross`,
`deleted` and `live` are what Discord shows. Each ping has a `place`, from its
handler (`opening`, `buffered` behind a menu, `picked`, `refused` where its menu
could not be posted, `bound`, `submitted`) through its turn (`running`) to its
end (`answered`, `died`, `failed`, or `dropped` where it is lost). Of the router
there is what it submits to the sink and why: the sessions that are `bound`; the
one buffer of the conversation, which a later ping takes; the menus being posted
(`posting`) and those that failed late (`reporting`); and, once a menu stands, the
clicks that find no ping buffered (`ClickAgain`), whose job binds a session or
fails and delivers nothing. `submit` comes before `Note`, as in the code, so a
turn may open in between. Sessions run their turns in the order in which the
daemon took the pings; a turn opens with a human event and ends with a reply or an
abandoned event. `Progress` leaves to each turn whether the verbosity asks for a
view. What the view holds, `onReset` included, is in `View`; `localize`, which
picks a language, is left out.

`mishaps` is a history of how the conversation left the course its README
describes, one person who waits for each answer: `overlap`, a ping came while
another waited; `stale`, a turn opened while the ping the sink had noted last
was another; `used`, the work of a click on a used menu failed; `late`, a menu
failed whose ping was not buffered any more; and `refusal`, chosen in the first
state: Discord may refuse reactions, edits and deletions. No action is guarded
by it but for `refusal`; each property names the mishaps that break it.

### StateFile

The content of a store is the sequence of the changes made to it, so that the
properties see every lost or reordered one. `writer` is the holder of
`s.writeMu`; the change and the encoding are one critical section of `s.mu`
(`Mutate`). `writeAtomic` is the temporary file and the rename; both may fail,
and `Restart` may happen between any two steps. A rename that was done is taken
as durable: there is no `fsync` in the code, and power failures are below the
model. A missing file is an empty one.

### Router

A session's name is that of its slot (`sessionNameFor`), so a slot stands for
its session: `live` holds those of the daemon, `bound` those the bindings know.
A handler's `pc` says which call comes next; `task` is its `job`, `msg` the
message it will deliver. `GoneLook`, `GoneForget`, `GoneClose` and `GoneNext`
are `endConversation`, thread by thread, for the room whose deletion was
announced; Discord announces the channel only, and its threads go with it.
`todo` are the threads still to end, `ending` the room at hand, `victims` the
sessions found in it.
`OneAtATime` makes events wait for each other: what is wrong then is no race.

Left out: which repository a room works on (`KnownRepo` or a menu; what a text
names is in `Topic`), the policies (`Intake`: only messages that pass them are
received here), direct messages (a room with one person in it), a `Close` that
fails even when forced, a store that refuses its changes, and the restart of the
process. The memory read by one handler between two calls is read at once, the
optional `hydrate` of a blank message included.

### Socket and Gateway

`pc` is where `run` and `session` are: dialling, waiting for HELLO, identifying,
reading, waiting for a slot (`full`), stopping the heartbeat (`unbeat`), closing,
backing off, waiting for the handlers, done. A connection has a number, used in
turn, so that a heartbeat that outlived its connection could be told from that
of the next: `beat[c]` is the goroutine of connection `c`, which between the
swap of `acked` and its write is `swapped`. `permits` are the slots taken,
`workers` the goroutines in the wait group, which a handler leaves after it gave
its slot back. `owed` and `losses` are histories. Discord is the environment: it
sends, refuses, closes with any code, or falls silent (`FallSilent`) for ever.
`Nothing` is a payload that changes nothing here.

`Gateway` shares these variables: `Start` is `BeginRun` of the runtime's
goroutine, `Cancel` is the end of the context `run` has, and every other step of
the client is a step of the gateway. `closer[k]` is one call of `Close`: the
critical section (`Lock`), `cancel()`, and the wait for the runtime or for its own
context. `syncing` is the goroutine that registers the commands, with
`Backoffs` retries. The property `RunsTheSocketOnce` is `SocketSpec`: the
lifecycle implements the client's own specification.

### Slash

Each interaction has a goroutine, and may be interleaved with the others between
the gate, its work and its answer. `ask` is what is asked for, with the
arguments that change the list, `by` who asks. `told` counts the answers and
announcements that were tried (a response, a deferral, an acknowledgement),
refused or not; `fate` is what became of the answer at Discord, and is `refused`
where it refused the deferral, the response or the edit: nobody tries again, and
the caller is left without one. `effects` counts what the interaction did.
`free` is a history: its person could have been let in at some time since they
asked. That is the most the code can promise, as the gate and the work are two
steps: a permission that is taken away stops the next command, not the one that
passed the gate.

### Access, Topic and Intake

`Access` and `Topic` are operators, named as the functions. `Intake` calls them
in the order of `onMessage`: the mode of the room, whether the message is for
the bot, whether its author is let in, which session it goes to; a `/stop` or
the host's `Read` may come afterwards in the same room. Every decision chooses
the settings it reads when it makes it, and forgets them when no later one
depends on them, so that the instance can have all of them. `NameRepo`,
`NameThread` and `Collect` check the pure parts against what they promise: a
text is a sequence of characters of which only `<`, `>` and the space matter, a
token is an owner and a base name, a URL is one of Discord's or not.

### View

A line of the view is its tool, or the thinking, with a detail; of the wording
only the length counts. `sinceEdit` abstracts the clock: an edit was `"just now"`
until `TimePasses`. Every event ends in `flush`, which is held back by the pace,
refused, or goes through; `shown` is what Discord then shows, with `seen`, what
had happened by then. `chunkText` is a recursive function on the text, whose
parts are ranges of it.

## What is checked

| Run | Bounds | Shows |
|---|---|---|
| `SinkQueueCalls` | 3 calls, budget 2, no panic, fair | `LeadIsUnique`, `PromotionArrives`, `LeaderIsServed`, `ImplementsStepOrder`, `QueueDrains` |
| `SinkQueuePanic` | 4 calls, budget 1, one may panic | `StepsNeverOverlap`, `StepsAreKept` |
| `SinkRenderSafety` | 2 pings, 2 sessions, every refusal or none, all mishaps | `AckIsShown`, `IdleForgets`, `TidyIsNarrow`, `MarksAreTrue`, `NotedDiedKeepsItsPing`, `AnsweredIsCollapsed` |
| `StateFile` | 3 calls, any failures and restarts, fair | `SavedIsDurable`, `MemoryIsAhead`, `FileIsSafe`, `EveryCallReturns` |
| `RouterRaces` | 1 channel, 1 thread, 2 people, 2 messages, 2 clicks, deletions | `PingIsKeptOnce`, `OnlyTheGoneAreClosed` |
| `RouterSerial` | the same with 1 click, `/mode` and sessions that end; one event at a time | `GoneIsUnbound`, `LookupFindsIt` |
| `Gateway` | 2 connections in turn, 1 slot, 3 losses counted, backoff up to 2 s, 2 calls of Close, 2 bindings, 1 retry, fair | `HeartbeatIsOwn`, `ReturnsAlone`, `BackoffFollowsLosses`, `NilMeansGone`, `OneRuntime`, `StaysConnected`, `AllEnds` |
| `Edges`, slash | 2 interactions, 2 people, 2 sessions | `AnsweredOnce`, `OnlyTheAllowedAct`, `AddedStays` |
| `Edges`, intake | 2 people, a bot, a role, 2 rooms, 1152 policies; texts of 6 characters, 3 repositories, 2 embeds | `Admission`, `SessionsAgree`, `RepoIsTheOneNamed`, `ThreadIsNamed`, `FilesInOrder` |
| `Edges`, view | 2 tools, 4 events, 3 lines in a window, messages of 6 units, answers of 9 characters | `KeepsUp`, `FrameIsTrue`, `SummaryCounts`, `AnswerIsWhole` |

Some of these are conjunctions, whose parts are definitions of their own; the
mutants in `PROJECT.json` break the parts one by one.

| Property | Parts |
|---|---|
| `QueueDrains` | `EveryStepSettles`, `EveryCallReturns` |
| `StepsAreKept` | `NothingLost`, `RunsOnce` |
| `MarksAreTrue` | `HourglassIsAState`, `CrossMarksTheFailed` |
| `FileIsSafe` | `FileOnlyGrows`, `LockedIsUntouched` |
| `PingIsKeptOnce` | `BufferIsWhole`, `DeliveredOnce` |
| `HeartbeatIsOwn` | `OneHeartbeat`, `AckIsOwn` |
| `OneRuntime` | `FirstBindingStays`, `RunsTheSocketOnce` |
| `StaysConnected` | `DeadIsNoticed`, `EventIsHandled`, `ComesBack`, `RefusedIsFinal` |
| `AllEnds` | `StopsWhenTold`, `CloseEndsRuntime`, `SyncEnds` |
| `AnsweredOnce` | `ToldOnce`, `NobodyIsLeftWaiting`, `CoreIsAnnounced` |
| `OnlyTheAllowedAct` | `EffectsAreGated`, `LockedMeansNobody` |
| `Admission` | `IgnoredStaysOut`, `OffCoversThreads`, `OnlyTheEntitled`, `LoopsNeedAMention`, `ListingShutsNobodyOut`, `TheEntitledAreLetIn` |
| `SessionsAgree` | `SharedIsSaid`, `StopReachesMine` |
| `ThreadIsNamed` | `ThreadNameFits`, `OnlyOutsideIsKept` |
| `FilesInOrder` | `OwnFilesFirst`, `MirroredImagesOnce` |
| `KeepsUp` | `CleanIsShown`, `EditsArePaced` |
| `FrameIsTrue` | `PushHasALine`, `ShownIsTheEnd`, `ShownFits` |
| `AnswerIsWhole` | `PartsMakeTheText`, `PartsFit`, `ShortLinesStayWhole` |

The type invariants (`TypeOK`, `GatewayTypeOK`, `SlashTypeOK`) are theorems and
are in no configuration.

Why the bounds are enough for the cases that matter. In the queue, three calls
with budget 2 have a leader that goes round its loop and then hands over, a
waiter that is promoted, and one that left its step behind; with four calls and
budget 1 a panic meets a hand-over while others submit. In the rendering, two
pings are enough for one to meddle with the other's marks, at once or in turn,
with one session each: one that is bound from the start and one that is behind a
menu. In the files, two
writers race, and a third finds what they left. In the router, two messages are
a first and a second ping of a room, or a ping and one inside the thread it
opened; two clicks are a double click; a channel and its thread are a room that
goes and one that stays. In the gateway, two connections are the one a
heartbeat belongs to and the one it must not touch; one slot is a pool that is
full at once; three losses in
a row are counted (`MaxLosses`), so that a backoff of 1, 2 and 2 seconds is seen
to start, to double and to be capped; the
second call of `Close` comes before, during or after the first. The bound on
bindings (`MaxTaken = 2`) leaves room for the one that must not take effect.

`Edges` checks three modules that share no state. `part` is chosen in the first
state and says which of them moves, so its states are the sum of theirs and not
the product. Two interactions are one that is let in and one that takes its
person off the list. A message is in the first of two rooms, whose parent may be
the second. Four events fill a window of three lines and repeat one; six units
are less than three lines with their details need, so both limits cut. A text of
nine characters is cut into two or three parts of six, with newlines at every
place.

`CHECK_DEADLOCK FALSE` is in the runs of the router, where every handler may be
over and every room gone, and in the runs of the queue with a panic, where a
second abort may park a call for ever; in the run of the gateway, which is over
when its runtime is; and in `Edges`, where interactions, messages and turns end.
Elsewhere a system that has nothing left to do is a named step (`Quiescent`), and
a state without a successor is an error.

### Fairness

`SinkQueue.FairSpec`: weak fairness of each call's own steps. The Go scheduler
runs every goroutine, a step returns (each Discord call is bounded by its
context and the HTTP client's time-out), and `sync.Mutex` does not starve a
waiter. Nothing is assumed of contexts and of the lifetime: they may end or not.
`StateFile.FairSpec`: the same for `persist`; restarts are not fair, and a call
that was killed counts as over.
`Gateway.FairGateway`: the scheduler runs the goroutines of the client and of
the runtime, tickers tick, waits end, local writes return, a read of a
connection that was closed fails, dialling and reading fail once the context has
ended, and a registration call returns. That a handler ends is assumed, as in
`ws.go`, which waits for it without a limit; each of its calls is bounded where
it is made. Nothing is asked of the host: it may never bind, or close first.
`StopsWhenTold` starts at a client that was run (`pc # "new"`). Nothing is asked
of Discord: it may never answer a dial, never say HELLO, never acknowledge and
never close. Hence `DeadIsNoticed` starts at a connection that identified:
before that nothing but the context bounds the wait (see the hazard at
`ws.go:134`).

### Findings

Runs that TLC answers with a counterexample, each against a sentence of the
repository's README or of a test:

| Run | Property | What happens |
|---|---|---|
| `RouterParent` | `ThreadKeepsItsChannel` | a second ping in a thread makes the thread its own parent |
| `PushAndRead` | `PushIsNotRead` | where people have sessions of their own, the host's reader still gets the messages the push path delivers |
| `LateNote` | `DiedKeepsItsPing` | one person waits for each answer; a turn opens before its ping is noted, acks the ping of the last turn, which died, and its answer deletes that one |
| `LostAnswer` | `TidiedOnlyOnceAnswered` | Discord refuses a part of the answer, and the ping is deleted all the same |

`LateNote` is one person against the race of the handler with the daemon's turn
(`router.go:438-441`); the others need no race: the router's run handles one
event at a time, and the rest have one actor.

The models show more of the kind, by definitions that are in the modules and in
configurations that differ from the ones here by a line or two; they are not
kept as runs:

* `LockIsNotParkedOn` of `SinkQueue` fails with a panic: under `handOff` it aborts
  twice, the second abort lets a second leader in, and its promotion blocks with
  the mutex held;
* the properties of `SinkRender` with a premise fail without it. `overlap`: with
  two pings at once a second ack replaces the first, whose hourglass stays; the
  answer of one turn deletes the ping of the next, which then dies; a failure
  crosses whatever ping is acked, and another session's turn or failure takes the
  one progress view away. `stale`: a turn acks the ping before its own. `used`: a
  second click on a menu whose binding fails (`router.go:370-372`) crosses the
  ping that is running and drops its view, so that its progress message is never
  collapsed. `late`: a menu that fails once its ping was picked does the same, and
  one that fails once another ping took the buffer empties it
  (`router.go:235`), so that the later ping, which was acked, is never answered;
* `GoneEndsTheJob` of `Router` fails with `/mode support`, which forgets sessions
  it does not close, so the deletion of the room does not find them; and without
  `/mode` when a room is deleted between the daemon's Create and the save of the
  binding;
* `LookupFindsIt` fails when events overlap: a message in a thread that Discord
  has opened and the store does not know yet is bound under a per-person slot
  that no later message of the thread looks up;
* the buffer is keyed by the room while sessions are per person: the second of
  two first pings replaces the first, which was acked and is never answered.

What the code does that a reader of its README may not expect, met while
modelling:

* two repositories of different owners with one base name, both named in full,
  do not ask: the first of the list is taken, or a local checkout
  (`topic.go:40`; README: "Name none or two, and a select menu asks").
  `RepoIsTheOneNamed` leaves such messages out (`NamedTwice`): what is right for
  them is for the README or the code to say;
* the owner is refused outside the allowed channels and in ignored ones
  (`access.go:55-60`; README: "always obeys, whatever the allowlists say");
* `/mode normal` in a thread of a support or switched-off channel stores nothing,
  and the thread falls back to the mode of its channel;
* progress that was held back by the pace stays unshown until the next event or
  the end of the turn; a reset and an abandoned turn do not count for the pace;
* an edit that Discord refused does not count for it either, so while Discord
  refuses, every event tries one at once (`progress.go:103-107`; README: "one edit
  per 1.5 s"): `EditsArePaced` is about the edits Discord took;
* the name of a tool is not clipped (`progress.go:70`), and one line that is too
  long is sent as it is (`progress.go:141`): `ShownFits` rests on the assumption
  that the header and one line fit;
* an answer to a slash command that Discord refuses is not tried again: its
  caller is left without one;
* nothing bounds the wait for HELLO.

## What is proved

All for every value of the constants, from the named assumptions of the modules
(`QueueAssumption`, `RenderAssumption`, `FileAssumption`, `RouterAssumption`,
`SocketAssumption`, `GatewayAssumption`, `SlashAssumption`, `AccessAssumption`,
`TopicAssumption`, `IntakeAssumption`, `ViewAssumption`), which TLC evaluates in
the runs. Every invariant and every safety property of a step that a passing run
checks is stated by a theorem. Four theorems have a hypothesis on a constant:

| Theorem | Hypothesis | Why |
|---|---|---|
| `Refinement` | `Faulty = {}` | a second abort, which only a panic causes, makes two leaders |
| `LookupFinds`, `GoneUnbound`, and their `SoloInvariance` | `OneAtATime` | they are false where events overlap (see Findings) |

* `SinkQueueProofs`. `IInv` adds three things to the types. `PlaceInv`: a job is
  in one place (not submitted, queued once, in one leader's hands, or settled),
  whatever panics. `QueueInv`, as long as no second abort has happened: one call
  has the lead exactly when `draining` (`LeadInv`), a promotion is one token with
  the head of the queue, which has yet to act on it (`TokenInv`), and a leader
  whose own step is not settled has it at the head or in its hands
  (`ServeInv`). The last two are why a promotion never blocks and why a leader
  that steps down answers nil; neither could be seen from `LeadIsUnique` alone,
  which is not inductive. From it: `MutualExclusion`, `UniqueLead`,
  `PromotionIsSafe`, `LeaderServed`, `NoStepLost`, `StepsRunOnce`. `Refinement`
  is the safety part of `StepOrder`: every step of the queue, however its calls
  interleave and whichever contexts end, is a step of the abstract queue or none
  (`OrderStep`). It needs `OrderInv`: a call that has its answer is past
  everything it could answer again.
* `SinkRenderProofs`. `IInv` ties the turns to the places of the pings, so that a
  session that runs a turn has a ping that waits; from it `AckShown`,
  `SinkForgets`, `Narrow`. The rest is proved of the same specification, with
  any number of pings and sessions, and has its premises in the properties: as
  `mishaps` only grows (`MishapsGrow`), an invariant may hold until the first
  mishap that breaks it. `CalmInv`: without `overlap` one ping at most is
  outstanding and the view is of the running one (`Alone`); without `stale` too,
  what is acked is at work or was lost behind a menu, and only pings that were
  answered or lost are deleted (`AckIsOwn`), which gives `DiedKeeps` whatever
  Discord refuses; without `late` too, what is acked is at work. `ShownInv`
  says what Discord shows of it where nothing is refused: the hourglass is the
  sink's ack, the crosses are on the failed (`Crosses`), the view is the message
  of the running turn (`Views`). From both `MarksTrue` and `Collapsed`.
* `StateFileProofs`. `IInv` says that the only call between `Enter` and its end is
  the holder of `writeMu`, that what it encoded is the memory, and that the file
  is a prefix of it; lemmas on prefixes carry it through appends. From it
  `TypeCorrect`, `Durable`, `Ahead`, `Grows`, `Untouched`.
* `RouterProofs`. `DeliveredOnce` is not inductive: it needs `TokenInv`, that a
  message is with one handler, in the buffer of one room, or delivered, and
  `BufferIsWhole` needs `HandlerInv`, that a handler past its first action has a
  job. `OnlyTheGoneAreClosed` rests on `HomeInv` and `JobInv`: the parent the
  store has for a thread is its channel or the thread itself (see the finding
  `RouterParent`), and no thread outlives its channel; hence what
  `onChannelGone` takes for the threads of a deleted room is gone too
  (`GoneInv`). From it `TypeCorrect`, `Whole`, `AtMostOnce`, `OnlyTheGone`.
  Where events wait for each other, `SoloInv` says more: one handler is at work
  (`Alone`), in a room that is there and is a thread exactly when its job says so
  (`AtWork`); so were the jobs behind a menu when they were put there (`Waiting`);
  the store knows every thread but one that is being adopted (`Adopted`); and a
  bound slot is the one its user is looked up under, in a room that is there or
  whose end is being handled (`BoundRight`). From it `LookupFinds` and
  `GoneUnbound`.
* `GatewayProofs`. `SocketInv` adds to the types, `OneHeartbeat` and `AckIsOwn`
  where a connection may be open and has a number (`Connected`), what the last
  close code says of the next try (`Finality`), that every slot taken is counted
  by the wait group (`SlotsAreCounted`), and that handlers live only between the
  first connection and the return (`Peopled`). The last two are why
  `ReturnsAlone` holds: `run` waits for the group and not for the slots.
  `BackoffDoubles` rests on lemmas about powers of two, which no installed prover
  knows: they are numbers of subsets (`PowerOfTwo`), and a set with one element
  more has twice as many (`PowerDoubles`).
  `ImplementsSocket` maps every step of the gateway to one of the client or a
  stutter; it needs `RuntimeInv`, that a runtime which has not begun has a client
  which has not either. By it all of `Socket` is true of the gateway, and
  `NilIsTrue` combines it with `ClosedInv`.
* `SlashProofs`. `CallInv` says what is true of an interaction in each of its
  places; `StoreInv`, that whoever could be let in now could be at some time, is
  what carries `Gated` over the changes of others. `NoChangeIsLost` rests on it
  and on which steps count as a change of a list.
* `IntakeProofs`. `IInv` keeps what a decision settled for the next. `FailsClosed`
  is a lemma on the policy itself. `NobodyElse` and `EntitledComeIn` are the two
  halves of `permits`: whom it lets in was entitled, and who is entitled is let in
  unless a named reason turns them down. `SharingIsSaid` needs a second author, and the
  bot, which is never let in, is one. `RepoIsNamed`, `ThreadNamed` and
  `FilesOrdered` are about `matchRepo`, `threadName` and `attachmentsOf`, for
  every text, list of repositories and list of files (`TextInv`): each is a fold,
  `FoldAlong` gives the values along the way from its beginning to its end, and a
  predicate on prefixes is carried along: the repository that the text so far
  names (`Weighed`), the depth of the angle brackets and what they keep, the line
  that is being put together, the images seen so far.
* `ViewProofs`. Independent invariants of the edit, of the pace and of the window
  give `Keeping` and `PushIsSafe`. `SummaryIsTrue` sums the tools one by one.
  `FrameTells` keeps what the lines of the window tell (`HistoryInv`, `Tells`):
  the end of what happened, line by line with its count, whatever was pushed,
  counted up and cut off. `AnswerKept` shows that `chunkText` has a value
  (`SolutionExists`, backwards from the end of the text) and that it is a chain of
  ranges, each of which begins where the last one ended (`Chain`); that a short
  line is in one part needs the length of a line that runs past a cut
  (`CutLineIsLong`).

A conjunction whose parts are all proved has a theorem of its own at the end of
its module (`StepsKept`, `FileKept`, `PingKept`, `JudgedByOwn`, `RunsOne`,
`Answered`, `AllowedAct`, `Admits`, `Agreement`, `Keeping`).

What holds of all folds and of the recursive functions is proved without the
library's induction theorems, whose operator parameter the provers cannot
instantiate: a set of numbers that are counterexamples has a least element
(`HasLeast`), or a greatest, and that one is refuted (`Upwards`, `Downwards`).

Only model-checked: liveness and fairness, which the prover does not handle
(`QueueDrains`, `EveryCallReturns`, `AllEnds`, of `StaysConnected` all but
`RefusedIsFinal`, and the fairness that `ImplementsStepOrder` has beside
`Safety`).

## Plan

Done: the queue, the rendering, the state files, the router, the websocket and
the gateway around it, the slash surface, the policies and the intake, the
progress message and the answer; a theorem for every invariant and every safety
property of a step. What is left, in order:

1. `Refinement` for a queue with panics, up to the second abort: `StepOrder`
   drops steps one by one and knows no answer `panicked`, while an abort drops
   all of the queue at once; it needs that step first.
2. What remains of `MarksTrue` and `Collapsed` after a mishap, refusals first: the marks
   that may be left over are those of refused calls.
3. The map of sinks (`at`, `drop`) over several conversations, with steps of a
   dropped sink that run beside those of its successor.
4. The restart of the process in `Router`: it needs a model of what the daemon
   keeps of its sessions, which is not in this repository.

## Not modelled

Wording, layout, locales, emoji and heads; how a text is split into tokens and
what in it counts as a mention (a flag of the message); the text sent to the
agent, the quoted one included; the tree of options of the slash commands and
their declaration; the sequence number a heartbeat carries; the cost and the
duration in a summary: none of them decides what the properties are about.

The adapters and commands that are one Discord call each, and the wiring and
settings (`adapters.go`, `commands.go`, `register.go`), keep no state;
`Platform.Read` is the exception and is in `SinkRender` (`Overhear`) and `Intake`
(`Read`). `principal.go` hands the roles of an author to the host. The comment
checker under `tools/` is no part of the gateway.

Not modelled though it has state: the map of sinks (`at`, `drop`), and the
router's restart (see the plan). A power failure that undoes a rename is below
the level of `StateFile`. `PROJECT.json` lists every component with its reason,
and says at each hazard no property covers why.
