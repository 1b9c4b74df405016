# A TLA+ verification of cracked

`cracked` runs one Firecracker microVM per person on a single host. Inside each
machine a daemon, `agentd`, keeps a team of agents that talk to a model, use
tools, ask the person for approval and work on schedules. A chat server on the
host connects the person's browser and phone to their machine. The modules here
model the parts of it where goroutines, crashes, lost messages and clocks meet,
check them with TLC on small instances, and prove some of their invariants with
TLAPS for all instances.

A module, a run or a theorem named here is described in its own file too; the
comment above each property says which code it is about.

## 1. The system

### Components, their state and their operations

| Component | State it keeps | Operations | Model |
|---|---|---|---|
| VM registry (`internal/vm`) | `slots`, `byID`, one `VM` struct per machine; on the host the firecracker processes, taps, workspaces, run directories | Create, the boot steps and their rollback, the watcher, Delete and its ladder, PurgeWorkspace, DrainAll, killRemaining, Sweep | `VMRegistry` |
| Power (`vm/control.go`, `fc/client.go`) | the record's state against firecracker's own | Pause, Resume, Refresh, Inspect | `VMPower` |
| Agent team (`supervisor.go`, `loop.go`, `registry.go`) | the roster, the map of live agents, per agent an inbox, a conversation, a reload flag, a state | Get/start/makeRoom, sendTo, Run, turn, report, save, recycle, EvictIdle, Update, Delete, Add | `AgentTeam` |
| Gate and raised hands (`gate.go`, `interactions.go`) | pending calls with a channel each, batch grants, the hub of raised hands and its listeners, the count of waits | Check, Ask, await, Resolve, RevokeAll, Raise, Clear, Subscribe, addWait | `Gate`, `Hands` |
| Scheduled work (`schedule.go`, `routes_schedules.go`, `tools_schedule.go`) | schedules in memory and on disk, the zone file | plan, Add, Delete, the sweep and fire, RememberZone and rezone, roll-forward | `Calendar`, `CalendarWalk`, `Schedules` |
| Event log (`events.go`, `routes.go`) | a numbered log per agent, its subscribers, each client's Last-Event-ID | OpenLog, Append, ReadAll, Subscribe, stream, pump | `EventLog` |
| Numbered files (`snapshot_store.go`, `outbox.go`) | a counter and a directory per store | reserve, write, rotate, tell, resume | `Numbering` |
| Meter (`meter.go`) | token counters per agent, model and day, on disk | Record, FinishTurn, fold, save, OpenMeter, migrate | `Meter` |
| Spend (`internal/agent/usage.go`, `pricing.go`) | the last known totals of each machine | Update, Forget, the price of a model id | `Spend` |
| Conversation (`compact.go`, `repair.go`, `loop.go`) | the messages in memory, in the file and in the copy beside it | turn, adopt, save, load, compactIfNeeded, cutPoint, repairTail | `Conversation`; when it runs among the rest is in `AgentTeam` |
| Chat bridge (`bridge.go`, `pending.go`, `api.go`, the page) | cards, subscribers, the live consumer, the idle timer | reconnect, consumePending, resync, Subscribe, stopIfEmpty, history | `Hands`, which implements `CardBoard`; what a press becomes is in `Answers` |
| Feed, threads, approvals (`feed.go`, `threads.go`, `messages.go`, `approval.go`) | per connection a cursor and the asks it has shown | the polling sweep, the thread, the verdict's body | `Feed`, `Answers` |
| Apps on the machine (agentd's `apps*.go`) | the pushed session in memory and on disk, the MCP session, the cached tools, a cooldown | PUT /apps, listing, dialling, a call's permission | `AppsGuest`, `AppActions` |
| Apps on the host, accounts (`internal/chat/apps*.go`, `appsgw.go`, `v1.go`, `control.go`) | claims, tickets, the person's row, the provider's connections | ensureMachine, claim, push, settings, connections, staleApps, noticeApps, deleteAccount | `AppsHost`, `AppActions` |
| Tools, prompt, memory, skills, catalog, person, gateways, statistics, configuration, image and scripts | files, or nothing | single calls | not modelled: section 5 |

`PROJECT.json` lists every component with its files, and the hazards of this code
the properties are for, at their lines.

### How they interact

* The chat server asks the control API for a machine; the API calls the VM
  registry. A machine's goroutines are its creator, its watcher, any DELETE and any
  handler that pauses, resumes or describes it; they share the registry under
  `Registry.mu`, and the host and firecracker's socket without a lock.
* The chat server posts messages, verdicts and zones to `agentd`. A message goes
  through `Supervisor.sendTo` to an inbox; one goroutine per live agent takes it
  and runs a turn. Agents call each other through the same `sendTo` (`delegate`,
  `message_agent`, the report of finished work).
* A turn extends a candidate conversation, adopts it, saves it, and compacts it
  between turns. It appends events, writes numbered files and books what it spent;
  the host polls the guest for the last and puts a price on it.
* A tool that needs consent blocks its turn in the gate. The hub shows the
  raised hand; `Resolve` answers it, `Interrupt` revokes it, a timer ends it. The
  hand reaches a page over the bridge's stream, and the app by polling: the log says
  that an ask was made or decided, the hub that it is still up.
* The sweep of the schedules is one goroutine that calls `sendTo` too; a change
  of zone and a booking write the same store from handlers of their own.
* The host pushes a machine its apps: a ticket its broker will honour, and an
  answer for every action. Many requests notice at once that a push is due.
* Everything in a guest may be paused with its VM and may die with it. What
  survives is files: the roster, conversations, event logs, numbered files, the
  meter, schedules, the zone, the pushed apps.

### What is hard, and what correct means

| Component | Hard behaviour | Correct means |
|---|---|---|
| VM registry | the id is taken again while an old machine's goroutines still run; firecracker dies unasked; shutdown races deletes; the server dies and its machines do not | the two indexes agree; no process outlives its record; an erased disk stays erased and any other is kept; every exit gives the slot back; the next server finds what the last one left |
| Power | a call to firecracker is made between reading the record and writing it, with no lock, and may outlast a delete | the record never comes back from an end; a machine is told to shut down while it runs |
| Agent team | an agent is looked up, stopped and rebuilt while a message is on its way; a ceiling on live agents; flags that must survive a refusal | one goroutine per agent; a message gets one turn, once; a stale agent is replaced |
| Gate | two handlers, a Resolve, an Interrupt, a timer and a cancelled context race for one call | one answerer per call; a batch covers what it says; every wait ends |
| Schedules | the clock runs on between any two steps; a sweep works on copies; crashes between a send and its record; a zone that moves; days with a midnight missing | the next run is the first one the expression names; a cancellation is final; nothing runs twice for one due time; a one-off runs once; a last run is delivered or given up |
| Feed and answers | the feed reads roster, log and hub one after the other while the agent runs on; two clients author bodies of different shapes | only a pressed button is consent; approved means approved; a card that was shown settles |
| Bridge | a consumer outlives its successor's start; changes are dropped, overtaken or fall between a poll and a stream; a page joins in the middle | the cards are the hands that are up; the page shows the cards |
| Apps | detached pushes, claims with deadlines, tickets that replace each other, a person who changes settings or erases the account meanwhile, machine and host restarting | one push at a time; the machine's ticket works; an action runs unasked only if the person said so; what is erased is gone |
| Conversation | turns that fail at any point, cuts, a save that fails, an exit | no request is malformed; what was summarised is in the copy |
| Log and numbers | two instances of one agent, half a line, failed writes, power cuts | an id and a number keep their meaning; a returning client misses nothing |
| Meter and spend | two writers through one temporary file, days that go back, a migration, a poll that was late | what was spent is counted once and kept; what is shown is what it cost |

## 2. The modules

| Module | Models |
|---|---|
| `VMStates` | the states of a machine's record and `legalTransitions` |
| `VMRegistry` | `internal/vm`: registry.go, create.go, teardown.go |
| `VMPower` | `internal/vm/control.go` against create.go and teardown.go; `internal/fc` |
| `MCHost`, `MCVMRegistry` | instances of both, and of `VMRegistry` alone |
| `VMRegistryProofs` | theorems about `VMRegistry` and `VMPower` |
| `AgentTeam`, `MCAgentTeam` | `internal/agentd`: supervisor.go, loop.go, registry.go, the team tools |
| `AgentTeamProofs` | theorems about `AgentTeam` |
| `Gate`, `MCGate` | `internal/agentd`: gate.go, interactions.go, addWait and Interrupt of loop.go |
| `Answers` | what a card offers and what an answer becomes: pending.go, approval.go, `normalise`; operators only |
| `Feed`, `MCFeed` | extends `Gate` and `Answers`: the log, feed.go, threads.go, messages.go |
| `FeedProofs` | theorems about `Gate` and `Feed` |
| `CardBoard` | abstract: what the cards promise the people who watch |
| `Hands`, `MCHands` | interactions.go, the pending stream, bridge.go, the page; implements `CardBoard` |
| `HandsProofs` | theorems about `Hands`, and that it implements `CardBoard` |
| `AppActions` | what a connected app's action may do: apps_caps.go, apps_policy.go, `capabilityOf`; operators only |
| `AppsGuest` | the machine's end: agentd's apps.go, routes_apps.go, tools_apps.go |
| `AppsHost`, `MCApps` | extends `AppsGuest`: the host's apps.go, apps_store.go, appsgw.go, v1.go |
| `AppsProofs` | theorems about both ends |
| `Meter` | meter.go |
| `Conversation` | compact.go, repair.go, the turn of loop.go |
| `Numbering` | snapshot_store.go, outbox.go |
| `EventLog` | events.go, the stream of routes.go and stream.go |
| `Spend` | usage.go, pricing.go, the probe of stats.go |
| `MCTurn` | instances of the last five |
| `TurnProofs` | theorems about those five |
| `Calendar` | the arithmetic of schedule.go and of `time.Date`: operators only, no state |
| `CalendarWalk`, `MCCalendar` | the run after the run after the run: what `next` answers, step by step, against a definition by sets |
| `Schedules`, `MCSchedules` | the store, the sweep, the zone change and the handlers, using `Calendar` |
| `SchedulesProofs` | theorems about `Calendar`, `CalendarWalk` and `Schedules` |
| `NumberLemmas` | what the proofs need of least and greatest numbers, and of sums over finite sets |

Operators that end in an underscore and a word (`releaseLocked_AnyHolder`) are
plausible bugs of the definition below them. `PROJECT.json` pairs each property
with one, and TLC finds the property violated when the bug takes the
definition's place.

`MCHost` and `MCTurn` hold several stores that share no variable. Their `scene` says
which one is in motion in a behaviour while the others rest, so that one run asks
about each of them without multiplying their states; no interleaving of a module is
lost, as a step of one neither reads nor writes another's variables. `VMPower` is a
second, narrower look at a machine that `VMRegistry` has too.

### VMRegistry

`slots` and `byID` are the two maps of `Registry`; `vm` holds the fields of each
`VM` the properties need (id, slot, state, `stopping`, `isNew`, `spawned`); `proc`,
`workspace`, `tap` and `runDir` are the host. A VM pointer is an element of
`VMs` and is spent by one `Allocate`. `creator[v]`, `watcher[v]` and `job[j]` are
the program counters of Create, watchProcess and a DELETE (the drain and its
killer are two more jobs). One action is one hold of `Registry.mu` or one
command on the host, so every interleaving of goroutines the lock allows is a
behaviour. A boot step fails where its command can fail; an unlink may fail. A write of
vm.json leaves the record, an empty or half-written file, or what was there before, and
Create goes on in each case; `recorded` is the history of who has a record of its own.

Abstractions. SIGKILL always kills. The sweep's own commands succeed: reading a vm.json
that is whole, removing taps and run directories, as do `DeleteTap` and `RemoveAll` of a
cleanup, whose errors are only logged. A request that was accepted has reached the
registry when `srv.Shutdown` returns (`serving`). After an exit of the server any
firecracker may survive, although the unit's `KillMode` kills the group: the
sweep is there for the rest. The data on a disk is `absent`, `blank` or `data`.

### VMPower

`record` is `v.State`, `guest` what firecracker has of the machine, `listed` whether
the registry has it; `boot`, `ladder` and `call[c]` are the program counters of Create,
Delete and of a handler that pauses, resumes, refreshes or inspects. A call is three
steps: the handler reads the record, firecracker obeys, `SetState` writes. Between them
anything may happen to the machine. A call may be refused, may take effect although
its caller has given up, and answers with the state of the moment it was answered.

Abstractions. The `stopping` flag is set with the state; a rollback's kill and cleanup
are one step. Which call fails is open. The handlers of list and stats are those of
refresh.

### AgentTeam

`agents` is the supervisor's map; `inst[i]` is one `*Agent` with its goroutine's
position `pc`, its inbox, its conversation and its flags; `send[c]` is a
call of `sendTo` by a client, or by the agent itself for a delegation or a
report; `admin[a]` is the administrator's operation on an agent. `disk` is
conversation.json, `roster` and `version` the roster file. Actions are the holds
of `s.mu` and `a.mu` and the channel operations between them.

Abstractions. A conversation is the set of items whose turns it records. The
state an agent shows is derived from `pc`. Which idle agent makes room is left
open, as it depends on times. An instance nothing refers to is reused, as memory
is. One administrative operation at a time per agent. A turn either succeeds or
fails; a failing one stands for an error, an interrupt and an expired context.

### Gate

A call is one element of `Calls` and has its place in `await` (`pc`), its channel
of one value (`answer`), and a `Resolve` that may be under way (`res`). `grants`
is what is left of the batch consents of each tool, `revoke` the place of
an Interrupt in RevokeAll. The timer and the context of a call may fire as soon
as it waits. `given`, `spent` and `early` are history for the properties.

Abstractions. The expiry of a grant is the loss of all of it at any time. The
tools of one turn run concurrently and the turn ends when they have: the SDK
waits for its handlers.

### Answers and Feed

`Answers` has the three authors of a decision: `Pending.Body` for the page,
`decisionBody` for the app, `normalise` for the guest. An option is the button's name,
a text one of a few words. A question's "no" and "not now" are answers like any other,
so `normalise` makes an allow of them, as the code does: what was said travels in
the answer.

`Feed` extends `Gate`: each of its actions is taken as it is, and the two that append
to the log do so here. `conn` is the place of a sweep (roster, events, hub), `last` the
event id the roster reported, `cursor` and `shown` the connection's own. `card` is the
app's screen, which is not in the repository: it says what the last frame or the last
fetch said. A fetch rebuilds the thread from the log. Every read may fail. The guest
takes the events first and the last id after them (`History`), and the cursor goes to the
latter: what is appended in between is skipped. `pressed` is history.

Abstractions. One agent. Only asks and decisions are in the log. A machine that moves
or cannot be resolved ends the connection.

### CardBoard and Hands

`CardBoard` says what the cards promise: a card belongs to a hand that was raised; it
goes only when its hand is down, as long as one consumer is at work and no change
was lost. `Hands` shows how it is done: `hand` is the hub's set with its history,
`duty` the changes not yet published, `con[c]` a consumer with both ends of its
stream (what it polled, what it must take down, the snapshot, the channel, the frame it
is about to send), `cards` the bridge's board, `page` a page with its channel and its
screen. The refinement maps `board` to `cards` and `calm` to "no old consumer, nothing
lost".

A change is lost, in the sense of the code, when the hub finds a listener's channel full
or the consumer between its poll and its subscription, or when clearing overtakes
raising; `lost` remembers the hand until the consumer polls again. A page is `blind` when
its channel was full, its history failed or it kept cards from an earlier connection:
the properties of the page are stated for one that is not.

Abstractions. Each hand goes up once. The transcript's stream, `Close` and
`dropBridge` are left out. A consumer that was cancelled goes on, beside its
successor, until it looks at its context again.

### AppActions, AppsGuest and AppsHost

`AppActions` has the chain from the provider's hints (`capabilityOf`, `ourView`), the
person's setting (`actionFor`), the budget of a push (`budgeted`) to the guest's
permission (`needs`, `callsIn`, `permitted`). `AppsGuest` is the file and the memory of
the session, the MCP session dialled to it, the list read from it, its cooldown, and one
agent being built and calling. `AppsHost` composes it with requests (`req[r]`: ensure,
claim, get, put, resolve, send, apply, done), the claim, the ticket, the row, the
provider, a person who changes a setting or a connection (`tap`) and one who erases the
account (`erase`). An address is a ticket's number. A write of the row may succeed, be
refused, or succeed and be reported as failed, after which the handler returns before
`staleApps`; a disconnection and an erasure of the row can lose their answers too.

Time is the order of steps: a claim's deadline is an action, after which a push that is
still under way is "late" and only its call to the machine goes on, as the context of
the others has ended (SetApps carries none). What pushes do that no claim stands for any
more is in `missed`, and so is a change that the claim was not told of, until the next push
begins and reads the row anew; the properties that these break are stated without them.

Abstractions. One person with one machine. Looking the machine up is one step with
the start of a request, minting a session with reading that there is none, and
registering the ticket with resolving the connections. The two locks of failApps and
forgetApps are one step. The caches of capabilities and catalogue and the limit of
twenty pages are left out.

### Meter, Spend

`Meter` has `rows` by owner, kind and day, and the saving of `writeAtomic` on inodes:
a writer goes on writing what it opened after another has renamed it. A booking logs
first and counts second, on the day it read before the lock; a save folds old days into
a lifetime row. A save may fail where it opens, writes or renames: that is only logged, and
the meter carries on with a stale file on disk (`StaysStale`). Days go on and, with a change
of zone, back. A response costs one unit.

`Spend` has the guest's report, the accumulator's totals and the requests that poll, each of
which may be overtaken by a delete. A machine created after a delete has the id of the old
one and a report of its own; `bills` is what each of these lives cost, and `late` remembers
that a poll of an earlier life has put back its totals. `rateFor` is the loop over a Go map,
in every order the map may have. An id is a sequence of tokens. Rounding is left out.

### Conversation

A message is a kind and its turn's number: ask, summary, results, say, uses. `step` is the
place of the agent's goroutine: asking, tools, adopt, save, compact, summarize, backup,
swap, saveCompacted. A turn works on `cand` and adopts it whole or rolls back. Sizes are
counted in messages; the copy beside the file may be cut short by an exit. A file of an
older version may end in calls nobody answered, and `load` repairs it.

### Numbering, EventLog

`Numbering` has both stores: the number is taken under a lock, the file written outside
it, by handlers that run at once. A failed write leaves nothing or a part; what was not
written back is gone after a power cut; a successor of a deleted agent resumes from the
same directory. `told` is what each number was said to name.

`EventLog` has the lines of the file by their ids, instances with counters of their own,
one client with its stream and its Last-Event-ID. A line may fail to be written, or be
written in part, which spoils the next one. A machine that is killed loses the last lines,
which are not synced.

Abstractions. An error of `ReadDir` in highestSeq, which restarts the numbers, is left out. Two
instances of one agent over one conversation are in `AgentTeam`.

### Calendar, CalendarWalk and Schedules

`Calendar` writes `next`, `nextRaw`, `monthDay`, `matchesDay` and the spread of a
window as functions of an instant and a zone, and `time.Date` as Go implements it:
the offset guessed first and corrected once. Instants are ticks and a day has `Day`
of them. In `CalendarWalk` a zone changes its offset once, forward or back; in
`Schedules` zones have a fixed offset. Years are alike, so there is no leap day.
`NextIsFirst` compares `next` with `Named`, which says in sets which instants an
expression names after an instant, and never walks.

`Schedules` has the store twice (`mem`, `disk`), a write that may fail, the sweep with its
copies (`sweep`), a zone change (`rezone`) which empties its file before it writes it,
bookings that wait for a person (`book`), agents that are dismissed and whose ids are given
out again, crashes and the roll-forward of the next start, which saves once for each record
it moves. `Tick` is enabled between any two steps, as a paused VM loses any amount of time
anywhere.

Abstractions. Expressions always parse: a change of grammar on an upgrade is left
out. Ids of schedules do not repeat. The zone, the clock and the store are read in
one step at the start of rezone. `runs` is `Fires` kept also for deleted records.

## 3. The runs

Each cfg gives every bound by name. Deadlock is not checked: all of these systems
may come to rest when no request is made and a bound is used up.

| Run | Instance | Shows |
|---|---|---|
| `vm_registry` | one id, one slot, two machines, two DELETEs, an exit of the server with the sweep after it; beside it one machine with two handlers and three power calls | `RegistryAgrees`, `NoOrphanProcess`, `ErasedStaysErased`, `RunningKeepsDisk`, `KeptUnlessAsked`, `SweepReaps`, `PowerSound` |
| `vm_liveness` | one machine, one DELETE, a drain with its killer, an exit of the server | `CrashFreesSlot`, `DeleteAnswered`, `DrainReleases` |
| `team_safety` | the boss and a specialist with room for one, two senders, an eviction, a deletion with a later hire, a compaction | `HandledOnce`, `MapIsLive` |
| `team_liveness` | one agent, one sender, two instances, an eviction, an edit, a new skill | `InboxDrains`, `ReloadHonoured` |
| `gate_calls` | gated calls of one tool: two over two turns with interrupts and timers, or three in one turn with a batch consent that the other two come to spend at once | `OneAnswerer`, `GrantNotOverspent`, `HandIsLive` |
| `feed_asks` | one gated call, two connections or fetches of the app, every verdict, option and text from both clients | `ConsentIsPressed`, `ApprovedIsTrue`, `ShownAskSettles`, `EveryAskEnds` |
| `hands_board` | one hand, two consumers, two visits of a page, two lost streams or restarts of the guest | `BoardAgrees`, `PageAgrees`, `UpIsSeen`, `BoardPromise` |
| `account_apps` | one app with a write, a read and a read that is not believed, two requests, one setting, connection, erasure or restart | `OnePushAtATime`, `TicketWorks`, `SettingsReachMachine`, `AutoIsEarned`, `NothingOfAnOldSession`, `ErasedIsGone` |
| `turn_disk` | two writers of each store that has writers, four turns with compactions, a fault of each kind, two machines' lives | `BillIsKept`, `ConversationSound`, `NumbersKeep`, `SpendIsPriced` |
| `cal_next` | every form of clock expression, zones on both sides of UTC that go forward or back, in a year of three months | `NextIsFirst` |
| `sched_safety` | one schedule of each kind, a zone change, a crash, a failed write, an agent hired twice | `CancelledStaysGone`, `NotRefired`, `OnceRunsOnce` |
| `sched_liveness` | a one-off and a series with an end, an agent that may be busy or refused | `LastRunSettles` |

`BoardPromise` is the refinement: `Hands` implements `CardBoard`. `PowerSound`,
`BillIsKept`, `ConversationSound` and `NumbersKeep` are conjunctions of named parts,
each with a comment of its own.

### Why the bounds are enough

* `VMRegistry`. Every property is about one id, or one slot, and at most two machines
  that meet there: the old one with its late goroutines and the new one. The drain and
  its killer are two more deleters of that machine: they run where the question is
  whether they end, and the second DELETE stands for them elsewhere.
* `VMPower`. A race needs a poll, a call that overtakes it and one that changes what the
  record says: three calls of two handlers.
* `AgentTeam`. A message meets at most the instance it found, the one that replaced it, and the
  agent that took its place; three instances and room for one force each of them.
* `Gate`. The races are between two calls over one count or one lock, between the ends of
  one call, and between two calls that spend what a third was granted: hence the scene of
  three. A batch covers one more use, so that one of the two has to ask.
* `Feed`. Asks do not meet in the feed, which keeps a set of them; one ask sees a
  connection that starts before it, during it and after it, with a fetch or a second
  connection.
* `Hands`. Cards are per hand as well: what one hand can suffer is a consumer beside its
  successor, a full channel of one, a page that joins at any point and comes back.
  Two hands multiply the states and share only the channel, which `Full` already fills.
* `AppsHost`. One push meets another, and one thing that people or hosts do comes between
  any two steps of both. The app has one action of each sort the rule treats apart.
* `Meter`. Two writers, three days with nothing kept but the present one, so that every day
  folds, and one restart; four inodes are the file, its replacement and the two that writers
  hold.
* `Conversation`. A compaction at more than four messages, keeping the last quarter,
  needs two turns; four turns allow a second one over a summary, with two faults.
* `Numbering`, `EventLog`. A number can be given twice only if it was begun, forgotten and begun
  again; a gap needs one event dropped and one that follows. Three numbers and one or two mishaps
  cover both.
* `Spend`. A prefix that begins another, a gateway's spelling and a dated id; two
  requests, of which one is late across a delete.
* `Schedules`. Six ticks are a day and a half, enough for a run, the run after it and a
  grace that has passed; the schedules of one store meet only through the agent, which is
  busy or refused whenever the model likes.

`NoOrphanProcess` and `ErasedStaysErased` are stated while the server serves:
`killRemaining` lets go of a machine whose creation is still going on, and the exit of the
process ends both. `NotRefired` and `OnceRunsOnce` are stated for a person who has not
changed zone, and the second also for one life of the daemon. `BoardAgrees`, `PageAgrees`
and `UpIsSeen` leave out a hand whose change was lost and a page that missed a frame;
`TicketWorks` and `SettingsReachMachine` a push that outlived its claim, and the second also,
until the next push begins, one that was under way when the setting was saved and a save
whose answer was lost; `SweepReaps` a machine whose vm.json was not written, or
was written over; `NumbersKeep` two instances that write at once, lines that were lost and a
power cut; `FileCatchesUp`, until the next save that is alone and does not fail, two writers
that raced and a save that failed. What happens otherwise is in section 6, where a
comment of the source claims that it does not.

### Fairness

* `VMRegistry`: weak fairness of the goroutines that have started. A ladder ends
  because SIGKILL does. Nobody need create, delete, drain or restart.
* `AgentTeam`: weak fairness of each agent's goroutine and each call of `sendTo`, so a model
  call and a tool end: a model call has ten minutes (`endpoint.go`), a command two
  (`tools_bash.go`), and a gate's wait ends by `EveryAskEnds`. Nobody need send, evict or
  edit.
* `Feed`: of the gate, weak fairness of the handlers, timers included, of a `Resolve` or
  `RevokeAll` already begun and of `Interrupt`'s cancel. Of the feed, weak fairness of the
  ticker that begins a sweep; a sweep's reads may fail, but not for ever while the connection lasts
  (strong fairness of the reads). None for the person to answer, connect or stay.
* `Hands`: weak fairness of the hub's publishing, of a consumer's goroutine and of a page
  that is connected, strong fairness of the poll, which `reconnect` repeats until it
  gets through. None for anybody to raise, clear, come or go.
* `Schedules`: weak fairness of the clock, of the sweep's goroutine (its ticker
  never stops) and of the agents' turns. None for the person, nor for `sendTo`
  to succeed: the run shows the grace does its work although every send may fail.
* The other modules state no liveness and no fairness.

## 4. What is proved

TLAPS checks these for every value of the constants; each module's assumptions on
its constants are evaluated by TLC in the runs. A theorem `Spec => []P` follows from an
inductive invariant, which is a conjunction of named parts: what a part is needed for is
said here. All of the parts were checked by TLC on the bounds of the runs before they
were proved. In each module one lemma per action, or one step per action under one lemma
per part, shows that a part is kept; actions that leave alone what a part speaks of go
through one lemma together.

### The machines

* `VMRegistryProofs!TypeCorrect`, `RegistryAlwaysAgrees`. `RegistryAgrees` alone is not
  inductive: `Allocate` writes both indexes for a pointer, and the new entry is the only
  one just because the pointer was in neither. `Unspent` says that a pointer whose Create
  has not started has no id, so `IInv == TypeOK /\ RegistryAgrees /\ Unspent` is.
* `VMRegistryProofs!NoOrphan`, `PurgedStaysPurged`, from `ServesInv`. How far a creation
  has come says whether its process may run, and a watcher that cleans up has seen the
  exit (`ProcessKnown`); a delete past `beginStop` has left its machine no way back to
  running, and one that has reaped leaves no process but one a creation will roll back
  (`DeletesLeave`); a creation whose machine was taken from the registry fails
  (`DroppedFails`); while the server serves nobody drains (`NobodyDrains`). For the disk:
  an id just erased is nobody's (`ErasedIsFree`), and a disk that is there after an erasure
  has a maker that has not finished (`DiskHasMaker`).
* `VMRegistryProofs!RunningKeepsItsDisk`, `DataIsKept`, `SweepFinds`: what a step may never
  do, from `KeepsInv`. The first two say which steps they exempt: the mkfs of a creation
  whose machine the registry has let go of, which formats the disk whoever has the id by
  then, and for data also the rollback of a disk that creation made. `ReturnersDataKept` in
  section 6 is what these do. A purge is a DELETE's and of the id it was asked for, and
  until the machine is out of the registry that is the id of the machine it holds
  (`PurgeAsked`); a registered machine has its run directory from the mkdir to the record,
  and its vm.json in it once it has one of its own (`DirKept`). Lemma `DiskTaken` says whose
  the disk is that a cleanup takes: nobody's, as cleanup looks for the id under the lock. A
  machine that is booting under an id that went to another is on its way out
  (`RivalsLeave`), the disk that a boot makes holds no data while the machine is registered
  (`OwnDisk`), and a machine is running once Create has returned it (`RunningReturned`): so
  the creations that take a disk are those the registry let go of. `SweepFinds` is about
  registered machines whose vm.json was written and is still their own; the file is then
  where the sweep looks (`DirKept`). Where the write failed the sweep finds nothing:
  `RestartReaps` in section 6.
* `VMRegistryProofs!PowerAlwaysSound`: `PowerSpec => []PowerSound`. That no late answer
  revives a record is a fact of the table of transitions (lemma `AfterKeepsTheEnd`). That
  the key reaches a guest that runs needs `AwakeAtKey`: from the moment shutdown has
  looked, or resumed, the guest is awake unless a pause came after.

### The team

* `AgentTeamProofs!OneGoroutinePerAgent`, `NothingStranded`, from `TeamInv`. What `start`
  is about to put in the map is built for that agent and does not run (`Starters`), and
  no other caller is about to start the same instance (`OwnStarters`): `New` picks one
  that nothing points at. A call knows whom it writes to, and past `Get` which instance
  it has (`Calls`); a goroutine knows whose it is and what it works on (`Workers`).
  `StoppedInboxEmpty` is part of the invariant and says more than the liveness property
  `InboxDrains` can: only a deletion leaves anything on an inbox nobody will read.
* `AgentTeamProofs!HandledAtMostOnce`, from `OnceInv` over `TeamInv`. That an item has one
  turn rests on its having one place: in a call that has not returned (`OnItsWay`), on one
  inbox, in the hand that took it (`InHand`), or in the turn that began (`Turns`). What
  makes a new item new differs by its kind (`Reports`): work is posted once per message,
  and its report is posted only by the one turn that has begun it, once. Most actions
  bring nothing new (`Settles`, lemma `SettlesKeeps`); `Put`, `BeginTurn` and the four
  that set out to send have lemmas of their own.
* `AgentTeamProofs!OnlyBossExceeds`: only `start` brings an agent to life
  (`OnlyStartAdds`), and past the ceiling it swaps one for another (`SwapCounts`). No
  listed run repeats this property or `StoppedInboxEmpty`; both hold on the instance of
  `team_safety`.

### Consent

* `FeedProofs!GateTypeCorrect`, `AnsweredOnce`, `GrantsAreKept`, `RaisedHandsAreLive`,
  from `GateInv`. A call's channel is filled by whoever took the call out of the pending
  map, and there is one such (`TakenOnce`); a call that was not asked has nothing of an
  ask (`UnaskedIsUntouched`); only a call of a tool consumes a grant (`ConsumesATool`);
  `RevokeAll` denies all it took before it returns (`DeniesAll`), and has lowered a hand
  before it answers (`LoweredFirst`); a call is pending until its hand goes up, or it is
  one of those raised after their answer (`PendingUntilUp`). That the waiting counter
  counts the calls that wait is a sum of its own (`WaitsBalance`, over cardinalities).
* `FeedProofs!FeedKeepsGate`: `FeedSpec => Spec`, so the theorems about the gate hold of
  it with log, feed and clients around it.
* `FeedProofs!ConsentIsAlwaysPressed`, `ApprovedIsAlwaysTrue`, from `FeedInv`. An approving
  answer, wherever it has got to on its way (said, in the channel, returned), was pressed
  (`PressedFirst`); a decision in the log is one that `Resolve` accepted (`LogTruthful`),
  so is what an approved card shows (`CardTruthful`). The lemmas say that no typed text,
  misspelt verdict or option of another kind of card becomes an approving decision
  (`decisionBody`, `Pending.Body`, `normalise`), and what the last decision of a log is
  once one more is appended.

### The cards

* `HandsProofs!BoardKeepsItsPromise`: `Spec => BoardPromise`, that is, `Hands` implements
  `CardBoard`. Every action maps to a raise, a lowering, a card that comes or goes, a
  change of `calm`, or a stutter. What makes a card's going a step that `CardBoard` allows
  is `BoardInv`: every change announced has happened (`AllHappened`), a consumer's stages
  hold what they may (`Stages`), and for the latest consumer and every hand not lost, a
  hand that is up has its card or a raising on its way with no clearing after it, and one
  that is down has no card or a clearing on its way (`Comes`). Which order things have in
  the listener's channel is part of it, so the lemmas speak of `Append` and `Tail`.
* `HandsProofs!BoardIsRight` reads the same invariant where nothing is on its way.
* `HandsProofs!PageIsRight`, from `PageInv`: for a page that reads, each hand's last frame
  says what the board says, one without a frame shows what the board shows, and what the
  bridge's consumer is about to tell the pages is so (`TellsTrue`). It is proved beside
  `HandsTypes`, `Stages` and `TellsLive`.

### The apps

* `AppsProofs`, six theorems from `AppsInv`, over `AppsHost` and the machine's end in
  `AppsGuest`. `ClaimInv`: a push whose claim stands is the claim's (`OnePushes`).
  `TicketInv`: the ticket of a push under way is the one that is served, and once the host
  counts the machine as pushed, file and memory have it or the machine is gone
  (`TicketsWork`). `AnswerInv`: the row the push read is still the row, so are the answers
  made from it, unless somebody who changed it has yet to tell the claim, or was told that
  the change had failed and never will (`SettingsReach`; lemma `RowIsTold`). `EarnedInv`: an
  "auto" in the row, in a copy of it, on the wire, in the file or in memory is of a setting
  somebody chose, or of a read that is believed (`AutoIsAlwaysEarned`). `EraseInv`: how far
  an undisturbed erasure has come (`ErasedIsAlwaysGone`, an action property).
  `NothingOfAnOldSession` is inductive beside the types (`NothingOld`). The first three do
  not hold of a push that outlived its claim, and the history variable `missed`, which says
  so, is part of their hypotheses as it is of the properties.

### Conversations

* `TurnProofs!ConversationAlwaysSound`: `TalkSpec => []ConversationSound`, for any
  length of turn, threshold and divisor. The history in memory can be sent, and the one on
  disk once it is repaired; the candidate is sound for the step the turn is at; a cut
  between its finding and its use stays a message a history may begin with (`CutFound`);
  and the copy holds what the file is about to lose (`CopyHolds`, `CopyFresh`). The lemmas
  say what appending, repairing, cutting and compacting do to a history that answers its
  calls.

### Numbers, the log and the bill

The theorems are of `MCTurn`'s `Spec`: a step of it is a step of each store or leaves that
store alone, so each invariant is proved on its own.

* `TurnProofs!NumbersAlwaysKeep` has two halves. The files, from `NumberInv`: while no two
  instances have parted, a counter is past every file and past what its handlers have in
  hand (`CountersLead`), a number is one handler's and was told to nobody (`NumbersApart`),
  a handler knows of its own file what its place says (`HandlersSound`), what a rotation is
  about to remove has newer files enough (`OldIsCovered`), and what was told is there or
  was rotated away (`ToldStands`). The events, from `LogInv`: one instance was started last
  (`OneIsNewest`); unless one wrote beside it, the ids in the file ascend to less than its
  next one (`LinesAscend`), the client has been sent the file up to its Last-Event-ID
  (`SentToLast`), and the channel of its stream leaves out no line before one it holds, and
  none at all for the newest instance (`ChannelIsWhole`).
* `TurnProofs!BillAlwaysKept`, from `MeterInv`: no table on its way to the file, or in it,
  counts more than the logs say (`TablesCounted`), which is what a restart reads; and while
  no two writers have raced and no save has failed since the file was last whole, the last
  writer is alone with the temporary file, which holds the rows, or rows that are about to
  be saved again (`LastIsAlone`). A failed save leaves a file that is behind and never ahead
  (`StaysStaleKeeps`). Lemma `FoldKeeps` says
  that a fold moves counts between days and loses none.
* `TurnProofs!SpendAlwaysPriced`, from `SpendInv`: a report costs no more than its calls
  did, and just that where a model's calls were priced in one way (`ReportCosts`); a report
  that a request has taken still does, at the list's prices, and is no further than the
  machine of the life it was taken in (`PollsCost`, `NoFurther`). The totals cost no more
  than one life did, which is the present one unless a poll that was late across a delete
  has put back an earlier one's (`OwnUnlessLate`): `FreshAfterDelete` in section 6.
  `RateIsListed` says that the loop over Go's map ends with the longest prefix that fits in
  whatever order the map is read; `CallCosts` what one more call does to the cost of a
  report.

The sums and folds in these are the community modules' `MapThenSumSet`, a recursive function
chosen over the subsets of a set. `NumberLemmas` proves that there is one, and what a sum
does when a term changes or a set is split, by a least counterexample: an argument over
the cardinalities of finite sets that needs no induction theorem with an operator parameter.

### Schedules

* `SchedulesProofs!NextIsAhead`: for every expression, zone and calendar, `next` answers
  zero or a later instant than the one asked about. It rests on `NextClockAhead` and on
  `LeastNatural` of `NumberLemmas`.
* `SchedulesProofs!NextIsAlwaysFirst`: in every calendar, for every clock expression and end
  date, `next` answers the first run that `Named` has, and zero only if it has none. Its
  hypothesis, `Spared`, is that a zone's change takes no time of the expression, and a
  midnight only as its first tick where `time.Date` reads it by the offset before;
  `MCCalendar` states it of its expressions and zones, and TLC evaluates it. Without it the
  claim is false: `NoDaySkipped` in section 6 is the case of a midnight. A spared wall time
  has one instant, and later ones have later instants (`DateOfSide`, `DateRises`); a
  midnight divides the instants of its day from those before (`MidnightDivides`,
  `SparedMidnight`), so the walk counts the days one by one (`WalkIs`), its counts are the
  named runs in their order (`NamedIs`, `CountsRise`), and an end date lets a run pass when
  its day does. The walk and `Named` look at the same `daySearchLimit` days.
* `SchedulesProofs!SchedulesTypeCorrect`: memory, disk, sweep, bookings and deliveries stay
  what they are; that a planned run is a natural number is `NextIsAhead` again.
* `SchedulesProofs!CancellationIsFinal`, from `IInv`: copies carry ids of `Ids` (`Shape`),
  and an id on either store, or confirmed cancelled, has no booking under way
  (`BookedOnce`). Every later write goes through `Update`, which leaves an absent record
  absent (lemma `UpdateKeeps`).
* `SchedulesProofs!NothingRefired`, from `FiredInv` over `CopyInv`: nothing has fired later
  than the clock or than the sweep that goes on; the run after this one lies ahead of the
  sweep, by `NextIsAhead`, and in one zone it is in the store once `fire` has advanced it,
  also on disk, from where a crash takes it. `CopyInv` is what makes a sweep's copies
  usable: they are of booked schedules, each of which is copied once, and an expression
  never changes.
* `SchedulesProofs!OnceAlwaysRunsOnce`, from `OnceInv`: a one-off waits for its only run at
  the time that was planned; what has run is off, or `fire` is about to turn it off; a copy
  that `fire` has not sent is of one that has not run, and its last run.

### What the proofs changed

* `capabilityOf` and the feed's settling of cards were CASE expressions with arms that
  overlap. TLC takes the first, the logic does not say which: they are written now as
  the code's order of tests.
* Assumptions the code justifies and the instances satisfied without saying so: the empty
  string is no tool and no outcome (`GateAssumption`); the page's first consumer is one of
  the consumers (`HandsAssumption`); an agent can be hired at all, zones have the fields of
  a zone, an interval is positive as `minInterval` demands, a time of day is within a day
  and a clause names a known zone (`SchedulesAssumption`, `ExprsAssumption`, which moved to
  `Calendar`); the lack of a run directory, or of a vm.json in it, is no machine
  (`RunDirConstants`); an agent's log has
  an instance (`EventLogAssumption`); nobody is no spender and no file is no inode
  (`MeterAssumption`); ids and prefixes are sequences, finitely many, and rates are natural
  numbers (`SpendAssumption`).
* `CalendarWalk` names its state so that `SchedulesProofs` can extend it beside `Schedules`.

### What is only model-checked

* Every liveness property: fairness and ENABLED are beyond this prover.
* Where a zone's change takes a time of day an expression names, or more of a midnight than
  `Spared` lets it: what `next` answers then is Go's choice of one of two instants. Of the
  zones of `cal_next` one has a change that takes its midnight's first tick.
* Every invariant and action property without fairness that a run checks has a theorem. What
  keeps the theorems short of the program is the model: each module's abstractions in section
  2, and the bounds on histories (`MaxNumber`, `MaxDay`), which are parameters of the
  theorems too.

## 5. The plan, and what is not modelled

Done: all the components of the table of section 1 that have a model there.

Next: Close and dropBridge beside the bridge's consumers, with the transcript's stream.

Not modelled, and why:

* Agent tools but the sending of files, the prompt, memory, skills, the catalogue: one call
  into a shell, a browser or a file each, or text put together when an agent starts.
* The gateways (guestgw.go, llmgw.go, vncgw.go): proxies, which keep nothing between two
  requests but the lifetime of a VNC capability.
* Sign-in, configuration, logging, /proc statistics, the image and the scripts: no steps
  that interleave.
* Caches of the app catalogue and of capabilities, the windows of a spend report,
  typing and ordinary messages in the feed: derived data that is computed again.
* Parsing a schedule's expression; an upgrade that changes the grammar.

## 6. Claims of the source that the code does not keep

Each claim is a property in the module named, above it the words of the source or
what they come to. To see one, put it in the cfg named in place of its properties, as an
INVARIANT, or as a PROPERTY where the table says so, with the constants changed as said.

| Claim | Where | What happens | How to see it |
|---|---|---|---|
| `LateCleanupSparesTap` (`vm/teardown.go:134`) | `VMRegistry` | cleanup asks who holds the id, not who holds the slot, and deletes the tap of another id's machine (PROPERTY) | `vm_registry`, `Ids = {a, b}`, `MaxRestarts = 0` |
| `ConcurrentDeletesConflict` (`vm/teardown.go:35`) | `VMRegistry` | `SetState` accepts the state the machine is in, so a second delete passes `beginStop` | `vm_registry`, `VMs = {v1}`, `MaxRestarts = 0` |
| `RestartReaps` (`vm/create.go:144`) | `VMRegistry` | a write of vm.json that failed is only logged, and no sweep finds the firecracker it was to name (PROPERTY) | `vm_registry` |
| `ReturnersDataKept` (`vm/purge_test.go:142`) | `VMRegistry` | the mkfs or the rollback of a creation that was deleted meanwhile takes the disk of the machine that has its id now (PROPERTY) | `vm_registry` |
| `NeverKeyedAsleep` (`vm/teardown.go:52`) | `VMPower` | a pause may reach firecracker after shutdown has made sure that the guest runs | `vm_registry` |
| `RunningHasAnswered` (`vm/control.go:47`) | `VMPower` | Inspect calls a machine running that boots and has not answered | `vm_registry` |
| `PollReconciles` (`vm/control.go:39`) | `VMPower` | a refresh writes what was true before a pause that began and ended meanwhile (PROPERTY) | `vm_registry` |
| `WorkNotInterrupted` (`agentd/loop.go:394`, `supervisor.go:622`) | `AgentTeam` | a message has left the inbox and not yet made the agent "working": it is stopped with the message in hand | `team_safety`, `MaxDelete = 0`, `MaxCompact = 0` |
| `HistoryKept` (`agentd/supervisor.go:360`) | `AgentTeam` | idle is set before the history is saved; a new instance reads the file of before and overwrites the turn | as above |
| `NeverErrStopped` (`agentd/supervisor.go:296`) | `AgentTeam` | the instance of the second attempt is idle and empty too, and may be evicted again | as above, `MaxEvict = 2` |
| `PromptFresh` (`agentd/supervisor.go:434`) | `AgentTeam` | `Get` reads the roster before `start` inserts; an edit in between reaches neither | as above, `MaxEvict = 0`, `MaxUpdate = 1` |
| `DeletedIsGone` (`agentd/supervisor.go:538`) | `AgentTeam` | in the same gap a deleted agent is started | `team_safety`, `MaxCompact = 0`, `MaxEvict = 0` |
| `CeilingHeld` (`cmd/agentd/main.go:36`) | `AgentTeam` | a specialist displaces the boss, who comes back without a check | `team_safety`, `MaxDelete = 0`, `MaxCompact = 0`, agents `{boss, ada, cal}`, specialists `{ada, cal}`, four instances, one caller, three messages, no eviction |
| `ReportDelivered` (`agentd/loop.go:136`) | `AgentTeam` | `report` drops the error of a full inbox | `team_safety`, `MaxDelete = 0`, `MaxCompact = 0`, `MaxLive = 2`, one caller, three messages, no eviction |
| `NoDeadCard` (`agentd/interactions.go:52`, `gate.go:260`) | `Gate` | an interrupt between register and Raise clears a hand that goes up afterwards | `gate_calls`, `Calls = {a1, q}`, `ToolOf <- OneAndAQuestion`, `MaxTurns = 1`, no SYMMETRY |
| `AnswerHonoured` (`agentd/gate.go:193`) | `Gate` | a timer's branch is taken before `forget`: `Resolve` succeeds for a call that says timeout | as above |
| `StateShowsWaiting` (`agentd/loop.go:915`) | `Gate` | the state is counted under the lock and published outside it | `gate_calls`, `MaxTurns = 1` |
| `ConsentNotCarried` (`agentd/gate.go:256`) | `Gate` | a consent given between revoke and cancel survives both (PROPERTY) | `gate_calls`, `MaxTurns = 1`, no SYMMETRY |
| `DeniedIsTrue` (`chat/feed.go:262`) | `Feed` | the feed reads the log before the hub: an ask approved in between is shown as denied | `feed_asks` |
| `SettledStaysSettled` (`chat/messages.go:157`) | `Feed` | a timeout writes no decision, so a fetch has the settled card live again (PROPERTY) | `feed_asks` |
| `EveryCardSettles` (`chat/feed.go:265`) | `Feed` | a connection settles only the asks it has shown itself (PROPERTY) | `feed_asks` |
| `DroppedHeals` (`agent/stream.go:89`) | `Hands` | a hand that goes down between the poll and the stream keeps its card until the stream breaks (PROPERTY) | `hands_board` |
| `SettingTakesEffect` (`chat/apps_routes.go:252`) | `AppsHost` | a push under way is not put out of date, and lands with the old answer; nor is any push, when the row is written and the save is reported as failed | `account_apps` |
| `SettingKept` (`chat/apps_store.go:93`) | `AppsHost` | a push that read the row before the setting was saved writes all of it back (PROPERTY) | `account_apps` |
| `ErasedForGood` (`chat/v1.go:115`) | `AppsHost` | a connection or a row made during the erasure outlives it (PROPERTY) | `account_apps` |
| `NothingUnsaved` (`agentd/meter.go:344`) | `Meter` | of two writers the later to rename may have encoded the earlier rows, and a save that fails is only logged | `turn_disk` |
| `NeverTorn` (`agentd/meter.go:374`) | `Meter` | two writers share one temporary file: one renames what the other has just cut to nothing | `turn_disk` |
| `FailureLeavesConversation` (`agentd/compact.go:100`) | `Conversation` | when the compacted history cannot be saved the agent goes on with it (PROPERTY) | `turn_disk` |
| `SummaryRecoverable` (`agentd/compact.go:228`) | `Conversation` | the copy is of the file, which a failed save has left behind (PROPERTY) | `turn_disk` |
| `RolesAlternate` (`agentd/compact.go:60`) | `Conversation` | results put in for calls that never ran are followed by the next message | `turn_disk` |
| `NeverAnotherFile` (`agentd/outbox.go:40`) | `Numbering` | a file that was not written back is gone after a power cut, and its number is given again | `turn_disk` |
| `IdsAreNew` (`agentd/events.go:43`) | `EventLog` | an event was handed on and its line was not written; its id is given again (PROPERTY) | `turn_disk` |
| `StreamForwards` (`agentd/routes.go:301`) | `EventLog` | a stream stays with the log of the instance it was opened on, and beats (PROPERTY) | `turn_disk` |
| `AppendedIsRead` (`agentd/events.go:109`) | `EventLog` | a part of a line takes the event after it along (PROPERTY) | `turn_disk` |
| `IdsAreUnique` (`agentd/loop.go:310`) | `EventLog` | an agent stopped in its turn goes on appending beside its successor | `turn_disk` |
| `EveryCallCosts` (`agent/pricing.go:78`) | `Spend` | once an endpoint has charged for one call of a row, the row's other calls cost nothing | `turn_disk` |
| `FreshAfterDelete` (`agent/usage.go:44`) | `Spend` | a poll of the deleted machine ends after Forget and puts its totals back | `turn_disk` |
| `NoDaySkipped` (`agentd/schedule.go:632`) | `CalendarWalk` | where the clock goes forward at midnight behind UTC, the candidate day is the day before (PROPERTY) | `cal_next`, `Exprs <- DailyOnly`, `Zones <- MidnightZones` |
| `NothingTighter` (`agentd/schedule.go:26`) | `CalendarWalk` | times of day may be as close as a minute (PROPERTY) | `cal_next`, `Exprs <- CloseTimes`, `Zones <- OnlyUTC` |
| `OnItsClock` (`agentd/schedule.go:799`) | `Schedules` | a run planned in one zone is stored after the zone has changed | `sched_safety`, `Exprs <- OnlyDaily` |
| `LastRunNotLost` (`agentd/schedule.go:973`) | `Schedules` | lateness is measured from an earlier run, and the last one is given up at once (PROPERTY) | `sched_safety`, `Exprs <- OnlyBounded` |
| `BookedAhead` (`agentd/schedule.go:705`) | `Schedules` | the plan is made before the person approves it (PROPERTY) | `sched_safety`, `Exprs <- OnlyOnce` |
| `NoRunAfterCancel` (`agentd/routes_schedules.go:69`) | `Schedules` | the sweep fires a copy without looking at the store (PROPERTY) | `sched_safety`, `Exprs <- OnlyEvery` |
| `NotBehindPerson` (`agentd/schedule.go:1029`) | `Schedules` | idle is read under one lock, the message queued under another (PROPERTY) | `sched_safety`, `Exprs <- OnlyEvery`, `MaxSends = 1` |
| `RunsForItsOwner` (`agentd/schedule_test.go:1081`) | `Schedules` | ids are reused: an agent of the same name gets the old one's work | `sched_safety`, `Exprs <- OnlyEvery` |

`OnceRunsOnce` is stated for a person who has not changed zone: `fire` reads the
zone again for a copy taken earlier, so after a move west the one run of a one-off
counts as not the last and is delivered a second time (`schedule.go:377` promises
"exactly one").
