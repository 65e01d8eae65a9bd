# GWatch in TLA+

GWatch (this repository) monitors a home network: it runs checks on a schedule,
judges their results, sends alerts that must neither be lost nor repeated, and
keeps doing so while its configuration is edited, restored from a backup or
pointed at remote collectors. This directory models the parts of it where that
is hard, checks them with TLC on small installations, and proves the most
important properties with TLAPS for installations of any size.

Run a model with `tlc -config <run>.cfg <module>.tla`, check a proof with
`tlapm <module>.tla`. `PROJECT.json` lists the runs, the lines of the source
every definition stands for, and the hazards each property is for.

## The system

One process, one engine (`internal/engine`), one mutex `Engine.mu` over its maps,
and many goroutines; an HTTP API in front of it, a database behind it, and agents
on other machines that report to it. Everything below is a component, the state it
keeps, what acts on it, what makes it correct, and the module that has it.

| Component | State | Operations | Correct when | Module |
|---|---|---|---|---|
| Alert processing (`process.go`) | a `CheckState` per check, committed with its result | `process`: wait for a delivery, judge, decide, perhaps probe the parent, commit, dispatch; `failedMail` | an outage that lasts is told; an outage counted as alerted was told or is being told; nothing staged overwrites something newer | Alerts |
| Grouping and delivery (`alertbatch.go`) | open windows (`alertGroups`), deliveries under way (`mailDone`) | `queueAlert`, `closeGroup`, `sendGroup`, `sendMail`, `dropPendingDown`, `releaseMailDone`, `flushAlertGroups` | waiting on a delivery always ends; a recovery never precedes its alert; stopping loses nothing | Alerts |
| Scheduler (`engine.go`) | `running`, `inflight`, a semaphore, next-run times | `tick`, `runAndProcess`, `RunNow`, `RunNodeChecks` | every enabled check keeps running; one run of a check at a time; slots are returned | Scheduler |
| Configuration reload (`engine.go`) | the maps of nodes, checks, states, windows | `ReloadConfig` | the newest saved configuration wins, states of surviving checks are kept | Restore, Scheduler, Rules |
| Work gate and restore (`pause.go`, `api/manage.go`, `backup`) | `paused`, the count inside, the waiting channel | `enterWork`, `leaveWork`, `Pause`, `Resume`, `restore` | nothing writes during a restore; one at a time; always resumed; nothing old survives | Restore |
| Notification rules (`rules.go`) | rules, met or not, since when, last fired; the same stored | `loadRules`, `evaluateRules` | fired once per episode, also across a restart; met exactly while the conditions hold | Rules |
| Remote collectors (`collectors.go`, `cmd/gwatch-agent/collector.go`) | last seen and down per collector; on the machine its assignment and results | `IngestCollectorResults`, `watchCollectorsLocked`, the agent's runs and batches | nothing acknowledged is lost; a quiet spell neither repeats nor swallows an alert | Collection |
| Agent queue (`cmd/gwatch-agent/spool.go`) | held readings in memory and in a file | `add`, `flush`, `flushBatch`, `sync`, `load` | nothing within the limits is lost, nothing delivered is offered again | AgentQueue |
| Check-in and token rotation (`checkin.go`, `agentsync.go`, `store/hosts.go`) | current and pending token on both sides | rotate, replace, cancel, promote, `takeToken` | the agent is not locked out; a rotation ends | AgentToken |
| Editing nodes and pairing machines (`api/api.go`, `api/bulk.go`, `api/hosts.go`, `store/`) | nodes, their parents and hardware checks; pairing codes | save, bulk edit, create, delete, pair | no loop of dependencies; a paired machine is watched; a code is good for one | Nodes |
| Rollups and retention (`jobs.go`, `store/history.go`) | results, three tiers of summaries, `heldSince`, the backfill mark | routine and full passes, `noteHeldResult` | every result is summarised before it is deleted, a late one too; no summary shrinks | Rollups |
| Warning digest (`alertbatch.go`) | stored entries and counts of dropped ones | `addToDigest`, `runDigest` | every warning is in one e-mail or counted as dropped in one | - |
| Triggers, reports, backups, rest of the store and the API, check runners, discovery, metrics, mailer, update, service, web, MCP | | | I/O, data or presentation | - |

They interact through `Engine.mu` (short critical sections), channels that are
closed to wake whoever waits (`mailDone`, `checkFlight.done`, `workGate.idle`),
calls that release the mutex in the middle (a probe of the parent inside
`process`, the reads of `ReloadConfig`, the saves after an evaluation of rules), the
database, the files beside an agent, and requests whose answers get lost. So the
hard behaviour is interleaving: state read in one critical section or transaction
and used in a later one, alerts that are between two containers, a wait on
something that is already over, work that does not go through the gate; and, between
machines, what was done by a request whose sender believes it failed.

How the modules meet: a result of Scheduler is a run of Alerts; the gate is the one
of Restore in Scheduler too; Collection hands its live results to the judging that
Alerts has in full, and keeps of it what a quiet spell meets; what Collection holds
back waits in a queue that is AgentQueue's; Rules looks at the statuses the others
produce; a late result of Collection is one that Rollups stores late.

## The modules

### Alerts: from a result to a message

`Alerts.tla` is `process.go` and `alertbatch.go`. One action is one critical
section of `Engine.mu` (or of the database, when the mutex is held across it).

| State | In the code |
|---|---|
| `live` | `Engine.states`: status, consecutive failures, `AlertActive`, `LastAlertAt`; `cooling` says whether the cooldown since `LastAlertAt` is still running |
| `enabled`, `muted` | the check and its node are enabled; any of acknowledged, alerts off, maintenance, silenced |
| `run` | the invocations of `process`: where each stands, the state it staged (`before`), the channel it waits on, the alerts it has yet to queue |
| `mail`, `mailDone` | deliveries and the map of the one to wait for, check by check |
| `groups` | the windows, one for each kind of alert (one node and one recipient list here) |
| `stopping` | `Engine.stopping`, and whether `Stop` has flushed |
| `told` | what recipients know; not in the code, written only where a message gets through |

A run goes `begin` (and `held`, while it waits for a delivery) to a commit, by way
of `probe`, `joined` and `probed` when the parent is run first; a committed run
goes through `recovering` and `overtaking` (the two steps of `dispatchAlerts` for a
recovery) to `queue`, where its alerts join a window or a delivery one by one. A
delivery is `taken` between `closeGroup` and its registration in `sendGroup`, then
`sending`, then `told` or `failed`, then released. Failures are everywhere a step
can fail: `Unrecorded` and `ProbeUnrecorded` (a transaction, or a check disabled
meanwhile), `GiveUp`, `ProbeTimeout` and `WorkCancelled` (a context), `FailedMail`,
`NoRecipients` and the partial `Deliver`. A partial delivery and the re-arming of the
alerts it did not send are one step, since the next result of each of the checks waits
until the delivery is done with all of them.

`AlertContract.tla` is what a recipient may rely on, without runs or deliveries: an
outage is told at most once, a recovery at most once and only after its outage's
alert. `KeepsContract` says that Alerts implements it under the mapping
`open <- status = "down"`, `heard <- told.down`, `last <- told.last`. It holds without
windows and with one alert per result; the known exceptions are below.

### Restore: the gate

`Restore.tla` is `pause.go` and the request that uses it. `paused`, `active` and
`idle` are the fields of `workGate` (a channel is named after the `Pause` that made
it, and `drained` are those closed); `inside` are the units of work admitted;
`request` is where each restore stands; `reloading` is `reloadMu` and `read` what
the `ReloadConfig` holding it has read. States are known by their age alone: how
many restores had been committed when they came to be (`live`, `stored`, `age`). What
does not go through the gate is there too: saves that reload the configuration
(`Editors`) and, if the reload finds the check switched off, store its state
(`MaySwitchOff`, `engine.go:361`); deliveries that fail and store a state (`Mails`); and
silences, which store what the engine holds (`MaySilence`). `overtaken` is a history
variable: one of them applied or stored what was older than the last restore. It turns
the known exceptions of `RestoredAfresh` into the precondition of
`AfreshUnlessOvertaken`: a state survives a restore by these, and neither by the work
the gate admits nor by any way through the restore itself. Other statements that write
a state (`process`, `tick`, `watchCollectorsLocked`, `dropPendingDown`) are inside the gate.

### Scheduler: which checks run

`Scheduler.tla` is the rest of `engine.go`: the tick, `runAndProcess` with its flights,
the two ways to ask for a run, and what replaces the configuration under them.

| State | In the code |
|---|---|
| `setting`, `held`, `due` | how each check is configured (enabled, disabled, run by a collector, deleted), whether `Engine.states` has it, and whether its `NextRunAt` has passed |
| `running`, `inflight` | the maps of the same names: marks, which keep `tick` off a check, and flights, which later runs join |
| `sem`, `size`, `used` | the semaphores made so far, numbered; `sem` is `Engine.sem`. Who took a slot gives it back to the one it was taken from, whatever `ReloadConfig` has put in its place |
| `tick` | the scheduler's loop: while it is `launching` it holds `Engine.mu` |
| `run` | the goroutines: who started each, for which check, with a slot of which semaphore, and where it stands |
| `node` | requests to run all checks of the node |
| `paused`, `active`, `restore` | the gate, as in Restore |

A run is `called` when its goroutine has been started, then `flying` or `joined`;
a flight may be `recorded` (its result committed, the next run scheduled), and
lands either way: the check may have been deleted or switched off meanwhile. It
then gives its slot back (`Release`) and leaves the gate (`End`), in that order, as the
deferred calls do. `NotRun` is the early return for a check that is gone or has been
handed to a collector. The mutex makes a whole tick one critical section, but the gate
and the slots have their own synchronisation, so a tick is a series of actions
(`Launch`, `Refused`, `Busy`) with pauses and returned slots in between and, by
`Unlocked`, nothing else. What happens to a result is in Alerts.

### AgentQueue: what cannot be delivered

`AgentQueue.tla` is the spool, with the one loop that owns it.

| State | In the code |
|---|---|
| `held`, `disk`, `dropped`, `stale` | the fields of `spool`; a reading is the number of its turn, so a queue is a set |
| `file` | the lines that parse, the number of those that do not, and whether the last one is torn, or whole but for its newline |
| `pc`, `batch` | where the loop stands, and the request under way |
| `answered`, `owed`, `unclean`, `joined`, `hidden` | history: what GWatch is known to have taken; what a successful sync left in the file; whether a stop was not clean; whether something was written after a line without newline; whether the file has lines that the start could not open |

`Sync` is its four ways (remove, rewrite, append, nothing to do), `SyncFails` a write
that fails, of an append possibly after part of it, and `Crash` may come in the middle
of one: `CutShort` is every file such an append can leave, the whole one among them, if only
syncing it failed. `Load` takes up what parses, is not too old and fits the limits, of
all the lines or of those before a read that fails; `LoadFails` is a file that is there
and cannot be opened, which `load` takes for an empty one.

### AgentToken: a token and its replacement

`AgentToken.tla` has both ends. At GWatch `cur`, `pend` and `status` are columns of
`agents`; on the machine `rt` is the token in use, `home` the one it would start with
(in `agent.json` if `fromFile`), and `taking`, `saved` the steps of `takeToken`. A
request is sent, looked up, promotes a pending token or not, and is answered in steps
of their own, also after the agent has given it up; an answer may be lost. An
administrator rotates, replaces the token at once, cancels, revokes, disables.
`withdrawn` are the tokens that were made useless on purpose.

### Nodes: who may change a node

`Nodes.tla` has the requests that read nodes, decide and write: saving one node whole
(`handleUpdateNode`), the columns of several (`bulk.go`), creating, deleting, and the
pairing of a machine, whose last step points a waiting hardware check at it. What a
request is about to write is in `req`, and `stale` says that something it read has
been written since. `overlapped` remembers that a stale request wrote, `removed` that a
person's save left a machine's check out.

### Collection: a collector and its server

`Collection.tla` has the machine (`runs`, `jobs`, `queued`, `aged`), the requests with
batches of results (`post`: where GWatch stands with each, whether the agent still
waits, what is left to judge, to record or was rejected), and GWatch: the states `st`,
the history `rec`, the delivery of each check (`mail`), the watch (`down`), and what
can be changed meanwhile (`thr`, `given`, `off`, `on`). A result is the number of its run,
which is also its time; `Spacing` is 4/5 of the interval in this measure, within which
a held result is taken for one that is recorded (`Near`). `unheard` are the live results of a
request that came when their check had been turned off: GWatch takes them and records
nothing. `word` is what people were last told of a check.

### Rollups: what becomes of history

`Rollups.tla` has one check's results (`raw`) and summaries (`tier`; a summary is the
set of the results it counts), the passes statement by statement (`pass`: the loop's,
and beside it those somebody requests, which nothing keeps apart), late results
between their insertion and `noteHeldResult` (`noting`, `heldSince`), and the setting
that says how far the last full pass came (`mark`). A pass deletes each kind of row by a
statement that fails on its own. `counted` are the results a 5-minute summary has counted,
`rolled` says when the loop last made all its summaries, as long as that is not too
long ago for the next to reach what comes late. `lapsed` says that the loop began a
pass later than a routine pass rereads, or that its first pass after a start failed: from
then on nothing is promised, and nothing is modelled.

### Rules: the rules over checks

`Rules.tla` has everything that can change whether a rule's conditions hold: results,
silences and their end, the maintenance window, a collector that goes quiet, the
configuration; and who then evaluates (`owes`), each after it let `Engine.mu` go.
`Decide` is the critical section of `evaluateRules`, `Save` and `SaveFails` are what
follows for each rule while `rulesEvalMu` is held (`saving`); `LoadApplies` to
`LoadEvaluates` is a reload, which may fail part-way. `held` and `stored` are the two
copies of a rule's state. `missed` are rules a change of which nobody evaluated,
`unsure` those stored otherwise than decided, `fired` those whose last decision was to
fire.

### MC modules, proofs and faults

`MCAlerts`, `MCRestore`, `MCScheduler`, `MCNodes`, `MCRollups` and `MCRules` hold the
small values and the symmetry sets for TLC; AgentQueue, AgentToken and Collection
need none. `AlertsProofs`, `RestoreProofs`, `SchedulerProofs`, `AgentProofs` (AgentQueue
and AgentToken), `NodesProofs`, `CollectionProofs`, `RollupsProofs` and `RulesProofs` hold
the theorems. The definitions marked "a fault" belong to no specification: each is a
plausible mistake in the definition that follows it, kept to show that the
properties would notice it (`PROJECT.json`, `mutants`).

## What the runs check

| Run | Instance | Shows |
|---|---|---|
| `alerts_window` | one check, one run, one delivery, threshold 1, window, recovery e-mails, cooldown, warnings, `Stop`; fairness | `TellsOutage`: an outage that lasts while the service runs and nothing mutes it is told, however many transactions and deliveries fail and whatever waits in a window; `RunsEnd`: no result waits for ever; `FlushedForGood` |
| `alerts_dependency` | parent and child, two runs, two deliveries, threshold 2, both may be disabled, the parent muted | `KeepsContract`: at most one alert per outage, and a recovery only after it, with probes that start, join or are overtaken by other runs; `AlertAccounted` |
| `alerts_overtake` | one check, two deliveries, window, recoveries for channels only | a violation: see Findings |
| `restore_gate` | 3 units, 2 restores, 1 editor, 1 delivery, silences, a check found switched off, 2 commits; fairness | `QuietRestore`, `PauseNotForgotten`, `AfreshUnlessOvertaken`, and `ServesAgain`: every way through a restore ends with the engine running |
| `restore_reload` | 1 unit, 1 restore, 1 editor | a violation: see Findings |
| `scheduler_live` | 1 check, 2 goroutines, 1 request for the node, 1 call, 1 reload, 1 restore, sizes 1 and 2; fairness | `MarkHasRun`, `SlotsKept`: nothing marks a check for good or loses a slot, with the semaphore replaced at any point; `QuietWhenPaused` for runs and ticks; `RunsEnd`, `ChecksRun` |
| `agent_queue` | 4 readings, a limit of 2, batches of 2, 1 crash; fairness | `FileMatches`, `DurableUnlessJoined`, `NotSentTwice` through torn and failed writes, stops, a crash, and starts that cannot open or read the file; `HeldIsSent` |
| `agent_token` | 3 tokens, 2 requests; fairness | `NotLockedOut` however requests overlap, get lost and are served late; `RotationEnds` |
| `nodes_edits` | 3 node ids, a person, 2 machines and one code | `NoLoopUnlessOverlapped`, `WatchedUnlessOverlapped`, `OneMachineForACode` |
| `collection` | 1 check, 2 runs, a spacing of 1, thresholds 1 and 2, 1 request | `TakenIsRecorded`, `ToldOnce`, `AlertIsTold` across lost answers, quiet spells, restarts and a check turned off and on |
| `rollups` | buckets of 2, 4, 4 slots, 6 slots of time, 2 results, 1 late, and 2 of: a requested pass, a pass that fails, a crash; fairness | `RolledUpBeforeDeleted`, `NeverShrinks` under the conditions they name, `Summarised` |
| `rules` | one check a collector runs, one rule, 1 save, 1 crash, 1 failed statement | `MetAsItStands`, `FiresOnce` |

Each passing run also checks the type invariant of its module, except `alerts_dependency`,
whose module's is checked in `alerts_window`. `CHECK_DEADLOCK FALSE` stands where the
model really ends: when codes and ids are used up, and when time is over.

### Bounds, and why they are enough

* Alerts: a hazard needs two runs of a check, or a run and a delivery, or two
  deliveries; three never add a new kind of overlap, because a run looks at one channel
  and `mailDone` holds one delivery per check. `Times` only distinguishes the alerts about
  one check that are on their way together. A threshold of two has a failure that is not
  an outage, one has not.
* Restore: the gate meets all its races with two restores (one of them refused or
  timing out) and with the last unit out and those before it.
* Scheduler: two goroutines are one that flies and one that joins, two semaphores the old
  and the new one. The proofs have any number of checks, reloads and restores.
  `ChecksRun` is checked where there is a slot for every check. With two checks and one
  slot TLC finds a schedule that starves one: passed over while the slot is taken, it is
  not looked at again in that tick, and the slot, returned within the tick, goes to the
  other. It takes that timing in every tick, and no fairness the code has rules it out.
* AgentQueue: a limit of two with batches of two has a limit that pushes lines of the
  file out, a batch of more than one, and, with four readings, a queue that is full again
  after it was delivered; one crash and any number of failed writes leave every kind of
  file.
* AgentToken: three tokens are two rotations that overlap; two requests are a check-in
  and a report, or two of them out of order.
* Nodes: a loop needs two nodes and one save can give several of them a parent; with
  three there is one more than the loop needs. The person's request and the two machines'
  are three that overlap. Deleted ids are not used again.
* Collection: one check, for collectors' checks meet only in the batch, and two runs: a
  result and a newer one, or the same sent twice. This is the run where a small instance
  says least: a threshold raised in an outage needs a longer history than two runs, and
  it was the failing proof of `ToldOnce`, not TLC, that showed it. The proofs have
  any number of everything.
* Rollups: the scale puts every distance of the code (bucket, reread, catch-up, retention)
  in the same order as in the code within six slots; two results are one on time and
  one late, or two in one bucket. `Slow` lets time pass only during the loop's pass: a
  requested one takes its steps between those of the loop, a late result and a failure, at
  one moment. With three troubles (2.5 million states) TLC finds nothing more. That
  `rolled` is needed shows with eight slots and four troubles: without it TLC violates
  the hourly part of `NeverShrinks`. The proofs have any scale, requests that take time,
  and any number of everything.
* Rules: one check is everything a condition can look at, for `Needed` counts checks that
  behave alike, and the proof has any. One save, one crash and one failure let each of
  them hit every step of an evaluation and of a reload.

### Fairness

Go runs every goroutine that can go on, and deliveries and reads have timeouts.

* Alerts: runs and deliveries are weakly fair. Until `Stop` the scheduler gives every due
  check its turn, longest due first, so starting a run of a check is strongly fair while
  the service is `Serving`. Retries pay off in the end: committing, registering and
  delivering are strongly fair for each check, for `TellsOutage` cannot hold if the database
  or every recipient is unreachable for ever. `Stop` cancels the context of the scheduler's
  loop (`engine.go:236`, `437-438`), so after it nothing is retried, none of this is
  assumed and `TellsOutage` asks for nothing; a run may still start, by the last tick, a
  request being served or a pushed reading, but need not. The context of a waiting run is
  never required to end, nor a timeout to occur.
* Restore: a request under way goes on; nothing forces work to be short, since `Pause` has
  its own timeout.
* Scheduler: goroutines and requests are strongly fair because what they wait for, the
  mutex and a slot, is handed out in turn, and so is launching a check that finds a free
  slot tick after tick; time and the loop are weakly fair. No caller is required to go
  away, and no run to be recorded.
* AgentQueue: the loop goes on, and the agent is started again; a server that is reached
  again and again takes what it is sent, and its answer arrives again and again.
* AgentToken: the loops ask again and again and requests are served; and from some point
  on nothing fails and the agent is not ended (`Trouble`), for it asks only every few
  minutes, and `RotationEnds` is about what it does once it can.
* Rollups: the loop goes on, a late result is noted once it is stored, the service is
  started again. Failed statements and crashes are bounded.

Nodes, Collection and Rules state safety only: there nothing retries but the agent,
whose retries AgentQueue has.

## What is proved

For all values of the constants, under the assumptions on them that each module names
(finitely many checks or units, positive limits, special values that differ from
ordinary ones), or under a hypothesis that the theorem names. But for the types of some
modules none of the properties is inductive alone; each module has an
invariant that is, one lemma for each action or group of actions, and a lemma that puts
them together.

* `AlertsProofs`: `TypeCorrect`, `WakeupsNotLost`, `AlertsAccounted`, `GroupsFlushed`.
  `IInv` adds the shape of a run at each place (`RunShape`), that an unpushed check has
  one run (`SingleFlight`), that its status cannot have gone down again while its
  recovery is dropping a pending alert (`RecoveringUp`: without it `dropPendingDown` could
  take away the alert of a newer outage), and that alerts are only active in an outage
  (`ActiveIsDown`: a disabled and re-enabled check must not look alerted).
  `NoLostWakeup`, that nobody waits on a channel that nobody will close, has no run of
  its own: it is part of `IInv`, and `RunsEnd` is what follows from it.
  `ContractKept` is the refinement: every step of Alerts is a step of `AlertContract` or
  leaves its state alone, under the hypothesis `OneByOne` (no grouping window, no warnings,
  no pushed checks), under which the run checks it too. Its invariant `ContractInv` relates
  what is on its way to what recipients know: an alert comes to people who have not heard of
  the outage, a recovery to people who last heard of its outage, and an outage that was told
  still counts as alerted (`News`). It rests on there being one thing on its way about a
  check: a delivery carries one alert and is the one its check's `mailDone` names (`OneMail`),
  and a run that is past waiting has no delivery beside it (`WaitsFirst`). `NoOvertakingOneByOne` says
  that `RecoveryAfterAlert`, which `alerts_overtake` violates, holds without windows.
* `RestoreProofs`: `RestoreTypes`, `RestoresAreQuiet`, `PausesAreTold` from `GateInv`, in which
  the counter equals the number of units inside, at most one request is past the
  gate, and a waiting `Pause` is either told and the gate empty, or named by `idle`
  and the gate not empty. `RestoredFresh` adds `Fresh`: unless something that passes
  the gate overtook it, the database is as new as the last restore, and the engine holds
  something older only between commit and `DiscardStates`.
* `SchedulerProofs`: `SchedulerTypes`, `MarksHaveRuns`, `SlotsAreKept`,
  `RestoresFindNothing`. `IInv` adds `FlightOwned` (a check in flight has exactly the run
  that flies it: without it a run that joins could leave a mark behind that nobody
  clears), `GensPast` (a semaphore not made yet has no slots taken: without it a new one
  might start full), `RunShape`, and `GateCounts`: the gate counts the `Units` of work, that
  is the runs of the schedule and of users, the requests for the node, and the tick; the
  runs of a request are counted with it. From `GateCounts` a restore that finds the
  count at zero finds no run, hence no flight, hence no mark.
* `AgentProofs`: `QueueFileMatches`, `QueueKeeps`, `QueueSendsOnce` from `QueueInv`, whose
  strengthening is `Torn`: a file that ends in part of a line has garbage, and whoever finds
  garbage rewrites. That holds for a torn line, and not for a whole one without newline,
  which parses: the next append then joins two readings into one line that does not. This
  is what `joined` excludes. A start that cannot open the file begins with counters of an
  empty one: `hidden` excludes it, and holds until the file is replaced or read whole.
  What is `owed` ends where a start has not read it. `QueueTypes`, with the limit on the file (`FileBounded`), adds
  `Sized`: a file that need not be rewritten has no more lines, parsed or not, than the
  queue counts as held there or dropped. An append, cut short anywhere, adds at most as many
  as the queue lacks (`WrittenCounts`, `ShortCounts`), and it happens only while few are
  dropped. `FileBounded` alone is not inductive: it says nothing of what the next append adds.
* `AgentProofs`, for the token: `TokenTypes`, `NoLockout` from `TokenInv`: each place a token can be in,
  the agent's memory, its file, a request to be promoted, an answer on its way, holds one
  that GWatch accepts or that was withdrawn; what the agent is taking up is later than what
  it uses (`Forward`), and an agent that has asked with the replacement keeps it (`Asking`).
* `NodesProofs`: `NodesTypes`, `NoLoops`, `MachinesWatched`, `CodesAreOnce` from `NodesInv`: what a
  request that is not stale has read is what is stored (`Fresh`), hence the walk it made
  over the parents is right when it writes (`NoLoop` is stated without recursion: among any
  nodes there is one whose parent is not among them), and a pairing that is about to
  complete will write a check for its machine (`Completing`).
* `CollectionProofs`: `CollTypes`, `TakenAreRecorded`, `OutagesToldOnce`, `AlertsAreTold` from
  `CollInv`: of each result in a request, that it or one so close to it is recorded
  (`Near`), that it was rejected or its check was turned off, or that it is still to be
  judged (`InHand`), and of each check, that what people were told and what is on its way
  agree with the alert that stands. A check that was down before its collector went quiet
  is remembered by its count of failures alone (`Stands`), which is where raising the
  threshold bites.
* `RollupsProofs`: `RollTypes`; and `CountedBeforeDeleted` and `FiveNeverShrinks` from
  `RollupsInv`, for any lengths of the buckets, any passes side by side, any number of
  results, failures and crashes. `Covered` says where a result is that no 5-minute summary
  has counted: noted for the next pass or about to be, within what the pass under way has
  yet to read, or younger than the last one; and not older than `HeldFor` before the last
  full pass, which is what a start relies on. So any pass that has made its 5-minute
  summaries, and is about to delete, has left out only results that came late meanwhile
  and are too young for it to delete. `Fragments` says that where a deleted result is
  counted everything left of its bucket has been counted too, and `Whole` that it is counted
  there, so that the rule "a bucket that counts more is left alone" never leaves out a
  result. The theorems are unconditional; the
  conditions are in the properties. `KeptLongEnough` is about the retention settings:
  results are kept at least as long as one may be held back and a bucket lasts, and a start
  goes back as far as a result may be held back. The defaults (30 days, 72 and 48 hours)
  satisfy it; one or two days of results, which `manage.go:478` accepts, do not. `lapsed`
  is the other.
* `RulesProofs`: `RulesTypes`, `RulesFollowChecks`, `RulesFireOnce` from `RulesInv`: who fired is
  held, or decided and about to be stored, or stored (`FiredIsHeld`, `FiredIsSaved`,
  `FiredIsStored`), and the conditions as they are stored with the configuration agree with
  the stored state of a rule nobody owes an evaluation (`StoredAsItStands`), which is what a
  restart relies on.

Every invariant a run checks is stated by one of these theorems. Only model-checked are
the liveness properties (`TellsOutage`, `RunsEnd`, `ServesAgain`, `ChecksRun`, `HeldIsSent`,
`RotationEnds`, `Summarised`), because TLAPS here proves no liveness under fairness and
nothing about ENABLED; and the parts of `NeverShrinks` about hourly and daily summaries. Those
have conditions of their own. `SummariesKeptLongEnough`: the 5-minute summaries are kept
longer than the results, and they and the hourly ones until nothing new comes into the
larger bucket. And `rolled # Never`: if the loop's passes fail for longer than what they
reread of the 5-minute summaries exceeds the age of a held result (72 less 48 hours), the
next one puts a result into a 5-minute summary and into no hourly one, and a full pass that
comes when the 5-minute summaries of the rest of that hour have been deleted replaces the
hour by what is left of it.

Out of the prover's reach in general are facts that need induction over data or a
RECURSIVE operator; the dependency chain is therefore a recursive function (`Reach`), about
which the proofs need nothing. That a set of readings or results has an oldest is not
proved by induction either, but from the library's theorem that `<` on Nat is
well-founded.

## Findings

* `alerts_overtake`: the comment at `alertbatch.go:101` says a recovery must not
  overtake its alert; between `closeGroup` and the registration in `sendGroup` it can.
* `restore_reload`: a reload begun before a restore's commit applies its states after
  `DiscardStates`.

## Excluded cases

Where a property has an exception, a history variable names it, so that the property
says exactly what holds and the exception is on record. What is behind each:

* Alerts. A result with a recovery and a warning registers two deliveries in one slot of
  `mailDone`, and with windows a recovery's window may close after a newer alert's:
  `KeepsContract` is checked and proved without warnings and windows. Of two pushed results in
  process at once the older may commit last: `AlertAccounted` leaves `Pushed` checks out.
* Restore, `overtaken`: a reload as in `restore_reload`, or, between a restore's commit and
  its `DiscardStates`, what writes a state of before without the gate: `failedMail` of an
  old delivery (`process.go:1007`), `Silence` (`process.go:969`), and a `ReloadConfig` that
  finds a check switched off (`engine.go:361`). If the reload of a restore fails, the states
  stay discarded until something else reloads.
* Scheduler. The comment at `engine.go:650` says that a node's checks and the scheduled
  ones together keep to `MaxConcurrentChecks`. When that setting changes while a request
  is under way they take slots of two semaphores, and more run than either setting
  allows; `SlotsKept` is about each semaphore.
* AgentQueue, `joined`: a power cut that takes just the newline of a line (`spool.go:205`).
  `hidden`: a file that is there but cannot be opened when the agent starts
  (`spool.go:170-175`) counts as an empty one. What it holds is not sent, appends come on
  top of it, past "at most a tenth" above the limit (`spool.go:65-66`), and the next rewrite
  takes it away. A read that fails part-way gives up the lines after it, which the next
  rewrite takes away too (`spool.go:198-204`).
* AgentToken, `withdrawn`: a rotation that is cancelled, or started again, withdraws the
  replacement of the one before, also when the agent has collected that and thrown its old
  token away (`store/hosts.go:338`); the machine has then to be paired again.
* Nodes, `overlapped`: two saves that each read before the other writes can make a loop;
  `bindMachineCheck` reads a node and writes it whole (`api/hosts.go:833`), so a save in
  between is undone, or undoes it.
* Collection, `word = "raised"`: if the threshold is raised in an outage and the collector
  then goes quiet, the outage may be told again, or its recovery never
  (`docs/COLLECTORS.md:112-113`). `"lost"`: `failedMail` re-arms only a check that is down, so
  an alert whose delivery fails while the check is unknown is not told. Accepted without
  being recorded: a held result within 4/5 of the interval of one that is recorded
  (`collectors.go:241-252`), which is `Near`, and a live one of a check turned off since
  the batch was sorted (`process.go:80-83`), which is `unheard`. Without a
  property: a check assigned to a collector that is already unreachable stays as it is
  (`docs/COLLECTORS.md:98-101`); a live result whose answer was lost is judged again.
* Rollups, `lapsed`: a machine that sleeps, or a pass or restore that takes, longer than the
  two hours a routine pass rereads, leaves results out of the summaries until a restart or
  a full pass; the first pass of a start that fails is not tried again. `KeptLongEnough`:
  with results kept for one or two days only (`manage.go:478` accepts it) a result held back
  for 48 hours may be deleted uncounted, or come when others of its bucket have been
  deleted, and a fragment that counts as many results replaces a summary (`>=`,
  `history.go:34`). `SummariesKeptLongEnough`: the same of summaries kept for a few days
  (`manage.go:484`). `rolled`: passes that fail for longer than a day. A check fed by pushes
  with a long interval is judged without `noteHeldResult`.
* Rules, `missed`: `resumeFromCollector` puts a check that was down before its collector went
  quiet back to down before `process` remembers the previous status (`process.go:113`,
  `collectors.go:540`), so that if it comes back failing its rules are not evaluated; so
  does a crash between a commit and the evaluation, a window that opens and closes
  unseen, and a reload that fails part-way. `unsure`: `loadRules` stores the first state of
  a rule after letting the mutex go and may overwrite a firing (`rules.go:82`); a failed
  `PutRuleState` is only logged. After a restart such a rule fires again. What fires and
  what clears run their actions in goroutines that nothing orders.

## Not modelled, and why

* The wording of messages, per-metric statuses and incidents: data derived from the
  modelled state. The SQL behind each write is one step, except in Nodes, AgentToken and
  Rollups, where transactions and statements are the subject.
* A crash in Alerts: the code stores no trace of an alert on its way, so nothing could be
  promised across one.
* In Rules the cooldown, degraded checks, conditions on a node (they are conditions on its
  checks), the references removed when a check is deleted, and restores.
* In Collection alerts about the collector itself, mute reasons and clocks (a live result
  whose time cannot be right is filed as of now, `collectors.go:224-226`); in Nodes the
  other columns, bulk changes of checks and the hardware checks of a duplicated node; in
  Rollups figures other than counts, time zones and the hardware readings' own retention.
* The warning digest, which is written and sent apart from the alerts that are told at
  once; its one race is listed with the hazards.
* Check runners, discovery, Matter, system metrics, mailer, logging, secrets: I/O, parsing,
  formatting and cryptography; the outcome of a check is any. Backups, reports, triggers and
  actions: loops that write a file or call out, and keep no state another part acts on.
  The rest of the HTTP API: handlers that read or write one row and reload. Self-update,
  services, web interface, MCP companion, packaging: files, processes and presentation.
  Most of the repository's lines are of these kinds, which is why the lines the modules
  stand for are a small share of it.

## What could come next

The warning digest with its dropped counts; the hardware readings' judging outside a
flight, composed with Alerts; the cooldown and the unordered actions of Rules; the
hourly and daily parts of `NeverShrinks` proved; `KeepsContract` with windows, against a contract that allows
what `alerts_overtake` shows.
