# Akastr Agent: TLA+ specifications and proofs

The Akastr Agent is one Go process on a node. It keeps a WebSocket to Cloud, runs
one-shot commands, converges the node to desired states, reports facts, and replaces
itself when Cloud approves a new version. This directory holds TLA+ models of the parts
whose correctness depends on order, failure or concurrency, the TLC configurations that
check them, and TLAPS proofs about eight of them: the command path, the deployment, the
desired state engine, the address watch with ChangeIP, the panel, the routing, the connection
records with the log's follower, and the rate limit. Paths are relative to the repository
root, which is called `src/` in `PROJECT.json`.

Contents: [Inventory](#inventory), [Modules](#modules), [Runs](#runs),
[Refinement](#refinement), [Disagreements](#disagreements), [Fairness](#fairness), [Proofs](#proofs),
[Limits](#limits), [Plan](#plan), [Running](#running).

## Inventory

### Command path: `internal/operation`, `internal/transport`, `internal/lifecycle`

- State. `Engine`: the journal (active command per exclusive group, a bounded history of
  results), in memory and in a file. `Executor`: the executions of this process. `Client`:
  pending and running commands, the active session, results to write, a fatal error.
  `Gate`: the number of leases, or the updater's.
- Operations. `acceptOffer`, `handleAcceptedAck`, `execute`, `writeResult`, session begin
  and end; `Execute`, `replay`, `finishLeftover`, `finish`; `Begin`, `FinishWithResult`,
  recovery by `Recover`; `Operation`, `TryUpdate`, `Release`.
- Interaction. Cloud offers, the Agent accepts, Cloud authorises (`accepted_ack`), a
  goroutine executes and the session writes the result. Offers are repeated on every
  connection and every 30 seconds.
- Hard. Messages are lost with the connection; the process stops anywhere; a save may
  fail after its rename; goroutines of two commands of one group meet on one leftover; the
  updater replaces the process.
- Correct when a side effect happens at most once, what Cloud is told is durable, groups
  are exclusive, no lease leaks, the process is not replaced under a command, and every
  accepted command ends.

### Desired state: `internal/desired`

- State. Per module a `unit`: targets, rejected versions, the completeness flag, what was
  sent in this session, a wake-up channel.
- Operations. `Put`, `Keys`, `ControlReady`, `signal`, `run`, `pass`.
- Interaction. The session's reader changes the targets; a goroutine per module copies
  them, calls `Apply` without the lock and sends statuses to the active session.
- Hard. Targets change during `Apply`; a session is replaced between a send and its
  record; a new process has part of the targets.
- Correct when a pass never removes what is still named, no wake-up is lost, and node and
  Cloud end with the current versions.

### Address watch and ChangeIP: `internal/modules/ipwatch`, `internal/modules/changeip`

- State. The confirmed address, a report waiting for its acknowledgement, the armed
  attempt (in memory and on disk).
- Operations. `stepIPv4`, `ArmChange`, `CancelChange`, `Acknowledge`,
  `NotifyControlReady`; the handler's `Run` and `Recover`.
- Interaction. The handler arms an attempt before it calls the provider; the monitor
  settles it by observation and reports the outcome with the address.
- Hard. The provider may cut the network and the process; natural changes; observation
  without the lock; late acknowledgements.
- Correct when an attempt is never lost once the provider was called, a failed command
  has no outcome, an outcome starts from the address Cloud holds, and Cloud learns the
  address.

### Deployment: `internal/layout`, `internal/update`, `internal/daemon`, `internal/install`

- State. Two slots, the `current` link, the maintenance lock, the attempt record, the
  running process, the identity's key.
- Operations. `Updater.apply` (prepare the other slot, record the attempt, exec),
  `daemon.Run` of a candidate and its activation, `Install` step by step, systemd's
  restart.
- Interaction. Updater and installer take the same lock; a candidate is the same process
  after an exec and activates itself when Cloud accepts it.
- Hard. A crash between any two writes; a rename that worked and reports an error; an
  installer beside a candidate; a candidate Cloud never accepts.
- Correct when `current` can be started, the active slot is never written, no restart
  loop, and the node ends with the approved target.

### Panel: `internal/modules/xui`, `internal/panel`

- State. The panel's clients and traffic (external), `localState`: resets executed, the
  pending restart of Xray, a dirty flag.
- Operations. `Panel.Apply`: flush, read, per inbound resets, mark, writes, then restart,
  second read, `keepOnly`; `Snapshots.readPanel`.
- Interaction. `desired` calls `Apply` again and again; snapshots share its lock.
- Hard. Every panel request may fail before or after it took effect; a reset and its
  record are two steps; a mark must outlive the pass that set it.
- Correct when a reset is executed once, traffic is labelled with the reset it belongs
  to, what is reported converged is, no foreign client is touched, and the panel converges.

### Connection ledger: `internal/xray/ledger`, `internal/xray/accesslog`

- State. The sockets the kernel has shown, the waiting line per address, the times of the
  first and last dump and of the log's tail.
- Operations. `take`, `close`, `claim` (with `replayed`, `carrier`, `candidate`, `bind`,
  `dispute`), `expire`.
- Interaction. Three goroutines: dumps, close notices, the access log. The counts go to
  snapshots, the rate limiter and the connection records.
- Hard. Dump, notice and line of a connection arrive in any order; addresses are reused;
  the log does not tell UDP from TCP.
- Correct when no connection is counted for another user.

### Routing: `internal/modules/routing`

- State. The panel's template and the running Xray (both external): its configuration, its
  outbounds, its rule table. The module itself keeps none between passes.
- Operations. `Apply`: read, `managedTemplate`, test, `SaveTemplate`, read again, `restart`
  where only a start changes it, else `hotUpdate`: outbounds in, rules, outbounds out.
- Interaction. `desired` calls `Apply` again and again; the operator, the panel and Xray
  change the same things meanwhile.
- Hard. Four calls change one running process one after the other; any fails; Xray may be
  restarted between any two; a failed replacement loses the table the api is reached by.
- Correct when no rule names a missing outbound, what is reported applied is, and Xray ends
  with the target.

### Connection records: `internal/xray/accesslog`, `internal/modules/connectionrecords`

- State. `follower`: file, offset, the text read last, the size of the panel's copy.
  `Records`: queue, number dropped, the batch that waits for its acknowledgement.
- Operations. `poll` (`unchanged`, `cleared`, `recover`, `read`); `Lines`, `Ended`, `add`,
  `send`, `Acknowledge`.
- Interaction. Xray appends to the log, 3x-ui copies and truncates it, the follower passes
  lines to the ledger and the records, a session carries batches to Cloud.
- Hard. A poll looks at the log and at the copy in several system calls, and the log is
  copied and truncated between any two of them; the queue is bounded; a batch is sent again
  after a break and its first acknowledgement may still come.
- Correct when no line is passed on twice or out of order, and every record is stored,
  waiting or counted as dropped.

### Rate limit: `internal/modules/ratelimit`

- State. `Limiter`: limits, whether the kernel is known to be clean, a code; `rules`: the
  books of what it installed. In the kernel: hooks, filters, police actions.
- Operations. `Apply`, `Run`, `sync`, `converge`, `assign`, `drifted`, `removeAll`, `cleanup`,
  `Leftovers`.
- Interaction. Apply and a two-second tick share a lock; the ledger supplies the flows.
- Hard. `tc` fails part way; rules outlive the process; the kernel holds released actions
  for a moment; administrators change rules by hand; indexes and filters are limited.
- Correct when only limited clients are policed, at their group's rate, nothing is confirmed
  that is not so, and the kernel ends with the current limits or with none.

### Not modelled

The ChangeIP providers, the IPQuality runner, diagnostics, the update check and download,
netlink and `/proc` are I/O whose outcomes the models use. The SOCKS5 description, JSON
envelopes, configuration and the public address predicate are pure functions of their
input. Bootstrap is cryptography; the command line and the shell scripts only start the
rest. `PROJECT.json` lists each with its reason.

## Modules

| Module | Models | State and actions against the code |
|---|---|---|
| `Journal` | `operation/engine.go`, the snapshots | `BeginSnapshot`, `FinishSnapshot`, `Trim`, `RecentResult`, `ValidSnapshot`: operators on the snapshot that is saved |
| `CommandPath` | `engine.go`, `executor.go`, `client.go`, `gate.go` | extends `Journal`; `disk`/`mem` are file and memory; `exec[c]` is the goroutine's place, one phase per lock section or save; `up`/`down` are the connection's queues; Cloud is external |
| `CommandPathProofs` | | theorems |
| `Desired` | `desired/engine.go` | one `unit`: `targets`, `invalid`, `complete`, `sent`, `wake` as in the code; `pc` is the goroutine of `run`/`pass`; `Apply` is the contract of `module.Desired` |
| `DesiredProofs` | | theorems |
| `AddressWatch` | `ipwatch/monitor.go`, `changeip/handler.go` | `attempt`/`file`, `pending`, `reported`; the monitor's step is split where it observes without the lock; the handler is a process per command |
| `AddressWatchProofs` | | theorems |
| `Deployment` | `layout.go`, `updater.go`, `attempts.go`, `run.go`, `install.go` | slots hold a binary and a configuration; each write is an action with a failing variant; `proc` is what systemd runs |
| `DeploymentProofs` | | theorems |
| `Xui` | `xui/apply.go`, `state.go`, `snapshot.go`, `panel.go` | `pc` is where `Apply` is; each panel request and each save is an action with the ways it fails; `plan` is the operator `Plans` |
| `XuiProofs` | | theorems |
| `Ledger` | `ledger.go`, `accesslog.go` (opening) | one address; sockets, the waiting line; `Take`, `Notice`, `ReadLine` are one lock section each |
| `Routing` | `routing.go`, `template.go`, `xray.go`, `process.go` | `template`, `xray` are the panel's and Xray's; `pc` is where `apply` is, one action per request, each with the ways it fails |
| `RoutingProofs` | | theorems |
| `Follower` | `accesslog/follow.go` | a file is a sequence of lines; a poll is five actions (`Stat` of the log, comparison with `unchanged` and `cleared`, `recover`, `Stat` of the copy, read), between which Xray may write, 3x-ui copy or truncate, and the copy be rotated |
| `ConnectionRecords` | `connectionrecords/module.go` | `queue`, `dropped`, `pending` as in the code; `Send` is the part of `send` under the mutex, `Publish` the rest |
| `AuditTrail` | what the records promise | abstract: taken records wait until stored or are given up and told |
| `RecordPipeline` | `app/modules.go` (`sharedLog`) | composes `Follower` and `ConnectionRecords`: the lines a poll passes on become records |
| `RecordPipelineProofs` | | theorems |
| `RateLimit` | `ratelimit.go`, `rules.go`, `host.go` | `hook`, `filters`, `rate`, `linger` are the kernel's, `books` the module's `rules`; `pc` is where `sync` is; `plan` stops at `MaxFilters` as the code does, in its order |
| `RateLimitProofs` | | theorems |
| `MC*` | | constants for TLC |

`JSONFile.Save` is in every model three-valued: done, failed before the rename, failed
after it. A stop of the process keeps what is on disk and nothing else. Messages of a
session are queues that a break empties, as the WebSocket keeps order. Definitions marked
"Mutant" in the modules are variants of the definition that follows them, with a plausible
mistake; none is used by a specification. They show that the property named with them in
`PROJECT.json` would notice.

## Runs

| Run | Instance | Shows |
|---|---|---|
| `command_safety` | two commands of one group, history of one record, one offer of each in flight, one break, one crash, one failing save | `AtMostOnce`, `GroupExclusive`, `LeaseAccounting`, `ToldIsDurable`, `OnlyAuthorisedRuns` |
| `command_live` | one command, two offers in flight, two updates, one break, crash, failing save | `UpdateExcludesWork`, `AcceptedResolves` |
| `desired` | one key, three versions (usable, empty or rejected), one break, crash, failing `Apply` | `RetiredIsClean`, `NoLostWake`, `RemovesOnlyRetired`, `NodeConverges`, `StatusReachesUnbroken` |
| `address_safety` | one ChangeIP, two addresses, one natural change, break, crash, failing save | `SettledIsStored`, `TriggeredIsTracked`, `FailedHasNoOutcome`, `OutcomeFitsCloud`, `CausedIsAttributed` |
| `address_live` | one ChangeIP, two addresses, one natural change, one crash | `CloudLearnsAddress`, `CommandsEnd` |
| `deployment` | three targets, the second never accepted, two installations of which one may fail, one crash, two failing steps | `CurrentIsBootable`, `RunningIsCurrent`, `NoRestartLoop`, `ActiveUntouched`, `NodeServes`, `UpdateConverges` |
| `xui` | one inbound, present or not, of either kind; an owned and a foreign client, three secrets; two changes of the target, one reset, two faults of any of five kinds | `ResetOnce`, `LabelIsHonest`, `StatusIsTrue`, `ForeignUntouched`, `PanelConverges` |
| `ledger` | two users, two connections at one address, one UDP flow, seven events | `RightUser` |
| `routing` | three outbounds of which Xray refuses one, five disturbances of seven kinds (Xray's api failing twice) | `RulesResolve`, `ReportIsTrue`, `NodeRoutesUnlessLost` |
| `records` | three lines of which two make records, queue of two, batches of one, two disturbances of six kinds (the log cleared twice, or two different ones) | `PassedOnce`, `KeepsTrail`, `LinesReachCloud` |
| `ratelimit` | two groups, two clients, two flows, one interface, two police indexes, one filter, four disturbances of eight kinds (three new targets, two changed flows, `tc` failing twice) | `PolicesOnlyLimited`, `ReportIsTrue`, `NodeLimits` |
| `desired_late_record` | as small as the disagreement needs | see below |

Every property's comment says what it means and which code it is about. The type
invariants are stated in the modules; those of the eight modules with proofs are proved.

Why the bounds are enough to be interesting: a history of one record makes forgetting
happen with two commands; two commands of one group are what `finishLeftover` needs; three
versions let a key be retired and named again; two addresses let a change be undone; three
targets let a good one follow a bad one; two faults are a failure during the recovery from
another, and in `Routing` an Xray call that fails again when the lost table is looked at; a
queue of two overflows with two lines and an end; three changes of targets let a group lose
its police index and another group take it, two flows pass a limit of one filter, and a flow
opens and closes or changes hands; two clearings fall between two polls, one of them into a
poll, or around a rotation; seven events are two successive connections with their lines, a
close and two dumps. `MaxTotal` bounds all disturbances together where each kind has its own bound too:
every combination of that many is checked, not each kind alone. Larger instances checked
once without error: two owned clients without faults and three changes in `Xui`, eight events
in `Ledger`, `RateLimit` with one police index for two groups, and `Follower`'s invariant with
four lines, three clearings, a rotation, a replacement and a stop, the lines' texts all
distinct, all equal, or some of each.

`CHECK_DEADLOCK FALSE` is said where the bounds end a behaviour: all offers made, all
targets approved, all events used up. Symmetry is used for interchangeable commands,
addresses and users, and in no run with a liveness property. The constraint of the ledger
runs keeps behaviours in which the ledger's supposition (see [Limits](#limits)) holds;
the supposition, once broken, stays broken, and the properties say nothing then.

## Refinement

`ConnectionRecords` implements `AuditTrail`, checked in the run `records` as `KeepsTrail`
through the composition, and proved. The mapping: a record waits when the queue or the batch that waits
for its acknowledgement holds it and Cloud has not stored it; it is given up when the count
of dropped records, or of the batch, stands for it and Cloud has not been told. A batch that
is sent again, a late acknowledgement and a break are stutters; only a stop of the process
loses what waits, as `UpdateSafe` says.

## Disagreements

The run `desired_late_record` ends in a violation: a status recorded as sent after
`ControlReady` of the next session is never repeated to that session
(`desired/engine.go:269`), against the comment at 138, "ControlReady forgets what earlier
sessions were told, so the next pass reports every key again."

Seven more were met while modelling. The properties above are stated so that they hold
beside them, and no run is kept for them:

1. A command refused with `operation_busy` can still run: the lease is released and the
   command forgotten before the answer is written, nothing is journaled, and an offer in
   between is accepted afresh (`client.go:449` against `docs/ARCHITECTURE.md:72`).
2. An installer that fails after it cleared the slot a candidate runs from leaves the
   candidate to activate the empty slot (`run.go:107` against the comment at 105, "The
   installer's lock keeps a concurrent reinstall from clearing the slot it activates.").
   `CurrentIsBootable` is about installers that do not fail.
3. A line of a connection no dump has shown yet binds another one that shares its port and
   client address at another address of the node (`ledger.go:434` against the package
   comment). `RightUser` is about one address of the node.
4. Xray's rule table, once lost, is not always recovered: `hotUpdate` leaves it when the panel
   refuses the restart, when `locate` fails (`routing.go:284`), when Xray was restarted after
   the pass had located it (then the table lost is the new process's), or when the Agent ends
   first. Every later pass ends at the list of outbounds (262), which is reached through the
   lost table, and never restarts Xray. The comments say "A restart from the tested template
   recovers, unless another process already started from it" (281) and "Every pass does all of
   it again: the rule table is always replaced" (207). `NodeRoutesUnlessLost` excludes a table
   whose recovery was prevented so (variable `prevented`) and no other.
5. A pass of the routing may report a success that is not there. It decides from the process
   it located at `routing.go:209` whether a restart is needed (249). When Xray is restarted
   between that and `SaveTemplate` (238) from a template someone had edited in what only a
   restart changes (the api service, the first outbound, the built-in outbounds), it goes on
   without one and reports no error; its next pass repairs it. `ReportIsTrue` excludes exactly
   that restart, besides edits during the pass.
6. Lines may be passed on twice, where `accesslog_test.go:157` says "once and in order".
   When 3x-ui copies the log after the poll's `Stat` found it empty (`follow.go:53`) and
   before `cleared` looks at the copy (116), `recover` reads the lines from the copy and `read`
   (80) reads them again from the log, which is not truncated yet. And a poll that reads on in
   a log truncated since its checks (73) pairs the new text with the old offset, so that a
   later `recover` may read back what was passed on. `PassedOnce` sets a process aside that
   has done so (variable `raced`); Cloud merges the records.
7. A truncation loses more than `follow.go:21` says ("only what Xray writes between the copy
   and the truncation"): all that is unread, when the last poll found no copy yet (there is no
   mark); the start of the log, when it is truncated between a poll's checks and its read; and
   what a second clearing takes, when the mark was taken or the offset moved between the first
   one's copy and its truncation. `LinesReachCloud` excuses these (variable `excused`), and says
   so.

## Fairness

Weak fairness of a goroutine's steps: Go schedules every runnable goroutine. Of
connecting: `Client.Run` dials again after every loss, and the network is supposed to come
back. Of Cloud's repeated offers and acknowledgements: `docs/PROTOCOL.md` has it repeat
them. Of timers: they fire. Strong fairness is used three times. `AcceptOffer`: offers and
updates alternate, and an offer is repeated until one finds the gate free, as an update
check that finds nothing releases it at once. `ApplyBegins` in `Xui`: `sync.Mutex` hands
the lock to a waiter within a millisecond in its starvation mode, so snapshots cannot shut
`Apply` out. `Apply` in `RateLimit`: the same lock, against the ticks of `Run`, and the
engine applies every target again. In `Routing` the engine's passes and Xray's start of
listening are weakly fair; in the records the poll, the sender's ticker, the session and
Cloud's answers; in `RateLimit` the rest of a pass, `Leftovers`' retries and the kernel's
release of an action. Nothing is assumed of faults, natural changes, updates, installers or traffic.

## Proofs

TLAPS checks the following for every value of the constants that the named assumptions
allow: any commands, groups, keys, addresses, inbounds, clients, outbounds, targets, lines and
flows, any history length, any number of messages in flight and of faults. Each inductive invariant was
checked by TLC on the instance of its run before it was proved. The assumptions listed are the
ones the proofs cite; the bounds on faults, for one, play no part in any of them.

`CommandPathProofs` assumes `CommandFinite` and `Journal`'s `GroupOfType`, `NoCommandFresh` and
`RecentLimitPositive`.

- `TypeCorrect`. Inductive as it stands; it includes that a goroutine's result is set
  where its phase says so, and that the two snapshots are well formed.
- `RunsAtMostOnce` (`AtMostOnce`). `OnceInv`, for a command the history has not dropped: it
  started at most once; if it started, or is about to, it is active or in the history both
  on disk and in memory, so that `replay` or recovery answers for it; and when it is about
  to start it has not started before. It is needed because the counter alone says nothing
  about why the next offer does not run.
- `GroupsAreExclusive` (`GroupExclusive`). `OwnerInv`: a goroutine between `Begin` and its
  saved result is registered, and the journal in memory names it as its group's active
  command. Two of one group would be named by one entry.
- `UpdatesExcludeWork` and `LeasesBalance`. `GateInv`: the leases are as many as the
  pending and the running commands together, there are none while the updater holds the
  gate, and a goroutine that is at work belongs to a running command. Finite-set
  cardinalities come from `FiniteSetTheorems`.
- `ToldResultsAreDurable` (`ToldIsDurable`) and `JournalStaysValid` (the file is always one
  that `Open` accepts). `DurableInv`: both snapshots are valid, the file holds every result
  memory holds, and memory every result that was told, is on its way or is about to be
  returned. It follows one result through all the places it passes.
- `RunsAreAuthorised` (`OnlyAuthorisedRuns`). `AuthInv`: an acknowledgement on its way and a
  goroutine at work have Cloud's consent, which Cloud does not take back.

`DeploymentProofs` assumes `MaxTargetType`.

- `TypeCorrect`.
- `ActiveIsUntouched` (`ActiveUntouched`, an action property). `SlotInv` adds `LockInv`
  to the types: whoever prepares a slot holds the lock and prepares the one that is not
  current; activation needs the lock, so current does not move meanwhile.
- `AttemptsAreBounded` (`NoRestartLoop`). `TriesInv`: the number of times a target
  replaced the process in six hours is at most what the record on disk says, one less while
  an exec is due, and zero for targets the record does not know yet.
- `CurrentCanBoot` (`CurrentIsBootable`) and `RestartChangesNothing` (`RunningIsCurrent`).
  `BootInv`, as long as no installer failed: a slot is whole once its writer is past it; no
  process serves while the installer moves the link; a serving process runs what current
  holds, a candidate what its own slot holds until an installer takes the lock.

`DesiredProofs` assumes `KeyFinite` and `MaxVersionType`.

- `TypeCorrect`, with the types of what is in flight.
- `WakesAreKept` (`NoLostWake`). `WakeInv` extends the property to every step of the
  goroutine at which no snapshot of the targets is still to come.
- `OnlyRetiredIsRemoved` (`RemovesOnlyRetired`, an action property). `RemoveInv`, per key:
  versions on the node, in the unit and on the wire are bounded by Cloud's last and arrive in
  order; a list on the wire is older than what follows it; and until the list has come, a key
  it names is in the unit or comes before it. That is why a unit with part of the targets
  does not remove the rest.
- `RetiredStaysClean` (`RetiredIsClean`). `CleanInv`: once a key is retired, or someone holds
  the confirmation of its last version, everything left of it anywhere is of that version.

`AddressWatchProofs` assumes `NobodyFresh` and `MaxReportsType`. Its theorems share the invariant `WatchInv`.

- `TypeCorrect`. `LoopInv` adds where the loop is when a report or an observation is in hand.
- `OrderInv` and `SaidInv`: reports are stored in the order of their ids, an id stands for
  one report wherever it is, only stored ones are acknowledged, and a report still said that
  Cloud has stored is the last one stored. All the others rest on it: with many reports in
  flight, lost and sent again, it says what Cloud's address can be.
- `TriggeredIsOnDisk` (`TriggeredIsTracked`), from `TrackInv`: the file lacks no outcome but
  one Cloud has, and a command has its attempt in memory and on disk from before its
  provider is called until Cloud knows how it ended.
- `SettledAddressIsStored` (`SettledIsStored`), from `StoredInv`: while an attempt is open,
  Cloud has everything that was sent before it.
- `FailedStaysFailed` (`FailedHasNoOutcome`) and `OutcomeMeetsItsAddress`
  (`OutcomeFitsCloud`), from `SaveInv`: without failing saves file and memory agree.
- `ChangesAreAttributed` (`CausedIsAttributed`), from `CauseInv`. The proof attempt corrected
  the property; see [Limits](#limits).

`XuiProofs` assumes `EmailsDisjoint`, `SecretNone`, `WishType`, `OwnSecrets` (Cloud
gives no two clients one secret) and `BoundsType`.

- `TypeCorrect`. `TypeInv` adds that the panel, what was read of it, the targets and the
  writes of a plan hold owned clients only with secrets Cloud may give them: a request that
  the panel answers by secret then reaches at most one owned client.
- `ForeignersAreUntouched` (`ForeignUntouched`, an action property). `SeenInv`: what was read
  of foreign clients is still so, the inbound in hand has no conflict, and what was read of
  the owned clients of inbounds not yet written differs from the panel at most by a client
  the panel itself disabled.
- `ResetsHappenOnce` (`ResetOnce`). `ResetInv`: each reset done is in memory or is the one
  being recorded, and only a number above the one in memory is executed.
- `LabelsAreHonest` (`LabelIsHonest`). `LabelInv`: traffic began after the resets that memory
  and the file know and after the one about to be recorded; a snapshot is only in hand under
  the lock.
- `StatusesAreTrue` (`StatusIsTrue`). `RestartInv`: what is written and not loaded is marked
  in memory and on disk, unless a save failed after its rename. `MetInv`: until Apply has
  written, every target it has passed is met or has a code; afterwards the second read
  decides. The lemma `EmptyPlan` says that an inbound whose plan writes nothing is in its
  target, `MetStays` that the panel's own disabling does not change that.

`RoutingProofs` assumes `ConstantsAssumption` and `DocumentAssumption`.

- `TypeCorrect`.
- `RunningRulesResolve` (`RulesResolve`), for a node whose first template resolves.
  `ResolveInv`, without edits by an operator: whatever Xray may start with resolves, an
  outbound is there before the rules name it, and what is to be removed is not named.
- `SuccessIsTrue` (`ReportIsTrue`, an action property). `ReportInv`: what an undisturbed pass
  knows, at each of its steps, of the template, of how Xray was started and of its outbounds.
  A pass is disturbed by an edit, a change of the inbound, or the restart of disagreement 5;
  other restarts, at any step, are part of the proof.

`RecordPipelineProofs` assumes `FollowerAssumption` and `RecordsAssumption`.

- `PassesOnce` (`PassedOnce`), for lines of any text, also of equal text, and any number of
  clearings and rotations between any two steps of a poll. `FollowInv`: the log holds the lines
  written last, the copy ends with what was copied of them (`LogInv`, `CopyInv`), the offset
  and the text remembered fit each other (`FileInv`); and, of a process not set aside, what was
  passed on increases and ends with what the offset has of the log, or all of it lies before
  the log (`PassedInv`); what a poll has read back lies above it and below the log (`GotInv`);
  the mark is where the log's copy starts, will start or ends, and what `recover` would read
  from there was not passed on, unless the last read was in a log truncated since its poll's
  checks (`MarkInv`). The property alone says nothing about what
  `recover` will find.
- `TypeCorrect`, with the bounds: the queue holds at most `maxQueued` records, a batch at most
  `maxBatch`.
- `RecordsKeepTrail` (`KeepsTrail`, the refinement). `MemoryInv`: a record is in one place
  only (queue, batch, count of dropped) and is known by its line and where that was passed on,
  so that nothing is taken twice, whether or not `PassedOnce` holds. `WireInv`: a batch on its
  way is the one that waits, or Cloud has all of it; an acknowledgement on its way that names
  the waiting batch is one Cloud has stored. Then an action maps to a step of `AuditTrail` or to none. What `add` makes of many lines
  (`AddAll`, a recursive function) is one `Take` by induction over their number.

`RateLimitProofs` assumes `LimitAssumption`: among it that groups and flows are finitely many
and that there is at least one police index.

- `TypeCorrect`.
- `OnlyLimitedPoliced` (`PolicesOnlyLimited`, an action property). `LimitInv`: while the
  limiter counts as clean and no batch has just failed, the books are sound (an index belongs
  to one group and is in use or being released, a filter has a hook and an index of a group)
  and the kernel holds no filter they do not know, with the index and the rate they say. That
  the kernel may have less is why a pass looks for drift.
- `ReportsAreTrue` (`ReportIsTrue`, an action property), from the same invariant. Its hard
  part is `assign`: the k-th group without an index takes the k-th free one, so as long as
  there are enough each gets one and no two the same. The other is `plan`: when the flows of a
  group and of those before it are at most `MaxFilters`, fewer than that precede each of them,
  so all are in the plan and the group is reached. The proof attempt corrected the property,
  which supposed that there are enough indexes; see [Limits](#limits).

Each proof has one step per action. What the invariants need in several places (what the
snapshots keep when a command begins, finishes or is dropped; what a save leaves; what one
action can do, its conditions resolved) is in lemmas before them.

Only model-checked:

- all liveness: fairness and `ENABLED` are beyond the prover;
- `RightUser`: its invariant must say which connections a waiting line and each binding can
  still belong to, under a supposition about three clocks, and is not worked out. Beyond the
  run, three connections with nine events and two UDP flows were searched for 16 million
  states, not to the end, without a violation.

The library's induction theorems take the proposition as an operator, which the provers
cannot instantiate. Where induction is needed (`AddAll`, the k-th element of a set of
numbers), the set of counterexamples is shown to have a least element with `WFMin` of
`WellFoundedInduction`, which takes sets.

## Limits

What the properties say less about than a reader may expect, because the code does:

- A ChangeIP attempt is settled by any new address. A natural change between the preflight
  and the provider's effect is attributed to the command; `CausedIsAttributed` is about
  nodes without natural changes. Nor is a provider's change attributed rightly that comes
  after its command was settled as unchanged: the next attempt takes it for its own, or it
  is stored as natural. The property excludes histories with such an outcome; an earlier
  form did not, held in the run, which has one command, and was refuted by its proof.
- A status of a key retired between `pass`'s check and its send is sent although
  `docs/PROTOCOL.md` says none is. Versions are not reused, so nothing follows from it.
- `ArmChange` whose save fails after its rename fails the command and leaves an attempt in
  the file, which the next process settles. `FailedHasNoOutcome` and `OutcomeFitsCloud`
  exclude it.
- An installer that fails between enrolment and saving the key leaves a node that cannot
  authenticate until the installer runs again, as documented; `NodeServes` excludes it.
- `setRestartPending(false)` that fails after its rename leaves the file without the mark
  and memory with it. The next write of a Shadowsocks 2022 inbound is not marked on disk.
  `StatusIsTrue` and the restart in `PanelConverges` exclude saves that fail so.
- A client that the panel disables between `Apply`'s read and a reset stays disabled until
  the next pass although it is reported converged.
- `RightUser` supposes (variable `outran`) that an address is not reused before the
  ledger has looked since the close, that a connection no dump showed is not first seen by
  a notice later than the next dump, and that the log is open before connections write
  lines that are not passed on. TLC finds a wrong user without each of the three. It also
  supposes that each connection open at the start writes a line within `claimWait`.

- `PassedOnce` is about one process: a restart during a clearing may pass a line on again,
  which Cloud merges. It sets aside the processes of disagreement 6, and only from the moment
  they read back such a copy. `LinesReachCloud` excuses the lines the follower has no way to
  find: by design those read on opening (backlog), those written between the copy and the
  truncation, those of a log or a copy that another file replaced; and, against the comment,
  those of disagreement 7. A line that the count of dropped records or a stop of the process
  stands for has reached Cloud as far as the property goes.
- `PolicesOnlyLimited` is about the end of a pass after which the limiter counts as clean;
  between passes a flow may pass to another client, for at most a tick.
- `RateLimit`'s `ReportIsTrue` says of limited groups that their flows are policed only below
  the module's two limits. Past `maxFilters` (`rules.go:69`) `plan` stops, and the flows it did
  not come to are unlimited although their group's code is empty; `docs/PROTOCOL.md:166` says
  so. The property is about groups whose flows, with those of the groups before, fit (`Fits`).
  Past `maxUsers` groups `assign` leaves a group without a police index, and its code is empty
  too (`rules.go:209`, whose comment says "assign gives every limited group a police index");
  the property supposes a free index for every group `plan` reaches (`Room`). TLC finds the
  violations without either: the run has more flows than filters, and one index for two
  groups suffices for the other.
- A pass of `RateLimit` reads the ledger's flows (`ratelimit.go:187`) and ends its `tc` batch
  (`rules.go:157`) in one step. A flow that changes hands while `tc` runs is then policed as
  the pass read it until the next tick, two seconds later; the properties speak of the flows
  as the pass read them.

Simplifications: payloads, addresses, secrets and versions are elements of small sets. An
email belongs to one inbound (`Home`). In `Xui`, comment, flow, expiry and the
compatibility check are left out: they are written and compared like the fields kept. In
`Ledger`, byte and request counts, inbounds that take UDP only and the limit on waiting
lines are left out. In `Follower`, lines are written whole, the texts compared differ in the
run (not in the proofs), and a poll reads all there is (its limit is 4 MiB). In
`RateLimit`, handles, families and bursts are left out, and a `tc` process does
not outlive its Agent. In `Routing`, a rule is the outbound and the inbound it names. In
`CommandPath`, authentication, back-off and queries are. The IPv6
loop of the monitor is the IPv4 one without attempts. Back-off and intervals are "sometime".

## Plan

Done: `Journal`, `CommandPath`, `Desired`, `AddressWatch`, `Deployment`, `Xui`, `Ledger`,
`Routing`, the records and `RateLimit`, in the order of what a mistake costs; proofs of every
safety property but `RightUser`.

Theorem next: `RightUser` of `Ledger`, with an invariant that ties the waiting line, the
bindings and what the kernel has shown to the times of the dumps.

Models next: an abstract command (offered, accepted, run at most once, answered) that
`CommandPath` implements, and the resumed download.

## Running

`tlc -config <run>.cfg <module>` checks a run of `PROJECT.json`; `tlapm <module>.tla` checks
the proofs of `CommandPathProofs`, `DeploymentProofs`, `DesiredProofs`, `AddressWatchProofs`,
`XuiProofs`, `RoutingProofs`, `RecordPipelineProofs` and `RateLimitProofs`, in one to a few
minutes each. The longest run, `records`, takes about three minutes on two cores; `xui`,
`routing` and `ratelimit` about two.
