# psgnss-base in TLA+

A verification development for the `psgnssd` daemon: the base station program
that owns one GNSS receiver, distributes its frames to raw TCP clients, NTRIP
rovers, archives and remote casters, and changes the receiver's configuration
from a web page. The modules are translated from the Go code; TLC checks them on
small instances and TLAPS proves every safety property of the runs for all values
of the constants. `PROJECT.json` maps every definition to its source lines.

Contents: [inventory](#inventory), [modules](#modules-and-how-they-read-the-code),
[runs](#runs), [fairness](#fairness), [known exceptions](#known-exceptions),
[proofs](#proofs), [not modelled](#what-is-not-modelled), [plan](#plan).

## Inventory

How the parts interact: the **hub** reads the serial stream and calls every
subscription; the **outputs** (raw TCP, mountpoints, archives, RTCM output, time
sync, telemetry, ephemeris) each own one subscription. The **receiver
transaction** borrows the stream through `Hub.Control`. **Push-out** takes a tap
of a mountpoint. The **web server** calls all of them from HTTP handlers, one
goroutine per request; the **store** (SQLite through a single connection) makes
each of their statements atomic. A **settings** save or a **restore** replaces
the configuration file and restarts the daemon; the **updater** is a command
beside the daemon that replaces its binary.

| component | state | operations | what is hard | correct means | module |
|---|---|---|---|---|---|
| hub (`hub/hub.go`, `source.go`, `tty.go`) | input, scanner, frames channel, subscriptions, writer, `controlMu` | Run, scan, dispatch, Subscribe, Close, Control | input lost while frames are in flight; close of an output during dispatch; who may write to the stream | every frame read is dispatched once and in order, counted when dropped; nothing stalls; sessions exclude each other | Hub |
| message filter (`hub/filter.go`) | the time a message was passed last | Pass | jitter; frames lost after they were counted | an output gets a message as often as it asked for | Filter |
| frame scanner (`hub/framing.go`) | a buffer | Next, fill, scan | resynchronisation after noise, reads of any size | every whole frame between noise is found | Scanner |
| raw output (`hub/tcpserver.go`) | client map, per client a channel and two goroutines | add, broadcast, close, stop | three parties close one client without a common lock | no silent gap; every client leaves | RawServer |
| caster mountpoint (`caster/caster.go`, `tap.go`) | clients, taps, remembered station messages | feed, generate, replay, stream, accounting | two broadcasters and the replay to a joiner | order of the station description, no gap, every handler ends | Mount |
| accounts and accounting (`store/users.go`, ...) | users, connections | authenticate, count, start, end, edit, delete | limit checked before the row is inserted; ids used again; crashes | limits hold, open rows are streams | Admission |
| receiver transaction (`receiver/`, `web/receiver_api.go`) | RAM and Flash of the receiver, pending `Txn`, timer, watcher, `receiverMu` | Apply, Commit, Revert, expiry, restart | lost and late replies, timer against operator, power cycles, half-done commits | a change is kept or reverted, never both; Flash is safe until asked | ReceiverTxn |
| archive writer (`archive/writer.go`) | spool, sidecars, share, open file | open, Write, sync, rotate, finish, flush | share faults, partial appends, crashes between two steps, other recorders | the share has a prefix of what was recorded; a spool file goes only when all is there | Archive |
| push-out (`pushout/`, `web/pushout_api.go`) | targets in the store, runners | save, Reload, runner | reloads overtake each other; a runner that has not begun cannot be stopped | the running set is the stored one | Pushout |
| updater, settings, backup (`updater/`, `update_cmd.go`, `web/settings_api.go`, `backup/`) | binary, `.previous`, lock file, `config.toml`, the copy in memory, accounts | Check, Apply, rollback, save, restore, restart | kill between two steps, failing rollback, one context for both, saves during an update | a station always has a binary that serves; what was saved is what runs; a restore is whole | Station |
| RINEX downloader (`downloader/`) | jobs, busy and pending tables, directories | StartJob, Process, Cancel, expire, Sweep | check then act, two owners of one conversion, a failure at each step | bounds hold, jobs end, no directory leaks | Jobs |
| integrity monitor (`integrity/`) | one run, schedule, rows | Run, Cancel, scheduler, feed, watcher | cancel before the run has a cancel function, restarts in the scheduled minute | one run at a time, rows say what happened | Integrity |
| ephemeris (`ephemeris/`) | parts of a data set per satellite | Add, Messages | sets assembled over an update | what is sent is one set | Ephemeris |
| time sync (`timesync/`) | connection to chrony, queue | Run | frames that wait while the loop sleeps | samples are of the moment | TimeSync |
| telemetry (`telemetry/`, `store/telemetry.go`) | rows | store, decimate, prune, chart | thinning that is repeated, a clock set back | no bucket is lost, charts are complete | History |
| sign-in limiter (`web/access.go`) | a bucket per address | allow, refund, sweep | eviction and refund | nobody gets more tries than the rate allows | Limiter |
| archive retention, RTCM output, web sessions, store, secrets, setup, encoders, host information | | | | | none, see [below](#what-is-not-modelled) |

Line-by-line hazards are in `PROJECT.json`, each with the properties that would
catch it.

## Modules and how they read the code

`Conversation`, `Handler`, `Writer` and similar names group actions; every action
names its function in a comment. `\* mutant:` marks a deliberately wrong version
of the definition that follows it; no specification uses one, and each is there
to show that a property notices that mistake.

Where a property names an exception, the last section of its module has the
stronger statement, and [known exceptions](#known-exceptions) the sentence of the
code that it stands for.

### ReceiverTxn, TrialConfig

A change is a list of keys that VALSET carries in batches (64 keys). What matters
of a layer is *which change wrote each batch*, so `ram` and `flash` map batches
to transaction numbers, 0 being factory values. `toDev` and `toHost` are the
serial stream in each direction. `act`, `by`, `at`, `tries` are the one
conversation that `Txn.mu` and `receiverMu` allow: its step, the goroutine that
has it, the batch and the read-backs done. `txn[t]` holds `done`, the channels
`Done` and `Reverted`, the timer, whether the watcher still waits, and what the
audit trail says, and `base`, the copy of `Server.Cfg` its hooks work on; `out`,
`late`, `tried` and `cut` are history (the result reported, whether a request timed
out, whether the change was asked to be kept, whether its Keep was cut by a crash or
by a roll back that could not save). `cfg` is `config.toml`, `bootCfg` what the
daemon read at its start, `due` a `restartSoon` under way. A batch is also one poll
of `ReadKeys`: snapshot and read-back go poll by poll (`read`).

| action | code |
|---|---|
| `BeginApply`, `HelloOK`, `ReadNext`, `SnapOK`, `WriteOK`, `VerifyOK` ... | `Session.Apply`: poll, snapshot, VALSET to RAM, read back, arm the timer |
| `KeepStart`, `KeepRefused`, `CommitStart`, `CommitNext`, `CommitOK`, `CommitFailed` | `settleReceiver(commit)`: beforeCommit saves the configuration, `Txn.Commit`, undo on failure, which may fail (`RollBack`); a beforeCommit that cannot save changes nothing and is a stuttering step |
| `AskRevert`, `TimerFires`, `TimerRevert`, `RestoreNext`, `RestoreEnd`, `RestoreReturn` | `Txn.Revert`, the `AfterFunc` timer, `revertNow` with its deferred closes in their order |
| `Watch` | `watchReceiverTxn` |
| `DeviceStep`, `Lose`, `Skip` | the receiver (external), the line, `drain` |
| `Crash`, `Restart`, `RestartFails`, `PowerCycle` | the process, `restartSoon` (half a second later, or its error is logged), the receiver |

`TrialConfig` is the promise to the operator: a change is on trial, then kept or
refused, never both, never by default, and no trial lasts for ever.
`ReceiverTxn` implements it under a refinement mapping from `slot` and `txn`.

`Plain` are the changes made on the receiver page. They have no hooks: the
configuration stays as it is and the daemon is not restarted after Keep. The others
are settings (the station ID and, in `Position`, the position), which are saved with
the change. Nothing stops the next change from beginning before the restart, or when
the restart failed: it works on the copy in memory, and an old timer goroutine can
meet it.

Abstracted: key names and encodings, profiles of the page, the texts of errors.

### Hub, MCHub, OrderedStream

`run` is `Hub.Run`'s place, `scan` the scanner goroutine, `pipe` the frames
channel between scanner and `pump`, `writer` the stream that control sessions
borrow, `ctl` the holder of `controlMu`. A frame is its number. `dispatch` holds
the read lock that `Subscribe` and `Close` take for writing, so one dispatch is
one step. Which frames a filter passes is the constant `Wants`. `MCHub` gives an
output that wants some frames and two control sessions. `OrderedStream` says what
every output gets: an increasing selection of the input.

### RawServer

`reg` is the client map, `shut` the clients whose `close()` ran, `doomed` those
for which `go cl.close()` is about to run; `writer` and `reader` are the places
of the two goroutines of a client. `panicked` records a send on a closed channel,
after which nothing happens, as in the daemon.

### Mount

The feed and the generator broadcast from two goroutines. `Remember` and
`Describe` are the two locks of a station broadcast (`lastMu`, then `mu`);
`Register` and `Replay` are `handleGet`'s registration and the replay of station
messages that follows it. The tap is that of one push-out.

### Admission

`handleGet` from authentication to the end of the stream. `snap` is the copy of
the account that the request goes on with; `mu` is `admissionMu`; `row` and `uid`
are the rows of `connections`. `Crash` leaves rows open, `Restart` is
`CloseStaleConnections`, whose error the daemon ignores. `hi` is history.

### Archive, Mirror

One goroutine; `pc` is its place, at exactly the points where a crash, a share
operation or another recorder makes a difference. A file is its period, its
content a sequence of frames (0 is another recorder's data), its name on the
share a pair (period, alternative). `side` is the sidecar; `Torn` is one that was
truncated and not yet written. A share operation that fails may have been done,
also the Rename of a copy, whose reply is lost (`Land`, `Moved`): the next attempt
then finds the name taken. `cuts` and `contested` are history: updates of a period
that were cut between two of their steps, and names that both recorders took.
`Mirror` says what an archive promises: recordings
in order, a copy that only grows along them, nothing released before its copy is
complete.

Abstracted: the offset `synced` (the code checks it against the share's size,
which the model reads directly); errors of the local disk (they stick in the
`bufio.Writer`); a share that is not mounted but whose directory is written into
(treated as away); the swap margin (a nondeterministic moment); expansion of the
name pattern. `DestDir` is set: without a share there is nothing to mirror.
Frames are dropped only while the goroutine waits for a share that is away.

### Pushout, MCPushout

`Submit`, `Save`, `ReadTargets`, `Apply` are the steps of `handlePushoutSave`,
`SavePushTargets` and `Reload`: a query before the lock, then the change of the
runners under it. `run` is the history of runners. `r.cancel` is written by the
runner's goroutine and read by `Reload` without synchronisation: it is nil until
the goroutine has begun. One value stands for source, host, mountpoint, protocol
and user name; `remote` says that the remote caster accepts and that the local
mountpoint exists. `MCPushout` fixes which of the interchangeable passwords is
stored at first.

### Station

Two processes and the files between them. `asks` is an update command at its prompt:
it has read the configuration and found a release, and holds no lock. `u` is the
updater once it has the lock: its place in `Apply`, the releases it goes from and to,
the release it names to the operator (`told`), the address it polls and the report it
will print. `bin` and `prev` are the binary and `.previous`; `run` is what runs,
`mem` the configuration it read, `file` the one on the disk, `due` a restart that
was asked for. A release is a number that knows the configuration keys of those
before it. `proven` (what has served), `wanted` (what the operator was told is
saved) and `mishaps` are history.

| action | code |
|---|---|
| `Prompt`, `Decline`, `Begin` | `updateApply`: the configuration, `Check` (`Found`), the prompt; the lock |
| `Fetch`, `Keep`, `Refuse`, `Install` | `Apply` up to the rename |
| `RestartNew`, `RestartFails`, `Unchecked`, `Healthy`, `Unhealthy` | the restart, no `web.listen`, `waitHealthy` |
| `PutBack`, `PutBackFails`, `RestartOld`, `RestartOldFails` | `rollback`, also with a context that has ended |
| `Die`, `Unlock`, `GoBack` | a kill at any step; the operator removes the lock, runs `--rollback` |
| `Save`, `RestoreConfig`, `RestoreImport`, `RestoreUndone`, `RestoreStuck` | the settings handlers, `handleRestore` |
| `Boot`, `Exit`, `Restart` | `config.Load`, the end of the daemon, `restartSoon` |

What the model brings out, all of it allowed for by an exception: a web address
saved while an update waits makes the health check poll the old one, and a
healthy release is rolled back; a station without a web page (`Empty`) installs
whatever it is given and nothing checks it, so that only the operator can go back; a
command that waited at its prompt replaces, and names, what another command
installed meanwhile; settings saved by a release on trial cannot be
read by the old one that comes back; a rollback that fails is only logged; a
context that has ended also prevents the rollback's restart.

### Jobs, MCJobs

A request asks (`mine`: is there one of my own; `all`: the count of anonymous
ones; `start`) and ends; `job` is `d.jobs` with the place of each goroutine;
`busy`, `pending` and `dirs` are the tables and the disk. Deadlines and times to
live end things at any moment. `MCJobs` fixes who asks for what, in three ways: a
visitor for two conversions, an administrator twice beside a visitor, and three
visitors. `crossed` is history: `own` are the visitors of whom two requests were
at once between `RunningFor` and `StartJob`, `all` says that two were between
`RunningAnonymous` and `StartJob`. `writeJSON` reads a shared `*Job` without the
lock; fields of a job do not tear in this model.

Not reclaimed by the code, and therefore allowed by `StagedIsOwned` (the jobs that
are `"lost"`): directories of a process that ended, a zip staged after `Sweep` has
ended among them. Left out as data: a job's token outlives its zip (30 against 15
minutes), and spool files hide those of the share of the same day.

### AllParts, MCParts: Integrity, Scanner, Filter, Ephemeris, TimeSync, History, Limiter

Parts that share no state. One run checks them all: a variable says which of them
moves, and the others stay as they were at first, so that their sum is checked
and not their product. `AllParts` extends `Integrity` and instances the others with
its own constants. `StreamsAssumption` says that the frames a stream of `Streams`
names are where they are said to be and intact, `PartsAssumption` that the
intervals and sizes are positive. `MCParts` makes the streams and adds fairness.

* **Integrity**: `run` has one record per call of `Run`, its place and its row;
  `monitor` is what `m.mu` guards; `feed` and `watch` are the helper goroutines.
  The scheduler ticks twice in its minute. A window cut short because rtkrcv died
  or the daemon stops is recorded as a measurement. A manual, cancelled or failed
  row of today suppresses the scheduled run; a restart outside the minute loses
  the day's check; settings that cannot be read leave no row.
* **Scanner**: bytes of three bits with the protocols' headers, length fields and
  checksums in such bytes, so that a false header, a length that reaches past the
  end and a damaged checksum all occur within a few bytes. `MCParts` puts one of
  13 pieces of noise before, and one of 3 between, every pair of 5 frames, and
  reads end anywhere. `dropped` counts the consumed bytes that are in no frame.
* **Filter**: the decimation of one message, whose frames come up to `Jitter`
  after their epoch, into a queue that may be full.
* **Ephemeris**: of each subframe or word type, the set it was read from. Issues of
  data are used again after `Issues` sets, as on the satellites.
* **TimeSync**: the clock stands while the loop has frames to take, and runs while
  it sleeps, and while it is blocked in a write to a chrony that does not read
  (`room`, `blocked`), which has no deadline.
* **History**: an epoch is its time; `thin` and `gone` are the latest cutoffs. The
  thinning keeps the first row of a bucket, which is what makes it safe to repeat;
  a clock set back leaves two rows in some. Each of its statements may fail for
  itself: pruning without thinning, thinning without marking.
* **Limiter**: tokens in integers; `granted` and `returned` count over a stretch of
  time that begins at any moment (`Watch`).

## Runs

| run | what it asks | distinct states |
|---|---|---|
| `rx` | with lost, refused and late messages and a crash or power cycle: is what is written, reported and saved consistent, and does every trial end? | 356 000 |
| `hub` | do frames, a coming and going output and two control sessions survive losing the input and readers that never read? | 349 000 |
| `raw` | do clients that fall behind, hang up or get stuck leave, and is none left with a hole? | 145 000 |
| `mount` | does a joining rover get the right station description and no gap from two broadcasters, and does its handler end? | 367 000 |
| `admission` | do limits and rows hold across edits, deletions, re-created accounts, failing writes and crashes? | 373 000 |
| `arc` | is the share always a prefix of the recording, is the spool kept until it is whole, does the writer implement `Mirror`, and does everything ended reach the share, under faults, partial appends and a crash? | 1 236 000 |
| `push` | does the running set follow the stored one, do stopped runners end and listed ones come back? | 567 000 |
| `station` | does the station keep a release that serves and the settings that were saved, over updates, restores, restarts and kills? | 1 637 000 |
| `jobs` | do conversions stay within their bounds and end, and does no directory leak? | 859 000 |
| `parts` | do the scanner, the decimation, the ephemeris store, the time offered, the history, the limiter and the integrity check do what they promise? | 885 000 |
| `mount_panic`, `beidou` | violations: a sentence of the code against the code, see below | |

Every component has a type invariant; the runs `rx` and `admission` check theirs, and
ten are proved as theorems (the small parts' are conjuncts of their inductive
invariants). Deadlock is not checked: every bounded model ends
(frames, faults, requests are finite), and so do the components when their context
is cancelled. The liveness properties say what must still happen.

What the properties mean and which constants make them interesting:

* **rx**: two batches, so that a commit, a write, a snapshot or a revert can fail in
  the middle; two changes with hooks, of the station ID and of the position, so that
  an old timer meets a new transaction and the second change may begin before the
  restart of the first; one fault and one reset, anywhere. (Two faults, which make a
  late ACK pass for another's, are in the proofs, and in `AckBelongsToRequest` below.)
  `SnapshotIsTruth`: what a revert writes
  back is what the receiver held, although replies of an earlier session are still
  in the line. `OutcomeIsTrue`: kept means complete in Flash and no write of an old
  value under way, reverted means gone from RAM. Both speak of sessions whose
  predecessors got past their MON-VER exchange (`Flushed`): that exchange is what
  empties the line, and when it times out its answer is taken by the next session,
  which leaves its own behind. The proof found this exception; it takes more
  changes and faults than `rx` has (`RevertIsPossible` below).
  `ConfigFollowsKept`: station ID and position in the configuration are of changes
  that were kept, unless a crash or a failed save cut the Keep (`cut`); and nothing
  kept is missing from it, unless a later change had begun with the configuration of
  before, because the restart was still to come or had failed, and its Keep saved
  that copy (`Overwritten`): the station ID is then the old one again, in the file
  and not in the receiver.
* **hub**: three frames through a pipe of two and queues of one, with two
  connections, suffice for a frame to be in every place at once when the input
  goes and for each queue to overflow. `NoFrameVanishes` adds up, per output,
  frames received, queued and counted as dropped. `NothingBlocks`: what was read is
  dispatched though no output reads and whatever sessions do, and `controlMu` comes
  free again and again, unless its session waits for ever for a frame of a stream
  that has gone silent (`Stuck`).
* **raw**, **mount**: queue of one or two against two or more messages: the full
  queue, and the frame after it, occur in every place of both goroutines. One
  rover is enough for `mount`, since clients only meet in the map, under the lock.
  `StationIsCurrent`: never back to an older description, and never without the
  newest. `ClientsLeave`: a client alone, and all of them when the server stops.
* **admission**: one id that is used twice, three connections, limits 1 and 2: a
  request with a stale limit, one with the new, and one that takes the last place.
* **arc**: two periods (one ends while the other is open), two alternative names,
  one fault, one crash, one name taken by another recorder while the daemon runs.
  `MCArchive` starts with the share away and empty, since both may change at once.
  `ShareIsFaithful`: each period is there as a prefix of what was recorded, once and
  at most once more for each update cut in two; what another recorder has there stays.
  Names that both took are the exception, there, in `SpoolKept` and in
  `ImplementsMirror`, which holds until one is. `PendingDrains` is of periods that a
  frame was recorded in and for which a name is left.
* **push**: two requests and the manager's own reload, two passwords, one tick of
  the clock and one failing query on one target with one address. Targets do not
  interact except in the save, which replaces all of them.
* **station**: two releases, four values of a setting of which one is refused and one
  is none, one backup, and a station with or without a web page: enough for a trial
  that saves what its predecessor cannot read, and for a kill and a rollback between
  any two steps. `UpdateKeepsStation`: what is
  installed or kept has served, unless a rollback failed, the update died half done or
  nothing could check it, and the report is true. `SettingsHold`: what was
  answered as saved is in the file and what runs. `RestoreIsWhole`: configuration
  and accounts are of one backup.
* **jobs**: three requests of an administrator and visitors, two conversions, the
  code's limit of two and one restart: two owners of one conversion, a third
  visitor over the limit, one that asks again.
  `ConversionsAreBounded`: directories, keys and the budget of the public page.
* **parts**: two runs on two days and one failing query for Integrity
  (`RowsAreTrue`: one at a time, cancelled rows are those that were cancelled, one
  scheduled row a day); 977 streams and an empty one for the scanner, with a buffer
  that has to grow (`FramesAreExact`); for the others, `PartsAreFaithful`: three
  sets with two issues and a silence longer than the age allowed (of GPS and Galileo
  the parts that carry the issue of data are one issue; of BeiDou see below); a queue
  of three against a sleep of two and a write that blocks; windows of two,
  six units of time and a clock set back
  once; two addresses for one place in the table, three tokens of which an attempt
  takes two; twelve epochs against an interval of three.

## Fairness

`FairSpec` asks only what Go and the operating system give. Goroutines run (weak
fairness of their steps). A Go mutex hands itself to the longest waiter, hence
strong fairness where a lock is taken that others take again and again
(`TimerRevert`, `Watch` for `Txn.mu` and `receiverMu`; `Lock` for `admissionMu`),
and `select` takes a ready tick of the archive's timers now and then. Writes to
the sockets of clients, rovers and remote casters have deadlines in the code; the
write to chrony has none, and no property of it needs any. Reads without a deadline
(the control pipe, a rover's socket) get no fairness beyond what the other side does:
a control session in `Hub` takes a frame that is there (`ControlRead`), notices its
deadline only between two reads (`ControlOverdue`), and is closed only when its
conversation has come back from its read (`ControlClose`). In `Station` only the
daemon's boot and a restart that was asked for are fair (systemd starts what is
installed); the updater may stop anywhere. In
`Jobs` and `Integrity` the goroutines go on, since convbin and rtkrcv are killed at
their deadlines. Nothing assumes that an operator acts, a frame arrives, a reader
reads, the share comes back or a fault happens, nor, outside `Station`, that the
daemon is restarted, `restartSoon` in `ReceiverTxn` included. Requests, runs and
runners are finite in the models, so "each one ends" is stated as "again and again
all have ended". `PendingDrains` and `Uploads` are conditional: if the share stays, if
the remote caster takes uploads; and `StationServes` speaks of a station whose last
update has ended and was checked.

## Known exceptions

Two runs show a counterexample to a sentence written in the code:

* `mount_panic` (`DroppingIsHarmless`): "too slow; drop it rather than stall the
  mountpoint" (`caster/caster.go:285`). `close()` closes the channel while the
  client is still in the map; the next broadcast sends on it.
* `beidou` (`BeidouSetsAreWhole`): "keeping the parts separate means a set assembled
  across an update cannot silently mix them" (`ephemeris/beidou.go:58`). Only the
  upper half of t_oe is kept apart, and it is joined with whatever comes: subframes 1
  and 2 of one set and, after an update, subframe 3 of the next are sent as one
  message, with a t_oe of both.

The last section of each module holds the other sentences that the model does not
bear out. They are not among the runs; each has a counterexample under
the module's `Spec` (the liveness ones: its `FairSpec`; `RawSpec` and `JobsSpec` in
`RawServer` and `Jobs`) with the constants given here, or with those of its run,
and the property that is checked instead names its exception.

| definition | sentence | shown with | exception in a checked property |
|---|---|---|---|
| `KilledStreamHeals` | "A configuration that kills the stream therefore cannot survive" (`receiver/config.go:130`) | NBatch 1, MaxTxn 1, Killer {1}, no faults | `Killer` is empty in `rx`: a control read has no deadline (`hub.go:147`) |
| `AckBelongsToRequest` | "Wait for the ACK that belongs to this request" (`config.go:91`) | NBatch 2, MaxTxn 1, MaxFaults 2 | `late` in `OutcomeIsTrue` |
| `RevertIsPossible` | "Snapshot the current values so a revert is possible" (`config.go:164`) | NBatch 1, MaxTxn 4, MaxFaults 5, Plain {} | `Flushed` in `SnapshotIsTruth` and `OutcomeIsTrue` |
| `KeptIsRunning` | "RAM already holds it" (`config.go:235`) | NBatch 1, MaxTxn 1, MaxResets 1 | `OutcomeIsTrue` speaks of Flash |
| `AuditShowsRevert` | "look at the receiver audit trail" after an automatic revert (`docs/operations.md:111`) | NBatch 1, MaxTxn 1 | none: the audit entry is not in another property |
| `ChangedTogether` | "writing `CFG-RTCM` on the receiver and changing the config, together" (`docs/architecture.md:51`) | NBatch 1, MaxTxn 1, MaxFaults 1, Plain {} | `ConfigFollowsKept` relates the configuration to what was reported |
| RawServer's `DroppingIsHarmless` | "Drop it rather than let it slow the others or the hub" (`tcpserver.go:134`) | two clients, Queue 1, MaxFrame 2 | `panicked` in `ClosedLeaves` and `StopEndsAll` |
| `NoInheritedSessions` | "avoids a newly created account inheriting still-open sessions" (`users.go:217`) | three connections, MaxId 1, MaxLimit 1, MaxAccounts 2 | `LimitHolds` counts by id, with the id's highest limit |
| `CollisionSettled` | "chosen once at open so a name collision is settled before any bytes are copied" (`writer.go:40`) | MaxPeriod 2, MaxAlt 1, MaxFrame 3, MaxLate 1 | `Clean` in `SpoolKept`, `contested` in `OthersKept` |
| `RestartResumes` | "a restart resumes the same destination" (`writer.go:147`) | the same with MaxCrashes 1, MaxLate 0 | `cuts` in `OneCopy` |
| `FailureKeepsOneCopy` | "Failure leaves the file in the spool for a later attempt" (`writer.go:416`): a Rename that was done, and whose reply is lost, leaves a second copy | MaxPeriod 2, MaxAlt 2, MaxFrame 2, MaxFaults 1 | `cuts` in `OneCopy` |
| `SidecarFilesLeave` | "which left them in the spool for good" (`writer.go:480`): an empty spool file still stays, since `finishOnShare` wants a file on the share | MaxPeriod 2, MaxAlt 1, MaxFrame 1, no faults | the empty file in `PendingDrains` |
| `NeverOverwritten` | "Never overwrite an existing archive file" (`writer.go:430`): a `Stat` that fails counts as a free name | MaxPeriod 2, MaxAlt 1, MaxFrame 1, MaxFaults 1 | `contested` in `OthersKept` |
| `OutageHeals` | "appended to the share continuously" (`docs/architecture.md:79`) | MaxAlt 2, MaxFrame 2, no faults | `PendingDrains` speaks of ended periods |
| `OutageCostsNoData` | "An SMB outage therefore costs disk space, never data" (`writer.go:21`) | MaxAlt 1, MaxFrame 3, no faults | what follows a loss is still in order (`ImplementsMirror`) |
| `OneRunnerPerTarget` | "Manager owns one runner per enabled target" (`pushout.go:53`) | two addresses, one password | `early` in `UnlistedIsStopped` |
| `ReloadInLine` | "brings the running set in line with the stored configuration" (`pushout.go:87`) | one address, one password | `applied = db` in `ReloadFollows` |
| `ChangeReconnects` | "in any way that needs a reconnect" (`pushout.go:178`) | one address, two passwords | `typed` in `ReloadFollows` |
| `EnabledHasPassword` | "fail the save instead" (`web/pushout_api.go:141`) | one address, one password | none |
| `BackOnPrevious` | "The station is back on" (`update_cmd.go:192`) | the run's | `stranded` in `EitherRelease`, `lost` and `u.from` in `ReportIsTrue` |
| `RestoreAtomic` | "either the whole document applies or none of it does" (`store/backup.go:126`) | the run's | `torn` in `RestoreIsWhole` |
| `TwoSaves` | "a setting the operator thinks is applied" (`config.go:244`) | the run's | `SettingsHold` speaks of the later save |
| `AnonymousLimit` | "no more than two may run at once across all of them" (`web/access.go:211`) | the run's | `crossed` in `ConversionsAreBounded` |
| `RunningIsShared` | "hand back the running one instead of starting a second" (`downloader/job.go:172`) | the run's | `OneAtATime` speaks of what works, not of what is answered |
| Jobs' `CancelStops` | "Cancel stops a running conversion" (`job.go:218`) | the run's | `EveryJobEnds` |
| `CancelKnows` | "reports whether there was one to stop" (`integrity/monitor.go:75`) | the run's | `from` in `CancelIsKept` |
| Integrity's `CancelStops` | the same, when the window is over | the run's | `from = "late"` in `CancelIsKept` |
| `ShowsItsOwn` | "the numbers on screen during the run are the numbers that will be recorded" (`monitor.go:101`) | the run's | `RowsAreTrue` speaks of rows |
| `NothingIsSwallowed` | "resynchronises after corruption without losing the following frames" (`framing.go:57`) | the run's | `Inside` in `FramesAreExact` |
| `OnlyIntact` | "one complete, checksum-valid protocol message" (`framing.go:34`) | the run's | none: sentences have no checked sum |
| `OneSet` | "A set assembled across an ephemeris change" (`ephemeris/`) | the run's | `set > Issues` in `SentIsOneIssue` |
| `SamplesArePrompt` | "as close as possible to the moment the frame arrived" (`timesync.go:136`) | the run's | `LateIsFirst` allows one, first of a connection or after a blocked write |
| `NewestIsShown` | a chart ends with the latest epoch (`store/telemetry.go:50`: one bucket too many) | the run's | the newest bucket in `ChartsAreComplete` |
| `StaysOnCadence` | "stays on cadence rather than drifting by one epoch each time" (`filter.go:113`) | the run's | `Period` in `KeepsPace` |

## Proofs

Eight modules hold proofs, more than 16 000 obligations in all: `ReceiverTxnProofs`,
`HubProofs`, `MountProofs`, `ArchiveProofs` and `PushoutProofs` for the modules they
name, `DaemonProofs` for Station and Jobs, `ClientProofs` for RawServer and
Admission, `PartsProofs` for AllParts with its seven parts. Every invariant and every
safety property that a passing run checks is a theorem there. They hold for every
value of the constants that the module's assumption allows: any number of batches,
changes, faults, resets (`RxAssumption`), connections and accounts
(`AdmissionAssumption`), outputs, frames and reconnects, rovers and messages,
periods, names and crashes, targets and reloads, releases and backups, requests and
conversions (`JobsAssumption`), runs and days (`IntegrityAssumption`), streams of
bytes (`StreamsAssumption`), intervals and windows (`PartsAssumption`), and any
positive length of a queue. The assumptions say only that counts are natural
numbers, that queues have room, that names and defaults are of the right kind (a
session is not an output, an administrator not a visitor, the default setting is
not refused, a frame of a stream is a frame), and that what is counted is finite
(`Conns`, `Targets`). TLC evaluates each of them in a run.

A proof has the same shape everywhere: a type lemma with one case per action, then
an inductive invariant in named parts, one lemma per part and one case per action
in it, then the theorem. Where many actions agree on what a part looks at, the cases
are grouped (`Calm`, `LineStep`, `Talking` in `ReceiverTxnProofs`). What a step does
to a record or to a queue is a lemma of its own (`MarkEffect`, `ExchangeAnswered`,
`OrderedTail`).

ReceiverTxn:

* `TypeCorrect`; `FlashSafe`: a Flash write may be under way when the change ends,
  so `FlashInv` adds `Sent` (a Flash command in the line carries a change that was
  asked to be kept) and `Pending` (while a commit is under way its change was).
* `StaleTimersAreDone`, from `LiveInv`: a live timer belongs to the transaction in
  the slot, which is the latest; a conversation that changes the receiver has an
  empty slot; a revert marks its transaction done first.
* `ConfigIsFollowed`: `PhaseInv` says who holds `receiverMu` in each step of a
  conversation, what the slot is and what an outcome can be; `CfgInv` says that while
  Keep is under way the configuration is the copy the change began with, and the
  change; at every other moment its entries are of changes that were kept or whose
  Keep was cut (`Named`), and a kept one that it misses was `Overwritten` (`Covered`).
* `SnapshotsAreTrue`: `FlushInv` says how a request and its answer pass through the
  two streams. An `Exchange` is at most one request of a kind or one answer, with
  nothing sent after it; the MON-VER exchange opens on a line that may hold old
  replies of other kinds, and ends on an empty one; after it, the snapshot's and
  each VALSET's exchange are the only ones.
* `OutcomesAreTrue`: `LevelInv` bounds the versions in both layers and in the
  commands, `QuietInv` says that no VALSET is under way while a change waits for
  its operator, `OneInv` that the acknowledgement a Commit or a revert waits for is
  that of its own request and that the batches before it are done, `SettledInv` what
  a settled change left. Without `late` (a request of this change timed out) and
  `Flushed` the third is false.
* `TrialIsDecided`: the safety of `TrialConfig`, every step mapped to a step of it
  or to a stutter. The kept changes need a last one (`KeptInv`), which is not said
  by their being a set.

Hub: `WriterFollows` and `SessionsExclude` from the input's and the sessions' parts;
`NeverSendsOnClosed` from `SubInv` (a closed output is not registered and `dispatch`
holds the lock); `FramesAreAccounted` counts per output, with a lemma on the
cardinality of an interval that grows by one, and `Flow`, which adds up what is in
scanner, pipe and dispatch; `HubIsAStream`: every queue is `Ordered`, that is
increasing, of the output's kinds, and newer than what was received, so that each
step is one of `OrderedStream` or a stutter. `HubInvariant` is the conjunction.

RawServer: `RawHasNoGap` from `GapInv`, which fixes for every client in service what
it has, holds and has queued as one interval. Mount: `MountHasNoGap` and
`StationStaysCurrent` from `StreamInv`: what a rover was sent, has in hand and has
queued is one stream in order (`OrderInv`), complete from where it joined (`GapInv`),
with the newest description unless a broadcast of it is under way; `TapStaysSafe` on
its own.

Archive: `SpoolIsKept`, `ShareStaysFaithful` from `ArchiveInv`: a file on the share
is a beginning of the spool file it came from (`ShareInv`, which an append that
landed in part keeps), a period has no name there but the one its sidecar says, and
one for each update of it that was cut (`OwnInv`, `NameInv`), another recorder's file
is as it was unless both took its name (`ForeignInv`), and a period that is to leave
the spool is complete (`KeptInv`).
`ArchiveIsAMirror` needs more: `OrderInv` puts spool, buffer, the frame in hand and
the subscription into one order. `Best` is a CHOOSE, so the proof shows first that
the copies of a period are prefixes of one recording.

Pushout: `UnlistedStops`, inductive with the types; `ReloadIsFollowed` from
`FollowInv`: every copy of a row, in a request or a runner, is no newer than the last
save, and one of the same second has a password that was typed in that second.
Station: `UpdateIsSafe` from `UpdateInv` (which release is installed, kept and proven
at each step of an update and its rollback), `SettingsAreKept` from `SettingsInv`,
`RestoresAreWhole` from `WholeInv`. Admission: `LimitHeld` from `Holder` (the request
that has counted holds `admissionMu`), `Copies` (a copy of a limit is at most the
highest the id had) and `Place` (from counting to inserting there is a free place),
and `RowsMatch` from `Down` (no stream while the daemon is down).

Jobs: `JobsAreBounded` from `JobsInv`: a conversion is busy for exactly one job, the
one whose goroutine is between reserving and releasing (`HeldOnce`); a directory and
a link are of jobs at the places that may have them (`JobsArePlaced`,
`StopsInBound`); unless two requests have crossed, at most one is past the count and
has its place in the budget, and a visitor has a job or a request past his check,
never both (`BudgetHolds`, `OwnHolds`, `ChecksAreOfVisitors`). The counts alone are
not inductive.

PartsProofs, with the seven parts of AllParts:

* Integrity: `RowsStayTrue` from `IInv`: one run is inside, and the flags of the
  monitor are that run's (`FlagsAreOfRun`); what a run knows, and whether it has its
  row, at each of its places (`PlacesAreTrue`); while a scheduled run is under way,
  the rows of earlier ones are of earlier days (`DaysInOrder`).
* Scanner: `FramesAreSplit` from `ScanInv`: an intact frame that was not returned, and
  is not inside another, begins no sooner than the window (`IntactIsAhead`), and the
  bytes before the window that are in no frame are those counted
  (`DroppedIsCounted`). Three lemmas carry it, for RTCM, UBX and sentences alike:
  what begins with an intact frame is split off as that frame (`LongerIsFrame`), a
  proper beginning of one makes the scanner wait for more (`ShorterWaits`), and what
  it waits for fits the buffer (`WaitsFit`).
* Ephemeris: `SetsAreOneIssue` from `EphInv`: no part is of a later set than the
  current one, and up to `Issues` sets an issue of data names one of them.
* TimeSync: `SamplesAreFresh` from `QueueIsFresh`: while the loop is awake and has a
  connection, what waits in the queue came at this moment, or has no chance before
  the clock moves on, or has waited for a write that blocked.
* History: `HistoryIsKept`, `ChartsShowAll` from `ChartInv`: what is younger than the
  cutoffs is there, a bucket that is not pruned keeps a row (`NothingIsLost`), and
  while the clock was not set back the older ones have one row each (`OldIsThin`).
  That a chart fits its size comes from an injection of its rows into the buckets of
  the window (`LastsAreFew`, `BucketsFit`).
* Limiter: `AttemptsAreLimited` from `TokensAreKept`: what an address was granted and
  what it can still count on are together at most a full bucket, what has flowed in
  and what was handed back; evicting takes and gives nothing (`KeptIs`).
* Filter: `MessagesKeepPace` from `Paced`: the last frame passed is less than an
  interval before the last epoch, and the last one queued not longer before that
  than the losses in between account for.
* `PartsStandAlone`: a behaviour of `PartsSpec` is one of each part, so that the theorems
  above give `FramesStayExact` and `PartsStayFaithful`.

Only model-checked: what needs fairness (the temporal prover has no ENABLED), that is
`HandlersReturn`, `NothingBlocks`, `ClientsLeave`, `ClosedEnds`, `RequestsAnswered`,
`PendingDrains`, `RunnersServe`, `StationServes`, `EveryJobEnds`, `RunsEnd` and the
liveness half of `ImplementsTrial`, whose safety half is `TrialIsDecided`. Induction
over data cannot be instantiated by this prover either. The proofs do without it:
least and greatest elements come from the library's theorem on minima of a
well-founded order, and the operators they meet are written without folds (`At` in
Mount, `Ordered` in Mirror, `Longest` in Archive); what the checksums' folds compute
is not used by any of them.

No module declares a RECURSIVE operator.

## What is not modelled

* Archive retention (deletes by age; it does not ask whether a file is mirrored),
  RTCM output (a retry loop around a tap of `Mount`).
* Cryptography and HTTP (secrets, releases' signatures), administrators' sessions,
  opening and migrating the database, the one-shot installer, host information and
  the log buffer, version.
* Floating-point orbit and coordinate arithmetic, parsing of receiver messages,
  packing of telemetry rows, encoders, page rendering, NMEA and sourcetable text,
  the PROXY header, the receiver's table of keys.
* In modelled parts: a failing local disk (Archive), tearing of fields read
  without a lock (Jobs), `main`'s wait of at most five seconds for goroutines as
  more than an end at any place, requests that still run when the process ends.

`PROJECT.json` gives the status and the reason for each component.

## Plan

No invariant is left without a theorem. Left to model: retention composed with
`Archive` (what Prune may remove while a file is still to be mirrored), RTCM output,
sessions of administrators; and of the receiver's table of keys, what a value may be.
