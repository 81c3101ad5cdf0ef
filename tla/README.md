# docker-rsync-scheduler: TLA+ models, checks and proofs

The repository is a container daemon that mirrors local directories to remote
hosts with `rsync`. One process loads `config.yaml`, runs all jobs of it in
sequence (a *pass*) on a timer, at startup or on request over a unix socket,
keeps a health marker file for Docker's HEALTHCHECK, and remembers the outcome
of its last scheduled pass across restarts. This directory holds TLA+ models of
it, from the mounted files to the command rsync gets and from SIGTERM to the
exit code, the TLC configurations that check them and TLAPS proofs.

    tlc -workers 2 -config MCDaemonHealth.cfg MCDaemon      # one run
    tlapm DaemonProofs.tla                                  # one proof module

`PROJECT.json` lists components, runs, mutants, the map from definitions to
source lines, findings, hazards and theorems.

## Inventory

| component | state | operations | what makes it correct |
|---|---|---|---|
| daemon lifecycle, `runDaemon` (daemon.go) | the signal context, listener, queue, `startupDue` | preflight, startup decision, serve, ordered shutdown | SIGTERM always ends the process; no accepted request is lost |
| executor, `daemon.run`, `runPass` | the running request, loop index, `passResult`, `advised` | reload, job loop, tally, publish, record | a pass runs on the config the operator was advised about; a pass that was cut certifies nothing |
| job, `runJob` (sync.go) | two contexts, the child, `cancelSent` | source check, `cmd.Run`, classification | the outcome is the child's own report unless this app stopped the child for a shutdown; the job ends |
| ticker, `startTicker`, `tick` | startup, sleeping, waiting for its result | submit, wait, stop | ticks never pile up; a refused tick is skipped |
| health marker, `applyPassHealth`, `health.Latch` | marker file, drain latch | `Set`, `BeginDrain`, `Cleanup` | the marker is the truth about the last conclusive pass; never healthy while draining |
| last-run record, `recordScheduled`, `scheduler.Stamp` | `/data/.docker-rsync-scheduler-last-run` | record, remove, `Remaining` | the next boot never trusts what no scheduled pass earned |
| trigger broker (`trigger` library) | bounded queue, connections, handlers | submit, execute, relay, close | every accepted request has one answer, of its own pass |
| client, `dispatch`, `runClient`, `finishResult` (main.go, client.go) | connection, accepted flag | dial, send, wait, be interrupted | exit 0 only for a pass without a failed job; what it says of acceptance is true; it ends |
| stderr capture, `delLimitCapture`, `cappedBuffer`, `tail` | prefix matcher, the last 1 MB | `Write` | the `--max-delete` warning is found however the stream is cut |
| empty-source guard, `sourceIsEmpty` | none | batch-wise directory read | a skip means there was nothing to mirror; a vanished source alone wipes nothing |
| healthcheck probe, `probeOptions` (health.go) | none; reads the marker's age | lease = 2 intervals + jobs x timeout | a working daemon's marker does not expire; a hung one's does |
| config, `loadConfig`, `validate` (config.go) | none | read, parse, validate, advise | what runs is a whole, valid document; no setting is dropped silently |
| rsync arguments, `buildRsyncArgs`, `sshCommand`, `remoteDest` | none | build the command | rsync reads back what the operator wrote |
| overlap advisory, `overlapComponents`, `warnConflictingTree` | none | grow sets of overlapping trees, report | whoever loses files to another job is named with it |
| host-key posture, `classifyKnownHosts` | none | scan known_hosts | a mount without an entry refuses the start and never falls back |
| statistics, logging | none | text parsing and formatting | -- |

How they interact. The main goroutine, the executor, the ticker, the server's
accept loop and one handler per connection run concurrently. Ticker and handlers
submit to the queue and wait on a result channel; only the executor sends
results. The executor reads `config.yaml`, which the operator may edit at any
time, calls `runJob` once per job and writes the marker and the record. The main
goroutine clears the marker on start, writes the first verdict, and at shutdown
latches the marker down, closes the listener, closes the queue, and waits for
executor, ticker and server in that order. `runJob` blocks in `cmd.Run`, where
os/exec's watcher signals and later kills the child.

What is hard: the shutdown races a pass, a job, a tick, a handler and a client in
any order; the contexts are read after the fact; four timers (interval, job
deadline, grace period, pipe delay) race each other; files outlive the process
and may be old, torn or unwritable, or change while they are read; the process
may die between any two steps; what is validated in one form is parsed again by
rsync, ssh and a remote shell. The 40 hazards in `PROJECT.json` place each of these at its line.

## Modules

| module | role | models |
|---|---|---|
| `SyncPass` | vocabulary | `jobResult`, `passResult`, `healthy`, `vouchable` and the loop body of `runPass` |
| `JobContract` | abstract specification | what `runPass` may assume of `runJob` |
| `RunJob` | component, implements `JobContract` | one `runJob` call with its contexts, os/exec, child and pipes |
| `PassServer` | abstract specification | what ticker and clients may assume of the daemon |
| `Daemon` | composition, implements `PassServer` | the whole process through any number of lives of its container |
| `SyncClient` | composition on `PassServer` | `docker exec ... sync` against that daemon |
| `RsyncCommand` | functions | validation of a job, advice, command construction, and how the command is read |
| `Startup` | composition on `RsyncCommand` | from the mounted files to the commands of the first pass |
| `SourceGuard` | component | the empty-source guard before an rsync that deletes |
| `SharedDest` | component | the shared-destination advisory, compared with the losses |
| `HealthLease` | component | the marker's deadline against time |
| `StreamCapture` | component | stderr capture, byte by byte |
| `MC...` | instances for TLC | -- |
| `RunJobProofs`, `DaemonProofs`, `SyncClientProofs`, `SourceGuardProofs`, `HealthLeaseProofs`, `SharedDestProofs`, `StartupProofs`, `StreamCaptureProofs` | theorems | -- |

Some definitions sit just before the one they vary (`LatchSetUnlatched` before
`LatchSet`, `QueueLeftOpen` before `CloseQueue`). They are plausible bugs:
putting one in the place of the real definition must break the property
`PROJECT.json` pairs it with, which shows that the property constrains the code.
No `Next` uses them.

### RunJob

`pc` walks through `runJob`: the source check, `cmd.Start`, the blocked `Run`
(child running, watcher joined, pipes drained), the reading of `drainSignals`
and the switch. `Collect` reads `ctx.Err()`; `Classify` reads `jobCtx.Err()` and
`cancelSent`, a separate step because both can change in between. The
contexts, the watcher (`WatchCancels`, `GraceExpires`) and the child move on their
own. The parent's cancellation reaches the job context in a step of its own
(`Propagate`), so the deadline may still win after SIGTERM. The child is an exit
status, a flag for the `--max-delete` warning and a flag for held pipes; status
23, 24 and 25 relate as in rsync, where 24 overwrites 25 and 23 both. `jobResult`'s
three flags are one outcome, in the order `runPass` switches over them.

`cmd.Cancel` may fail although the child is there (`watch = "unsent"`): the signal is
not sent, the grace period still ends in a kill. `signalledFor` and `struck` are history
variables: why the watcher signalled, and whether the child was still running then.

`JobContract` says: a job ends once, with any outcome while the context is alive
except `interrupted`. `ImplementsContract` is checked with its liveness part, so
that the job ends although rsync ignores SIGTERM and a descendant holds the pipes;
`Daemon!JobEnds` is exactly `JobContract!End` plus the loop's tally, so `Daemon`
is checked against what `RunJob` was shown to do. One thing bounds no job: the source
check comes before the deadline exists. `RunJob` takes it to return; `HealthLease`
shows what happens when it does not.

### Daemon

`main` is the program point of `runDaemon`; `exec`, `ticker` and `conn[c]` those
of the executor, the ticker and each client's handler. One action stands for the
code between two points another goroutine, or a crash, can tell apart: `Publish` is
`reportPass`, `applyPassHealth` and the outcome; `recordScheduled` follows as a
step of its own since a crash or a shutdown can come in between. `Reloads` and
`Advise` are two steps: between the load and the comparison of digests the operator may
edit the file again, and the advice must be about what was loaded.

The environment: `SigTerm` at any step, `Crash` (SIGKILL, OOM, power loss) at any
step, `Recreate` (new `/tmp`, perhaps new `/data`, perhaps another
`SYNC_INTERVAL`), `EditConfig`, `ClockMoves`, clients that dial whenever somebody
listens. A client slot back at `"none"` is a process that exited (a refused or
severed one with 1) and may be invoked again; one that is interrupted while it
waits leaves its handler, and so its slot, waiting for the pass. `loadConfig` is a predicate of the
document: `JobCount[d] = 0` stands for everything the code refuses, an empty
job list included.

History variables that no guard reads: `seen` (outcomes of the current pass),
`lastPass`, `lastSched` (truth about conclusive passes, computed from `seen` and
never from the counters the code uses), `recordLost`, `told` and `nagged` (the document
the last advisories were about, and whether some were repeated for it).

`PassServer` is the daemon as ticker and clients see it: a bounded line, one pass at
a time, one answer each, its own; only a crash loses a request. The mapping is
direct (`line <- queue`, `running <- cur`, `answer <- result`). `ServesInOrder`
checks its safety part for two clients and the ticker, `ImplementsServer` all of
it with its fairness.

### SyncClient

One `sync` process per member of `Clients`: `Dispatch`, `Dial`, `Send`, the event
callback, `Finish`, `Lost` (the stream ended without a final event) and
`Interrupted`, which may come at any time after a signal, before what is
already on the wire is read. The daemon is `PassServer` plus connections: a
handler writes events onto `link[c].wire`; a drain resets connections nobody
accepted; a crash closes all of them and may take unread events along.
`enqueued` and `verdict` record what really happened to the request. A log line
is the tag of the branch that wrote it. The accept queue of the socket is
simplified: a connection is open from `Dial` on, and may be reset at the drain.

### Startup and RsyncCommand

`Startup` follows `runDaemon` through its files: `config.yaml` is opened and read up
to the cap plus one byte while an operator may write to it; it parses or not
(the YAML library is a choice); one `Validate` step per job; `adviseConfig`; the
known_hosts scan rune by rune; then the command of each job. A mount is absent,
denied, a FIFO, a directory or a regular file.

`RsyncCommand` holds the functions. A text is the set of kinds of character it
contains (control, shell metacharacter, space, glob, quote, padding); a
`remote_host` is a sequence of tokens (name, name with a leading dash, IPv4, IPv6,
`@`, brackets, colon), where an address is one token. The command is a list of
options with values. Its second half is the other side, external: how rsync splits
`-e`, finds host and path, reads rules, and what ssh and the remote shell do to
the path. `CommandAsWritten` and `SettingsInForceOrAdvised` compare what comes
out there with what the document says. The reload before each later pass is the
same code on the same inputs.

### SourceGuard

The folder is a set of names that changes at any step, also while it is read: the
directory then returns what came or went, or does not. `ReadBatch` is one
`Readdirnames`. `List` and `Transfer` are rsync: it lists the folder as it is
then, sends, and deletes as far as `--delete` and `--max-delete` allow. `lasting`
and `moved` record what the guard could have known.

### SharedDest

`Seed`, `Absorb` and `SweepEnds` are the three loops of `overlapComponents`;
`warnConflictingTree` makes one record per component with the members at risk.
The record's text spells out the outermost three members; the model keeps all of them,
as the record's counts do.

The advisory compares texts. A host is a sequence of tokens; `hostKey` takes it apart as
`splitRemoteHost`, `ToLower`, `ParseIP` and the trimming of the root dot do. A path is a
sequence of segments, and `Clean` folds it without looking at any file system.

The losses come from the other side, external, which shares none of this: `Resolve` says
which machine ssh reaches (a login ends at the last `@`; case does not matter; an address
is what it stands for; a name without a dot goes through the search list), and `Trail`
walks a path through the remote's symbolic links. Then two passes run there. A job leaves
files in the directories of its tree its excludes do not cover; with `--delete` it removes
others' files from them, all or as many as `max_delete` allows; a key may be rooted in a
directory of its own (`jail`). `lost` remembers who deleted whose.

Text and machine agree only under `DocumentAssumption`: hosts passed validation, no
`remote_path` crosses a symbolic link, none leads into the directory another job's key
is rooted in. The code cannot see the last two and says so of keys; a link makes it
miss an overlap. Two names of one machine (aliases, a name and its address) are
different hosts for code and model alike, and number forms of an address such as `127.1`
are not among the tokens.

### HealthLease

Time moves in units, and only while nothing is due, so the daemon's promptness is
an upper bound and everything else is free. A job may take its whole timeout and
`Overrun` on top (grace period and pipe delay); a tick refused by a full queue waits
for its next interval; config edits change the job count the probe reads while
the running pass keeps its own; `Hang` blocks the executor in the source check.
`over` adds up what the jobs of the running pass took beyond their timeouts. Nothing in
the code keeps that below an interval, so nothing in the model does; `NoFalseAlarm` names
it. The ticker ticks on while the executor hangs. Shutdown is left to `Daemon`.

### StreamCapture

`ScanByte` is one turn of the scan loop, `Write` folds it over a chunk and
appends to the capped buffer, `tail` cuts the log record. `stream` remembers every
byte; the properties compare the incremental state with definitions over the
whole stream.

### External parts

Modelled from how the code uses them, and marked external in the map:

* `trigger.Queue` refuses a submission when closed or full; `trigger.Execute`
  serves requests in order until the queue is closed and empty, answering with a
  cancellation once the context is done.
* `health.Latch.Set(true)` is dropped after `BeginDrain`. Marker writes succeed.
* `scheduler.Stamp.Record` may fail, and a crash inside it may leave the file
  unreadable. `Remaining` under `RetryFailed` is positive only for a success
  younger than the interval. `scheduler.RunLoop`, with both its timer and the
  context ready, may take either.
* os/exec: `Start` refuses a context that is done; `Wait` joins the watcher before it
  returns; a context error replaces only a clean exit; `WaitDelay` closes the
  pipes. A zombie still accepts the signal, so `cancelSent` may be true for a
  child that had already exited.
* rsync reads `-e` in words, ends a host at the first colon outside brackets, takes
  a second colon for its daemon protocol, and reads an `--exclude` value with rule
  prefixes where `--filter=- ` takes it as it is. Globs in the remote path are
  expanded on the receiver. (These are the reasons the code gives for its checks.)
* The healthcheck compares the marker's age with the lease; `Latch.Set(true)`
  rewrites a marker that already stands.
* `pathinside.Root(p).Contains(q)` is "equal or below"; a name with another dot is the
  same host with and without the root dot, a single label is not.
* rsync writes the `--max-delete` warning whenever it stopped deletions, and then
  never exits 0.

## Runs

| run | instance | distinct states | question |
|---|---|---|---|
| `run_job` | no constants | 2 280 | is the outcome right in every race, does the job end, is the contract kept |
| `daemon_health` | 1 client, capacity 1, documents of 2, 1 and 0 jobs | 932 190 | marker, record, heartbeat and advice through restarts, crashes and shutdowns |
| `daemon_broker` | 2 clients (symmetric), capacity 2, one document of 2 jobs | 780 970 | nobody's request is left behind, duplicated or answered for another, or served out of order |
| `daemon_liveness` | 1 client, capacity 1, documents of 1 and 0 jobs | 192 942 | SIGTERM ends the process; the daemon implements `PassServer` with its progress |
| `sync_client` | 1 client, the ticker, capacity 1 | 2 579 | is what an invocation reports true, does it end, does its request outlive it |
| `startup` | documents of up to 3 jobs in six groups of variations, and every mount under one job: cap 2, files to 4 bytes, known_hosts to 4 runes | 453 377 | whole documents, right posture, right command |
| `source_guard` | 2 entries, 2 excluded names, batches of 1 | 447 420 | when is a job skipped, when is a receiver emptied |
| `shared_dest` | 3 jobs: 16 spellings of the hosts of two, or 7 spellings of three trees for each, or 20 ways to be protected for each | 433 299 | is every loss advised, is a record about real losses |
| `health_lease` | interval 3, timeout 2 (by default), overrun 2, 2 jobs, capacity 2 | 37 460 | does the lease outlast every legal gap and catch a hang |
| `stream_capture` | 4 byte kinds, warning of 2, cap 4, tail 2, streams to 7, chunks to 5 | 21 845 | incremental capture equals its definition over the stream |
| `deadline_is_failure` | as `run_job` | violation | see Findings |
| `heartbeat_every_pass` | 1 client, documents of 1 and 0 jobs | violation | see Findings |

What the properties say:

* `DrainNeedsOwnSignal`, `FailureSurvivesShutdown`, `CompletedTransferKept`,
  `CappedDeletionNeverSucceeds`: `interrupted` needs this app's signal sent for
  the shutdown and a child that reports a signal; exit 23 and 25 fail in every
  race; exit 0 succeeds in every race; a capped deletion never does.
* `ImplementsContract`: and `cmd.Run` returns, although rsync ignores SIGTERM and
  a descendant holds the pipes.
* `DrainNeverHealthy`, `MarkerTruthful`: between the first verdict and the drain, the
  marker equals the verdict of the last conclusive pass; before one, it
  stands only in external mode or on an honest record.
* `RecordHonest`: the record is the truth about the last conclusive scheduled
  pass in any life, with two named exceptions (below).
* `CutPassLeavesNoTrace`, `HeartbeatMeansComplete`: a pass cut short without a
  failure writes neither file, and no cut pass logs the heartbeat.
* `AdvisedOnce`: a pass runs on the document the operator was last advised about,
  and none is advised about twice in a row, whenever it is edited or fails to load.
* `AcceptedIsHeld`, `ExitCodeHonest`: a waiting requester has exactly one request,
  queued or running, until it has its own answer. `NobodyLeftBehind`: when the executor
  is gone nobody waits without one, however late the queue admitted the request.
* `ServesInOrder`, `ImplementsServer`: what happens in the daemon amounts to
  `PassServer`; in particular whoever was accepted is answered.
* `ShutdownCompletes`: SIGTERM at any step ends the process.
* `ExitTellsPass`, `AcceptanceHonest`: the client's exit code and last line are
  about its own pass; "observed" is said only of a request that was taken, and a
  request reported as not sent was not taken.
* `InvocationEnds`, `AcceptedOutlivesClient`: no client waits forever, and
  interrupting one does not withdraw its request.
* `WholeDocument`: no prefix of a longer or growing file runs, and no list with an
  invalid job or two equal names, wherever they stand.
* `PostureExact`: strict exactly if some line of known_hosts is an entry;
  accept-new only if nothing is mounted. `PreflightEnds`: the start
  comes to a verdict whatever is mounted, provided known_hosts stops growing.
* `CommandAsWritten`, `SettingsInForceOrAdvised`, `HostContract`: what validation
  accepts is executed as written, in full or with advice; it accepts exactly the
  hosts of its contract.
* `SkipMeansEmpty`, `WipeExplained`: a skip never hides something that was there all
  along; the last entry leaves the receiver only if the job deletes, its cap allows
  it, and either its own excludes match everything or the source changed
  between the guard and rsync, as the documentation warns.
* `ComponentsExact`, `LossIsAdvised`, `AdvisedAreAffected`: connected components;
  every loss announced, whatever protects whom; and where no member of a record has
  excludes, `max_delete` or a rooted key, each really loses or takes files. Otherwise the
  record may be about a safe set: the advice says "may delete", and leaves it there.
* `NoFalseAlarm`, `HangIsNoticed`: the deadline fires for a stuck executor, and
  for a working one only in the two cases described under Findings.
* `LimitedIffLineWarns`, `BufferIsEndOfStream`, `TailStartsAtRune`.

### Bounds

`RunJob` has none. In `Daemon`, lives, crashes, edits and requests are unbounded;
only the sets are small. Two jobs are the fewest with a cut *between* jobs and a
failure followed by a success; a third repeats the same loop turn. Capacity 1 with
one client and the ticker already gives a full queue; capacity 2 with two clients
and the ticker gives order in the queue and refusal (three requesters for two
places plus the running one). Documents with 2, 1 and 0 jobs give a changed
digest, a changed job count and a failing reload. `daemon_broker` keeps one
document, because the broker's steps do not depend on which one loads. In
`StreamCapture` seven bytes exceed the cap by three, so that a warning is evicted,
and chunks of five exceed it by one.

`SyncClient`: the ticker is the competitor that fills the queue and runs before or
after the client; that two clients are not mixed up is `daemon_broker`'s question.
`Startup`: sizes from two below the cap to two above it; four runes hold a comment,
its end, a blank and an entry; hosts of four tokens hold every bracketed form, and
three follow a login; three jobs are the fewest where equal names are not
neighbours. `MaxRunes` bounds the text for TLC only: `classifyKnownHosts` has no cap, and
`PreflightEnds` does not rely on the bound but states that the text stops changing.
Documents vary one group of fields at a time since no rule relates
fields of different groups, and the editor is at work only where the mounts vary.
`SourceGuard`: a batch of one makes two excluded names span batches, as 257 names do
in the code. `SharedDest`: three jobs are the fewest where one joins two others, in any
order; hosts, paths and protections vary one at a time, since hosts only decide who is
compared and protections only what is deleted. `HealthLease`: two jobs and two queued passes give gaps of several passes;
`MaxAge` stops the clock once every lease has expired.

The theorems below remove these bounds for what they cover: clients, capacity,
documents, job counts, durations, file sizes, host tokens, path segments, lists of excludes, batch and buffer
sizes, streams and chunks.

### Fairness

`RunJob!Spec`: weak fairness of `runJob`'s own steps, of the two timers and of
os/exec's goroutines, which the Go scheduler and the kernel give. None on the
child or its descendant: rsync may hang forever. `DeadlineFires` is fair because
`loadSyncTimeout` always yields a positive duration.

`Daemon!Spec`: weak fairness of `Main`, `Executor`, each `Handler(c)`, the startup
tick, the ticker's wait and its stop. `Executor` contains `JobEnds`, which is
what `ImplementsContract` shows of `RunJob`. A handler blocked on a client that sends nothing
is not modelled: decoding takes one fair step, which relies on the broker's own
read limit. None on clients, the interval timer, the operator, starts or crashes.

`SyncClient!Spec`: weak fairness of the client process after its invocation, of its
handler and of the broker, which `ImplementsServer` justifies; none of ticks,
signals, stops, starts or crashes. `Startup!Spec`: weak fairness of the start's own
steps; each of them is a system call that returns, because no open waits. A reader
that takes one rune at a time need not catch up with a writer, hence the premise of
`PreflightEnds`.
`HealthLease!Spec`: time passes, and the ticker's goroutine goes on whatever the executor
does. What is due happens because `Advance` waits for it, and a hung executor is never due.

Deadlock is checked in every run.

## Findings

* `deadline_is_failure`: `sync.go` says twice that a job deadline is always a
  failure, and the repository's README that a job over `SYNC_TIMEOUT` is "stopped
  and counted as failed". A child that is still running when the deadline's signal
  reaches it and then exits 0 (or 24 without the warning) is a success. The code means it: "the
  transfer completed either way"; the sentences are too strong.
* `heartbeat_every_pass`: the documentation promises a `sync cycle complete` line
  after every pass and builds an absence alert on it. A request whose config
  reload fails is answered, recorded and published as a failed pass without it.

Not findings, but worth knowing when reading the properties:

* The lease is computed from the document on disk when the probe runs, and a pass
  keeps the job list it loaded. Removing jobs, or leaving a list that parses but does
  not validate, shortens the lease under a longer pass that is still running: a
  daemon that works and had no failed job can probe unhealthy until the pass
  ends. `NoFalseAlarm` excludes this (`total <= doc`). The README's
  "Healthy means the last pass had no failed job" does not mention it.
* Nor does the lease count what a job takes beyond its timeout, the grace period and the
  pipe delay. Its second interval covers that unless a pass's overruns add up to more
  than `SYNC_INTERVAL`, which may be as short as seconds; `NoFalseAlarm` excludes that
  too (`over <= Interval`). With documented values it is seconds against hours.
* In a built-in schedule with a `config.yaml` that cannot be read or parsed the probe has
  no deadline, so a hang is not noticed while the document stays broken.

* A record older than the truth can survive a crash between the verdict and the
  write, or a write and a removal that both fail. The second is logged by the
  code. `recordLost` names exactly these cases and `RecordHonest` shows that there
  are no others.
* A pass whose shutdown came before its first job answers OK with a caveat,
  and the client exits 0; `daemon.run`'s comment says so.
* A child that ended by somebody else's signal just before our own, and was not
  reaped yet, counts as signalled by us.

## Proofs

Every safety property a passing run checks is also proved. Each proof is an induction: an invariant that holds initially,
that every action preserves, and that implies the property. All invariants were
run through TLC on the instances above before they were proved.

`RunJobProofs` (no constants, so nothing is assumed). `IInv` adds to the four
safety properties: where the child is in each phase (`Phases`); that the job
context's cause never changes once set, hence is still the one the watcher
signalled for (`Causes`), without which `DrainNeedsOwnSignal` is not inductive as
the classification reads the context later than the signal; and that `Run`'s
error is the child's status whenever that is not 0 (`Status`). Theorems:
`TypeCorrect`, `DrainProved`, `FailureProved`, `CappedProved`, `CompletedProved`,
and `Refinement`: `Safe => Contract!Safe`, every step of a job is a step or a
stutter of `JobContract`.

`DaemonProofs`, from `ConstantsAssumption` alone (requesters distinct from the
sentinels, a positive capacity, a job count for each document), for every set of
clients and documents, every capacity and any number of jobs:

* `TypeCorrect`, by four groups of variables; the queue bound is part of it.
* `Invariance`: `IInv` adds `Lifecycle` (which goroutines exist at which point of
  `runDaemon`, and that draining is exactly the shutdown's last phases), `PassInv`
  (the counters agree with the outcomes really seen, `interrupted` with a
  cancelled context), `OutInv` (the outcome to be delivered agrees with the pass)
  and `RecordingInv` (what is about to be recorded is the last scheduled pass).
  The marker and the record are decided from the counters, the properties speak
  of what happened: `PassInv` is the bridge, and `RecordingInv` carries the
  verdict over the step between publication and record.
* `DrainProved`, `MarkerProved`, `RecordProved`, and two action properties,
  `ExitCodeProved` and `CutPassProved`, derived from `PassInv` and `OutInv`.
* `AdviceProved`, from `AdviceInv`: `advised` is the document `told` is about, through
  failing reloads and restarts, so comparing digests decides rightly.
* `HeartbeatProved`, from `LogInv`: the completion line exists only between the publication of a pass and the end of its request, so the index and
  the outcomes it is about are still those of that pass.
* `HeldProved`, from `BrokerInv`. `AcceptedIsHeld` alone is not
  inductive: a handler that submits must not find the answer to an earlier request,
  and there must be no ticker before `startTicker`. The queue's elements are
  distinct, which a lemma on `Append` and one on `Tail` preserve.
* `LeftBehindProved`, from `BrokerInv` and `DoneInv`: the executor goes only when the
  queue is closed and empty, and then nothing can enter it any more.
* `ServesProved`: `Safe => ServesInOrder`, each action of the daemon is a step of
  `PassServer` or a stutter.

`SyncClientProofs`, from `ClientsAssumption`, for any number of invocations:
`ExitProved` and `HonestProved`. `IInv` says where a request can be (`ServerInv`),
that it is with the daemon only while its handler serves it (`HandlerInv`), that
every event on the wire is true and a final one comes from a handler that is gone
(`WireInv`), and of what each last line was said (`ReportInv`). A client decides on
an event it reads later than it was written; `WireInv` carries the truth across.

`SourceGuardProofs`, from `GuardAssumption` (a positive batch, finitely many
entries, none of them a globally excluded name): `SkipProved`, since the guard has yet to meet every entry that was there all along
(`ReadInv`), and `WipeProved`, an action property, since in an untouched folder the
entry that let the job through is the one rsync lists (`StillInv`).

`HealthLeaseProofs`, from `LeaseAssumption` (all durations and sizes are numbers, most of
them positive): `AlarmProved`, for every interval, timeout, overrun, job count and
capacity. `AgeInv` bounds the marker's age by one interval while nothing runs and, within
a pass, by one interval plus its jobs' timeouts so far plus `over`;
`TickInv` says that a waiting tick is queued or running, or else an idle daemon could
wait past its interval. The arithmetic is one lemma, `PassFitsLease`.

`SharedDestProofs`, from `DocumentAssumption` (above), for any number of jobs, hosts,
paths and protections:

* `ComponentsProved`, from `GrowInv`: a growing component is connected at every step,
  and the jobs passed by a sweep that added nothing do not touch it. Connectedness
  is a property of cuts of a set, so no path is built.
* `LossProved`, from `WarnInv` (each component in conflict has its record) and
  `RemoteInv` (a file is where its job puts files): two jobs that meet in a directory
  are in one component. That they do is two facts about conversions: `SameHost` (equal
  keys exactly if ssh reaches the same machine) and `WalkIsClean` (without links the
  kernel ends where `Clean` says), with `SharedDirectory` for rooted keys.
* `AdvisedProved`, from `PassInv`, an invariant of the two passes for unprotected jobs: what a later job
  left in a shared directory is there or was replaced by a third's (`SpoilInv`), a job has
  its files or lost some (`KeepInv`), a deleting job that ran after one it meets has
  taken some (`TakeInv`). One pass is not enough, as a job that deletes may run first.

`StartupProofs`, from `BoundsAssumption` and `InputAssumption` (documents are lists of
jobs and excludes lists, sizes are numbers, known_hosts is a text, the switches are among
`Environments`), whoever writes to the files meanwhile:

* `DocumentProved`, from `LoadInv`: past the read the document is whole and within the
  cap; validation has checked the jobs before `i` and remembers all their names.
* `PostureProved`, from `ScanInv`: the comment flag says whether a comment is open, so
  the loop body finds an entry exactly where the definition over the text does.
* `HostProved`: no state is involved; validation and contract agree on every sequence
  of tokens (`CutAtFirst`, `BracketForm`, `HostAccepted`).
* `SettingsProved` and `CommandProved`, from `ArgsInv` with the two invariants above:
  until the first job nothing was run, from then on only advice is left to report and
  `args` is `buildRsyncArgs` of the job before `i` under the posture in force. The rest
  is about that sequence of arguments. The flags are those the settings ask for and no
  others (`FlagsAre`, `GivenFlags`); the loop over the excludes keeps the non-empty ones,
  all and in order (`ElementsHeld`), and rsync reads each as the rule that was meant
  (`RulesRead`); nothing before `--` is a path (`OptionsAre`, `CommandParts`); login and
  host survive being taken apart, bracketed and read again by rsync (`HostRead`), which
  holds only because validation refused the other hosts.

`StreamCaptureProofs`, from `StreamAssumption` (a warning without a newline, a tail
shorter than the cap): `TypeCorrect`, `BufferProved`, `LimitedProved`, `TailProved`.
`Tracks` says what the matcher knows of the stream: whether some line warned and,
if none did, how much of the warning the open line begins with. That a line may
start over after a mismatch only at a newline makes this a single position.
`ScanByte` preserves it byte by byte, hence the fold over a chunk does, hence
`Write` does however the stream is cut.

Induction over data is needed in a few of these (the first `@` of a host, the bytes of a
chunk, the excludes of a job). The induction theorems of the library cannot be instantiated here, as they
take an operator; instead, `LeastNumber` (every inhabited set of numbers has a least
element, from the well-foundedness of `Nat`) is applied to the set of
counterexamples. `FoldExists` uses it to show that the function a fold is defined by
exists, `FoldTracks` that the fold preserves `Tracks`; `TakenExists` and
`ElementsHeld` do the same for the loop over the excludes.

Only model-checked is liveness, for which the prover has no support here, nor for
`ENABLED`: `ShutdownCompletes`, `InvocationEnds`, `AcceptedOutlivesClient`,
`PreflightEnds`, `HangIsNoticed` and the fairness parts of `ImplementsContract` and
`ImplementsServer`.

## Not modelled

* Statistics parsing (`parseStats`, `parseNum`): three regular expressions whose
  results only become log attributes. No decision depends on them.
* `setupLogger` and the wording of log lines; the advisory's sample of three.
* The YAML parser and the duration parser: libraries, here a choice between
  accepting and refusing.
* rsync's transfer beyond what is listed, sent and deleted.
* Number forms of addresses, aliases of a machine, and what the remote's links and
  rooted keys make of an overlap beyond `DocumentAssumption`.
* Failing marker writes, malformed requests, handler read timeouts.
* A `config.yaml` rewritten in place while it is read yields bytes of two versions.
  Such a mixture is a document like any other for the code, which does not try
  to detect it.

## Plan

1. Done: `SyncPass`, `JobContract`, `RunJob`, `Daemon`, `StreamCapture`, their
   runs, and the proofs above.
2. Done: `PassServer` and the refinement, `SyncClient`, `RsyncCommand` and `Startup`,
   `SourceGuard`, `SharedDest`, `HealthLease`, and their runs.
3. Done: proofs of the daemon's broker, log and pass properties and of its
   refinement of `PassServer`; proofs for `SyncClient`, `SourceGuard`, `HealthLease`,
   `SharedDest`, `StreamCapture` and `Startup`.
4. Done: proofs that the command is what the operator wrote (`SettingsProved`,
   `CommandProved`). Every safety property is now proved; the plan has nothing left.
