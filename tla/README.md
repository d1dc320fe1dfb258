# Orbix scheduler: specifications, checks and proofs

Orbix is a distributed cron scheduler on etcd. Every node runs the same binary: a
REST API, a worker loop, a history mirror, and, on the node that holds the leader
key, a scheduler. This directory models the parts of it that are hard to get
right, checks them with TLC on small instances and proves their safety
with TLAPS for any number of nodes and tickets. `PROJECT.json` links every
definition to the lines it models and lists the runs, mutants, findings, hazards
and theorems.

## 1. The system

| Component | State | Operations | Where |
|---|---|---|---|
| Ticket queue | etcd: pending tickets, claims, overlap locks, results | `Enqueue`, `EnqueueFire`, `ClaimNext`, `FinishSuccess`, `FinishFailure`, `Abandon` | `internal/queue` |
| Worker | slots, executions in flight | `tryClaim`, `execute`, `Drain` | `internal/worker` |
| Claim session | one etcd lease per node, renewed in the background | `MaintainClaims`, `ClaimLeaseID` | `internal/cluster/session.go` |
| Election, membership | etcd: leader key, member keys; node: session, `isLeader`, `leader` | `Run`, `campaign`, `follow`, `registerMember` | `internal/cluster` |
| Scheduler | etcd: one watermark per job; node: the tick under way | `tickOnce`, `scheduleJob`, `sweepOrphans`, `gcOnce` | `internal/scheduler` |
| Cron | none | `Parse`, `Schedule.Next`, `NextAfter` | `internal/cron` |
| Job repository | etcd: jobs, ID counter | `Create`, `Update`, `SetEnabled`, `Delete`, `List` | `internal/jobs` |
| Run history | SQLite table of each node | `Mirror.Run`, `InsertRun`, `GCResults` | `internal/history`, `store`, `queue/gc.go` |
| Executor | a shell and its pipes | `Run` a command with a timeout | `internal/executor` |
| Process | context, goroutines | start, leave, drain, close | `cmd/orbixd/main.go` |
| Node handlers, Docker control | the containers of the fleet | add, kill, start a node | `internal/api/nodes.go`, `internal/docker` |
| Other handlers, configuration, web console | request counters | HTTP handlers | `internal/api`, `config`, `cmd/orbixd/web` |

**How they interact.** Everything shared lives in etcd. The API writes jobs; the
leader's tick reads jobs and watermarks and writes tickets; workers of all nodes
compete for tickets with transactions and write results; the mirror of every node
watches the results; the leader deletes old results and tickets of deleted jobs.
The API also adds, kills and starts whole nodes through the Docker daemon.
On a node the election loop tells the scheduler through the flag `IsLeader`, and
the claim session tells the worker through `ClaimLeaseID`, both without a lock
across the calls that follow.

**What is hard.** Claims race; a value read (ticket, lease, watermark, leadership) is
used after later etcd calls; processes are killed between any two of these; leases expire
under running nodes; a call can fail although it was committed; watches break; pages and
batches are bounded; a process shuts down while its loop claims and its commands run;
requests that manage nodes race and lose their server. `PROJECT.json` lists these hazards
with their lines and the properties that watch them.

**What makes it correct.** Queue: one execution per ticket at a time, no overlap
where a job forbids it, no fire lost, every fire worked off. Election: a flag
backed by the key, a leader elected again. Scheduler: each fire enqueued once and
none passed over. Cron: the next fire time is found. Jobs: unique IDs. History:
every run recorded, and by its first result. Process: no more runs than slots, an
end to every run and to every shutdown, and no execution cut off by an orderly one.
Fleet: an ID names one container.

## 2. The modules

    Etcd            put, delete and lease expiry on a key prefix
    Queue           queue + worker + claim sessions + orphan sweep
    Delivery        what Queue promises of one fire         (abstract)
    QueueDelivery   the refinement mapping Queue -> Delivery
    Election        leader election and membership
    Leadership      what the election promises the scheduler (abstract)
    ElectionLeadership  the refinement mapping Election -> Leadership
    Scheduler       the tick, composed with Leadership
    Process         one process: worker loop, executions, shutdown
    Fleet           containers and the requests that manage them
    Cron            parser, search and lists of fire times
    History         mirror, store and garbage collection
    Jobs            the job repository
    *Proofs         theorems about Queue (and QueueDelivery), Election, Scheduler, Cron,
                    Jobs, Process, History and Fleet
    MC*             constants for TLC

Scheduler extends Leadership, not Election: it sees leader, flag and nothing else
of the election. That Election provides this under every fault is checked by the
run `election` and proved for any number of nodes (`ElectionImplementsLeadership`).
Delivery promises each fire one run at a time, its attempts in order and one report
for each. It knows kills and restarts. The sweep, which withdraws tickets of
disabled jobs, and lost leases are outside it.

One step of a module is one etcd operation together with the local work up to the
next. Transactions are atomic because etcd makes them so. A key prefix is a
function from the keys that exist to their values. A session is an *epoch*, a
number that is fresh for each session of a node; epoch 0 stands for "no lease". A
ModRevision is a per-key counter (`rev`), except in Jobs where the counter's value
serves. Keys that ride a lease carry node and epoch and go with it (`Unlease`).
etcd looks for the lease of a put only on the branch of the transaction that is
taken, hence `ClaimLeased` matters only when the comparison holds.

### Queue
`pending`, `claimed`, `overlap` are the etcd prefixes; `results` keeps every result
ever put, so that an overwritten one is visible. `ClaimNext` is the path `Scan`,
`ClaimBuild` (reads the lease for the claim key), `OverlapBuild` (reads it *again*
for the lock), then `ClaimWon`, `ClaimLost` or `ClaimPanic`; after a lost claim of
a no_overlap ticket come `OverlapHeld` or `OverlapFree` and `SkipStale` or
`SkipError`. `ClaimPanic` is `resp.Succeeded` read from the nil response of a
failed call (claim.go:72-74). An execution carries the lease epoch it was claimed
under; the completion compares the node name only, as the code does.
`NotBefore` is the Boolean `wait`. Which jobs the sweep finds disabled is left
open: any subset of the page. A shutdown is, for this module, a crash after some
completions and a lease expiry; Process takes it apart.

### Process
Queue looks at many nodes and makes one step of "claimed, slot counted, goroutine
started"; Process looks at one node and keeps these apart, since `tryClaim` checks
and counts `slots` in two critical sections and `Drain` waits on a third thing, the
wait group. `loop` follows `Worker.Run`, `stage` the goroutine of each ticket, `main`
the end of `main`: "serve", "drain", "close" (Drain has returned), "closed" (session
and client are), "exited"; or "panicked". A command is its shell (`shell`), a child it
may leave behind with the pipes (`pipes`, for tickets in `Leaky`) and its timeout
(`expired`). The context is cancelled by a signal or by `leaveNode` and fails a claim
in flight; whenever a claim fails, then or because of etcd, its nil response is read
(`ClaimPanic`). Executions run on without the context. A completion may fail at any
time, committed or not, and the execution ends all the same (`ReportError`). A ticket is
claimed once here and the claim lease lives until `Close`: claims again and lost leases
are Queue's. Bookkeeping: `late` are the executions started when `Wait` had returned,
`lost` those whose completion etcd failed.

### Fleet
A name is the sequence of its parts between dashes, which is all `findContainer`
looks at besides the node ID. A request belongs to a server container and is cut
when that stops; each Docker call is a step, so that requests interleave and are
abandoned between create and start. The daemon is external: it keeps names unique,
refuses to kill what does not run, and restarts what ends by itself but not what was
killed (`stopped`). A container without the socket that is asked to kill its own node
ends by itself (`KillSelf`). Nodes without a container (`External`) come and go. Member
keys are put after a node starts and go with its lease, before or after it ends, and an
error of `Members` is ignored, so `nextNodeID` may count from any set of nodes that ran
at some time (`MemberLists`); the keys matter to nothing else here and are no state.
The ID format is not checked again: clients name IDs that match. `Numbered` bounds
`nextNodeID`. `down` is bookkeeping.

### Election
`pc` follows `Run`. `events` is what the watch of `follow` has still to deliver.
`Done` allows a client to give its session up before or after etcd does.
The `Events` channel of the package has no reader in the program and is left out,
and a node does not change its ID.

### Scheduler
Time is a number; a cron expression is the set of its fire times, and `NextAfter` the
least of them after an instant (which Cron's search finds: `NextIsLeast`). `plan` holds
the writes `scheduleJob` has worked out but not made; it survives the loss of leadership,
as the code's locals do. `leader()` reads a local flag, so its check is merged with the
etcd operation it precedes. `time.Now` and `List` at the start of a tick are one step.
The answer of a write is only logged, so a write that was committed but reported as
failed is `MakeWrite`. An unreadable watermark never occurs: only formatted times are
written. `Resolve` stands for everything Queue does to a ticket; that tickets of jobs
that may overlap never come back otherwise than by `EnqueueFire` is a theorem about Queue
(`TicketsAreNotRevived`). `armed` and `enqueued` are bookkeeping.

### Cron
A field is a sequence of items (star, value or range, with or without a step; `Item` is
what `parseField` can take apart, so a value is its own end and an absent step is 1);
splitting strings, month and day names and macros are left out. The lengths of minute,
hour, day, month and week are constants, which lets TLC look at a whole small calendar.
The offset of the zone is constant: no daylight saving. `ListFire` is the loop of
`cronPreview`, which starts each search from the fire before; the loop of catch-up does
the same. `Fires` is the reference definition: Vixie's rules, without parser or search.

### History
A watch covers puts from the revision after the Get, which is why `Watching` holds
already while rows are loaded. `Age` makes a result older than the retention.
An insert that fails is only logged and the row is gone until the next Get:
`InsertError` remembers it in `failed`. A key is put again, with another result, when
`Abandon` follows a failed attempt; the store keeps what it has of a key (INSERT OR
IGNORE). `first` keeps the first result of each key, and `witnessed` the keys whose first
put a node's watch covers, until the mirror is interrupted or SQLite refuses the row.
A batch of deletes can fail, committed or not, which ends the pass of the collector.

### Jobs
A call is one client's; IDs are numbers; content is abstract. `created` records
which call was given which ID.

## 3. The runs

Passing runs:

| Run | Instance | Shows |
|---|---|---|
| `queue_crash` | 2 nodes, 2 plain tickets, 1 retry, a page of one ticket, kills | `NoConcurrentRuns`, `LiveRunKeepsClaim`, `OneReportPerAttempt`; `EveryFireResolved`; Queue implements Delivery |
| `queue_overlap` | 2 fires of one no_overlap job, 1 retry, kills and failing calls | `NoOverlappingRuns`, `LockHasClaim` |
| `queue_faults` | 1 plain ticket, all faults, 2 sweeping leaders | `ClaimedStaysQueued`, `NoLostFire` |
| `election` | 2 nodes, all faults, up to three sessions each | `FlagBacked`, `LeaderElected`, `KnownConverges`, `MembersConverge`; Election implements Leadership |
| `scheduler_once` | 2 jobs of all policies, changing; kills, failing calls | `EnqueuedOnce`, `WatermarkAdvances` |
| `scheduler_replay` | run_all, changing; kills, stale leaders, 2 terms | `GapReplayed`, `CatchesUp` |
| `cron_next` | 416 expressions, every instant of two days, lists of three | `NoFireSkipped`, `FoundIsAFire` |
| `history_mirror` | 2 results, each put twice, batches of 1; kills, lost watches, failing inserts and calls | `NoGap`, `FirstResultRecorded`, `EveryRunRecorded` |
| `jobs_ids` | 3 clients, 2 calls each, failing calls | `IdsAreUnique`, `ContentionMeansProgress` |
| `process` | 1 process, 1 slot, 2 tickets, one leaves a child behind; leave at any step, failing calls | `RunsWithinLimit`, `DrainKeepsPromise`, `LeaveEnds`, `EveryRunEnds` |
| `fleet` | 2 clients, 2 compose nodes, 1 node by hand that comes and goes, 3 IDs to ask for | `NodeIdNamesOne` |

The type invariant of each module is checked along in one of its runs. Every
property has a mutant: a small change of the modelled code under which it fails.

**Bounds.** Two nodes suffice for a claim race, for two rivals at the leader key and
for a stale leader beside a new one; what is said of more is proved, not checked.
`MaxEpoch = 2` gives every node one loss (of process or lease) and a recovery, three
in the election, so that a node can lose a session, win again and lose that too.
`MaxTerms = 2` lets a new leader take over from a dead or a stale one. Two fires of
a job meet at the overlap lock; a page of one ticket is smaller than the queue. Two
catch-up fires per tick with four instants of time force a gap to span ticks. The
eight tries of `Create` are two, which three clients can exhaust. Each result key is put
at most twice (`MaxPuts = 2`), so that one can be put again before or after the mirror or
the collector has come to the first put, and a batch of one key makes the collector
delete a page in several calls. One slot and two tickets let the loop claim while the last execution
is between giving its slot back and leaving the wait group. Two requests race for an
ID; the IDs asked for are one of a compose node, one that `nextNodeID` chooses too, and
one of neither kind; "node4" is the last number, and a request for a further one waits.
A bound on a counter disables the *fault* that would exceed it,
never the progress of a node: a bounded run ends with the faults over. Symmetry is
used in `queue_overlap`, `queue_faults`, `scheduler_once`, `jobs_ids` and `fleet`, which
check no liveness.

**Deadlock** is checked in the queue and scheduler runs, where something can always
happen (loops poll), and in `fleet`. It is not in `election`, `cron_next`,
`history_mirror`, `jobs_ids` and `process`, whose systems rest when nobody acts: an
election without further faults, a search that has ended, a mirror without results,
clients without calls, a process that has ended.

**Fairness.** Weak fairness only, of what timers and loops of the code drive: the
loops of a *running* node, the end of a command (`timeout_s`), the passing of time
(back-off), and the expiry of a lease nobody renews, which etcd promises. No
fairness of enqueues, faults, sweeps, or restarts: Compose restarts a container,
but nothing in the program does. In Process the goroutines run and the timers of
`executor.Run` and `Drain` go off; no command, no child it left behind and no request
to leave is fair. For the election a live session need not end.
In Scheduler the election as a whole is fair, which `LeaderElected` justifies, and
some ticket or other is worked off while there are any, which `EveryFireResolved`
of Queue justifies.

### Violations

One run states what the repository says and TLC refutes it for the code; the finding
in `PROJECT.json` quotes the text. `scheduler_latest` checks `GapReplayed` for the
default policy: `run_latest` moves the watermark to the next fire, which is then never
enqueued.

Further disagreements are found by changing a constant of a run and checking the
property named. They mark where the assumptions of the passing runs and of the
theorems are needed.

| Configuration, changed | Property | What happens |
|---|---|---|
| QueueCrash, `Spec`, one ticket, `NoOverlap = {1}`, no faults | `EveryClaimStaysQueued` | a no_overlap ticket that is running is deleted as "skipped" because of its own lock, and lost if its node dies (claim.go:42); README.md:75 has "the ticket never left the queue" |
| SchedulerReplay, `Spec`, `Faults = {"expire"}` | `EnqueuedOnce` | a leader whose lease is lost enqueues a fire again that was worked off, and puts the watermark back (queue.go:69); README.md:79 has of it "it cannot commit anything" |
| QueueCrash, `Spec`, `Faults = {"expire"}` | `ClaimsRideALease` | while the claim session is replaced, a claim is put without a lease and outlives its node (claim.go:64) |
| QueueCrash, `Spec`, one node, one ticket, `MaxConcurrent = 2`, `Faults = {"expire"}` | `LiveRunKeepsClaim` | a node that claims a ticket again completes it with its first execution (queue.go:140) |
| QueueCrash, one ticket, `Faults = {"rpc"}` | `EveryFireResolved` | a completion that fails is never retried and the claim never expires (worker.go:120) |
| QueueOverlap, `Spec`, the property for no_overlap tickets too | `NoTicketComesBack` | a no_overlap ticket that was deleted as "skipped" while it ran is put back when its run fails (queue.go:177) |
| QueueCrash, `Spec`, one ticket, `Sweepers = {n1}`, no faults | `OneReportPerAttempt` | `Abandon` puts its result over that of a failed attempt (queue.go:208) |
| Election, `Spec`, `Faults = {"expire"}` | `OneLeader` | a leader whose lease has expired has not noticed yet (election.go:39) |
| SchedulerReplay, `Spec`, `Faults = {"rpc"}` | `GapReplayed` | `run_all` moves past a fire whose enqueue failed (catchup.go:94) |
| SchedulerReplay, `Spec`, no faults | `FirstFireReplayed` | the fire a new job is armed with is never enqueued (catchup.go:34) |
| CronNext, `Offset = 2`, `Expr <- Seconds` | `NoFireSkipped` | hours are cut in UTC, so zones half an hour off lose fires with six fields (schedule.go:20) |
| CronNext, `Expr <- SteppedStar` | `FoundIsAFire` | `*/2` as day of month does not restrict the day (schedule.go:51) |
| CronNext, `Expr <- LeapDay`, `From <- LeapDays`, `Offset = 0`, `FourYears = 144`, `Count = 1` | `NoneWithinFourYears` | from a leap day the next one is just out of reach (schedule.go:14) |
| HistoryMirror, `Spec`, two nodes, one key, no collector, `Faults = {"watch"}` | `StoresAgree` | two nodes keep different results of an overwritten run, if one of them did not watch when it was first put (store.go:71) |
| HistoryMirror, `Spec` | `ReapsOnlyOld` | a result put again after the collector has read the key is deleted unread (gc.go:50) |
| Fleet, `Faults = {"docker"}` | `NodeIdNamesOne` | `AddNode` takes a list that fails for "no such node" and makes a second node1 beside the one of the compose file (docker.go:242) |
| Fleet, `Asked <- Dashed` | `NodeIdNamesOne` | after "a-node1" was added, kill and start of "node1" may reach it (docker.go:218) |
| Fleet | `NodesDiffer` | the ID chosen for a new container is that of a node without one, which the member list did not show: `nextNodeID` goes on after an error (nodes.go:84), and the node may register later; an add with that ID succeeds as well |
| Fleet | `KilledStaysDown` | an added node that has no socket serves a kill of itself by leaving (nodes.go:149), and Docker restarts it |

Remarks without a run: the policy `skip` skips every fire, also those on time; the
configuration value `catch_up` is read but used by no other package; a node that
is down longer than the retention of one hour never sees the results of that time;
a command whose children keep its pipes open outlives its timeout, with its claim and
its slot (`EveryRunEnds` excepts it); a command that ended well is reported as a
timeout if the time is over when `Run` looks (executor.go:51); an execution that starts
when `Wait` has returned is cut off, and a claim in flight at the signal ends in a
panic instead of a drain (`late` and `ClaimPanic` of Process); `Close` waits for the
lock of a session that is being opened, which takes as long as etcd is out of reach
(session.go:141); a start that fails leaves a container behind that blocks its ID for
adds but can be started; README.md:44 has "it stays down" of a killed node and, in
parentheses, "graceful self-leave without socket": it is the latter that comes back.

## 4. The proofs

Each theorem holds for every set of nodes, tickets, jobs, clients and keys, and for any
`MaxRetries`, page sizes and bounds. The hypotheses of a theorem, where it has any, are
those that the table of disagreements above shows to be needed, or the scope of an
abstract specification (`OnlyKills`), or are marked as ours. A named hypothesis stands
before the theorem that uses it.
The remaining assumptions are the named `ASSUME`s of the modules, which TLC evaluates in
every run. The inductive invariants, and the properties below that no run lists, were
also checked by TLC on the instances of the runs.

**Queue** (`QueueProofs`)

* `TypeCorrect`: Queue keeps its types. One case per action.
* `FiresAreKept`, `ClaimsAreQueued`: `NoLostFire` and `ClaimedStaysQueued` under *every*
  fault. Not inductive alone: that `SkipStale` never removes a plain ticket needs
  `SkipsNoOverlap` (a loop at "overlap" or "skip" visits a no_overlap ticket), and
  that `Abandon` does not needs its comparison. The invariant is `KeepsInv`.
* `TicketsAreNotRevived`: `NoTicketComesBack` under every fault, from `KeepsInv`: what a
  late or repeated report compares is a claim, and a claimed ticket is queued. The table
  shows why no_overlap tickets are left out.
* `RunsAreExclusive`, `JobsDoNotOverlap`, `RunsKeepTheirClaim`, `LocksAreNotLeftBehind`:
  without "expire", `NoConcurrentRuns`, `NoOverlappingRuns`, `LiveRunKeepsClaim` and
  `LockHasClaim`, whatever processes die and calls fail. The invariant `ExclusionInv`
  adds that a running node's session is live (`SessionsLive`), a claim being built names
  that session for both keys (`BuildsCurrent`), and every execution holds its claim and
  lock under the session its node has now (`RunsOwn`).
* `ClaimsRide`: `ClaimsRideALease` under the same condition, inductive given `ExclusionInv`,
  also for claims that were committed although the call failed.
* `QueueImplementsDelivery`: `ImplementsDelivery` if processes die and nothing else fails
  (`OnlyKills`: plain tickets, no sweep, no fault but "crash"). `StepEffect` first
  reduces every step to one of six effects: nothing visible, a fire, a take, a death, the
  end of a ticket, a failed attempt; where calls fail there are two more, a report that
  is lost and a take whose node dies before it knows, which Delivery does not allow. For
  a take this needs `RevInv`: a node that has read the current revision of a ticket has
  read its current attempt. Each effect is then one step of Delivery, given that an
  execution in flight carries the attempt in the queue (`RunsQueued`).
* `ResultsAreNotOverwritten`: `OneReportPerAttempt` for plain tickets without a sweep as
  long as no running node loses its lease (`LeasesHold`), whatever calls fail, committed
  or not, and for tickets that fire once (`MaxFires = 1`: attempts start again at 0 when
  a key is enqueued anew, and its results then go over the old ones). `ResultsSpent` adds
  that a reported attempt lies behind the queue and behind every execution in flight.

**Election** (`ElectionProofs`)

* `ElectionTypeCorrect` and `LeaderHoldsKey`: `FlagBacked` under every
  fault. `LeadInv` carries the claim back to the campaign: from the moment it is won
  the key is the node's for as long as its lease is live, the flag is up only in the
  state "lead", and a process that is down is at the top of its loop.
* `ElectionImplementsLeadership`: `ImplementsLeadership` under every
  fault, by one lemma per kind of step: a put of the free key is `Win`, learned of
  or not; giving up the office is `Lower`; an expiry is `Vacate` or invisible, and
  it takes the key from a winner only under "expire".
* `LeaderIsUnique`: `OneLeader`, if no running node loses its lease.
  `SessionsLive` adds to `LeadInv` that a node past the creation of its session then
  has its lease, so both keys of two leaders would be the one key.

**Scheduler** (`SchedulerProofs`), on top of Leadership, which the election implements

* `SchedulerTypeCorrect`, under every fault. It rests on what `NextAfter` and the
  catch-up loop return (`NextAfterIs`, `DueFiresAre`, `ArmIs`, `CatchUpIs`, `RunAllIs`):
  the least fire after an instant exists as long as the schedule reaches past the
  horizon.
* `FiresAreEnqueuedOnce`, `WatermarksAdvance`: `EnqueuedOnce` and `WatermarkAdvances`
  without "expire", for all policies, edits and deletions, failing writes and deaths in the
  middle of a tick. `OnceInv`: only the holder of the key is in a tick
  (`OneLeader`); nothing is enqueued before its time (`EnqueuedIsPast`); a watermark
  covers what was enqueued (`WatermarkCovers`); and the writes a tick has still to make
  lie ahead of watermark and enqueued fires, each ahead of those before (`PlansAhead`).
  `EnqueuedIsPast` is what the deletion of a job needs: its watermark goes, and the job
  made anew is armed after the clock.
* `GapsOfJobsAreReplayed`, `GapsAreReplayed`: if no write fails, a job with `run_all` whose
  schedule is not edited loses no fire behind its watermark, with stale leaders, deletions
  and deaths in the middle of a plan; and `GapReplayed` if every job is such a job, each
  with a schedule of its own. The first says it of any set of jobs and leaves the others
  open. Here two ticks may interleave, so nothing lies ahead of anything; instead `GapInv`
  says that every fire between the one a job was armed with and its watermark was
  enqueued, that a plan leaves no gap before any of its writes, and that what a tick has
  read of the job has its schedule too (`TicksRunAll`). That the schedule is not edited
  (`JobsRunAll`) is our hypothesis: after an edit the fires of the two schedules are not
  those of either.

**Cron** (`CronProofs`), for every length of minutes, hours, days, months and weeks, every
assignment of months and weekdays to days, and every expression

* `CronTypeCorrect`. `SearchEnds`: `SearchGoesOn`, by which a search has as many rounds as
  there are seconds up to its limit at most.
* `FoundFires`: `FoundIsAFire`, if no day field starts with a stepped star (`PlainStars`)
  and the zone of an expression without seconds is off by whole minutes
  (`WholeMinuteZone`). The bits that `ParseField` sets are the values that the field
  denotes (`FieldBits`, `WrappedBits`; this is where `Item` matters), so that on an instant
  `Matches` and `Fires` agree, the day rules included (`FireMatches`, `MatchFires`);
  `SearchInv` adds that a search without seconds stays on whole minutes.
* `NoFireIsSkipped`: `NoFireSkipped` if, moreover, the zone of an expression with seconds is
  off by whole hours (`WholeHourZone`); stepped stars do no harm here. `SkipsNoFire`: the
  instants of one UTC hour, or minute, are then in one local hour, or minute, which the
  schedule lacks. `ListInv`: every fire up to `from` is listed and from there to `t` there
  is none.
* `NextIsLeast`: under all these conditions what `Next` returns is the least fire after
  `from` (`FoundIsNext`), which is how Scheduler defines `NextAfter`. `ListAscends`: the
  list holds fires only, in ascending order (`ListIsAscending`). `GivesUpRightly`: nothing
  fires before the limit of a search that gave up (`NoneBeforeLimit`); that a fire may lie
  at the limit is in the table.

The table shows `PlainStars` and `WholeHourZone` to be needed; in a zone that is not off
by whole minutes the search without seconds looks at the wrong instants. `Endless`, that
every number is a day, is ours: the calendar of the code does not end either, while TLC's
instances have one that is long enough for their searches. The proofs rest on lemmas on
quotients and remainders by a divisor that is not known (`DivMod`, `WholeUnits`,
`SameUnit`), which are proved from multiplication once and then cited instead of
arithmetic.

**Jobs** (`JobsProofs`)

* `JobsTypeCorrect`; `IdsStayUnique`: `IdsAreUnique` and `CounterCoversJobs`;
  `ContentionIsProgress`: `ContentionMeansProgress`. The invariant `CounterInv` adds that
  the counter is the number of IDs given out and covers them, and that it has
  moved, since a call started, by at least the number of the call's failed tries.

**Process** (`ProcessProofs`)

* `ProcessTypeCorrect`; `LimitHolds`: `RunsWithinLimit`. `Counts` ties `slots` and `wg` to
  the number of executions in certain stages, plus the one the loop is about to
  start; `LoopInv` says that a slot seen free before the claim is free after it, because
  only the loop takes one.
* `DrainIsKept`: `DrainKeepsPromise`. `DrainInv`: when `Wait` has returned in time every
  execution is over or late, and one that is past its report has put it or had it failed
  by etcd.

**History** (`HistoryProofs`)

* `HistoryTypeCorrect`; `MirrorHasNoGap`: `NoGap` under every fault, inductive with the
  types; the work is in the lemmas on appending to and taking from the events of a watch.
* `FirstResultsAreRecorded`: `FirstResultRecorded` under every fault, however often a key is
  put again. `FirstInv` adds that whatever a mirror has or will be told of was put, that
  one that does not watch has stored all it witnessed, and that a row read by a Get was
  not witnessed unless it was stored before.
* `WatchingStoresAgree`: `WitnessesAgree`, that two stores agree on the runs whose first
  result both nodes watched for. Without that they may not: `StoresAgree` in the table.

**Fleet** (`FleetProofs`)

* `FleetTypeCorrect`, with `IdGiven`: a handler that checks or creates has its ID.
* `NodeIdsNameOne`: `NodeIdNamesOne` if no ID ends in a dash and another ID and the list is
  complete (`IdsTellApart`, both needed by the table), whatever requests race and whatever
  member lists IDs are counted from. `NamesInv`: an added container is named like its
  node, and that ID names none of the compose file's.

**Only model-checked.** All liveness, fairness being out of the prover's reach:
`EveryFireResolved`, `LeaderElected`, `KnownConverges`, `MembersConverge`, `CatchesUp`,
`EveryRunRecorded`, `LeaveEnds`, `EveryRunEnds`. Every invariant and every action property
that a run checks is also proved.

## 5. Not modelled

The handlers that only read (`status`, `listNodes`, `jobRuns`, metrics, health) and the
queries of the store behind them; the job handlers beyond the repository calls they
make; the web console; configuration (read once and clamped); `validate` and the
decoding of values; the output of commands; daylight saving; the order of Docker's
lists; and, in Process, an etcd that stays out of reach while a session is opened.

## 6. Plan

Order of work: the queue first, since it carries the promises of the project, then
the election, the scheduler on top of it, then cron, history and jobs, then the
process and the fleet around them. Done: all of the modules above, and theorems about
all of them. Next:

1. Compose Scheduler and Queue for one job, to state end to end that a due fire
   leads to a result.
2. Queue: `OneReportPerAttempt` for tickets enqueued anew, where the fire has to be part
   of what is reported.
3. Cron: zones whose offset changes.
