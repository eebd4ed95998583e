# TLA+ models of the Mutual Cloud prototype

These modules model how jobs are leased, executed, advertised and recovered in
this repository: the lease table in PostgreSQL, the agents that execute jobs
under leases, the control server's handlers and loops, the DHT records through
which agents find work, and the transfer of inputs. TLC checks small instances;
TLAPS proves the main safety properties for every value of the constants.

## The system

| Part | Source | Model |
|---|---|---|
| Lease store: one row per job, one SQL statement per operation | `internal/lease/pg_store.go`, `configs/schema.sql` | `LeaseStore`, abstract promise `JobLease` |
| Agent execution: claim, wait for manifest, heartbeat goroutine, container, report with retries | `cmd/agent/main.go`, `pkg/agent/{claim,finish_client,wait_manifest,runner}.go` | `Execution`; the heartbeat's clockwork in `LeaseTiming` |
| Agent discovery: index scan, state, ad, mirror | `pkg/agent/discover.go` | `TaskIndex` (scan), `ControlPlane` (the rest) |
| Control HTTP handlers | `cmd/control/control_http.go` | database part in `Execution`, database and DHT steps in `ControlPlane` |
| Control loops: requeue, reannounce, restore, `--create` | `cmd/control/main.go` | `Execution` (requeue), `ControlPlane` (all) |
| Announce manager | `cmd/control/main.go` | `AnnounceManager`; what it writes in `ControlPlane` |
| Sharded task index | `internal/task/index_sharded.go`, `addToIndex` | `TaskIndex` |
| DHT node | `internal/dht/{json,node}.go` | `DhtNode`; `PutJSONCAS` in `DhtLease` |
| DHT lease library | `internal/task/claim.go` | `DhtLease` |
| Input transfer and seeder | `pkg/agent/fetch.go`, `pkg/seeder/seed_handler.go` | `InputTransfer` |
| Heartbeat helper | `internal/heartbeat` | not modelled: unused |

The database arbitrates: a claim is an `UPDATE ... WHERE status = 'queued'` that
increments the row's `lease_token`. An agent renews its lease by heartbeats that
carry the token and reports its outcome with it. The requeue loop gives the jobs
of expired leases back. The DHT mirrors what agents need for finding a job; the
control server writes it after the database, record by record, without
transactions. An agent scans the index, reads a job's state, ad and manifest
mirror, claims it, fetches its input from a seeder and runs its container.

## Modules

**`JobLease`** is what the lease store promises: a job has at most one holder,
every acquisition opens a new epoch, a lease changes hands only by lapsing, a
completed job is not leased again.

**`LeaseStore`** has the table as `rows` and one action per writing method of
`PGStore`. Each method is one statement on one row, hence atomic. The WHERE
clauses are operators of their own (`Claimable`, `Renewable`, `Finishable`,
`Expirable`). Callers are arbitrary, so what holds here holds for any client.
Time is relative: `expires` is the number of seconds until `lease_expires_at`, and
`Tick` is PostgreSQL's clock. No other clock decides anything about a lease.
Result columns are abstracted to who wrote them.

**`Execution`** adds the agents and the requeue loop. `ag[a].pc` follows
`onCandidate`: `claiming`, `waiting` (in `WaitForManifest`, before any heartbeat),
`preparing`, `running`, `reporting`, `awaiting`; `beating` is the heartbeat
goroutine, which outlives its usefulness exactly as in the code. Requests are
added to `sent` and never removed: the server may execute each one late, several
times or never, and an answer is delivered only to a caller still waiting. Such a
network does more than TCP does, so the safety results carry over. What handlers
write to the DHT does not influence the database, it decides only when an agent
tries a job; here an idle agent may try any job at any time. `listed` is the list
the requeue loop works through after reading it. `grants` is history.

**`LeaseTiming`** is one lease and one heartbeat goroutine with a clock of half
seconds: `Corrected` is what `main` makes of the two flags, `TtlOrDefault` what
the server makes of the requested duration. It starts when the goroutine does,
up to `Wait` after the grant (the answer to the claim, then `WaitForManifest`). A
heartbeat takes any time up to `Timeout` of the HTTP client (`flight`); the server
renews the lease at some moment of it, or after the client has given up (`stray`).
A tick that comes meanwhile waits in the ticker's channel, a second one is dropped.
The requeue loop may take the lease once it has expired, and a heartbeat before
that revives it, as the statement does. `late` and `worst` are history, what was
spent before the first renewal and the slowest heartbeat; the properties put them
in their conditions. Flags of zero or less are excluded by an assumption, because
`time.NewTicker` panics on them.

**`ControlPlane`** adds the DHT and the order of writes. Each handler or loop is
a process with its database statement and a list `todo` of DHT puts, done one per
step and interleaved with those of all others. A put of `NULL` or `FALSE` is
`DelJSON`, which writes a tombstone that readers take as missing or expired.
`AnnounceOnce` reads the manifest when it starts and puts a placeholder later.
Agents read the state first and claim later; so does `releaseHandler`, which reads
the state after deleting the lease (`ReleaseState`) and leaves it if the read fails.
A statement of a handler that fails
with a database error, or is cancelled with its request, has no effect and is not
modelled here; in `Execution` it is a request that is never executed.
`ControlRestart` drops all processes and `dirty`, and may wipe the DHT, whose
records are in memory; `RestoreJob` is `restoreJobsFromDemand`, during which
nothing is served, and `RestoreListFails` its early return. The DHT is kinder
than the real one (a get returns the last put, and at most `MaxLost` calls fail),
so the violations below do not depend on DHT anomalies; the properties that hold
do assume it, and `DhtNode` says when the assumption is right.

**`AnnounceManager`** is the manager with its lock, trigger channel, ticker and
per-id interval. `Mark` and `Signal` are the two halves of `Enqueue`; `Select`
takes a channel and collects the batch; `AnnounceOnce`, `Stamp`, `PutAd` and
`Record` are one announcement, whose DHT calls together take at most `Delay`. Time
passes only where `Run` waits. `ad[id]` is the time the advertisement has to go.

**`TaskIndex`** is `addToIndex`: `GetShard` reads a shard drawn at random,
`PutShard` writes it back with the id, and any number of handlers do so at a time.
`Restart` may wipe the shards, `RestoreJob` indexes the queued jobs again. `scan`
is one agent's `ListFromIndex`, which skips a shard it cannot read. `clean` is history: whether one of the known ways
to lose an id has occurred.

**`DhtNode`** is one key under `PutJSON`, `DelJSON` and `GetJSON`, which the control
server's handlers and loops (`Callers`) call concurrently: a put writes the node's
own record, looks for servers, sends to them or ends in `localStore`, and a deletion
then empties `localStore`, each in a step of its own. The n-th put to reach the own
record writes n, so that older is smaller. `store` holds each node's record, `fallback`
the control process's `localStore`; a reader prefers its own record, then any
server's, and sends corrections (`fix`) to the servers that differ, because the
validator calls the first record the best. Kademlia itself is external. Calls that
overlap may leave either value in `localStore`: a slow put may store its value after
a newer one, or after a `DelJSON` has emptied it. The properties therefore compare
with calls that had returned when the other one began (`past`, `superseded`,
`forgotten`).

**`DhtLease`** is `Claim`, `Heartbeat` and `Release` over `PutJSONCAS`: `Get`, the
check, `Put`, `Verify`, each a step, up to `Attempts` rounds, with DHT calls that
fail, that fail after taking effect, or that end in `localStore`. The program does
not call this library; it is modelled because it is the alternative arbiter.

**`InputTransfer`** is one agent's `FetchAny` for one job, against seeders that may
not have the file, may fail half way, or may be unreachable. The files are the
`.part` file, the file named after the root, and `input`, a link or a copy; they
stay for the next execution of the job (`Again`), which may have another manifest.
Writing and renaming may fail (`WriteFails`), which goes on to the next provider. The
error of removing the old `input` is ignored: `InputStuck` is what the link and the
copy may then do, and `stuck` remembers that it happened.

The `*Proofs` modules hold the proofs, the `MC*` modules the instances. Operators
whose names say how they differ from the next definition (`FinishableAnyToken`,
`ServingEarly`, `OpenAppending`, ...) are deliberate faults: each property is known
to fail when its fault is put in.

## Runs

| Run | Properties | What it shows |
|---|---|---|
| `execution` | `TypeOK`, `LeaseShape`, `RetryCountsLostLeases`, `NoSharedToken`, `ResultFromLatestLease`, `LapseOnlyExpired`, `OutcomeIsFinal`, `ImplementsJobLease` | whatever is delayed, repeated or lost, the lease columns stay consistent, the table implements `JobLease`, and fencing works in the database |
| `lease_timing` | `TypeOK`, `RenewedInTime`, `CorrectionSuffices` | n failures are survived if n + 1 intervals, or slowest heartbeats, and one heartbeat fit into the lease; for every pair of flags the corrected interval keeps it while heartbeats are prompt and do not fail |
| `control_requests` | `TypeOK`, `WorkUnderOwnLease`, `ClaimFindsJob`, `RestoreRepublishes`, `FinishedStaysFinished` | duplicate creates, forced requeues, abandoned calls and interleaved handlers do not revive a job or share a lease, agents ask only for jobs the database has, and a restart repairs every half-done publication |
| `control_advertised` | `QueuedIsAdvertised` | every queued job gets advertised or claimed (liveness), through one failing call, a release and a restart that may wipe the DHT |
| `announce` | `TypeOK`, `AdNeverLapses`, `RateLimit`, `EnqueuedIsAnnounced` | at most one announcement per interval and id; no `Enqueue` is lost (liveness); ads are renewed in time up to a number of ids |
| `task_index` | `TypeOK`, `LostOnlyByRace`, `ScanSeesSteady`, `RestoreReindexes` | ids leave the index only in three known ways; a scan misses nothing that stays; a restart indexes every queued job |
| `dht_node` | `NodeTypeOK`, `SoleServerFresh`, `FallbackForgets` | with concurrent puts and deletions, no get returns what a later call has replaced while the control server is the only DHT server, and `localStore` never returns what a later `DelJSON` has deleted |
| `dht_lease` | `TypeOK`, `SerialClaimsExclude`, `VersionFences`, `SerialIsCompareAndSet`, `CallReturns` | calls that do not overlap exclude each other, fence and replace only what their check allows; overlapping ones still return (liveness) |
| `input_transfer` | `TypeOK`, `FetchSound`, `NoStaleInput`, `FetchEnds` | a fetch leaves what one seeder sent, under the right names, and ends unless a seeder holds its stream open for ever (liveness) |

Three runs show where the code and what the repository says of it differ:

| Run | Property | The repository says | The code does |
|---|---|---|---|
| `one_executor` | `AtMostOneExecutor` | README:149 "At-most-one active executor per task via lease arbitration." | the lease is not renewed during `WaitForManifest` (15 s for every job without providers, as long as the default lease), and a container is not stopped when heartbeats fail; the *outcome* is still recorded only once |
| `stale_outcome` | `OutcomeShownIsReal` | README:55 "Fencing tokens prevent stale or duplicated executors from completing old work." | `Finish` does not report that its UPDATE matched nothing; the handler publishes the refused outcome in the DHT |
| `requeued_job_lost` | `QueuedIsDiscoverable` | README:60 "Expired tasks are re-queued and become discoverable again." | a claim's late DHT write of `assigned` overwrites the requeue loop's `queued`, and stays until a restart, a forced requeue, a repeated create request or a release |

A stale finish also makes a requeued job undiscoverable, without any race: two
leases lapse, the job is queued, the first agent's report is refused by the
database and published in the DHT.

### Further configurations

`MCLeaseStore.cfg` checks the store by itself with two jobs and passes. The
others state something stronger than what holds, and TLC shows why it does not;
they explain the conditions in the properties above.

| Configuration | Property | Counterexample |
|---|---|---|
| `MCExecutionGrace` | `RequeueAfterGrace` (`cmd/control/main.go:206` "Only requeue tasks whose leases expired at least 3 seconds ago") | `ListExpiredLeases` ignores its cutoff |
| `MCLeaseTimingLong` | `HeartbeatsKeepLease` | a duration above the server's maximum is replaced by the default, which the interval does not fit |
| `MCLeaseTimingSlow` | `SlowHeartbeatsKeepLease` | the correction leaves one second; a heartbeat that takes longer renews the lease after it has expired |
| `MCControlPlaneStartup` | `QueuedIsDiscoverable` (README:190 "`--create` to create tasks at startup") | such jobs are only in the old index, which agents do not read |
| `MCControlPlaneWiped` | `QueuedIsDiscoverable` | a job leased during a restart that wipes the DHT is not indexed again when it is requeued |
| `MCControlPlaneNilLease` | `ClaimHasLease` | after `ErrNoManifest` the handler goes on and dereferences the lease it did not get |
| `MCControlPlanePlaceholder` | `PlaceholderOnlyIfMissing` (`cmd/control/main.go:58` "If not found, create a placeholder and write it to DHT") | a manifest posted between the look and the write is replaced |
| `MCControlPlaneLease` | `FinishedHasNoLease` | a heartbeat's record is written after the finish deleted it |
| `MCTaskIndexRace` | `AckedIsIndexed` | two creates draw the same shard; the second put drops the first id |
| `MCTaskIndexShards` | `OneShardPerJob` | after a restart the job is put into a second shard |
| `MCDhtLeaseClaim` | `ClaimPreemptsOnlyExpired` | two claims read the free record; the second replaces a confirmed lease |
| `MCDhtLeaseHeartbeat` | `HeartbeatOnlyByOwner` | a heartbeat puts what it checked before another peer's claim |
| `MCInputTransferWhole` | `FetchedIsWhole` | a seeder without the file closes the stream, which reads as the end of an empty file |
| `MCInputTransferHang` | `FetchAlwaysEnds` | `io.Copy` has no deadline: a seeder that holds the stream open holds the agent |

### Bounds

`execution`: one job, two agents, three tokens, so that a report can be overtaken
by a later claim that itself is lost; one failed heartbeat ends the goroutine and
a finish is tried twice (the code: 3 and 20; the proofs are for any numbers).
`MCLeaseStore` has two jobs, for what a statement must leave alone.

`lease_timing`: flags from 1 to 8 seconds against a maximum of 7 and a default of
2 (the code: 3600 and 15), so that both sides of every comparison occur; heartbeats
of up to 1.5 seconds, longer than the shortest intervals, and up to 2 seconds before
the first (the code: 5 and 19). Three failures end the goroutine, as in the code.

`ControlPlane` runs: one job, one or two agents, one request in service, leases
that expire at the next tick, one or two tokens, and the number of client
requests, failed calls, timeouts, restarts and crashes each configuration names.
`MaxToken` bounds claims; a claim beyond it waits for ever, which no property
depends on. The proofs have no such bounds.

`announce`: two ids, one caller with two calls per unit of time, an interval of 2,
announcements that take up to 1, and a lifetime of exactly `RenewalBound`, 6, the
shortest one that `AdNeverLapses` speaks of. With the code's 3 and 30 seconds, and one second per announcement, the
bound allows 14 ids; `dirty` never shrinks, so a server reaches it.

`task_index`: two jobs, two shards, two handlers and the restore, one fault, one
restart. `dht_node`: two agents, one of which may serve, two callers, three puts. `dht_lease`:
two peers, two rounds (the code: 5), four calls, one fault. `input_transfer`: two
providers, files of two chunks, one root named like the link `input`, two
executions.

Symmetry is used for agents, threads or jobs in the runs without liveness.

### Fairness

All of it is weak fairness, of steps the runtime takes by itself.
`control_advertised`, `requeued_job_lost` and the configurations of
`QueuedIsDiscoverable`: goroutines that can move do (`ProcStep`, `ThreadStep`),
tickers fire (`LoopStep`, `Announce`, `ReannounceQueued`), agents poll and their
containers end (`AgentStep`), time passes. `announce`: `Run` goes on, because its
DHT calls have timeouts, an `Enqueue` under way ends, and time passes.
`dht_lease`: a call under way goes on, for the same reason. `input_transfer`: the
agent's goroutine goes on; nothing is assumed of seeders, and `FetchEnds` has the
stream that stays open for ever as its alternative. Clients, crashes, restarts, timeouts and failures have no fairness.

## What is proved

Every invariant and action property that a passing run checks is a theorem, for all
sets of jobs, agents, threads, peers, shards and providers, all durations and all
bounds, from the named assumptions of the modules: durations are natural numbers,
retry limits, sizes and shard counts are positive, `NULL` and the names of the
control server's own goroutines are not among the sets, the ids given to the
announcer are finitely many, and flags are at least one second.

`LeaseStoreProofs`: `StoreTypeCorrect`; `LeaseShapeHolds` and `RetryCountHolds`
from the inductive `StoreInv` (types, lease shape, retry count: the retry bound
needs the shape to know that a requeued row had a lease to lose); `LapseHolds`;
and `Refinement`, by showing that a step changes one row, and that row in one of
four ways (kept, granted, lapsed, finished), each a `JobLease` step or a stutter.

`ExecutionProofs`: `ImplementsStore` (every step is a statement or leaves the table
alone), from which the store's theorems carry over (`RequeueSafe`,
`OwnershipHolds`); and `TypeCorrect`, `NoSharedTokenHolds`, `ResultFromLatestHolds`,
`OutcomeIsFinalHolds` from the inductive `ExecInv`. None of these properties is
inductive by itself. `ExecInv` adds the lineage of tokens: every token an agent or
a request carries was granted to that agent, a token is granted once per job and
never exceeds the row's, the row's holder has the row's token, and all reports
under one token agree on the outcome. The last point is what makes a repeated
finish harmless although the statement tests neither status nor holder.

`ControlPlaneProofs`: `ControlImplementsStore`, with the store's theorems it brings
(`ControlOwnershipHolds`, `ControlRequeueSafe`), `ControlTypeCorrect`,
`WorkUnderOwnLeaseHolds`, `FinishedStaysFinishedHolds`, `RestoreRepublishesHolds` and
`ClaimFindsJobHolds`. `ControlInv` follows a token on its way from the row to
the agent: it is with the handler that was granted it (`Carries`) or with the
agent that was answered (`Holds`), is at most the row's token, and no two places
have the same one. Only `ServeClaim` and `ClaimEnds` move a token; every other
step is shown to be quiet, one lemma per kind of process. A finished job stays
finished because `StoreInv` leaves it without holder, so that no statement but
`Finish` matches. For the restore, `RestoreInv` says that while the server is down
only main and the announcer move, that what main has still to put is due on its
job's record, and that every queued job is either still to be restored or
published and dirty. For the claims, `FoundInv` follows an id from the table to the
goroutine that publishes it, the index, the agent that found it and the handler of
its call: each of them has only ids of rows, rows are never deleted, and only
`createTaskHandler` and the restore put the index.

`LeaseTimingProofs`: `TimingTypeCorrect`, `RenewedInTimeHolds`,
`CorrectionSufficesHolds`. `TimingInv` bounds the age of the lease (`SinceRenewal`) by
what was spent at the start, the failed beats and the position in the current
interval or heartbeat. Beats are at most a `Period` apart, the interval or the slowest
heartbeat so far, which needs the invariant that a heartbeat is no older than the
ticks since it began. `CorrectedFits` is the arithmetic of the correction.

`AnnounceManagerProofs`: `TypeCorrect`; `RateLimitHolds`, because an id that was due
when its batch was collected stays due until it is announced: only its own `Record`
resets it, and a recorded id is no longer in the batch; and `AdNeverLapsesHolds`.
For the last, `RenewalInv` says how long the ad of every id has at least to go,
depending on where the id is: being announced (the rest of its own announcement),
in the batch (the rest of the round, `Work`), announced but not recorded, due and
waiting for the next round, or not yet due (the rest of the interval, and then
`Wait`). Each step of time takes one from both sides. That `RenewalBound` covers the
largest of these is the arithmetic of `BoundCovers`; the number of ids enters through
the cardinality of the batch, not through an induction.

`TaskIndexProofs`: `TypeCorrect`, `LostOnlyByRaceHolds` (while `clean`, a goroutine
about to write a shard has seen all of it), `RestoreReindexesHolds` (what the restore
listed is to be restored, under way or indexed) and `ScanSeesSteadyHolds` (what has
been steady in a scanned shard is in the result).

`DhtProofs`, about `DhtNode`: `NodeTypeCorrect`, `SoleServerFreshHolds`,
`FallbackForgetsHolds` from `NodeInv`: a put under way is not among those reported as
done and no other caller writes its value, so that what it stores cannot have been
superseded (`UnderWay`); and while the control server is alone it has the latest
record, no other node has one, and no correction or put is on its way (`Alone`).
About `DhtLease`: `LeaseTypeCorrect` from `CallInv` (a heartbeat or
release acts under the nonce its peer holds, and what a claim or heartbeat is about
to put names its peer), and `SerialClaimsExcludeHolds`, `VersionFencesHolds`,
`SerialIsCompareAndSetHolds` from `SerialInv`: while calls are serial, a peer about to
put is the only one and the record is still the one it checked (`Current`), and a
peer that believes to hold a lease is the owner on record, for at least as long as it
believes (`Backed`). Exclusion alone is not inductive: it rests on the check of a
claim that has not put yet.

`InputTransferProofs`: `TransferTypeCorrect`, `FetchSoundHolds`, `NoStaleInputHolds`.
The invariant says that while a stream is read the `.part` file is the prefix of the
root received on this stream, which is the whole file if the seeder ended it without
giving up; the lemmas are about prefixes (appending the next chunk, a copy that stops
early, what a copy through a link left in place may write).

Checked by TLC only: liveness (`QueuedIsAdvertised`, `EnqueuedIsAnnounced`,
`CallReturns`, `FetchEnds`), which needs fairness and ENABLED and is beyond the prover.

## Not modelled

`snapshotLoop`, `ListManifestMissingSince`, `agentManifestHandler`,
`internal/heartbeat`, `Node.Put`, `Node.Get` and `HTTPClaimClient.Release` are not
used by the program. Interface detection, bootstrapping and connecting of a DHT
node are set-up. Read-only handlers, the token `logsHandler` puts under a key that
nothing reads, authentication, the validation of request
bodies other than providers, logging and the container's work are outside: their
outcome is a choice (`PrepareFails`, `StartContainer`, `ContainerEnds`). `maxRetry` is
declared and never used, so there is no bound on requeues to state.

The components are composed where they share state that a property is about:
table and agents in `Execution`, table, DHT records, announcer and agents in
`ControlPlane`. The index, the announcer's clock, the DHT's replication and the
transfer are separate modules, because each meets the others through a single
record, and the product is beyond TLC.
