# A TLA+ verification project for the distributed key-value store

The store is a Dynamo-style replicated key-value store in Go: every node keeps
its keys in an LSM storage engine, versions carry vector clocks, a write goes to
a quorum of replicas, and hints, anti-entropy and handoff bring replicas
together. A Kubernetes operator grows, shrinks and rolls out clusters.

This project models these parts, checks them with TLC on small instances, and
proves the main safety properties with TLAPS for every value of the constants.
Everything lies in this directory: modules (`*.tla`), configurations (`*.cfg`)
and `PROJECT.json`, which maps every definition to the lines it models and lists
the runs, the mutants that each property catches, the hazards and the theorems.

## The system's parts

| Part | Code (`src/internal` unless said) | State | Who changes it | Module |
|---|---|---|---|---|
| vector clocks | `vectorclock` | a clock | pure | `Versioning` |
| sibling resolution | `versioning`, `model` | a list of versions | pure | `Versioning`, `SiblingLists` |
| write-ahead log | `storage/wal` | segments | committer, flush, Open | `WalLog` |
| manifest | `storage/manifest` | lines, live set | flush, compaction, Open | `Manifest` |
| storage engine, memtable, SSTables, compaction | `storage/engine`, `memtable`, `sstable`, `compaction` | memtables, files, the write queue | writers, committer, flush, compaction, Close, Open | `StorageEngine` |
| data store, identity | `store`, `identity` | versions of a key, incarnation | coordinator, rpc, repair | `DataStore` |
| hints | `hints` | hint and marker records | drains, delivery | `HintStore` |
| quorum coordination, rpc | `node/coordinate.go`, `rpc` | writes and reads in flight | one goroutine per request, drains | `Replication` |
| hint delivery, anti-entropy | `node/hintdelivery.go`, `antientropy.go` | - | their loops | `ReplicaRepair` |
| Merkle trees | `merkle` | a tree | pure | `MerkleTree` |
| hash ring | `hashring` | ring | pure after construction | `HashRing` |
| membership, heartbeats | `node/membership.go`, `view.go`, `heartbeat.go`, `peers.go` | view, peer epochs, MEMBERSHIP file | operator calls, pings, adoption | `Membership` |
| handoff and drain | `node/handoff.go` | base, target, HANDOFF file | handoff goroutines | `Handoff` |
| operator | `src/operator/internal/planner`, `controller` | ConfigMap, StatefulSet, pods, volumes | reconciles, Kubernetes, users | `Planner` |
| chaos tooling, telemetry | `chaos`, `telemetry` | - | - | not modelled |

How they interact. A `Put` enters at a node, which coordinates it if it is in the
key's preference list (from its ring, from its view) and forwards it otherwise.
The coordinator writes to its own data store, on its own engine, replicates to
the other replicas over rpc, and answers after W of them; a failure is rolled
back with Restore, an unreachable replica gets a hint. Hints and anti-entropy
run beside this. Views spread by heartbeats; a new one starts a handoff. The
operator drives views from outside and stops nodes that are drained.

The models compose along the same lines: `ReplicaRepair` EXTENDS `Replication`
EXTENDS `HintStore` EXTENDS `DataStore` EXTENDS `Versioning`; `StorageEngine`
EXTENDS `Versioning`, `WalLog` and `Manifest`; `Handoff` EXTENDS `Membership`.
Between these groups the lower one is abstracted to what the upper can tell
apart, as the module headers say: `DataStore` sees of the engine two layers (what
a Restore replaces, and what it cannot), `Handoff` sees of a key the set of writes
in a copy, `Planner` sees of a node its membership and the epoch it has handed
off to.

## The modules

`Versioning` - clocks, `Compare`, `Resolve`, `MergeSiblings` and the fold over
layers. A clock is a total function from clock ids to numbers (an absent entry
reads as 0 in `CompareSnapshots`). A sibling list is the set of its members.
`Covers(S, x)` says that S has x or a version that supersedes or equals it.

`SiblingLists`, `HashRing`, `MerkleTree` - the pure algorithms as the loops the
code runs, one iteration per step, to be compared with reference definitions.

`WalLog` - the segmented log. `wal` is the history of all records ever written,
each with its segment; `gone` is the highest unlinked segment. A torn batch leaves
a prefix of its records (`Replay` truncates what follows).

`Manifest` - the live set that replaying the file gives, and the torn tail it may
end in, classified by what appending to it would do.

### StorageEngine

| Variables | Code |
|---|---|
| `active`, `flushing`, `sealed`, `sstables` | `e.active`, `e.flushing`, `e.sealedSeq`, `e.sstables` |
| `queue`, `cpc`, `batch`, `errs`, `crossed`, `halted`, `mu` | `e.queue` and the locals of `runCommitter`, `commit`, `apply`; `e.haltErr`; `e.mu` held across a batch |
| `flpc`, `flid`, `deletes` | where `flush` is; what it still has to delete |
| `comp` | where `compactLocked` is, its run and its new id |
| `files`, `tick` | SSTable files, and the last time used as an id |
| `up`, `pos`, `closing` | the process: down, replaying, loading, up, failed to open; how much of the log memory reflects; `Close` has begun |
| `wr` | one caller each: what `putAsReplica` read, its Put, its Restore |

| Actions | Code |
|---|---|
| `Read`, `Put`, `Restore` | the calls of `putAsReplica`; refusal when halted or closing |
| `CommitWrite`, `CommitFail`, `CommitHalted`, `Apply`, `Swap` | `runCommitter`, `commit`, `apply`, `replaceAndVerify`, `swap` |
| `FlushWrite`, `FlushAdd`, `FlushInstall`, `FlushPutBack`, `FlushDelete` | `flush`, `writeAndRegister`, `PutBackOlder`, `DeleteThrough` |
| `CompactSelect`, `-Write`, `-Add`, `-Remove`, `-Swap`, `-Delete` | `compactLocked` |
| `CloseBegin`, `CloseEnd`, `Crash`, `Open`, `Replay`, `Load` | `Close`; a crash anywhere; `Open`, `loadLiveSSTables` |

The step boundaries are where another goroutine can run: between the WAL write
and the memtable, between the memtable and the rotation, and between any two
file operations of flush and compaction. `writeMu` is why commit's own steps
exclude each other, `e.mu` is `mu`, `compactMu` is the single `comp`. Any I/O
operation may fail, if `Faults` has its kind: WAL write, segment creation,
closing a sealed segment, SSTable write (before or after the rename), manifest
write (nothing written; written but not fsynced; torn), unlink; and a crash may
bring back unlinked segments, whose directory is not fsynced.

### Replication and ReplicaRepair

One key, its replicas, and clients that each read, write, or read and then write
once. `cl[c]` is the client's call, `co[c][n]` one call of `putAsReplica` at
replica n with the result of every replica it called. The values of versions are
the clients, so a value names its write.

| Actions | Code |
|---|---|
| `GetBegin`, `GetLatest`, `GetResponse`, `GetFailure` | `Node.Get`, `Server.GetVersions` |
| `PutBegin`, `PutStore`, `PutFails`, `PutHalts`, `Cancel` | the coordinator's own write and its context |
| `Replicate`, `Accepted`, `Unavailable`, `Refused`, `ReplicateHalts`, `Lost`, `Timeout`, `Arrives` | one replica's call and what may become of it |
| `Rollback`, `StoreHint` | `rollback`, `drainReplication` |
| `ForwardSend`, `-Skip`, `-Retry`, `-Return`, `-Lost` | `forwardPut` |
| `HintSend`, `HintMerge`, `HintMark`, `HintFails` | `deliverHintsTo`, `MarkDelivered` |
| `ReconcileBegin`, `-Fetch`, `-Pull`, `-Push`, `-Merge`, `-Fails` | `RunAntiEntropy`, `reconcileBucket` |
| `Crash`, `Close`, `CloseEnd`, `Restart`, `Replace`, `FlushStore` | the process, an empty disk under the same id, the engine's flush |

`past` and `undone` are history: what a write was built on, by what its client
had really read, and where a rollback removed a version.

### Membership and Handoff

| Variables | Code |
|---|---|
| `view`, `file`, `setting` | `n.membership`, the MEMBERSHIP file, the `setMembership` between its write and its publication |
| `adopt`, `health`, `reply` | the fetch that holds `n.adopting`; `n.health`; ping replies on their way |
| `base`, `handedOff`, `target`, `runs` | `n.handoffBase`, the HANDOFF file, `n.handoffTarget` with its generation, the `runHandoff` goroutines |
| `data`, `hints`, `wr`, `stopped` | copies of one key, hints, coordinations of client writes, nodes the operator has stopped |
| `owed` | history: what a node's views have obliged it to pass on |

`Declare`, `Publish`, `Ping` and its replies, `AdoptFetch`, `AdoptSet`,
`HandoffPlan`, `HandoffPush`, `HandoffHint`, `FinishHandoff`, `DeliverHints`,
`StopDrained`, `Crash` and `Start` are the steps between which other goroutines
run. A view is written before it is published, in two steps, and either may be
the last before a crash.

`ViewRegister` is what all this promises about views: a register per node, with
`Record` and `Show` for its only steps. `Membership` implements it with `kept` =
what a restart loads (`Load`) and `shown` = `view`; a declaration or an adoption
is a `Record`, a publication or a restart a `Show`, and every other step a
stutter. A `Record` may replace a higher epoch that was never shown: after a
write that failed once the file was already replaced, `setMembership` still
compares a new view with the published one only.

### Planner

`Observe` builds what the controller reads (whichever pods answer), `Plan` is the
planner case by case, `Reconcile` stores its decision in `todo`, and `Execute`
takes it later, so that everything may change in between. A post that outlasts
the client's timeout (`PostTimesOut`) has failed for the operator, but its handler
goes on: it is in `late` until it takes effect (`PostLands`) or the pod ends. The StatefulSet
controller and the kubelet are external: `PodCreate`, `PodDelete`, `RollPod`,
`VolumeGone`, `PodStart` with `applyConfiguredMembership`. `seen` is the cache.

### Scenarios

`Replication`, `Membership` and `Planner` have a variable `env`, chosen in `Init`
and never changed: the name of a scenario, a record of what clients or users do,
which faults may occur, where, and how often. One run checks several scenarios
in one instance. The theorems quantify over all scenarios of that type.

`StorageEngineInv`, `ReplicationInv`, `HandoffInv`, `PlannerInv` hold the inductive
invariants; the modules named `MC...` the instances for TLC; the modules named
`...Proofs` the proofs.

## What is checked

Run a configuration with `tlc -config <cfg> <module>`.

| Run | Configuration | Question | Result |
|---|---|---|---|
| `algorithms` | `MCAlgorithms` | Do the merge loops compute what the sets say, in any order; is a ring its members, whoever joined first, and a preference list the nearest ones; does the walk of two trees find every bucket that differs? | holds |
| `engine_faults` | `MCEngineFaults` | Two callers that may roll back, flushes, compaction and one restart, while I/O fails: is every answered write visible and on disk, does a successful Restore stay, do files and runs stay in place, does a restart change no answer, does Open succeed? | holds |
| `engine_liveness` | `MCEngineLiveness` | Is every accepted write answered, and does Close return? | holds |
| `engine_manifest_torn` | `MCEngineTorn` | `Recoverable` when a manifest line is torn | violated |
| `repl_reads` | `MCReplReads` | Does a read see every write acknowledged before it, and do W replicas hold it, while calls get lost or late, a node crashes, hints and anti-entropy run? | holds |
| `repl_failures` | `MCReplFailures` | Rollbacks, stragglers, crashes, halts, forwarding, a replaced disk: does what was acknowledged stay, are hints kept until delivered and never of an undone write, is a write versioned once? | holds |
| `repl_converges` | `MCReplConverges` | Do anti-entropy alone, and hints alone, level the replicas? | holds |
| `repl_reuse` | `MCReplReuse` | `AckedOnQuorum` when answers are lost at any replica | violated |
| `repl_context` | `MCReplContext` | `AckedSurvives` when two clients write with one context | violated |
| `cluster` | `MCCluster` | Joins, leaves, conflicts, crashes: is a view shown only from disk and recorded only over a lower epoch (`ViewsKept`), are recorded epochs held, are handoffs complete, does a stopped node lose nothing and is it unused, do views spread and leavers drain? | holds |
| `planner` | `MCPlanner` | Growth, removal, rollouts, faults, scaling by hand, a lagging cache: one change at a time, nothing removed undrained, nothing unexplained, the spec reached? | holds |
| `planner_cache` | `MCPlannerCache` | `OneChangeAtATime` when the cache may lag at any time | violated |

The violated runs each check what the repository says of the code; `PROJECT.json`
quotes the lines.

1. `engine_manifest_torn`. Replay skips a torn last line but does not truncate
   it. The file is opened for append, so the next line is glued to the torn one.
   The SSTable of a finished flush is then not live, and its segments have been
   deleted.
2. `repl_reuse`. A `Put` without a context builds on what the store has. After a
   rollback the coordinator's next `Put` gets the clock of the one rolled back, and
   a replica that kept that one drops the new write as equal and accepts it.
3. `repl_context`. Two `Put`s through one coordinator with the same context get
   equal clocks. Both are acknowledged, and every replica keeps one.
4. `planner_cache`. A reconcile that sees a new spec but not yet the ConfigMap the
   last one wrote starts a second membership change at the same epoch.

`repl_reads` and `repl_failures` stay clear of 2 and 3 by their scenarios: where
answers may be lost it is at one replica, or the coordinators differ, and clients
put without a context. That limits `ReadsSeeAcked`, `AckedOnQuorum` and
`AckedSurvives`, which speak of what clients really read; `AckedCovered`, which
speaks of clocks, holds in every scenario and is proved.

Every property of a passing run has a mutant in `PROJECT.json`: a definition
changed the way a plausible bug would change the code, with which TLC finds the
property violated.

### Bounds

*Engine.* Two callers give every pair of Put and Restore of one key in flight at
once; `MaxBatch = 2` lets both share a batch or not. Two flushes are the fewest
that give compaction a run (`MinTier = 2`; the code's default is larger, which
only removes runs). `MaxSuffix = 2` admits `_c_c`. One restart covers a crash at
every step followed by a recovery and the steps left to the callers.
`engine_manifest_torn` needs two callers and two flushes: the line of the second
is glued to the torn line of the first.
Versions are two concurrent ones; superseding and equal ones are covered by
`algorithms`. Callers are interchangeable and no property names one, so symmetry
is used, except with liveness. `engine_faults` has every fault but `torn` (run
`engine_manifest_torn`) and `sync`, a manifest line that is in the file although
its fsync failed: with it `RestoreHides` and `OpenSucceeds` do not hold, since the
code then treats a file as "never registered" that a restart will load or miss.

*Replication.* Three replicas with W = R = 2 are the smallest in which quorums
overlap, one node may be away, and a minority may hold a failed write. Two writers
and a reader, or two writers; `Front` forwards. Each scenario bounds crashes
(one, or two in `replace`) and flushes (at most one), and names the replicas at
which faults occur. `MaxIncarnation = 2` allows a second replacement.

*Cluster.* Three nodes, one write, one or two declared views, N of 1 or 2 and one
crash: enough for a node to leave, to come in, to be superseded, to hear of two
views of one epoch, and for a node's address to be another's. `MaxMissed = 1`
makes peers dead at the first miss. `slow` names the pairs whose replies may be
late: two pings to a peer may be out at once, one of a round and one of
`pingBack`, and their answers come in either order.

*Planner.* Four pods and up to four specs, with one or two faults: growth by two,
shrinking by two, both in turn, rollouts with either; posts that take effect late
in the scenarios that grow, and shrink at the end (`up`, `down`).

*Algorithms.* Two clock ids with counts 0 and 1 give every way two clocks
compare; three layers; three members with two virtual nodes each on four
positions, so that positions collide and wrap; sixteen buckets with four keys.

Deadlock is not checked anywhere: clients, faults and specs are finite, and the
system rests when they are used up.

### Fairness

*Engine.* Weak fairness of the committer, of the flush goroutine, of a started
compaction and of recovery: they wait for nothing but locks whose holders keep
running, and a supervisor restarts a stopped process. Strong fairness of
`CloseEnd`: `Close` waits for `compactMu`, which the compaction loop may take
again and again, but Go's mutex hands itself to a waiter it has starved. Callers
are not fair: nobody has to write, and nobody has to close.

*Replication.* Weak fairness of every coordination (each call is answered or
times out), of restarts and of the ticks of the two loops; strong fairness of the
calls a round makes, since a peer that does not answer now and then is called
again in every round. Clients are not fair.

*Cluster.* Only in the scenario with `live`: weak fairness of goroutines, restarts
and pings, strong fairness of pushes and fetches, which are tried again with
every round. The operator does not have to declare a view; it does have to stop a
node that reports itself drained.

*Planner.* Weak fairness of a reconcile that sees every running pod, of taking
the action decided on, of the cache, and of Kubernetes' controllers and the nodes
taken together. Users, faults and hand-scaling are not fair, and bounded.

## What is proved

| Theorem (module) | Statement | For |
|---|---|---|
| `MergeCovers`, `MergeKeepsSiblings`, `ResolveIsMerge` (`VersioningProofs`) | merging two lists loses no version and leaves only siblings | all clocks |
| `MergeAllCovers`, `MergeAllSiblings` (`StorageEngineProofs`) | the same for the fold over any number of layers | all clocks |
| `TypeCorrect`, `FilesInPlace` (`StorageEngineProofs`) | `Spec => []TypeOK`, `Spec => []SSTablesInPlace` | all constants and faults |
| `LoggedIsRecoverable`, `AnsweredIsVisible` (`StorageEngineProofs`) | `Spec => []Recoverable`, `Spec => []AckedVisible` | `"torn" \notin Faults` |
| `OpenNeverFails` (`StorageEngineProofs`) | `Spec => []OpenSucceeds` | `"torn"`, `"sync"` `\notin Faults` |
| `ReplicationInvariant`, `ReplicaTypes`, `AckedIsCovered`, `NoUndoneHint`, `WriteVersionedOnce` (`ReplicationProofs`) | `Spec => []IReplication`, `[]TypeOK`, `[]AckedCovered`, `[]NoHintOfUndone`, `[]VersionedOnce` | all constants and scenarios |
| `CausalityInvariant`, `HintsAreKept` (`ReplicationProofs`) | `Spec => []ICausality`, `HintsKeptUntilDelivered` | states that are `Undisturbed` |
| `ReadsSeeAckedWrites` (`ReplicationProofs`) | `ReadsSeeAcked` | `Undisturbed`, and fewer replaced disks than W + R - N |
| `AckedOnQuorumHolds` (`ReplicationProofs`) | `AckedOnQuorum` | `Undisturbed`, no replaced disk |
| `AckedSurvivesLoss` (`ReplicationProofs`) | `AckedSurvives` | `Undisturbed`, fewer than W replaced disks |
| `ViewsInvariant`, `SeenEpochsAreHeld` (`HandoffProofs`) | `Spec => []IView`, `[]SeenIsHeld` | all constants and scenarios |
| `ViewsImplementRegister`, `ViewsOnlyAdvance` (`HandoffProofs`) | `Spec => ViewsKept` (the refinement of `ViewRegister`), `Spec => ViewsAdvance` (no node's epoch goes back) | all constants and scenarios |
| `HandoffsComplete` (`HandoffProofs`) | `HandoffComplete` always | scenarios that are `Reliable` |
| `StoppedNodesAreUnused` (`HandoffProofs`) | `StoppedIsUnused` always | scenarios with `LeaversStayOut` |
| `TypeCorrect`, `Explained` (`PlannerProofs`) | `Spec => []TypeOK`, `[]NeverUnexplained` (which speaks of `Steady` scenarios) | all constants and scenarios |
| `StagesInvariant`, `OneChange`, `NotBehind`, `RemovedDrained`, `LeaversEmpty`, `TemplateStable` (`PlannerProofs`) | `IPlan` and the five safety properties | scenarios that are `Steady` |

The assumptions on constants are named and stand in the modules that declare
them: `ConstantsAssumption` (`StorageEngine`), those of `Versioning`,
`ClockIDsAssumption`, `DeliveredAssumption` and `QuorumAssumption` (`DataStore`,
`HintStore`, `Replication`), `MembershipAssumption` and `RingAssumption`
(`Membership`, `Handoff`), `PlannerAssumption`. TLC evaluates them in every run.
They fix the types, that clock entries of markers are nobody's, that a preference
list has every replica once, and 1 <= W, R <= N. W + R > N is not assumed:
`ReadsSeeAckedWrites` names it in its statement, and nothing else needs it.

The restrictions are needed, and the counterexamples are known. Durability of
the engine needs whole manifest lines (`engine_manifest_torn`); that `Open` succeeds
also needs that a line whose write reported an error is not in the file, because
a compaction that could not register its result deletes it. `Undisturbed` says
that no coordinator has failed a write for want of a quorum and that no client
writes with a context: after a rollback a clock entry is given a second time
(`repl_reuse`), and two writes with one context share theirs (`repl_context`).
Crashes, restarts, replaced disks, halted engines, lost and late calls, hints and
reconciliations are all allowed. `LeaversStayOut` says that a node declared out of
the cluster is not declared in again. The planner's
properties need a cache that has the operator's own writes (`planner_cache`), and
nobody else who scales. Where a post may take effect after it was given up,
`Steady` also asks that a user who has asked for fewer pods turns neither to more
pods nor to another template. With sizes 2, 1, 3 the post that removes a pod is
given up, the user asks for three, the operator adds a pod, and the late post
brings a second membership with the same epoch (`OneChangeAtATime`); with sizes
2, 1, 2 and a new template the late post lands in the rollout
(`TemplateWhenStable`). The code does both. `Reliable` says that state files can be written and that
nodes listen at the addresses the views give: a node whose HANDOFF file could not
be written begins from an older base after a restart, and what was owed in
between is not among its targets; an address that belongs to another node sends
the copy there.

### The arguments

*Engine.* Neither durability property is inductive. `Recoverable` depends on what
a flush is about to delete, and `AckedVisible` on every record memory has ever
reflected. `IMem` says how the pieces fit whatever fails: every list is a list of
siblings; records memory does not reflect are in the current segment, so no flush
seals or deletes them (`LogInv`); where each goroutine is and what that says of
the rest (`CommitInv`, `QueueInv`); ids of a flush or compaction under way are
nobody else's, and a compacted file covers its sources (`FilesInv`). `IDisk` adds
the chain along which a record moves: reflected records are in the active
memtable, the frozen one or an SSTable in memory (`MemCover`); those in the
segments a flush will delete are not only in the active one (`FlushCover`);
SSTables in memory are covered by registered files that no failure will delete
(`SSTablesLive`); those in unlinked segments, or in ones about to be, are in such
files (`DiskCover`); and recovery rebuilds it (`ReplayCover`). `FlushCover` is why
rotation and freezing are one step under `writeMu`, and why the segments outlive
a failed flush. `OpenInv` adds that every registered SSTable has its file and that
a file which goes if its registration fails is not registered yet.
`EngineStepProofs` carries the conjuncts of `IMem` and those on the disk through the
actions; `StorageEngineProofs` has the fold over layers, the rest of `IDisk`,
`OpenInv` and the theorems.

*Replication.* `AckedCovered` counts replicas at the moment of the answer, but
stores change after it, and the count is of answers that may be old. `HeldInv`
says for every record of a coordination, answered or not, which replicas must
hold its version: those whose result is `applied` or `ok`, and the coordinator
while it has not decided otherwise. It is kept by every merge because coverage is
(`MergeCovers`), by every flush because what is flushed is merged, and by a
rollback because of what that records in `undone`. `Sound` says what the pc of a
record implies about its version, its answer and its results; `HintInv` that a
hint is a marker or of a write its coordinator has let stand, which needs that
`keep` is decided before any hint is stored and never changes; `ChainInv` that a
forwarding client has tried the preference list in order and left nothing behind
but broken connections.

*Causality.* That a replica covers a version says nothing about the write unless
clocks tell the truth, and `HeldInv` does not say that they do. `ICausality` does,
for a set S that has every version anywhere but for markers and for those at
which an engine has halted (`limbo`, which a restart may find in its log or not).
Every version has an entry of its own: whoever has come as far there has seen it
(`HaveOwn`); one clock is below another only if the later write was built on the
earlier (`Faithful`); and a node knows of every entry given under its name, the
one in limbo apart, so that the next one it gives is new (`Recorded`, `Fresh`).
The last part is why a node with a new disk must take a new incarnation, why a
halted engine accepts no writes, and what a rollback breaks. From it, a marker
retires only what has reached its target (`MarkersInv`): a version the marker is
after has an entry of its own, which the marker has from a version that was
delivered, and that version has seen it. For reads, `ReadInv` keeps for every
write acknowledged before the read W replicas that had it then, so that any of
them which has answered has shown it; when W + R exceeds N by more than the
number of replaced disks, one of them has answered and kept its disk.
`ReplicationStepProofs` carries `IReplication` through the steps and says what a
step that is no rollback does to the records; `CausalityStepProofs` has the facts
about clocks and the steps of clients and coordinators; `ReplicationProofs` has
the other steps and the theorems. The lemmas of the first two take the facts they
need about finite sets as the hypothesis `FiniteFacts`, which `ReplicationProofs`
proves from the library.

*Membership and handoff.* `IView`: what is published is what a restart would
find, or older than it; what is about to be published is on disk; every epoch
recorded or on its way is at most its node's. With it each step is a step of
`ViewRegister`: a `Publish` shows what is on disk because what is about to be
published is what was written. `IHandoff`: the base is what a
restart finds; at most one run is not superseded and it starts from the base;
what is owed and not done is to a node that is no owner in the base, so it is
among the current run's targets, and the run has it still to push. It is because
a superseded run never moves the base that nothing is forgotten when views come
faster than handoffs. `IStopped`: every epoch beyond the configured one belongs to a
declared view, and for a stopped node there is a declared view without it that
no peer in its own last view is behind. `IView` carries that from the epochs seen in
answers, which is all `WaitDrained` looks at, to the views on disk.

*Planner.* In `IPlan` the cluster is in one of five stages (`Bootstrap`,
`Settling`, `Adding`, `Removing`, `Dropping`), each of which says which
memberships are on which volumes, and `TodoKept` says that what was true when an
action was decided on still is when it is taken. That part is the one that
fails with a lagging cache. `LateKept` says of every late post that it comes too
late to change anything, or that it begins a removal the user still wants and the
operator is at no other change; `AllWanted`, that no change under way was begun
against the wishes to come. Together they keep a late post from meeting another
change. Every property but `TypeOK` follows from it;
`Explained` is a case analysis of `Plan` in each stage for every set of pods that
answer.

### Only model-checked

- Liveness (`WritesAnswered`, `CloseReturns`, `Converges`, `ViewsSpread`,
  `LeaversDrain`, `Settles`) is outside the prover's reach.
- `RestartChangesNothing`: it compares what memory has with what a recovery would
  compute, a fold over the log, which needs induction over data.
- `RestoreHides`: it needs an invariant that relates every layer, and every file a
  restart may read, to the records since the Restore; not proved here.
- What the list, ring and tree loops compute (`algorithms`): induction over data.
- `ReadsSeeAcked`, `AckedOnQuorum`, `AckedSurvives`, `HintsKeptUntilDelivered` in
  scenarios with rollbacks or contexts: with the constants free they are false
  there, as `repl_reuse` and `repl_context` show.
- `StoppedLosesNothing`: not claimed for every value of the constants. With W = 1 a
  write in flight may be stored at a leaving node alone, after its handoff has
  passed; it is checked for the changes of the scenarios.
- `TypeOK` of the cluster.

The inductive invariants themselves were checked with TLC on the scenarios of the
runs before they were proved.

## What the model leaves out

- Sizes. Whether a Put fills the memtable, and which SSTables share a tier, is a
  free choice; the code's choice is one of the model's.
- Encodings: WAL records, SSTable blocks, indexes and Bloom filters, checksums,
  protobuf messages. A record or file is whole or absent.
- `WithGroupCommit(false)`, in which each writer commits its own batch of one
  under `writeMu`: batches of one are among the model's, the queue is not used.
- A read's own steps in the engine. `Read` is atomic; in the code a read takes its
  layers under `e.mu` and reads files after, protected by `filesMu`.
- SSTable ids grow. The code takes them from the wall clock, which may be set
  back.
- Several keys in replication and handoff: the code treats each on its own. The
  sync of all buckets is the repeated reconciliation of one key; that the trees
  find the bucket is `WalkMissesNothing`.
- Deletes: `DataStore.Delete` has no caller; a tombstone is a version like others.
- Ping requests take no time, replies may; every node has the same N. What makes
  `pingBack` ping (who sent, from which address, whether the last ping failed) is
  left open: it may at any time, one ping to a peer beside the round's.
- Writes to the Kubernetes API that outlast their call: a write of the operator
  takes effect before the call returns, or not at all.
- In `Planner`: phases, messages, status, `DrainTimeout`, rendering of objects; the
  nodes' own protocol, of which it keeps that newer memberships spread, are on disk
  at once and are handed off to in the end.
- A cache that misses a whole drain, and a node restarted with another configured
  member list (hazards without a property in `PROJECT.json`, with others of the
  kind).
- Observers, statistics, telemetry, chaos tooling, generated code.
