# A verification of supervsr

TLA+ models of the replication library in `replication/`, model-checked with TLC
on small instances, and theorems about them proved with TLAPS. The code is the
reference: a definition is named after the function it models where TLA+ allows
it, and `PROJECT.json` maps every definition to its lines.

## The system

A replica is one event loop (`Replica.Process`, `replica.go`) that takes messages,
timer ticks, storage completions and state-machine completions, one at a time.
Everything slow happens elsewhere and comes back as an event: a pool of I/O
workers appends to the WAL and writes the superblock, the state machine executes
ops. Members agree on a log by viewstamped replication.

| Part | State | Operations | What makes it hard |
|---|---|---|---|
| Superblock store | 4, 6 or 8 copies, the current superblock | Format, Open (select, repair), Persist | a crash between any two writes, torn copies, quorums of copies |
| Normal operation | pipeline, head, commitMin, commitMax | request, prepare, append done, ack, commit, execute | appends finish out of order, messages are lost, repeated, reordered |
| View change | view, durableView, logView, joins, pendingView | ExitView, JoinView, selection, View, persisted view | evidence of different logs, I/O in flight, restarts in between |
| Canonical repair | the suffix being installed, the window, the frame being written | GetView, View, GetHeaders, Headers, Prepare, rebuild, install | answers that come late, repair while an op executes |
| Restart (`Open`) | what storage holds | recover WAL, replay, load suffix, choose a status | what was acknowledged but is not provably there |
| WAL | slots in two zones, faulty slots | append in four steps, classify, discard | torn and stale zones, exclusion by an installed view |
| MPSC ring, I/O engine | slots, sequences, generations | push, pop, submit, cancel, poll, close | lock-free interleavings, reuse of slots |
| Sessions, replies, client | session table, reply slots, in-flight request | admit, plan, commit, evict, repair a reply | eviction between admission and execution |
| Checkpoints, blocks | candidate, free sets, reservations, repair targets | reserve, publish, release, checkpoint, repair, scrub | a view change or crash between stages, reuse under a repair |
| State sync | sync stage, target checkpoint | begin, persist twice, fetch blocks, resume the log | crash between the stages |
| Releases, clock, timers | release reports, clock samples, back-off | select, activate, observe, back off | draining, interval arithmetic |

Correctness, part by part: nothing reported durable is rolled back (superblock,
WAL); one history is executed, in order, without gaps (normal operation, repair);
what a quorum acknowledged survives view changes and restarts (view change,
restart); a replica neither stops itself nor gets stuck (all); a request is
executed at most once and its reply is kept (sessions); a block in use is not
overwritten (blocks).

## Modules

| Module | Models |
|---|---|
| `SuperblockStore` | `superblock.go`, `superblock_store.go`, the superblock part of `format.go` |
| `SuperblockProofs` | theorems about `SuperblockStore` |
| `Consensus` | `replica_normal.go`, `view_change.go`, the log part of `replica_repair.go`, `open.go`, `status.go`, the tail of `Replica.Process`, the WAL and superblock as those use them |
| `MCConsensus` | instances of `Consensus`: which I/O may be slow |

### SuperblockStore

A superblock is the sequence of durable states from the formatted one to its own:
its length is `Sequence`, its front is what `ParentChecksum` names. The empty
sequence is a copy that does not decode. A write becomes durable at its `Sync`
(`FormatSync`, `RepairSync`, `PersistSync`); before that a crash loses it,
completes it or, with `TornWrites`, tears it. `damage` is a history variable that
lets a property say which crashes it covers. `OpenSuperblockStore` is the
selection, with each of its errors (`NothingDecodes`: no copy was ever written, or
the ones that were are torn); `repairCopies` is `WriteCopy`, `RepairSync`
and `OpenDone`. `durableStateRegressed` is kept for the view only.

### Consensus

`rep[r]` is the `Replica` struct of member `r` with its WAL (`disk`, `faulty`) and
superblock (`sb`). A handler is an operator on that record. `Step` applies a
handler and then what `Process` does after the events: resume a pending view
change, continue the repair, acknowledge, advance the commit, check the snapshot.
`Process(limit)` may handle up to 64 events before that tail; the model runs it
after each, so it has fewer interleavings of handlers and tails than the code.

Choices that a reader of the code should know:

* `net` only grows, so every message may arrive late, repeatedly or never. What a
  timer repeats (Prepare, Commit, Ping, ExitView) is in `net` from the first time
  it can be sent; retry intervals are not modelled.
* Quorum bits (`acks`, exit votes) are read from `net` when they complete a
  quorum. A Prepare in `net` also answers GetPrepare.
* A PrepareOK is in `net` for every clean op a replica holds while
  `canAcknowledge`; that includes the acknowledgement of a repeated Prepare.
* GetView and its nonce: the answer is built from the primary's state at the
  request and is delivered at once or, bounded by `MaxDelayed`, stays in
  `answers[r]` until the nonce is consumed.
* A heartbeat that `lastPrimaryCommit` would drop carries nothing new, so the
  order check is left out. `getViewTarget` is left out: it only restricts which
  answers are accepted.
* A crash takes any subset of the appends in progress as done and at most one as
  torn, since appends are serialised by a mutex and finish in any order. The
  superblock write in progress is taken as old or new, which is what
  `SuperblockStore` establishes. A torn write, or a whole prepare beside the
  redundant header of the one it replaces, leaves the slot faulty; beside a header
  that the installed view excludes, the prepare is used (`ClassifyWALSlot`).
* The superblock of a view is submitted as it is. The store refuses one with a
  blank header, and the replica stops when the completion arrives (`refused`).
* A worker starts and ends a repair write on its own, before the event loop hears
  of it. `SlotViews` gives what the slot may show to the one reader there is
  meanwhile, `HandleGetHeaders`; elsewhere the write is pending until it completes.
* A prepare's checksum is its `id`; timestamps follow from the parent chain.
* The log stays below the first checkpoint trigger, so the checkpoint is op 0.

`NoIO`, `NoRepair` and `NoJoin` are the idle values of the struct fields;
`The` names an intermediate value for TLC.

Definitions marked MUTANT are wrong on purpose. `PROJECT.json` pairs each with a
property that must catch it; no specification uses them.

## Runs

`tlc -config <run>.cfg <module>`, with the module `PROJECT.json` gives for the run.

| Run | Instance | Checks |
|---|---|---|
| `MCSuperblock4` | 4 copies, 6 sequences, 2 views, torn writes | `TypeOK`, `PersistDurable`, `NoFork`, `ReopenSucceeds` |
| `MCConsensusRestart` | 3 members, pipeline 2, 1 prepare, a view change, a restart, torn appends, slow storage | `CommittedOnQuorum`, `JoinReportsAcknowledged`, `NoAckAfterJoin` |
| `MCConsensusTwoMembers` | 2 members, pipeline 1, 2 prepares, 2 view changes, a restart, a delayed answer, slow superblock writes | `OnePreparePerViewOp`, `ExecutedPrefix`, `NeverFailStop` |
| `MCConsensusCatchUp` | 3 members, pipeline 1, 2 prepares, a view change | `TypeOK`, `Agreement`, `NeverFailStop` |
| `MCConsensusLiveness` | 3 members, pipeline 2, 2 prepares, one view, a restart, all I/O slow | `Converges` under `FairSpec` |

The following find a counterexample: the code does not do what a test, an oracle
or a document of the repository says. `PROJECT.json` quotes the line.

| Run | Violates | In short |
|---|---|---|
| `MCSuperblockSixCopies` | `ReopenSucceeds` | six copies: a crash after two copy writes of the second Persist leaves 2 + 2 + 2 copies, and the open quorum is 3 |
| `MCSuperblockRepairCrash` | `NewestQuorumSelected` | a crash inside `repairCopies` leaves a gap in the chain, and Open refuses it despite an open quorum |
| `MCConsensusTornBackup` | `ExecutedPrefix` | after a restart with a torn head, a backup executes op 2 without op 1 |
| `MCConsensusStaleView` | `CommittedOnQuorum` | a late same-view View truncates a prepare that was acknowledged since |
| `MCConsensusRestartFails` | `NeverFailStop` | the persisted commit exceeds the durable log, and Open returns an error |
| `MCConsensusAppendHole` | `JoinReportsAcknowledged` | op 2 was acknowledged, op 1's append had not begun; after a restart the join omits op 2 |
| `MCConsensusStuckWindow` | `Converges` | a repair window opened during an execution asks for an empty range for ever |

The passing runs are instances that these do not reach: `Restart` has a single
prepare, so there is no hole and no op below the torn one; `CatchUp` has no
restart and no delayed answer; `Liveness` has a pipeline that holds all the
prepares, so no window opens; `TwoMembers` needs both members for each quorum,
and its appends are prompt. `NeverFailStop` and `CommittedOnQuorum` are therefore
claimed for those instances only.

### Bounds

`MaxPrepares`, `MaxView`, `MaxCrashes`, `MaxDelayed` and `MaxSequence` bound the
behaviours. Two prepares with a pipeline of one make the pipeline full and a
backup lag by more than a pipeline; with a pipeline of two they make appends
overtake each other. One view change makes every member a joiner and one a new
primary; two let a view be given up. Three members are the smallest group in
which a quorum leaves a member out. Six sequences let the rotation of four
superblock copies wrap around.

`MCConsensus!Prompt` is an action constraint: I/O of the kinds not in `Slow`
finishes before any other event except a crash. It removes interleavings and adds
none. Each kind is slow in some run, all of them in `MCConsensusLiveness`.
Deadlock is not checked for `Consensus`: with the requests and views used up, the
cluster has nothing left to do. 

Larger instances were run once. Every safety property but `NeverFailStop`
holds with prompt I/O for 3 members, pipeline 2, one prepare, two view changes and
a restart (535,000 states), and for 3 members, pipeline 1, two prepares, a view
change and a restart (1.5 million). `TypeOK`, `Agreement`, `NeverFailStop` and
`CommittedOnQuorum` hold with prompt I/O for 3 members, pipeline 1, two prepares
and two view changes (5.9 million). With a pipeline of two, the instance of
`MCConsensusTwoMembers` passes as well (457,000); with slow appends instead of slow
superblock writes (765,000) `TypeOK`, `Agreement`, `ExecutedPrefix`,
`OnePreparePerViewOp` and `NoAckAfterJoin` hold, and `JoinReportsAcknowledged` breaks
the way `MCConsensusAppendHole` does. The
instance of `MCConsensusAppendHole` checked for `CommittedOnQuorum` loses a
committed op after 21 steps.

What each run reaches of the hazards in `PROJECT.json`: joins of different log
views, with different prepares at one op, and a view change that waits in `pendingView` for a superblock write occur in
`MCConsensusTwoMembers`, one that waits for an execution in
`MCConsensusRestartFails`; an append that ends after its replica has joined
a later view in `MCConsensusRestart`; a late answer that is behind the log, a hole below an
acknowledged prepare, a faulty slot above skipped ops, a persisted commit above the
log and a window opened during an execution only in the runs that find a
counterexample.

### Fairness

`FairSpec` has weak fairness of `Completion(r) \/ Delivery(r)` for each replica:
the event loop takes an event when one keeps being available. Workers finish
what they are given; a message that stays deliverable is repeated by a timer
until it is handled (prepare, commit, ping, repair and join timers). Requests,
suspicion of the primary, crashes and late answers (`Chance`) have no fairness.

## Proofs

`SuperblockProofs` proves, for 4, 6 and 8 copies and any bounds, with and without
torn writes:

* `TypeCorrect`: `Spec => []TypeOK`;
* `PersistedNeverLost`: `Spec => []PersistDurable`;
* `NeverForks`: `Spec => []NoFork`.

They follow from `Invariance`, `Spec => []IInv`. `PersistDurable` is not inductive:
whether a crash loses the acknowledged superblock depends on what the other
copies hold. `IInv` says that every copy is invalid, older than the acknowledged
superblock, equal to it or a successor (`CopiesNearAcked`); that the older ones are at
most `Copies - superblockWriteCopies` (`FewStale`), one short of an open quorum
(`QuorumTable`); and that copies of one sequence number are equal
(`OnePerSequence`); then, per phase, how far the write has come. The key steps
are `RotationCovers` and `UnwrittenFew` (a completed persist leaves at most that
many copies unwritten, wherever the rotation starts) and `SelectionNearAcked`
(what Open may select). The only assumptions are those on the constants in
`SuperblockStore`.

Only model-checked: `ReopenSucceeds` (it holds for 4 copies, not for 6), and
everything about `Consensus`. Liveness is out of TLAPS's reach and stays with TLC.

## Not modelled

Solo groups and standbys; checkpoints, blocks, state sync, sessions, replies and
the client; releases and reconfiguration; the clock; the WAL's two zones; the
lock-free ring and the I/O engine's slots; codecs and checksums. In `Consensus`:
retry intervals, the repair budget, Headers outside a repair window, the
checkpoint bound of `canAcknowledge` (it cannot bind below the first checkpoint)
and damage to slots at rest. Each is a row of `components` or a `hazards` entry
with a note in `PROJECT.json`.

## Plan

In this order:

1. `WAL`: slots with both zones, the four-step append, `ClassifyWALSlot` and
   `Recover`; properties: a durable append is recovered or in doubt, an excluded
   suffix does not return. `Consensus`'s view of a crash is its abstract
   specification, to be shown as a refinement.
2. `MPSCRing`: producers and the consumer step by step; FIFO per producer,
   nothing lost or doubled; a proof for any capacity.
3. `Sessions` with the client: at-most-once execution, eviction against
   admission, replies across retries.
4. `BlockAllocator` and checkpoints, then block repair and its budgets, and
   state sync with crashes between its stages.
5. `IOEngine`, releases, the clock interval against a reference definition.
6. An abstract log (one committed sequence, executed in order) that `Consensus`
   implements; proofs of `OnePreparePerViewOp` and the type invariant of
   `Consensus`, proofs for `WAL` and `MPSCRing`.
