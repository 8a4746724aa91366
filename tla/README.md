# Charon: a TLA+ verification project

Charon is middleware between an Ethereum validator client and a beacon node. It
lets a cluster of nodes operate one validator together: every node holds a share
of the validator's key, the cluster agrees on the data to sign, and a threshold
of partial signatures is aggregated into the signature of the validator. The
shares are generated by a distributed key generation (DKG) ceremony.

This directory holds TLA+ models of the parts of Charon that are concurrent or
distributed, TLC configurations that model-check them, and TLAPS proofs of the
properties that matter most. `PROJECT.json` maps every definition to the source
lines it models, and lists the runs, mutants, hazards and theorems.

## The system and its modules

A duty flows through the core workflow (`core.Wire`):

    Scheduler -> Fetcher -> Consensus -> DutyDB -> ValidatorAPI -> ParSigDB
                                                                      |
      Broadcaster <- AggSigDB <- SigAgg <------------ ParSigDB <- ParSigEx

All components are told by a deadliner when a duty has expired.

| Module | Models |
| --- | --- |
| `QBFT` | the consensus algorithm, `core/qbft/qbft.go` |
| `Consensus` | one node's component around it, `core/consensus/qbft` and `utils/instance_io.go` |
| `Scheduler` | `core/scheduler/scheduler.go` |
| `DutyExpiry`, `Deadliner`, `DutyDeadline` | the promise of `core.Deadliner`, its implementation `core/deadline.go`, and the deadlines of duties |
| `DutyDB` | `core/dutydb/memory.go` |
| `ParSigDB` | `core/parsigdb/memory.go` |
| `AggSigStore`, `AggSigMem`, `AggSigDB`, `AggSigDBV2`, `AggSigImpl` | the promise of `core.AggSigDB`, what its two implementations share, `memory.go`, `memory_v2.go`, and both side by side |
| `DKGSync` | `dkg/sync` and `startSyncProtocol` in `dkg/dkg.go` |
| `DKG` | the ceremony `dkg.Run`: `frost.go`, `frostp2p.go`, `exchanger.go`, `nodesigs.go`, `dkg/bcast` |
| `Workflow` | the composition: the components of all nodes of a cluster, for the duties of a slot |

`MC...` modules and `.cfg` files instantiate them for TLC, `...Proofs` modules
hold the proofs. Definitions
with a comment that begins "A bug" are mutants: a plausible mistake in the code
under which a property fails. Every checked property has one.

The layers rest on each other. `DutyDB`, `ParSigDB`, `AggSigDB` and `Consensus`
extend `DutyExpiry`, the promise that `Deadliner` is shown to keep. `Workflow`
takes of each component what its own module shows: consensus decides one value,
databases keep the first one, a threshold of matching signatures is reported. One
gap remains: `QBFT` has no faulty processes, and is proved without restarts, while
`Workflow` has both, so there a single decision is an assumption.
`DKG` takes the barrier between steps from `DKGSync`.

## How state and actions correspond to the code

**QBFT.** One variable per local variable of `Run` (round, input value, prepared
state, `ppjCache`, `qCommit`, `dedupRules`), indexed by process, and the set of
all messages ever broadcast. There is one action per upon-rule, one for the timer
and one for the input. A rule may fire on any subset of the messages sent, which
stands for loss, delay, duplication, reordering and the eviction of old messages
from the buffers. A process that stops is one that takes no more steps. In
`CrashSpec` a process may also restart, with the state `Run` begins with.
Byzantine processes are not modelled: every message is one that the code sends.

**Consensus.** `Propose`, a retry of it and `Participate` for one duty, each with
a program counter that steps from one lookup or channel operation to the next.
An instance that was deleted at the deadline is created anew by the next lookup,
so instances are numbered. The algorithm is reduced to what it does with its
channels; its `Decide` callback may return on an error without calling the
subscribers. One assumption is stronger than what `DutyExpiry` promises: when the
deadliner outputs the duty, clocks are past its deadline. In the very instant of
the deadline `deadliner.run` accepts a duty again that it has just output, a second
run of the duty may share an instance with the first, and `ValuesAreKnown` and
`DecidedOnce` are not claimed there.

**Scheduler.** The slot goroutine, the reorg handler and a caller of
`GetDutyDefinition` interleave wherever `dutiesMutex` is released. The beacon
node answers from the version of the chain it has at that moment, or fails. The
early returns of `GetDutyDefinition`, on a deprecated duty type and on an error of
`FetchSlotsConfig`, are one.

**Deadliner.** The goroutine `run` with its inner select, and the goroutines that
call `Add`; one of them also reads the output, but not while it is inside `Add`.

**DutyDB.** All tables are one function from keys to values. A `Store` is a
sequence of steps under the lock, in any order of the validators as Go maps
iterate, and may fail half-way. Data has a slot of its own, which is taken to be
the slot of the duty (`SlotAssumption`): the fetchers ask for it, and the database,
which deletes by the slot of the duty, does not check it. `TestDutyExpiry` stores
data with other slots.

**ParSigDB.** Several calls store sets of signatures. The lock is taken for every
signature on its own, and calls interleave in between, with `Trim` and the clock.
A call ends early when a signature mismatches, when `MessageRoot` fails and when a
subscriber of either kind returns an error.

**AggSigDB.** In the first implementation a goroutine owns the map and serves
commands and queries; in the second one a lock guards it and readers poll. A
variable chosen in the initial state says which of the two runs, as the feature
flag does.

**DKGSync.** Clients and stream handlers with a program counter per stream. A
relay may reset a stream while its handler is at work, so that the handlers of an
old and a new stream of a peer run at the same time, and the old one clears
`connected` when it notices. A node may fail at any time. At the end a node waits for
its peers to shut down, serves for the shutdown delay, and exits whether or not its
last responses have arrived.

**DKG.** Each node is at one place of the ceremony; messages are a set, delivered
in any order, late, or twice. What a process generates is represented by its
number, so that two processes of one node can be told apart after a restart. The
first FROST message of a peer counts, while a node signature overwrites the one
before it, as in the two callbacks.

**Workflow.** For each node: what was fetched, the duties whose consensus it
runs, DutyDB, what its validator client signed, what it sent to its peers and
AggSigDB. The last duty is a proposal, an aggregation or a sync contribution,
together with the duties it depends on. Aggregates and contributions are pairs of
the root they belong to and their content: the validator client queries them by the
root that it has signed itself, and waits if another one was decided. A node that
decides cancels its consensus instance, so a slower one may be left behind and
never learn the decision (`LeftBehind`). One node may be down, faulty (it
takes part in consensus with any value and signs different data for different
peers), or a node may restart and lose its databases.

## What the runs check

| Run | Instance | Result |
| --- | --- | --- |
| `qbft_safety` | 3 nodes, 2 values, 2 rounds | agreement, validity, every broadcast passes its receivers' checks, the sanity check never fires, committed values are locked |
| `qbft_restart` | 4 nodes, one restart | finding, see below |
| `consensus` | 2 proposals, 1 participation, messages of 2 peers | values are known when sent, subscribers get one value, calls return |
| `scheduler` | 2 validators, 2 epochs of 2 slots, a failure, a reorg | answers are complete, slots are triggered, what is triggered does not change, callers are released |
| `scheduler_reorg` | the same, with later ticks | finding, see below |
| `deadliner` | 4 duties, 2 callers, room for 2 | the earliest deadline is waited for, output is in order, `Add` returns, duties are output, refinement of `DutyExpiry` |
| `dutydb` | 4 duties, 3 committee indices, 2 readers | answers agree, stored data will be deleted, queries are answered |
| `parsigdb` | 2 validators, 3 shares, threshold 2, 2 calls | one signature per share, reported sets can be aggregated, thresholds are reported, once, and own signatures reach the peers |
| `aggsigdb` | 2 writers that clash, 1 reader, both implementations | refinement of `AggSigStore`, waiting calls are answered, stopping releases all |
| `dkg_sync` | 2 nodes, 3 steps, a reset, a failure | steps are in sync, only failures fail, every node ends |
| `dkg` | 3 nodes, 2 deposit amounts, a restart, a failure | broadcasts agree, shares belong to them, exchanges get their own data, nobody writes before all can |
| `workflow` | 4 nodes, one faulty, down, restarting or left behind | one signature per duty, only decided data is signed, duties do not wait for each other for ever |

Some properties hold only with an exception that the code really has. Each
exception is part of the statement:

- `CallsReturn` (`Consensus`): if the deadline deletes the instance between two
  lookups of it, the result goes to another instance and a waiting `Propose` is
  not answered.
- `StoredWillBeDeleted` (`DutyDB`): a deadliner that finds its channel full drops
  the duty, and data of that duty stays for ever.
- `AnswersAgree` (`DutyDB`): a duty that is added in the very instant of its deadline
  may be output, deleted and stored again, with other data.
- `AnsweredUnlessFailed` (`DutyDB`): a `Store` that fails half-way returns before
  waiting queries are resolved, though some of their data is there.
- `ThresholdIsReported` (`ParSigDB`): a call that fails half-way through its set does
  not report the thresholds it has reached itself.
- `OwnSigIsExchanged` (`ParSigDB`): the call of `StoreInternal` for that very signature
  returned an error to the validator client.
- `AwaitIsAnswered` (`AggSigDB`): a reader that polls misses data that is stored and
  deleted between two of its looks.
- `ReportedOnceIfSame` (`ParSigDB`): a late signature over another root finds the
  group of exactly threshold signatures again and reports it a second time.
- `OnlyFailuresFail` (`DKGSync`): a handler that is overtaken by the next stream
  of its peer before it has stored the first step may refuse that step. And a
  shutdown delay that is too short fails a node that has completed its work: the
  response to its last message was lost with the stream, and its peer has exited
  (the code logs "Consider increasing --shutdown-delay if this occurs often").
- `AllNodesEnd` (`DKGSync`): a node whose clients are all done does not notice that
  a peer failed before it shut down, and waits until the ceremony times out.
- `DutiesComplete` (`Workflow`): sync messages are not agreed upon, and may miss
  the threshold if beacon nodes have different heads; fewer nodes than the threshold
  may learn a decision before the others cancel their instances; with a faulty leader
  an aggregate or a contribution may be decided that clients do not ask for; and a
  node that restarts has lost its databases.

### Findings

- `qbft_restart`: the comment on `isDuplicatedRule` says it returns true if the
  rule was executed since the last round change. A process that jumps into a
  round through a PRE-PREPARE records the rule before `changeRound` clears the
  record, so that it votes again in that round when a restarted leader proposes
  another value there.
- `scheduler_reorg`: a comment of `HandleChainReorgEvent` says that duties are
  resolved again in the next slot. A resolution that runs at the same time marks
  its epoch as resolved when it ends, so that the duties of the old chain stay.

One comment is wrong about code that is right, and has no run of its own: the one on
`getCurrDuty` (`core/deadline.go:217`) says "It selects duty with the latest
deadline.". The code selects the earliest, which `run` needs and `CurrIsEarliest`
states. `CurrDutiesLatest`, which does what the comment says, violates it.

### Bounds

Bounds are constants, or state constraints in the MC modules, and are named there.
They are the smallest that let the interesting cases happen: two rounds of QBFT
let a value be prepared, committed by some, and proposed again by another leader;
two callers let every pair of critical sections interleave; two keys let one part
of a set fail; an output buffer of one or two fills up; three DKG nodes let a
sender reach one peer and not the other; four workflow nodes are the smallest
cluster with a fault. In the `dkg` run a node fails on its own from the second step on
(`FailStep`), and a ceremony with a restart is explored until a node fails: a
failed node only takes no more steps, so its peers can do before what they do
after. The `dutydb` constraint
explores two pairs of duty types one after the other, with a deadliner channel for
one duty, so that one is dropped when two expire. In the `workflow` run one thing goes
wrong (`MaxMishaps`): a faulty node, a restart, or a node that is left behind. The
`scheduler` runs trim after two epochs where the code does after three, as the clock
stops before that. `CertView` identifies QBFT
states that differ only in which quorum justifies a message; `SentAreJustified`
shows that receivers accept them all. Symmetry is used for safety only.

### Fairness

Liveness is checked under weak fairness of goroutines: each keeps running when it
can, as the Go scheduler guarantees. `Deadliner` needs strong fairness of its
receive from a caller, because Go's `select` chooses at random among ready cases
and so does not pass over one for ever, and weak fairness of its clock.
`Consensus` also assumes that an instance ends when its duty's deadline cancels
the context. `DKGSync` assumes nothing of resets and failures. `DutiesComplete` is
stated without fairness: unless all is done some step of a correct node is enabled,
and no such step repeats.

## What is proved

The proofs hold for every value of the constants under the named assumptions of
the modules. Each shows that an inductive invariant holds initially and is kept by
every action.

- **QBFT** (`QBFTProofs`): type correctness (with
  it, justifications are never nested), agreement, validity, locking of committed
  values and single votes, for any number of nodes, values and rounds, if no
  process loses its state. Agreement is not inductive. The invariant (`IInv`) says
  that a proposal of a round is *safe*: for each earlier round some quorum has
  committed the same value or moved on without committing, so that no other value
  can ever get a quorum there. It also says that a ROUND-CHANGE tells its sender's
  last COMMIT, and that a leader proposes once in a round.
  A second invariant on top of it (`JInv`) gives that every broadcast passes the
  checks of its receivers and that the sanity check never fires: what a process
  has prepared with is a quorum of PREPAREs, of different sources, for its
  prepared round and value, and what it decided with is a quorum of COMMITs. That
  the sources differ rests on single votes, so this too needs processes that keep
  their state.
- **Deadliner** (`DeadlinerProofs`): the earliest deadline is waited for, output
  is in order, and the refinement of the safety part of `DutyExpiry`. The
  invariant adds that the duty in the inner select is pending and due.
- **DutyDB** (`DutyDBProofs`): all properties of the run, for any set of duties,
  inputs and calls. Agreement of answers needs a history: the second call may come
  when the data of the first was deleted. The invariant (`IInv`) says that a value
  that a call got is still stored, or was deleted when its duty had expired and no
  `Store` that was accepted earlier is still at work on it (`Dead`), so that it is
  never stored again. This rests on the order of `Store`: the deadliner is asked
  first, and deletion, by the same lock, comes last. To know which duty a key is
  deleted with, the invariant says that every stored key belongs to one duty and
  is in its index, the copies for committee index 0 included. A query that waits
  for data which is there waits for the `Store` that has put it there, unless one
  failed. That the duty of stored data is still with the deadliner, or was dropped by
  it (`StoredWillBeDeleted`), rests on the same order and is proved for a channel of
  any capacity.
- **ParSigDB** (`ParSigDBProofs`): all properties of the run, for any number of
  duties, validators, shares and concurrent calls and every threshold. The
  invariant `IInv` adds what a call in flight holds; with it, one signature is
  stored per share, reported sets can be aggregated, and a threshold that is
  reached is reported or about to be. Two more are proved on top of it. `OwnInv`:
  an own signature that is stored was exchanged, or is in the hands of a call of
  `StoreInternal`, or that call has returned an error for it, since a call of
  `StoreExternal` never has one. `OnceInv`: while
  a duty is not trimmed and its signatures have one root, at most one call holds a
  set to report for a key, none does once it was reported, and neither happens
  before the threshold is stored.
- **AggSigDB** (`AggSigProofs`): both implementations refine `AggSigStore`, for any
  number of duties, validators, calls and sets to store. The invariant says that
  the index covers all data, so that deleting by it deletes the duty; that a duty
  in the deadliner's output, or taken from it by `Run` of the second implementation
  and not yet deleted, is due; and that a query which is blocked or not yet
  received has no answer. Every step then maps to one of the promise or changes
  nothing that it speaks of: a command with the blocked queries it answers, a query
  and a `Store` of the second implementation are each a `Put`.
- **DKGSync** (`DKGSyncProofs`): steps are in sync, for any number of nodes, steps,
  resets and failures. A report may be out of date when it is stored, and the
  handler of a reset stream may store it after a newer one arrived. The invariant
  says why that does no harm: steps only grow, so no report, in a handler or
  stored, exceeds the step of its sender, and one that passed `validReq` comes
  from a node with the same definition, or the server has an error, which it
  never loses. This is the barrier that `DKG` builds on.
  A second invariant (`JInv`), on top of it and for ceremonies with at least one
  step, gives `OnlyFailuresFail`. `updateStep` refuses a first step above 1,
  and later one that is lower than the one stored or more than two above it, so
  the invariant relates, for each pair, the step that the server has stored, those
  in the handlers of the current and of earlier streams, and the step of the node
  itself. While nothing is stored, neither the node nor any report is past step 1.
  Later the node is at most one step ahead of what is stored and, by the barrier,
  its peer at most one ahead of the node, and newer streams carry later steps. Hence the handler of a stream that is not broken
  accepts what it gets, no server has an error and no client is hung up on. A third
  invariant (`KInv`) is about the end: a handler has a last message only if its client
  was shut down, which its node does after the last step, so when a node exits all
  others have completed their work, and only they may fail for want of its response.
- **DKG** (`DKGProofs`): all properties of the run, for any number of nodes and
  deposit amounts, wherever nodes fail and if the process of one node restarts,
  however often. Broadcasts and shares are *certified*: every peer has signed the
  broadcast for its ID, and signs no other, or is the node that restarted and may
  have forgotten; then the sender itself did not restart and has one message only.
  Messages stay certified when they are late, repeated, or sent by a process that
  is gone. An exchange gets its own data because a node stores its own signature
  of a type in the exchange of that type only, so no other type can be complete,
  and at most one element is ever in the channel or about to be. A node writes
  last because it is then at step 6, and the barrier gives that all peers are.
- **Workflow** (`WorkflowProofs`): one signature per duty and only decided data
  is signed, for any number of nodes of which less than a third are faulty. The
  invariant says that stored data was decided, that a node sent what its client
  signed, and that an aggregated signature has a threshold of signers; two
  thresholds share a correct node, which signs once. The model lets a duty be
  decided once. The QBFT proof gives that for processes that follow the code and
  keep their state. With faulty or restarted nodes it is an assumption of these
  theorems, which no module here discharges.

Only model-checked:

- everything about liveness, and `DutiesComplete`: the prover does not handle
  fairness or `ENABLED`;
- the properties of `Consensus` and `Scheduler`: an inductive invariant would have
  to tell what every goroutine has read, at each place between two critical
  sections, and has not been worked out.

## Not modelled

- Cryptography, encodings, hash roots and the content of data: a value stands for
  its root, and a signature for its signer and the data.
- Progress of QBFT with its buffers and timers. The model evaluates rules on all
  messages, a superset of what `Run` does when a message arrives, which is right
  for safety and too generous for progress. Any round may time out at any moment,
  so the durations of `roundtimer.go` do not matter.
- The tracker, peer info, health checks and metrics, which only observe.
- The priority protocol and infosync, which agree on supported versions through
  the same consensus.
- The recaster, validator registrations and exits, whose signatures depend on no
  other duty, and the shutdown of the retryer.
- The peer to peer layer and the beacon node client: their effects (loss, delay,
  repetition, errors, different answers) are the environment of the models.
- Life cycle, configuration, command line and the files of the cluster
  definition, lock and manifest: sequential code and I/O.
