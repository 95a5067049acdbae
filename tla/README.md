# A TLA+ model of MXKeys

MXKeys is a Matrix key notary: it fetches the signing keys of Matrix servers,
keeps them in memory, in a database and in a transparency log, and answers for
them with its own signature. Several notaries form a cluster that shares the key
cache, through last-writer-wins gossip or through a Raft log of its own. This
project models the parts of it that run concurrently, fail or restart.

## The system and its modules

| Part | Source | Modules |
|---|---|---|
| Raft: elections, replication, write path, apply loop, compaction, recovery | `internal/zero/raft`, `internal/cluster/runtime.go`, `snapshot.go` | `Raft`, `RaftProperties`, `MCRaft`, `MCRaftOvertaking` |
| chunked snapshot transfer | `snapshot_send.go`, `snapshot_rpc.go`, `pending_snapshot.go`, `snapshot_load.go` | `SnapshotTransfer`, `MCSnapshotTransfer` |
| write-ahead log and its promise | `wal*.go` | `WAL`, `DurableLog` |
| offline WAL upgrade | `walupgrade`, `cmd/mxkeys-walctl` | `WALUpgrade`, `MCWALUpgrade` |
| gossip mode of the cluster | `internal/cluster` | `Gossip`, `MCGossip` |
| key fetcher and circuit breaker | `internal/keys/fetcher*.go`, `circuitbreaker.go` | `Fetcher`, `CircuitBreaker` |
| server discovery | `internal/keys/resolver*.go` | `Resolver`, `MCResolver` |
| query path of the notary | `internal/keys/notary*.go`, `storage*.go` | `Notary` |
| trust policy, analytics, transparency log, Merkle tree, verifier | `internal/keys`, `internal/zero/merkle`, `cmd/mxkeys-verify` | `TrustPolicy`, `Analytics`, `Transparency`, `Merkle`, composed by `Ledger`, `MCLedger` |
| migrations, signing key, readiness, shutdown | `internal/storage/migrations`, `keyprovider`, `internal/server`, `cmd/mxkeys` | `Server` |
| rate limiter | `internal/server/ratelimit.go` | `RateLimiter` |

The proofs are in `RaftTypeProofs`, `RaftProofs` (elections and snapshots) and
`RaftLogProofs` (the log in memory and on disk), all of module `Raft`,
`RaftFileProofs` (`SnapshotTransfer`, `WALUpgrade`), `ServerProofs` (`Server`,
`RateLimiter`), `FetcherProofs` (`Fetcher`, `Resolver`), `NotaryProofs` and
`GossipProofs`.

How the parts interact: a query (`Notary`) looks into the memory cache and the
database, then fetches (`Fetcher`), which resolves the server (`Resolver`) and
asks it or a fallback notary. The response goes to analytics and transparency
log (`Ledger`) and to the other nodes, by gossip (`Gossip`) or as a Raft command
(`Raft`), where it comes back as a replicated response (`Notary`). `Raft` writes
through the WAL (`WAL`) and catches up followers with snapshots
(`SnapshotTransfer`). `Server` starts and stops all of it.

The modules meet at their promises. `Notary` assumes that a fetch returns, which
is `FetchReturns` of `Fetcher`. `Raft` treats a WAL append as one step with an
outcome, which `DurableBeforeReturn` and `AppendReturns` of `WAL` support for a
file without torn records; what a torn record does is in `WAL` and `DurableLog`,
and `Raft` leaves it out. `Raft` sends a snapshot as one chunk; that a snapshot in
several chunks arrives whole is proved in `RaftFileProofs`. These links between
modules are arguments, not checked compositions; the composition that is checked
is `Ledger`.

Operators marked *Mutant* are plausible bugs of the definition that follows
them; replacing the definition by its mutant makes a property fail, which shows
that the property depends on that line of the code. `TypeOK` in a module states
the types of its variables.

## State and code

### Raft

The variables keep the names of the `Node` struct (`state`, `currentTerm`,
`votedFor`, `log`, `logOffset`, `snapshotIndex`, ...). In addition:

- `wal`, `snapFile`: the two files. A rewritten WAL keeps a `Gone` record in
  place of a removed one; replay skips it.
- `votes`: the counter of `startElection`, as the set of voters.
- `applying`: the entry with which the apply loop is inside `onApply`.
- `keys`, `raftLastApplied`: `c.state`.
- `persisting`, `waiting`: `Submit` calls in `persistEntry` and in
  `replicateEntry`; `acked`, `rejected`: commands whose `Submit` returned.
- `snapTask`: who holds `snapMu` and how far it is; `catchUp`: running
  `driveInstallSnapshot` goroutines.
- `msgs`: requests and responses in flight.

One action is one critical section of `n.mu` or `c.state.mu`. What the code does
between two critical sections interleaves with every other goroutine and node:
`sendAppendEntries` is `SendAppendEntries` and `HandleAppendEntriesRes`, `Submit`
is `SubmitPublish`, `SubmitPersisted` or `SubmitPersistFailed`, and
`SubmitReturn`; `CompactLog` is `CompactSave` and `CompactFinish`;
`handleInstallSnapshot` is `HandleInstallSnapshot`, `InstallDecoded`, and
`InstallFinish` or `InstallFail`. `Spec` lets processes run on, `CrashSpec` lets
them restart.

Sections that are merged, and why that loses nothing the properties see:

- `CompactSave` is provider, validation and `SaveSnapshot`. `snapMu` is held
  throughout, and the state the provider captured can only fall behind.
- `CompactFinish` and `InstallFinish` include the WAL truncation. A truncation
  that fails or comes later leaves records that replay skips. The second check
  of the index in `CompactLog` is left out because it cannot fail
  (`CompactionTheorem`). `InstallFinish` also includes the rename; a crash
  between them is a crash after `InstallFinish`, since replay skips the records
  the truncation would have removed.
- `SubmitPersisted` is the WAL append and the critical section after it.
- `SendInstallSnapshot` reads file and term together. An older file under the
  same term is a snapshot that was sent earlier.
- `HandleInstallSnapshotRes` is `exchangeSnapshotChunk` and the bookkeeping,
  which runs also after a step-down.

Abstractions: time (an election starts at any moment; the pre-vote round only
delays it); leader hints; chunks; a command is a number and writes a key of its
own; at most one catch-up goroutine per peer (two can only send the same file
twice). The network loses, delays and reorders. It does not duplicate: an RPC is
one request and one response on a connection of its own, and retries are new
requests. `conn` is false once the caller has died. A failed disk write may or
may not have left its record in the file.

### SnapshotTransfer

One follower and several senders, each with a stream of chunks. `pending` is the
tuple of the transfer under way, `recv` the spill file, `snapFile` the file that
a restart would load. `handleInstallSnapshot` is one action per way it can end
before the installer runs, and `Install`, `InstallFails` and `Finish` after it,
as `n.mu` is not held meanwhile. A chunk is a model value, a CRC the sequence of
chunks it was computed from; a size is a number of chunks. What an install does
to log, commit index and keys is in `Raft`. That two replicas have the same file
for the same index is an assumption here (`File` depends on the index only); in
`Raft` it is `SnapshotDeterminism`.

### WAL and DurableLog

`Append` is `AppendBegin`, `AppendSend` and the reply; `flushLoop` receives,
drains, writes and replies; `Close` and both truncations take `w.mu` in turn with
it. `file` is what the process sees, of which a prefix of length `synced`
survives a crash. Header and payload of a record are written one after the other,
so a failed write or a crash may leave a fragment (`Torn`), behind which replay
reads nothing.

`DurableLog` is what remains of the promise that `Append` is durable before it
returns (`wal_append.go:25-27`): an entry may become stable, a call may return nil
only if its entry is, and nothing but a truncation takes it away. The one
exception is a `damaged` file, one with a fragment: there an acknowledged entry
need not be readable, until a truncation rewrites the file. `WAL` implements it:
`DurableBeforeReturn` is the specification of `DurableLog` under the mapping
`stable <- ` what a restart would read, `call <- ` the calls without their internal
steps, `damaged <- ` a fragment is in the file. The refinement shows that nothing
else breaks the promise; `WALTorn.cfg` shows the exception.

### WALUpgrade

`Upgrade` step by step over the three files `raft.wal`, `raft.wal.upgrade` and
`raft.wal.v2-backup`, with a failure or a kill at every step, the rollback of the
runbook, and starts of the service (`OpenWAL`). `short` records that `readV2`
took a failed read of a payload for the end of the log, which the code does.

### Gossip

`nodes`, `keys` and `localNode` are those of `Cluster`. A join is one connection
per seed with its steps (`joining`); the state is pulled once, on joining.
`BroadcastUpdate` is separate from storing, as the code stores under the lock and
sends without it. `gap` is a history variable with three causes: a message was
lost; an update was broadcast while its writer did not know a node that will not
pull the state from it any more; or a node ended with an update that another
running node lacks, or that it alone kept. The code repairs none of the three, as
it has no periodic synchronisation.

### Fetcher, CircuitBreaker, Resolver, Notary

`CircuitBreaker` has the breaker's methods as operators on its map; `Fetcher` has
the goroutines of `FetchServerKeys` around them: breaker, semaphore, direct
attempts with retry, fallbacks. `Resolver` follows one server name whose owner
moves it between sites; each lookup is the cache read, the question and the
storing of the answer. A failed SRV lookup returns no records and is therefore
kept as not found, for 30 minutes (`resolver_srv.go:97`, `:54`), although the two
minutes of line 56 are meant for a "temporary DNS error"; only a failure that
leaves some records beside the error gets those. `ServedFresh` covers errors as
well as answers, so that it bounds how long a failed lookup hides a published
record. `Notary` follows one origin server that rotates its keys;
a response is a version and the time left, decreased by `Tick` wherever the
response is kept. Storing of a fetched response to database and cache, the
shared fetch of `singleflight` and the fallback to a stale entry are separate
steps, and so are the two writes of a replicated response (`applied` is what lies
between them). A fallback notary may answer with anything it has, expired
responses too, since `fetchFromNotary` does not look at the time; a peer
broadcasts what it fetched, from the origin or from a fallback. `served` says of
an expired response whether it was kept or had been fetched that moment:
`ExpiredNotKept` excludes the first, and `NotaryExpired.cfg` shows the second.

### Ledger

`QueryKeys` checks the policy, signs the response, checks it again, records the
observation and writes log entries; each INSERT is done, fails, or is done with
its answer lost. `Transparency` has the methods of `TransparencyLog` as operators
on table and memory, each of which holds `tl.mu` throughout; `Cleanup` is two
steps, as the rebuild is separate from the DELETE. A hash is the tuple it covers,
so that equal hashes mean equal inputs. `Merkle` computes roots and proofs level
by level as the code does and has the recursive RFC 6962 definition beside it for
comparison. `TrustPolicy` matches patterns part by part as the code does;
`WildcardAgrees`, an assumption in `MCLedger`, compares that with the meaning of a
pattern. There is one process per table: that every broken link is a lost answer
is shown for one writer only.

### Server and RateLimiter

Two processes on one database, each with its own key directory. `New` is
migrating, loading or creating the key, and listening; `gracefulShutdown` is
`Signal`, `Drain`, `Drained` and `CloseDatabase`. Without a passphrase
`LoadOrGenerate` refuses to start beside an encrypted key, if `os.Stat` sees it;
when `os.Stat` fails for another reason than absence, the key is passed over
(`PassOver`) and a second identity may follow, which `IdentityKept` leaves out. A
load balancer probes readiness and sends requests to what it last saw ready.
`RateLimiter` keeps the list of visitors by the positions of their last use.

## Runs

| Run | Bounds | Properties |
|---|---|---|
| `replication` | 3 nodes, 2 terms, 2 commands, one candidate at a time, 1 message in flight, in the first term 2 | `ElectionSafety`, `LogMatching`, `CommittedAgree`, `LeaderCompleteness`, `MatchIndexSound`, `MatchIndexMonotonic`, `CommitIndexMonotonic` |
| `compaction` | 3 nodes, 1 term; 2 commands around 1 compaction, or 1 command and 2 compactions, with 1 message in flight; 1 command and 1 compaction with 2 | `LogIndexInvariant`, `MatchIndexSound`, `AckedOnMajority` |
| `recovery` | 3 nodes, 1 term, 1 command, 1 apply step, 1 compaction, 1 failure or 1 restart | `NoGapOnDisk`, `MatchIndexBounded` |
| `wal` | 3 concurrent appends, channel of 1, 1 failure, 1 truncation, 1 crash, torn records | `DurableBeforeReturn`, `AppendReturns` |
| `gossip` | 2 nodes, 2 updates of one key, 3 starts, 1 stop, 1 loss | `NothingForgotten`, `StampsNeverGoBack`, `Convergence` |
| `fetch` | 2 callers, 1 slot, threshold 2, 1 fallback, 2 outages, 2 cancellations | `ProbesBounded`, `TripsEarned`, `FetchReturns`, `Recovers` |
| `resolve` | 2 callers, 2 sites, 1 move, 1 failed lookup | `ServedFresh`, `FindsServer` |
| `notary` | 2 queries, 1 rotation, 1 failure, 1 replicated response | `ExpiredNotKept`, `FollowsRotation`, `QueryReturns` |
| `ledger` | 5 servers, 3 queries, 1 failed INSERT, 1 restart, 1 cleanup | `BreaksAreLostAnswers`, `TreeIsLog`, `InclusionProvable`, `HistoryIsLogged`, `NoFalseAlarm`, `MostActiveIsTop` |
| `server` | 2 processes, 2 migrations, 1 signal, 1 crash, 1 failure, 1 change of passphrase | `SchemaInOrder`, `IdentityKept`, `NoRequestRefused`, `NoRequestAborted`, `ShutdownCompletes`, `AllServe` |
| `revote` | 3 nodes, 1 term, 2 commands, 1 restart: counterexample | `CommittedAgree` |
| `persist` | 3 nodes, 1 term, 2 commands, 1 failure: counterexample | `CommittedIsPersisted` |

Why these bounds are enough for what they are to show:

- Raft: two terms and two commands are the least that give a conflicting tail and
  its replacement. A commit of an old-term entry by counting (the case the
  current-term rule of `updateCommitIndex` exists for) needs four terms and is
  not reached; `LeaderCompleteness` is shown for two terms only. Two messages in
  flight are the least that overtake each other, requests or replies; with two
  all the way the state space is out of reach. `MCRaftOvertaking` therefore
  remembers that one was sent beside another and bounds the rest of such a
  behaviour: to one term in `replication`, to one command and one compaction in
  `compaction`. One compaction with two commands leaves an entry above the
  snapshot; with two compactions, the install of one node's snapshot meets the
  compaction of another node. One failure or restart
  can fall into every gap between two actions (`OneFault`: either, not both).
  `compaction` and `recovery` stay in one term. The
  constraint `OneCandidate` cuts behaviours in which two nodes are candidates at
  the same moment; two nodes may still campaign in one term one after the other,
  and `ElectionSafetyTheorem` covers every election among nodes that do not restart.
- `wal`: three callers and a channel of one give a full channel, a batch of two
  and a caller that comes during the flush.
- `gossip`: with the constraint `NotExcused`, behaviours are followed up to the
  first gap or tie. Both are permanent (`gap` and `written` only grow), and from
  there on `NothingForgotten` and `Convergence` promise nothing. The constraint
  also cuts `StampsNeverGoBack`, which is shown up to that point only. Three
  starts for two nodes let one of them start again. Two nodes cannot show a
  third one that is left out.
- `fetch`: one caller more than the semaphore admits, and a second outage, which
  may come while the circuit is half open.
- `resolve`, `notary`: one caller that is slow and one that overtakes it. The
  times to live keep the order they have in the code.
- `ledger`: a query writes several entries when its response has several keys, so
  that trees with odd and even levels occur. Of the five servers one is denied,
  one matches no pattern and one is a private address. Symmetry permutes the two
  that the policy admits; their names play no part beyond the policy.
- `server`: two processes are the least that can migrate at the same time.
  `Predrain` is larger than `ProbeEvery`: `NoRequestRefused` assumes that the
  operator sets `predrain_delay` above the interval of the probes.

Deadlock is checked in `server`. The other runs stop when their bounds are used
up.

### What the Raft runs do not show

The Raft properties hold under conditions, and some fail just beyond them. Each
condition is part of the formula or of the run:

- `LogMatching`, `CommittedAgree`, `LeaderCompleteness` and `MatchIndexSound` are
  shown for nodes whose disk writes succeed and that do not restart. One failed
  write of the leader violates all four, in one term and without a restart (the
  cause is the finding of `persist`). One restart violates all four, and
  `ElectionSafety` (the cause is the finding of `revote`).
- `CommitIndexMonotonic` also needs that nothing is compacted: a request that was
  built after a compaction has `prevLogIndex` 0 and no entries, and a follower
  takes its commit index from it. `commitIndex` is volatile, so a restart
  lowers it by design.
- `MatchIndexMonotonic` is about replies to AppendEntries and checked where nothing
  is compacted: `SendInstallSnapshot` sets `matchIndex` without a comparison, so a
  late reply can lower it.
- `AckedOnMajority` holds under one undisturbed leader, a condition that its
  formula states. A failed write, a second vote or a later leader breaks it.
- `MatchIndexBounded` holds with one fault, a condition that its formula states,
  and not with a restart and a failed write together.
- `KeysComplete` is not claimed: it has a counterexample without any fault
  (`MCRaftRollback.cfg`).
- `LogIndexInvariant` is proved without restarts, for any failures; with a restart
  it has a counterexample (`MCRaftReplay.cfg`).
- `NoGapOnDisk` is proved without restarts, for any failures; with a restart it is
  model-checked only. `recovery` with two commands and one restart holds
  (4,807,611 states, 12 minutes).

The runs of the other modules were repeated with one or two bounds raised (a second
crash, failure, truncation, restart, cleanup, signal or change of passphrase; a
third outage; a second server or move; longer lifetimes; three gossip nodes with
one update; two stops of gossip nodes) and hold there too. Gossip with three
updates did not finish.

### Fairness

- `wal`: goroutines that can run do run; strong fairness where a goroutine waits
  for a channel that others also use, or for one ready case of a `select`, as Go
  serves channel waiters in order and chooses ready cases at random. A goroutine
  outside has not to call anything.
- `gossip`: messages in flight are handled or lost, joins and broadcasts go on.
- `fetch`: attempts end, since requests have timeouts; the semaphore serves its
  waiters in order (strong fairness of `Acquire`); time passes. `Recovers` adds
  that somebody keeps asking, because nothing but a request closes a circuit.
- `resolve`, `notary`: lookups, fetches and messages end; time passes however
  busy the callers are. `FollowsRotation` adds that clients go on asking.
- `server`: processes go on, the supervisor restarts them, probes and time go on.
  Nothing makes a handler return: `ShutdownCompletes` rests on the deadline.

The Raft runs assume no fairness. Whether a leader is elected depends on
randomised timers, which the model replaces by "at any moment".

### Further instances

These configurations answer questions of their own and are run by hand, with
`tlc -config <file> <module>`.

| Configuration | Shows |
|---|---|
| `MCSnapshotTransfer.cfg` | an instance of what `RaftFileProofs` proves of the transfer |
| `MCWALUpgrade.cfg` | an instance of what `RaftFileProofs` proves of the upgrade |
| `RateLimiter.cfg` | an instance of what `ServerProofs` proves of the limiter |

## Where code and documentation disagree

Two disagreements are runs:

- `persist`: `Submit` says of a published entry that "commitIndex will not advance
  past it until persist succeeds (enforced by the post-persist updateCommitIndex
  call below, which is the only caller on the leader's write path)"
  (`lifecycle.go:106-109`). `sendAppendEntries` calls it too, for every successful
  reply (`replication.go:96`), and it counts the leader itself. If the write fails
  afterwards, `Submit` removes a committed entry and the next command gets its
  index in the same term.
- `revote`: the vote is never written, and the term is rebuilt from snapshot and
  WAL. A restarted node votes a second time in a term, and two leaders of one term
  commit different entries. `docs/adr/0001-cluster-consensus-modes.md:57` and `:61`
  promise quorum commit and data preserved on restart.

The others are configurations that end in a counterexample:

| Configuration | Property | Code and text |
|---|---|---|
| `MCLedgerChain.cfg` | `ChainVerifies` | an entry's hash covers nanoseconds, the column keeps microseconds, so `VerifyChain` rejects an untouched log; `docs/transparency-verification.md:134` says it returns valid |
| `MCLedgerConsistency.cfg` | `ConsistencyProvable` | consistency proofs fail for most pairs of sizes; `consistency.go:29-31` names RFC 6962 |
| `MCRaftRollback.cfg` | `KeysComplete` | a snapshot older than what was applied replaces the key map, while the reported index stays; `internal/cluster/snapshot.go:79-81` says the bytes reflect the index |
| `MCRaftReplay.cfg` | `LogIndexInvariant` | two `Submit` calls reach the WAL in the opposite order and replay keeps that order; `raft.go:106-108` states the invariant |
| `MCRaftAck.cfg` | `AckedIsCommitted` | `replicateEntry` compares only the index, so `Submit` returns nil for an overwritten command; `internal/cluster/state.go:67-75` |
| `MCRaftTailRewritten.cfg` | `FailedSubmitRemovesItsOwn` | the check before the truncation does not compare terms; `lifecycle.go:118-120` says a rewritten tail is left alone |
| `WALTorn.cfg` | `AckedReadable` | a torn tail is skipped and never cut off, so later records are not read; `persistence.go:164` says "truncating to last well-formed record", `wal_append.go:25-27` durable before return |
| `MCWALUpgradeCrash.cfg` | `CrashIsHarmless` | a kill between the two renames leaves no `raft.wal`, and a started service makes an empty one; `walupgrade.go:12-16`, `docs/runbook/raft-wal-upgrade.md:55-58` say the log is intact |
| `MCGossipTie.cfg` | `TiesResolved` | equal timestamps keep the caches apart; `state.go:29-31` says "LWW on (Timestamp, Hash) resolves conflicts" |
| `NotaryExpired.cfg` | `ServedUnexpired` | an expired response of a fallback notary is served to those who share the fetch (`fetcher_notary.go:75-81` does not look at the time); `docs/federation-behavior.md:167`: "expired cryptographic material MUST NOT be served as valid" |

Met while reading, without an instance: the cluster reacts to the same context as
the server and stops before the HTTP drain (`cluster.go:248-251`,
`server_lifecycle.go:40`); a plaintext key whose removal failed is not scrubbed
later (`file.go:105-107`); an encrypted key that `os.Stat` fails to see is
ignored, unlike the comment at `file.go:140-143`; failed SRV lookups are not kept
as temporary (`resolver_srv.go:53-56`); comments name `readyz`, the route is
`/_mxkeys/ready`; `key-rotation.md:30` describes a key history that a restart
empties; the verifier compares sizes and roots only
(`transparency-verification.md:139-141`).

## Proofs

TLAPS proves, for every value of the constants that the modules' assumptions
admit:

| Theorem | Statement | Argument |
|---|---|---|
| `TypeCorrectness` | `Spec => []TypeOK` of `Raft` | `TypeInv`: the types, who may hold `snapMu`, and bounds between indices that keep subtractions above zero |
| `ElectionSafetyTheorem` | `ElectionSafety` | `VoteInv`: a vote, in a message or counted, is the recorded vote of its voter in that term; two majorities share a voter |
| `CompactionTheorem` | `CompactionNotSuperseded`: the second check in `CompactLog` cannot fail | a conjunct of `TypeInv`: who holds `snapMu` is alone in moving `snapshotIndex` |
| `SnapshotMonotonic` | file and `snapshotIndex` never go back | `SnapFileInvariant` relates both to the task that holds `snapMu` |
| `LogIndexTheorem` | `LogIndexInvariant` | `IndexInv`: the entries of every request in flight follow its `prevLogIndex`, so that whatever is appended continues the count; compaction and install move `logOffset` by what they drop |
| `NoGapTheorem` | `NoGapOnDisk` | `AllCovered`: each entry in memory is below `raft.snapshot`, in `raft.wal`, in a `Submit`, or rejected. A truncation of the file keeps the records of what stays in memory because indices and positions agree (`LogIndexTheorem`), and the snapshot file only moves forward (`SnapshotMonotonic`) |
| `SnapshotArrivesWhole`, `RecordedMatchIsInstalled`, `SpillFileIsOpen` | a follower's snapshot is whole, a recorded match is on its disk, a spill file is open when needed | `TransferInv`: what is spilled is a prefix of the file of the pending transfer, and every request is a piece of its file |
| `UpgradeLosesNothing`, `GapIsTheOnlyOne` | one of the files holds every record; the only gap is between the renames | `IInv`: what each of the three files holds at each stage of the tool |
| `SchemaTheorem` | `SchemaInOrder` | `Segments`: what a process has read is an initial segment of the migrations; the one in a transaction has them all, and the primary key of the version row admits one |
| `IdentityTheorem` | `IdentityKept` | `KeysSafe`: a key that has been used is in the file that is loaded next, as long as no encrypted key was passed over |
| `RefusedTheorem`, `AbortedTheorem` | `NoRequestRefused`, `NoRequestAborted` | `Traffic`: a process that the load balancer takes to be ready listens beyond the next probe; a request is left after the drain only if that timed out |
| `BoundedVisitors`, `SweepComplete`, `SweepForgetsNothing` | bounds of the rate limiter, and its cleanup | `LimiterInv`: the list is ordered by last use, and idle time refills buckets |
| `ExpiredNotKeptTheorem` | `ExpiredNotKept` | `Fresh`: no row is expired, nor is what a query has read from one; no time passes while it is stored |
| `ProbesTheorem`, `TripsTheorem` | `ProbesBounded`, `TripsEarned` | `Counters`: the counters of a circuit and the history of its server move together |
| `ServedFreshTheorem` | `ServedFresh` | `LookupsRecent`, `CacheRecent`: an answer or error under way or kept was true no longer ago than its age and one lookup |
| `NothingForgottenTheorem` | `NothingForgotten`, if every node is a seed of every other | `Kept`: while there is no gap, some running node has the update, and each other one has it, is being sent it, or will still pull it from one that has it |
| `StampsTheorem` | `StampsNeverGoBack` | `applyEntryLocked` and `mergeState` keep the later stamp |

The Raft theorems are about `Spec`, with failing disks and without restarts; with
restarts election safety does not hold (`revote`). They rest on the assumptions of
module `Raft`: a finite set of nodes and bounds that are numbers. As the bounds
are arbitrary, the theorems cover any number of terms, commands, messages,
failures and compactions. `RefusedTheorem` rests on the assumption of `Server`
that the predrain delay exceeds the interval of the probes. The proofs of
`RaftFileProofs` and those of the limiter state their assumptions as a hypothesis:
`Setting` has the snapshot of an index the same on all senders, `UpgradeSetting`
only types the constants, and `Configured` has an idle limit no shorter than the
refill time.

Only model-checked: liveness, which is out of the prover's reach; log matching,
commit agreement, leader completeness, `MatchIndexSound`, `MatchIndexBounded`,
`MatchIndexMonotonic`, `CommitIndexMonotonic` and `AckedOnMajority` of `Raft`; the
refinement of `DurableLog`; and `Ledger`, whose Merkle trees, proofs and chains
are recursive.

## Not modelled

- Pre-vote, leader hints and proposal forwarding delay or route requests. A
  leader grants pre-votes, unlike the comment at `election.go:27-28`.
- Whether a snapshot transfer gets through: every heartbeat may start another
  one, and two streams of several chunks can reset each other.
- Loss of power in the key directory (`writeAtomic` does not sync it).
- Message authentication, signature and address checks, encryption of the key:
  pure checks, which appear as an outcome.
- HTTP handlers, server information, canonical JSON, configuration, logging,
  metrics, TLS, the landing page: formatting and I/O without state of their own.
- `ComputeAggregates`, `TrustPolicy.Reload` and the breaker's `Reset` have no
  caller outside tests; so has `TransparencyLog.Cleanup`, which is modelled. The
  rows of `server_keys` are written and not read by the query path.
- A wildcard pattern whose first and last part overlap in the name panics; the
  model has that outcome, and `WildcardAgrees` leaves these names out.
