# A TLA+ verification of Lightwave's replicated directory servers

Lightwave is an identity platform: a directory server, a certificate authority,
a DNS server, a token service and the agents that use them. Two of its parts have to
be right under concurrency and failure: **lwraft** (`lwraft/`), an LDAP
directory server whose database is replicated with a variant of the Raft
protocol, and **vmdir** (`vmdir/`), the older directory server, whose replication
is multi-master. This directory models lwraft's replication
(`lwraft/server/replication/`), vmdir's write queue
(`vmdir/server/middle-layer/writequeue.c` and the operations that use it) and
vmdir's replication (`vmdir/server/replication/` and the supplier's side in
`ldap-head/`), checks them with TLC and proves most of their safety properties with TLAPS.

## 1. Inventory

### 1.1 The parts of lwraft's replication

Every server keeps `gRaftState` (`structs.h`), guarded by `gRaftStateMutex`; an MDB
main database (directory entries and `cn=persiststate`) with one writer at a
time; an MDB log database (one entry per log); and `gLogEntry`/`gEntries`, the log of the write in progress,
which belongs to the thread that holds the main database's write lock. Its threads:

| thread | code | what it does |
|---|---|---|
| vote scheduler | `_VmDirRaftVoteSchdThread`, `_VmDirEvaluateVoteResult` | election timeout, new term, own vote, evaluation, no-op log of a new leader, application of the logs before it |
| peer proxy, one per peer | `_VmDirRaftPeerThread`, `_VmDirRequestVoteRpc`, `_VmDirAppendEntriesRpc` | synchronous calls to one peer: votes, pings, logs, catching up |
| LDAP worker, peer side | `_VmDirRequestVoteGetReply`, `_VmDirAppendEntriesGetReply` | the two RPC handlers, serialised by `gRaftRpcReplyMutex` |
| LDAP worker, client side | `VmDir{Add,Modify,Delete}RaftPreCommit`, `VmDirEncodeLogEntry`, `VmDirAddRaftEntry`, `VmDirRaftPrepareCommit` | a client's write, from the pre-commit hook to the commit callback of MDB |
| log applier | `_VmDirRaftLogApplyThread`, `_VmDirApplyLogsUpto`, `_VmDirApplyLog` | applies committed logs on followers |
| log compactor | `_VmDirRaftLogCompactThread` | removes old logs |

They interact through `gRaftState`, five condition variables
(`gRaftRequestPendingCond`, `gGotVoteResultCond`, `gPeersReadyCond`,
`gRaftAppendEntryReachConsensusCond`, `gRaftNewLogCond`), the MDB write lock, and,
between servers, two LDAP searches with controls (RequestVote, AppendEntries).

What distinguishes this protocol from the Raft paper, and makes it worth
checking:

* a call carries at most one log, and a follower deletes *everything* above
  `preLogIndex` before it stores it, whether it conflicts or not;
* the leader's log is durable before it is replicated, but `lastLogTerm` follows
  only at the commit;
* `votedFor` and `votedForTerm` are never written to disk;
* the term is written to disk outside the mutex, by whichever thread raised it;
* answers are not matched to the term of the request;
* a new leader holds `gRaftRpcReplyMutex` until its no-op log is committed and the
  logs before it are applied;
* `lastApplied` moves before the transaction of a client's write is committed.

### 1.2 The parts of vmdir's replication

*The write queue.* Every write takes an update sequence number (USN) and a place in
a queue, waits until it is at the head, writes in an MDB transaction and
leaves the queue; the one that leaves from the head moves `maxCommittedUSN`. Clients
(`VmDirInternal{Add,Modify,Delete}Entry`) and the replication thread
(`Repl{Add,Modify,Delete}Entry`) use it, and take the queue's mutex, the MDB writer lock,
the schema mutex and the state mutex in different orders. `VmDirdStateSet` waits for the
queue to drain when the server is made read-only. Partners rely on the order
the queue gives: they ask for what is above the highest `usnChanged` they have.

*Replication.* A server pulls from each of its partners in cycles of pages
(`_VmDirConsumePartner`). The supplier (`ProcessCandidateList`, `replscope.c`,
`controls.c`) sends entries in the order of their `usnChanged`, with the attributes the
consumer's up-to-date vector does not cover. The consumer resolves conflicts attribute by attribute
(`_VmDirReplAttrConflictCheck`), keeps what it cannot apply in a queue
(`replqueue.c`), and saves the vector and the high-water mark at the end of the
cycle (`VmDirReplCookieUpdate`). When the supplier is itself consuming, the consumer goes on
asking; the deadlock detection vector counts empty pages and ends cycles that
would wait for one another.

### 1.3 What makes each part correct

* *Election*: one vote per server and term; a count is backed by that many votes of the
  term counted; at most one leader per term; a stale leader steps down.
* *Log replication*: no index and term is used twice; equal index and term means equal
  prefixes; a leader has every log committed before its term; a committed log stays with a majority; no
  applied log is ever deleted; together, the cluster is one log that only grows and servers that apply
  prefixes of it.
* *Application*: each log is applied exactly once, in order, although a new leader, the
  apply thread and clients all write the database; a crash at any point leaves a
  database that is what the logs up to `lastApplied` make; every committed log is applied.
* *Compaction*: no log is removed that is not applied, and what a follower still needs
  stays.
* *Codec*: unpacking a packed log, or list of logs, gives it back.
* *Write queue*: no USN is committed after a partner has gone past it; every write
  gets its turn or a timeout; a change to read-only ends.
* *Multi-master replication*: the vector and the high-water mark of a server cover only what it has; the
  servers converge; no cycle goes on for ever.

The behaviours that are hard to test are listed at their lines under `hazards` in
`PROJECT.json`.

### 1.4 The rest of the repository

`vmafd`, `vmca`, `mutentca`, `vmdns`, `vmevent`, `vmidentity`, `ui`, `config`, `plugins`,
`tools`, and the front ends, stores and schema code of the two directory servers: each is a
component in `PROJECT.json` with the reason why it is not modelled. See also
section 6.

## 2. The modules

| module | content |
|---|---|
| `RaftElection` | elections at the granularity of critical sections |
| `RaftElectionProofs` | TLAPS proofs about `RaftElection` |
| `RaftReplication` | logs: writes, replication, catching up, deletion, restart |
| `RaftReplicationInv` | the inductive invariant behind the safety of the log |
| `RaftReplicationProofs` | TLAPS proofs: the types of `RaftReplication` |
| `RaftStepProofs` | TLAPS proofs: what each action does, and lemmas about majorities, paths and the tree of logs |
| `RaftSafetyProofs` | TLAPS proofs: the invariant, and the safety properties |
| `RaftLog` | the abstract log that `RaftReplication` implements |
| `RaftLogProofs` | TLAPS proof of the refinement |
| `RaftApply`, `RaftApplyProofs` | one server: how its logs become its database; TLAPS proofs |
| `WriteQueue`, `WriteQueueProofs` | vmdir's write queue, its locks, and a partner that pulls; TLAPS proofs |
| `VmdirReplication` | vmdir servers that pull from each other |
| `VmdirReplicationInv`, `VmdirReplicationProofs` | the inductive invariants behind it; TLAPS proofs |
| `MC...` | TLC instances of each |

The first three specifications look at the same code from three sides. `RaftElection` has
every interleaving of scheduler, proxies, handlers and `VmDirPersistTerm`, and
abstracts a log to its rank; `RaftReplication` has the logs, and casts a vote in one step;
`RaftApply` has one server's threads and transactions, and takes from
`RaftReplication` what the other servers may do to it. In the same way `WriteQueue` shows
that the USNs of a server are committed in order, which `VmdirReplication` relies on
when a local write takes its number and is committed in one step.

### 2.1 RaftElection

| state | code |
|---|---|
| `role`, `currentTerm`, `votedFor`, `votedForTerm`, `voteConsensusCnt`, `voteConsensusTerm`, `cmd` | the fields of `gRaftState` |
| `psTerm` | `ATTR_RAFT_TERM` of `cn=persiststate` |
| `persisting` | the terms that threads of the server are inside `VmDirPersistTerm` with |
| `pc`, `schdTerm` | where the vote scheduler is, and its local `term` |
| `rpc[s][p]` | `s`'s proxy thread for `p`, its call and the handler that serves it (one record, since the call is synchronous) |
| `ballots`, `tally`, `elected` | history, read only by properties (and by the proof) |

An action is one critical section of `gRaftStateMutex` or one MDB transaction.
`ElectionTimeout`, `PeersBecameReady`, `VoteForSelf`, `VoteResult`,
`EvaluateVoteResult` and `NoopDone` are the scheduler's loop, cut where it waits
or unlocks; `TakeCmd`, `SendRequestVote`, `SendPing`, `RequestVoteReply`,
`PingReply`, `RpcFail` and `RpcDone` the proxy's; `RequestVoteGetReply` and
`AppendEntriesGetReply` the handlers; `PersistTerm` the disk write, in any order;
`Restart` a crash followed by `VmDirLoadRaftState`.

Timeouts are nondeterministic: a follower may time out at any time, which covers
lost pings, the forced election of `VmDirRaftFollowerInitiateVoteSrv`, and the
settings of `lastPingRecvTime`; likewise the wait for the vote result may end at any time. The ping of an
idle leader stands for every AppendEntries call: the term and role part of the handler is the same.

`RpcOutlivesRound` says whether a call may be unanswered when its sender starts
another election round. The code permits it: the scheduler wants only half of the
proxies idle, and the timeout of a call is the election timeout *in seconds* instead of
milliseconds (`raftldaprpc.c:101,296`). With `FALSE` the model describes a network
in which calls are answered, or fail, promptly.

### 2.2 RaftReplication

| state | code |
|---|---|
| `log[s][i]` | the term of the log with index `i` in the log database of `s`, or `NoLog` |
| `lastLogIndex`, `lastLogTerm`, `commitIndex`, `indexToApply`, `lastApplied` | `gRaftState` |
| `write[s]` | the write that holds the MDB write lock: index and term chosen, or log added (`gLogEntry`) |
| `replicated[s]` | the proxies with `bLogReplicated` |
| `call[s][p]` | the AppendEntries call of a proxy, with its arguments, or its answer |
| `orphans` | calls whose caller has given up but which the peer has not executed yet |
| `written`, `reused`, `committed`, `fatal` | history: every log ever added, as index, term and term of the log before it; whether a pair of index and term was used twice; what was committed, and in which term; a server in `fatal` is down |

`PreCommit`, `AddRaftEntry`, `CommitWrite`, `AbortWrite` and `RetryConsensus` are
a client's write; `EvaluateVoteResult` a new leader with its no-op log, which
continues with the same three actions; `SendAppend`, `SendPing`, `ReplyMismatch`,
`ReplyMatch`, `ReplyAfterLeadership` and `CallFail` are `_VmDirAppendEntriesRpc`;
`AppendEntriesGetReply` and `ServeOrphan` its handler; `ApplyLog` the apply thread.

Abstractions:

* A log is its index and term; `NoReuse` checks that this identifies it.
* `gRaftState.cmd` and a proxy's `matchIndex` decide only *when* a proxy sends the pending log; a free
  proxy of a leader may ping or send it at any time.
* A handler is one step. It holds `gRaftRpcReplyMutex` from beginning to end, and
  the only other thread that changes logs is the writer, which needs the role the
  handler has just taken away; the window from `PreCommit` to `AddRaftEntry` is
  two steps, so the handler does run in it.
* Fetching the next log and sending it is one step of the proxy.
* Votes are one step, and the term is on disk at once: a restart finds the term it had. In the code
  `VmDirPersistTerm` runs outside the mutex, and several threads may leave a lower term on disk than the one
  in memory. That is in `RaftElection`, where `PersistTerm` writes in any order and `Restart` reads `psTerm`.
* A proxy that steps back to a log its server does not have ends the call: `_VmDirFetchLogEntry` finds
  nothing and returns 0, and `VmDirAllocateAndCopyMemory` refuses the empty log (`thread.c:1456`).
* `RetryConsensus` clears `replicated` and is visible only with more than three
  servers: with three, no consensus means that nothing was replicated.
* The apply thread rereads `indexToApply` for every log.
* The lastApplied that a restart finds on disk is that of the last log that is no
  no-op, since applying a no-op writes nothing; a no-op is recognised as the first
  log of its term.
* `firstLogIndex` is 1 and the cluster starts with one log applied everywhere: an empty log
  database, and the answer 0 it would give as "last log index", is left out, as are
  compaction, the 5000-log gap (whose answer is that of a failed call) and the
  quorum override.
* A fatal error ends the process (`assert`), and the server stays down.

### 2.3 RaftLog, and the refinement

`RaftLog` is what the cluster promises: `chosen`, a log that only grows, and
`applied[s]`, prefixes of it (`Advance`); a crash makes a server repeat logs (`Repeat`). The refinement
mapping (`ImplementsRaftLog`, end of `RaftReplication`) takes `chosen` to be the
history variable `committed` (set where the code counts a majority) and `applied[s]`
to be the logs of `s` up to its `lastApplied`. That a deleted, rewritten or
missing log below `lastApplied` is not a step of `RaftLog` is what makes it worth
checking. The refinement is checked by two runs and proved (`ClusterIsOneLog`, section 4.2).

### 2.4 RaftApply

| state | code |
|---|---|
| `role`, `indexToApply`, `lastApplied`, `disallowUpdates` | the fields of `gRaftState` |
| `log`, `db`, `dbApplied` | the log database, the entries of the main database (which log wrote each), `ATTR_RAFT_LAST_APPLIED` |
| `mainTxn` | the thread that keeps the write transaction of the main database |
| `thread["apply"]`, `thread["vote"]` | where the two callers of `_VmDirApplyLog` are, with their loop variables |
| `client` | a client's write: waiting for consensus, or between `VmDirRaftPrepareCommit` and the commit |
| `decided`, `asserts` | history |

`CheckLog`, `ApplyOneLogEntry`, `ApplyFails`, `LogFailed` and `SetLastApplied` are
`_VmDirApplyLog`, cut where it unlocks; `Wake` and `Start` the apply thread's loop;
`ElectionTimeout`, `StepDown`, `Elected`, `VoteConsensus` and `VoteFail` the role and
the vote thread; `AppendEntries` the handler of a follower; `ClientWrite`,
`ClientConsensus`, `ClientAbort` and `ClientCommit` a client's write; `Restart` a crash and `VmDirLoadRaftState`.

A log adds, modifies or deletes one entry, or is a no-op; adding an entry that exists, or
changing one that does not, fails, which is how a log applied twice or out of order
shows. Other servers are `AppendEntries` calls with any previous index, log and commit index that
`RaftReplication` permits (nothing decided is deleted). The constants:

* `SlowApply`: may the role change and change back, or an election be won, before the apply
  thread, busy with a log, notices? The code permits it; an election takes seconds
  and a log milliseconds.
* `CommitOutcome`: `{TRUE}`, or `BOOLEAN` if the commit of a client's write may fail.

Of the ways in which applying a log fails, `ApplyFails` has the failing transaction. A failed read of the
log (`_VmDirFetchLogEntry`, `thread.c:2572`) is left out: it leaves `logEntry.index` 0, and the error path at line
2630 then skips the log, as it does in `apply_skipped`.

### 2.5 WriteQueue

| state | code |
|---|---|
| `kind`, `pc`, `schemaOp`, `usn`, `sleep` | each writing thread: its operation, next step, queue element, and where it is in `VmDirWriteQueueWait` |
| `queue`, `maxCommittedUSN`, `nextUsn` | the write queue, the highest committed USN, the USN sequence |
| `pMutex`, `mdb`, `schemaMutex` | owners of `gVmDirServerOpsGlobals.pMutex`, the MDB writer lock and `cacheModMutex` |
| `readOnly`, `draining` | `vmdirdState`, and `VmDirdStateSet` waiting with the state mutex locked |
| `db`, `lastUsnProcessed`, `received` | committed numbers; the partner's high-water mark and what it has |

The order in which the three kinds of operation take their steps is the table
`After`. `LockQueue` and `Push` are `VmDirWriteQueuePush` (two steps, since it needs the MDB
writer lock with the queue locked); `Wait`, `Timeout`, `SpuriousWakeup`, `WaitAgain` and
`LeaveWait` are `VmDirWriteQueueWait`; `Pop` is `VmDirWriteQueuePop` and the release of the schema mutex
that follows it in the cleanup, in one step; `FetchPage` is a page of the
partner, with the check of `ParseSyncRequestControlVal`. A change is its number: the
entry written does not matter to the queue.

`Fail` is an operation whose cleanup pops its element. `FailUnpopped` is one whose cleanup does not: `ReplAddEntry`
(`replentry.c:171-211`) and `ReplDeleteEntry` (`replentry.c:380`) bail out between their push and the call of
`VmDirInternalAddEntry` or `VmDirInternalDeleteEntry`, for metadata they cannot read or an attribute type the schema
does not know as well as for want of memory. The element is freed with the operation
(`VmDirFreeOperationContent`) and its node stays in the list, so the place is read after the free. What it reads as is
nobody's number, for which its old number stands, unless the memory becomes a later operation's element. Left out
are a signal on the freed element's condition variable that ends the process (`Restart` is a crash) and a place that happens to read as 0, which an
operation that fails before its push would take out of the list.

* `DrainWhileReplicating`: may the server be made read-only during a replication
  cycle?
* `LateSpuriousWakeup`: may a spurious wake-up fall on the end of the write timeout?
* `ElementReused`: may the memory of an element freed in the queue become that of the element that is pushed
  next, so that its place in the queue reads as the new number? `MaxUnpopped` bounds the elements left behind.

### 2.6 VmdirReplication

| state | code |
|---|---|
| `db[s][e]` | an entry's `usnChanged` and its attributes' metadata (version, originating server, originating USN, local USN) |
| `nextUsn`, `utd`, `hwm` | USN sequence, up-to-date vector, high-water mark of each agreement |
| `cycle[s]` | the cycle of `_VmDirConsumePartner`: partner, step, page, collected vector and mark, additions already sent, failed entries |
| `vector[s]` | the deadlock detection vector |
| `writes` | history of local writes |

`Add`, `Modify` and `Delete` are local writes; `BeginCycle`, `Apply`, `Reapply`, `PageDone`,
`SaveUtd`, `SaveHwm` and `Fail` the consumer; `Search` (one MDB read transaction) and `Reply`
(`VmDirUpdateSyncDoneCtl`, later) the supplier. The value of an attribute is its metadata:
two servers with the same version, originator and USN have the same value.
A deleted entry stays in `db` as a tombstone, with `isDeleted` set and its attributes removed; it is found by
its objectGUID (`Exists`) and no longer by its DN (`Live`), blocks neither the deletion of its parent nor a
late modification, and keeps an addition of the same objectGUID out.

* `Overlap`: may a request fall between two steps of the supplier's own cycle,
  its end included? With `FALSE` a supplier answers between pages only.
* `Initial`: entries that all servers have from the initial copy; `MaxFail`: cycles that are cut off.
  An entry is added at one server only, never below an entry that some server has deleted,
  and no server deletes an entry that has a child elsewhere which it does not know of: the code logs these conflicts
  as not resolved (`replentry.c:225`, `236`, `406`).

## 3. The runs

Sizes are distinct states.

| run | instance | result |
|---|---|---|
| `election` | 3 servers, equal logs, 2 rounds, prompt calls | passes; 2,658,000 |
| `election_live` | 2 servers, one with an older log, 2 rounds, 1 lost call, 1 crash, fairness | passes; 29,000 |
| `replication` | 3 servers, 3 terms, 4 indexes, late answers | passes; 1,610,000 |
| `replication_crash` | 3 servers, 3 terms, 3 indexes, prompt calls, 1 failed call, 1 crash; refinement | passes; 1,413,000 |
| `replication_live` | 2 servers, 3 terms, 3 indexes, 2 calls at a time, 1 failed call that may be executed late, 1 crash, forgotten votes; refinement, fairness | passes; 334,000 |
| `apply` | 2 entries, 4 logs, 3 elections, 1 crash or failed transaction, fairness | passes; 182,000 |
| `writequeue` | 2 clients, the replication thread, 5 USNs, 1 element left in the queue, 1 change to read-only, 1 crash, fairness | passes; 1,141,000 |
| `vmdir` | 3 servers in a chain, a parent and its child, 4 writes (additions, modifications, deletions), pages of one entry | passes; 801,000 |
| `vmdir_pair` | 2 servers, 2 entries, 2 writes (modifications, deletions), 1 failed cycle, requests at any moment, fairness | passes; 394,000 |
| `election_late` | 3 servers, 3 rounds, late answers | violates `ElectionSafety` |
| `apply_skipped` | a slow apply thread | violates `DatabaseIsLog` |
| `writequeue_drain` | 1 client, the replication thread, read-only during a cycle | violates `DrainEnds` |

Deadlock is not checked in the runs of elections, logs and the write queue, whose rounds, terms, indexes and
numbers are bounded, so that every instance comes to an end; it is
checked in `apply`, `vmdir` and `vmdir_pair`, where pings and cycles go on.

### 3.1 What the passing runs show

*Elections and logs.* With prompt calls and no crash in an open election, elections and logs are safe
in every interleaving of the instance: leaders change, leave logs behind that are
partly replicated, the next leader deletes them or commits them through its
no-op, and no two servers ever apply different logs. The window between
choosing a log's index and adding the log is harmless. The bounds are the smallest with which this
happens: two rounds let two servers compete and a second term follow the
first; three terms (the first is that of the installed cluster) and four
indexes let a leader be deposed with an uncommitted log, and a second one write a
conflicting log, commit it and delete the first one's. A third leader after them needs a fourth
term; with four terms, three indexes and prompt calls TLC finds no error either
(2,404,000 states), but that instance is too long to be kept as a run. Each property is broken by a
mutant of the code within the same bounds (`mutants` in `PROJECT.json`).

AppendEntries answers that arrive in a later term of their sender (`replication`) can crash a
peer but, with three servers, do not corrupt logs; with prompt calls (`replication_crash`) they cannot
crash a peer either (`NoFatalError`). With
two servers a majority is everyone, and even after a forgotten vote or a late
execution the two implement the abstract log (though the late execution may crash one of them).

*Application.* Four logs and three elections let a follower become leader with logs it
has not applied, apply them in the vote thread while a client waits to write, step down with a
log of its own that the next leader keeps or deletes, and crash between the commit and
the setting of `lastApplied`. With one entry and five logs TLC finds no error either
(377,000 states; too long to be kept). Two entries are needed to tell logs applied out of order
from logs applied twice. The signal on `gRaftNewLogCond` that is lost on a busy thread is made up for by the next ping
(`CommittedIsApplied`).

*Write queue.* Two clients and the replication thread meet in every order at the four
locks: although the queue and the schema mutex are taken in opposite orders by clients and
`ReplAddEntry`, the write timeout gets everyone out (`EveryWriteEnds`), and neither a timeout, a failure nor
a crash lets a partner go past a number that is committed later. A replicated write that leaves its element behind makes
every later write time out until the server is started again; it loses nothing. `EveryWriteEnds` and `DrainEnds` make
one exception, `DrainHangs`: a change to read-only that finds such an element in the queue waits for it for ever with
the state mutex locked, and the clients that call `VmDirdState()` wait with it. TLC finds both violated without
the exception, so the write timeout does not help there.

*Multi-master replication.* In the chain the middle server is consumer and supplier at once; with pages of
one entry, four writes are enough for a child in a page before its parent, an
attribute changed or an entry deleted while its addition is in flight, an entry that is a tombstone before it is first
sent, and a page taken while the supplier's cycle is half
done. With two attributes (3,024,000 states) or five writes (7,925,000) TLC finds no error either; with five,
a child can come and go with its parent within one cycle, and the consumer ends without its tombstone, which is why
`VectorIsTrue` and `HighWaterIsTrue` ask only that such an entry is not shown (`Gone`).
`NotAhead` is why a supplier never turns a partner away with "Partner is ahead of my changes" (`controls.c:1134`).
`ChangesWin` says that changes to an attribute are only ever replaced by winners, in every order of arrival; a deletion is taken over
with all that comes with it, which is why the entries deleted somewhere are exempt.
The pair has conflicts on one attribute, modifications that meet a deletion, and a cycle cut off at every point.

Symmetry (`Permutations(Server)`) is used in the runs with invariants only, and where all logs
have the same rank; the refinement of `replication_crash` is a safety property, and its mapping does not
tell servers apart.
The state constraint of `election_late` only narrows the search (one server
never stands for election, no leader pings): a counterexample within it is one
without it, and no passing run has a constraint.

### 3.2 Fairness

*Election.* Weak fairness of a server's threads (the scheduler once it has started a
round, each proxy, each disk write): the threads are runnable and their waits
time out. Strong fairness of the handlers: a leader keeps pinging, and a connection that fails is
re-established, so the peer is reached infinitely often and must serve a call
eventually although single calls fail. The election timeout and crashes are not fair.

*Log replication.* Weak fairness of proxies, handlers, the apply thread, and of adding and
committing a log; none of failures, votes or new writes. `FollowersCatchUp` says `[]<>` because a leader
may always have a newer log; `MaxIndex` ends the writes.

*Application.* The threads run, waits for consensus end (with or without it, the wait is timed), and a server that is not the
leader gets pings. Elections, clients, failures and crashes are not fair.

*Write queue.* Threads run, timed waits end, the partner asks. Beginning an operation,
failing, the change to read-only and its end, and crashes are not fair.

*Multi-master replication.* Within a cycle the consumer stops nowhere and the supplier
answers (weak fairness); the replication thread goes round its agreements for ever, so each gets its turn
although the other's cycle may be in its way at any single moment (strong fairness of `BeginCycle`).
Cycles that fail are not fair. `CyclesEnd` is checked on the pair: with
three servers and a supplier whose own cycles restart at a count of zero each time it is asked, a
consumer may be told to go on for ever.

### 3.3 What the violating runs show

Each is a disagreement of the code with what its comments say; `findings` in
`PROJECT.json` quotes them.

* `election_late`: a candidate of term 2 gets a vote of term 2 after it has moved to
  term 3 and counts it there. `TallyIsReal` fails with it. Comparing the request's
  term with `voteConsensusTerm` (`thread.c:1231`) would close it.
* `apply_skipped`: the apply thread refuses a log because the server is no follower, before it has
  read the log; the error path compares the index of a log that was never read, 0, with
  `lastApplied` and takes the log for applied by another thread (`thread.c:2630`). If the
  server is a follower again, the next log is applied and this one never.
* `writequeue_drain`: `VmDirdStateSet` waits for the queue with the state mutex
  locked (`utils.c:194`); `ReplAddEntry` is in the queue and calls `VmDirdState()`. Neither ends.

### 3.4 Behaviours the passing runs leave out

The following are outside the passing runs because the code does not hold up to
them; the constants named here make TLC show it.

| constants | violated | what happens |
|---|---|---|
| `RaftReplication`: `RpcOutlivesRound = TRUE`, 3 servers | `NoFatalError` | a call of an old term is rejected; its sender, leader again by then, reads a log mismatch (`thread.c:1418`); the earlier log it sends makes the peer delete an applied log, and the `assert` ends the process |
| the same, 5 servers, 6 terms | `CommittedStays`, `LeaderCompleteness` | the confirmation of a log of term 3 arrives when its sender, deposed in between and told to delete the log, leads in term 5 and waits for consensus on another log of that index; it is counted (`thread.c:1490`), and a log that two of five servers hold is committed (TLC finds this with the elections before it prescribed) |
| `MaxFail = 1`, `MaxOrphan = 1`, 3 servers | `CommittedStays` | a call given up by its caller is executed after the log that followed it was committed, and deletes it from a member of the majority (`raftldaprpc.c:647`) |
| `ForgetsVote = TRUE`, `MaxRestart = 1`, 3 servers | `LeaderCompleteness` | a vote is lost in a crash (`raftldaprpc.c:491`); the voter votes again and two leaders of a term commit different logs |
| `RaftApply`: `SlowApply = TRUE` | `NoAssert`, `LastAppliedIsTrue` | besides `apply_skipped`: both threads are at the same log, one finds it applied already, or sets `lastApplied` back |
| `CommitOutcome = {TRUE, FALSE}` | `LastAppliedIsTrue`, `DatabaseIsLog`, `NoAssert` | `lastApplied` stays at a write whose commit has failed (`thread.c:1834`) |
| `WriteQueue`: `LateSpuriousWakeup = TRUE` | `NoneSkipped` | the wait ends by time, but its last result is no timeout: a write that is not at the head goes on (`writequeue.c:103`) |
| `MaxUnpopped = 1`, without the exception `DrainHangs` | `DrainEnds`, `EveryWriteEnds` | a replicated addition or deletion fails after its push and is not popped (`replentry.c:171-211`, `380`); the queue never empties, and a change to read-only keeps the state mutex for ever |
| `MaxUnpopped = 1`, `ElementReused = TRUE` | `NoneSkipped`, `HighestCommittedIsFinal` | the freed element at the head of the queue becomes that of a later write, which finds itself at the head before its turn (`writequeue.c:109`) and is committed before a smaller number |
| `VmdirReplication`: `Initial = {}`, `MaxFail = 1` | `VectorIsTrue` | an addition is sent again with newer attributes, after a cycle that was cut off; it is taken for a conflict and they are lost (`replentry.c:225`) |
| `Initial = Entry`, `MaxFail = 1` on the chain | `VectorIsTrue` | 2 has had the first page of a cycle, whose vector covers a change that comes later in the cycle, when its cycle is cut off; 3 has pulled that page on from 2, and 2, no longer consuming, tells it that this was all (`controls.c:403`). 3 saves a vector that covers the change, and no supplier ever sends it |
| `Overlap = TRUE` on the chain | `VectorIsTrue` | the supplier's own cycle ends between its search and the question whether it is consuming (`search.c:1351`): an old page counts as the last |
| three servers, `{<<2, 1>>, <<3, 1>>, <<3, 2>>}`, a parent and its child, 5 writes | `VectorIsTrue` | the child reaches 2 before its parent and fails; both are deleted at 1, and 2 ends its cycle without the child's tombstone (`thread.c:735` empties the queue). 3, which has both from 1, pulls from 2: the deletion of the parent is refused because the child is there (`replentry.c:295`), 2 has no tombstone of the child to send, and 3's vector covers both deletions |

Two further facts of the code are in the models but of no consequence for the properties above: a follower's
`commitIndex` goes back when the leader probes earlier logs (`raftldaprpc.c:666`), and an answer may name a term
that is not on disk yet (`raftldaprpc.c:498`).

## 4. The proofs

No theorem bounds the cluster or the counters: the bounds of the runs are
constants, and the proofs hold for all their values.

### 4.1 Elections

`RaftElectionProofs`, for every `Server`, `LogRank` and every value of the bounds:

* `TypeCorrect`: `Spec => []TypeOK`, with no further assumption (calls may fail
  and outlive their round, servers may restart).
* `InvariantHolds`: `Spec => []ElectionInv`, if `MaxRestart = 0` and
  `~RpcOutlivesRound`; that both are needed is what a vote lost in a restart
  (`ForgetsVote` in section 3.4) and `election_late` show.
* `ElectionSafe`, `VotesAreUnique`, `TalliesAreReal`: `Spec => []ElectionSafety`,
  `[]OneVotePerTerm` and `[]TallyIsReal`, under the same assumptions.
* `LeadersUnchallenged`: `Spec => []LeaderNotChallenged`, under the same assumptions. It takes one
  more fact, `LeadersElected`: a server that is leader has been elected in the term it is in, so a
  majority of ballots of that term is its own.

The argument. None of the properties is inductive by itself. `ElectionInv` (end of
`RaftElection`) adds, conjunct by conjunct:

* `TermsOrdered`: recorded terms never exceed `currentTerm`;
* `VotesRemembered`: `votedFor`/`votedForTerm` are the *last* ballot of a server, so a
  new ballot is either of a higher term or repeats the old one, and votes are unique;
* `RpcsOfThisRound`: a vote asked for belongs to the round being counted or to a
  later term. A granted answer that is counted when `currentTerm = voteConsensusTerm` is
  therefore of exactly that term, and a ballot exists for it. This is the
  conjunct that needs `~RpcOutlivesRound`;
* `TallyBacked`, `PeersCountedOnce`, `RoundsSeparate`: a peer is counted once per
  round (its proxy cannot take the command up again, because it resets `cmd`
  before it is idle), so the count is the cardinality of a set of real voters;
* `LeadersBacked`: every leader has a majority of ballots.

Two majorities of a finite set meet (lemma `MajoritiesIntersect`), the server in both voted once,
hence one leader per term. The step proof has one lemma per conjunct and in it
one case per action.

### 4.2 Log replication

`RaftReplicationProofs.TypeCorrect` (`Spec => []TypeOK`) takes no assumption but those on the
constants: it covers late calls, orphaned calls and forgotten votes. The others assume
`Prompt`: no call outlives the round of its server (`~RpcOutlivesRound`), none is
executed after its caller has given it up (`MaxOrphan = 0`), no vote is forgotten
while its election is open (`~ForgetsVote`). Calls may still be lost and servers
crash, and cluster, terms and indexes are arbitrary. The first four rows of the table in section 3.4
show that none of the three can be dropped for the properties together: without each of them one is violated.
(For the properties of the run `replication` alone, TLC finds no violation with late answers on its instance of three
servers. With five there is one, the second row of that table: `ConfirmsWrite` compares the index of an answer and not its term. In a cluster
of three the sender and the server that confirms a log are a majority, so such a log is deleted only in a larger one.)

* `SafetyHolds`: `Spec => []SafetyInv`;
* `LeadersComplete`, `ServersAgree`, `LogsMatch`, `CommittedKept`, `NothingReused`,
  `NoServerDies`: the six invariants of the runs;
* `RaftLogProofs.ClusterIsOneLog`: `Spec => ImplementsRaftLog`, step by step.

The argument. lwraft deletes everything above `preLogIndex` whether it conflicts or not, so
the usual lemma "a follower's log only loses conflicting entries" is false: a call
that is under way may shorten a peer's log below what is committed, unless something
is known of *every* call under way. `SafetyInv` (module `RaftReplicationInv`) is built for that:

* `TreeOK`: the logs ever written are a tree (the third component of `written` is the
  parent), and the logs of each server a path in it. Two paths that meet at a log
  agree below it: this is `LogMatching`.
* `VotesOK`, `TermsOK` (`Taken`), `OwnersOK` (`Owns`): a term in which a log was written has had its
  leader for good, and one server only acts for it, with its role, its write or its calls.
* `Settled(n, t)`: all later logs grow above `<<n, t>>` (`GrowsAbove`), a majority holds
  it (`Holds`: has it, will be told by no call under way to drop it (`CallKeeps`), and has given its vote only to candidates
  whose last log is at or after it), and everything below it is committed. Any later
  leader got a vote from that majority, so its logs are above `<<n, t>>` as well.
* `Chosen`, `CommittedOK`, `AppliedOK`: what is committed or applied is below a
  settled log.
* `WaitingOK`: a write that waits for consensus is either held by everyone who confirmed it, or
  doomed, because a majority that has not confirmed it has moved on to a later term. Without the second case the invariant is not
  inductive: a deposed leader goes on counting answers.
* `ChosenWritesOK`: between `PreCommit` and `AddRaftEntry` the log below the write stays
  in place, whatever the handler does meanwhile.
* `CallsOK`, `AheadOK`: a call offers a log that was written, carries a commit index that is that of a settled log,
  and never starts below what its peer has applied; so no server is told to delete an applied log
  (`NoFatalError`).

TLC finds `SafetyInv` true on the instance of `replication_crash` as well (1,413,000 states).
`RaftStepProofs` first says for each action what it changes. `RaftSafetyProofs` shows what is stable (`SettledStable`,
`KeepsStable`, `ChosenStable`, ...), then has one lemma per conjunct (`VotesStep`, `TreeStep`, `CallsStep`,
`WaitingStep`, `AheadStep`, ...) with a case per action that can disturb it, and `SafetyStep` puts them together.

### 4.3 Application

`RaftApplyProofs`: `TypeCorrect` for all constants, from `StructInv` (which threads hold what: the
loops run over committed logs only, one thread keeps the write transaction, a
client's write is the last log until it is committed). With `~SlowApply` and
`CommitOutcome = {TRUE}`, which section 3.4 shows to be necessary, `InvariantHolds` adds
`DataInv`, and from it `DatabaseFollowsLog`, `LastAppliedTrue` and `AssertNeverFails`. `DataInv` says: every log fits the database that
the logs before it make; the apply thread rests while the vote thread or a leader's clients
write; a thread that is at a log is at the next one to apply; and the
database is behind `lastApplied` by no-ops only, or ahead of it by the one log a thread has just applied. The
last part is what a crash between the commit and the setting of `lastApplied` needs.

### 4.4 The write queue

`WriteQueueProofs`: `TypeCorrect` for all constants. `CommittedFinal` (`HighestCommittedIsFinal`) if
`~ElementReused`, from `QueueInv`: the queue ascends, elements left behind included, and each running operation's number
is in it and nobody else's. `NothingSkipped` (`NoneSkipped`) if also `~LateSpuriousWakeup`, from
`OrderInv`: only the head of the queue is past its wait, so committed numbers are below
all numbers under way. With freed memory that is used again, or a spurious wake-up at the end of the wait, that is false
(section 3.4).

### 4.5 Multi-master replication

`VmdirReplicationProofs`; the invariants are in `VmdirReplicationInv`.

*Numbers and conflicts*, for all constants, with cycles cut off anywhere and
requests at any moment: `TypeCorrect`, `MarksNotAhead` (`Spec => []NotAhead`) and the action property
`ConflictsResolved` (`Spec => ChangesWin`). None is inductive. A mark is saved from what a cycle has collected, and that from pages, which come from
the metadata of the supplier's entries, which may come from a third server; `Inv` says of each
of these places that its numbers were given out by the server they name (`DbOK`,
`CyclesOK`), and since numbers only grow they stay so. For the conflicts it also says that an entry a server
does not have was never set there, so an addition replaces nothing, and that a tombstone in any page or queue of
failed entries was deleted by some server (`Dead`, which only grows), so what a deletion overwrites is exempt; a modification has to pass
`Beats`. That a page has a highest number
(the `CHOOSE` of `PageHwm` and `PageUtd`) follows from those bounds and the well-foundedness of the naturals.

*Marks*, for all constants as well: `HighWaterFollowsVector` (`Spec => [](VectorIsTrue => HighWaterIsTrue)`). `MarkInv`
adds to `Inv` that every change anywhere goes back to a write, to a deletion or to the initial copy (`KnownOK`), and that
everything an entry of the supplier below the high-water mark holds is covered by the consumer's vector (`CoverOK`), in a cycle
by the vector it collects, and between the two saves by the vector that is on disk already. So the high-water mark
never loses anything by itself: where it is wrong (section 3.4), the vector is.

*Vectors*: `VectorTrue` (`Calm /\ Spec => []VectorIsTrue`) and `HighWaterTrue` (`Calm /\ Spec => []HighWaterIsTrue`), for any
finite set of entries, any servers and agreements, chains, rings and several routes included, any writes with additions, conflicts and deletions,
any page size and any count of empty pages. `Calm` asks for three things, and TLC shows for each that the other
two are not enough: `~Overlap` and `MaxFail = 0` (violated on the chain without parents, by behaviours of 27 and 17 states), and that entries have no
parents (the last row of section 3.4). The run `vmdir` is the complement: a parent and its child, on the chain.

The argument. A page carries the highest numbers of what it has looked at. The changes of a server are sent in the order of `usnChanged`, which is that of
the *last* change of each entry, so the vector a consumer collects covers earlier changes
that come in a later page, and a server that pulls from this consumer meanwhile collects the same vector. `VecInv` has
two parts.

* `SyncOK`, about the data. `Transfer`: what the supplier has below the mark of the cycle the consumer has, or has as a tombstone,
  or it is in the page. `AddedHas`: of an entry that was sent as an addition in the cycle only what is newer than the
  creation is sent again (`PriorUsnCreated`), and the rest has arrived. `PageOK`: an addition in a page is of an entry that the
  consumer lacks, anything else of one that it has, so that nothing useful is refused; `FailedOK`: what is in the queue of failed
  entries is about tombstones, and `Reapply` never happens. `HeldCovered`, `CreatedKnown`: a server's vectors cover all that it
  holds, which a cycle that is cut off would break. `HasAll`, `Clean`: the server has what the vector on disk covers, and what the vector it
  is about to save does. `IdleOK`: a cycle that ends without saving has received nothing.
* `Ranked`, about those who wait. In the course of a cycle a consumer may *owe* a write (`Owes`): its vector covers it and it
  has not got it. Then its partner has the write or owes it too (`RankPartner`), and in the deadlock detection vector it keeps, or is about to be given, somebody who has or
  owes it has not had enough empty pages (`RankVector`, `RankPage`). By itself this would be satisfied by a ring of servers each of which
  waits for the next. So there is a rank for each server, for every write, with which the debts go down along the
  partners. A server that begins to owe takes a rank above its partner's and above the one it relies on in the vector; nobody relied on it before,
  so no other rank changes. When a cycle ends (`~Again`), nobody in the vector is left, so nothing is owed, and the vector that is saved is true.

TLC finds all conjuncts of `VecInv` true on `{<<2, 1>>, <<3, 1>>, <<3, 2>>}` with two entries and three writes (1,035,000 states), and in simulations of a ring
and of all six agreements of three servers with three entries and nine writes (2,400,000 states each). The proof has one lemma per action and part
(`SyncSearch`, `SyncApply`, `SyncPageDone`, ..., `RankSearch`, `RankAgain`, `RankEnd`, ...); the hardest is the search (`SearchMarked`, `FullPage`): a page that leaves a
candidate out is full, so a page that is not full has shown the consumer everything, and what it still misses its supplier owes.

Proving the types corrected them twice: an earlier `TypeOK` said of failed entries too that a deletion comes with
`isDeleted` in scope; after a cycle that was cut off, a tombstone is sent as an addition, becomes a deletion at the
consumer (`_VmDirReplicationUpdateTombStoneEntrySyncState`) and need not. It holds of what is
still in the page, and TLC confirms both. And that an entry of a page has something in scope was not
said, for want of parentheses.

### 4.6 What is only model-checked

* The liveness properties (`StaleLeaderStepsDown`, `FollowersCatchUp`, `CommittedIsApplied`,
  `EveryWriteEnds`, `DrainEnds`, `PartnerReceivesAll`, `Converges`, `CyclesEnd`): the prover
  does neither fairness nor `ENABLED`.
* `VectorIsTrue` and `HighWaterIsTrue` for entries with parents (`vmdir`): false in general (section 3.4), so they
  would have to be proved of chains, with the queue of failed entries in the invariant.
* `LeaderCompleteness`, `NoReuse` and the refinement with two servers that forget votes or execute
  orphaned calls (`replication_live`), and the logs with late answers (`replication`): outside `Prompt`.

## 5. Plan

Done: `RaftElection`, `RaftReplication`, `RaftLog` and the refinement, `RaftApply`,
`WriteQueue`, `VmdirReplication`; proofs of every invariant and of every action property that the runs check, under the hypotheses of section 4.

Next:

1. `VectorIsTrue` for entries with parents where every change comes on one route.
2. Late answers in a cluster of three (`replication`): `AppliedAgree` and `LogMatching` without `~RpcOutlivesRound`, from
   the fact that there one confirmation is a majority.
3. Membership of the lwraft cluster (`clusterSize` and the proxies' life cycle);
   `RaftLocks`: `gRaftRpcReplyMutex` with the ten-hour wait of the no-op; `RaftCompaction`.

## 6. Not modelled

* Within the modelled components: membership changes, quorum override and shutdown
  (elections); an empty log database, and the answer of a follower 5000 logs behind,
  which is that of a failed call (logs); logs of several operations and the schema and proxy
  updates that follow an applied log, and a failed read of a log (application); writes that share a transaction
  (write queue); renames, tombstones that expire, multi-value metadata, the first replication
  cycle, and originators that the vector does not name (replication).
* lwraft's log compaction: `iLogsRemain` (`thread.c:2874`) goes wrong only when a follower's
  `commitIndex` goes back by `dwRaftKeeplogs`, 50*1024 logs. The log codec: bytes.
* Initial copy and disaster recovery: file transfer and one-shot administration.
* The LDAP and REST front ends, schema, ACL, index and KDC code of both servers:
  sequential, data-heavy code without protocol state; MDB is external, and only what
  replication relies on is in the models (one writer, atomic commits, snapshots).
* `vmafd`, `vmca`, `mutentca`, `vmdns`, `vmidentity`, `ui` and the tools: clients of the directory.
