# TLA+ specifications of the system-design handbook's programs

The repository is a handbook whose `code/` directory holds 23 small Go packages,
each a working implementation of one distributed-systems or storage mechanism.
This project models all of them, checks the models with TLC on small instances, and
proves most of the safety properties that the runs check, with TLAPS, for all
instances.

## 1. The system

The packages do not import one another and share no state; "the system" is a
collection of independent components. Inside a package the hard parts are
goroutines interleaving between lock regions, crashes and I/O errors, clocks,
and long sequences of calls on one data structure.

| Component (`code/...`) | State it keeps | Operations | What is hard about it | What makes it correct |
|---|---|---|---|---|
| `raft_election_sim` | per node: role, term, vote, deadline; per cluster: partition set, clock | Step (heartbeats, then campaigns), Partition, Heal | a lock per node and one per cluster, taken and released many times inside one Step | one leader per term; one vote per term; heartbeats suppress elections; a minority elects nobody |
| `outbox_pattern` | orders, outbox table, published marks; broker log | Begin, SaveOrder/AddOutbox, Commit, Rollback; relay RunOnce | dual write; relay crash between publish and mark; two relays; broker refusals | order and event together or not at all; nothing lost; no overtaking; duplicates only for a reason |
| `idempotency_keys` | record per key: status, body fingerprint, response, creation time | Execute in three phases, Purge | handler runs without the lock; expiry and Purge in the meantime; a handler that panics | one handler at a time; one effect per ttl; no foreign response |
| `circuit_breaker` | state, failures, successes, probes of the half-open period, opening time | Call = beforeCall, fn, afterCall | the verdict arrives in another state than the admission | probes capped; a healthy dependency is used again |
| `bulkhead_semaphore` | slot channel, active/accepted/rejected counters | Do, TryDo | counters updated one by one without lock; fn hangs or panics | capacity never exceeded; no slot leaks; no endless queueing |
| `retry_backoff_jitter` | attempt, previous delay | Do, Backoff, delayFor | cancellation against timer; caps and overflow of durations | delays within bounds; at most one late call |
| `worker_pool_pipeline` | channels, error channels, wait groups, context | Produce, Run, Collect | closing channels with many senders; blocked sends; cancellation | no send on a closed channel; no job lost or doubled; every goroutine ends |
| `wal` | file, write buffer, sequence number | Open, Put/Delete, Sync, Close, Truncate, Recover | crash at any point, torn records, failed flush and sync, records too long to be read back | acknowledged records survive; replay follows the sequence |
| `lsm_memtable` | skip list, byte counts, SSTables with sparse index | Put, Delete, Get, Flush | failed flush, tombstones over older tables, pointer surgery | one key-value store for the reader |
| `vector_clock` | clock and sibling versions per replica | Write, Receive, Compare, Merge | messages late, repeated, out of order | clock order = causal order; exactly the newest siblings are held |
| `consistent_hashing` | sorted positions, owner map, node set | Add, Remove, Get, GetN | wrap-around, any order of joins and leaves | only necessary moves; distinct replicas |
| `snowflake_id` | lastMilli, sequence | Next, Parse | clock steps back, sequence exhausted, restart | unique ids that can be parsed back |
| `rate_limiter` | tokens, water level, window counters | Allow/AllowN of four limiters | refills in fractions, window boundaries | the bound over every span of time, and no needless refusal |
| `lru_cache`, `lfu_cache` | map and linked lists | Get, Put | pointer surgery at the ends; emptying buckets | the right key is evicted |
| `grpc_example`, service | order store and its key index; tracked connections, wait group; per client a connection | GetOrder, CreateOrder, WatchOrders (a stream); accept loop, handlers, Close; Dial, Client.Close | Close against connections being accepted and handlers parked in a read; an accept loop that breaks; retries after a lost answer; abandoned streams | each call gets its own answer; one order per key; Close leaves nobody behind; nobody waits for ever |
| `grpc_example`, wire format | a byte buffer | Marshal, Unmarshal with unknown fields | newer senders, truncation, negative integers | an older binary relays what it does not know; what is cut short is refused |
| `b_tree` | nodes, root, leaf chain | Put with leaf and inner splits, Get, Range | separators and chain after splits of splits | one key-value store; scans agree with lookups; balanced |
| `external_merge_sort` | runs and temporary files | split, merge passes | files that fail, some without an error | sorted permutation of the input, or an error |
| `merkle_tree` | one tree per replica | Build, Diff, CompareCost | trees of different shapes; keys and values that contain the separator | no difference is missed |
| `geohash` | none | Encode, Decode, Neighbors, SearchArea | antimeridian, poles, cell edges | whatever is less than a cell away is in the searched area |
| `bloom_filter`, `count_min_sketch`, `hyperloglog` | bits, counters, registers | Add, Contains, Estimate, HeavyHitters, Merge | collisions | errors are on one side only; a merge equals the union |

The chapters, diagrams and example configuration files of the book are not a
program and are not modelled.

## 2. Modules

| Module | Models | State and granularity |
|---|---|---|
| `RaftElection` | `raft.go` | One variable per field of `Node`; `pc`, `cur`, `peer` are a Step call's place and loop indices. One action per critical section, so Partition, Heal and other Step calls can run between any two |
| `RaftElectionProofs` | | theorems about it |
| `Outbox`, `MCOutbox` | `outbox.go` | transactions, the two tables, every relay's position in RunOnce, the broker's log; publish and mark are separate steps |
| `OutboxProofs` | | theorems about it |
| `Idempotency`, `MCIdempotency` | `idempotency.go` | the claim, the running handler and the recording of its outcome are separate steps; `overrun` records that a handler outlived its record |
| `IdempotencyProofs` | | theorems about it |
| `CircuitBreaker`, `Bulkhead`, `Retry`, `RateLimiter` | `breaker.go`, `bulkhead.go`, `retry.go`, `limiter.go` | breaker: per lock region; bulkhead: per channel or atomic operation; retry: per call of fn and per wake-up; limiters: per method, the one in use named by `algorithm` |
| `Resilience` | the four above | chooses the pattern a behaviour uses |
| `ResilienceProofs` | | theorems about the four |
| `Pipeline` | `pipeline.go` | one step per channel operation of a goroutine |
| `PipelineProofs` | | theorems about it |
| `WAL` | `wal.go` | one step per method; crashes and errors keep any prefix of the unsynced end and possibly a fragment; `Oversized` keys and values are written and not read back |
| `Memtable` | skip list of `lsm.go` | operators on the list's record of pointers |
| `LSMTree` | `lsm.go` | memtable and tables, and `call`, the call made last; refines `KVStore` |
| `KVStore` | abstract | a function from keys to values and the call made last: Put and Delete change exactly their key, Flush changes nothing |
| `BTree` | `btree.go` | a heap of nodes, the leaf chain kept apart from the tree, and `call`; one step per Put; refines `KVStore` |
| `MergeSort` | `sort.go` | files as functions from paths to records; one step per file written or merged, each of which may fail; `litter` records a file whose removal failed |
| `LRUCache` | `lru.go` | pointers and map; refines `RecencyCache` |
| `RecencyCache` | abstract | a recency order and a bounded set of keys |
| `LFUCache` | `lfu.go` | frequency buckets as sequences |
| `Lists` | | taking a key out of a list without repetitions |
| `Sketches` | `bloom.go`, `cms.go`, `hll.go` | any hash functions, picked when a sketch is built |
| `Storage` | `WAL`, `LSMTree`, the caches, `Sketches` | chooses the structure a behaviour uses |
| `MCStorage` | `Storage`, `BTree`, `MergeSort` | two more structures to choose from, for TLC |
| `StorageProofs` | | theorems about `WAL`, `LSMTree`, the caches and `Sketches` |
| `Snowflake`, `VersionedReplicas`, `HashRing` | `snowflake.go`, `clock.go`, `ring.go` | one clock per machine; any delivery of versions; any collision-free hash |
| `MerkleTree`, `Geohash` | `merkle.go`, `geohash.go` | two replicas written independently, hashes as the bytes that are hashed; a point moving over a grid |
| `Cluster` | `Snowflake`, `VersionedReplicas`, `HashRing`, `Geohash` | chooses the part a behaviour uses |
| `MCCluster` | `Cluster`, `MerkleTree` | one more part to choose, for TLC |
| `ClusterProofs` | | theorems about `Snowflake`, `VersionedReplicas`, `HashRing` and `Geohash` |
| `Rpc` | `rpc.go` | a queue of frames per direction and connection; accept loop, Close, handlers and clients by blocking operation or lock region |
| `Wire` | `wire.go` | bytes, with fewer bits per byte and per word; relay hops and truncation |
| `MCRpc` | `Rpc`, `Wire` | the requests and messages of the run; chooses the layer a behaviour uses |
| `RpcProofs` | | theorems about `Rpc` |

Because the packages share no state, `Resilience`, `Cluster`, `Storage` and the `MC`
modules that extend them do not interleave their parts: a variable fixed in the initial
state names the part, and the other parts stay in their initial state. A liveness property is stated, and
fairness assumed, only for the behaviours that use its part.

`BTree`, `MergeSort`, `MerkleTree` and `Wire` use RECURSIVE operators where the code
recurses over a structure; only the `MC` modules use them, and no theorem reaches
them. A behaviour of an `MC` module that does not choose such a part is one of the
module it extends, the one the theorems are about. Loops over a sequence that a theorem
speaks of (`Recover`, `MergeAll`, the walk of the ring) are recursive functions.

History variables (`ballots`, `calm`, `cut`, `overrun`, `sound`, `acked`, `late`,
`lost`, `rewound`, `past`, `seen`, `issued`, `grants`, `uses`, `recency`, `began`,
`unread`, `silent`, `truth`, `held`) only record what happened; a guard reads one only
to keep a bound (`MaxIds`, `MaxGrants`). Definitions
whose comment begins with "Mutant:" are plausible wrong versions of the definition
below them. They are used by no specification: substituting one for the original
must make TLC report the property it belongs to, which shows that the property can
tell the code from a broken one.

## 3. What the runs show

Every run is `tlc -config <cfg> <module>`. Deadlock is checked in all of them:
where a program may come to rest, an explicit stuttering action (`Finished`,
`AllReturned`, `Returned`, ...) says in which states that is right.

**`raft_election`** (`RaftElection`). Three nodes, one driver, any interleaving of
Partition and Heal with the inside of Step. At most one leader per term; after a
heartbeat round of a leader that nobody was cut off from, no node is about to
campaign; a node that wins was not cut off throughout its campaign and neither
was a majority; once partitions stop, rival leaders disappear for good.

**`outbox`** (`MCOutbox`). Three transactions on two orders, two relays, batches of
two, an outage, a crash, a cancellation. An order exists exactly with its event; a
marked row is at the broker; first deliveries follow the commit order even with
two relays; an event is delivered at most once per relay and crash; every event is
published in the end.

**`idempotency`** (`MCIdempotency`). Five calls, one key, two bodies, one call
without a key, ttl 1 on a clock up to 4; any handler may return, fail or panic. As
long as no handler has outlived its record: one handler at a time, two effects of one
key more than a ttl apart (`ExecutesOnce`), replays answer the same request. Without
that proviso: every claimed key is released, by the outcome of its handler, or, when
that panicked and left none, by the ttl.

**`idem_slow`** (expected violation). The proviso is needed: `Execute` writes its
outcome into whatever record the key has at that time. A handler that outlives its
record completes the record of a request with another body, which a third call
then gets as a replay. `idempotency.go:88-89` says such a request is "detected
rather than silently served the wrong response".

**`resilience`** (`Resilience`). Breaker, three callers: at most `HalfOpenMaxCalls`
probes of one half-open period are in flight, and a recovered dependency closes
the breaker unless a panic lost a probe. Bulkhead, three calls for one slot: never
more functions than slots, not even as reported by `Active`; nobody queues for
ever behind functions that hang; functions that end give all slots back and every
call is counted once. Retry, all jitters and several policies: delays stay between
floor and cap with 5-bit durations that overflow, a cancellation is overlooked by
at most one call. Rate limiters: every span of time, wherever it starts, obeys the
bound of its limiter (`EverySpanIsBounded`: burst plus steady rate for the buckets,
twice the limit for the fixed window, the weighted bound for the sliding one), and
the two buckets refuse nothing they could have granted.

**`pipeline`** (`Pipeline`). Two jobs, two stages of two workers, channels of one
element, read or unread error channels, cancellation at any time. No send on a
closed channel, no job in two places or (before cancellation) in none, and every
goroutine ends if the errors are read or the context is cancelled.

**`rpc`** (`MCRpc`). Service: two clients, a key that both use, requests that are
invalid or find nothing, a stream; connections that break at any moment, redials and
retries, and a Close at any moment. The frame that ends a call is the right answer to
its request, up to date with what was stored when it began (on connections where no
stream was given up); a key makes one order; when Close has returned, no goroutine
and no connection is left, whatever was being accepted meanwhile; every call and
every Close returns. The accept loop may break at any moment (`AcceptBreaks`, "a fatal
accept error", `rpc.go:243`): until somebody calls Close, a call on a connection that it
had not accepted then waits for ever, and only such a call may (`Stranded`). Format: messages with extreme integers, empty strings, fields of
every wire type from a newer sender, relayed up to two times and cut at every place:
known and unknown fields arrive as they were sent; a cut message is refused or holds
a part of what was sent, never a value nobody wrote.

**`rpc_unread`** (expected violation). Without "where no stream was given up":
`WatchOrders` returns when its callback fails and leaves the rest of the stream on
the connection, so the next call is answered with a frame of the old stream.
`wire_test.go:439-440` says "Framing must survive many messages on one connection".

**`storage`** (`MCStorage`).
*Log*: three appends over any number of sessions, with crashes, torn records, failing
flush, sync and truncate, and values longer than the 1<<24 bytes that `readAll` takes
(`wal.go:194-196`), which `append` acknowledges all the same. What was acknowledged while
neither it nor anything before it in the file was a fragment or over-long survives
everything up to a Truncate; recovered records are in sequence order and each key
recovers to its latest.
*LSM tree*: skip list of two levels with any level drawn, two keys, an empty value and
one of length 2, up to two tables with their index, flushes that fail. Seen through its
read path it implements `KVStore` call by call: a Put gives exactly its key its value, a
Delete takes exactly its key away, also from the older tables, and a Flush changes no
read; the skip list keeps its levels sorted and its sizes exact (`ActsAsAStore`).
*B+tree*: order 3, six keys, inserted and overwritten in every order, up to three
levels. It implements the Put of `KVStore`, the leaf chain agrees with the tree above it
for every range, and all leaves have one depth (`TreeAndRunsAreSound`).
*Sort*: every input of up to five records, chunk sizes 1 and 2, merge widths 2 and 3,
any file failing: the output is the sorted input, or an error is returned, or one of
the two failures that the code does not notice has happened; after success nothing else
is left on the disk but a file that could not be removed (also `TreeAndRunsAreSound`).
*Caches*: four keys in three places. The LRU pointers and map implement
`RecencyCache`; the LFU cache evicts the least used key, the least recent among
equals.
*Sketches*: two items, every pair of 3-bit hashes. A Bloom filter has no false
negative, a count-min sketch does not under-count nor miss a heavy hitter, and merged
HyperLogLog registers are those of the union (`SketchesErrOnOneSide`).

**`wal_torn_tail`** (expected violation). Without the proviso about fragments:
`Open` positions the file at its end, behind a torn tail, and `readAll` stops at
that tail, so a record synced and acknowledged in the second session is not
recovered. `wal.go:3-5` says the log reconstructs "any state that was
acknowledged".

**`sort_silent`** (expected violation). Without the last alternative of the sort's
property: `mergeRuns` drops the error of its deferred `Flush` and `nextInt` takes a
read error for the end of a run, so `Sort` reports success over an output that lacks
records. `sort.go:59` says it "reads integers from in, sorts them, and writes them to
out".

**`cluster`** (`MCCluster`). Ids of two machines with a one-bit sequence, clocks that
step back and a restart: unique (but for a clock set back across a restart) and
parseable. Three replicas, four writes, any delivery: clock order is causality, a
replica holds exactly the unreplaced writes it has heard of. A ring of six
positions and three nodes of two virtual nodes: keys move only to a joining or from
a leaving node, replicas are distinct and include the owner. Merkle trees over any two
replicas of five keys, one key and one value with the separator of `hashLeaf` in them:
unless two different keys hash the same bytes, which only a key with the separator can,
roots are equal just for equal data and `Diff` misses no difference. For replicas of the
same keys that needs no proviso: `Diff` then reports the differing keys and no others,
and visits no more nodes than the paths to them and their siblings. Proximity search
around every point of the grid: whatever is less than a cell away, across the
antimeridian too, lies in the searched cells.

### Bounds

Every bound is a constant or a named guard (`MaxTerm`, `MaxTime`, `MaxAppends`,
`MaxGrants`, `MaxFreq`, ...). They are the smallest at which the case that matters
happens:
three nodes give a majority that is not everybody, and term 2 a second election
against a stale leader; timeouts of 1 or 2 ticks give ties and non-ties. Two relays
with batch 2 over three rows give overlapping batches. Five calls on one key allow
claim, expiry, reclaim with another body, late completion and replay. Capacity 1
against three callers has a queue; two workers on a channel of one element block on
both sides. Three appends allow a record before and after a torn tail, an over-long
record or a truncation, with reopens between them. Two tables let a tombstone shadow an
older table; that a scan from an index entry finds its key is proved for any interval. The
window of four ticks against time 10 gives rolls after one, almost two and two
windows. Four keys in three places evict from a list with a middle. Six keys at order 3
split leaves, an inner node and the root. Five records in chunks of one need two
merge passes at width 2 and a last group of one run. Merkle trees of up to five leaves
include the uneven ones, where a leaf meets an inner node; one of their keys with one of
the values hashes the bytes of another key with the other. Three calls over
two connections allow: create, lose the answer, redial, create again. The same
pipeline with three jobs also passed (478 000 states, three minutes); it is
left out of the run to keep it short. In `raft_election` a node at `MaxTerm` no
longer times out, so liveness speaks of the convergence of rivals, not of the
election of a leader.

### Fairness

Fairness is weak and only on what the code drives itself:

- Raft: `Step` is a loop that never waits, so a Step call that has begun goes on and
  the driver calls again. Nothing is assumed of Partition and Heal;
  `LeadersConverge` has "partitions stop" as its premise.
- Outbox: the relay is run again and again (`RunUntilDrained`). Outages, crashes and
  cancellations are finitely many. Clients may stop at any point.
- Idempotency: a handler returns or panics, however late, and the clock moves on.
- Breaker: someone keeps calling, calls return, time passes; the dependency need not
  recover, `Recovers` says what follows if it does.
- Bulkhead: goroutines run and contexts have deadlines (`bulkhead.go:43-45` asks for
  that); fn may hang for ever. `SlotsComeBack` has "no fn hangs" as its premise.
- Pipeline: a goroutine that can move does, stage functions return. Cancellation is
  not fair.
- Rpc: the accept loop, the handlers, a Close that has begun and a client that waits
  for an answer go on when they can. Nobody has to call, dial, read a stream to its
  end, disconnect or close anything, and nothing has to break: `AcceptBreaks` is not fair.

The storage and cluster runs and the retry and limiter parts of `resilience` check
safety only.

## 4. What is proved

For every value of the constants, from the ASSUMEs of the modules (sizes are positive
naturals, functions have their types, the relays are finitely many, the hash of the ring
has no collisions, powers of two are positive) and nothing else:

**`RaftElectionProofs`**, for any cluster size and any number of goroutines inside
`Step`, where the run has three nodes and one driver.
`TypeCorrect`, `OneVotePerTerm`, `ElectionSafe` and the action property
`TermsMonotone`. Election safety is not inductive: a leader's majority was counted
in steps during which the candidate's lock was free, so it may have been demoted or
have moved to another term meanwhile. The history `ballots` keeps every vote ever
cast. The invariant says that a ballot is not from the voter's future and that of
the voter's term agrees with `votedFor` (`BallotInv`), that a campaign has counted
no vote that was not cast in its term (`CampaignInv`), and so that a leader holds a
majority of its term's ballots (`LeaderInv`). Two majorities of one finite set meet
(a cardinality lemma), and a node casts one ballot per term.
`HeartbeatsSuppress` has the hypothesis `OneStepper`, a single goroutine inside `Step`
as in `main` and the tests: with two, a heartbeat that an older round decided on can
arrive late. Its invariant (`RoundsInv`) says where in the loops the call stands, that
every node before that place has been reset by the leader of the round (`PassedInv`),
and what the leader about to send still has to be (`SendingInv`).
`MinorityNeverWins` holds for any number of goroutines: while a campaign runs, every vote
it counted came from a node that was not cut off when it was asked (`CutInv`), so a
majority of votes is more than the few that a minority can reach.

**`OutboxProofs`**, for any transactions, relays, batch sizes and faults.
`TypeCorrect`, `Atomicity`, `NothingLost`, `DeliveredInOrder`, `DuplicatesAreOwed`. Order is inductive
together with: marked rows are a prefix of the table, a relay's remaining batch has
no gap before it (`BatchInv`), and a relay about to mark a row has had it accepted
(`MarkInv`). That a batch has a least row, the one a relay publishes next, comes
from the well-foundedness of the naturals. Duplicates are bounded event by event
(`CopyInv`): the copies at the broker, the relays that hold the event still to publish,
and those between publish and mark are together no more than the relays and the crashes
so far; it is here that the relays have to be finitely many.

**`IdempotencyProofs`**, for any calls, keys, bodies and ttl.
`AtMostOnce` (the property `ExecutesOnce`) and `OwnResponse`. The invariant is
`~overrun => Safe`: the claim of a running call is intact and not expired
(`RunInv`), a completed record holds the response of its own request (`RecordInv`),
and a call that took effect is still on record or more than a ttl old (`FreshInv`).
A handler that panics keeps its record in progress, which only makes the claim last.
How long handlers take is not restricted; the theorems say what holds up to the
first that takes too long, and `idem_slow` what happens after it.

**`ResilienceProofs`**, one invariant per pattern.
`ProbesCapped`: `halfOpenCall` counts every probe admitted in the period, those that have
returned or were lost included, and a probe of the present period runs only while the
period lasts (`BreakerInv`). `CapacityKept`: the channel holds one token per call between
acquire and release, and `active` counts some of them, whatever the order of the updates
(`BulkheadInv`, by cardinality). `AtMostOneLateCall`: what the loop of `Do` has counted at
each of its places (`RetryInv`). `DelaysBounded`: the arithmetic of `delayFor` with the
wrap-around of a Duration of any width (`DelayInv`). `SpansBounded` and
`BucketsAreNotStingy`: the level of a bucket accounts for the grants since each of them,
and exactly for those since it was last empty (`BucketInv`); the grants before the present
window, in it and before the previous one are told apart by their place in the list of
all grants (`WindowInv`), which carries the weighted bound across the roll of a window.

**`PipelineProofs`**, for any jobs, stages, workers and buffer sizes.
`NobodySendsOnClosed` from the types and "a closed channel has no sender left".
`NoJobLostOrDoubled` says of every job that it is in exactly one of: a channel, an error
channel, a worker's hand, the collector's or the reader's results (`PlacedInv`), where
"in a channel once" needs lemmas on what appending and taking do to a family of queues.

**`RpcProofs`**, for any clients, requests and connections.
`KeysAreIdempotent`: the index knows the one order of every key that was used
(`StoreInv`), and what is on the wire is what a client asked (`WireInv`).
`CloseLeavesNothing`: the wait group counts the accept loop and the handlers that were
spawned, a connection waits in at most one place (`QueueInv`), and after the listener is
closed none is accepted that nobody will close (`CountInv`).
`AnswersAreRight`: every client has a connection to itself, and on one where it gave up
no stream either its request waits, or was lost, and there is nothing to read; or what it
has read, what is on the wire and what the server buffers make up, put together, an answer
to its request from the orders there were between the call's beginning and now
(`AnswerInv`). A call that reads to the end leaves nothing to read, so the next one starts
from the first case; orders are only added, so an answer stays one.

**`ClusterProofs`**.
`ClocksAreCausal` and `ReplicasHoldTheFrontier`, for any nodes, writes and deliveries: a
write's own entry is new among all that it follows and is counted by exactly those that
follow it (`PastInv`), and a replica's versions have counted all it has heard of
(`SeenInv`). `IdsStaySound`, for any machines, field widths and movements of the clocks: an
issued id is behind its machine's `(lastMilli, sequence)` or from before its restart
(`BehindInv`), and packing is undone by `Parse` (`PackedInv`). `PlacementStaysStable`, an
action property: the positions are those of the nodes' virtual nodes and the owner map
says whose (`RingInv`); the walk of `GetN` gives the first nodes clockwise, and adding or
removing one node changes that only by it.
`NearbyIsAlwaysFound`, for any grid that can be halved as often as it is bisected: after
any number of bits the box is some number of its sides from the world's edge and has the
point (`RunAt`), another point has the same bits just when it is in that box, and `Decode`
finds the box again; so the middle of a neighbour, wrapped or clamped, is in the adjacent
box, and a point less than a side away is in one of those.

**`StorageProofs`**, for any keys and capacities.
`AcknowledgedSurvives` and `RecoveryIsOrdered`, for any keys, values, records and
sessions, over-long records included: what was promised with nothing unreadable (a
fragment or an over-long record) up to it is on the device and before the first unreadable
item; what an unsynced Truncate can bring back is older than every promise;
the records before the first unreadable item are numbered upwards, and an open log numbers
above them (`LogInv`). Every way a write or a crash can end is a cut of the log, perhaps with a
fragment behind it, which keeps that (`Shortened`). `Recover`'s loop leaves every key
with its last record, by induction over its passes.
`SketchesKeepTheirSide`, for any hash functions and sizes (`SketchInv`): every index of an
added item is set; every counter of an item is at least its count and at most the total;
a register is the highest rank that an item its shard has seen gives it.
`LRUImplementsRecency`: the `next` pointers from `head` to `tail` are one path whose inner
nodes are the keys held, `prev` is its reverse, and there are at most `capacity` of them
(`LRUInv`); unlinking and pushing change that path as `Touch` changes the recency order,
so `get`, `Put` and an eviction are steps of `RecencyCache` or stutters.
`LFUEvictsLeastUsed`: the buckets have rising frequencies, none is empty, each holds the
keys used that often, the latest used first, and every key held is in one of them
(`LFUInv`); so the last key of the first bucket is a least used one and, among those, the
one used longest ago. `CachesEvictTheRightKey` puts both together.
`LSMActsAsAStore`, for any keys, levels, index interval and any flushes that succeed or
fail: every level of the skip list is a set of keys whose pointers lead from each to the
next greater one, and is part of the level below (`Levels`); so a search from the top ends
before its key on every level, an insertion puts it between its neighbours, and the walk
along level 0 lists the keys upwards. `count` and `bytes` are the size and the weight of
that set (`SizesOK`, with sums shown independent of their order). The table written from
such a list answers for each key what the memtable did, so a flush changes no read; the
range check and the scan from the sparse index miss no key. So each step is the step of
`KVStore` that its `call` names: Put and Delete on exactly their key, Flush on none.

The prover has no induction over data. A loop is proved correct by the least pass that
would break a claim, which does not exist (`LeastOf`, `CountUp`), after its function has
been shown to exist (`LoopRuns`); a theorem about recursion over a tree is out of reach.

Only model-checked:

- liveness (`LeadersConverge`, `EventuallyPublished`, `KeyIsReleased`, `Recovers`,
  `SlotsComeBack`, `Unwinds`, `NobodyWaitsForever`): the prover does not do it;
- `RelayLosesNothing`, `TreeAndRunsAreSound` (B+tree and external sort) and
  `FindsEveryDifference`: recursion over bytes, trees and runs.

## 5. Where code and comments part

Met while modelling. The first four are shown by runs; the others are outside a
proviso or a constant of a property, as noted.

| Where | What the code does | In the model |
|---|---|---|
| `idempotency.go:164` | phase 3 completes a record that another request has claimed | run `idem_slow` |
| `wal.go:66` | appends behind a torn tail are never recovered | run `wal_torn_tail` |
| `rpc.go:462` | a stream given up leaves its frames on the connection | run `rpc_unread` |
| `sort.go:225`, `:243` | an error of the last flush, or of a read, is dropped: success over a short output | run `sort_silent` |
| `wal.go:195` | `append` acknowledges a record whose key or value exceeds 1<<24 bytes, and `readAll` ends the log there: it and all behind it are not recovered, against `:3-5` | `Oversized`; `Readable` in `DurableOnSoundLog` |
| `rpc.go:242-243` | a fatal accept error ends the accept loop without closing the listener: clients can dial and are never served, against `:228` "serves until Close" | `AcceptBreaks`; `Stranded` in `NobodyWaitsForever` |
| `merkle.go:39-44` | `hashLeaf` hashes key, 0x1f, value without their lengths: `{"a\x1fb": "c"}` and `{"a": "b\x1fc"}` have one root and an empty `Diff`, against `merkle_test.go:184` "Key/value boundaries must be unambiguous" | `Ambiguous` in `FindsEveryDifference` |
| `idempotency.go:118` | a running handler's record expires and the key is claimed again: two handlers at once | `overrun` in `ExecutesOnce` |
| `idempotency.go:159` | a handler that panics leaves its key in progress until the ttl, with no ttl for ever | `Panic`; `KeyIsReleased` needs the ttl then |
| `wal.go:78` | truncate, close, reopen: the sequence restarts at 1, against the comment at `wal_test.go:72` | `Open` takes the last number of the file, as in the code; within one file the order holds (`ReplayIsOrdered`) |
| `breaker.go:142` | a late failure of an earlier period opens, and a later period admits probes while those of the one before still run: in total more than `HalfOpenMaxCalls` | `ProbesOfPeriodCapped` counts one period |
| `breaker.go:134` | a late success of an earlier period counts towards closing | in the model; `Recovers` holds with it |
| `breaker.go:111` | `SuccessThreshold > HalfOpenMaxCalls` leaves the breaker half-open for ever | an assumption of the run |
| `breaker.go:95` | fn panics, afterCall is skipped and its probe never reported | `lost` in `Recovers` |
| `bulkhead.go:47` | an expired context may win against a free slot: `ErrFull` from an empty bulkhead | both outcomes of the select are modelled |
| `pipeline.go:146` | an error channel nobody reads blocks the workers | premise of `Unwinds` |
| `lsm.go:251` | a read error within a table is answered as "not here" and an older table is asked | reads of the model succeed |
| `ring.go:62` | two virtual nodes with one hash: the later owner takes both, and its removal deletes the earlier one's position too | the hash of the model has no collisions |
| `limiter.go:102` | a leaky bucket with capacity above 1 lets a burst through, `:72-73` "never allows a burst" | `BurstThenSteadyRate` states what holds |
| `snowflake.go:73` | a restart forgets `lastMilli` | `rewound` in `IdsAreSound` |
| `snowflake.go:91`, `:101` | the waits have no limit if the clock steps back again | both are waiting places of the model; no liveness is claimed |
| `retry.go:139` | without `MaxDelay` the product leaves the range of a Duration | the floor of `DelayWithinBounds` is claimed only while the product fits |
| `sort.go:87-91` | with `MaxMergeWidth` 1 a pass merges nothing and the loop never ends | widths of the runs are 2 and more |
| `sort.go:70`, `:107` | an error of `os.Remove` is ignored and the temporary file stays | `litter` |
| `sort.go:159` | an error leaves the temporary runs behind | in the model (`disk`) |
| `wire.go:133-136` | an empty tag of a repeated field is not written, so the list arrives shorter | `RelayLosesNothing` compares without empty tags |
| `merkle.go:105` | where key sets differ, `Diff` also reports keys that are equal | `FindsEveryDifference` allows it only then |
| `geohash.go:132` | at the poles neighbours repeat, or are the cell itself | in the model; the area searched is a set |

With two goroutines inside `Step`, a leader can be demoted in its own term by a
heartbeat decided on an older `isLeader` check; election safety is not affected, and
is proved for any number of them. Whether a split vote resolves depends on the random
timeouts and holds with probability one only, so it is not stated.

## 6. Abstractions

- Payloads, bodies, keys and ids are model values; an id of `Snowflake` is still the
  packed number, with narrower fields, and is unpacked again by `Parse`.
- Times are small integers. `RateLimiter` counts in exact fractions where the code
  uses float64, so rounding errors of floats are not covered. `Retry` keeps a bounded
  width of durations.
- WAL records are whole or a fragment; a checksum always tells a fragment. At most one
  file of a sort cannot be removed.
- A Merkle hash is the bytes that were hashed: strings with their separator, and a mark
  for leaf or inner node; SHA-256 itself is taken to be injective.
- Hashes of the ring are arbitrary collision-free functions, random levels and jitters any value
  they can have.
- Raft's `votesReceived` and `log` are written and never read, and left out.

## 7. Not modelled

In the modelled packages:

- concurrency: the high-water-mark gauge and unbuffered channels of the pipeline; use
  of `HashRing` by several goroutines (it has no lock and does not promise it); the
  unsynchronised reader `WAL.Seq`;
- failures: read errors of SSTables (`lsm.go:251`); `MaxMergeWidth` below 2;
- malformed input: unknown methods and undecodable request frames of the RPC server;
- hash collisions of the ring and of SHA-256;
- floating point and probability: `Haversine`, the sizing formulas and estimators of
  the sketches and their error rates, and whether a split vote ends;
- conversions nothing else uses: the base-32 alphabet of the geohash (a character is
  its number), `ZigZag` and `Describe` of the wire format; accessors that only read.

Demonstration mains and tests are used as statements of intent only. The chapters,
diagrams and configuration files contain no program.

## 8. Plan

The order so far was by importance: agreement and delivery (`RaftElection`, `Outbox`,
`Idempotency`), concurrency control (`Resilience`, `Pipeline`), the RPC service,
durability (`WAL`, `LSMTree`), then structures, clocks, placement, limits and caches.
Every package has its model, and every run that is expected to pass has its safety
properties stated by theorems, but for the three of section 4 that recurse over trees,
runs or bytes. What is left: reads of SSTables that fail (`lsm.go:251`), unknown methods
and undecodable frames of the RPC server, and the unsynchronised readers of section 7.
