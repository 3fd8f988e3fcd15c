# Verification of tokio-electrum

This directory holds TLA+ models of `tokio-electrum` (an asynchronous client of
the Electrum protocol) and of `bdk-tokio-electrum` (a wallet synchroniser on
top of it), the TLC configurations that check them on small instances, and
theorems that TLAPS checks for every instance. It models the source itself:
each definition that stands for code is tied to its lines in `PROJECT.json`
(`map`). In this text `client.rs` is `src/tokio-electrum/src/client.rs` and
`bdk client.rs` is `src/bdk-tokio-electrum/src/client.rs`.

## 1. Inventory

### 1.1 Connection lifecycle (`client.rs`)

*State*: an atomic status (`status.rs`), an atomic flag `running`, a tokio
`Notify` named `terminate`, the async mutex around the receiver of the command
queue, and where the connection task is.

*Operations*: `connect()` (test the status, store `Pending`, spawn a task
unless one is running), `disconnect()` and `shutdown()` (test the status,
notify the task, store the status), `Drop` (= `shutdown()`), and the task
`connection_task`: swap `running`, lock the receiver, then loop over
`_try_connect`, `post_connection`, one look at the status, a back-off, until
it is told to stop.

*Interaction*: only through the shared variables. Nothing joins the task; a
caller cannot tell whether its request was taken.

*Hard*: two writers store the status without a lock; `Notify` keeps at most one
permit, and keeps it for whoever waits next; a termination request is a branch
of three different `select!`s; tasks can overlap between `spawn` and the swap.

*Correct when*: at most one loop runs; a spawned task is never stuck behind
another one; a status that speaks of a connection is backed by a task; a client
that should be connected has a task; every request to stop stops the client,
and nothing else does.

### 1.2 Back-off (`client.rs`, `next_reconnect_interval`)

*State*: `reconnect_attempt`, a saturating `u32` local to the task.
*Hard*: overflow of a `Duration`, zero configured delays, the jitter, the
saturation. *Correct when*: delays stay within the configured bounds, are what
unbounded arithmetic gives, and fall from one attempt to the next by no more
than the jitter can account for.

### 1.3 Requests (`client.rs`, `send_batch`, `wait_batch_response`, `sender_message_handler`, `pinger`, `post_connection`)

*State*: the bounded command queue, which outlives sessions; the futures of the
calls in progress; `disconnected` (a `Notify` used with `notify_waiters`);
`ping` (a `Notify` with a permit that outlives sessions); the count of
consecutive ping timeouts of the session.

*Operations*: a call queues its batch within `request_timeout` or reports a
saturated queue; a call that expects a response then waits for the first of the
response, the end of the session and `request_timeout`. The sender of the
session forwards batches or pings, pings first; a ping that fails or too many
timeouts in a row end the session.

*Hard*: a call waits across the end of a session; a wake-up that comes before
the waiter is registered is lost; a batch is taken off the queue before it is
known to be sent; the queue is full and nobody drains it; the server goes
silent. *Correct when*: batches are handed over once and in order across
sessions, a call that was refused left nothing behind, every call returns, a
silent server is noticed, the queue is drained.

### 1.4 Request API (`client.rs` 788-1169, `types.rs`)

Typed wrappers that build a batch, queue it, and match up the responses. No
state of their own. *Hard*: one request of a batch fails; the caller zips the
result with what it asked for (the wallet does). *Correct when*: the result has
the answer to each request at its place, or the call fails as a whole; only
`batch_estimate_fee` leaves out what it could not get, under keys that say so.

### 1.5 Notifications (`client.rs` 244-277, 656-690, 754-771, `notification.rs`)

A broadcast channel of bounded capacity. Every `set_status` broadcasts after it
stores. `notifications()` tests for shutdown and then subscribes; the stream
skips what it lagged behind and ends at `Shutdown`. *Hard*: the race of
`notifications()` with `shutdown()`, lag that swallows `Shutdown`, the order of
two writers' broadcasts.

### 1.6 Transport, builder, address, constants

TCP, TLS and SOCKS set-up (I/O); a struct of options; a URL parser with unit
tests; numbers. Only their outcomes and values matter to the models.

### 1.7 Wallet scan, anchors, tip and chain update (`bdk client.rs`), Merkle proof (`util.rs`)

*State*: three caches shared by all clones of the client (transactions, headers
by height, anchors by transaction and block), each behind its own mutex; the
rest is local to a sync.

*Operations*: `full_scan` and `sync` fetch the tip and a suffix of headers,
scan scripts in batches up to a stop gap, fetch transactions and anchors, and
build a chain update that connects to the wallet's checkpoint.

*Interaction*: through the request API, one request after the other; the server
may reorganise its chain between any two of them; another sync may write the
caches meanwhile.

*Hard*: cached headers go stale; a failed batch falls back to single requests
and some of those are skipped; the gap limit and its last script; a proof
checked against one header and an anchor built from another; the tip, the last
headers and the headers of old checkpoints come from different moments.
*Correct when*: an anchor names a block that contains the transaction, headers
are cached at their own height, a scan covers every script up to the gap and an
eviction is of a transaction the server does not have, the chain update connects
to the wallet's chain, and a call during which nothing changes brings the wallet
to the server's chain whatever happened to earlier calls.

### 1.8 Test environment and examples

Not part of the client's logic.

## 2. Modules

| Module | Models | Composed of | State of the work |
| --- | --- | --- | --- |
| `Status` | the statuses and their predicates, `status.rs` | | done |
| `Connection` | the lifecycle (1.1) | `Status` | done |
| `ConnectionLoop` | what the lifecycle promises: one loop, without threads, locks and flags | | done |
| `ConnectionProofs` | invariants of `Connection` for every instance, and that it implements `ConnectionLoop` | `Connection` | seven theorems |
| `Backoff` | the delays (1.2) | | done |
| `BackoffProofs` | bounds, values and growth of the delays | `Backoff` | four theorems |
| `Requests` | queue, sender, pinger, waiting calls (1.3), the request API (1.4) | | done |
| `RequestsProofs` | the safety of `Requests` | `Requests` | four theorems |
| `Notifications` | the broadcast channel and its streams (1.5) | `Status` | done |
| `NotificationsProofs` | the safety of `Notifications` | `Notifications` | two theorems |
| `MerkleProof` | `validate_merkle_proof`, `util.rs`, and the trees it is used on | | done |
| `MerkleProofProofs` | every leaf of every tree has a valid proof | `MerkleProof` | one theorem |
| `Anchors` | `batch_fetch_anchors` and its caches (1.7) | `MerkleProof` | done |
| `AnchorsProofs` | the safety of `Anchors` | `Anchors`, `MerkleProofProofs` | six theorems |
| `ElectrumServer` | the server as a wallet sees it: chain, mempool, histories (external) | | done |
| `TipUpdate` | `fetch_tip_and_latest_blocks` and `chain_update` (1.7) | `ElectrumServer` | done |
| `SpkScan` | scripts, transactions, outpoints, previous outputs (1.7) | `ElectrumServer` | done |
| `Sync` | `full_scan` and `sync`, call after call | `TipUpdate`, `SpkScan`, the contract of `Anchors` | done |
| `SyncProofs` | the chains of `Sync` | `Sync`, `MerkleProofProofs` | four theorems |
| `SyncScanProofs` | what a scan finds, and that calls end | `SyncProofs` | four theorems |
| `MC...` | instances for TLC, values in the `.cfg` files | | |

`Connection` and `Requests` cut the client in two along the one interface the
code has between them: `post_connection`. `Connection` sees a session as the
program point `"Serving"`, which may end at any time; `Requests` sees the
lifecycle as `SessionStart` and `ConnectionLost`, which may happen at any time.
`Anchors` sees the request API as requests that answer or fail. Each module
thus allows at least the behaviour the other has. `Notifications` likewise lets
the connection task store any status that its place in the loop allows.

## 3. How the models correspond to the code

**`Connection`.** A step is what happens between two accesses to shared
state. `call[c]` is where a caller is inside `connect()`, `disconnect()` or
`shutdown()`; each load, notification and store of these functions is a step of
its own (`Disconnect`, `DisconnectNotify`, `DisconnectMark`). `pc[t]` is where a
connection task is; the program points are the await points and the accesses to
shared state of `connection_task`, `_try_connect` and `post_connection`. With
`config.multiThread` false (tokio's current-thread runtime) whoever is between
two await points keeps the thread (`MayRun`). `terminate` and `woken` are the state
of the `Notify`: a permit (`"Notified"`), a registered waiter (`"Waiting"`), or
neither; `woken` is a notification handed to the waiter and not yet polled,
which goes back as a permit if the `select!` drops the waiter first
(`CancelNotified`). `told` is a history variable that no guard reads.

A timer fires or a connection succeeds only while the `select!` is pending, so
`SleepElapsed` and `ConnectOk` need a registered waiter; connecting may fail at
the first poll. The last `set_status` of a task and the broadcast that follows
it are one step, since broadcasts are not modelled here.

`LoopPhase` maps the program points of the task in the loop, if there is one, to
the phases of `ConnectionLoop`; a task that has swapped `running` and waits for
the receiver is `"attempting"`, one that is only spawned, or has left the loop, is
`"stopped"`.

**`Backoff`.** Durations are milliseconds up to `DurationMax`; `Factor`,
`Jitter`, `CheckedMulOr` and `SaturatingAdd` are the arithmetic of
`next_reconnect_interval` with its overflows.

**`Requests`.** `phase[r]` is where a call is or how it returned; a call is
`"Sent"` between the return of `send_batch` and the `select!` of
`wait_batch_response`, when it cannot hear that the session ends. `queue` is the
command channel. `EndSession` is the completion of the `select!` in
`post_connection` for whichever reason, followed by `disconnected()`: it resets
what is local to a session and leaves the queue and the ping permit alone. The
streaming client (another crate) is external: the requests of a batch handed
over are answered in any order, refused, or dropped with the session, after
which their futures may fail or stay pending. `size[r]` is the number of
requests of a batch, `outcome[r]` what their futures resolved to, `result[r]`
what the call returned: the position of a request stands for its answer. The
calls of the API differ in three ways only: whether they wait
(`Subscriptions`), how many requests they make (`Sizes`; a batch call without
any returns at once), and whether the first error is the result or failures are
left out (`Lenient`; a fee the server cannot estimate counts as a failure).

**`Anchors`.** `pc[s]` and the record `job[s]` are the program point and the
local variables of `batch_fetch_anchors`; `headers` and `anchors` are the two
caches; `lock` is the header cache's mutex, which the code holds across the
requests of the first phase. Every `.await` on a request separates two steps,
so reorganisations and other syncs come between them. A block is a pair of
height and fork and stands for its header and hash; its transactions give its
Merkle root and the proofs, which `Valid` checks as the code does.

**`MerkleProof`.** `Climb` is one round of the loop of `validate_merkle_proof`, a
hash is the pair of its arguments. `Rounds` are all its rounds, as a recursive
function. The rest is the server's tree (`Levels`, from the leaves to the row of
one hash at `Depth`), with the last hash of an odd row paired with itself.

**`Notifications`.** `todo[w]` are the stores and broadcasts that a caller or the
task has begun and not done yet, so that two writers interleave as in the code;
`sent` is everything broadcast; a stream is a cursor in it, which falls off the
ring of `Capacity` and is moved (`Lag`). `belief` is what an application that
follows the stream knows. `Check` and `Subscribe` are the two halves of
`notifications()`.

**`TipUpdate`, `SpkScan`, `Sync`.** `stage` is where a call of `full_scan` or
`sync` is; `tip`, `scan` and `found` are the local variables of the functions it
calls. A block is a height and the event that mined it, a checkpoint chain the
set of its blocks, a history a set of transactions with heights. Each request is
a step, except that the transactions of one history, which are fetched one by
one, come in one step, and that `batch_fetch_anchors` is a step by what the run
`anchors` shows of it: its anchors are true, and were on the best chain during the
call unless they come from the cache. Any of them may be missing, as a single
request that fails skips its transaction. `FetchOutpoints` likewise leaves out any
outpoint whose transaction is not in the cache. A call is *quiet* as long as the
server did not change and no outpoint was left out whose transaction the server
has. `Fails` is the `?` after every request. `Applied` is the wallet (external).

## 4. Runs

| Run | What it asks | Result |
| --- | --- | --- |
| `conn` | both runtimes, with and without reconnection, every interleaving: one loop at a time (`OneLoop`), no task waits behind a live one (`LockWaitShort`, `SpawnedRuns`), statuses backed by a task (`StatusHasTask`), no client left without its task by racing `connect()` calls (`KeepAlive`), a termination request is taken or the task stops (`TerminationTaken`), all of it implements the one loop of `ConnectionLoop` (`ImplementsLoop`); on the current-thread runtime a client whose task ended by itself can be connected again (`ConnectAgain`) and a stop during a session ends it (`StopHonouredOnOneThread`) | holds |
| `backoff` | delays stay within the configured bounds (`DelayBounds`), are those of unbounded arithmetic (`DelayIsReference`), and fall between two attempts by no more than the jitter does less what the doubling adds (`DelayFallsLittle`) | holds |
| `requests` | `HandedInOrder`, `SaturatedNotSent`, a batch's answers stand at the places of its requests (`RepliesAligned`), and that every call returns, a silent session ends, the queue drains | holds |
| `anchors` | a Merkle proof is valid with the header of its own block only (`ProofFitsItsBlock`), anchors are true (`AnchorProven`) and fresh (`FreshAnchors`), the expected header is in the cache (`HeaderPresent`), a quiet call is complete (`CompleteWhenQuiet`), every call returns (`SyncReturns`) | holds |
| `notify` | who subscribes, asks for the status and follows the stream knows the status unless it lags or two `set_status` overlap (`FollowerAgrees`); `shutdown()` ends the streams that keep up (`KeptUpStreamEnds`); every stream ends once the client and its task are gone (`ReleasedStreamsEnd`) | holds |
| `sync` | the chain update replaces or keeps every checkpoint of the wallet, whatever happens between the requests (`UpdateConnects`); a quiet call brings the wallet to the server's chain (`QuietUpdateOnChain`) with the blocks of its anchors (`AnchorsInChain`), finds what a scan of one script after the other finds (`ScanIsReference`), evicts exactly what the server lost (`EvictionsExact`) and finds the transaction of each outpoint it was asked for and who spends it, unless the server lacks it (`OutpointsComplete`); every step of a call, one that fails included, brings it nearer its end (`CallEnds`) | holds |
| `conn_drop` | dropping the client stops its task | violated |
| `conn_promise` | on a client that is still held, `Pending` and `Disconnected` announce an attempt somebody will make | violated |
| `conn_serving_mt` | on a multi-thread runtime a stop during a session ends it | violated |
| `conn_stale_permit` | a task stops only because the last word was to stop | violated |
| `anchors_zip` | a header is cached under its own height | violated |
| `notify_race` | a stream that is open once the client is shut down ends | violated |

`PROJECT.json` lists for each property of a passing run a mutant of the model,
the change a plausible bug would make, that the run rejects. The definitions
commented "Variant of ..." are these.

### What the violated runs show

* `conn_drop`: `_try_connect` stores `Connecting` over `Shutdown`
  (`client.rs` 364) and the one permit of the termination request is spent on
  that attempt (387): the task reconnects for ever after the drop of the client.
* `conn_promise`: `disconnect()` stores `Terminated`, or `shutdown()` stores
  `Shutdown`, before the spawned task runs, on a client that stays in use. The
  failed attempt stores `Disconnected` over it (380) and the back-off then takes
  the termination request and stops the task (344): no attempt will occur, and
  `connect()` refuses a client that is `Disconnected`. Another way to break the
  property: `connect()` meets the old task on its way out, spawns nothing (724)
  and leaves `Pending`.
* `conn_serving_mt`: `disconnect()` notifies (746) before it stores (749).
* `conn_stale_permit`: `disconnect()` on a client with no task leaves a permit
  that cancels the first attempt of the next `connect()`.
* `anchors_zip`: `bdk client.rs` 503 zips the headers that were found with all
  the heights that were asked. `AnchorProven` and `CompleteWhenQuiet` show
  what limits the damage: no false anchor results, and a later undisturbed
  call repairs it.
* `notify_race`: `notifications()` tests for shutdown (660) and then subscribes
  (664). A whole `shutdown()` in between is never announced to the stream, which
  is silent until the client is dropped (`ReleasedStreamsEnd`). `notifications()`
  does not yield, so it takes two threads.

Found while reading and not a matter of runs: `batch_transaction_get_merkle`
documents inline failures and returns the first error (`client.rs` 1076, 1104).

### What `QuietUpdateOnChain` leaves out

Nothing in the repository promises that a chain update is consistent if the
server reorganises meanwhile, so these are exceptions of the property and not
violations of a promise. In the first three a call joins blocks of two chains:
it takes a block of the best chain above one that is not on it. Once a later
call agrees with the upper one, it keeps the lower one for ever. The history
variable `mixed` records that this happened (`Joins`), and nothing else.

* The chain is rolled back after `get_tip()` and grows again before the header of
  a checkpoint is asked for (`bdk client.rs` 684, 699). The suffix comes short
  and from the old chain, the header above it from the new one. The run `sync`
  found this.
* The server is behind the wallet (678): the wallet's own chain is returned, and
  `chain_update` adds to it blocks of the server's chain, which may be another
  fork.
* The chain is reorganised below the suffix, after the walk ended at an agreement
  and before the anchors are fetched: `chain_update` (739) then adds the block of
  an anchor, of the new chain, above a checkpoint of the old one. The attempt to
  prove `QuietUpdateOnChain` found this: the run `sync` is too small for it. It
  takes four blocks, a suffix of one and a wallet with checkpoints at 0, 1 and 3,
  and TLC finds it there in a moment.
* An anchor from the cache is not checked again (524); its block may have left
  the chain (`stale`). Two calls and three blocks are too small for it to be in
  the update, which `chain_update` looks up in the fresh headers first, but it
  is the reason why `AnchorsInChain` leaves its height out.

### Bounds

The theorems of section 6 lift these bounds for all invariants, for `DelayFallsLittle`,
`CallEnds` and the safety part of `ImplementsLoop`; for the liveness properties
the bounds are what has been checked.

* `Connection`: two callers make every pair of calls race; the properties speak
  of one client, one task, or two tasks at once. Two task slots suffice for a
  task that runs and another one about to find it running; `SlotLeft` delays a
  `connect()` that would need another. The number of calls is not bounded.
* `Backoff`: `AttemptMax = 25` is beyond the largest exponent, 10, and
  saturates; the eleven initial and seven maximal delays include zero, values on
  both sides of the jitter and of the 23 ms below which the delay may fall while
  the exponent grows, and products that overflow `DurationMax`.
* `Requests`: each call is made once. A queue of two that three calls share is
  full, part full and empty; two ping timeouts end a session, so one may be
  forgiven. The number of sessions is not bounded. One call has two requests or
  none, so that one fails and the other does not, and answers come in both
  orders; the other batches have one. With two requests of the lenient call the
  properties were checked as well (more than twice the states).
* `Anchors`: two heights and two pairs make a chunk in which one request fails
  and the other does not; one reorganisation of each height (`MaxFork`) makes
  stale headers; two calls (`MaxCalls`), concurrent or one after the other, let
  a call meet what another left in the caches. Three calls were also checked
  for safety. Deadlock is not checked: after the last call nothing is left to
  do; `SyncReturns` says that no call is stuck. The blocks have one, two, three
  and five transactions, so that proofs of every kind of row occur.
* `Notifications`: five notifications (`MaxSent`) over a ring of two (`Capacity`)
  let a stream lag twice and lose the `Shutdown`. One stream stands for all, as
  streams do not interact. A writer begins only what fits in `MaxSent`, so no
  broadcast is cut off; deadlock is not checked because of that bound.
* `Sync`: two calls (`MaxCalls`), so that the second meets what the first left in
  the wallet and the caches; two changes of the server (`MaxEvents`), between
  any two requests; three blocks with a suffix of two, so that a header is asked
  for below the suffix and above one that comes short; a wallet on a lost fork
  with a checkpoint missing, so that an anchor adds one; a keychain of four
  scripts in batches of three with a gap of two, so that the gap spans a
  batch and a later script is used, and a second keychain. Two transactions
  compete for an output of a third: only that outpoint leads to one of them, the
  other pays a script that stays in use when it is gone, so that an eviction
  leaves a history behind. The request of a `sync` has a transaction id, that
  outpoint, and previous outputs. After the last call nothing is left to do, so
  deadlock is not checked.

### Fairness

* `Connection`: strong fairness of the steps of each task and each begun call,
  because a step may be disabled for a while by whoever else holds the thread or
  the lock, and tokio's run queues are FIFO. Strong fairness of taking a
  termination request that is pending: `select!` starts with a random branch.
  No fairness of `ConnectionEnds` and of the application's calls.
* `Requests`: weak fairness of the steps of a call (its timers fire) and of the
  pinger and the end of a ping (`ping_timeout`); strong fairness of taking a
  batch, which pings disable again and again, because the sender is polled
  between two ticks. None of answers, of connections and of their loss.
* `Anchors`: strong fairness of each sync, whose requests end by
  `request_timeout` and whose tokio mutex is FIFO.
* `Notifications`: weak fairness of a writer that began, and of an application
  that polls its streams. None of calls and of the task.
* `Sync` states no fairness: `CallEnds` gives a measure that each step of a call
  lowers. Since each request is answered or fails, every call ends.

## 5. Assumptions

* A Notify, a broadcast, a bounded mpsc channel and `select!` do what tokio
  documents; atomics are sequentially consistent, as the code asks.
* No time passes in the models: a timeout may come at any moment its future is
  pending. `PingerTick` assumes `ping_timeout < PING_INTERVAL`, as by default.
* Senders that wait for room in the command channel get it in any order.
* Tasks do not panic and the runtime is not shut down.
* The server of `Anchors` is honest at each moment: a header or a proof comes
  from its best chain. A batch is answered from one chain. Two hashes of
  different arguments differ, and different blocks have different Merkle roots
  (`RootsAssumption`; no two blocks have the same coinbase transaction). Every
  block has a transaction, and none twice. The application populates the anchor
  cache with true anchors.
* The server of `Sync` is honest at each moment as well. A block that left the
  best chain does not return to it. Transactions that spend the same output are
  never on the chain or in the mempool together; a broadcast replaces those of
  the mempool that it conflicts with, but none that is in a block.
  The wallet asks for the scripts it knows and expects its transactions on those
  they touch, it has at least one keychain, and a request names transactions and
  outputs that exist. It starts with the checkpoints of one chain, the server's
  or a fork of it (`WalletsAssumption`). One call runs at a time; `Anchors` has
  the concurrent ones.
* Callers and connection tasks are told apart by their names (`NamesAssumption`,
  `TaskAssumption`).

## 6. Proofs

Every invariant of the passing runs is a theorem, `Spec => []Inv`, for all values
of the constants that the assumptions allow. Each proof module states an
inductive invariant, one lemma per action that preserves it, and the theorems
that follow. `PROJECT.json` lists the theorems with the properties they state.

**`ConnectionProofs`**, for any sets of callers and tasks, both runtimes and both
values of `reconnect`: `TypeCorrect`, `SingleLoop`, `ShortLockWait`,
`StatusBacked`, `StaysAlive`, `ConnectsAgain`, and `Implements`
(`Spec => Loop!Spec`, the safety part of `ImplementsLoop`). Only the first is
inductive as it stands.

* `OneLoop` needs that `running` is cleared only by the one task that set it.
* `LockWaitShort` needs `LockOwner`: whoever is in the loop or returning holds
  the lock.
* `StatusHasTask` needs that the task in the loop is the only one.
* `KeepAlive` needs `NobodyStops`: before the first request to stop there is no
  permit, no call that stops and no status that breaks the loop, so that the
  task cannot leave it.
* `ConnectAgain` needs `LeavesTerminated`: a task leaves the loop with
  `Terminated` stored, and while somebody runs on the one thread nobody else
  stores a status.
* `Implements` needs two more: `NobodyBegins`, that there is no task before the
  first `connect()`, and `MarksToRetry`, that a task on its way to a back-off has
  reconnection enabled. Each step of a task is then a step of `ConnectionLoop` or
  leaves `LoopPhase` alone, and the end of the loop has a reason by `KeepAlive`.

**`BackoffProofs`**, for every set of configured delays and every `DurationMax`
and `AttemptMax` allowed: `TypeCorrect`, `DelayBounded`, `DelayMatchesReference`
and `DelayNearlyGrows`. For the third, each power of two up to the tenth is worked
out, and a multiplication or sum that overflows a `Duration` is above the
maximal delay as well, so the cap hides the fallback. For the last: the delay is
a capped sum. The jitter falls by at most 178, and among the first attempts only
where the doubling adds eight times the initial delay or more (`JitterRange`,
`IntervalGrows`); later the exponent no longer changes (`IntervalSettles`).

**`RequestsProofs`**, for any calls, sizes of batches, capacity of the queue and
number of tolerated ping timeouts: `TypeCorrect`, `AlwaysHandedInOrder`,
`SaturatedIsNotSent`, `RepliesAreAligned`. `HandedInOrder` says that what was
handed over, then what is queued, is what was accepted; the other two need the
tie between a call and its batch: a batch is accepted once, while its call is
sending (`AcceptedOnce`), a call that may still wait has one future per request
(`FuturesOfCalls`), and nothing resolves before it was handed over
(`HandedFirst`).

**`NotificationsProofs`**, for any writers, streams, capacity and number of
notifications: `TypeCorrect`, `FollowersAgree`. `FollowerAgrees` speaks of moments
when nothing is being set and all is read; the invariant says what holds in
between. As long as no two `set_status` overlapped, one writer is inside it at
most (`Serial`), what it will broadcast is what it stored (`Announced`), and
otherwise the last status broadcast is the one stored (`LastIsStatus`), which
whoever has no status left to read believes (`Informed`). That a store is
followed by its own broadcast is `WellFormed`.

**`MerkleProofProofs`**: `ProofValid`, that `validate_merkle_proof` accepts the path
of any leaf of a tree with any number of leaves. One round of its loop goes up
one row; the rows shrink until one has a single hash.

**`AnchorsProofs`**, for any syncs, transactions, heights, blocks, reorganisations
and size of chunks: `TypeCorrect`, `AnchorsAreProven`, `ProofsFit`,
`HeadersArePresent`, `NewAnchorsAreFresh`, `QuietCallsAreComplete`. The invariant of
each sync (`Safe`) ties its hashes, the pairs it asks for and its proofs to the
header cache, out of which nothing is taken (for `HeaderPresent`), its proofs and
results to blocks that were on the best chain during the call (for
`AnchorProven` and `FreshAnchors`), and, for calls that nothing disturbed, says
where each pair is on its way to an anchor (`Complete`). `ProofFitsItsBlock` uses
`ProofValid` and that blocks differ in their roots.

**`SyncProofs`**, for any chains, transactions, scripts, keychains, requests, length
of the suffix and numbers of changes and calls: `TypeCorrect`, `UpdatesConnect`,
`QuietUpdatesOnChain`, `AnchorsAreInChain`.

* `UpdateConnects`: the walk comes from above and has another block for each
  checkpoint it passed (`Descended`). So the chain up to the agreement with the
  latest blocks above it connects (`Connects`), and `chain_update` adds only at
  heights that are free.
* `QuietUpdateOnChain`: in a quiet call the checkpoint the walk agrees with is on
  the best chain, but what the wallet has below it is kept unseen. The
  invariant must therefore say something of the wallet between calls: none of
  its blocks that is on the best chain has one below it that is not (`Under`;
  `ForkInv` follows it through a call). A reorganisation preserves that, since a
  block that stays on the chain keeps all that is below it (`ChainStep`, which
  needs that no known block is of a future event, `PastInv`). `Joins` is exactly
  what else would break it, and the proof failed until it was: see section 4.
* `AnchorsInChain`: in a quiet call anchors are of the best chain or stale, and
  the tip is in the update, so no anchor is above it.

**`SyncScanProofs`**: `EvictionsAreExact`, `OutpointsAreComplete`,
`ScansAreReference` and `CallsEnd`. In a quiet call the batch holds the
histories of the next scripts of the list (`BatchInv`); the last active index and
the unused scripts after it make up the position, and no gap has ended before
(`GapInv`); the update has the entries of the lists that are done and of the
scripts so far, and no others (`Finds`); for a sync, whose gap is never reached,
what is evicted is what was lost of the scripts so far (`EvictInv`); an outpoint
that was left out is of a transaction the server lacks (`SkipInv`). `CallsEnd`
needs that the walk has a checkpoint left at each of its steps, that a batch
takes some script off the list, and that checkpoints are finitely many.

What recursive functions compute (the loop of `validate_merkle_proof` and the
tree, flattened sequences) is proved without the induction theorems of the
library, by the least number for which it would fail (`Least` and `Induction` in
`MerkleProofProofs`).

Only model-checked are the liveness properties, since TLAPS does not reason about
fairness: `StopHonouredOnOneThread`, `TerminationTaken`, `SpawnedRuns` and the
`Progress` of `ConnectionLoop`; the returns of calls, the end of silent sessions and
the draining of the queue in `Requests`; `SyncReturns`; `KeptUpStreamEnds` and
`ReleasedStreamsEnd`. That the step of `Sync` for `batch_fetch_anchors` is what
`Anchors` does is by the names of the properties, and not a refinement.

## 7. Not modelled

* Transport set-up, TLS and SOCKS: I/O with three outcomes, which `Connection`
  keeps.
* `address.rs`: pure parsing with unit tests. `builder.rs`: stores fields; their
  values are the constants of the modules.
* The contents of requests and the conversions of responses (`types.rs`): pure,
  and no property is about them.
* `populate_tx_cache`: the transaction cache starts empty and is filled by the
  calls. It only makes requests unnecessary.
* Renewal of subscriptions after a reconnection: the code leaves it to the
  application.
* The test environment and the examples.

## 8. Plan

The models of the plan are written, and all invariants of the runs are proved.
What is left:

1. The safety half of the liveness properties of `Requests` and `Notifications`:
   what each step brings nearer, as `CallsEnd` does for `Sync`.
2. `Anchors` as an implementation of one step, the contract that `Sync` takes for
   `batch_fetch_anchors`.
3. `populate_tx_cache` as an action of `Sync`.
