# Formal models of AnimusCore

TLA+ models of AnimusCore -- its lock-free rings, engine, Raft, secure transport,
shared-memory lifecycle, security gateways, decoders and the programs built around
them -- the TLC runs that check them on small instances, and TLAPS proofs about four
of the rings, the engine and the gateways for every size. Paths below are relative to
`src/`.

## 1. The system

AnimusCore moves telemetry and market-data records between threads and
processes without locks, evaluates rules on them, writes them to a log, serves
several tenants behind role-based gateways, and replicates the rule set with a
small Raft over TLS.

| Part | Source | Modules | Status |
|---|---|---|---|
| `SpscQueue` | `include/animus/spsc_queue.hpp` | `SpscQueue` | modelled, proved |
| `BroadcastRing` | `include/animus/broadcast_ring.hpp` | `BroadcastRing` | modelled, proved |
| `ShmRing`, `SpmcRing` | `include/animus/shm_ipc.hpp` | `ShmRing`, `SpmcRing` | modelled; `SpmcRing` proved |
| `ShmRingMpmc`, `LockFreeRingBuffer` | `shm_ipc.hpp`, `AnimusCore_v1/animus.hpp` | `MpmcRing` | modelled, proved |
| `Engine`, CEP windows | `AnimusCore_v1/animus.hpp` | `Engine`, `CepRule` | modelled; `Engine` proved |
| `RaftNode` | `AnimusCore_v1/animus_cluster.hpp` | `RaftNode`, `SecureService` | protocol and link modelled |
| secure transport | `AnimusCore_v1/animus_transport.hpp` | `SecureChannel`, `SecureService` | modelled over an external Schannel |
| shared-memory lifecycle | `shm_ipc.hpp`, `shm_lifecycle.hpp` | `SegmentLayout`, `ShmLifecycle` | modelled |
| security: RBAC, tenants, audit | `AnimusCore_v1/animus_security.hpp` | `AuditLog`, `Gateway` | modelled, proved |
| C interface, licensing | `AnimusCore_v1/animus_engine.cpp` | `Gateway`, `AbiPrograms`, `BroadcastRing`, `SegmentSizing` | partly |
| CME and ITCH adapters | `adapters/` | `Decoders`, `ServicePrograms`, `RingPrograms` | modelled |
| extension modules for Python | `bindings/`, `sdk/python/csrc`, ... | `ServicePrograms` | threads and counters modelled |
| benchmarks, demos | `benchmarks/`, `bench/`, `sandbox/`, `animus_sandbox/`, `AnimusCore_v1/*.cpp` | `RingPrograms`, `ServicePrograms`, `Percentiles`, `PointerChase` | modelled |

How they interact: `Engine` owns two `LockFreeRingBuffer`s, one for events and one
for signals. `RaftNode` applies committed rules to an `Engine` and talks over
`SecureChannel`s. The gateways route calls of authenticated threads to the engine
of their tenant. The C interface, the adapters, the bindings, the demos and the
benchmarks drive the rings and the engine. The models follow these lines: a part is
modelled in detail once, and used elsewhere by what its own module shows. `Engine`
and `Harness` take a ring for the bounded queue that `MpmcRing`, `SpscQueue` and
`ShmRing` show it to be, and `Gateway` keeps of an engine whose events it was given
and how its worker is started and stopped.

## 2. Modules

| Module | Models |
|---|---|
| `BoundedFifo` | abstract: a FIFO queue of bounded length |
| `LossyLog` | abstract: a log whose readers take records in order or skip them, and count what they skip |
| `SpscQueue` | `try_push`, `try_pop` |
| `SpmcRing` | `broadcast`, `poll`, `oldest_intact` |
| `BroadcastRing` | `publish`, `poll`, and `broadcast_poll` of the C interface |
| `ShmRing` | `try_push`, `push_overwrite`, `try_pop` with both its routes |
| `MpmcRing` | `push`, `pop` of the sequence-numbered ring |
| `Engine` | `record`, `add_rule`, `add_cep_rule`, `poll_signals`, `start_persistence`, `stop_persistence`, the worker |
| `RaftNode` | the election and replication threads, the request handlers, `propose` |
| `SecureChannel` | one TCP connection with a channel at each end: handshake loops, records, frames, messages, teardown |
| `SecureService` | the streaming demo and the RPC link of the cluster over it, with listener, handler and `stop` |
| `SegmentLayout` | what each ring class writes into a fresh segment and what each `open` requires |
| `ShmLifecycle` | `create`, `open`, `unlink`, attach markers, `peer_alive`, `SignalGuard`, and the programs that use them |
| `AuditLog` | `BoundedAuditLog`: `append`, `drain` |
| `Gateway` | both gateways, `TenantRegistry`, the licence, core pinning, start and stop of workers |
| `Instructions` | the steps of which thread functions are written |
| `RingPrograms`, `ServicePrograms`, `AbiPrograms` | 27 programs as threads over rings and words |
| `Harness` | the machine they run on |
| `CepRule` | `CepRuleState::on_event` |
| `Decoders` | the ITCH and CME decoders |
| `Percentiles` | percentiles, histograms, calibration |
| `SegmentSizing` | from a requested capacity to the bytes of a segment |
| `PointerChase` | the chain of the cache benchmark |
| `Algorithms` | the five modules above, one state per input |
| `RingLemmas` and `*Proofs` | proofs (section 4) |
| `MC*` | constants, scenarios and symmetry for TLC |

### Conventions

* **Steps.** In the rings one action is one access to shared memory together
  with the local computation up to the next access. A `pc` says where a thread
  stands. Elsewhere a section that holds a mutex, one atomic access, or one blocking
  system call is one action.
* **Records.** A slot is a function from `Words`; copying one takes a step per
  word, in any order, as `memcpy` may. Record `i` has `i` in every word, so a
  torn record is one whose words differ.
* **Indices.** Slot `i & mask` is `i % Capacity`. The 64-bit counters of the rings are
  natural numbers: they do not wrap within 2^64 records. `CepRule` and
  `SegmentSizing` keep a width, because there overflow matters.
* **Memory order.** Accesses are interleaved. Reordered are the words of a copy, and
  the plain stores of `create()` in `ShmLifecycle` unless the behaviour is of an
  `ordered` build. Each fence, acquire and release orders the accesses the models
  keep in order; whether those orderings are sufficient on a weak memory model is
  not checked.
* **Weak compare-exchange.** In `MpmcRing` a spurious failure takes the thread back to
  an earlier point of the same loop with the same position, and is left out. In
  `ShmRing` it can change the outcome, so `SpuriousFailure` selects it.
* **Bounds.** Constants named `Max...`, and `Hit`, `Frames`, `ReqLens`, `Events`,
  `PerThread`, `Scenarios`, bound the length or the choice of behaviours, each in a
  guard or in `Init`. None of them is in the code.
* **History.** Variables that no guard reads record what happened for the properties;
  they are marked as such where they are declared.
* **Mutants.** A definition named `X_Something` is `X` with a plausible mistake. No
  specification uses it; it shows that a property notices the mistake.

### The rings

`SpscQueue`: `head`, `tail` and `slots` are shared, `cached_tail` and `cached_head`
private. `TryPushCached` and `TryPushReload` are the two ways to find room,
`StoreWord` the copy, `PublishHead` the release store; the consumer mirrors them.

`SpmcRing` and `BroadcastRing` let the writer overwrite what a reader is copying, and
the reader decide afterwards what to discard. `SpmcRing` reads `write_seq`, which is
odd during a write, and can trust `Capacity` records. `BroadcastRing` has the cursor
alone and can trust `Capacity - 1`. `LossyLog` says what they have in common. Readers
write no shared state, so one reader shows what each of several would see. In
`BroadcastRing` a reader may also go through `broadcast_poll`, which polls up to
`kMaxPollAttempts` times; a first attempt that finds nothing uses one of them up.

`ShmRing`: `push_overwrite` reclaims the oldest slot by moving `tail` with a
compare-exchange. `try_pop` validates by `tail` alone until `overwrite_active` is set
and by `write_seq` afterwards. The consumer's plain store of `tail` may move it back
behind the producer's floor; the model keeps this. A program that calls only
`try_push` and `try_pop` never leaves the first mode, and `FifoUntilReclaim` is about
that mode.

`MpmcRing`: the code is the same in `LockFreeRingBuffer` and `ShmRingMpmc` except that
the latter refuses fewer than two cells. A cell is exclusively owned between its claim
and its publication, so its record is stored in one step; `ExclusiveCell`, part of
`CellsHandedOver`, is what justifies that.

### Engine and RaftNode

The worker of `Engine` is a sequence of steps: try the sink, pop up to `BATCH_SIZE`
events, snapshot both rule sets, evaluate event by event and rule by rule, write, look
at `running_`. A write may fail. One thread starts and stops it here; several do in
`Gateway`. A rule is known by its position and the kind of event it matches.

A node of `RaftNode` has its tick thread and one proposer, which may replicate at the
same time. A remote call is a request in flight, a reply in flight, and the step that
acts on it. A call may fail before or after it was handled, and a request may be
handled after its caller gave up. `last_applied_` equals `commit_index_` whenever the
mutex is free and is left out, as are the leader hint, which decides nothing, and
restarts, which the header says the in-memory log does not support.

### SecureChannel and SecureService

A record travels as two units, so `recv()` may return part of a record, one, or several.
Schannel is external: it turns a complete token into the next one and opens records in
the order in which they were sealed. Everything around it -- the input buffers of the
two handshake loops, `SECBUFFER_EXTRA`, the plaintext buffer behind `recv_exact`,
`close_notify`, `force_close` -- is the code's. In mode `demo` a client streams frames
(`secure_transport_demo.cpp`). In mode `rpc` a node dials another, keeps the link and
issues requests over it, and the dialled node may be stopped at any point. One
connection is modelled.

### SegmentLayout and ShmLifecycle

A segment is the first eight 64-bit words of its header, its cells, and what has been
pushed. A behaviour picks a program and a view: four programs of the repository, one of
them in two modes, and a plain owner for each of the other three classes, opened through
their own class and through those that might take the segment for theirs,
`AnimusGetMetrics` and the raw schema view included. Instances of the program are
started one after the other, fail at any step of `create()`, are signalled or killed
anywhere, and get pids that were used before. The peer retries `open` as the consumers
do and then polls `is_producer_alive` with or without heartbeats.

### Gateway

A caller is a thread with one token. A call authorises, resolves the tenant to an
engine, leaves the registry's mutex, acts, and appends to the trail; exceptions leave it
in the middle. `remove_tenant` destroys an engine under the registry's mutex and waits
there for its worker. Engine addresses are reused. `ghost` records when a caller breaks
a rule the classes state: a tenant removed while its engine is in use, or start and stop
overlapping on one engine. After the first of these, and after `std::terminate`, a
behaviour ends.

### Harness and its programs

A thread function is a record of labels and instructions, so a program of several
hundred lines of set-up, formatting and measurement is what its threads do to rings,
flags and counters. A push claims a cell and publishes it later, a pop takes the oldest
published cell and gives it back later. Clocks and signals are threads that set a word
at any time. A report is the comparison the program makes, and `verdict` what it says.
The callers of the C interface (`AbiPrograms`) are those of `tests/test_bindings.py`
and of the benchmarks. The extension modules run under the Python loops that use them:
`examples/live_stream.py` (`tests/test_consumer.py` has the same loop),
`bench_python_throughput.py`, `dashboard_server.py`, and the concurrent test of
`test_python_bridge.py`. The programs in `LeavesEvents` stop over what their rings hold:
two of those loops stop reading before they stop their producer, and of them only the
sum of pushed and dropped is checked.

### Algorithms

Each algorithm is evaluated on every input of a bounded set and compared with a
definition that does not follow the code: a rescan of all events for a window, what a
generator wrote for the ITCH decoder, the usable prefix of a datagram for the CME one,
ranks for percentiles, unbounded arithmetic for sizes, the orbit of a permutation for
the chain.

## 3. Runs

The runs hold except the one marked V, which violates a statement of the repository
(section 5).

| Run | Instance | States | Shows |
|---|---|---|---|
| `spsc_queue` | 4 slots, 2 words, 12 records | 3,121 | no slot race, refinement of `BoundedFifo`, delivery |
| `spmc_ring` | 4 slots, 2 words, batches of 2, 8 records | 22,520 | refinement of `LossyLog`, catching up |
| `broadcast_ring` | the same | 120,887 | the same for the `Capacity - 1` window; "nothing" means caught up |
| `shm_ring` | 2 slots, 2 words, 6 records, 2 attempts | 39,144 | only gaps, a FIFO queue until the first reclaim, catching up |
| `mpmc_ring` | 2 producers, 2 consumers, 2 cells, 4 pushes | 209,522 | cells handed over one at a time, every push popped |
| `engine` | 2 events of 2 kinds, batches of 2, 1 rule of each sort, 2 starts, failing sink | 254,666 | events accounted for, stop returns, none waits for ever |
| `raft` | 3 nodes, 2 elections, 2 rounds, 1 proposal, 1 failed call, 1 late request | 426,183 | one leader per term, logs match, committed entries stay |
| `raft_propose` V | 3 nodes, 2 elections, 5 rounds, 1 proposal | | `Ok` for a lost command |
| `secure_service` | records of 2 bytes, 2 frames, requests of 3 and 1 bytes | 13,212 | what arrives is a prefix, what is lost and when, which calls return |
| `lifecycle` | 17 program and view pairs, 2 instances, 2 pids, 1 push | 156,469 | what an open may rely on, owners respected, peers and signals followed |
| `gateway` | 2 callers with 2 calls, 2 tenants, 2 engine addresses, trails of 2, 1 removal | 193,260 | audit, isolation, licence, control of workers, calls return |
| `harness` | 27 programs with 3 events per phase, rings of 1 to 5 cells; all algorithm inputs | 173,641 | delivery, truthful reports, termination; exact algorithms |

**Why the bounds suffice for the questions asked.** The rings run for at least two
laps, so every slot is reused and every index passes the capacity. Two words are
enough to tear a record. The retry limits of `ShmRing` (4 and 64 in the code) are
2, which makes giving up more frequent, not less. In `engine` two events fill a batch
or fall into different batches or different starts, and their matches overflow the
signal ring. With three events, the last of which can find the ring full, the same
properties hold (3.4 million states, 21 minutes), which is too long to keep as a run.
The Raft bounds allow an election during a round, and rounds of the tick thread and a
proposer at once; with three rounds the same properties hold (3.1 million states, 12
minutes). They do not allow the four-term scenario behind the rule that only entries of
the current term are committed by counting, nor logs that need several conflict steps to
repair. In `secure_service` the first request needs two records after its length, so
that every boundary -- inside a record, between records, between prefix and payload --
is a place where `recv()` can stop. In `lifecycle` one crash and one restart reuse the
name and the pid. In `gateway` a trail of two entries overflows, and operations are
grouped into six scenarios by the state they share. In `harness` rings are small enough
to be full and empty in each program that handles it. The algorithms' inputs straddle
each of their edges: windows shorter and longer than the input, of sizes that make the
later and that make all of the positions wrap, sums beyond the width, lengths one below,
at and one above a struct, capacities over the whole of a 6-bit `size_t`.

**Deadlock.** TLC checks it in the rings and in `harness`, where a finished program
stutters. The others may stop: their bounds are used up, or a call really hangs as the
properties describe.

**Fairness.** Weak fairness of a thread says that the operating system keeps scheduling
it and, for a consumer, that its caller keeps calling. The single-consumer and lossy
rings need it of the consumer alone, no step of which waits; the producer may stop
anywhere. `mpmc_ring` needs it of the consumers and of every producer inside a call, since
a claimed and unpublished cell holds up those behind it, as the comment in `shm_ipc.hpp`
says. `engine` needs it of the worker and of `join`, not of the application. `gateway`
needs it of threads inside a call and of workers; nobody has to call. `secure_service`
needs it of both programs, the listener and `stop`; nothing forces `stop` to be called.
`lifecycle` needs it of running programs and of the retrying peer, not of signals or
crashes. `harness` needs it of every thread, since its programs spin on each other; clocks
are among them, because a run time does elapse. Strong fairness is used nowhere.
`RaftNode` has no liveness property: its calls have no timeout.

## 4. Proofs

Each theorem is about every value of the constants. "Proved" in section 1 means these:

| Module | Theorem | States, of the runs' properties |
|---|---|---|
| `SpscQueueProofs` | `NoRace`, `Delivery`, `Refinement` | `NoSlotRace`, whole records in order, `ImplementsFifo` |
| `SpmcRingProofs` | `Refinement` | `ImplementsLog` |
| `BroadcastRingProofs` | `Refinement`, `EmptyPoll` | `ImplementsLog`, `NothingMeansCaughtUp` |
| `MpmcRingProofs` | `HandOver` | `CellsHandedOver`, if `Capacity > 1` |
| `EngineProofs` | `Accounted` | `EventsAccounted` |
| `TenantProofs` | `TenantsIsolated`, `LicenceGates`, `WorkersControlled` | `TenantIsolation`, `LicenceHonoured`, `PersistenceControlled` |
| `GatewayProofs` | `TrailsExact`, `CallsAudited` | `AuditAccounted`, `EveryCallAudited` |

Each rests on an inductive invariant, which TLC confirms in every reachable state of the
instance that the component's run uses. All but `TenantProofs` also use the arithmetic of
`RingLemmas`: records less than a lap apart have different slots.

**`SpscQueueProofs`.** The invariant `IInv` adds to the types:

* `Order`: `cached_tail <= tail <= cached_head <= head` and
  `head - cached_tail <= Capacity`, so that a stale cache errs on the safe side;
* `Inside`: what each side has checked and copied while it is inside a slot;
* `Content`: slots `tail..head-1` hold the records they should;
* `History`: what was popped.

The essential step is `FreeSlot`: the slot of `head` is not that of any live record, since
fewer than `Capacity` lie between them. The refinement maps the abstract queue to the
window of slots between `tail` and `head`; only `PublishHead` and `RetireTail` change it.

**`SpmcRingProofs`, `BroadcastRingProofs`.** A reader copies words that the writer may be
overwriting, so no invariant can say that its copy is right. `Copied` says that each
word copied so far is right *unless a write of its slot, one lap later, has begun by now*;
the condition only weakens as the writer goes on, and what it excludes is what the reader
discards at the end of its poll. In `SpmcRing` "has begun" is what `write_seq` shows
(`Counter`), which is why all `Capacity` records can be trusted. In `BroadcastRing` it is
invisible, so the condition must allow for one more record, and `Intact` says that the newest
`Capacity - 1` are whole whether or not a write is under way. The refinement maps
both to `LossyLog`: the end of a poll takes some records and counts the others, the
publication appends one, and every other step stutters. `EmptyPoll` needs `Attempts` in
addition: each attempt of `broadcast_poll` that came to nothing has cost at least one
record, the first perhaps excepted.

**`MpmcRingProofs`.** `CellState` gives the sequence number of each of the `Capacity`
positions before `enqueue_pos`: `i` while position `i` is being written, `i + 1` when it may be
read, `i + Capacity` when its cell is free again. `Writing`, `Reading` and `Claims` say that a
thread inside a cell is the only one there, and `Stale` that what a thread has read of a sequence
number is not above it. A claim succeeds only when the cursor still has the value the
thread's position has, and then what it read is not stale. Every number of threads is
covered. The theorem assumes `Capacity > 1` because with one cell `i + 1` and `i + Capacity`
coincide and the property is false (section 5).

**`EngineProofs`.** The events are numbered in the order of acceptance, so that "handled,
then in the batch, then in the ring" are three intervals (`Numbered`, `Filed`). `RulesKnown`
says that rules are only added and that a snapshot taken after the pop has all the rules the
events of the batch know. That nothing is evaluated twice needs to know where the evaluation
stands: `Before` says that no window and no signal is at or past the event and rule whose
turn it is. `Controlled` says that a start never finds a worker, without which two workers
could share a batch.

**`TenantProofs`.** What a call may do is `Rightful`: only an entitled call gets past the check
of its role and only such a call can still become an `Allowed` entry. Isolation is not
inductive: an engine address is reused, so a stale pointer would be harmless for a while. The
invariant `Iso` says that a tenant has at most one live engine, which is in the registry or is
the one being destroyed (`Registered`); that clients and calls refer to live engines of their
tenant (`Bound`, `Users`); that unless it was in use, nothing refers to the engine being
destroyed (`Condemned`); and that calls which name no tenant are about the tenant of their
token (`Lane`). The licence invariant says that the core count is stored from a verified
licence before the flag is, and that a call is bound to the requirement only while the process
is. For the persistence workers, `Control` says that as long as no start or stop has overlapped
another and no thread was refused, at most one call is in control of an engine (`Alone`), each
finds flag and worker as the step it is at expects them (`Expected`), and where no call is in
control flag and worker agree (`Settled`); a dead engine is as one that was never made
(`Gone`), so a reused address starts without a worker.

**`GatewayProofs`**, on top of `TenantProofs`. `TrailStep` reduces every step to what it means
to the trails: nothing, an exception, an entry, a call begun, a poll. `AppendKeeps` and
`DrainKeeps` are the lemmas about one log: an append at the limit moves the reader past exactly
the entry it overwrites. The count of `EveryCallAudited` needs the cardinality of the set of
calls that still owe their entry; `Unowed` and `PendingEnds` say how steps change that set.

**Assumptions.** Capacities and batches of the engine are positive, and of `BroadcastRing` at
least 2, as `init` and `attach` require; bounds are natural numbers; the `Words` of `SpscQueue` are not
empty; producers and consumers of `MpmcRing` are different threads; callers are finitely many;
addresses, tenants and core counts are positive numbers, 0 being the null value.

**Only model-checked.** Liveness, which the prover does not handle. The algorithms, whose
correctness is by induction over data. The programs of `Harness`, which are data of one
machine. `RaftNode`, `ShmRing`, `SecureService` and `ShmLifecycle`: their safety
properties are within the prover's reach, but have no inductive invariant here yet.

## 5. Disagreements with the repository's own statements

A run shows this one:

1. `raft_propose`: `propose` compares its index with `commit_index_` before it looks
   at its role, so a deposed leader answers `Ok` for a command that was overwritten,
   where the comment says it "blocks ... until it is committed and applied"
   (`animus_cluster.hpp:252`).

The following are visible in the models under the change named; the properties of the
passing runs are stated so that they say exactly where the repository's statement stops
being true.

2. `dropped_count()` "never undercounts" (`shm_ipc.hpp:887`). Check `NeverUndercounts` in
   `MCShmRing.cfg`: a record lapped during the copy is skipped; the consumer's store of
   `tail` then reaches the producer's floor before the exchange, and nobody counts it.
3. The exchange in `push_overwrite` is said to fail only because of the consumer
   (`shm_ipc.hpp:917`). With `SpuriousFailure = TRUE` and four attempts, a slot is
   overwritten with `tail` unmoved, and a pop on the cheap route returns a torn record.
   This needs a build whose weak exchange can fail spuriously; x86 is not affected.
4. With `Capacity = 1`, `MpmcRing` violates `NeverOverfull`: "published" and "free for
   the next lap" are the same number, where the feed's comment says a push "returns
   false if the ring is full" (`animus.hpp:1515`). `LockFreeRingBuffer` accepts one cell,
   and `MarketDataFeed::create` turns 0 into 1. `ShmRingMpmc` requires two. For every
   capacity above one `HandOver` proves the statement.
5. `StopDrains` of `Engine` fails: the worker's exit is commented "ring buffer fully
   drained" (`animus.hpp:1162`), but an event recorded between the empty pop and the read
   of `running_` stays behind. `shm_ipc_ingest_demo` and `concurrency_stress_consumer` can
   report a failure for this reason (`MayFail` in `Harness`).
6. `FramesLostOnlyEarly` without `earlyLost`: bytes that arrive together with the client's
   last handshake token are discarded with the local `in_buf`, against the demo's check
   `server_frames_accepted == TOTAL_FRAMES` (`secure_transport_demo.cpp:209`).
7. `CallReturns` and `StopReturns` of `SecureService` without their exceptions: a handler
   that returns leaves its socket open, so the caller waits for ever, holding the mutex
   `stop()` needs; a connection registered after `stop()` has closed the others is joined
   while its handler waits; and a listener that cannot bind clears `running_`, after which
   `stop()` returns without joining.
8. `OpenSeesRing`: the kind of `ShmRing` is 0, the value of untouched memory, so where
   stores are reordered its `open` can take a half-built ring of another kind; for every
   ring but the MPMC one a peer's push can be erased by the creator's constructor there.
   A `SpscQueue` of capacity 2 looks like an `SpmcRing` to `AnimusGetMetrics`, and
   `SharedTelemetryChannel::attach` checks neither kind nor magic.
9. `PeerFollows`: an owner that dies before it publishes its pid, or whose pid is reused
   while the peer asks for no heartbeats, is never noticed. A restart after a crash finds
   the name taken until someone removes it. `ShutdownHonoured`: a signal between the
   installation of the handlers and the clearing of the flags is lost, and a shutdown
   before the first push leaves `harness_benchmark` with no samples to summarise.
10. `EveryCallAudited`: "one AuditEvent per call -- allowed or denied" except for a call
    left by an exception (`animus_security.hpp:216`). `PersistenceControlled`: a
    `std::thread` that cannot be created leaves `running_` set without a worker;
    overlapping start and stop end in `std::terminate`. `TenantIsolation`: removing a
    tenant under a call or an execution client leaves a dangling engine.
11. `MayFail` lists programs whose self-check can fail with nothing wrong: a poller that
    asks whether to stop after it found nothing (the feed test of `tests/test_bindings.py`
    and the pollers written like it), a tripwire in `bench_mpmc` that counts the creation
    of its own threads. `OneInFlight` leaves out the first measured event of
    `telemetry_benchmark`, which may queue behind the warm-up.
12. `EveryEventDelivered` has two gaps, named in `Unwatched`. `live_stream.py` drains an
    empty batch, then asks `producer_running`, and leaves on the answer no: what was
    pushed in between stays in the ring. The same loop in `tests/test_consumer.py` is
    followed by `assertEqual(len(received), 1000)` (262) and
    `assertEqual(len(received), stream.pushed_count)` (290), which can therefore fail
    with nothing wrong in the ring. Without the second disjunct of `Unwatched` TLC shows
    it. And `cme_ingest` loses the entries it decodes after the signal: its consumer may
    have found the ring empty twice and left, while the ingest loop finishes its packet
    and counts them in `entries_pushed`.
13. `CepExact` holds while `window_size` plus the number (MIN and MAX) or the time (any
    aggregate) of the events in the window fits in 64 bits. `add_cep_rule` accepts any
    size (`animus.hpp:1251`). With a larger one the addition in `evict_fifo` or
    `evict_monotonic` wraps and the entry just pushed is evicted: SUM and AVG of a time
    window are 0, and MIN and MAX read `front()` of an empty deque, where the comment
    says "the window's minimum/maximum is always the front element"
    (`animus.hpp:185`). Without the last conjunct of `Fits` TLC shows it. SUM and AVG
    over a count window are exact for every size.
14. `cluster_latency_bench` prints "ALL PROPOSALS COMMITTED" when every answer was `Ok`
    (`cluster_latency_bench.cpp:270`). By item 1 an `Ok` of a deposed leader may stand
    for a command that is in no log, so `ReportsTrue` says nothing about that line.

## 6. Not modelled

* Weak memory beyond the reorderings of section 2, wrap-around of the 64-bit ring counters.
* Raft restarts and membership, liveness of the cluster, several connections per node.
* A second producer on a used `SpmcRing`, two producers on a single-producer ring, two
  live `SignalGuard`s: the headers rule them out.
* The Windows and POSIX variants of one function are modelled once: Windows for the
  gateway, licence and transport, POSIX for the lifecycle.
* Schannel, the file system and the kernel's socket buffers except by what their callers
  can observe.
* `schema.hpp`, `thread_affinity.hpp`, `execution_event.hpp`: compile-time descriptors
  and system calls.
* Python packages, services, scripts and report generators: wrappers, text and HTTP; they
  enter as the callers of the extension modules and of the C interface.
* `cluster_demo.cpp`: a script around `RaftNode`.
* `animus_release.hpp` and the copies under `public_benchmark` are generated from or equal
  to the modelled headers.
