---------------------------- MODULE ServicePrograms ----------------------------
(***************************************************************************)
(* Programs that drop, give up or cross a process border: the CME ingest   *)
(* adapter, the Python bindings, the shared-memory latency benchmark and   *)
(* the demos that feed an engine from a shared-memory ring.                *)
(***************************************************************************)
EXTENDS RingPrograms, TLC

CONSTANT Retries    \* max_retry_spins of start_continuous; poll spins once more

ASSUME RetriesAssumption == Retries \in Nat

-----------------------------------------------------------------------------
(* adapters/cme_mdp3: at most Events + 1 book entries arrive, in packets   *)
(* of any size.  The decoder never waits: an entry that finds the ring     *)
(* full is counted and its sequence number is used up.                     *)

\* WSAStartup may fail where there is one.
WinsockGuard(ok, failed) == Either({ok, failed})

\* The candidates that are not above the request are tried, the largest
\* first, until the system takes one; it may take none of them.
kLadder == 8

set_max_rcvbuf(next) ==
    [candidate |-> Either({"smaller", "rcvbuf"}),
     smaller |-> For("j", kLadder, "candidate", "rcvbuf"),
     rcvbuf |-> Set("j", 0, next)]

close_udp_socket(next) == Add("sockets", -1, next)

\* socket, the non-blocking mode, the address and bind, and the group where
\* there is one may each fail; from the second on that closes the socket.
open_udp_receiver(next, failed) ==
    set_max_rcvbuf("set_nonblocking") @@
    [open |-> Either({"socket", failed}),
     socket |-> Add("sockets", 1, "candidate"),
     set_nonblocking |-> Either({"bind", "close"}),
     bind |-> Either({"multicast_group", "close"}),
     multicast_group |-> Either({next, "close"}),
     close |-> close_udp_socket(failed)]

\* Mutant: a dropped entry leaves no gap in the sequence numbers.
decode_packet_into_ring_NoGap ==
    [entry |-> Push("ring", "event", 0, "i", "pushed", "dropped"),
     pushed |-> Add("pushed", 1, "next"),
     dropped |-> Add("dropped", 1, "more"),
     next |-> For("i", Events + 1, "more", "quiet"),
     more |-> Either({"entry", "loop"})]

decode_packet_into_ring ==
    [entry |-> Push("ring", "event", 0, "i", "pushed", "dropped"),
     pushed |-> Add("pushed", 1, "next"),
     dropped |-> Add("dropped", 1, "next"),
     next |-> For("i", Events + 1, "more", "quiet"),
     more |-> Either({"entry", "loop"})]

\* Nothing to read, a receive error, a malformed packet or one of another
\* template: back to the loop.
run_ingest_loop ==
    decode_packet_into_ring @@
    [loop |-> Below("stopped", 1, "recv_one_packet", "return"),
     recv_one_packet |-> Either({"loop", "entry"}),
     quiet |-> Await("stopped", "zero", 1, "return")]

cme_main ==
    open_udp_receiver("threads", "end") @@ run_ingest_loop @@
    [start |-> WinsockGuard("open", "end"),
     threads |-> Start({"clock", "c1"}, "loop"),
     return |-> Join({"c1"}, "stopped"),
     stopped |-> close_udp_socket("end")]

handle_sigint == [start |-> Set("stopped", 1, "end")]

\* Mutant: told to stop, it leaves at the first empty ring.
cme_consumer_thread_fn_OnePop ==
    [start |-> Pop("ring", "count", "empty"),
     count |-> Add("frames_consumed", 1, "start"),
     empty |-> Below("stopped", 1, "start", "end")]

cme_consumer_thread_fn ==
    [start |-> Pop("ring", "count", "empty"),
     count |-> Add("frames_consumed", 1, "start"),
     empty |-> Below("stopped", 1, "start", "again"),
     again |-> Pop("ring", "count", "end")]

-----------------------------------------------------------------------------
(* bindings/animus_py.cpp and sdk/python/csrc/animus_ring_buffer.cpp: a    *)
(* producer thread inside the extension, drained from Python by the loops  *)
(* of examples/live_stream.py and sdk/python/bench_python_throughput.py.   *)

run_producer ==
    [start |-> Below("stop_requested", 1, "more", "done"),
     more |-> Below("i", Events, "push", "done"),
     push |-> Push("ring", "event", 0, "i", "pushed", "dropped"),
     pushed |-> Add("pushed", 1, "next"),
     dropped |-> Add("dropped", 1, "next"),
     next |-> Add("i", 1, "start"),
     done |-> Set("not_running", 1, "end")]

\* The counters it resets are zero here: it is called once.
start_producer(next) == Start({"p1"}, next)

stop_producer(next) ==
    [stop |-> Set("stop_requested", 1, "join"),
     join |-> Join({"p1"}, next)]

\* Pops until the ring is empty or the batch is full; only a first pop that
\* fails makes the batch empty.
drain(batch, nothing) ==
    [drain |-> Pop("ring", "limit", nothing),
     limit |-> Either({"pop", batch}),
     pop |-> Pop("ring", "limit", batch)]

\* An empty batch, then the question whether the producer still runs; after
\* the answer no nobody looks at the ring again.
live_stream ==
    drain("drain", "producer_running") @@ stop_producer("end") @@
    [start |-> start_producer("drain"),
     producer_running |-> Below("not_running", 1, "drain", "stop")]

sdk_run_producer == run_producer

\* max_spins is Retries + 1; a frame starts the count afresh.
poll(batch) ==
    [poll |-> Pop("ring", "popped", "spin"),
     popped |-> Set("k", 0, "limit"),
     limit |-> Either({"poll", batch}),
     spin |-> For("k", Retries + 1, "poll", "return"),
     return |-> Set("k", 0, batch)]

\* It polls until its time is over, whatever the ring holds then.
bench_python_throughput ==
    poll("deadline") @@ stop_producer("end") @@
    [start |-> Start({"clock", "p1"}, "deadline"),
     deadline |-> Below("run_end", 1, "poll", "stop")]

-----------------------------------------------------------------------------
(* animus_sandbox/nanobind_bridge.cpp.  stop_producer only joins, so the   *)
(* caller drains every event before it stops, as python_bridge_test does.  *)

nb_producer ==
    [start |-> Push("ring", "event", 0, "i", "produced", "start"),
     produced |-> Add("produced_total", 1, "next"),
     next |-> For("i", Events, "start", "done"),
     done |-> Set("not_running", 1, "end")]


nb_stream ==
    [start |-> Start({"p1"}, "drain"),
     drain |-> Pop("ring", "consumed", "drain"),
     consumed |-> For("got", Events, "drain", "stop"),
     stop |-> Join({"p1"}, "end")]

nb_continuous ==
    [start |-> Below("stop_continuous", 1, "more", "end"),
     more |-> Below("i", Events, "attempt", "idle"),
     attempt |-> Push("ring", "event", 0, "i", "pushed", "retry"),
     retry |-> For("k", Retries + 1, "attempt", "dropped"),
     pushed |-> Add("pushed", 1, "seq"),
     dropped |-> Add("dropped", 1, "seq"),
     seq |-> Add("i", 1, "fresh"),
     fresh |-> Set("k", 0, "start"),
     idle |-> Await("stop_continuous", "zero", 1, "end")]

stop_continuous(next) ==
    [stop_continuous |-> Set("stop_continuous", 1, "join"),
     join |-> Join({"p1"}, next)]

\* dashboard_server.py: a thread drains until the server shuts down, which
\* stops that thread first, then the producer, and does not wait for ever
\* for the thread.
drain_loop ==
    drain("start", "start") @@
    [start |-> Below("stop_drain", 1, "drain", "end")]

lifespan ==
    stop_continuous("join_drain") @@
    [start |-> Start({"clock", "p1"}, "drain_thread"),
     drain_thread |-> Start({"c1"}, "yield"),
     yield |-> Await("run_end", "zero", 1, "stop"),
     stop |-> Set("stop_drain", 1, "stop_continuous"),
     join_drain |-> Either({"joined", "end"}),
     joined |-> Join({"c1"}, "end")]

-----------------------------------------------------------------------------
(* public_benchmark/src/python_bridge.cpp, as its concurrent test uses it. *)
(* produce gives up on a stall and returns how many it published; head is  *)
(* the index that publishes.                                               *)

produce ==
    [start |-> Push("ring", "event", 0, "i", "head", "stalled"),
     head |-> Add("head", 1, "next"),
     stalled |-> Below("run_end", 1, "start", "return"),
     next |-> For("i", Events, "start", "return"),
     return |-> Copy("published", "i", "end")]

\* Retires a slot; it refuses more than are published.
consume(next, refused) == Pop("ring", next, refused)

\* Reads up to head, compares each row and retires it (a batch of one row),
\* until it has them all or its deadline passes.
concurrent_consumer ==
    [start |-> Start({"clock", "p1"}, "while"),
     while |-> Below("consumed", Events, "deadline", "join"),
     deadline |-> Below("run_end", 1, "head", "failed"),
     head |-> Less("consumed", "head", 0, "consume", "while"),
     consume |-> consume("compare", "failed"),
     compare |-> Verify(0, "retired"),
     retired |-> Add("consumed", 1, "while"),
     join |-> Join({"p1"}, "rows"),
     rows |-> Below("bad", 1, "report", "failed"),
     report |-> Report({<<"published", "zero", Events>>, <<"head", "zero", Events>>, <<"consumed", "zero", Events>>}, "end"),
     failed |-> Report({<<"zero", "zero", 1>>}, "end")]

-----------------------------------------------------------------------------
(* AnimusCore_v1/shm_ipc_bench.cpp: two processes in lockstep over two     *)
(* rings.  A spin budget may run out at any moment.                        *)

Launch(report) ==
    [start |-> Start({"clock", "c1", "p1"}, "join"),
     join |-> Join({"c1", "p1"}, "report"),
     report |-> report]

Timeout == [start |-> Set("timeout", 1, "end")]

bench_run_consumer ==
    [start |-> Set("fwd_ring", 1, "create"),
     create |-> Set("ack_ring", 1, "pop_spin"),
     pop_spin |-> Pop("fwd", "check", "spin"),
     spin |-> Below("timeout", 1, "pop_spin", "end"),
     check |-> Verify(1, "mismatch"),
     mismatch |-> Below("bad", 1, "ack", "end"),
     ack |-> Push("ack", "ack", 0, "i", "next", "spin_ack"),
     spin_ack |-> Below("timeout", 1, "ack", "end"),
     next |-> For("i", Events, "pop_spin", "unlink"),
     unlink |-> Set("fwd_ring", 0, "unlink2"),
     unlink2 |-> Set("ack_ring", 0, "ok"),
     ok |-> Set("consumer_ok", 1, "end")]

bench_run_producer ==
    [start |-> Below("fwd_ring", 1, "deadline", "open2"),
     open2 |-> Below("ack_ring", 1, "deadline", "push_spin"),
     deadline |-> Below("timeout", 1, "start", "end"),
     push_spin |-> Push("fwd", "message", 0, "i", "pop_spin", "spin"),
     spin |-> Below("timeout", 1, "push_spin", "end"),
     pop_spin |-> Pop("ack", "next", "spin_ack"),
     spin_ack |-> Below("timeout", 1, "pop_spin", "end"),
     next |-> For("i", Events, "push_spin", "ok"),
     ok |-> Set("producer_ok", 1, "end")]

-----------------------------------------------------------------------------
(* Programs around an engine: its worker persists and signals each event   *)
(* of the ring "events" (Engine has the batches, rules and failing sinks); *)
(* signals go to a second ring, and are dropped when that is full.         *)

process_persistence_queue ==
    [start |-> Pop("events", "signal", "check"),
     signal |-> Push("signals", "signal", 0, "hand", "write", "write"),
     write |-> Add("persisted", 1, "start"),
     check |-> Below("running", 1, "end", "start")]

\* AnimusCore_v1/AnimusCore_v1.cpp
core_main ==
    [start |-> Set("running", 1, "worker"),
     worker |-> Start({"worker"}, "record"),
     record |-> Push("events", "event", 0, "i", "next", "record"),
     next |-> For("i", Events, "record", "stop"),
     stop |-> Set("running", 0, "join"),
     join |-> Join({"worker"}, "end")]

poller ==
    [start |-> Below("stop_poll", 1, "poll", "end"),
     poll |-> Pop("signals", "hit", "start"),
     hit |-> Add("rule_hits", 1, "poll")]

\* Receive with a spin budget, pass each event on, and retry while the
\* engine's ring is full (a batch of one event).
Receive(timeout) ==
    [pop_spin |-> Pop("ring", "received", "spin"),
     spin |-> Below("timeout", 1, "pop_spin", timeout),
     received |-> Add("received", 1, "record"),
     record |-> Push("events", "event", 0, "hand", "accepted", "record"),
     accepted |-> Add("accepted", 1, "next"),
     next |-> For("i", Events, "pop_spin", "stop")]

\* stop_persistence, then the poller, then what the poller left behind.
WindUp(ready) ==
    [stop |-> Set("running", 0, "join"),
     join |-> Join({"worker"}, "stop_poll"),
     stop_poll |-> Set("stop_poll", 1, "join2"),
     join2 |-> Join({"poller"}, "trailing"),
     trailing |-> Pop("signals", "hit", ready),
     hit |-> Add("rule_hits", 1, "trailing")]

Verified == {<<"received", "zero", Events>>, <<"accepted", "received", 0>>, <<"rule_hits", "accepted", 0>>, <<"persisted", "accepted", 0>>}

\* AnimusCore_v1/shm_ipc_ingest_demo.cpp.  A timeout returns past the
\* joinable poller, which terminates the process.
ingest_run_consumer ==
    Receive("terminate") @@ WindUp("report") @@
    [start |-> Set("ring_created", 1, "engine"),
     engine |-> Set("running", 1, "threads"),
     threads |-> Start({"worker", "poller"}, "pop_spin"),
     report |-> Report(Verified, "end"),
     terminate |-> Exit({"c1", "worker", "poller"})]

ingest_run_producer ==
    [start |-> Below("ring_created", 1, "deadline", "push_spin"),
     deadline |-> Below("timeout", 1, "start", "end"),
     push_spin |-> Push("ring", "event", 0, "i", "next", "spin"),
     spin |-> Below("timeout", 1, "push_spin", "end"),
     next |-> For("i", Events, "push_spin", "end")]

\* AnimusCore_v1/concurrency_stress_consumer.cpp, one tenant.  A timeout
\* stops the poller and leaves the rest to the engine's destructor.
tenant_worker ==
    Receive("give_up") @@ WindUp("result") @@
    [start |-> Set("ring_created", 1, "engine"),
     engine |-> Set("running", 1, "threads"),
     threads |-> Start({"worker", "poller"}, "pop_spin"),
     result |-> Report(Verified, "end"),
     give_up |-> Set("stop_poll", 1, "join_poller"),
     join_poller |-> Join({"poller"}, "destroy"),
     destroy |-> Set("running", 0, "join_worker"),
     join_worker |-> Join({"worker"}, "failed"),
     failed |-> Report({<<"zero", "zero", 1>>}, "end")]

stress_main ==
    [start |-> Start({"clock", "sampler", "c1", "p1"}, "join"),
     join |-> Join({"c1"}, "stop_sampler"),
     stop_sampler |-> Set("stop_sampler", 1, "join2"),
     join2 |-> Join({"sampler", "p1"}, "end")]

sampler == [start |-> Await("stop_sampler", "zero", 1, "end")]

-----------------------------------------------------------------------------
(* AnimusCore_v1/cluster_latency_bench.cpp: proposals to the node that was *)
(* elected first in a cluster of three (RaftNode), back to back and then   *)
(* waiting each time for both others.  Its log grew by a proposal or not,  *)
(* whatever the answer: an Ok of a node that was deposed may stand for an  *)
(* entry that was overwritten, and one that is not Ok may have entered.    *)
(* The deadline of a wait may have passed at any look at the followers.    *)

wait_for(leader, none) == Either({leader, none})

\* Pass 2: each proposal also waits for the slowest follower.
full_convergence(next) ==
    [propose2 |-> Either({"ok2", "failed2"}),
     ok2 |-> Either({"entry2", "log_size"}),
     entry2 |-> Add("log", 1, "log_size"),
     log_size |-> Copy("k", "log", "conv_deadline"),
     first |-> Less("committed1", "k", 0, "conv_deadline", "second"),
     second |-> Less("committed2", "k", 0, "conv_deadline", "next2"),
     conv_deadline |-> Either({"first", "next2"}),
     failed2 |-> Add("failures", 1, "late2"),
     late2 |-> Either({"late_entry2", "next2"}),
     late_entry2 |-> Add("log", 1, "next2"),
     next2 |-> For("j", PerThread, "propose2", next)]

cluster_main ==
    full_convergence("stop") @@
    [start |-> Either({"nodes", "end"}),
     nodes |-> Start({"n1", "n2"}, "leader_of"),
     leader_of |-> wait_for("leader", "no_leader"),
     leader |-> Add("log", 1, "propose"),
     propose |-> Either({"answered", "failed"}),
     failed |-> Add("failures", 1, "answered"),
     answered |-> Either({"entry", "next"}),
     entry |-> Add("log", 1, "next"),
     next |-> For("i", PerThread, "propose", "propose2"),
     no_leader |-> Add("failures", 1, "stop"),
     stop |-> Set("stop_nodes", 1, "join"),
     join |-> Join({"n1", "n2"}, "report"),
     report |-> Report({<<"failures", "zero", 0>>}, "end")]

\* A follower: it learns of the leader's entries one after the other.
follower(committed_count) ==
    [start |-> Below("stop_nodes", 1, "behind", "end"),
     behind |-> Less(committed_count, "log", 0, "append", "start"),
     append |-> Add(committed_count, 1, "start")]

-----------------------------------------------------------------------------
One == [ring |-> Small]
EngineRings == [events |-> 1, signals |-> Small, ring |-> Small]

\* "none" ends at once.
ServiceProgram ==
    [none |-> [cap |-> One, code |-> [main |-> [start |-> Join({}, "end")]]],
     cme_ingest |-> [cap |-> One, code |-> [main |-> cme_main, c1 |-> cme_consumer_thread_fn, clock |-> handle_sigint]],
     py_stream |-> [cap |-> One, code |-> [main |-> live_stream, p1 |-> run_producer]],
     sdk_ring |-> [cap |-> One, code |-> [main |-> bench_python_throughput, p1 |-> sdk_run_producer, clock |-> Clock]],
     nb_stream |-> [cap |-> [ring |-> 1], code |-> [main |-> nb_stream, p1 |-> nb_producer]],
     nb_dashboard |-> [cap |-> [ring |-> 1], code |-> [main |-> lifespan, c1 |-> drain_loop, p1 |-> nb_continuous, clock |-> Clock]],
     python_bridge |-> [cap |-> One, code |-> [main |-> concurrent_consumer, p1 |-> produce, clock |-> Clock]],
     shm_ipc_bench |-> [cap |-> [fwd |-> Small, ack |-> Small],
                        code |-> [main |-> Launch(Report({<<"consumer_ok", "zero", 1>>, <<"producer_ok", "zero", 1>>}, "end")),
                                  c1 |-> bench_run_consumer, p1 |-> bench_run_producer, clock |-> Timeout]],
     core |-> [cap |-> EngineRings, code |-> [main |-> core_main, worker |-> process_persistence_queue]],
     ingest_demo |-> [cap |-> EngineRings,
                      code |-> [main |-> [start |-> Start({"clock", "c1", "p1"}, "join"), join |-> Join({"c1", "p1"}, "end")],
                                c1 |-> ingest_run_consumer, p1 |-> ingest_run_producer, worker |-> process_persistence_queue, poller |-> poller, clock |-> Timeout]],
     stress |-> [cap |-> EngineRings,
                 code |-> [main |-> stress_main, sampler |-> sampler, c1 |-> tenant_worker, p1 |-> ingest_run_producer,
                           worker |-> process_persistence_queue, poller |-> poller, clock |-> Timeout]],
     cluster_latency |-> [cap |-> One, code |-> [main |-> cluster_main, n1 |-> follower("committed1"), n2 |-> follower("committed2")]]]
=============================================================================
