----------------------------- MODULE RingPrograms -----------------------------
(***************************************************************************)
(* The benchmark programs around one ring: who starts whom, what each      *)
(* thread waits for, when it drains and when it may go away.               *)
(***************************************************************************)
EXTENDS Instructions

CONSTANTS
    Events,         \* events of each phase
    PerThread,      \* events of each of several producers
    Small           \* capacity of a ring that a producer may find full

ASSUME EventsAssumption == {Events, PerThread, Small} \subseteq Nat \ {0}

-----------------------------------------------------------------------------
(* benchmarks/telemetry_benchmark.cpp *)

telemetry_consumer ==
    [start |-> Set("consumer_ready", 1, "pop"),
     pop |-> Pop("ring", "measured", "pop"),
     measured |-> Tagged("measured", "ack", "throughput"),
     ack |-> Add("latency_ack", 1, "pop"),
     throughput |-> Tagged("throughput", "received", "pop"),
     received |-> For("got", Events, "pop", "end")]

\* Mutant: the producer does not wait for the acknowledgement.
telemetry_main_NoAck ==
    [start |-> Start({"c1"}, "ready"),
     ready |-> Await("consumer_ready", "zero", 1, "warmup"),
     warmup |-> Push("ring", "warmup", 0, "i", "next_warmup", "warmup"),
     next_warmup |-> For("i", Events, "warmup", "latency"),
     latency |-> Push("ring", "measured", 0, "j", "next_latency", "latency"),
     next_latency |-> For("j", Events, "latency", "throughput"),
     throughput |-> Push("ring", "throughput", 0, "k", "next_throughput", "throughput"),
     next_throughput |-> For("k", Events, "throughput", "join"),
     join |-> Join({"c1"}, "end")]

telemetry_main ==
    [start |-> Start({"c1"}, "ready"),
     ready |-> Await("consumer_ready", "zero", 1, "warmup"),
     warmup |-> Push("ring", "warmup", 0, "i", "next_warmup", "warmup"),
     next_warmup |-> For("i", Events, "warmup", "latency"),
     latency |-> Push("ring", "measured", 0, "j", "acknowledged", "latency"),
     acknowledged |-> Await("latency_ack", "j", 1, "next_latency"),
     next_latency |-> For("j", Events, "latency", "throughput"),
     throughput |-> Push("ring", "throughput", 0, "k", "next_throughput", "throughput"),
     next_throughput |-> For("k", Events, "throughput", "join"),
     join |-> Join({"c1"}, "end")]

-----------------------------------------------------------------------------
(* benchmarks/animus_harness.cpp.  Which run_end the clock reaches while   *)
(* the producer is at work is open; at most Events frames are sent.        *)

producer_thread_fn ==
    [start |-> Set("producer_ready", 1, "wait"),
     wait |-> Await("start_flag", "zero", 1, "time"),
     time |-> Below("run_end", 1, "push", "out"),
     push |-> Push("ring", "event", 0, "i", "next", "push"),
     next |-> For("i", Events, "time", "out"),
     out |-> Copy("frames_produced", "i", "done"),
     done |-> Set("producer_done", 1, "finished"),
     finished |-> Add("workers_finished", 1, "linger"),
     linger |-> Await("may_exit", "zero", 1, "end")]

consumer_thread_fn ==
    [start |-> Set("consumer_ready", 1, "wait"),
     wait |-> Await("start_flag", "zero", 1, "pop"),
     pop |-> Pop("ring", "process_one", "empty"),
     process_one |-> Verify(1, "pop"),
     empty |-> Below("producer_done", 1, "pop", "again"),
     again |-> Pop("ring", "process_one", "out"),
     out |-> Copy("frames_consumed", "got", "corrupt"),
     corrupt |-> Copy("corruptions", "bad", "finished"),
     finished |-> Add("workers_finished", 1, "linger"),
     linger |-> Await("may_exit", "zero", 1, "end")]

\* VERIFIED is printed when nothing was lost, corrupted, allocated or freed.
print_report(next) ==
    Report({<<"frames_produced", "frames_consumed", 0>>, <<"corruptions", "zero", 0>>,
            <<"alloc_after", "alloc_baseline", 0>>, <<"dealloc_after", "dealloc_baseline", 0>>}, next)

\* Mutant: the threads may go before the counters are read.
run_EarlyExit ==
    [start |-> Start({"clock", "p1", "c1"}, "ready"),
     ready |-> Await("producer_ready", "zero", 1, "ready2"),
     ready2 |-> Await("consumer_ready", "zero", 1, "before"),
     before |-> Copy("alloc_baseline", "allocs", "before2"),
     before2 |-> Copy("dealloc_baseline", "frees", "go"),
     go |-> Set("start_flag", 1, "release"),
     release |-> Set("may_exit", 1, "finished"),
     finished |-> Await("workers_finished", "zero", 2, "after"),
     after |-> Copy("alloc_after", "allocs", "after2"),
     after2 |-> Copy("dealloc_after", "frees", "join"),
     join |-> Join({"p1", "c1"}, "report"),
     report |-> print_report("end")]

run ==
    [start |-> Start({"clock", "p1", "c1"}, "ready"),
     ready |-> Await("producer_ready", "zero", 1, "ready2"),
     ready2 |-> Await("consumer_ready", "zero", 1, "before"),
     before |-> Copy("alloc_baseline", "allocs", "before2"),
     before2 |-> Copy("dealloc_baseline", "frees", "go"),
     go |-> Set("start_flag", 1, "finished"),
     finished |-> Await("workers_finished", "zero", 2, "after"),
     after |-> Copy("alloc_after", "allocs", "after2"),
     after2 |-> Copy("dealloc_after", "frees", "release"),
     release |-> Set("may_exit", 1, "join"),
     join |-> Join({"p1", "c1"}, "report"),
     report |-> print_report("end")]

-----------------------------------------------------------------------------
(* adapters/itch50/bench_itch_ingest.cpp.  A message the decoder refuses   *)
(* is counted and not sent; the sequence numbers stay gap-free.            *)

itch_producer_thread_fn ==
    [start |-> Set("producer_ready", 1, "wait"),
     wait |-> Await("start_flag", "zero", 1, "decode"),
     decode |-> Either({"push", "refused"}),
     push |-> Push("ring", "event", 0, "i", "seq", "push"),
     seq |-> Add("i", 1, "next"),
     refused |-> Add("decode_failures", 1, "next"),
     next |-> For("j", Events, "decode", "out"),
     out |-> Copy("messages_produced", "i", "done"),
     done |-> Set("producer_done", 1, "finished"),
     finished |-> Add("workers_finished", 1, "linger"),
     linger |-> Await("may_exit", "zero", 1, "end")]

\* Its report does not compare what was produced with what was consumed.
itch_print_report(next) ==
    Report({<<"decode_failures", "zero", 0>>, <<"corruptions", "zero", 0>>,
            <<"alloc_after", "alloc_baseline", 0>>, <<"dealloc_after", "dealloc_baseline", 0>>}, next)

itch_consumer_thread_fn == consumer_thread_fn

itch_run == [run EXCEPT !.start = Start({"p1", "c1"}, "ready"), !.report = itch_print_report("end")]

-----------------------------------------------------------------------------
(* animus_sandbox/soak_harness.cpp.  A refused event is not tried again:   *)
(* its number is used up.                                                  *)

soak_producer ==
    [start |-> Below("stop_producing", 1, "more", "end"),
     more |-> Below("i", PerThread, "enqueue", "idle"),
     enqueue |-> Push("ring", "event", 0, "i", "produced", "seq"),
     produced |-> Add("produced", 1, "seq"),
     seq |-> Add("i", 1, "start"),
     idle |-> Await("stop_producing", "zero", 1, "end")]

soak_consumer ==
    [start |-> Below("drain_complete", 1, "dequeue", "end"),
     dequeue |-> Pop("ring", "consumed", "start"),
     consumed |-> Add("consumed", 1, "start")]

soak_main ==
    [start |-> Start({"clock", "p1", "c1", "c2"}, "time"),
     time |-> Await("run_end", "zero", 1, "stop"),
     stop |-> Set("stop_producing", 1, "producers"),
     producers |-> Join({"p1"}, "drain"),
     drain |-> Await("consumed", "produced", 0, "complete"),
     complete |-> Set("drain_complete", 1, "consumers"),
     consumers |-> Join({"c1", "c2"}, "report"),
     report |-> Report({<<"produced", "consumed", 0>>}, "end")]

-----------------------------------------------------------------------------
(* animus_sandbox/benchmark_harness.cpp and sandbox/bench_mpmc.cpp: all    *)
(* pushes, then all pops.  Producer t sends t * PerThread + i.             *)

Total == 2 * PerThread

mpmc_producer(t) ==
    [start |-> Push("ring", "event", t * PerThread, "i", "next", "start"),
     next |-> For("i", PerThread, "start", "end")]

mpmc_consumer ==
    [start |-> Below("total_popped", Total, "dequeue", "end"),
     dequeue |-> Pop("ring", "sum", "start"),
     sum |-> Tally("checksum", "popped"),
     popped |-> Add("total_popped", 1, "start")]

Checked == {<<"total_popped", "zero", Total>>, <<"checksum", "zero", (Total * (Total - 1)) \div 2>>}

run_mpmc_ring_benchmark ==
    [start |-> Start({"p1", "p2"}, "pushed"),
     pushed |-> Join({"p1", "p2"}, "drain"),
     drain |-> Start({"c1", "c2"}, "drained"),
     drained |-> Join({"c1", "c2"}, "check"),
     check |-> Report(Checked, "end")]

\* The tripwire is armed before the threads are created.
run_mpmc_benchmark ==
    [start |-> Copy("armed", "allocs", "push"),
     push |-> Start({"p1", "p2"}, "pushed"),
     pushed |-> Join({"p1", "p2"}, "drain"),
     drain |-> Start({"c1", "c2"}, "drained"),
     drained |-> Join({"c1", "c2"}, "count"),
     count |-> Copy("hot_path_allocs", "allocs", "check"),
     check |-> Report(Checked \cup {<<"hot_path_allocs", "armed", 0>>}, "end")]

(* AnimusCore_v1/animus_benchmark_suite.cpp: the ring holds every push, so *)
(* a full ring is an error, and one thread drains it.                      *)

throughput_producer ==
    [start |-> Push("ring", "event", 0, "i", "next", "full"),
     next |-> For("i", PerThread, "start", "end"),
     full |-> Exit({"main", "p1", "p2"})]

run_ring_throughput_benchmark ==
    [start |-> Start({"p1", "p2"}, "pushed"),
     pushed |-> Join({"p1", "p2"}, "drain"),
     drain |-> Pop("ring", "count", "check"),
     count |-> Add("drained", 1, "drain"),
     check |-> Report({<<"drained", "zero", Total>>}, "end")]

\* Each tick is pushed, polled alone and turned into an order.
run_tick_to_trade_benchmark ==
    [start |-> Push("ring", "trade", 0, "i", "poll", "error"),
     poll |-> Pop("ring", "poll_on", "error"),
     poll_on |-> Pop("ring", "error", "submit"),
     submit |-> For("i", Events, "start", "end"),
     error |-> Exit({"main"})]

-----------------------------------------------------------------------------
(* bench/hotpath_bench.cpp and bench/custom_packet_example.cpp *)

hotpath_consumer ==
    [start |-> Pop("ring", "drained", "start"),
     drained |-> For("got", 2 * Events, "start", "end")]

hotpath_main ==
    [start |-> Start({"c1"}, "warmup"),
     warmup |-> Push("ring", "warmup", 0, "i", "next_warmup", "warmup"),
     next_warmup |-> For("i", Events, "warmup", "arm"),
     arm |-> Copy("armed", "allocs", "timed"),
     timed |-> Push("ring", "event", 0, "j", "next_timed", "timed"),
     next_timed |-> For("j", Events, "timed", "disarm"),
     disarm |-> Copy("allocs_observed", "allocs", "join"),
     join |-> Join({"c1"}, "report"),
     report |-> Report({<<"allocs_observed", "armed", 0>>}, "end")]

custom_consumer ==
    [start |-> Pop("ring", "check", "start"),
     check |-> Verify(0, "verified"),
     verified |-> Below("got", Events + 1, "more", "count"),
     count |-> Add("frames_verified", 1, "more"),
     more |-> Below("got", 2 * Events, "start", "mismatch"),
     mismatch |-> Copy("mismatch", "bad", "end")]

custom_main ==
    [hotpath_main EXCEPT
        !.warmup = Push("ring", "event", 0, "i", "next_warmup", "warmup"),
        !.timed = Push("ring", "event", Events, "j", "next_timed", "timed"),
        !.report = Report({<<"mismatch", "zero", 0>>, <<"frames_verified", "zero", Events>>, <<"allocs_observed", "armed", 0>>}, "end")]

-----------------------------------------------------------------------------
(* public_benchmark/src/bench_ring_tsc.cpp: one thread pushes a record and *)
(* pops it again, through one ring after the other.  The records in and    *)
(* out are the same for all three, and what push and pop return is not     *)
(* looked at: a pop that fails leaves the record before in out.  Without a *)
(* profiler or a queue the program ends without a verdict; what it checks  *)
(* of the machine (clock, pinning, migrations) is left out.                *)

ring_tsc_main ==
    [start |-> Either({"run_spsc", "end"}),
     run_spsc |-> Set("exp", 1, "spsc_push"),
     spsc_push |-> Push("spsc", "record", 1, "i", "spsc_pop", "spsc_pop"),
     spsc_pop |-> Pop("spsc", "spsc_bad", "spsc_bad"),
     spsc_bad |-> Verify(0, "spsc_next"),
     spsc_next |-> For("i", Events, "spsc_push", "run_mpmc"),
     run_mpmc |-> Set("exp", 1, "mpmc_push"),
     mpmc_push |-> Push("mpmc", "record", 1, "j", "mpmc_pop", "mpmc_pop"),
     mpmc_pop |-> Pop("mpmc", "mpmc_bad", "mpmc_bad"),
     mpmc_bad |-> Verify(0, "mpmc_next"),
     mpmc_next |-> For("j", Events, "mpmc_push", "init_attach"),
     init_attach |-> Either({"run_queue", "end"}),
     run_queue |-> Set("exp", 1, "queue_push"),
     queue_push |-> Push("queue", "record", 1, "k", "queue_pop", "queue_pop"),
     queue_pop |-> Pop("queue", "queue_bad", "queue_bad"),
     queue_bad |-> Verify(0, "queue_next"),
     queue_next |-> For("k", Events, "queue_push", "bad"),
     bad |-> Copy("mismatch", "bad", "report"),
     report |-> Report({<<"mismatch", "zero", 0>>}, "end")]

-----------------------------------------------------------------------------
Clock == [start |-> Set("run_end", 1, "end")]

RingProgram ==
    [telemetry |-> [cap |-> [ring |-> Small], code |-> [main |-> telemetry_main, c1 |-> telemetry_consumer]],
     animus_harness |-> [cap |-> [ring |-> Small], code |-> [main |-> run, p1 |-> producer_thread_fn, c1 |-> consumer_thread_fn, clock |-> Clock]],
     itch_ingest |-> [cap |-> [ring |-> Small], code |-> [main |-> itch_run, p1 |-> itch_producer_thread_fn, c1 |-> itch_consumer_thread_fn]],
     soak |-> [cap |-> [ring |-> Small], code |-> [main |-> soak_main, p1 |-> soak_producer, c1 |-> soak_consumer, c2 |-> soak_consumer, clock |-> Clock]],
     benchmark_harness |-> [cap |-> [ring |-> Total + 1], code |-> [main |-> run_mpmc_ring_benchmark, p1 |-> mpmc_producer(0), p2 |-> mpmc_producer(1), c1 |-> mpmc_consumer, c2 |-> mpmc_consumer]],
     bench_mpmc |-> [cap |-> [ring |-> Total + 1], code |-> [main |-> run_mpmc_benchmark, p1 |-> mpmc_producer(0), p2 |-> mpmc_producer(1), c1 |-> mpmc_consumer, c2 |-> mpmc_consumer]],
     ring_throughput |-> [cap |-> [ring |-> Total], code |-> [main |-> run_ring_throughput_benchmark, p1 |-> throughput_producer, p2 |-> throughput_producer]],
     tick_to_trade |-> [cap |-> [ring |-> Small], code |-> [main |-> run_tick_to_trade_benchmark]],
     hotpath |-> [cap |-> [ring |-> Small], code |-> [main |-> hotpath_main, c1 |-> hotpath_consumer]],
     custom_packet |-> [cap |-> [ring |-> Small], code |-> [main |-> custom_main, c1 |-> custom_consumer]],
     ring_tsc |-> [cap |-> [spsc |-> Small, mpmc |-> Small, queue |-> Small], code |-> [main |-> ring_tsc_main]]]
=============================================================================
