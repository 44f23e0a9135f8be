----------------------------- MODULE AbiPrograms -----------------------------
(***************************************************************************)
(* Callers of the C interface (AnimusCore_v1/animus_engine.cpp) and what   *)
(* it hands them: the two lazily built singletons, the market-data feed,   *)
(* the order queue and the telemetry channel.  A function that is given no *)
(* handle, or finds no singleton, returns 0; the callers are those of      *)
(* animus/bindings.py in tests/test_bindings.py and benchmarks/.           *)
(***************************************************************************)
EXTENDS ServicePrograms

\* The handle or singleton w is there, or it is null.
Handle(w, ok, null) == Below(w, 1, null, ok)

-----------------------------------------------------------------------------
(* MarketDataFeed: feed handlers and pollers in any number of threads.     *)

push_l2_update(n, yes, no) == Push("l2", "event", n, "i", yes, no)
push_trade(n, yes, no) == Push("trades", "event", n, "i", yes, no)

\* Up to Small records; k counts what the two polls return.
poll_l2_updates(next) ==
    [l2 |-> Pop("l2", "l2_count", next),
     l2_count |-> Add("collected", 1, "l2_more"),
     l2_more |-> For("k", Small, "l2", next)]

poll_trades(next) ==
    [trade |-> Pop("trades", "trade_count", next),
     trade_count |-> Add("collected", 1, "trade_more"),
     trade_more |-> For("j", Small, "trade", next)]

animus_feed_create(next) == Set("feed", 1, next)
animus_feed_close(next) == Set("feed", 0, next)

animus_feed_push(n) ==
    [start |-> Handle("feed", "l2", "end"),
     l2 |-> push_l2_update(n, "trade", "end"),
     trade |-> push_trade(n, "next", "end"),
     next |-> For("i", 1, "start", "end")]

\* The poller of the tests, here for both kinds of record: it asks for the
\* stop flag after an empty poll, so that a record pushed in between may stay
\* behind.
animus_feed_poll ==
    poll_l2_updates("poll_trades") @@ poll_trades("batch") @@
    [start |-> Set("k", 0, "zero_j"),
     zero_j |-> Set("j", 0, "handle"),
     handle |-> Handle("feed", "l2", "end"),
     poll_trades |-> Handle("feed", "trade", "end"),
     batch |-> Below("k", 1, "batch_j", "start"),
     batch_j |-> Below("j", 1, "stopped", "start"),
     stopped |-> Below("stop_producing", 1, "start", "end")]

feed_main ==
    [start |-> animus_feed_create("threads"),
     threads |-> Start({"c1", "p1", "p2"}, "join"),
     join |-> Join({"p1", "p2"}, "stop"),
     stop |-> Set("stop_producing", 1, "join2"),
     join2 |-> Join({"c1"}, "report"),
     report |-> Report({<<"collected", "zero", 4>>}, "close"),
     close |-> animus_feed_close("end")]

-----------------------------------------------------------------------------
(* The SPSC singleton: built once, under its mutex, with a licence.        *)

\* The buffer of one producer and one consumer: full and empty are refused.
SpscRingBuffer_push(yes, no) == Push("ring", "event", 0, "i", yes, no)
SpscRingBuffer_pop(yes, no) == Pop("ring", yes, no)

\* Mutant: the check for a ring is made before the mutex is taken.
animus_spsc_init_Unlocked(next, refused) ==
    [start |-> Below("g_license_verified", 1, refused, "check"),
     check |-> Below("g_spsc_ring", 1, "lock", next),
     lock |-> Lock("g_spsc_init_mutex", "make"),
     make |-> Add("rings", 1, "assign"),
     assign |-> Set("g_spsc_ring", 1, "unlock"),
     unlock |-> Set("g_spsc_init_mutex", 0, next)]

animus_spsc_init(next, refused) ==
    [start |-> Below("g_license_verified", 1, refused, "lock"),
     lock |-> Lock("g_spsc_init_mutex", "check"),
     check |-> Below("g_spsc_ring", 1, "make", "unlock"),
     make |-> Add("rings", 1, "assign"),
     assign |-> Set("g_spsc_ring", 1, "unlock"),
     unlock |-> Set("g_spsc_init_mutex", 0, next)]

\* The batch stops at the first push that fails; the caller tries the rest.
animus_spsc_record_events_batch ==
    animus_spsc_init("batch", "batch") @@
    [batch |-> Handle("g_spsc_ring", "push", "end"),
     push |-> SpscRingBuffer_push("pushed", "batch"),
     pushed |-> Add("pushed", 1, "next"),
     next |-> For("i", Events, "push", "end")]

animus_spsc_drain ==
    animus_spsc_init("batch", "batch") @@
    [batch |-> Handle("g_spsc_ring", "pop", "end"),
     pop |-> SpscRingBuffer_pop("count", "batch"),
     count |-> Add("drained", 1, "more"),
     more |-> For("got", Events, "full", "end"),
     full |-> For("k", Small, "pop", "reset"),
     reset |-> Set("k", 0, "batch")]

spsc_main ==
    [start |-> Either({"verify", "threads"}),
     verify |-> Set("g_license_verified", 1, "threads"),
     threads |-> Start({"p1", "c1"}, "join"),
     join |-> Join({"p1", "c1"}, "report"),
     report |-> Report({<<"rings", "g_spsc_ring", 0>>, <<"pushed", "drained", 0>>}, "end")]

-----------------------------------------------------------------------------
(* The engine singleton: whichever thread comes first builds it; events    *)
(* are recorded by all, logging is started and stopped by one.             *)

animus_init(next) ==
    [start |-> Lock("g_init_mutex", "check"),
     check |-> Below("g_engine", 1, "make", "unlock"),
     make |-> Add("engines", 1, "assign"),
     assign |-> Set("g_engine", 1, "unlock"),
     unlock |-> Set("g_init_mutex", 0, next)]

animus_record_event ==
    animus_init("record") @@
    [record |-> Handle("g_engine", "push", "end"),
     push |-> Push("events", "event", 0, "i", "accepted", "end"),
     accepted |-> Add("accepted", 1, "end")]

animus_start_logging(next) ==
    [logging |-> Handle("g_engine", "running", next),
     running |-> Set("running", 1, "worker"),
     worker |-> Start({"worker"}, next)]

animus_stop_logging(next) ==
    [stop |-> Handle("g_engine", "not_running", next),
     not_running |-> Set("running", 0, "join_worker"),
     join_worker |-> Join({"worker"}, next)]

animus_poll_signals(next) ==
    [signals |-> Handle("g_engine", "poll", next),
     poll |-> Pop("signals", "signal", next),
     signal |-> Add("polled", 1, "poll")]

\* animus_add_rule before the worker runs: every event is evaluated.
engine_main ==
    animus_start_logging("stop") @@ animus_stop_logging("signals") @@ animus_poll_signals("report") @@
    [start |-> Start({"p1", "p2"}, "join"),
     join |-> Join({"p1", "p2"}, "logging"),
     report |-> Report({<<"engines", "zero", 1>>, <<"accepted", "persisted", 0>>, <<"polled", "accepted", 0>>}, "end")]

-----------------------------------------------------------------------------
(* The order queue and the telemetry channel, between two processes.       *)

\* A short batch returns what it pushed; the rest is offered again.
animus_shm_ring_order_push_batch ==
    [start |-> Handle("order_queue", "push", "end"),
     push |-> Push("ring", "order", 0, "i", "pushed", "start"),
     pushed |-> Add("pushed", 1, "next"),
     next |-> For("i", Events, "push", "end")]

animus_shm_ring_order_pop_batch ==
    [start |-> Handle("order_queue", "pop", "end"),
     pop |-> Pop("ring", "check", "start"),
     check |-> Verify(1, "popped"),
     popped |-> Add("popped", 1, "more"),
     more |-> Below("got", Events, "pop", "order"),
     order |-> Copy("disorder", "bad", "end")]

animus_shm_ring_order_create ==
    [start |-> Set("order_queue", 1, "threads"),
     threads |-> Start({"p1", "c1"}, "join"),
     join |-> Join({"p1", "c1"}, "report"),
     report |-> Report({<<"pushed", "popped", 0>>, <<"disorder", "zero", 0>>}, "close"),
     close |-> Set("order_queue", 0, "end")]

SharedTelemetryChannel_push(yes, no) == Push("ring", "record", 0, "i", yes, no)
SharedTelemetryChannel_pop(yes, no) == Pop("ring", yes, no)

\* One record at a time; a refused one is pushed again.
animus_shm_push ==
    [start |-> Handle("channel", "push", "end"),
     push |-> SharedTelemetryChannel_push("next", "start"),
     next |-> For("i", Events, "start", "end")]

animus_shm_pop ==
    [start |-> Handle("channel", "pop", "end"),
     pop |-> SharedTelemetryChannel_pop("more", "start"),
     more |-> For("got", Events, "start", "end")]

animus_shm_create ==
    [start |-> Set("channel", 1, "threads"),
     threads |-> Start({"p1", "c1"}, "join"),
     join |-> Join({"p1", "c1"}, "close"),
     close |-> Set("channel", 0, "end")]

-----------------------------------------------------------------------------
AbiProgram ==
    [market_feed |-> [cap |-> [l2 |-> Small, trades |-> Small],
                      code |-> [main |-> feed_main, p1 |-> animus_feed_push(0), p2 |-> animus_feed_push(1), c1 |-> animus_feed_poll]],
     spsc_singleton |-> [cap |-> One, code |-> [main |-> spsc_main, p1 |-> animus_spsc_record_events_batch, c1 |-> animus_spsc_drain]],
     engine_singleton |-> [cap |-> [events |-> 2, signals |-> 2],
                           code |-> [main |-> engine_main, p1 |-> animus_record_event, p2 |-> animus_record_event, worker |-> process_persistence_queue]],
     order_queue |-> [cap |-> One, code |-> [main |-> animus_shm_ring_order_create, p1 |-> animus_shm_ring_order_push_batch, c1 |-> animus_shm_ring_order_pop_batch]],
     shm_channel |-> [cap |-> One, code |-> [main |-> animus_shm_create, p1 |-> animus_shm_push, c1 |-> animus_shm_pop]]]
=============================================================================
