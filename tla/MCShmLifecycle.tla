--------------------------- MODULE MCShmLifecycle ---------------------------
(* Every program with a view of its own class and with the views that might *)
(* take its segment for one of theirs.                                      *)
EXTENDS ShmLifecycle

MCSpmc == Program("SpmcRing", FALSE, TRUE, TRUE, TRUE)
MCMpmc == Program("ShmRingMpmc", FALSE, FALSE, TRUE, TRUE)
MCChannel == Program("SharedTelemetryChannel", FALSE, FALSE, FALSE, TRUE)

MCPairs ==
    {<<itch50_shm_bridge, v>> : v \in {"ShmRing", "RawSchemaView", "SpmcRing"}}
    \cup {<<run_consumer, "ShmRing">>, <<PyBroadcastRing, "BroadcastRing">>, <<MCChannel, "SharedTelemetryChannel">>}
    \cup {<<MCSpmc, v>> : v \in {"SpmcRing", "ShmRing"}}
    \cup {<<MCMpmc, v>> : v \in {"ShmRingMpmc", "RawSchemaView", "AnimusGetMetrics"}}
    \cup {<<harness_benchmark(FALSE, TRUE), v>> : v \in {"BroadcastRing", "SpscQueue", "AnimusGetMetrics"}}
    \cup {<<harness_benchmark(TRUE, FALSE), v>> : v \in {"SpscQueue", "BroadcastRing", "SpmcRing"}}
=============================================================================
