------------------------------- MODULE Engine -------------------------------
(***************************************************************************)
(* EngineImpl (AnimusCore_v1/animus.hpp): application threads record       *)
(* events into a bounded ring; one persistence worker pops them in         *)
(* batches, evaluates the threshold and the CEP rules on each, and appends *)
(* the batch to a log file; matches go to a second ring that poll_signals  *)
(* drains.  start_persistence and stop_persistence run and join the        *)
(* worker, and rules may be added at any time.                             *)
(*                                                                         *)
(* Both rings are LockFreeRingBuffers, taken here as the bounded queues    *)
(* MpmcRing shows them to be: one push or pop is one step.  A batch of     *)
(* record_batch or poll_signals is that many such steps.  An event is      *)
(* named by its number; its kind decides which rules it matches.           *)
(***************************************************************************)
EXTENDS Integers, Sequences

CONSTANTS
    Kinds,           \* classes of events that rules tell apart
    Capacity,        \* cells of either ring
    BATCH_SIZE,
    MaxEvents,       \* bound: calls of record that succeed
    MaxRules,        \* bound: rules of each sort
    MaxStarts        \* bound: calls of start_persistence

ASSUME SizesAssumption == Capacity \in Nat \ {0} /\ BATCH_SIZE \in Nat \ {0}
ASSUME BoundsAssumption == MaxEvents \in Nat /\ MaxRules \in Nat /\ MaxStarts \in Nat

VARIABLES
    ring, signal_ring,      \* the two queues
    rules, cep_rules,       \* current rule sets, oldest rule first
    running,                \* the flag start and stop write
    ctl,                    \* lifecycle caller: "idle", or "joining" inside stop_persistence
    starts,
    wpc, sink_ready, batch, \* worker: step, whether the log is open, events popped
    rules_snapshot, cep_snapshot,
    ei, ri,                 \* worker: event and rule under evaluation
    recorded,               \* history: events accepted by record
    stopMark,               \* history: how many had been when stop was called
    windows,                \* history: events each CEP rule was given
    written, lost,          \* history: events in the log, events of failed writes
    signalled               \* history: matches pushed to signal_ring, in order

appVars == <<rules, cep_rules, recorded>>
ctlVars == <<running, ctl, starts, stopMark>>
evalVars == <<rules_snapshot, cep_snapshot, ei, ri, windows, signalled>>
vars == <<ring, signal_ring, rules, cep_rules, running, ctl, starts, wpc, sink_ready, batch,
          rules_snapshot, cep_snapshot, ei, ri, recorded, stopMark, windows, written, lost, signalled>>

Init ==
    /\ ring = <<>> /\ signal_ring = <<>>
    /\ rules = <<>> /\ cep_rules = <<>>
    /\ running = FALSE /\ ctl = "idle" /\ starts = 0
    /\ wpc = "none" /\ sink_ready = FALSE /\ batch = <<>>
    /\ rules_snapshot = <<>> /\ cep_snapshot = <<>> /\ ei = 0 /\ ri = 0
    /\ recorded = 0 /\ stopMark = 0
    /\ windows = <<>> /\ written = <<>> /\ lost = <<>> /\ signalled = <<>>

-----------------------------------------------------------------------------
(* Application threads *)

\* record, or one event of record_batch; a full ring refuses and changes
\* nothing.  The event remembers which rules existed when it was recorded.
Record(kind) ==
    /\ recorded < MaxEvents
    /\ Len(ring) < Capacity
    /\ ring' = Append(ring, [id |-> recorded, kind |-> kind, nrules |-> Len(rules), ncep |-> Len(cep_rules)])
    /\ recorded' = recorded + 1
    /\ UNCHANGED <<signal_ring, rules, cep_rules, ctlVars, wpc, sink_ready, batch, evalVars, written, lost>>

AddRule(kind) ==
    /\ Len(rules) < MaxRules
    /\ rules' = Append(rules, kind)
    /\ UNCHANGED <<ring, signal_ring, cep_rules, recorded, ctlVars, wpc, sink_ready, batch, evalVars, written, lost>>

AddCepRule(kind) ==
    /\ Len(cep_rules) < MaxRules
    /\ cep_rules' = Append(cep_rules, kind)
    /\ windows' = Append(windows, <<>>)
    /\ UNCHANGED <<ring, signal_ring, rules, recorded, ctlVars, wpc, sink_ready, batch,
                   rules_snapshot, cep_snapshot, ei, ri, written, lost, signalled>>

PollSignal ==
    /\ signal_ring # <<>>
    /\ signal_ring' = Tail(signal_ring)
    /\ UNCHANGED <<ring, appVars, ctlVars, wpc, sink_ready, batch, evalVars, written, lost>>

-----------------------------------------------------------------------------
(* The thread that starts and stops the engine *)

start_persistence ==
    /\ ctl = "idle" /\ ~running
    /\ starts < MaxStarts
    /\ running' = TRUE
    /\ starts' = starts + 1
    /\ wpc' = "open"
    /\ UNCHANGED <<ring, signal_ring, appVars, ctl, stopMark, sink_ready, batch, evalVars, written, lost>>

stop_persistence ==
    /\ ctl = "idle" /\ running
    /\ running' = FALSE
    /\ ctl' = "joining"
    /\ stopMark' = recorded
    /\ UNCHANGED <<ring, signal_ring, appVars, starts, wpc, sink_ready, batch, evalVars, written, lost>>

Join ==
    /\ ctl = "joining"
    /\ wpc = "done"
    /\ ctl' = "idle"
    /\ wpc' = "none"
    /\ UNCHANGED <<ring, signal_ring, appVars, running, starts, stopMark, sink_ready, batch, evalVars, written, lost>>

-----------------------------------------------------------------------------
(* The persistence worker *)

TryOpen ==
    /\ wpc = "open"
    /\ sink_ready' \in BOOLEAN
    /\ wpc' = "top"
    /\ UNCHANGED <<ring, signal_ring, appVars, ctlVars, batch, evalVars, written, lost>>

\* No sink: give up if asked to stop, else try again now or at a later turn.
AwaitSink ==
    /\ wpc = "top" /\ ~sink_ready
    /\ IF running
       THEN sink_ready' \in BOOLEAN /\ UNCHANGED wpc
       ELSE wpc' = "done" /\ UNCHANGED sink_ready
    /\ UNCHANGED <<ring, signal_ring, appVars, ctlVars, batch, evalVars, written, lost>>

PopEvent ==
    /\ wpc = "top" /\ sink_ready
    /\ Len(batch) < BATCH_SIZE
    /\ ring # <<>>
    /\ batch' = Append(batch, Head(ring))
    /\ ring' = Tail(ring)
    /\ UNCHANGED <<signal_ring, appVars, ctlVars, wpc, sink_ready, evalVars, written, lost>>

\* Mutant: a batch is processed only when it is full.
PopsDone_OnlyFullBatches ==
    /\ wpc = "top" /\ sink_ready
    /\ Len(batch) = BATCH_SIZE \/ ring = <<>>
    /\ wpc' = IF Len(batch) < BATCH_SIZE THEN "check" ELSE "rules"
    /\ UNCHANGED <<ring, signal_ring, appVars, ctlVars, sink_ready, batch, evalVars, written, lost>>

PopsDone ==
    /\ wpc = "top" /\ sink_ready
    /\ Len(batch) = BATCH_SIZE \/ ring = <<>>
    /\ wpc' = IF batch = <<>> THEN "check" ELSE "rules"
    /\ UNCHANGED <<ring, signal_ring, appVars, ctlVars, sink_ready, batch, evalVars, written, lost>>

\* Mutant: the snapshot is not refreshed for the batch.
SnapshotRules_Stale ==
    /\ wpc = "rules"
    /\ UNCHANGED rules_snapshot
    /\ wpc' = "cep_rules"
    /\ UNCHANGED <<ring, signal_ring, appVars, ctlVars, sink_ready, batch, cep_snapshot, ei, ri, windows, signalled, written, lost>>

SnapshotRules ==
    /\ wpc = "rules"
    /\ rules_snapshot' = rules
    /\ wpc' = "cep_rules"
    /\ UNCHANGED <<ring, signal_ring, appVars, ctlVars, sink_ready, batch, cep_snapshot, ei, ri, windows, signalled, written, lost>>

SnapshotCepRules ==
    /\ wpc = "cep_rules"
    /\ cep_snapshot' = cep_rules
    /\ ei' = 1 /\ ri' = 1
    /\ wpc' = "evaluate"
    /\ UNCHANGED <<ring, signal_ring, appVars, ctlVars, sink_ready, batch, rules_snapshot, windows, signalled, written, lost>>

Pushed(signal) == IF Len(signal_ring) < Capacity THEN Append(signal_ring, signal) ELSE signal_ring

\* signal_ring_.push, which drops the signal when the ring is saturated.
PushSignal(rule) ==
    /\ signal_ring' = Pushed([id |-> batch[ei].id, rule |-> rule])
    /\ signalled' = Append(signalled, <<batch[ei].id, rule>>)

\* The rules of evaluate_rules are numbered 1 to n, those of
\* evaluate_cep_rules n + 1 to n + m.
n == Len(rules_snapshot)
m == Len(cep_snapshot)

EvaluateRule ==
    /\ wpc = "evaluate" /\ ei <= Len(batch) /\ ri <= n
    /\ IF rules_snapshot[ri] = batch[ei].kind
       THEN PushSignal(ri)
       ELSE UNCHANGED <<signal_ring, signalled>>
    /\ ri' = ri + 1
    /\ UNCHANGED <<ring, appVars, ctlVars, wpc, sink_ready, batch, rules_snapshot, cep_snapshot, ei, windows, written, lost>>

\* on_event updates the window of the rule; whether the aggregate matches is
\* a matter of the values in it.
EvaluateCepRule ==
    /\ wpc = "evaluate" /\ ei <= Len(batch) /\ ri \in (n + 1)..(n + m)
    /\ IF cep_snapshot[ri - n] = batch[ei].kind
       THEN /\ windows' = [windows EXCEPT ![ri - n] = Append(@, batch[ei].id)]
            /\ PushSignal(MaxRules + ri - n) \/ UNCHANGED <<signal_ring, signalled>>
       ELSE UNCHANGED <<windows, signal_ring, signalled>>
    /\ ri' = ri + 1
    /\ UNCHANGED <<ring, appVars, ctlVars, wpc, sink_ready, batch, rules_snapshot, cep_snapshot, ei, written, lost>>

NextEvent ==
    /\ wpc = "evaluate" /\ ei <= Len(batch) /\ ri > n + m
    /\ ei' = ei + 1 /\ ri' = 1
    /\ UNCHANGED <<ring, signal_ring, appVars, ctlVars, wpc, sink_ready, batch, rules_snapshot, cep_snapshot, windows, signalled, written, lost>>

\* Mutant: a batch whose write failed is kept and processed again.
ClearBatch_AfterSuccess == batch' = IF sink_ready' THEN <<>> ELSE batch

ClearBatch == batch' = <<>>

\* The write and flush.  A failure may leave part of the batch in the file;
\* the batch is cleared either way.
WriteBatch ==
    /\ wpc = "evaluate" /\ ei > Len(batch)
    /\ \E k \in 0..Len(batch) :
          /\ written' = written \o [j \in 1..k |-> batch[j].id]
          /\ lost' = lost \o [j \in 1..(Len(batch) - k) |-> batch[k + j].id]
          /\ sink_ready' \in IF k = Len(batch) THEN BOOLEAN ELSE {FALSE}
    /\ ClearBatch
    /\ rules_snapshot' = <<>> /\ cep_snapshot' = <<>> /\ ei' = 0 /\ ri' = 0
    /\ wpc' = "top"
    /\ UNCHANGED <<ring, signal_ring, appVars, ctlVars, windows, signalled>>

\* Mutant: an idle worker does not look at running_
CheckRunning_IgnoresStop ==
    /\ wpc = "check"
    /\ wpc' = "top"
    /\ UNCHANGED <<ring, signal_ring, appVars, ctlVars, sink_ready, batch, evalVars, written, lost>>

CheckRunning ==
    /\ wpc = "check"
    /\ wpc' = IF running THEN "top" ELSE "done"
    /\ UNCHANGED <<ring, signal_ring, appVars, ctlVars, sink_ready, batch, evalVars, written, lost>>

-----------------------------------------------------------------------------
Worker ==
    \/ TryOpen \/ AwaitSink \/ PopEvent \/ PopsDone \/ SnapshotRules \/ SnapshotCepRules
    \/ EvaluateRule \/ EvaluateCepRule \/ NextEvent \/ WriteBatch \/ CheckRunning

Application ==
    \/ \E kind \in Kinds : Record(kind) \/ AddRule(kind) \/ AddCepRule(kind)
    \/ PollSignal

Lifecycle == start_persistence \/ stop_persistence \/ Join

Next == Worker \/ Application \/ Lifecycle

Spec == Init /\ [][Next]_vars

(* The worker thread is scheduled, and a thread inside join returns when   *)
(* the worker has ended.                                                   *)
FairSpec == Spec /\ WF_vars(Worker) /\ WF_vars(Join)

-----------------------------------------------------------------------------
(* Properties *)

Increasing(s) == \A i, j \in DOMAIN s : i < j => s[i] < s[j]
Ids(s) == {s[i] : i \in DOMAIN s}
\* A rule that add_rule or add_cep_rule had installed before an event was
\* recorded is applied to that event: the snapshots are never too old.
RulesSeeLaterEvents ==
    wpc = "evaluate" => \A j \in DOMAIN batch : batch[j].nrules <= n /\ batch[j].ncep <= m

\* Each rule is applied to an event once, and in the order of acceptance:
\* a CEP window is given no event twice, and no match is signalled twice.
EvaluatedOnce ==
    /\ \A j \in DOMAIN windows : Increasing(windows[j])
    /\ \A i, j \in DOMAIN signalled :
          i < j => \/ signalled[i][1] < signalled[j][1]
                   \/ signalled[i][1] = signalled[j][1] /\ signalled[i][2] < signalled[j][2]

\* Every accepted event is in exactly one place, through sink failures and
\* restarts: in the log, in a batch whose write failed, in the worker's
\* hands, or in the ring; and the log is in the order of acceptance.  On its
\* way it meets every rule installed before it was recorded, once.
EventsAccounted ==
    LET handled == recorded - Len(ring) - Len(batch)
    IN  /\ Increasing(written) /\ Increasing(lost)
        /\ Ids(written) \cup Ids(lost) = 0..(handled - 1)
        /\ Len(written) + Len(lost) = handled
        /\ \A j \in DOMAIN batch : batch[j].id = handled + j - 1
        /\ \A j \in DOMAIN ring : ring[j].id = handled + Len(batch) + j - 1
        /\ RulesSeeLaterEvents /\ EvaluatedOnce

\* The worker responds: stop_persistence comes back, with or without a working
\* sink, and while the engine runs with its log open every accepted event is
\* written, or is in a batch whose write failed: none waits in the ring for
\* ever.
WorkerResponds ==
    /\ ctl = "joining" ~> ctl = "idle"
    /\ \A i \in 0..(MaxEvents - 1) :
          recorded > i ~> (i \in Ids(written) \cup Ids(lost) \/ ~running \/ ~sink_ready)

\* What the worker's comment says of its exit, and what does not hold when an
\* event is recorded between the last empty pop and the check of the flag:
\* "Stop requested and ring buffer fully drained": when the worker leaves
\* with a working sink, no event accepted before the stop is still in the
\* ring.
StopDrains == wpc = "done" /\ sink_ready => \A j \in DOMAIN ring : ring[j].id >= stopMark
=============================================================================
