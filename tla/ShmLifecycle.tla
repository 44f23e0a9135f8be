---------------------------- MODULE ShmLifecycle ----------------------------
(***************************************************************************)
(* The life of one shared-memory segment name: programs that create a ring *)
(* under it, run, are signalled or die, and unlink it; a peer that keeps   *)
(* trying to open it and then watches whether its owner is alive.          *)
(* include/animus/shm_ipc.hpp (SharedMemoryRegion, the attach markers and  *)
(* peer_alive), shm_lifecycle.hpp (SignalGuard), the programs              *)
(* benchmarks/harness_benchmark.cpp and adapters/itch50/itch50_shm_bridge, *)
(* and the Python segments of bindings/animus_shm_py.cpp.                  *)
(*                                                                         *)
(* Stores of create() to the mapped header are plain: unless `ordered`,    *)
(* they reach the peer in any order, except that `ready` of the MPMC ring  *)
(* is a release store.  Process ids are reused once their process is gone. *)
(***************************************************************************)
EXTENDS SegmentLayout, Sequences, SequencesExt

CONSTANTS
    Procs,          \* program instances, in the order they are started
    Pids,           \* process ids, taken from 1 up
    StaleAfter,     \* the values of stale_after a peer polls with
    Hit,            \* bound: the instances that are signalled or killed
    MaxPush,        \* bound: records pushed into one object
    Pairs           \* <<program, view>>: what is created and how it is opened

ASSUME ShmLifecycleAssumption ==
    /\ 0 \notin Pids /\ Cardinality(Pids) > Cardinality(Procs) - 1
    /\ StaleAfter \subseteq Nat /\ MaxPush \in Nat
    /\ \A x \in Pairs : x[1].kind \in Kinds /\ x[2] \in Views

\* The programs: the ring they create, whether they install a SignalGuard and
\* publish their pid, whether they push, and whether they unlink at the end.
Program(kind, guard, marks, pushes, unlinks) ==
    [kind |-> kind, guard |-> guard, marks |-> marks, pushes |-> pushes, unlinks |-> unlinks]
harness_benchmark(backpressure, unlink_when_done) ==
    Program(IF backpressure THEN "SpscQueue" ELSE "BroadcastRing", TRUE, FALSE, TRUE, unlink_when_done)
itch50_shm_bridge == Program("ShmRing", FALSE, TRUE, TRUE, TRUE)
run_consumer == Program("ShmRing", FALSE, FALSE, FALSE, TRUE)
PyBroadcastRing == Program("BroadcastRing", FALSE, FALSE, TRUE, TRUE)

VARIABLES
    conf,       \* the program, the peer's view, whether the build and the
                \* processor keep the order of plain stores, the peer's stale_after
    objs,       \* every object ever created under the name
    linked,     \* the object the name refers to, 0 when there is none
    proc,       \* the program instances
    peer        \* the peer; its `silent` is a history variable: polls since
                \* the owner's last heartbeat

vars == <<conf, objs, linked, proc, peer>>

prog == conf.prog
Gone == {"exited", "failed", "dead"}
Alive(p) == proc[p].pc \notin Gone \cup {"unborn"}
is_process_alive(id) == \E p \in Procs : Alive(p) /\ proc[p].pid = id
Final(o, x) == objs[o].w[x] = Stored(prog.kind)[x]

\* A program instance that is not running; g_shutdown_requested is `flag`,
\* the history says whether it was signalled, and in the wrong moment.
Idle(l, o) == [pc |-> l, obj |-> o, pid |-> 0, todo |-> <<>>, pushed |-> FALSE,
               flag |-> FALSE, signalled |-> FALSE, missed |-> FALSE]
Detached(l) == [pc |-> l, obj |-> 0, report |-> "none", fresh |-> FALSE, stall_count_ |-> 0, silent |-> 0]
Fresh(p) == [w |-> [x \in 0..7 |-> 0], bytes |-> 0, head |-> 0, cells |-> FALSE, pushes |-> 0,
             pid |-> 0, beat |-> FALSE, owner |-> p]

Init ==
    /\ \E x \in Pairs, ord \in BOOLEAN :
           \E s \in (IF x[1].marks THEN StaleAfter ELSE {0}) :
               conf = [prog |-> x[1], viewer |-> x[2], ordered |-> ord, stale_after |-> s]
    /\ objs = <<>> /\ linked = 0
    /\ proc = [p \in Procs |-> Idle("unborn", 0)]
    /\ peer = Detached("closed")

Goto(p, l) == proc' = [proc EXCEPT ![p].pc = l]
Ends(p, l) == proc' = [proc EXCEPT ![p] = Idle(l, proc[p].obj)]

\* The system frees an object that has no name, no owner and no mapping.
Unmapped(o) == [objs EXCEPT ![o] = Fresh(objs[o].owner)]
NameRemoved == linked' = 0 /\ objs' = IF peer.obj = linked THEN objs ELSE Unmapped(linked)

-----------------------------------------------------------------------------
(* Starting a program and SharedMemoryRegion::create *)

\* A new instance gets the lowest free pid.
Start(p) ==
    /\ proc[p].pc = "unborn" /\ \A q \in Procs : q < p => proc[q].pc # "unborn"
    /\ proc' = [proc EXCEPT ![p].pc = "create", ![p].pid = Min({i \in Pids : ~is_process_alive(i)})]
    /\ UNCHANGED <<conf, objs, linked, peer>>

\* Mutant: a failed shm_open cleans up like the later failures do.
NameTaken_Unlinks(p) == NameRemoved /\ Ends(p, "failed")

\* EEXIST: the program ends and leaves the name alone.
NameTaken(p) == Ends(p, "failed") /\ UNCHANGED <<objs, linked>>

\* shm_open with O_CREAT | O_EXCL, then on to l.
OpenExclusive(p, l) ==
    \/ linked # 0 /\ NameTaken(p)
    \/ /\ linked = 0
       /\ objs' = Append(objs, Fresh(p))
       /\ linked' = Len(objs) + 1
       /\ proc' = [proc EXCEPT ![p].pc = l, ![p].obj = Len(objs) + 1]

create(p) ==
    /\ proc[p].pc = "create" /\ prog.kind # "SharedTelemetryChannel"
    /\ OpenExclusive(p, "reserve")
    /\ UNCHANGED <<conf, peer>>

\* posix_fallocate, then mmap; a failure of either removes the name again.
reserve_backing(p) ==
    /\ proc[p].pc = "reserve"
    /\ objs' = [objs EXCEPT ![proc[p].obj].bytes = TotalSize(prog.kind)]
    /\ Goto(p, "map")
    /\ UNCHANGED <<conf, linked, peer>>

map_shared(p) ==
    /\ proc[p].pc = "map"
    /\ proc' = [proc EXCEPT ![p].pc = "store", ![p].todo = StoreOrder(prog.kind)]
    /\ UNCHANGED <<conf, objs, linked, peer>>

CreateFails(p) ==
    /\ proc[p].pc \in {"reserve", "truncate", "map"}
    /\ NameRemoved
    /\ Ends(p, "failed")
    /\ UNCHANGED <<conf, peer>>

\* The telemetry channel has a segment class of its own: ftruncate only sets
\* the size, so that the first store to a page may find no memory behind it
\* and end the process (SIGBUS).
SharedMemorySegment_create(p) ==
    /\ \/ /\ proc[p].pc = "create" /\ prog.kind = "SharedTelemetryChannel"
          /\ OpenExclusive(p, "truncate")
       \/ /\ proc[p].pc = "truncate"
          /\ objs' = [objs EXCEPT ![proc[p].obj].bytes = TotalSize(prog.kind)]
          /\ Goto(p, "map")
          /\ UNCHANGED linked
    /\ UNCHANGED <<conf, peer>>

NoPage(p) ==
    /\ proc[p].pc = "store" /\ prog.kind = "SharedTelemetryChannel"
    /\ Ends(p, "dead")
    /\ UNCHANGED <<conf, objs, linked, peer>>

\* Mutant: `ready` is a plain store like the others.
MayStore_PlainReady(p, i) == conf.ordered => i = 1

\* The stores that may take effect next.
MayStore(p, i) ==
    /\ conf.ordered => i = 1
    /\ proc[p].todo[i] = {7} => Len(proc[p].todo) = 1

AfterStores == IF prog.marks THEN "mark" ELSE IF prog.guard THEN "install" ELSE "run"

\* One store of create()/init() becomes visible.
Store(p, i) ==
    LET x == proc[p].todo[i]
    IN  /\ proc[p].pc = "store" /\ MayStore(p, i)
        /\ objs' = [objs EXCEPT ![proc[p].obj].head = IF Counters \in x THEN 0 ELSE @,
                                ![proc[p].obj].cells = @ \/ CellWords \in x,
                                ![proc[p].obj].w = [k \in 0..7 |-> IF k \in x THEN Stored(prog.kind)[k] ELSE @[k]]]
        /\ proc' = [proc EXCEPT ![p].todo = RemoveAt(@, i),
                                ![p].pc = IF Len(proc[p].todo) = 1 THEN AfterStores ELSE "store"]
        /\ UNCHANGED <<conf, linked, peer>>

-----------------------------------------------------------------------------
(* Running: attach markers, SignalGuard, the loop, the way out *)

\* The peer's last_seen is compared with a counter that never repeats, so it
\* is enough to know whether a heartbeat came since it last looked.
Beat(p) ==
    peer' = IF prog.marks /\ peer.obj = proc[p].obj THEN [peer EXCEPT !.fresh = TRUE, !.silent = 0] ELSE peer

\* mark_producer_attached: the pid, then the heartbeat.
mark_pid(p) ==
    /\ proc[p].pc = "mark"
    /\ objs' = [objs EXCEPT ![proc[p].obj].pid = proc[p].pid]
    /\ Goto(p, "beat")
    /\ UNCHANGED <<conf, linked, peer>>

mark_heartbeat(p) ==
    /\ proc[p].pc = "beat"
    /\ objs' = [objs EXCEPT ![proc[p].obj].beat = TRUE]
    /\ Beat(p)
    /\ Goto(p, IF prog.guard THEN "install" ELSE "run")
    /\ UNCHANGED <<conf, linked>>

\* The SignalGuard constructor: the handlers, then both flags are cleared.
SignalGuard(p) ==
    /\ \/ proc[p].pc = "install" /\ Goto(p, "clear")
       \/ /\ proc[p].pc = "clear"
          /\ proc' = [proc EXCEPT ![p].pc = "run", ![p].flag = FALSE, ![p].missed = proc[p].flag]
    /\ UNCHANGED <<conf, objs, linked, peer>>

\* Mutant: the handler returns without storing its flag.
handle_graceful_Ignores(p) == proc' = [proc EXCEPT ![p].signalled = TRUE]

handle_graceful(p) == proc' = [proc EXCEPT ![p].signalled = TRUE, ![p].flag = TRUE]

\* SIGINT or SIGTERM, once: it ends a process that has no handler installed.
Signal(p) ==
    /\ p \in Hit /\ Alive(p) /\ ~proc[p].signalled
    /\ IF prog.guard /\ proc[p].pc \in {"clear", "run", "push", "report", "unlink"}
       THEN handle_graceful(p) ELSE Ends(p, "dead")
    /\ UNCHANGED <<conf, objs, linked, peer>>

\* SIGKILL, or a fault: handle_fault stores its flag and raises again.
handle_fault(p) ==
    /\ p \in Hit /\ Alive(p)
    /\ Ends(p, "dead")
    /\ UNCHANGED <<conf, objs, linked, peer>>

\* The head of the loop asks shutdown_requested().
LoopHead(p) ==
    /\ proc[p].pc = "run"
    /\ Goto(p, IF proc[p].flag THEN "report" ELSE "push")
    /\ UNCHANGED <<conf, objs, linked, peer>>

\* One record, and a heartbeat from the programs that publish one.  The count
\* of records is capped, the loop is not.
push(p) ==
    /\ proc[p].pc = "push"
    /\ IF prog.pushes /\ objs[proc[p].obj].pushes < MaxPush
       THEN objs' = [objs EXCEPT ![proc[p].obj].head = @ + 1, ![proc[p].obj].pushes = @ + 1]
       ELSE UNCHANGED objs
    /\ proc' = [proc EXCEPT ![p].pc = "run", ![p].pushed = TRUE]
    /\ Beat(p)
    /\ UNCHANGED <<conf, linked>>

\* push_blocking on a full queue: a shutdown, or nobody drains it in time.
push_blocking(p) ==
    /\ proc[p].pc = "push" /\ prog.kind = "SpscQueue"
    /\ Goto(p, "report")
    /\ UNCHANGED <<conf, objs, linked, peer>>

\* The requested number of records is reached; the bridge beats while it holds.
LoopEnds(p) ==
    /\ proc[p].pc = "run"
    /\ Beat(p)
    /\ Goto(p, "report")
    /\ UNCHANGED <<conf, objs, linked>>

Finish(p) == IF prog.unlinks THEN Goto(p, "unlink") ELSE Ends(p, "exited")

\* summarize_ns reads the first of the samples: with no record pushed there is
\* none, and the program may die or go on.
summarize_ns(p) ==
    /\ proc[p].pc = "report"
    /\ Finish(p) \/ (prog.guard /\ ~proc[p].pushed /\ Ends(p, "dead"))
    /\ UNCHANGED <<conf, objs, linked, peer>>

\* The creator unlinks the name; its own mapping goes with the process.
unlink(p) ==
    /\ proc[p].pc = "unlink"
    /\ NameRemoved
    /\ Ends(p, "exited")
    /\ UNCHANGED <<conf, peer>>

\* An operator removes the name a program has left behind, as the programs'
\* error message tells them to.
Operator ==
    /\ linked # 0 /\ ~Alive(objs[linked].owner)
    /\ NameRemoved
    /\ UNCHANGED <<conf, proc, peer>>

-----------------------------------------------------------------------------
(* The peer *)

Unmap(l) ==
    /\ peer' = Detached(l)
    /\ objs' = IF peer.obj # linked /\ ~Alive(objs[peer.obj].owner) THEN Unmapped(peer.obj) ELSE objs

Attached == peer.pc = "attached"

\* SharedMemoryRegion::open: the name, and a size that is not zero.
open ==
    /\ peer.pc = "closed" /\ conf.viewer # "SharedTelemetryChannel"
    /\ linked # 0 /\ objs[linked].bytes > 0
    /\ peer' = [peer EXCEPT !.pc = "mapped", !.obj = linked]
    /\ UNCHANGED <<conf, objs, linked, proc>>

\* The telemetry channel's: shm_open, fstat, mmap.
SharedMemorySegment_attach ==
    /\ peer.pc = "closed" /\ conf.viewer = "SharedTelemetryChannel"
    /\ linked # 0 /\ objs[linked].bytes > 0
    /\ peer' = [peer EXCEPT !.pc = "mapped", !.obj = linked]
    /\ UNCHANGED <<conf, objs, linked, proc>>

\* The checks of the class's open(); after a failure the peer tries again.
Validate ==
    LET o == objs[peer.obj]
    IN  /\ peer.pc = "mapped"
        /\ IF Opens(conf.viewer, o.w, o.bytes)
           THEN /\ peer' = [peer EXCEPT !.pc = "attached", !.fresh = o.beat, !.silent = 0,
                    !.report = IF conf.viewer = "AnimusGetMetrics" THEN AnimusGetMetrics(o.w, o.bytes) ELSE conf.viewer]
                /\ UNCHANGED objs
           ELSE Unmap("closed")
        /\ UNCHANGED <<conf, linked, proc>>

\* The peer pushes where the creator does not, or where both may.
PeerPushes ==
    /\ peer.pc = "attached" /\ conf.viewer = prog.kind
    /\ ~prog.pushes \/ prog.kind = "ShmRingMpmc"
    /\ objs[peer.obj].pushes < MaxPush
    /\ objs' = [objs EXCEPT ![peer.obj].head = @ + 1, ![peer.obj].pushes = @ + 1]
    /\ UNCHANGED <<conf, linked, proc, peer>>

\* Mutant: the count of looks in vain starts again at each of them.
Stall_Forgets == IF peer.fresh THEN 0 ELSE 1

\* Looks at the heartbeat in vain, this one included.
Stall == IF peer.fresh THEN 0 ELSE peer.stall_count_ + 1

\* Mutant: a heartbeat found unchanged once is enough.
peer_alive_Impatient ==
    \/ objs[peer.obj].pid = 0
    \/ is_process_alive(objs[peer.obj].pid) /\ (conf.stale_after = 0 \/ peer.fresh)

peer_alive ==
    \/ objs[peer.obj].pid = 0
    \/ is_process_alive(objs[peer.obj].pid) /\ (conf.stale_after = 0 \/ peer.fresh \/ Stall < conf.stale_after)

\* is_producer_alive(): the peer leaves when the answer is no.
is_producer_alive ==
    /\ peer.pc = "attached" /\ conf.viewer \in {"ShmRing", "SpmcRing"}
    /\ IF peer_alive
       THEN /\ peer' = [peer EXCEPT !.silent = IF @ < conf.stale_after THEN @ + 1 ELSE @,
                !.fresh = IF objs[peer.obj].pid = 0 \/ conf.stale_after = 0 THEN @ ELSE FALSE,
                !.stall_count_ = IF objs[peer.obj].pid = 0 \/ conf.stale_after = 0 THEN @ ELSE Stall]
            /\ UNCHANGED objs
       ELSE Unmap("left")
    /\ UNCHANGED <<conf, linked, proc>>

\* unlink() of a segment that was opened, not created: an exception.
Segment_unlink ==
    /\ Attached /\ prog = PyBroadcastRing /\ peer.report # "refused"
    /\ peer' = [peer EXCEPT !.report = "refused"]
    /\ UNCHANGED <<conf, objs, linked, proc>>

-----------------------------------------------------------------------------
Step(p) ==
    \/ create(p) \/ SharedMemorySegment_create(p) \/ reserve_backing(p) \/ map_shared(p) \/ (\E i \in 1..Len(proc[p].todo) : Store(p, i))
    \/ mark_pid(p) \/ mark_heartbeat(p) \/ SignalGuard(p) \/ LoopHead(p) \/ push(p) \/ summarize_ns(p) \/ unlink(p)

Next ==
    \/ \E p \in Procs : \/ Start(p) \/ Step(p) \/ CreateFails(p) \/ NoPage(p) \/ push_blocking(p) \/ LoopEnds(p)
                        \/ Signal(p) \/ handle_fault(p)
    \/ Operator \/ open \/ SharedMemorySegment_attach \/ Validate \/ PeerPushes \/ is_producer_alive \/ Segment_unlink

\* A running program and a peer that retries and polls are scheduled; signals,
\* faults, failures, the end of the loop and the operator are not promised.
Spec == /\ Init /\ [][Next]_vars
        /\ \A p \in Procs : WF_vars(Step(p))
        /\ WF_vars(open) /\ WF_vars(SharedMemorySegment_attach) /\ WF_vars(Validate) /\ WF_vars(is_producer_alive)

-----------------------------------------------------------------------------
HalfBuiltAsShmRing == ~conf.ordered /\ conf.viewer \in {"ShmRing", "RawSchemaView"}

\* However the stores of create() land, and whoever crashed in the middle of
\* them, an open() that succeeds has found every header word it uses at its
\* final value, in a segment of the class it was written for; an MPMC peer,
\* and an MPMC snapshot, also the cells.  (ShmRing's kind is 0, the value of
\* untouched memory: only the order of the stores keeps its open() and the
\* schema view off a half-built ring of another kind.)  And no record pushed
\* through a successful open() is wiped out by the creator's constructor: for
\* the MPMC ring in every build, because `ready` is released after everything
\* else, for the other rings as long as stores keep order.
OpenSeesRing ==
    /\ conf.ordered \/ prog.kind = "ShmRingMpmc" => \A o \in 1..Len(objs) : objs[o].head = objs[o].pushes
    /\ Attached =>
        /\ conf.viewer # "AnimusGetMetrics" /\ ~HalfBuiltAsShmRing => prog.kind \in For(conf.viewer)
        /\ prog.kind \in For(conf.viewer) => \A x \in Relies(conf.viewer) : Final(peer.obj, x)
        /\ peer.report = "ShmRingMpmc" => objs[peer.obj].cells /\ \A x \in 0..7 : Final(peer.obj, x)

\* A live owner is left alone.  A name is only ever taken from the process
\* that made the object behind it: by that process itself on its way out or
\* out of a failed create(), or after its death; a second instance that finds
\* the name taken leaves it, and so does a segment that was only opened.  And
\* is_producer_alive() says no only about an owner that has ended or from
\* which stale_after consecutive polls have heard nothing.
OwnerRespected ==
    [][/\ linked # 0 /\ linked' # linked => proc'[objs[linked].owner].pc \in Gone
       /\ peer.pc = "attached" /\ peer'.pc = "left" =>
              \/ ~Alive(objs[peer.obj].owner)
              \/ conf.stale_after > 0 /\ peer.silent + 1 >= conf.stale_after]_vars

\* The peer gets in and out.  Once a complete ring stays under its name, the
\* retrying peer opens it.  A peer that watches an owner that published its
\* pid and then died gets to know, also when another process has taken the
\* pid, provided it asks for heartbeats.
PeerFollows ==
    /\ <>[](linked # 0 /\ proc[objs[linked].owner].pc \in {"run", "push"} /\ conf.viewer = prog.kind)
           => <>(peer.pc \in {"attached", "left"})
    /\ (/\ Attached /\ conf.viewer \in {"ShmRing", "SpmcRing"} /\ conf.viewer = prog.kind
        /\ ~Alive(objs[peer.obj].owner) /\ objs[peer.obj].pid # 0 /\ conf.stale_after > 0)
           ~> peer.pc = "left"

\* SIGINT or SIGTERM ends a program that has built its SignalGuard, with its
\* name removed when it is told to, unless it is killed, has pushed nothing
\* yet, or the signal came while the guard was still being built.
ShutdownHonoured ==
    \A p \in Procs :
        (proc[p].signalled /\ ~proc[p].missed /\ proc[p].pc = "run") ~>
            \/ proc[p].pc = "exited" /\ (prog.unlinks => linked # proc[p].obj)
            \/ proc[p].pc = "dead"
=============================================================================
