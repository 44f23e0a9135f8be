------------------------------- MODULE Harness -------------------------------
(***************************************************************************)
(* The programs built around the rings: benchmarks, demos, adapters and    *)
(* language bindings.  Each of them is a handful of threads that talk      *)
(* through rings and atomic words, and what can go wrong in them is how    *)
(* they start, hand over, drain and stop.                                  *)
(*                                                                         *)
(* A thread function is written as its control flow: a record that gives,  *)
(* for every label, one instruction and the labels it may go to            *)
(* (RingPrograms, ServicePrograms, AbiPrograms).  This module is the       *)
(* machine they run on.                                                    *)
(* A ring is used here by what its own module establishes: a push claims a *)
(* cell and publishes it later, a pop takes the oldest cell only once it   *)
(* is published, and gives the cell back later.                            *)
(***************************************************************************)
EXTENDS AbiPrograms, Sequences, FiniteSets

VARIABLES
    prog,           \* the program that runs
    pc,             \* the label each thread is at; "unborn", "end"
    loc,            \* the locals of each thread
    word,           \* the shared words: atomics, results, clocks
    ring,           \* the cells of each ring, oldest first
    sent, seen,     \* history: what was published to and taken from each ring
    verdict         \* what the program reports: "none", "pass", "fail"

vars == <<prog, pc, loc, word, ring, sent, seen, verdict>>

-----------------------------------------------------------------------------
Program == RingProgram @@ ServiceProgram @@ AbiProgram

\* The counters of the replaced operators new and delete.  The state of a
\* std::thread is allocated by its creator and freed by the thread that ends.
Heap == {"allocs", "frees"}
NoEvent == [by |-> "none", k |-> 0, tag |-> "none"]

Code == Program[prog].code
Threads == DOMAIN Code

\* Every word the program's instructions name; all of them start at zero.
Words == {"zero"} \cup UNION {UNION {{Code[t][l].w, Code[t][l].x} : l \in DOMAIN Code[t]} : t \in Threads}

NewThread == [i |-> 0, j |-> 0, k |-> 0, got |-> 0, exp |-> 0, bad |-> 0, item |-> NoEvent]

Init ==
    /\ prog \in DOMAIN Program
    /\ pc = [t \in Threads |-> IF t = "main" THEN "start" ELSE "unborn"]
    /\ loc = [t \in Threads |-> NewThread]
    /\ word = [w \in Words \ (Local \cup Heap \cup {"hand"}) |-> 0]
    /\ ring = [r \in DOMAIN Program[prog].cap |-> <<>>]
    /\ sent = [r \in DOMAIN Program[prog].cap |-> <<>>]
    /\ seen = [r \in DOMAIN Program[prog].cap |-> <<>>]
    /\ verdict = "none"

Running(t) == pc[t] \notin {"unborn", "end"}
At(t, op) == Running(t) /\ Code[t][pc[t]].op = op
Here(t) == Code[t][pc[t]]

Value(t, x) ==
    CASE x \in Local -> loc[t][x]
      [] x = "hand" -> loc[t].item.k
      [] x = "allocs" -> Cardinality({u \in Threads \ {"main", "clock"} : pc[u] # "unborn"})
      [] x = "frees" -> Cardinality({u \in Threads \ {"main", "clock"} : pc[u] = "end"})
      [] OTHER -> word[x]

Assign(t, x, v) ==
    IF x \in Local THEN loc' = [loc EXCEPT ![t][x] = v] /\ UNCHANGED word
    ELSE word' = [word EXCEPT ![x] = v] /\ UNCHANGED loc

Goto(t, l) == pc' = [pc EXCEPT ![t] = l]

-----------------------------------------------------------------------------
(* Words and control *)

Store(t) ==
    /\ \/ At(t, "set") /\ Assign(t, Here(t).w, Here(t).n)
       \/ At(t, "add") /\ Assign(t, Here(t).w, Value(t, Here(t).w) + Here(t).n)
       \/ At(t, "copy") /\ Assign(t, Here(t).w, Value(t, Here(t).x))
       \/ At(t, "tally") /\ Assign(t, Here(t).w, Value(t, Here(t).w) + loc[t].item.k)
    /\ Goto(t, Here(t).yes)
    /\ UNCHANGED <<prog, ring, sent, seen, verdict>>

\* process_one: a number that is not the expected one is counted.
VerifyItem(t) ==
    LET k == loc[t].item.k
        exp == loc[t].exp
    IN  /\ At(t, "verify")
        /\ loc' = [loc EXCEPT ![t].got = @ + 1,
                              ![t].bad = IF k = exp THEN @ ELSE @ + 1,
                              ![t].exp = IF Here(t).n = 1 THEN k + 1 ELSE @ + 1]
        /\ Goto(t, Here(t).yes)
        /\ UNCHANGED <<prog, word, ring, sent, seen, verdict>>

Loop(t) ==
    /\ At(t, "for")
    /\ Assign(t, Here(t).w, Value(t, Here(t).w) + 1)
    /\ Goto(t, IF Value(t, Here(t).w) + 1 < Here(t).n THEN Here(t).yes ELSE Here(t).no)
    /\ UNCHANGED <<prog, ring, sent, seen, verdict>>

Condition(t, c) ==
    IF c.op = "less" THEN Value(t, c.w) < Value(t, c.x) + c.n ELSE loc[t].item.tag = c.tag

Branch(t) ==
    /\ At(t, "less") \/ At(t, "tagged")
    /\ Goto(t, IF Condition(t, Here(t)) THEN Here(t).yes ELSE Here(t).no)
    /\ UNCHANGED <<prog, loc, word, ring, sent, seen, verdict>>

Spin(t) ==
    /\ At(t, "await")
    /\ Value(t, Here(t).w) >= Value(t, Here(t).x) + Here(t).n
    /\ Goto(t, Here(t).yes)
    /\ UNCHANGED <<prog, loc, word, ring, sent, seen, verdict>>

Acquire(t) ==
    /\ At(t, "lock")
    /\ word[Here(t).w] = 0
    /\ word' = [word EXCEPT ![Here(t).w] = 1]
    /\ Goto(t, Here(t).yes)
    /\ UNCHANGED <<prog, loc, ring, sent, seen, verdict>>

Choose(t) ==
    /\ At(t, "any")
    /\ \E l \in Here(t).ts : Goto(t, l)
    /\ UNCHANGED <<prog, loc, word, ring, sent, seen, verdict>>

-----------------------------------------------------------------------------
(* Threads *)

Spawn(t) ==
    /\ At(t, "start")
    /\ pc' = [u \in Threads |-> IF u = t THEN Here(t).yes ELSE IF u \in Here(t).ts THEN "start" ELSE pc[u]]
    /\ loc' = [u \in Threads |-> IF u \in Here(t).ts THEN NewThread ELSE loc[u]]
    /\ UNCHANGED <<prog, word, ring, sent, seen, verdict>>

JoinThreads(t) ==
    /\ At(t, "join")
    /\ \A u \in Here(t).ts : ~Running(u)
    /\ Goto(t, Here(t).yes)
    /\ UNCHANGED <<prog, loc, word, ring, sent, seen, verdict>>

ReportResult(t) ==
    /\ At(t, "report")
    /\ verdict' = IF \A p \in Here(t).ts : word[p[1]] = word[p[2]] + p[3] THEN "pass" ELSE "fail"
    /\ Goto(t, Here(t).yes)
    /\ UNCHANGED <<prog, loc, word, ring, sent, seen>>

ExitProcess(t) ==
    /\ At(t, "exit")
    /\ pc' = [u \in Threads |-> IF u \in Here(t).ts THEN "end" ELSE pc[u]]
    /\ verdict' = "fail"
    /\ UNCHANGED <<prog, loc, word, ring, sent, seen>>

-----------------------------------------------------------------------------
(* Rings *)

Capacity(r) == Program[prog].cap[r]

\* Nobody need look at the ring again: the program was told to stop before
\* its producer did, or live_stream found nothing and asks next whether the
\* producer still runs.
Unwatched ==
    \/ "stopped" \in DOMAIN word /\ word["stopped"] = 1
    \/ prog = "py_stream" /\ pc["main"] = "producer_running"

\* The cell a thread is working on, and the oldest cell not taken yet.
Mine(t, r, state) == CHOOSE c \in DOMAIN ring[r] : ring[r][c].who = t /\ ring[r][c].state = state
Untaken(r) == {c \in DOMAIN ring[r] : ring[r][c].state \in {"claimed", "ready"}}
Oldest(r) == CHOOSE c \in Untaken(r) : \A d \in Untaken(r) : c <= d
Holds(t, r, state) == \E c \in DOMAIN ring[r] : ring[r][c].who = t /\ ring[r][c].state = state

\* push, first half: full is refused, otherwise the cell is claimed and filled.
PushClaim(t) ==
    LET c == Here(t) IN
    /\ At(t, "push") /\ ~Holds(t, c.r, "claimed")
    /\ IF Len(ring[c.r]) >= Capacity(c.r)
       THEN Goto(t, c.no) /\ UNCHANGED ring
       ELSE /\ ring' = [ring EXCEPT ![c.r] = Append(@, [item |-> [by |-> t, k |-> c.n + Value(t, c.w), tag |-> c.tag], who |-> t, state |-> "claimed"])]
            /\ UNCHANGED pc
    /\ UNCHANGED <<prog, loc, word, sent, seen, verdict>>

\* push, second half: the index or the cell's sequence is published.
PushPublish(t) ==
    LET r == Here(t).r
        mine == Mine(t, r, "claimed")
    IN  /\ At(t, "push") /\ Holds(t, r, "claimed")
        /\ ring' = [ring EXCEPT ![r][mine].state = "ready"]
        /\ sent' = [sent EXCEPT ![r] = Append(@, [item |-> ring[r][mine].item, late |-> Unwatched])]
        /\ Goto(t, Here(t).yes)
        /\ UNCHANGED <<prog, loc, word, seen, verdict>>

\* pop, first half: nothing published at the oldest place is "empty".
PopTake(t) ==
    LET r == Here(t).r IN
    /\ At(t, "pop") /\ ~Holds(t, r, "taken")
    /\ IF Untaken(r) = {} \/ ring[r][Oldest(r)].state # "ready"
       THEN Goto(t, Here(t).no) /\ UNCHANGED <<ring, loc, seen>>
       ELSE /\ ring' = [ring EXCEPT ![r][Oldest(r)].state = "taken", ![r][Oldest(r)].who = t]
            /\ loc' = [loc EXCEPT ![t].item = ring[r][Oldest(r)].item]
            /\ seen' = [seen EXCEPT ![r] = Append(@, ring[r][Oldest(r)].item)]
            /\ UNCHANGED pc
    /\ UNCHANGED <<prog, word, sent, verdict>>

\* pop, second half: the cell is free for the producers once it and every
\* older one have been given back.
PopRelease(t) ==
    LET r == Here(t).r
        freed == [ring[r] EXCEPT ![Mine(t, r, "taken")].state = "free"]
        busy == {c \in DOMAIN freed : freed[c].state # "free"}
        first == IF busy = {} THEN Len(freed) + 1 ELSE CHOOSE c \in busy : \A d \in busy : c <= d
    IN  /\ At(t, "pop") /\ Holds(t, r, "taken")
        /\ ring' = [ring EXCEPT ![r] = SubSeq(freed, first, Len(freed))]
        /\ Goto(t, Here(t).yes)
        /\ UNCHANGED <<prog, loc, word, sent, seen, verdict>>

-----------------------------------------------------------------------------
\* The clock is the environment's: a program has ended without it.
Ended == \A t \in Threads \ {"clock"} : ~Running(t)

Done == Ended /\ UNCHANGED vars

Step(t) ==
    \/ Store(t) \/ VerifyItem(t) \/ Loop(t) \/ Branch(t) \/ Spin(t) \/ Acquire(t) \/ Choose(t)
    \/ Spawn(t) \/ JoinThreads(t) \/ ReportResult(t) \/ ExitProcess(t)
    \/ PushClaim(t) \/ PushPublish(t) \/ PopTake(t) \/ PopRelease(t)

Next == Done \/ \E t \in Threads : Step(t)

AllThreads == UNION {DOMAIN Program[p].code : p \in DOMAIN Program}

\* Every thread keeps running: the operating system schedules all of them.
Spec == Init /\ [][Next]_vars /\ \A t \in AllThreads : WF_vars(t \in Threads /\ Step(t))

-----------------------------------------------------------------------------
(* Properties *)

Taken(r) == {seen[r][n] : n \in DOMAIN seen[r]}
Published(r) == {sent[r][n].item : n \in DOMAIN sent[r]}
OnTime(r) == {sent[r][n].item : n \in {m \in DOMAIN sent[r] : ~sent[r][m].late}}

\* The programs that leave a ring as it is at their end: AnimusCore_v1's main,
\* whose engine may stop over a last event, a benchmark that reads until its
\* time is over, and a dashboard that stops its reader before its producer.
LeavesEvents == {"core", "sdk_ring", "nb_dashboard"}

\* Any other program that runs to its end without reporting a failure leaves no
\* event behind: what was published has been taken by a consumer, however the
\* last push races the last look at the ring (consumer_thread_fn pops once
\* more after it saw the producer done).  There are two gaps, and an event is
\* lost in no other: cme_ingest may leave what it decodes after it was told to
\* stop, and live_stream what is pushed between its last empty batch and the
\* question whether the producer still runs.
EveryEventDelivered ==
    Ended /\ verdict # "fail" /\ prog \notin LeavesEvents => \A r \in DOMAIN ring : OnTime(r) \subseteq Taken(r)

\* Programs whose checks may come out negative: a refused message, a spin
\* budget that runs out, a signal ring that overflows, an engine that stops
\* over a last event, a tripwire that counts the creation of the threads, a
\* poller that asks whether to stop after it found nothing, a proposal that
\* is not committed.
MayFail == {"itch_ingest", "bench_mpmc", "shm_ipc_bench", "ingest_demo", "stress", "market_feed", "cluster_latency"}

\* The consumer of python_bridge fails when its time is over, and only then.
TimedOut == prog = "python_bridge" /\ word["run_end"] = 1

\* The producer of a program that drops, and how many events it has numbered.
Dropping == [cme_ingest |-> "main", py_stream |-> "p1", sdk_ring |-> "p1", nb_dashboard |-> "p1"]

\* Where events may be dropped, the losses add up once the producer is done:
\* pushed counts exactly what reached the ring, pushed and dropped together
\* every event generated, and each dropped event is a gap in the sequence.
GapsAreDrops ==
    prog \in DOMAIN Dropping /\ pc[Dropping[prog]] = "end" =>
        LET generated == loc[Dropping[prog]].i
        IN  /\ word["pushed"] = Len(sent["ring"])
            /\ word["pushed"] + word["dropped"] = generated
            /\ Cardinality({k \in 0..(generated - 1) : \A e \in Published("ring") : e.k # k}) = word["dropped"]

\* What a program says about itself is true: it reports success only when
\* everything published was consumed, no more and no less, and the others
\* never report a failure although nothing is wrong (their counters are read
\* while the threads that change them are held back, their singletons are
\* built once, their rows are whole and no retirement is refused); and where
\* events may be dropped, the drops are the gaps.  It is about the rings: what
\* cluster_latency says of its proposals rests on RaftNode::propose.
ReportsTrue ==
    /\ verdict = "pass" => \A r \in DOMAIN ring : Len(sent[r]) = Len(seen[r]) /\ Published(r) = Taken(r)
    /\ verdict = "fail" => prog \in MayFail \/ TimedOut
    /\ GapsAreDrops

\* The latency phases measure what they say: the event under measurement is
\* alone in the rings, so no sample contains the wait behind another event.
\* In telemetry_benchmark this starts with the second measured event: the
\* first may still queue behind the warm-up.
OneInFlight ==
    /\ prog = "shm_ipc_bench" => Len(ring["fwd"]) + Len(ring["ack"]) <= 1
    /\ prog = "telemetry" =>
         \A n \in DOMAIN ring["ring"] :
             ring["ring"][n].item.tag = "measured" /\ ring["ring"][n].item.k > 0 => Len(ring["ring"]) = 1

\* What a program opens and has to close: the sockets of the CME receiver and
\* the handles of the C interface.
NothingOpen == \A w \in DOMAIN word \cap {"sockets", "feed", "order_queue", "channel"} : word[w] = 0

=============================================================================
