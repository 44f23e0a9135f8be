--------------------------- MODULE SegmentLayout ---------------------------
(***************************************************************************)
(* What each ring class writes into the head of a fresh segment, and what  *)
(* each open()/attach() requires of it (include/animus/shm_ipc.hpp,        *)
(* spsc_queue.hpp, broadcast_ring.hpp, AnimusCore_v1/animus.hpp,           *)
(* telemetry.hpp).  The head is its 64-bit words 0..7; the three RingKind  *)
(* headers agree on them, the two magic headers agree with each other, and *)
(* the telemetry channel has a layout of its own, so an open of one class  *)
(* on a segment of another reads words that mean something else.           *)
(***************************************************************************)
EXTENDS Integers, FiniteSets, FiniteSetsExt

CONSTANT Requested      \* the capacity asked for
ASSUME RequestedAssumption == Requested \in 0..1024

Kinds == {"ShmRing", "SpmcRing", "ShmRingMpmc", "SpscQueue", "BroadcastRing", "SharedTelemetryChannel"}

\* RingKind, the magics (odd, so never a power of two), and one record type.
RingKind == [ShmRing |-> 0, SpmcRing |-> 1, ShmRingMpmc |-> 2]
kMagic == [SpscQueue |-> 101, BroadcastRing |-> 103]
kReadyMagic == 105
kVersionHash == 7
SizeOfT == 40
SizeOfCell == 64

HeaderBytes == [ShmRing |-> 256, SpmcRing |-> 192, ShmRingMpmc |-> 256, SpscQueue |-> 192, BroadcastRing |-> 128,
                SharedTelemetryChannel |-> 24]
SlotBytes == [k \in Kinds |-> IF k = "ShmRingMpmc" THEN SizeOfCell
                              ELSE IF k = "SharedTelemetryChannel" THEN 24 ELSE SizeOfT]

IsPow2(c) == c \in {2^k : k \in 0..10}

\* The smallest power of two that is not below v.
round_up_pow2(v) == Min({p \in {2^k : k \in 0..10} : p >= v})

\* Every ring rounds up from at least two; the channel takes any capacity.
Capacity(kind) ==
    IF kind = "SharedTelemetryChannel" THEN (IF Requested = 0 THEN 1 ELSE Requested)
    ELSE round_up_pow2(IF Requested < 2 THEN 2 ELSE Requested)

TotalSize(kind) == HeaderBytes[kind] + Capacity(kind) * SlotBytes[kind]

-----------------------------------------------------------------------------
(* create() and init(): the words stored.  Counters are what the header's  *)
(* constructor zeroes, CellWords the sequence of each MPMC cell.           *)

Counters == 8
CellWords == 9

Descriptor(kind, stride) ==
    [x \in 0..6 |-> CASE x = 0 -> Capacity(kind) [] x = 1 -> Capacity(kind) - 1 [] x = 2 -> RingKind[kind]
                      [] x = 3 -> kVersionHash [] x = 4 -> SizeOfT [] x = 5 -> stride [] x = 6 -> 1]

Magic(kind) == [x \in 0..3 |-> CASE x = 0 -> kMagic[kind] [] x = 1 -> Capacity(kind) [] x = 2 -> Capacity(kind) - 1
                                 [] x = 3 -> SizeOfT]

ShmRing_create == Descriptor("ShmRing", SizeOfT)
SpmcRing_create == Descriptor("SpmcRing", SizeOfT)
ShmRingMpmc_create == [x \in 0..7 |-> IF x = 7 THEN kReadyMagic ELSE Descriptor("ShmRingMpmc", SizeOfCell)[x]]
SpscQueue_init == Magic("SpscQueue")
BroadcastRing_init == Magic("BroadcastRing")
SharedTelemetryChannel_create == [x \in {0} |-> Capacity("SharedTelemetryChannel")]

Stored(kind) ==
    CASE kind = "ShmRing" -> ShmRing_create
      [] kind = "SpmcRing" -> SpmcRing_create
      [] kind = "ShmRingMpmc" -> ShmRingMpmc_create
      [] kind = "SpscQueue" -> SpscQueue_init
      [] kind = "BroadcastRing" -> BroadcastRing_init
      [] kind = "SharedTelemetryChannel" -> SharedTelemetryChannel_create

\* The places a creator stores to, in the order of the program text: the
\* constructor first, a magic or `ready` last.  Words that are only ever
\* checked together are stored together.
StoreOrder(kind) ==
    CASE kind \in {"SpscQueue", "BroadcastRing"} -> <<{Counters}, {1, 2}, {3}, {0}>>
      [] kind = "ShmRingMpmc" -> <<{Counters}, {CellWords}, {0, 1}, {2}, {3, 4}, {5, 6}, {7}>>
      [] kind = "SharedTelemetryChannel" -> <<{Counters}, {0}>>
      [] OTHER -> <<{Counters}, {0, 1}, {2}, {3, 4}, {5, 6}>>

-----------------------------------------------------------------------------
(* open() and attach(): the checks on the words w of a region of so many   *)
(* bytes.  A word only ever changes from zero to its value, so checks read *)
(* at different times pass only if they all pass at the last of them.      *)

\* Mutant: the mask is compared with the capacity itself.
PowerAndMask_OffByOne(cap, mask) == IsPow2(cap) /\ mask = cap

PowerAndMask(cap, mask) == IsPow2(cap) /\ mask = cap - 1

ShmRing_open(w, bytes) ==
    /\ bytes >= HeaderBytes["ShmRing"] /\ w[2] = RingKind["ShmRing"]
    /\ PowerAndMask(w[0], w[1])
    /\ w[4] = SizeOfT /\ w[3] = kVersionHash
    /\ bytes >= HeaderBytes["ShmRing"] + w[0] * SizeOfT

RawSchemaView_open(w, bytes) ==
    /\ bytes >= HeaderBytes["ShmRing"] /\ w[2] = RingKind["ShmRing"]
    /\ PowerAndMask(w[0], w[1])
    /\ w[4] # 0 /\ w[5] # 0
    /\ bytes >= HeaderBytes["ShmRing"] + w[0] * w[5]

SpmcRing_open(w, bytes) ==
    /\ bytes >= HeaderBytes["SpmcRing"] /\ w[2] = RingKind["SpmcRing"]
    /\ PowerAndMask(w[0], w[1])
    /\ w[4] = SizeOfT /\ w[3] = kVersionHash
    /\ bytes >= HeaderBytes["SpmcRing"] + w[0] * SizeOfT

\* Mutant: `ready` is not looked at.
ShmRingMpmc_open_IgnoresReady(w, bytes) ==
    /\ bytes >= HeaderBytes["ShmRingMpmc"] /\ w[2] = RingKind["ShmRingMpmc"]
    /\ w[0] >= 2 /\ PowerAndMask(w[0], w[1])
    /\ w[4] = SizeOfT /\ w[5] = SizeOfCell /\ w[3] = kVersionHash
    /\ bytes >= HeaderBytes["ShmRingMpmc"] + w[0] * SizeOfCell

ShmRingMpmc_open(w, bytes) ==
    /\ bytes >= HeaderBytes["ShmRingMpmc"] /\ w[7] = kReadyMagic /\ w[2] = RingKind["ShmRingMpmc"]
    /\ w[0] >= 2 /\ PowerAndMask(w[0], w[1])
    /\ w[4] = SizeOfT /\ w[5] = SizeOfCell /\ w[3] = kVersionHash
    /\ bytes >= HeaderBytes["ShmRingMpmc"] + w[0] * SizeOfCell

SpscQueue_attach(w, bytes) ==
    /\ bytes >= HeaderBytes["SpscQueue"]
    /\ w[0] = kMagic["SpscQueue"] /\ w[3] = SizeOfT /\ PowerAndMask(w[1], w[2])
    /\ bytes >= HeaderBytes["SpscQueue"] + w[1] * SizeOfT

BroadcastRing_attach(w, bytes) ==
    /\ bytes >= HeaderBytes["BroadcastRing"]
    /\ w[0] = kMagic["BroadcastRing"] /\ w[3] = SizeOfT /\ PowerAndMask(w[1], w[2])
    /\ bytes >= HeaderBytes["BroadcastRing"] + w[1] * SizeOfT

SharedTelemetryChannel_attach(w, bytes) ==
    /\ bytes >= HeaderBytes["SharedTelemetryChannel"]
    /\ w[0] # 0
    /\ bytes >= HeaderBytes["SharedTelemetryChannel"] + w[0] * SlotBytes["SharedTelemetryChannel"]

\* AnimusGetMetrics reports by the kind word it reads first; only its MPMC
\* branch asks whether the descriptor is complete.  "none" is valid = false.
AnimusGetMetrics(w, bytes) ==
    CASE bytes >= HeaderBytes["ShmRing"] /\ w[2] = RingKind["ShmRing"] -> "ShmRing"
      [] bytes >= HeaderBytes["SpmcRing"] /\ w[2] = RingKind["SpmcRing"] -> "SpmcRing"
      [] bytes >= HeaderBytes["ShmRingMpmc"] /\ w[2] = RingKind["ShmRingMpmc"] /\ w[7] = kReadyMagic -> "ShmRingMpmc"
      [] OTHER -> "none"

Views == Kinds \cup {"RawSchemaView", "AnimusGetMetrics"}

Opens(v, w, bytes) ==
    CASE v = "ShmRing" -> ShmRing_open(w, bytes)
      [] v = "RawSchemaView" -> RawSchemaView_open(w, bytes)
      [] v = "SpmcRing" -> SpmcRing_open(w, bytes)
      [] v = "ShmRingMpmc" -> ShmRingMpmc_open(w, bytes)
      [] v = "SpscQueue" -> SpscQueue_attach(w, bytes)
      [] v = "BroadcastRing" -> BroadcastRing_attach(w, bytes)
      [] v = "SharedTelemetryChannel" -> SharedTelemetryChannel_attach(w, bytes)
      [] v = "AnimusGetMetrics" -> AnimusGetMetrics(w, bytes) # "none"

\* The words a view goes on to use, and the classes of segment it is for.
Relies(v) ==
    CASE v = "RawSchemaView" -> {0, 1, 2, 4, 5}
      [] v = "AnimusGetMetrics" -> {}
      [] v \in {"ShmRing", "SpmcRing"} -> {0, 1, 2, 3, 4}
      [] v = "ShmRingMpmc" -> 0..7
      [] v \in {"SpscQueue", "BroadcastRing"} -> 0..3
      [] v = "SharedTelemetryChannel" -> {0}

For(v) == IF v = "RawSchemaView" THEN {"ShmRing"}
          ELSE IF v = "AnimusGetMetrics" THEN {"ShmRing", "SpmcRing", "ShmRingMpmc"} ELSE {v}
=============================================================================
