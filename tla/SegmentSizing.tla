---------------------------- MODULE SegmentSizing ----------------------------
(***************************************************************************)
(* How the builders of a shared ring get from a requested capacity to the  *)
(* capacity and the bytes of its segment, in size_t arithmetic of SizeBits *)
(* bits: the C interface (animus_engine.cpp), the Python binding           *)
(* (animus_shm_py.cpp), benchmarks/harness_benchmark.cpp and ShmRingMpmc.  *)
(***************************************************************************)
EXTENDS Integers

CONSTANTS
    SizeBits,       \* bits of size_t
    RingSizes       \* <<header, slot>>: bytes of a ring's header and slot

ASSUME SizesAssumption ==
    /\ SizeBits \in Nat \ {0}
    /\ \A s \in RingSizes : s[1] \in 0..(2^(SizeBits - 1) - 1) /\ s[2] \in 1..(2^SizeBits - 1)

SIZE_MAX == 2^SizeBits - 1
required_bytes(s, capacity) == (s[1] + capacity * s[2]) % 2^SizeBits

Refused == [capacity |-> 0, bytes |-> 0]
Sized(s, capacity) == IF capacity = 0 THEN Refused ELSE [capacity |-> capacity, bytes |-> required_bytes(s, capacity)]

\* Mutant: the capacity is compared before it is doubled.
Doublable_Late(capacity, max_capacity) == capacity <= max_capacity

Doublable(capacity, max_capacity) == capacity <= max_capacity \div 2

\* From two, doubled while it is too small; 0 when it cannot be doubled.
Doubled(requested, max_capacity) ==
    LET Grow[k \in 1..SizeBits] ==
            LET capacity == 2^k % 2^SizeBits
            IN  IF capacity >= requested THEN capacity
                ELSE IF k = SizeBits \/ ~Doublable(capacity, max_capacity) THEN 0 ELSE Grow[k + 1]
    IN  Grow[1]

shm_ring_create(s, requested) == Sized(s, Doubled(requested, (SIZE_MAX - required_bytes(s, 0)) \div s[2]))
Segment_create(s, requested) == Sized(s, Doubled(requested, (SIZE_MAX - required_bytes(s, 0)) \div s[2]))
create_segment(s, requested) == Sized(s, Doubled(requested, (SIZE_MAX - required_bytes(s, 0)) \div s[2]))

\* The least power of two that is not below v: it exists for every v this is
\* called with.
round_up_pow2(v) == 2^(CHOOSE k \in 0..(SizeBits - 1) : 2^k >= v /\ \A j \in 0..(k - 1) : 2^j < v)

ShmRingMpmc_create(s, requested) ==
    LET floor_capacity == IF requested < 2 THEN 2 ELSE requested
        max_capacity == (SIZE_MAX \div 2 - s[1]) \div s[2]
    IN  IF floor_capacity > max_capacity \/ round_up_pow2(floor_capacity) > max_capacity THEN Refused
        ELSE Sized(s, round_up_pow2(floor_capacity))

-----------------------------------------------------------------------------
\* The segment of an accepted request holds the header and the least power of
\* two of slots that is at least two and the request, with no byte count that
\* wrapped; a request is refused only when that segment is beyond `room`.
HoldsRing(s, requested, built, room) ==
    LET least == CHOOSE c \in {2^k : k \in 1..(SizeBits + 1)} :
                     c >= requested /\ \A d \in {2^k : k \in 1..(SizeBits + 1)} : d >= requested => c <= d
    IN  IF s[1] + least * s[2] <= room THEN built = [capacity |-> least, bytes |-> s[1] + least * s[2]] ELSE built = Refused

SegmentFitsOn(s, requested) ==
    /\ HoldsRing(s, requested, shm_ring_create(s, requested), SIZE_MAX)
    /\ HoldsRing(s, requested, Segment_create(s, requested), SIZE_MAX)
    /\ HoldsRing(s, requested, create_segment(s, requested), SIZE_MAX)
    /\ HoldsRing(s, requested, ShmRingMpmc_create(s, requested), SIZE_MAX \div 2)
=============================================================================
