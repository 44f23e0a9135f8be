------------------------------ MODULE Algorithms ------------------------------
(***************************************************************************)
(* The pure algorithms of the programs, each against a reference, one      *)
(* state per input.                                                        *)
(***************************************************************************)
EXTENDS CepRule, Decoders, Percentiles, SegmentSizing, PointerChase

VARIABLE input      \* [of, data]: the input of one algorithm

NoInput == [of |-> "none"]

SomeInput ==
    \/ \E events \in CepInputs : input = [of |-> "cep", data |-> events]
    \/ \E type \in MessageType : input = [of |-> "itch", data |-> type]
    \/ \E messages \in [1..2 -> CmeMessage] : input = [of |-> "cme", data |-> messages]
    \/ \E s \in Samples : input = [of |-> "percentiles", data |-> s]
    \/ \E windows \in [1..3 -> Window] : input = [of |-> "calibration", data |-> windows]
    \/ \E s \in RingSizes, requested \in 0..SIZE_MAX : input = [of |-> "capacity", data |-> <<s, requested>>]
    \/ \E num_nodes \in run_cache_locality_sweep : \E draws \in Draws(num_nodes) :
           input = [of |-> "chase", data |-> <<num_nodes, draws>>]

\* A windowed rule reports what a rescan of its events would: see CepExactOn.
CepExact == input.of = "cep" => CepExactOn(input.data)

\* ITCH structs, generators and decoder agree, and a CME datagram is decoded
\* up to its first unusable message, within its bounds: see ItchRoundTripOf
\* and CmeExactOn.
DecodersExact ==
    /\ input.of = "itch" => ItchRoundTripOf(input.data)
    /\ input.of = "cme" => CmeExactOn(input.data)

\* A requested capacity becomes a segment that holds the ring, or is refused:
\* see SegmentFitsOn.
SegmentFits == input.of = "capacity" => SegmentFitsOn(input.data[1], input.data[2])

\* The pointer chase comes through all of its nodes: see SingleCycleOn.
SingleCycle == input.of = "chase" => SingleCycleOn(input.data[1], input.data[2])

\* Percentiles split the samples where they say, and a calibration is the
\* median of its usable windows: see PercentilesBracketed, CalibrationMedian.
MeasurementsRanked ==
    /\ input.of = "percentiles" => PercentilesBracketed(input.data)
    /\ input.of = "calibration" => CalibrationMedian(input.data)
=============================================================================
