-------------------------------- MODULE CepRule --------------------------------
(***************************************************************************)
(* CepRuleState (AnimusCore_v1/animus.hpp): one sliding-window rule, fed   *)
(* one event at a time.  uint64_t is Width bits wide here.                 *)
(***************************************************************************)
EXTENDS Integers, SequencesExt, FiniteSetsExt

CONSTANTS
    Width,          \* bits of a value, a sum and a time
    CepValues,      \* metric values of the events
    CepLength       \* events fed to a rule

ASSUME WidthAssumption == Width \in Nat \ {0} /\ CepValues \subseteq 0..(2^Width - 1)

Wrap(n) == n % 2^Width

compare_value(lhs, rhs, comparator) ==
    CASE comparator = "GreaterThan" -> lhs > rhs
      [] comparator = "LessThan" -> lhs < rhs
      [] comparator = "Equal" -> lhs = rhs

\* A window of size zero becomes one of size one.
CepRuleState(type, size, agg, comparator, threshold) ==
    [window_type |-> type, window_size |-> IF size = 0 THEN 1 ELSE size, agg |-> agg, comparator |-> comparator, threshold |-> threshold]

\* sum_window_ of SUM and AVG, or the monotonic deque of MIN and MAX.
NoEvents == [sequence_counter |-> 0, window |-> <<>>, running_sum |-> 0, aggregated |-> 0, matched |-> FALSE]

-----------------------------------------------------------------------------
\* What is left of a queue when the entries at the places in gone are popped,
\* from its front or its back, up to the first that is not.
PopFront(q, gone) ==
    LET kept == DOMAIN q \ gone IN IF kept = {} THEN <<>> ELSE SubSeq(q, Min(kept), Len(q))

PopBack(q, gone) ==
    LET kept == DOMAIN q \ gone IN IF kept = {} THEN <<>> ELSE SubSeq(q, 1, Max(kept))

evict_fifo(rule, q, now_ms) ==
    IF rule.window_type = "Count" THEN SubSeq(q, Max({1, Len(q) - rule.window_size + 1}), Len(q))
    ELSE PopFront(q, {i \in DOMAIN q : Wrap(q[i].timestamp_ms + rule.window_size) <= now_ms})

\* Mutant: an entry leaves one event or one millisecond late.
evict_monotonic_Late(rule, q, sequence_counter, now_ms) ==
    PopFront(q, {i \in DOMAIN q : IF rule.window_type = "Count" THEN Wrap(q[i].sequence + rule.window_size) < sequence_counter
                                  ELSE Wrap(q[i].timestamp_ms + rule.window_size) < now_ms})

evict_monotonic(rule, q, sequence_counter, now_ms) ==
    PopFront(q, {i \in DOMAIN q : IF rule.window_type = "Count" THEN Wrap(q[i].sequence + rule.window_size) <= sequence_counter
                                  ELSE Wrap(q[i].timestamp_ms + rule.window_size) <= now_ms})

SumOf(q) == FoldLeft(LAMBDA s, e : s + e.value, 0, q)

\* SUM and AVG: the sum is updated before the eviction and may wrap there.
OnSumEvent(rule, st, entry) ==
    LET pushed == Append(st.window, entry)
        window == evict_fifo(rule, pushed, entry.timestamp_ms)
        gone == SubSeq(pushed, 1, Len(pushed) - Len(window))
        sum == Wrap(Wrap(st.running_sum + entry.value) - SumOf(gone))
        isSum == rule.agg = "Sum"
    IN  [sequence_counter |-> entry.sequence, window |-> window, running_sum |-> sum,
         aggregated |-> IF isSum THEN sum ELSE IF window = <<>> THEN 0 ELSE sum \div Len(window),
         matched |-> compare_value(sum, IF isSum THEN rule.threshold ELSE Wrap(rule.threshold * Len(window)), rule.comparator)]

\* front() of the deque; of an empty one it is undefined, which is no number
\* of Width bits here.
front(q) == IF q = <<>> THEN 2^Width ELSE Head(q).value

\* MIN and MAX: entries that can no longer be the answer leave at the back.
OnOrderEvent(rule, st, entry) ==
    LET beaten == {i \in DOMAIN st.window : IF rule.agg = "Max" THEN st.window[i].value <= entry.value
                                            ELSE st.window[i].value >= entry.value}
        window == evict_monotonic(rule, Append(PopBack(st.window, beaten), entry), entry.sequence, entry.timestamp_ms)
    IN  [sequence_counter |-> entry.sequence, window |-> window, running_sum |-> 0,
         aggregated |-> front(window), matched |-> compare_value(front(window), rule.threshold, rule.comparator)]

on_event(rule, st, value, now_ms) ==
    LET entry == [sequence |-> Wrap(st.sequence_counter + 1), timestamp_ms |-> now_ms, value |-> value]
    IN  IF rule.agg \in {"Sum", "Avg"} THEN OnSumEvent(rule, st, entry) ELSE OnOrderEvent(rule, st, entry)

Fed(rule, events) == FoldLeft(LAMBDA st, e : on_event(rule, st, e.value, e.now), NoEvents, events)

-----------------------------------------------------------------------------
(* Reference: rescan every event for the ones in the window of the last.   *)

InWindow(rule, events) ==
    {i \in DOMAIN events : IF rule.window_type = "Count" THEN i + rule.window_size > Len(events)
                           ELSE events[i].now + rule.window_size > Last(events).now}

Aggregate(rule, events) ==
    LET values == {events[i].value : i \in InWindow(rule, events)}
        total == MapThenSumSet(LAMBDA i : events[i].value, InWindow(rule, events))
    IN  CASE rule.agg = "Sum" -> total
          [] rule.agg = "Avg" -> total \div Cardinality(InWindow(rule, events))
          [] rule.agg = "Min" -> Min(values)
          [] rule.agg = "Max" -> Max(values)

\* AVG is compared without dividing: the exact sum with threshold * count.
Matches(rule, events) ==
    IF rule.agg = "Avg"
    THEN compare_value(MapThenSumSet(LAMBDA i : events[i].value, InWindow(rule, events)), rule.threshold * Cardinality(InWindow(rule, events)), rule.comparator)
    ELSE compare_value(Aggregate(rule, events), rule.threshold, rule.comparator)

\* The number or time at which event i leaves the window.
Expiry(rule, events, i) == rule.window_size + IF rule.window_type = "Count" THEN i ELSE events[i].now

\* The sums, products and expiries of this window fit in Width bits; SUM and
\* AVG over a count window compare lengths and compute no expiry.
Fits(rule, events) ==
    /\ MapThenSumSet(LAMBDA i : events[i].value, InWindow(rule, events)) < 2^Width
    /\ rule.threshold * Cardinality(InWindow(rule, events)) < 2^Width
    /\ rule.window_type = "Time" \/ rule.agg \in {"Min", "Max"} =>
         \A i \in InWindow(rule, events) : Expiry(rule, events, i) < 2^Width

\* add_cep_rule takes any window_size: small ones, and the two around which
\* the expiries start to wrap.
CepRules == {CepRuleState(type, size, agg, comparator, 2) :
                type \in {"Count", "Time"}, size \in {0, 2, 3, 2^Width - 3, 2^Width - 1},
                agg \in {"Sum", "Avg", "Min", "Max"}, comparator \in {"GreaterThan", "LessThan", "Equal"}}

\* now_ms comes from a steady clock: it does not run backwards.
CepInputs ==
    {s \in UNION {[1..n -> [value : CepValues, now : 0..2]] : n \in 1..CepLength} :
        \A i \in 1..(Len(s) - 1) : s[i].now <= s[i + 1].now}

\* After any sequence of events, on_event reports the aggregate of exactly the
\* events in the window and matches as exact arithmetic would, although it
\* keeps a running sum that may wrap between push and eviction, or a deque
\* with only the candidates; and it never asks an empty deque for its front.
\* Nothing is promised where the sum of the window itself, threshold * count
\* or window_size plus the number or time of an event in it does not fit: an
\* entry whose expiry wraps is evicted as soon as it is pushed.
CepExactOn(events) ==
    \A rule \in CepRules :
        Fits(rule, events) =>
            /\ Fed(rule, events).aggregated = Aggregate(rule, events)
            /\ Fed(rule, events).matched = Matches(rule, events)
=============================================================================
