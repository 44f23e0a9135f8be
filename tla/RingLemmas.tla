----------------------------- MODULE RingLemmas -----------------------------
(***************************************************************************)
(* Facts about the index-to-slot map that every ring uses (index & mask,   *)
(* that is index % capacity), and about sequences given element by element.*)
(***************************************************************************)
EXTENDS Integers, Sequences, TLAPS

(* An index is mapped to one of the slots of the ring. *)
LEMMA ModRange ==
    ASSUME NEW C \in Nat \ {0}, NEW i \in Int
    PROVE  i % C \in 0..(C - 1)
  OBVIOUS

(* Two different indices less than one capacity apart never share a slot:  *)
(* this is what makes a window of at most capacity records safe.           *)
LEMMA SlotsDistinct ==
    ASSUME NEW C \in Nat \ {0}, NEW i \in Int, NEW j \in Int, i < j, j < i + C
    PROVE  i % C # j % C
<1> DEFINE p == i \div C
           q == j \div C
<1>1. p \in Int /\ i = C * p + (i % C)
  OBVIOUS
<1>2. q \in Int /\ j = C * q + (j % C)
  OBVIOUS
<1>3. SUFFICES ASSUME i % C = j % C
               PROVE  FALSE
  OBVIOUS
<1>4. i % C \in Int /\ C * p \in Int /\ C * q \in Int
  BY <1>1, <1>2, ModRange
<1> HIDE DEF p, q
<1>5. C * q - C * p > 0 /\ C * q - C * p < C
  BY <1>1, <1>2, <1>3, <1>4
<1>6. C * q - C * p = C * (q - p)
  BY <1>1, <1>2
<1>7. q - p >= 1
  <2> DEFINE k == q - p
  <2>1. k \in Int /\ C * k > 0
    BY <1>1, <1>2, <1>5, <1>6
  <2> HIDE DEF k
  <2>2. k >= 1
    BY <2>1
  <2> QED
    BY <2>2 DEF k
<1>8. q - p <= 0
  <2> DEFINE k == q - p
  <2>1. k \in Int /\ C * k < C
    BY <1>1, <1>2, <1>5, <1>6
  <2> HIDE DEF k
  <2>2. k <= 0
    BY <2>1
  <2> QED
    BY <2>2 DEF k
<1> QED
  BY <1>1, <1>2, <1>7, <1>8

(* One lap later an index is back in the same slot: record i + C recycles  *)
(* the slot of record i.                                                   *)
LEMMA SlotRecycled ==
    ASSUME NEW C \in Nat \ {0}, NEW i \in Int
    PROVE  (i + C) % C = i % C
<1> DEFINE p == i \div C
           q == (i + C) \div C
           k == q - p - 1
<1>1. p \in Int /\ i = C * p + (i % C)
  OBVIOUS
<1>2. q \in Int /\ i + C = C * q + ((i + C) % C)
  OBVIOUS
<1>3. i % C \in 0..(C - 1) /\ (i + C) % C \in 0..(C - 1)
  BY ModRange
<1> HIDE DEF p, q
<1>4. k \in Int /\ C * q - C * p - C = C * k
  BY <1>1, <1>2
<1>5. C * q \in Int /\ C * p \in Int
  BY <1>1, <1>2
<1> HIDE DEF k
<1>6. C * k < C /\ C * k > -C
  BY <1>1, <1>2, <1>3, <1>4, <1>5
<1>7. k = 0
  <2>1. k <= 0
    BY <1>4, <1>6
  <2>2. k >= 0
    <3>1. C * (k + 1) = C * k + C
      BY <1>4
    <3>2. k + 1 \in Int /\ C * (k + 1) > 0
      BY <1>4, <1>6, <3>1
    <3>3. k + 1 >= 1
      BY <3>2
    <3> QED
      BY <3>3, <1>4
  <2> QED
    BY <2>1, <2>2, <1>4
<1> QED
  BY <1>1, <1>2, <1>3, <1>4, <1>5, <1>7

-----------------------------------------------------------------------------
(* A function on 1..n is a sequence of length n. *)
LEMMA FunctionIsSeq ==
    ASSUME NEW S, NEW n \in Nat, NEW f \in [1..n -> S]
    PROVE  f \in Seq(S) /\ Len(f) = n
<1>1. f \in Seq(S)
  OBVIOUS
<1>2. Len(f) = n
  OBVIOUS
<1> QED
  BY <1>1, <1>2

(* A sequence that extends s by the one element x. *)
LEMMA AppendByElement ==
    ASSUME NEW S, NEW s \in Seq(S), NEW x \in S, NEW t \in Seq(S),
           Len(t) = Len(s) + 1,
           \A i \in 1..Len(s) : t[i] = s[i],
           t[Len(s) + 1] = x
    PROVE  t = Append(s, x)
  OBVIOUS

(* A sequence that lacks the first element of s. *)
LEMMA TailByElement ==
    ASSUME NEW S, NEW s \in Seq(S), NEW t \in Seq(S), s # <<>>,
           Len(t) = Len(s) - 1,
           \A i \in 1..Len(t) : t[i] = s[i + 1]
    PROVE  t = Tail(s)
  OBVIOUS

(* What Append leaves and what it adds. *)
LEMMA AppendFacts ==
    ASSUME NEW S, NEW s \in Seq(S), NEW x \in S
    PROVE  /\ Len(Append(s, x)) = Len(s) + 1 /\ DOMAIN Append(s, x) = 1..(Len(s) + 1)
           /\ DOMAIN s = 1..Len(s) /\ Len(s) \in Nat
           /\ Append(s, x)[Len(s) + 1] = x
           /\ \A i \in 1..Len(s) : Append(s, x)[i] = s[i]
  OBVIOUS
=============================================================================
