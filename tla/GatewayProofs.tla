--------------------------- MODULE GatewayProofs ---------------------------
(***************************************************************************)
(* The audit trails of the gateways are exact for every number of callers, *)
(* tenants and calls and every capacity of the trail.                      *)
(***************************************************************************)
EXTENDS TenantProofs, RingLemmas, FiniteSetTheorems

Entry == [who : Callers \cup {0}, permission : {Permission[op] : op \in Op}, outcome : Outcome]
Log == [write_ : Nat, read_ : Nat, dropped_ : Nat, entries_ : [0..(kCapacity - 1) -> Entry]]
Drawn == [pos : Nat, entry : Entry]

USE CapacityAssumption, GatewayAssumption

(* A log with nothing in it accounts for nothing. *)
LEMMA EmptyLog == BoundedAuditLog \in Log /\ Accounted(BoundedAuditLog, <<>>, <<>>)
<1>1. NoEntry \in Entry
  BY DEF NoEntry, Entry, Outcome, Op, Permission
<1> HIDE DEF NoEntry, Entry
<1> QED
  BY <1>1 DEF BoundedAuditLog, Log, Accounted, size

(* BoundedAuditLog::append keeps the account: at its limit the entry it    *)
(* overwrites is the one it moves the reader past, and it counts it.       *)
LEMMA AppendKeeps ==
    ASSUME NEW log \in Log, NEW h \in Seq(Entry), NEW o \in Seq(Drawn), NEW e \in Entry,
           Accounted(log, h, o)
    PROVE  append(log, e) \in Log /\ Accounted(append(log, e), Append(h, e), o)
<1>1. log.write_ \in Nat /\ log.read_ \in Nat /\ log.dropped_ \in Nat /\ Len(o) \in Nat
  BY DEF Log
<1>2. log.entries_ \in [0..(kCapacity - 1) -> Entry]
  BY DEF Log
<1>3. PICK w \in Nat, r \in Nat, dropped \in Nat, len \in Nat :
          w = log.write_ /\ r = log.read_ /\ dropped = log.dropped_ /\ len = Len(o)
  BY <1>1
<1>4. r = len + dropped /\ r <= w /\ w - r <= kCapacity
  BY <1>3 DEF Accounted, size
<1> DEFINE new == append(log, e)
           slot == w % kCapacity
<1>5. /\ new.read_ = IF w + 1 - r > kCapacity THEN r + 1 ELSE r
      /\ new.dropped_ = IF w + 1 - r > kCapacity THEN dropped + 1 ELSE dropped
  BY <1>3 DEF append
<1>5a. new.write_ = w + 1
  BY <1>3 DEF append
<1>5b. new.entries_ = [log.entries_ EXCEPT ![slot] = e]
  BY <1>3 DEF append
<1>6. new \in Log
  <2>1. [log.entries_ EXCEPT ![slot] = e] \in [0..(kCapacity - 1) -> Entry]
    BY <1>2
  <2>2. PICK entries \in [0..(kCapacity - 1) -> Entry] : entries = [log.entries_ EXCEPT ![slot] = e]
    BY Zenon, <2>1
  <2>3. new = [write_ |-> new.write_, read_ |-> new.read_, dropped_ |-> new.dropped_, entries_ |-> new.entries_]
    BY DEF append
  <2> HIDE DEF new
  <2>4. new.read_ \in Nat /\ new.dropped_ \in Nat
    <3>1. CASE w + 1 - r > kCapacity
      BY <3>1, <1>5
    <3>2. CASE ~(w + 1 - r > kCapacity)
      BY <3>2, <1>5
    <3> QED
      BY <3>1, <3>2
  <2>5. new.write_ \in Nat
    BY <1>5a
  <2>6. new.entries_ \in [0..(kCapacity - 1) -> Entry]
    BY <1>5b, <2>2
  <2> QED
    BY <2>3, <2>4, <2>5, <2>6 DEF Log
<1>7. Len(Append(h, e)) = w + 1 /\ Append(h, e)[w + 1] = e /\ \A i \in 1..w : Append(h, e)[i] = h[i]
  BY <1>3 DEF Accounted
<1> HIDE DEF new
<1>8. PICK w2 \in Nat, r2 \in Nat, dropped2 \in Nat :
          w2 = new.write_ /\ r2 = new.read_ /\ dropped2 = new.dropped_
  BY <1>6 DEF Log
<1>9. r <= r2 /\ w + 1 - r2 \in 0..kCapacity /\ r2 = len + dropped2
  BY <1>4, <1>5, <1>8
<1>10. slot \in 0..(kCapacity - 1)
  BY ModRange
<1> HIDE DEF slot
<1>11. ASSUME NEW i \in r2..w
       PROVE  new.entries_[i % kCapacity] = Append(h, e)[i + 1]
  <2>1. i \in Int /\ i >= r /\ i <= w /\ w < i + kCapacity
    BY <1>9
  <2>2. CASE i = w
    BY <2>2, <1>2, <1>5b, <1>7, <1>10 DEF slot
  <2>3. CASE i < w
    <3>a. w \in Int
      OBVIOUS
    <3>0. i % kCapacity # w % kCapacity
      BY Zenon, <2>1, <2>3, <3>a, SlotsDistinct
    <3>1. i % kCapacity # slot /\ i % kCapacity \in 0..(kCapacity - 1)
      BY <2>1, <3>0, ModRange DEF slot
    <3>2. new.entries_[i % kCapacity] = log.entries_[i % kCapacity]
      BY <3>1, <1>2, <1>5b
    <3>3. i \in r..(w - 1) /\ i + 1 \in 1..w
      BY <2>1, <2>3
    <3>4. log.entries_[i % kCapacity] = h[i + 1]
      BY <3>3, <1>3 DEF Accounted
    <3> QED
      BY <3>2, <3>3, <3>4, <1>7
  <2>4. i = w \/ i < w
    BY <2>1
  <2> QED
    BY Zenon, <2>2, <2>3, <2>4
<1>12. ASSUME NEW k \in 1..len
       PROVE  o[k].pos \in 1..r2 /\ o[k].entry = Append(h, e)[o[k].pos]
  <2>1. PICK p \in 1..r : p = o[k].pos /\ o[k].entry = h[p]
    BY <1>3 DEF Accounted
  <2>2. p \in 1..r2 /\ p \in 1..w
    BY <1>4, <1>9
  <2> QED
    BY <2>1, <2>2, <1>7
<1>13. \A j, k \in 1..Len(o) : j < k => o[j].pos < o[k].pos
  BY DEF Accounted
<1>14. size(new) \in 0..kCapacity /\ new.write_ - 1 = w
  <2>1. size(new) = w2 - r2
    BY <1>8 DEF size
  <2>2. w2 = w + 1 /\ w2 - 1 = w
    BY <1>8, <1>5a
  <2>3. w2 - r2 \in 0..kCapacity
    BY <2>2, <1>9
  <2> QED
    BY Zenon, <2>1, <2>2, <2>3, <1>8
<1>15. new.write_ = Len(Append(h, e))
  BY <1>5a, <1>7
<1>16. Accounted(new, Append(h, e), o)
  <2>1. new.read_ = Len(o) + new.dropped_
    BY <1>3, <1>8, <1>9
  <2>2. \A i \in new.read_..(new.write_ - 1) : new.entries_[i % kCapacity] = Append(h, e)[i + 1]
    BY Zenon, <1>8, <1>11, <1>14
  <2>3. \A k \in 1..Len(o) : o[k].pos \in 1..new.read_ /\ o[k].entry = Append(h, e)[o[k].pos]
    BY Zenon, <1>3, <1>8, <1>12
  <2> QED
    BY Zenon, <2>1, <2>2, <2>3, <1>13, <1>14, <1>15 DEF Accounted
<1> QED
  BY <1>6, <1>16 DEF new

(* BoundedAuditLog::drain hands out the oldest unread entries, once.       *)
LEMMA DrainKeeps ==
    ASSUME NEW log \in Log, NEW h \in Seq(Entry), NEW o \in Seq(Drawn), NEW n \in Nat,
           Accounted(log, h, o)
    PROVE  LET d == [i \in 1..DrainCount(log, n) |-> [pos |-> log.read_ + i, entry |-> Drained(log, n)[i]]]
           IN  drain(log, n) \in Log /\ o \o d \in Seq(Drawn) /\ Accounted(drain(log, n), h, o \o d)
<1>1. log.write_ \in Nat /\ log.read_ \in Nat /\ log.dropped_ \in Nat /\ Len(o) \in Nat
  BY DEF Log
<1>2. log.entries_ \in [0..(kCapacity - 1) -> Entry]
  BY DEF Log
<1>3. PICK w \in Nat, r \in Nat, dropped \in Nat, len \in Nat :
          w = log.write_ /\ r = log.read_ /\ dropped = log.dropped_ /\ len = Len(o)
  BY <1>1
<1>4. r = len + dropped /\ r <= w /\ w - r <= kCapacity
  BY <1>3 DEF Accounted, size
<1>5. PICK m \in Nat : m = DrainCount(log, n) /\ m <= w - r
  <2>1. DrainCount(log, n) = IF w - r < n THEN w - r ELSE n
    BY <1>3 DEF DrainCount, size
  <2>2. (IF w - r < n THEN w - r ELSE n) \in Nat /\ (IF w - r < n THEN w - r ELSE n) <= w - r
    BY <1>4
  <2> QED
    BY Zenon, <2>1, <2>2
<1> DEFINE new == drain(log, n)
           d == [i \in 1..m |-> [pos |-> r + i, entry |-> Drained(log, n)[i]]]
           od == o \o d
<1>6. new.write_ = w /\ new.read_ = r + m /\ new.dropped_ = dropped
  BY <1>3, <1>5 DEF drain, Log
<1>6a. new.entries_ = log.entries_
  BY DEF drain, Log
<1>7. new \in Log
  <2>1. log.read_ + DrainCount(log, n) \in Nat
    BY <1>3, <1>5
  <2> QED
    BY Zenon, <2>1 DEF drain, Log
<1>8. ASSUME NEW i \in 1..m
      PROVE  /\ Drained(log, n)[i] = log.entries_[(r + i - 1) % kCapacity]
             /\ log.entries_[(r + i - 1) % kCapacity] = h[r + i]
             /\ log.entries_[(r + i - 1) % kCapacity] \in Entry
  <2>1. PICK j \in r..(w - 1) : j = r + i - 1 /\ j + 1 = r + i
    BY <1>4, <1>5
  <2>2. Drained(log, n)[i] = log.entries_[j % kCapacity]
    BY <1>3, <1>5, <2>1 DEF Drained
  <2>3. log.entries_[j % kCapacity] = h[j + 1]
    BY <1>3 DEF Accounted
  <2>4. log.entries_[j % kCapacity] \in Entry
    <3>1. j \in Int /\ j % kCapacity \in 0..(kCapacity - 1)
      BY ModRange
    <3> QED
      BY <3>1, <1>2
  <2> QED
    BY <2>1, <2>2, <2>3, <2>4
<1>9. d \in [1..m -> Drawn]
  <2>1. ASSUME NEW i \in 1..m
        PROVE  [pos |-> r + i, entry |-> Drained(log, n)[i]] \in Drawn
    <3>1. PICK entry \in Entry : entry = Drained(log, n)[i]
      BY <1>8
    <3>2. r + i \in Nat
      OBVIOUS
    <3> QED
      BY <3>1, <3>2 DEF Drawn
  <2> QED
    BY <2>1
<1>10. d \in Seq(Drawn) /\ Len(d) = m
  BY <1>9, FunctionIsSeq
<1>11. \A i \in 1..m : d[i].pos = r + i /\ d[i].entry = h[r + i]
  BY <1>8
<1> HIDE DEF d
<1>12. /\ od \in Seq(Drawn) /\ Len(od) = len + m
       /\ \A k \in 1..len : od[k] = o[k]
       /\ \A k \in 1..(len + m) : k > len => od[k] = d[k - len]
  BY <1>3, <1>10
<1> HIDE DEF od, new
<1>13. ASSUME NEW k \in 1..len
       PROVE  od[k].pos \in 1..r /\ od[k].entry = h[od[k].pos]
  BY Zenon, <1>3, <1>12 DEF Accounted
<1>14. ASSUME NEW k \in 1..(len + m), k > len
       PROVE  od[k].pos = r + (k - len) /\ od[k].entry = h[r + (k - len)]
  <2>1. PICK i \in 1..m : i = k - len
    BY <1>14
  <2> QED
    BY Zenon, <2>1, <1>14, <1>11, <1>12
<1>15. ASSUME NEW k \in 1..(len + m)
       PROVE  od[k].pos \in 1..(r + m) /\ od[k].entry = h[od[k].pos]
  <2>1. CASE k <= len
    <3>1. k \in 1..len
      BY <2>1
    <3>2. PICK p \in 1..r : p = od[k].pos /\ od[k].entry = h[p]
      BY <3>1, <1>13
    <3>3. p \in 1..(r + m)
      OBVIOUS
    <3> QED
      BY <3>2, <3>3
  <2>2. CASE k > len
    <3>1. r + (k - len) \in 1..(r + m)
      BY <2>2
    <3> QED
      BY <2>2, <3>1, <1>14
  <2> QED
    BY <2>1, <2>2
<1>16. ASSUME NEW j \in 1..(len + m), NEW k \in 1..(len + m), j < k
       PROVE  od[j].pos < od[k].pos
  <2>1. CASE k <= len
    <3>1. j \in 1..len /\ k \in 1..len
      BY <2>1, <1>16
    <3> QED
      BY Zenon, <3>1, <1>16, <1>3, <1>12 DEF Accounted
  <2>2. CASE k > len /\ j <= len
    <3>1. PICK p \in 1..r : p = od[j].pos
      BY <2>2, <1>13
    <3>2. p < r + (k - len)
      BY <2>2
    <3> QED
      BY <2>2, <3>1, <3>2, <1>14
  <2>3. CASE k > len /\ j > len
    <3>1. r + (j - len) < r + (k - len)
      BY <1>16
    <3> QED
      BY <2>3, <3>1, <1>14
  <2> QED
    BY <2>1, <2>2, <2>3
<1>17. Accounted(new, h, od)
  <2>1. new.write_ = Len(h)
    BY <1>3, <1>6 DEF Accounted
  <2>2. new.read_ = Len(od) + new.dropped_
    BY <1>4, <1>6, <1>12
  <2>3. size(new) \in 0..kCapacity
    BY <1>4, <1>5, <1>6 DEF size
  <2>4. \A i \in new.read_..(new.write_ - 1) : new.entries_[i % kCapacity] = h[i + 1]
    <3>1. \A i \in (r + m)..(w - 1) : i \in r..(w - 1)
      OBVIOUS
    <3>2. \A i \in r..(w - 1) : log.entries_[i % kCapacity] = h[i + 1]
      BY <1>3 DEF Accounted
    <3> QED
      BY <3>1, <3>2, <1>6, <1>6a
  <2>5. \A k \in 1..Len(od) : od[k].pos \in 1..new.read_ /\ od[k].entry = h[od[k].pos]
    BY <1>6, <1>12, <1>15
  <2>6. \A j, k \in 1..Len(od) : j < k => od[j].pos < od[k].pos
    BY <1>12, <1>16
  <2> QED
    BY <2>1, <2>2, <2>3, <2>4, <2>5, <2>6 DEF Accounted
<1> QED
  BY <1>3, <1>5, <1>7, <1>12, <1>17 DEF d, od, new
-----------------------------------------------------------------------------
(* The inductive invariant. *)

TrailsTyped == trail \in [Trails -> Log] /\ hist \in [Trails -> Seq(Entry)] /\ out \in [Trails -> Seq(Drawn)]

Exact == TrailsTyped /\ AuditAccounted /\ EveryCallAudited

(* The calls a trail is still owed are counted: there are finitely many. *)
LEMMA PendingFinite == \A g : IsFiniteSet(Pending(g))
  BY FS_Subset DEF Pending

(* The trails of a process that has just started are empty and agree with their histories. *)
LEMMA InitExact == Init => Exact
<1> SUFFICES ASSUME Init PROVE Exact
  OBVIOUS
<1>2. TrailsTyped
  <2>1. trail \in [Trails -> Log]
    BY EmptyLog DEF Init
  <2>2. hist \in [Trails -> Seq(Entry)]
    BY <<>> \in Seq(Entry) DEF Init
  <2>3. out \in [Trails -> Seq(Drawn)]
    BY <<>> \in Seq(Drawn) DEF Init
  <2> QED
    BY <2>1, <2>2, <2>3 DEF TrailsTyped
<1>4. AuditAccounted
  BY EmptyLog DEF Init, AuditAccounted
<1>5. EveryCallAudited
  <2>1. ASSUME NEW g \in Trails PROVE Pending(g) = {}
    BY DEF Init, Pending, Idle
  <2>2. Cardinality({}) = 0
    BY FS_EmptySet
  <2>3. ASSUME NEW g \in Trails
        PROVE  begun[g] = 0 /\ threw[g] = 0 /\ hist[g] = <<>> /\ Len(hist[g]) = 0
    BY DEF Init
  <2>4. ASSUME NEW g \in Trails
        PROVE  begun[g] = Len(hist[g]) + threw[g] + Cardinality(Pending(g))
    <3>1. Cardinality(Pending(g)) = 0
      BY <2>1, <2>2
    <3> QED
      BY <2>3, <3>1
  <2> QED
    BY <2>3, <2>4 DEF EveryCallAudited
<1> QED
  BY <1>2, <1>4, <1>5 DEF Exact

(* A step that owes nothing to the trails. *)
LEMMA UnowedExact ==
    ASSUME Exact, Unowed
    PROVE  Exact'
<1>1. TrailsTyped' /\ AuditAccounted'
  BY DEF Exact, TrailsTyped, AuditAccounted, Accounted, Unowed
<1>2. EveryCallAudited'
  BY DEF Exact, EveryCallAudited, Unowed
<1> QED
  BY <1>1, <1>2 DEF Exact

(* A call that comes to its end no longer owes an entry. *)
LEMMA PendingEnds ==
    ASSUME IInv, NEW c \in Callers, call[c].pc \notin {"idle", "pin"}, call' = [call EXCEPT ![c] = Idle],
           NEW g \in Trails
    PROVE  /\ g = TrailOf(call[c].op) => Cardinality(Pending(g)) = Cardinality(Pending(g)') + 1
           /\ g # TrailOf(call[c].op) => Pending(g)' = Pending(g)
           /\ Cardinality(Pending(g)) \in Nat /\ Cardinality(Pending(g)') \in Nat
<1>1. call'[c] = Idle /\ \A d \in Callers \ {c} : call'[d] = call[d]
  BY DEF IInv, Typed
<1>2. Pending(g)' = Pending(g) \ {c}
  BY <1>1 DEF Pending, Idle
<1>3. IsFiniteSet(Pending(g)) /\ IsFiniteSet(Pending(g) \ {c})
  BY PendingFinite, FS_Subset
<1>4. Cardinality(Pending(g)) \in Nat /\ Cardinality(Pending(g) \ {c}) \in Nat
  BY <1>3, FS_CardinalityType
<1>5. CASE g = TrailOf(call[c].op)
  <2>1. c \in Pending(g)
    BY <1>5 DEF Pending
  <2>2. Cardinality(Pending(g) \ {c}) = Cardinality(Pending(g)) - 1
    BY <2>1, <1>3, FS_RemoveElement
  <2> QED
    BY <1>2, <1>4, <1>5, <2>2
<1>6. CASE g # TrailOf(call[c].op)
  <2>1. c \notin Pending(g)
    BY <1>6 DEF Pending
  <2> QED
    BY <1>2, <1>4, <1>6, <2>1
<1> QED
  BY <1>5, <1>6

(* An exception ends the call and is counted in place of its entry. *)
LEMMA ThrowExact ==
    ASSUME IInv, Exact, NEW c \in Callers, Thrown(c)
    PROVE  Exact'
<1> DEFINE g0 == TrailOf(call[c].op)
<1>1. g0 \in Trails /\ call' = [call EXCEPT ![c] = Idle] /\ threw' = [threw EXCEPT ![g0] = @ + 1]
  BY TrailOfOp DEF IInv, Typed, Call, abi_guard, Thrown
<1>3. UNCHANGED <<token, trail, hist, out, begun>>
  BY DEF Thrown
<1>4. TrailsTyped'
  BY <1>3 DEF Exact, TrailsTyped
<1>5. AuditAccounted'
  BY <1>3 DEF Exact, AuditAccounted, Accounted
<1>6. EveryCallAudited'
  <2>1. call[c].pc \notin {"idle", "pin"}
    BY DEF Thrown, Working
  <2>2. ASSUME NEW g \in Trails
        PROVE  begun'[g] = Len(hist'[g]) + threw'[g] + Cardinality(Pending(g)')
    <3>1. begun[g] = Len(hist[g]) + threw[g] + Cardinality(Pending(g))
      BY DEF Exact, EveryCallAudited
    <3>2. PICK n \in Nat, t \in Nat : n = Len(hist[g]) /\ t = threw[g]
      BY DEF IInv, Typed, Exact, TrailsTyped
    <3>3. threw'[g] = IF g = g0 THEN t + 1 ELSE t
      BY <1>1, <3>2 DEF IInv, Typed
    <3>4. PICK p \in Nat, q \in Nat :
              /\ p = Cardinality(Pending(g)) /\ q = Cardinality(Pending(g)')
              /\ p = IF g = g0 THEN q + 1 ELSE q
      BY Zenon, <1>1, <2>1, PendingEnds
    <3>5. n + t + p = n + (IF g = g0 THEN t + 1 ELSE t) + q
      BY <3>4
    <3> QED
      BY <1>3, <3>1, <3>2, <3>3, <3>4, <3>5
  <2> QED
    BY <1>3, <2>2 DEF Exact, EveryCallAudited
<1> QED
  BY <1>4, <1>5, <1>6 DEF Exact

(* The entry ends the call. *)
LEMMA AuditExact ==
    ASSUME IInv, Exact, NEW c \in Callers, Audit(c)
    PROVE  Exact'
<1> DEFINE g0 == TrailOf(call[c].op)
           entry == [who |-> c, permission |-> Permission[call[c].op], outcome |-> call[c].outcome]
<1>1. /\ call[c].pc = "audit" /\ call' = [call EXCEPT ![c] = Idle]
      /\ trail' = [trail EXCEPT ![g0] = append(@, entry)] /\ hist' = [hist EXCEPT ![g0] = Append(@, entry)]
      /\ UNCHANGED <<token, out, begun, threw>>
  BY DEF Audit, append_audit, state
<1>2. g0 \in Trails /\ entry \in Entry
  BY TrailOfOp DEF IInv, Typed, Call, Entry
<1>3. entry.outcome = "Allowed" => is_allowed(token[c].role, entry.permission)
  BY DEF IInv, Rightful, Entitled
<1>4. entry.who = c
  OBVIOUS
<1> HIDE DEF entry, g0
<1>8. /\ trail[g0] \in Log /\ hist[g0] \in Seq(Entry) /\ out[g0] \in Seq(Drawn)
      /\ Accounted(trail[g0], hist[g0], out[g0])
  BY <1>2 DEF Exact, TrailsTyped, AuditAccounted
<1>9. append(trail[g0], entry) \in Log /\ Accounted(append(trail[g0], entry), Append(hist[g0], entry), out[g0])
  BY <1>2, <1>8, AppendKeeps
<1>10. /\ trail'[g0] = append(trail[g0], entry) /\ hist'[g0] = Append(hist[g0], entry) /\ out'[g0] = out[g0]
       /\ \A g \in Trails \ {g0} : trail'[g] = trail[g] /\ hist'[g] = hist[g] /\ out'[g] = out[g]
  BY <1>1, <1>2 DEF Exact, TrailsTyped
<1>10a. /\ Len(hist'[g0]) = Len(hist[g0]) + 1 /\ DOMAIN hist'[g0] = 1..(Len(hist[g0]) + 1)
        /\ DOMAIN hist[g0] = 1..Len(hist[g0]) /\ Len(hist[g0]) \in Nat
        /\ hist'[g0][Len(hist[g0]) + 1] = entry
        /\ \A i \in 1..Len(hist[g0]) : hist'[g0][i] = hist[g0][i]
  <2>1. PICK h \in Seq(Entry) : h = hist[g0]
    BY <1>8
  <2>2. PICK e \in Entry : e = entry
    BY <1>2
  <2>3. hist'[g0] = Append(h, e)
    BY <1>10, <2>1, <2>2
  <2>4. /\ Len(Append(h, e)) = Len(h) + 1 /\ DOMAIN Append(h, e) = 1..(Len(h) + 1)
        /\ DOMAIN h = 1..Len(h) /\ Len(h) \in Nat /\ Append(h, e)[Len(h) + 1] = e
        /\ \A i \in 1..Len(h) : Append(h, e)[i] = h[i]
    BY AppendFacts
  <2> QED
    BY <2>1, <2>2, <2>3, <2>4
<1>11. TrailsTyped'
  BY <1>1, <1>2, <1>8, <1>9 DEF Exact, TrailsTyped
<1>12. AuditAccounted'
  <2>1. ASSUME NEW g \in Trails PROVE Accounted(trail'[g], hist'[g], out'[g])
    <3>1. CASE g = g0
      BY <3>1, <1>9, <1>10
    <3>2. CASE g # g0
      BY <3>2, <1>10 DEF Exact, AuditAccounted
    <3> QED
      BY <3>1, <3>2
  <2> QED
    BY <2>1 DEF AuditAccounted
<1>13. \A g \in Trails : begun'[g] = Len(hist'[g]) + threw'[g] + Cardinality(Pending(g)')
  <2> TAKE g \in Trails
  <2>1. begun[g] = Len(hist[g]) + threw[g] + Cardinality(Pending(g))
    BY DEF Exact, EveryCallAudited
  <2>2. PICK n \in Nat, t \in Nat : n = Len(hist[g]) /\ t = threw[g]
    BY DEF IInv, Typed, Exact, TrailsTyped
  <2>3. Len(hist'[g]) = IF g = g0 THEN n + 1 ELSE n
    <3>1. CASE g = g0
      BY <3>1, <1>10a, <2>2
    <3>2. CASE g # g0
      <4>1. hist'[g] = hist[g]
        BY <3>2, <1>10
      <4> QED
        BY <3>2, <4>1, <2>2
    <3> QED
      BY <3>1, <3>2
  <2>4. PICK p \in Nat, q \in Nat :
            /\ p = Cardinality(Pending(g)) /\ q = Cardinality(Pending(g)')
            /\ p = IF g = g0 THEN q + 1 ELSE q
    BY Zenon, <1>1, PendingEnds DEF g0
  <2>5. n + t + p = (IF g = g0 THEN n + 1 ELSE n) + t + q
    BY <2>4
  <2> QED
    BY <1>1, <2>1, <2>2, <2>3, <2>4, <2>5
<1>14. ASSUME NEW g \in Trails, NEW i \in DOMAIN hist'[g], hist'[g][i].outcome = "Allowed"
       PROVE  /\ hist'[g][i].permission = "PollSignals" \/ token[hist'[g][i].who].role # "Viewer"
              /\ hist'[g][i].permission \in {"AddRule", "ManagePersistence", "ManageTenants"}
                   => token[hist'[g][i].who].role = "Admin"
  <2>1. CASE g = g0 /\ i = Len(hist[g0]) + 1
    <3>1. hist'[g][i] = entry
      BY <2>1, <1>10a
    <3>2. token[c].role \in Role
      BY DEF IInv, Typed
    <3> QED
      BY Zenon, <3>1, <3>2, <1>3, <1>4, <1>14 DEF is_allowed, Role
  <2>2. CASE ~(g = g0 /\ i = Len(hist[g0]) + 1)
    <3>1. i \in DOMAIN hist[g] /\ hist'[g][i] = hist[g][i]
      <4>1. CASE g = g0
        <5>1. PICK n \in Nat : n = Len(hist[g0])
          BY <1>10a
        <5>2. i \in 1..(n + 1) /\ i # n + 1
          BY <4>1, <5>1, <2>2, <1>10a, <1>14
        <5>3. i \in 1..n
          BY <5>2
        <5> QED
          BY <4>1, <5>1, <5>3, <1>10a
      <4>2. CASE g # g0
        <5>1. hist'[g] = hist[g]
          BY <4>2, <1>10
        <5> QED
          BY <5>1, <1>14
      <4> QED
        BY <4>1, <4>2
    <3> QED
      BY <3>1, <1>14 DEF Exact, EveryCallAudited
  <2> QED
    BY Zenon, <2>1, <2>2
<1>15. EveryCallAudited'
  BY Zenon, <1>1, <1>13, <1>14 DEF EveryCallAudited
<1> QED
  BY <1>11, <1>12, <1>15 DEF Exact

(* Polling a trail moves its reader and nothing else. *)
LEMMA PollExact ==
    ASSUME Exact, NEW g0 \in Trails, NEW n \in 1..kCapacity, poll_audit_log(g0, n)
    PROVE  Exact'
<1> DEFINE d == [i \in 1..DrainCount(trail[g0], n) |->
                    [pos |-> trail[g0].read_ + i, entry |-> Drained(trail[g0], n)[i]]]
<1>1. /\ trail' = [trail EXCEPT ![g0] = drain(@, n)] /\ out' = [out EXCEPT ![g0] = @ \o d]
      /\ UNCHANGED <<token, call, hist, begun, threw>>
  BY DEF poll_audit_log, state
<1>2. /\ trail[g0] \in Log /\ hist[g0] \in Seq(Entry) /\ out[g0] \in Seq(Drawn) /\ n \in Nat
      /\ Accounted(trail[g0], hist[g0], out[g0])
  BY DEF Exact, TrailsTyped, AuditAccounted
<1>3. /\ drain(trail[g0], n) \in Log /\ out[g0] \o d \in Seq(Drawn)
      /\ Accounted(drain(trail[g0], n), hist[g0], out[g0] \o d)
  BY Zenon, <1>2, DrainKeeps
<1> HIDE DEF d
<1>4. /\ trail'[g0] = drain(trail[g0], n) /\ out'[g0] = out[g0] \o d
      /\ \A g \in Trails \ {g0} : trail'[g] = trail[g] /\ out'[g] = out[g]
  BY <1>1 DEF Exact, TrailsTyped
<1>5. TrailsTyped'
  BY <1>1, <1>3 DEF Exact, TrailsTyped
<1>6. AuditAccounted'
  <2>1. ASSUME NEW g \in Trails PROVE Accounted(trail'[g], hist'[g], out'[g])
    <3>1. CASE g = g0
      BY Zenon, <3>1, <1>1, <1>3, <1>4
    <3>2. CASE g # g0
      BY <3>2, <1>1, <1>4 DEF Exact, AuditAccounted
    <3> QED
      BY <3>1, <3>2
  <2> QED
    BY <2>1 DEF AuditAccounted
<1>8. EveryCallAudited'
  BY Zenon, <1>1 DEF Exact, EveryCallAudited, Pending
<1> QED
  BY <1>5, <1>6, <1>8 DEF Exact

(* A call begins: it is counted, and owes an entry. *)
LEMMA BeginExact ==
    ASSUME IInv, Exact, NEW c \in Callers, NEW op \in Op, NEW t \in Tenants, Begin(c, op, t)
    PROVE  Exact'
<1> DEFINE g0 == TrailOf(op)
           rec == [pc |-> IF ~is_allowed(token[c].role, Permission[op]) THEN "audit"
                          ELSE IF op = "submit" THEN "license" ELSE "resolve",
                   op |-> op, tenant |-> t, eng |-> 0, outcome |-> "Denied", bound |-> lic.required]
<1>1. /\ call[c].pc = "idle" /\ call' = [call EXCEPT ![c] = rec]
      /\ begun' = [begun EXCEPT ![g0] = @ + 1]
      /\ UNCHANGED <<token, trail, hist, out, threw>>
  BY DEF Begin, state, trailVars
<1>3. rec.op = op /\ rec.pc \notin {"idle", "pin"}
  OBVIOUS
<1>4. g0 \in Trails
  BY TrailOfOp
<1> HIDE DEF rec, g0
<1>5. call'[c] = rec /\ \A d \in Callers \ {c} : call'[d] = call[d]
  BY <1>1 DEF IInv, Typed
<1>6. TrailsTyped'
  BY <1>1 DEF Exact, TrailsTyped
<1>8. AuditAccounted'
  BY Zenon, <1>1 DEF Exact, AuditAccounted, Accounted
<1>9. \A g \in Trails : begun'[g] = Len(hist'[g]) + threw'[g] + Cardinality(Pending(g)')
  <2> TAKE g \in Trails
  <2>1. begun[g] = Len(hist[g]) + threw[g] + Cardinality(Pending(g))
    BY DEF Exact, EveryCallAudited
  <2>2. PICK n \in Nat, k \in Nat, b \in Nat : n = Len(hist[g]) /\ k = threw[g] /\ b = begun[g]
    BY DEF IInv, Typed, Exact, TrailsTyped
  <2>3. begun'[g] = IF g = g0 THEN b + 1 ELSE b
    BY <1>1, <2>2 DEF IInv, Typed
  <2>4. c \notin Pending(g) /\ Pending(g)' = IF g = g0 THEN Pending(g) \cup {c} ELSE Pending(g)
    BY <1>1, <1>3, <1>5 DEF Pending, g0
  <2>5. /\ IsFiniteSet(Pending(g)) /\ Cardinality(Pending(g)) \in Nat
        /\ Cardinality(Pending(g) \cup {c}) = Cardinality(Pending(g)) + 1
    BY <2>4, PendingFinite, FS_CardinalityType, FS_AddElement
  <2>6. PICK p \in Nat : p = Cardinality(Pending(g)) /\ Cardinality(Pending(g)') = IF g = g0 THEN p + 1 ELSE p
    BY <2>4, <2>5
  <2>7. b = n + k + p => (IF g = g0 THEN b + 1 ELSE b) = n + k + (IF g = g0 THEN p + 1 ELSE p)
    OBVIOUS
  <2> QED
    BY <1>1, <2>1, <2>2, <2>3, <2>6, <2>7
<1>10. EveryCallAudited'
  BY <1>1, <1>9 DEF Exact, EveryCallAudited
<1> QED
  BY <1>6, <1>8, <1>10 DEF Exact

-----------------------------------------------------------------------------
(* Every step of the gateways, the owner and the workers keeps the trails exact. *)
LEMMA NextExact == IInv /\ Exact /\ TrailStep => Exact'
  BY UnowedExact, ThrowExact, AuditExact, PollExact, BeginExact DEF TrailStep

(* The invariant of the trails. *)
LEMMA AlwaysExact == Spec => []Exact
  BY InitInv, NextInv, InitExact, NextExact, PTL DEF Spec

(* Unread entries of a trail are the newest appended, in order; every other *)
(* entry was drained once, in order, or counted as dropped, whatever the    *)
(* capacity of the log and however appends and drains interleave.           *)
THEOREM TrailsExact == Spec => []AuditAccounted
<1>1. Exact => AuditAccounted
  BY DEF Exact
<1> QED
  BY <1>1, AlwaysExact, PTL

(* Every call that begins is entered in the trail, is on its way there, or  *)
(* was left by an exception, and no entry says Allowed of a call its        *)
(* caller's role does not cover, for any number of callers and calls.       *)
THEOREM CallsAudited == Spec => []EveryCallAudited
<1>1. Exact => EveryCallAudited
  BY DEF Exact
<1> QED
  BY <1>1, AlwaysExact, PTL
=============================================================================
