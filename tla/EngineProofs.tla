---------------------------- MODULE EngineProofs ----------------------------
(***************************************************************************)
(* Every event the engine accepts is accounted for, meets every rule that  *)
(* was there before it, and meets none twice: for any rings, batches,      *)
(* rules, restarts and failures of the log file.                           *)
(***************************************************************************)
EXTENDS Engine, RingLemmas

-----------------------------------------------------------------------------
(* The inductive invariant *)

\* How many events have left the worker's hands; they are 0 to Handled - 1.
Handled == recorded - Len(ring) - Len(batch)

Event == [id : Nat, kind : Kinds, nrules : Nat, ncep : Nat]

TypeOK ==
    /\ ring \in Seq(Event) /\ batch \in Seq(Event)
    /\ rules \in Seq(Kinds) /\ cep_rules \in Seq(Kinds)
    /\ rules_snapshot \in Seq(Kinds) /\ cep_snapshot \in Seq(Kinds)
    /\ windows \in Seq(Seq(Nat)) /\ signalled \in Seq(Nat \X Nat)
    /\ written \in Seq(Nat) /\ lost \in Seq(Nat)
    /\ recorded \in Nat /\ ei \in Nat /\ ri \in Nat

\* The events in the batch and in the ring follow the handled ones.
Numbered ==
    /\ Handled \in Nat
    /\ \A j \in 1..Len(batch) : batch[j].id = Handled + j - 1
    /\ \A j \in 1..Len(ring) : ring[j].id = Handled + Len(batch) + j - 1

\* The handled events are in the log or in a batch whose write failed.
Filed ==
    /\ Increasing(written) /\ Increasing(lost)
    /\ Ids(written) \cup Ids(lost) = 0..(Handled - 1)
    /\ Len(written) + Len(lost) = Handled

\* Rules are only added, so an event knows no more rules than there are, and
\* a snapshot taken after the batch was popped has all that its events know.
RulesKnown ==
    /\ Len(rules) <= MaxRules /\ n <= MaxRules /\ m <= Len(cep_rules) /\ Len(windows) = Len(cep_rules)
    /\ \A j \in 1..Len(ring) : ring[j].nrules <= Len(rules) /\ ring[j].ncep <= Len(cep_rules)
    /\ \A j \in 1..Len(batch) : batch[j].nrules <= Len(rules) /\ batch[j].ncep <= Len(cep_rules)
    /\ wpc \in {"cep_rules", "evaluate"} => \A j \in 1..Len(batch) : batch[j].nrules <= n
    /\ wpc = "evaluate" => \A j \in 1..Len(batch) : batch[j].ncep <= m

\* Where the evaluation stands.
Position ==
    wpc = "evaluate" => /\ ei \in 1..(Len(batch) + 1) /\ ri \in 1..(n + m + 1)
                        /\ ei = Len(batch) + 1 => ri = 1

\* The event under evaluation, and what its next match would be numbered.
Now == IF wpc = "evaluate" THEN Handled + ei - 1 ELSE Handled
Rank == IF ri <= n THEN ri ELSE MaxRules + ri - n

\* No window holds an event that its rule is still to be given, and no match
\* has been signalled that is still to be found.
Before ==
    /\ \A j \in 1..Len(windows) : \A k \in 1..Len(windows[j]) :
          windows[j][k] < Now \/ (windows[j][k] = Now /\ wpc = "evaluate" /\ ri > n + j)
    /\ \A k \in 1..Len(signalled) :
          \/ signalled[k][1] < Now
          \/ signalled[k][1] = Now /\ wpc = "evaluate" /\ ri > 1 /\ signalled[k][2] < Rank

\* The order of the matches in EvaluatedOnce.
Ordered(s) ==
    \A i, j \in DOMAIN s :
       i < j => \/ s[i][1] < s[j][1]
                \/ s[i][1] = s[j][1] /\ s[i][2] < s[j][2]

Accounts ==
    TypeOK /\ Numbered /\ Filed /\ RulesKnown /\ Position /\ Before /\ EvaluatedOnce

\* A worker is there exactly from a start to the join of its stop, so a start
\* finds none.
Controlled ==
    /\ ctl \in {"idle", "joining"} /\ running \in BOOLEAN
    /\ ctl = "joining" => ~running
    /\ ctl = "idle" /\ ~running => wpc = "none"

IInv == Accounts /\ Controlled

-----------------------------------------------------------------------------
(* Lemmas about sequences *)

(* What concatenation keeps and where it puts the rest. *)
LEMMA ConcatFacts ==
    ASSUME NEW S, NEW s \in Seq(S), NEW t \in Seq(S)
    PROVE  /\ s \o t \in Seq(S) /\ Len(s \o t) = Len(s) + Len(t)
           /\ \A i \in 1..Len(s) : (s \o t)[i] = s[i]
           /\ \A i \in 1..Len(t) : (s \o t)[Len(s) + i] = t[i]
  OBVIOUS

(* Any element of a concatenation is an element of one of the two. *)
LEMMA ConcatElement ==
    ASSUME NEW S, NEW s \in Seq(S), NEW t \in Seq(S), NEW i \in 1..Len(s \o t)
    PROVE  \/ i \in 1..Len(s) /\ (s \o t)[i] = s[i]
           \/ i - Len(s) \in 1..Len(t) /\ (s \o t)[i] = t[i - Len(s)]
  OBVIOUS

(* Head and Tail of a sequence that is not empty. *)
LEMMA TailFacts ==
    ASSUME NEW S, NEW s \in Seq(S), s # <<>>
    PROVE  /\ Len(s) \in Nat \ {0} /\ Head(s) \in S /\ Head(s) = s[1]
           /\ Tail(s) \in Seq(S) /\ Len(Tail(s)) = Len(s) - 1
           /\ \A i \in 1..(Len(s) - 1) : Tail(s)[i] = s[i + 1]
  OBVIOUS

(* A larger number keeps an increasing sequence increasing. *)
LEMMA IncreasingAppend ==
    ASSUME NEW s \in Seq(Nat), Increasing(s), NEW x \in Nat, \A i \in 1..Len(s) : s[i] < x
    PROVE  Increasing(Append(s, x))
<1> DEFINE t == Append(s, x)
<1>1. /\ DOMAIN t = 1..(Len(s) + 1) /\ t[Len(s) + 1] = x /\ Len(s) \in Nat
      /\ \A i \in 1..Len(s) : t[i] = s[i]
  BY AppendFacts
<1> HIDE DEF t
<1> SUFFICES ASSUME NEW i \in 1..(Len(s) + 1), NEW j \in 1..(Len(s) + 1), i < j
             PROVE  t[i] < t[j]
  BY <1>1 DEF Increasing, t
<1>2. i \in 1..Len(s) /\ t[i] = s[i]
  BY <1>1
<1>3. CASE j = Len(s) + 1
  BY <1>1, <1>2, <1>3
<1>4. CASE j # Len(s) + 1
  <2>1. j \in 1..Len(s) /\ t[j] = s[j] /\ DOMAIN s = 1..Len(s)
    BY <1>1, <1>4
  <2> QED
    BY <1>2, <2>1 DEF Increasing
<1> QED
  BY <1>3, <1>4

(* So does an increasing sequence of larger numbers. *)
LEMMA IncreasingConcat ==
    ASSUME NEW s \in Seq(Nat), Increasing(s), NEW t \in Seq(Nat), Increasing(t),
           \A i \in 1..Len(s), j \in 1..Len(t) : s[i] < t[j]
    PROVE  Increasing(s \o t)
<1> DEFINE u == s \o t
<1>1. u \in Seq(Nat) /\ DOMAIN u = 1..Len(u) /\ DOMAIN s = 1..Len(s) /\ DOMAIN t = 1..Len(t)
  BY ConcatFacts
<1>2. \A i \in 1..Len(u) : \/ i \in 1..Len(s) /\ u[i] = s[i]
                           \/ i - Len(s) \in 1..Len(t) /\ u[i] = t[i - Len(s)]
  BY ConcatElement
<1>3. Len(s) \in Nat /\ Len(t) \in Nat /\ Len(u) \in Nat
  BY <1>1
<1> HIDE DEF u
<1> SUFFICES ASSUME NEW i \in 1..Len(u), NEW j \in 1..Len(u), i < j
             PROVE  u[i] < u[j]
  BY <1>1 DEF Increasing, u
<1>4. CASE i \in 1..Len(s) /\ u[i] = s[i] /\ j \in 1..Len(s) /\ u[j] = s[j]
  BY <1>1, <1>4 DEF Increasing
<1>5. CASE i \in 1..Len(s) /\ u[i] = s[i] /\ j - Len(s) \in 1..Len(t) /\ u[j] = t[j - Len(s)]
  BY <1>5
<1>6. CASE i - Len(s) \in 1..Len(t) /\ u[i] = t[i - Len(s)] /\ j \in 1..Len(s)
  BY <1>3, <1>6
<1>7. CASE i - Len(s) \in 1..Len(t) /\ u[i] = t[i - Len(s)] /\ j - Len(s) \in 1..Len(t) /\ u[j] = t[j - Len(s)]
  <2>1. i - Len(s) < j - Len(s)
    BY <1>3
  <2> QED
    BY <1>1, <1>7, <2>1 DEF Increasing
<1> QED
  BY <1>2, <1>4, <1>5, <1>6, <1>7

(* The numbers in a concatenation. *)
LEMMA IdsConcat ==
    ASSUME NEW s \in Seq(Nat), NEW t \in Seq(Nat)
    PROVE  Ids(s \o t) = Ids(s) \cup Ids(t)
<1> DEFINE u == s \o t
<1>1. /\ DOMAIN u = 1..Len(u) /\ DOMAIN s = 1..Len(s) /\ DOMAIN t = 1..Len(t)
      /\ Len(u) = Len(s) + Len(t) /\ Len(s) \in Nat /\ Len(t) \in Nat
      /\ \A i \in 1..Len(s) : u[i] = s[i]
      /\ \A i \in 1..Len(t) : u[Len(s) + i] = t[i]
  BY ConcatFacts
<1>2. \A i \in 1..Len(u) : \/ i \in 1..Len(s) /\ u[i] = s[i]
                           \/ i - Len(s) \in 1..Len(t) /\ u[i] = t[i - Len(s)]
  BY ConcatElement
<1> HIDE DEF u
<1>3. ASSUME NEW x \in Ids(u)
      PROVE  x \in Ids(s) \cup Ids(t)
  BY <1>1, <1>2 DEF Ids
<1>4. ASSUME NEW x \in Ids(s)
      PROVE  x \in Ids(u)
  <2>1. PICK i \in 1..Len(s) : x = s[i]
    BY <1>1 DEF Ids
  <2>2. i \in 1..Len(u) /\ u[i] = x
    BY <1>1, <2>1
  <2> QED
    BY <1>1, <2>2 DEF Ids
<1>5. ASSUME NEW x \in Ids(t)
      PROVE  x \in Ids(u)
  <2>1. PICK i \in 1..Len(t) : x = t[i]
    BY <1>1 DEF Ids
  <2>2. Len(s) + i \in 1..Len(u) /\ u[Len(s) + i] = x
    BY <1>1, <2>1
  <2> QED
    BY <1>1, <2>2 DEF Ids
<1>6. Ids(u) = Ids(s) \cup Ids(t)
  BY <1>3, <1>4, <1>5
<1> QED
  BY <1>6 DEF u

-----------------------------------------------------------------------------
(* The invariant is inductive *)

(* A fresh engine. *)
LEMMA InitInv == Init => IInv
<1> SUFFICES ASSUME Init PROVE IInv
  OBVIOUS
<1>1. /\ ring = <<>> /\ batch = <<>> /\ rules = <<>> /\ cep_rules = <<>> /\ rules_snapshot = <<>>
      /\ cep_snapshot = <<>> /\ windows = <<>> /\ signalled = <<>> /\ written = <<>> /\ lost = <<>>
      /\ recorded = 0 /\ ei = 0 /\ ri = 0 /\ wpc = "none"
  BY DEF Init
<1>2. TypeOK
  BY <1>1 DEF TypeOK
<1>3. Handled = 0
  <2>1. Len(ring) = 0 /\ Len(batch) = 0 /\ recorded = 0
    BY <1>1
  <2> QED
    BY <2>1 DEF Handled
<1>4. Numbered
  BY <1>1, <1>3 DEF Numbered
<1>5. Filed
  <2>1. Ids(written) = {} /\ Ids(lost) = {} /\ 0..(Handled - 1) = {}
    BY <1>1, <1>3 DEF Ids
  <2> QED
    BY <1>1, <1>3, <2>1 DEF Filed, Increasing
<1>6. RulesKnown
  BY <1>1, BoundsAssumption DEF RulesKnown, n, m
<1>7. Position /\ Before /\ EvaluatedOnce
  BY <1>1 DEF Position, Before, EvaluatedOnce
<1>8. Controlled
  BY DEF Init, Controlled
<1> QED
  BY <1>2, <1>4, <1>5, <1>6, <1>7, <1>8 DEF IInv, Accounts

(* The lengths the invariant speaks of. *)
LEMMA Lengths ==
    ASSUME TypeOK
    PROVE  /\ Len(ring) \in Nat /\ Len(batch) \in Nat /\ Len(rules) \in Nat /\ Len(cep_rules) \in Nat
           /\ n \in Nat /\ m \in Nat /\ Len(windows) \in Nat /\ Len(signalled) \in Nat
           /\ Len(written) \in Nat /\ Len(lost) \in Nat /\ Handled \in Int /\ Now \in Int
  BY DEF TypeOK, n, m, Handled, Now

(* What the events in the ring and in the batch carry. *)
LEMMA KnownTypes ==
    ASSUME TypeOK
    PROVE  /\ \A j \in 1..Len(ring) : ring[j].id \in Nat /\ ring[j].nrules \in Nat /\ ring[j].ncep \in Nat
           /\ \A j \in 1..Len(batch) : batch[j].id \in Nat /\ batch[j].nrules \in Nat /\ batch[j].ncep \in Nat
<1>1. /\ \A j \in 1..Len(ring) : ring[j] \in Event
      /\ \A j \in 1..Len(batch) : batch[j] \in Event
  BY DEF TypeOK
<1>2. \A e \in Event : e.id \in Nat /\ e.nrules \in Nat /\ e.ncep \in Nat
  BY DEF Event
<1> QED
  BY <1>1, <1>2

(* A step that leaves the numbers of handled events and the two files of   *)
(* them alone keeps the account.                                           *)
LEMMA FiledKept ==
    ASSUME Filed, Handled' = Handled, UNCHANGED <<written, lost>>
    PROVE  Filed'
<1>1. written' = written /\ lost' = lost
  OBVIOUS
<1> QED
  BY <1>1 DEF Filed

(* A step that evaluates nothing keeps what was evaluated in order. *)
LEMMA EvaluationKept ==
    ASSUME Before, EvaluatedOnce, UNCHANGED <<windows, signalled>>, Now' = Now,
           wpc # "evaluate" \/ UNCHANGED <<wpc, rules_snapshot, ri>>
    PROVE  Before' /\ EvaluatedOnce'
<1>1. windows' = windows /\ signalled' = signalled
  OBVIOUS
<1>2. EvaluatedOnce'
  BY <1>1 DEF EvaluatedOnce
<1>3. CASE wpc # "evaluate"
  <2>1. \A j \in 1..Len(windows) : \A k \in 1..Len(windows[j]) : windows[j][k] < Now
    BY <1>3 DEF Before
  <2>2. \A k \in 1..Len(signalled) : signalled[k][1] < Now
    BY <1>3 DEF Before
  <2> QED
    BY <1>1, <1>2, <2>1, <2>2 DEF Before
<1>4. CASE UNCHANGED <<wpc, rules_snapshot, ri>>
  <2>1. wpc' = wpc /\ ri' = ri /\ n' = n /\ Rank' = Rank
    BY <1>4 DEF n, Rank
  <2>2. \A j \in 1..Len(windows) : \A k \in 1..Len(windows[j]) :
           windows[j][k] < Now' \/ (windows[j][k] = Now' /\ wpc' = "evaluate" /\ ri' > n' + j)
    BY <2>1, Zenon DEF Before
  <2>3. \A k \in 1..Len(signalled) :
           \/ signalled[k][1] < Now'
           \/ signalled[k][1] = Now' /\ wpc' = "evaluate" /\ ri' > 1 /\ signalled[k][2] < Rank'
    BY <2>1, Zenon DEF Before
  <2> QED
    BY <1>1, <1>2, <2>2, <2>3, Zenon DEF Before
<1> QED
  BY <1>2, <1>3, <1>4

(* The steps that only move the worker or its controller along. *)
LEMMA QuietStep ==
    ASSUME Accounts,
           UNCHANGED <<ring, batch, rules, cep_rules, recorded, written, lost,
                       rules_snapshot, cep_snapshot, ei, ri, windows, signalled>>,
           wpc' = wpc \/ (wpc # "evaluate" /\ wpc' \notin {"cep_rules", "evaluate"})
    PROVE  Accounts'
<1>1. /\ ring' = ring /\ batch' = batch /\ rules' = rules /\ cep_rules' = cep_rules /\ recorded' = recorded
      /\ written' = written /\ lost' = lost /\ rules_snapshot' = rules_snapshot /\ cep_snapshot' = cep_snapshot
      /\ ei' = ei /\ ri' = ri /\ windows' = windows /\ signalled' = signalled
  OBVIOUS
<1>2. Handled' = Handled /\ n' = n /\ m' = m
  BY <1>1 DEF Handled, n, m
<1>3. Now' = Now
  BY <1>1, <1>2 DEF Now
<1>4. TypeOK' /\ Numbered'
  BY <1>1, <1>2 DEF Accounts, TypeOK, Numbered
<1>5. Filed'
  BY <1>1, <1>2, FiledKept DEF Accounts
<1>6. RulesKnown' /\ Position'
  <2>1. RulesKnown'
    BY <1>1, <1>2 DEF Accounts, RulesKnown
  <2>2. Position'
    BY <1>1, <1>2 DEF Accounts, Position
  <2> QED
    BY <2>1, <2>2
<1>7. Before' /\ EvaluatedOnce'
  BY <1>1, <1>3, EvaluationKept DEF Accounts
<1> QED
  BY <1>4, <1>5, <1>6, <1>7 DEF Accounts

(* record: the event goes to the end of the ring with the next number. *)
LEMMA RecordStep ==
    ASSUME Accounts, NEW kind \in Kinds, Record(kind)
    PROVE  Accounts'
<1> DEFINE e == [id |-> recorded, kind |-> kind, nrules |-> Len(rules), ncep |-> Len(cep_rules)]
<1>1. /\ ring' = Append(ring, e) /\ recorded' = recorded + 1
      /\ batch' = batch /\ rules' = rules /\ cep_rules' = cep_rules /\ wpc' = wpc
      /\ written' = written /\ lost' = lost /\ rules_snapshot' = rules_snapshot /\ cep_snapshot' = cep_snapshot
      /\ ei' = ei /\ ri' = ri /\ windows' = windows /\ signalled' = signalled
  BY DEF Record, evalVars
<1>2. TypeOK /\ Numbered /\ Filed /\ RulesKnown /\ Position /\ Before /\ EvaluatedOnce
  BY DEF Accounts
<1>3. Len(ring) \in Nat /\ Len(batch) \in Nat /\ Len(rules) \in Nat /\ Len(cep_rules) \in Nat /\ Handled \in Nat
  BY <1>2, Lengths DEF Numbered
<1>4. e \in Event /\ e.id = recorded /\ e.nrules = Len(rules) /\ e.ncep = Len(cep_rules) /\ recorded \in Nat
  BY <1>2, <1>3 DEF Event, TypeOK
<1> HIDE DEF e
<1>5. /\ ring' \in Seq(Event) /\ Len(ring') = Len(ring) + 1 /\ ring'[Len(ring) + 1] = e
      /\ \A i \in 1..Len(ring) : ring'[i] = ring[i]
  <2>1. ring \in Seq(Event)
    BY <1>2 DEF TypeOK
  <2> QED
    BY <1>1, <1>4, <2>1, AppendFacts
<1>6. Handled' = Handled
  BY <1>1, <1>3, <1>4, <1>5 DEF Handled
<1>7. Handled + Len(batch) + Len(ring) = recorded
  BY <1>3, <1>4 DEF Handled
<1>8. TypeOK'
  BY <1>1, <1>2, <1>4, <1>5 DEF TypeOK
<1>9. Numbered'
  <2>1. ASSUME NEW j \in 1..Len(ring')
        PROVE  ring'[j].id = Handled + Len(batch) + j - 1
    <3>1. CASE j = Len(ring) + 1
      BY <1>3, <1>4, <1>5, <1>7, <3>1
    <3>2. CASE j # Len(ring) + 1
      <4>1. j \in 1..Len(ring)
        BY <1>3, <1>5, <3>2
      <4> QED
        BY <1>2, <1>5, <4>1 DEF Numbered
    <3> QED
      BY <3>1, <3>2
  <2> QED
    BY <1>1, <1>2, <1>6, <2>1 DEF Numbered
<1>10. Filed'
  BY <1>1, <1>2, <1>6, FiledKept
<1>11. n' = n /\ m' = m /\ Now' = Now
  BY <1>1, <1>6 DEF n, m, Now
<1>12. RulesKnown'
  <2>1. ASSUME NEW j \in 1..Len(ring')
        PROVE  ring'[j].nrules <= Len(rules) /\ ring'[j].ncep <= Len(cep_rules)
    <3>1. CASE j = Len(ring) + 1
      BY <1>3, <1>4, <1>5, <3>1
    <3>2. CASE j # Len(ring) + 1
      <4>1. j \in 1..Len(ring)
        BY <1>3, <1>5, <3>2
      <4> QED
        BY <1>2, <1>5, <4>1 DEF RulesKnown
    <3> QED
      BY <3>1, <3>2
  <2> QED
    BY <1>1, <1>2, <1>11, <2>1 DEF RulesKnown
<1>13. Position'
  BY <1>1, <1>2, <1>11 DEF Position
<1>14. Before' /\ EvaluatedOnce'
  BY <1>1, <1>2, <1>11, EvaluationKept
<1> QED
  BY <1>8, <1>9, <1>10, <1>12, <1>13, <1>14 DEF Accounts

(* add_rule: there is one rule more. *)
LEMMA AddRuleStep ==
    ASSUME Accounts, NEW kind \in Kinds, AddRule(kind)
    PROVE  Accounts'
<1>1. /\ Len(rules) < MaxRules /\ rules' = Append(rules, kind)
      /\ ring' = ring /\ recorded' = recorded /\ batch' = batch /\ cep_rules' = cep_rules /\ wpc' = wpc
      /\ written' = written /\ lost' = lost /\ rules_snapshot' = rules_snapshot /\ cep_snapshot' = cep_snapshot
      /\ ei' = ei /\ ri' = ri /\ windows' = windows /\ signalled' = signalled
  BY DEF AddRule, evalVars
<1>2. TypeOK /\ Numbered /\ Filed /\ RulesKnown /\ Position /\ Before /\ EvaluatedOnce
  BY DEF Accounts
<1>3. rules \in Seq(Kinds) /\ rules' \in Seq(Kinds) /\ Len(rules') = Len(rules) + 1 /\ Len(rules) \in Nat
  BY <1>1, <1>2 DEF TypeOK
<1>4. Handled' = Handled /\ n' = n /\ m' = m
  BY <1>1 DEF Handled, n, m
<1>5. Now' = Now
  BY <1>1, <1>4 DEF Now
<1>6. TypeOK' /\ Numbered' /\ Position'
  BY <1>1, <1>2, <1>3, <1>4 DEF TypeOK, Numbered, Position
<1>7. Filed'
  BY <1>1, <1>2, <1>4, FiledKept
<1>8. RulesKnown'
  <2>1. /\ \A j \in 1..Len(ring) : ring[j].nrules <= Len(rules)
        /\ \A j \in 1..Len(batch) : batch[j].nrules <= Len(rules)
    BY <1>2 DEF RulesKnown
  <2>2. /\ \A j \in 1..Len(ring) : ring[j].nrules \in Nat
        /\ \A j \in 1..Len(batch) : batch[j].nrules \in Nat
    BY <1>2, KnownTypes
  <2>3. /\ \A j \in 1..Len(ring) : ring[j].nrules <= Len(rules')
        /\ \A j \in 1..Len(batch) : batch[j].nrules <= Len(rules')
        /\ Len(rules') <= MaxRules
    BY <1>1, <1>3, <2>1, <2>2, BoundsAssumption
  <2> QED
    BY <1>1, <1>2, <1>4, <2>3 DEF RulesKnown
<1>9. Before' /\ EvaluatedOnce'
  BY <1>1, <1>2, <1>5, EvaluationKept
<1> QED
  BY <1>6, <1>7, <1>8, <1>9 DEF Accounts

(* add_cep_rule: there is one CEP rule more, with an empty window. *)
LEMMA AddCepRuleStep ==
    ASSUME Accounts, NEW kind \in Kinds, AddCepRule(kind)
    PROVE  Accounts'
<1>1. /\ cep_rules' = Append(cep_rules, kind) /\ windows' = Append(windows, <<>>)
      /\ ring' = ring /\ recorded' = recorded /\ batch' = batch /\ rules' = rules /\ wpc' = wpc
      /\ written' = written /\ lost' = lost /\ rules_snapshot' = rules_snapshot /\ cep_snapshot' = cep_snapshot
      /\ ei' = ei /\ ri' = ri /\ signalled' = signalled
  BY DEF AddCepRule
<1>2. TypeOK /\ Numbered /\ Filed /\ RulesKnown /\ Position /\ Before /\ EvaluatedOnce
  BY DEF Accounts
<1>3. cep_rules' \in Seq(Kinds) /\ Len(cep_rules') = Len(cep_rules) + 1 /\ Len(cep_rules) \in Nat
  BY <1>1, <1>2 DEF TypeOK
<1>4. /\ windows' \in Seq(Seq(Nat)) /\ Len(windows') = Len(windows) + 1 /\ windows'[Len(windows) + 1] = <<>>
      /\ Len(windows) \in Nat /\ \A j \in 1..Len(windows) : windows'[j] = windows[j]
  <2>1. windows \in Seq(Seq(Nat)) /\ <<>> \in Seq(Nat)
    BY <1>2 DEF TypeOK
  <2> QED
    BY <1>1, <2>1, AppendFacts
<1>5. Handled' = Handled /\ n' = n /\ m' = m
  BY <1>1 DEF Handled, n, m
<1>6. Now' = Now /\ Rank' = Rank
  BY <1>1, <1>5 DEF Now, Rank
<1>7. TypeOK' /\ Numbered' /\ Position'
  BY <1>1, <1>2, <1>3, <1>4, <1>5 DEF TypeOK, Numbered, Position
<1>8. Filed'
  BY <1>1, <1>2, <1>5, FiledKept
<1>9. RulesKnown'
  <2>1. /\ \A j \in 1..Len(ring) : ring[j].ncep <= Len(cep_rules)
        /\ \A j \in 1..Len(batch) : batch[j].ncep <= Len(cep_rules)
        /\ Len(windows) = Len(cep_rules) /\ m <= Len(cep_rules)
    BY <1>2 DEF RulesKnown
  <2>2. /\ \A j \in 1..Len(ring) : ring[j].ncep \in Nat
        /\ \A j \in 1..Len(batch) : batch[j].ncep \in Nat
        /\ m \in Nat
    BY <1>2, KnownTypes, Lengths
  <2>3. /\ \A j \in 1..Len(ring) : ring[j].ncep <= Len(cep_rules')
        /\ \A j \in 1..Len(batch) : batch[j].ncep <= Len(cep_rules')
        /\ Len(windows') = Len(cep_rules') /\ m <= Len(cep_rules')
    BY <1>3, <1>4, <2>1, <2>2
  <2> QED
    BY <1>1, <1>2, <1>5, <2>3 DEF RulesKnown
<1>10. Before'
  <2>1. ASSUME NEW j \in 1..Len(windows'), NEW k \in 1..Len(windows'[j])
        PROVE  windows'[j][k] < Now' \/ (windows'[j][k] = Now' /\ wpc' = "evaluate" /\ ri' > n' + j)
    <3>1. j # Len(windows) + 1
      <4>1. Len(<<>>) = 0 /\ k \in 1..Len(windows'[j])
        OBVIOUS
      <4> QED
        BY <1>4, <4>1
    <3>2. j \in 1..Len(windows) /\ windows'[j] = windows[j]
      <4>1. Len(windows') = Len(windows) + 1 /\ Len(windows) \in Nat
        BY <1>4
      <4>2. j \in 1..Len(windows)
        BY <3>1, <4>1
      <4> QED
        BY <1>4, <4>2
    <3>3. windows[j][k] < Now \/ (windows[j][k] = Now /\ wpc = "evaluate" /\ ri > n + j)
      BY <1>2, <3>2 DEF Before
    <3> QED
      BY <1>1, <1>5, <1>6, <3>2, <3>3
  <2>2. \A k \in 1..Len(signalled) :
           \/ signalled[k][1] < Now
           \/ signalled[k][1] = Now /\ wpc = "evaluate" /\ ri > 1 /\ signalled[k][2] < Rank
    BY <1>2 DEF Before
  <2>3. \A k \in 1..Len(signalled') :
           \/ signalled'[k][1] < Now'
           \/ signalled'[k][1] = Now' /\ wpc' = "evaluate" /\ ri' > 1 /\ signalled'[k][2] < Rank'
    BY <1>1, <1>6, <2>2
  <2> QED
    BY <2>1, <2>3 DEF Before
<1>11. EvaluatedOnce'
  <2>1. ASSUME NEW j \in DOMAIN windows'
        PROVE  Increasing(windows'[j])
    <3>1. j \in 1..(Len(windows) + 1) /\ DOMAIN windows = 1..Len(windows)
      BY <1>2, <1>4 DEF TypeOK
    <3>2. CASE j = Len(windows) + 1
      BY <1>4, <3>2 DEF Increasing
    <3>3. CASE j # Len(windows) + 1
      <4>1. j \in 1..Len(windows) /\ windows'[j] = windows[j]
        BY <1>4, <3>1, <3>3
      <4> QED
        BY <1>2, <3>1, <4>1 DEF EvaluatedOnce
    <3> QED
      BY <3>2, <3>3
  <2> QED
    BY <1>1, <1>2, <2>1 DEF EvaluatedOnce
<1> QED
  BY <1>7, <1>8, <1>9, <1>10, <1>11 DEF Accounts

(* One event moves from the ring to the worker's batch. *)
LEMMA PopEventStep ==
    ASSUME Accounts, PopEvent
    PROVE  Accounts'
<1>1. /\ wpc = "top" /\ ring # <<>> /\ batch' = Append(batch, Head(ring)) /\ ring' = Tail(ring)
      /\ recorded' = recorded /\ rules' = rules /\ cep_rules' = cep_rules /\ wpc' = wpc
      /\ written' = written /\ lost' = lost /\ rules_snapshot' = rules_snapshot /\ cep_snapshot' = cep_snapshot
      /\ ei' = ei /\ ri' = ri /\ windows' = windows /\ signalled' = signalled
  BY DEF PopEvent, appVars, evalVars
<1>2. TypeOK /\ Numbered /\ Filed /\ RulesKnown /\ Before /\ EvaluatedOnce
  BY DEF Accounts
<1>3. ring \in Seq(Event) /\ batch \in Seq(Event) /\ recorded \in Nat
  BY <1>2 DEF TypeOK
<1>4. /\ Len(ring) \in Nat \ {0} /\ Head(ring) \in Event /\ Head(ring) = ring[1]
      /\ ring' \in Seq(Event) /\ Len(ring') = Len(ring) - 1
      /\ \A i \in 1..(Len(ring) - 1) : ring'[i] = ring[i + 1]
  BY <1>1, <1>3, TailFacts
<1>5. /\ batch' \in Seq(Event) /\ Len(batch) \in Nat /\ Len(batch') = Len(batch) + 1
      /\ batch'[Len(batch) + 1] = ring[1]
      /\ \A i \in 1..Len(batch) : batch'[i] = batch[i]
  BY <1>1, <1>3, <1>4, AppendFacts
<1>6. Handled' = Handled /\ Handled \in Nat
  <2>1. Handled' = recorded - (Len(ring) - 1) - (Len(batch) + 1)
    BY <1>1, <1>4, <1>5 DEF Handled
  <2>2. Handled = recorded - Len(ring) - Len(batch)
    BY DEF Handled
  <2> QED
    BY <1>2, <1>3, <1>4, <1>5, <2>1, <2>2 DEF Numbered
<1>7. n' = n /\ m' = m /\ Now' = Now
  BY <1>1, <1>6 DEF n, m, Now
<1>8. TypeOK'
  BY <1>1, <1>2, <1>4, <1>5 DEF TypeOK
<1>9. 1 \in 1..Len(ring)
  BY <1>4
<1>10. Numbered'
  <2>1. ASSUME NEW j \in 1..Len(batch')
        PROVE  batch'[j].id = Handled + j - 1
    <3>1. CASE j = Len(batch) + 1
      <4>1. ring[1].id = Handled + Len(batch) + 1 - 1
        BY <1>2, <1>9 DEF Numbered
      <4> QED
        BY <1>5, <1>6, <3>1, <4>1
    <3>2. CASE j # Len(batch) + 1
      <4>1. j \in 1..Len(batch)
        BY <1>5, <3>2
      <4> QED
        BY <1>2, <1>5, <4>1 DEF Numbered
    <3> QED
      BY <3>1, <3>2
  <2>2. ASSUME NEW j \in 1..Len(ring')
        PROVE  ring'[j].id = Handled + Len(batch') + j - 1
    <3>1. j \in 1..(Len(ring) - 1) /\ j + 1 \in 1..Len(ring) /\ j \in Nat
      BY <1>4
    <3>2. ring[j + 1].id = Handled + Len(batch) + (j + 1) - 1
      BY <1>2, <3>1 DEF Numbered
    <3> QED
      BY <1>4, <1>5, <1>6, <3>1, <3>2
  <2> QED
    BY <1>6, <2>1, <2>2 DEF Numbered
<1>11. Filed'
  BY <1>1, <1>2, <1>6, FiledKept
<1>12. RulesKnown'
  <2>1. ASSUME NEW j \in 1..Len(batch')
        PROVE  batch'[j].nrules <= Len(rules) /\ batch'[j].ncep <= Len(cep_rules)
    <3>1. CASE j = Len(batch) + 1
      BY <1>2, <1>5, <1>9, <3>1 DEF RulesKnown
    <3>2. CASE j # Len(batch) + 1
      <4>1. j \in 1..Len(batch)
        BY <1>5, <3>2
      <4> QED
        BY <1>2, <1>5, <4>1 DEF RulesKnown
    <3> QED
      BY <3>1, <3>2
  <2>2. ASSUME NEW j \in 1..Len(ring')
        PROVE  ring'[j].nrules <= Len(rules) /\ ring'[j].ncep <= Len(cep_rules)
    <3>1. j \in 1..(Len(ring) - 1) /\ j + 1 \in 1..Len(ring)
      BY <1>4
    <3> QED
      BY <1>2, <1>4, <3>1 DEF RulesKnown
  <2> QED
    BY <1>1, <1>2, <1>7, <2>1, <2>2 DEF RulesKnown
<1>13. Position'
  BY <1>1 DEF Position
<1>14. Before' /\ EvaluatedOnce'
  BY <1>1, <1>2, <1>7, EvaluationKept
<1> QED
  BY <1>8, <1>10, <1>11, <1>12, <1>13, <1>14 DEF Accounts

(* The worker copies the rules: all that the events of the batch know. *)
LEMMA SnapshotRulesStep ==
    ASSUME Accounts, SnapshotRules
    PROVE  Accounts'
<1>1. /\ wpc = "rules" /\ wpc' = "cep_rules" /\ rules_snapshot' = rules
      /\ ring' = ring /\ recorded' = recorded /\ batch' = batch /\ rules' = rules /\ cep_rules' = cep_rules
      /\ written' = written /\ lost' = lost /\ cep_snapshot' = cep_snapshot
      /\ ei' = ei /\ ri' = ri /\ windows' = windows /\ signalled' = signalled
  BY DEF SnapshotRules, appVars
<1>2. TypeOK /\ Numbered /\ Filed /\ RulesKnown /\ Before /\ EvaluatedOnce
  BY DEF Accounts
<1>3. Handled' = Handled /\ n' = Len(rules) /\ m' = m
  BY <1>1 DEF Handled, n, m
<1>4. Now' = Now
  BY <1>1, <1>3 DEF Now
<1>5. TypeOK' /\ Numbered' /\ Position'
  BY <1>1, <1>2, <1>3 DEF TypeOK, Numbered, Position
<1>6. Filed'
  BY <1>1, <1>2, <1>3, FiledKept
<1>7. RulesKnown'
  BY <1>1, <1>2, <1>3 DEF RulesKnown
<1>8. Before' /\ EvaluatedOnce'
  BY <1>1, <1>2, <1>4, EvaluationKept
<1> QED
  BY <1>5, <1>6, <1>7, <1>8 DEF Accounts

(* It copies the CEP rules and starts with the first event. *)
LEMMA SnapshotCepRulesStep ==
    ASSUME Accounts, SnapshotCepRules
    PROVE  Accounts'
<1>1. /\ wpc = "cep_rules" /\ wpc' = "evaluate" /\ cep_snapshot' = cep_rules /\ ei' = 1 /\ ri' = 1
      /\ ring' = ring /\ recorded' = recorded /\ batch' = batch /\ rules' = rules /\ cep_rules' = cep_rules
      /\ written' = written /\ lost' = lost /\ rules_snapshot' = rules_snapshot
      /\ windows' = windows /\ signalled' = signalled
  BY DEF SnapshotCepRules, appVars
<1>2. TypeOK /\ Numbered /\ Filed /\ RulesKnown /\ Before /\ EvaluatedOnce
  BY DEF Accounts
<1>3. Handled' = Handled /\ n' = n /\ m' = Len(cep_rules)
  BY <1>1 DEF Handled, n, m
<1>4. /\ Handled \in Nat /\ n \in Nat /\ Len(batch) \in Nat /\ Len(cep_rules) \in Nat
  BY <1>2, Lengths DEF Numbered
<1>5. Now' = Now
  BY <1>1, <1>3, <1>4 DEF Now
<1>6. TypeOK' /\ Numbered'
  BY <1>1, <1>2, <1>3 DEF TypeOK, Numbered
<1>7. Position'
  <2>1. 1 \in 1..(Len(batch) + 1) /\ 1 \in 1..(n + Len(cep_rules) + 1)
    BY <1>4
  <2> QED
    BY <1>1, <1>3, <2>1 DEF Position
<1>8. Filed'
  BY <1>1, <1>2, <1>3, FiledKept
<1>9. RulesKnown'
  <2>1. /\ n' <= MaxRules /\ m' <= Len(cep_rules')
    BY <1>1, <1>2, <1>3, <1>4 DEF RulesKnown
  <2> QED
    BY <1>1, <1>2, <1>3, <2>1 DEF RulesKnown
<1>10. Before' /\ EvaluatedOnce'
  BY <1>1, <1>2, <1>5, EvaluationKept
<1> QED
  BY <1>6, <1>7, <1>8, <1>9, <1>10 DEF Accounts

(* One match more, at the end, keeps the matches in order. *)
LEMMA SignalAdded ==
    ASSUME NEW s \in Seq(Nat \X Nat), Ordered(s), NEW x \in Nat, NEW r \in Nat,
           \A k \in 1..Len(s) : s[k][1] < x \/ (s[k][1] = x /\ s[k][2] < r),
           NEW t, t = s \/ t = Append(s, <<x, r>>)
    PROVE  /\ t \in Seq(Nat \X Nat) /\ Ordered(t)
           /\ \A k \in 1..Len(t) : t[k][1] < x \/ (t[k][1] = x /\ t[k][2] <= r)
<1>1. \A k \in 1..Len(s) : s[k][1] \in Nat /\ s[k][2] \in Nat
  <2>1. \A k \in 1..Len(s) : s[k] \in Nat \X Nat
    OBVIOUS
  <2> QED
    BY <2>1
<1>2. CASE t = s
  <2>1. ASSUME NEW k \in 1..Len(s)
        PROVE  s[k][1] < x \/ (s[k][1] = x /\ s[k][2] <= r)
    BY <1>1
  <2> QED
    BY <1>2, <2>1
<1>3. CASE t = Append(s, <<x, r>>)
  <2>1. /\ t \in Seq(Nat \X Nat) /\ Len(s) \in Nat /\ Len(t) = Len(s) + 1 /\ t[Len(s) + 1] = <<x, r>>
        /\ \A i \in 1..Len(s) : t[i] = s[i]
    BY <1>3, AppendFacts
  <2>2. DOMAIN t = 1..(Len(s) + 1) /\ DOMAIN s = 1..Len(s)
    BY <2>1
  <2>0. \A k \in 1..(Len(s) + 1) : k # Len(s) + 1 => k \in 1..Len(s)
    <3>1. Len(s) \in Nat
      BY <2>1
    <3> QED
      BY <3>1
  <2>3. ASSUME NEW k \in 1..Len(t)
        PROVE  t[k][1] < x \/ (t[k][1] = x /\ t[k][2] <= r)
    <3>1. CASE k = Len(s) + 1
      BY <2>1, <3>1
    <3>2. CASE k # Len(s) + 1
      <4>1. k \in 1..Len(s)
        BY <2>0, <2>1, <3>2
      <4>2. t[k] = s[k]
        BY <2>1, <4>1
      <4>3. s[k][1] < x \/ (s[k][1] = x /\ s[k][2] < r)
        BY <4>1
      <4>4. s[k][2] \in Nat
        BY <1>1, <4>1
      <4> QED
        BY <4>2, <4>3, <4>4
    <3> QED
      BY <3>1, <3>2
  <2>4. ASSUME NEW i \in 1..(Len(s) + 1), NEW j \in 1..(Len(s) + 1), i < j
        PROVE  t[i][1] < t[j][1] \/ (t[i][1] = t[j][1] /\ t[i][2] < t[j][2])
    <3>1. i \in 1..Len(s) /\ t[i] = s[i]
      <4>1. Len(s) \in Nat
        BY <2>1
      <4>2. i \in 1..Len(s)
        BY <2>4, <4>1
      <4> QED
        BY <2>1, <4>2
    <3>2. CASE j = Len(s) + 1
      <4>1. t[j][1] = x /\ t[j][2] = r
        BY <2>1, <3>2
      <4> QED
        BY <3>1, <4>1
    <3>3. CASE j # Len(s) + 1
      <4>1. j \in 1..Len(s)
        BY <2>0, <3>3
      <4>2. t[j] = s[j]
        BY <2>1, <4>1
      <4>3. s[i][1] < s[j][1] \/ (s[i][1] = s[j][1] /\ s[i][2] < s[j][2])
        BY <2>2, <2>4, <3>1, <4>1 DEF Ordered
      <4> QED
        BY <3>1, <4>2, <4>3
    <3> QED
      BY <3>2, <3>3
  <2> QED
    BY <2>1, <2>2, <2>3, <2>4 DEF Ordered
<1> QED
  BY <1>2, <1>3

(* The event under evaluation carries the number Now. *)
LEMMA UnderEvaluation ==
    ASSUME TypeOK, Numbered, Position, wpc = "evaluate", ei <= Len(batch)
    PROVE  /\ ei \in 1..Len(batch) /\ batch[ei].id = Now /\ Now \in Nat /\ Now = Handled + ei - 1
           /\ Handled \in Nat /\ Len(batch) \in Nat /\ n \in Nat /\ m \in Nat
           /\ ri \in 1..(n + m + 1)
<1>1. ei \in 1..(Len(batch) + 1) /\ ri \in 1..(n + m + 1)
  BY DEF Position
<1>2. Handled \in Nat /\ Len(batch) \in Nat /\ n \in Nat /\ m \in Nat
  BY Lengths DEF Numbered
<1>3. ei \in 1..Len(batch)
  BY <1>1, <1>2
<1>4. batch[ei].id = Handled + ei - 1
  BY <1>3 DEF Numbered
<1>5. Now = Handled + ei - 1
  BY DEF Now
<1>6. Now \in Nat
  BY <1>2, <1>3, <1>5
<1> QED
  BY <1>1, <1>2, <1>3, <1>4, <1>5, <1>6

(* Where the matches stand before one more is added. *)
LEMMA SignalsBefore ==
    ASSUME TypeOK, Before
    PROVE  /\ signalled \in Seq(Nat \X Nat)
           /\ \A k \in 1..Len(signalled) :
                 signalled[k][1] < Now \/ (signalled[k][1] = Now /\ signalled[k][2] < Rank)
  BY DEF TypeOK, Before

(* evaluate_rules, one rule. *)
LEMMA EvaluateRuleStep ==
    ASSUME Accounts, EvaluateRule
    PROVE  Accounts'
<1>1. /\ wpc = "evaluate" /\ ei <= Len(batch) /\ ri <= n /\ ri' = ri + 1
      /\ ring' = ring /\ recorded' = recorded /\ batch' = batch /\ rules' = rules /\ cep_rules' = cep_rules
      /\ written' = written /\ lost' = lost /\ rules_snapshot' = rules_snapshot /\ cep_snapshot' = cep_snapshot
      /\ ei' = ei /\ windows' = windows /\ wpc' = wpc
      /\ signalled' = signalled \/ signalled' = Append(signalled, <<batch[ei].id, ri>>)
  BY DEF EvaluateRule, PushSignal, appVars
<1>2. TypeOK /\ Numbered /\ Filed /\ RulesKnown /\ Position /\ Before /\ EvaluatedOnce
  BY DEF Accounts
<1>3. /\ ei \in 1..Len(batch) /\ batch[ei].id = Now /\ Now \in Nat
      /\ n \in Nat /\ m \in Nat /\ ri \in 1..(n + m + 1)
  BY <1>1, <1>2, UnderEvaluation
<1>4. Handled' = Handled /\ n' = n /\ m' = m
  BY <1>1 DEF Handled, n, m
<1>5. Now' = Now
  BY <1>1, <1>4 DEF Now
<1>6. Rank = ri /\ ri \in Nat
  BY <1>1, <1>3 DEF Rank
<1>7. Rank' \in Nat /\ Rank' > ri
  <2>1. n <= MaxRules /\ MaxRules \in Nat
    BY <1>2, BoundsAssumption DEF RulesKnown
  <2>2. Rank' = IF ri + 1 <= n THEN ri + 1 ELSE MaxRules + (ri + 1) - n
    BY <1>1, <1>4 DEF Rank
  <2> QED
    BY <1>1, <1>3, <1>6, <2>1, <2>2
<1>8. /\ signalled' \in Seq(Nat \X Nat) /\ Ordered(signalled')
      /\ \A k \in 1..Len(signalled') :
            signalled'[k][1] < Now \/ (signalled'[k][1] = Now /\ signalled'[k][2] <= ri)
  <2>1. signalled \in Seq(Nat \X Nat)
    BY <1>2 DEF TypeOK
  <2>4. Ordered(signalled)
    BY <1>2 DEF EvaluatedOnce, Ordered
  <2>5. Now \in Nat
    BY <1>3
  <2>6. ri \in Nat
    BY <1>6
  <2>2. \A k \in 1..Len(signalled) :
           signalled[k][1] < Now \/ (signalled[k][1] = Now /\ signalled[k][2] < ri)
    BY <1>2, <1>6, SignalsBefore
  <2>3. signalled' = signalled \/ signalled' = Append(signalled, <<Now, ri>>)
    BY <1>1, <1>3
  <2> QED
    BY <2>1, <2>2, <2>3, <2>4, <2>5, <2>6, SignalAdded
<1>9. TypeOK' /\ Numbered'
  BY <1>1, <1>2, <1>4, <1>6, <1>8 DEF TypeOK, Numbered
<1>10. Filed' /\ RulesKnown'
  <2>1. Filed'
    BY <1>1, <1>2, <1>4, FiledKept
  <2>2. RulesKnown'
    BY <1>1, <1>2, <1>4 DEF RulesKnown
  <2> QED
    BY <2>1, <2>2
<1>11. Position'
  <2>1. Len(batch) \in Nat
    BY <1>2, Lengths
  <2>2. ei \in 1..(Len(batch) + 1) /\ ei # Len(batch) + 1
    BY <1>3, <2>1
  <2>3. ri + 1 \in 1..(n + m + 1)
    <3>1. ri <= n
      BY <1>1
    <3> QED
      BY <1>3, <3>1
  <2> QED
    BY <1>1, <1>4, <2>2, <2>3 DEF Position
<1>12. Before'
  <2>1. ASSUME NEW j \in 1..Len(windows'), NEW k \in 1..Len(windows'[j])
        PROVE  windows'[j][k] < Now' \/ (windows'[j][k] = Now' /\ wpc' = "evaluate" /\ ri' > n' + j)
    <3>1. j \in 1..Len(windows) /\ k \in 1..Len(windows[j])
      BY <1>1
    <3>2. windows[j][k] < Now \/ (windows[j][k] = Now /\ wpc = "evaluate" /\ ri > n + j)
      BY <1>2, <3>1 DEF Before
    <3>3. j \in Nat
      BY <1>2, <3>1, Lengths
    <3>4. ri > n + j => ri + 1 > n + j
      BY <1>3, <1>6, <3>3
    <3> QED
      BY <1>1, <1>4, <1>5, <3>2, <3>4
  <2>2. ASSUME NEW k \in 1..Len(signalled')
        PROVE  \/ signalled'[k][1] < Now'
               \/ signalled'[k][1] = Now' /\ wpc' = "evaluate" /\ ri' > 1 /\ signalled'[k][2] < Rank'
    <3>1. signalled'[k] \in Nat \X Nat
      BY <1>8
    <3>2. signalled'[k][2] \in Nat /\ ri' > 1
      BY <1>1, <1>3, <3>1
    <3>3. signalled'[k][2] <= ri => signalled'[k][2] < Rank'
      BY <1>6, <1>7, <3>2
    <3> QED
      BY <1>1, <1>5, <1>8, <3>2, <3>3
  <2> QED
    BY <2>1, <2>2 DEF Before
<1>13. EvaluatedOnce'
  BY <1>1, <1>2, <1>8 DEF EvaluatedOnce, Ordered
<1> QED
  BY <1>9, <1>10, <1>11, <1>12, <1>13 DEF Accounts

(* evaluate_cep_rules, one rule: the event may enter the rule's window and  *)
(* may be a match.                                                         *)
LEMMA EvaluateCepRuleStep ==
    ASSUME Accounts, EvaluateCepRule
    PROVE  Accounts'
<1> DEFINE c == ri - n
<1>1. /\ wpc = "evaluate" /\ ei <= Len(batch) /\ ri \in (n + 1)..(n + m) /\ ri' = ri + 1
      /\ ring' = ring /\ recorded' = recorded /\ batch' = batch /\ rules' = rules /\ cep_rules' = cep_rules
      /\ written' = written /\ lost' = lost /\ rules_snapshot' = rules_snapshot /\ cep_snapshot' = cep_snapshot
      /\ ei' = ei /\ wpc' = wpc
  BY DEF EvaluateCepRule, appVars
<1>2. \/ windows' = windows
      \/ windows' = [windows EXCEPT ![c] = Append(windows[c], batch[ei].id)]
  BY DEF EvaluateCepRule
<1>3. signalled' = signalled \/ signalled' = Append(signalled, <<batch[ei].id, MaxRules + ri - n>>)
  BY DEF EvaluateCepRule, PushSignal
<1>4. TypeOK /\ Numbered /\ Filed /\ RulesKnown /\ Position /\ Before /\ EvaluatedOnce
  BY DEF Accounts
<1>5. /\ ei \in 1..Len(batch) /\ batch[ei].id = Now /\ Now \in Nat
      /\ n \in Nat /\ m \in Nat
  BY <1>1, <1>4, UnderEvaluation
<1>6. Handled' = Handled /\ n' = n /\ m' = m
  BY <1>1 DEF Handled, n, m
<1>7. Now' = Now
  BY <1>1, <1>6 DEF Now
<1>8. ri \in Nat /\ ri > n /\ ri <= n + m
  BY <1>1, <1>5
<1>9. MaxRules \in Nat
  BY BoundsAssumption
<1>10. /\ Rank = MaxRules + ri - n /\ Rank \in Nat
  <2>1. Rank = MaxRules + ri - n
    BY <1>5, <1>8 DEF Rank
  <2> QED
    BY <1>5, <1>8, <1>9, <2>1
<1>11. Rank' = Rank + 1
  <2>1. Rank' = IF ri + 1 <= n THEN ri + 1 ELSE MaxRules + (ri + 1) - n
    BY <1>1, <1>6 DEF Rank
  <2> QED
    BY <1>5, <1>8, <1>9, <1>10, <2>1
<1>12. /\ signalled' \in Seq(Nat \X Nat) /\ Ordered(signalled')
       /\ \A k \in 1..Len(signalled') :
             signalled'[k][1] < Now \/ (signalled'[k][1] = Now /\ signalled'[k][2] <= Rank)
  <2>1. signalled \in Seq(Nat \X Nat)
    BY <1>4 DEF TypeOK
  <2>2. \A k \in 1..Len(signalled) :
           signalled[k][1] < Now \/ (signalled[k][1] = Now /\ signalled[k][2] < Rank)
    BY <1>4, SignalsBefore
  <2>3. signalled' = signalled \/ signalled' = Append(signalled, <<Now, Rank>>)
    BY <1>3, <1>5, <1>10
  <2>4. Ordered(signalled)
    BY <1>4 DEF EvaluatedOnce, Ordered
  <2>5. Now \in Nat
    BY <1>5
  <2>6. Rank \in Nat
    BY <1>10
  <2> QED
    BY <2>1, <2>2, <2>3, <2>4, <2>5, <2>6, SignalAdded
<1>13. c \in 1..Len(windows) /\ Len(windows) \in Nat /\ c \in Nat
  <2>1. m <= Len(windows)
    BY <1>4 DEF RulesKnown
  <2>2. Len(windows) \in Nat
    BY <1>4, Lengths
  <2> QED
    BY <1>5, <1>8, <2>1, <2>2
<1>14. ri = n + c
  BY <1>5, <1>8
<1> HIDE DEF c
<1>15. windows \in Seq(Seq(Nat)) /\ DOMAIN windows = 1..Len(windows) /\ windows[c] \in Seq(Nat)
  BY <1>4, <1>13 DEF TypeOK
<1>16. \A k \in 1..Len(windows[c]) : windows[c][k] < Now
  <2>1. ~(ri > n + c)
    BY <1>8, <1>14
  <2> QED
    BY <1>4, <1>13, <2>1 DEF Before
<1>17. /\ windows' \in Seq(Seq(Nat)) /\ Len(windows') = Len(windows)
       /\ \A j \in 1..Len(windows) : j # c => windows'[j] = windows[j]
       /\ windows'[c] = windows[c] \/ windows'[c] = Append(windows[c], Now)
  <2>1. Append(windows[c], Now) \in Seq(Nat)
    BY <1>5, <1>15
  <2>2. CASE windows' = windows
    BY <1>15, <2>2
  <2>3. CASE windows' = [windows EXCEPT ![c] = Append(windows[c], Now)]
    BY <1>13, <1>15, <2>1, <2>3
  <2> QED
    BY <1>2, <1>5, <2>2, <2>3
<1>18. TypeOK' /\ Numbered'
  <2>1. ri + 1 \in Nat
    BY <1>8
  <2> QED
    BY <1>1, <1>4, <1>6, <1>12, <1>17, <2>1 DEF TypeOK, Numbered
<1>19. Filed' /\ RulesKnown'
  <2>1. Filed'
    BY <1>1, <1>4, <1>6, FiledKept
  <2>2. RulesKnown'
    BY <1>1, <1>4, <1>6, <1>17 DEF RulesKnown
  <2> QED
    BY <2>1, <2>2
<1>20. Position'
  <2>1. Len(batch) \in Nat
    BY <1>4, Lengths
  <2>2. ei \in 1..(Len(batch) + 1) /\ ei # Len(batch) + 1
    BY <1>5, <2>1
  <2>3. ri + 1 \in 1..(n + m + 1)
    BY <1>5, <1>8
  <2> QED
    BY <1>1, <1>6, <2>2, <2>3 DEF Position
<1>21. Before'
  <2>1. ASSUME NEW j \in 1..Len(windows'), NEW k \in 1..Len(windows'[j])
        PROVE  windows'[j][k] < Now' \/ (windows'[j][k] = Now' /\ wpc' = "evaluate" /\ ri' > n' + j)
    <3>1. j \in 1..Len(windows) /\ j \in Nat
      BY <1>13, <1>17
    <3>2. CASE j # c
      <4>1. windows'[j] = windows[j]
        BY <1>17, <3>1, <3>2
      <4>2. windows[j][k] < Now \/ (windows[j][k] = Now /\ wpc = "evaluate" /\ ri > n + j)
        BY <1>4, <3>1, <4>1 DEF Before
      <4>3. ri > n + j => ri + 1 > n + j
        BY <1>5, <1>8, <3>1
      <4> QED
        BY <1>1, <1>6, <1>7, <4>1, <4>2, <4>3
    <3>3. CASE j = c
      <4>1. windows'[c][k] < Now \/ windows'[c][k] = Now
        <5>1. CASE windows'[c] = windows[c]
          BY <1>16, <3>3, <5>1
        <5>2. CASE windows'[c] = Append(windows[c], Now)
          <6>1. /\ Len(windows'[c]) = Len(windows[c]) + 1 /\ windows'[c][Len(windows[c]) + 1] = Now
                /\ \A i \in 1..Len(windows[c]) : windows'[c][i] = windows[c][i]
            BY <1>5, <1>15, <5>2, AppendFacts
          <6>2. Len(windows[c]) \in Nat /\ k \in 1..(Len(windows[c]) + 1)
            BY <1>15, <3>3, <6>1
          <6>3. k \in 1..Len(windows[c]) \/ k = Len(windows[c]) + 1
            BY <6>2
          <6> QED
            BY <1>16, <6>1, <6>3
        <5> QED
          BY <1>17, <5>1, <5>2
      <4>2. ri + 1 > n + c
        BY <1>8, <1>14
      <4> QED
        BY <1>1, <1>6, <1>7, <3>3, <4>1, <4>2
    <3> QED
      BY <3>2, <3>3
  <2>2. ASSUME NEW k \in 1..Len(signalled')
        PROVE  \/ signalled'[k][1] < Now'
               \/ signalled'[k][1] = Now' /\ wpc' = "evaluate" /\ ri' > 1 /\ signalled'[k][2] < Rank'
    <3>1. signalled'[k] \in Nat \X Nat
      BY <1>12
    <3>2. signalled'[k][2] \in Nat
      BY <3>1
    <3>3. signalled'[k][2] <= Rank => signalled'[k][2] < Rank'
      BY <1>10, <1>11, <3>2
    <3>4. ri' > 1
      BY <1>1, <1>5, <1>8
    <3> QED
      BY <1>1, <1>7, <1>12, <3>3, <3>4
  <2> QED
    BY <2>1, <2>2 DEF Before
<1>22. EvaluatedOnce'
  <2>1. ASSUME NEW j \in DOMAIN windows'
        PROVE  Increasing(windows'[j])
    <3>1. j \in 1..Len(windows) /\ Increasing(windows[j]) /\ Increasing(windows[c])
      <4>1. j \in 1..Len(windows)
        BY <1>17
      <4>2. \A i \in 1..Len(windows) : Increasing(windows[i])
        BY <1>4, <1>15 DEF EvaluatedOnce
      <4> QED
        BY <1>13, <4>1, <4>2
    <3>2. CASE windows'[j] = windows[j]
      BY <3>1, <3>2
    <3>3. CASE windows'[j] # windows[j]
      <4>1. j = c /\ windows'[j] = Append(windows[c], Now)
        BY <1>17, <3>1, <3>3
      <4>2. windows[c] \in Seq(Nat)
        BY <1>15
      <4>3. Now \in Nat
        BY <1>5
      <4>4. Increasing(windows[c])
        BY <3>1
      <4>5. Increasing(Append(windows[c], Now))
        BY <1>16, <4>2, <4>3, <4>4, IncreasingAppend
      <4> QED
        BY <4>1, <4>5
    <3> QED
      BY <3>2, <3>3
  <2> QED
    BY <1>12, <2>1 DEF EvaluatedOnce, Ordered
<1> QED
  BY <1>18, <1>19, <1>20, <1>21, <1>22 DEF Accounts

(* The rules are through with an event. *)
LEMMA NextEventStep ==
    ASSUME Accounts, NextEvent
    PROVE  Accounts'
<1>1. /\ wpc = "evaluate" /\ ei <= Len(batch) /\ ei' = ei + 1 /\ ri' = 1
      /\ ring' = ring /\ recorded' = recorded /\ batch' = batch /\ rules' = rules /\ cep_rules' = cep_rules
      /\ written' = written /\ lost' = lost /\ rules_snapshot' = rules_snapshot /\ cep_snapshot' = cep_snapshot
      /\ windows' = windows /\ signalled' = signalled /\ wpc' = wpc
  BY DEF NextEvent, appVars
<1>2. TypeOK /\ Numbered /\ Filed /\ RulesKnown /\ Position /\ Before /\ EvaluatedOnce
  BY DEF Accounts
<1>3. /\ ei \in 1..Len(batch) /\ Now \in Nat /\ Now = Handled + ei - 1
      /\ Handled \in Nat /\ Len(batch) \in Nat /\ n \in Nat /\ m \in Nat
  BY <1>1, <1>2, UnderEvaluation
<1>4. Handled' = Handled /\ n' = n /\ m' = m
  BY <1>1 DEF Handled, n, m
<1>5. Now' = Now + 1
  <2>1. Now' = Handled + (ei + 1) - 1
    BY <1>1, <1>4 DEF Now
  <2> QED
    BY <1>3, <2>1
<1>6. TypeOK' /\ Numbered'
  <2>1. ei + 1 \in Nat /\ 1 \in Nat
    BY <1>3
  <2> QED
    BY <1>1, <1>2, <1>4, <2>1 DEF TypeOK, Numbered
<1>7. Filed' /\ RulesKnown'
  <2>1. Filed'
    BY <1>1, <1>2, <1>4, FiledKept
  <2>2. RulesKnown'
    BY <1>1, <1>2, <1>4 DEF RulesKnown
  <2> QED
    BY <2>1, <2>2
<1>8. Position'
  <2>1. ei + 1 \in 1..(Len(batch) + 1) /\ 1 \in 1..(n + m + 1)
    BY <1>3
  <2> QED
    BY <1>1, <1>4, <2>1 DEF Position
<1>9. Before'
  <2>1. ASSUME NEW j \in 1..Len(windows), NEW k \in 1..Len(windows[j])
        PROVE  windows[j][k] < Now + 1
    <3>1. windows[j][k] < Now \/ windows[j][k] = Now
      BY <1>2 DEF Before
    <3>2. windows[j] \in Seq(Nat)
      BY <1>2 DEF TypeOK
    <3>3. windows[j][k] \in Nat
      BY <3>2
    <3> QED
      BY <1>3, <3>1, <3>3
  <2>2. ASSUME NEW k \in 1..Len(signalled)
        PROVE  signalled[k][1] < Now + 1
    <3>1. signalled[k][1] < Now \/ signalled[k][1] = Now
      BY <1>2 DEF Before
    <3>2. signalled[k] \in Nat \X Nat
      BY <1>2 DEF TypeOK
    <3>3. signalled[k][1] \in Nat
      BY <3>2
    <3> QED
      BY <1>3, <3>1, <3>3
  <2> QED
    BY <1>1, <1>5, <2>1, <2>2 DEF Before
<1>10. EvaluatedOnce'
  BY <1>1, <1>2 DEF EvaluatedOnce
<1> QED
  BY <1>6, <1>7, <1>8, <1>9, <1>10 DEF Accounts

(* Consecutive numbers. *)
LEMMA RunFacts ==
    ASSUME NEW a \in Nat, NEW c \in Nat, NEW s, s = [j \in 1..c |-> a + j - 1]
    PROVE  /\ s \in Seq(Nat) /\ Len(s) = c /\ Increasing(s) /\ Ids(s) = a..(a + c - 1)
           /\ \A j \in 1..c : s[j] >= a
<1>1. \A j \in 1..c : a + j - 1 \in Nat
  OBVIOUS
<1>2. s \in Seq(Nat) /\ Len(s) = c /\ DOMAIN s = 1..c
  BY <1>1
<1>3. \A j \in 1..c : s[j] = a + j - 1
  OBVIOUS
<1>4. Increasing(s)
  BY <1>2, <1>3 DEF Increasing
<1>5. ASSUME NEW x \in Ids(s)
      PROVE  x \in a..(a + c - 1)
  <2>1. PICK j \in 1..c : x = s[j]
    BY <1>2 DEF Ids
  <2>2. x = a + j - 1
    BY <1>3, <2>1
  <2> QED
    BY <2>2
<1>6. ASSUME NEW x \in a..(a + c - 1)
      PROVE  x \in Ids(s)
  <2>1. x - a + 1 \in 1..c /\ a + (x - a + 1) - 1 = x
    OBVIOUS
  <2>2. s[x - a + 1] = x
    BY <1>3, <2>1
  <2> QED
    BY <1>2, <2>1, <2>2 DEF Ids
<1>7. \A j \in 1..c : s[j] >= a
  BY <1>3
<1> QED
  BY <1>2, <1>4, <1>5, <1>6, <1>7

(* The write, whole or failed half way: the events of the batch join the   *)
(* handled ones, and the evaluation of them is over.                       *)
LEMMA WriteBatchStep ==
    ASSUME Accounts, WriteBatch
    PROVE  Accounts'
<1>1. /\ wpc = "evaluate" /\ ei > Len(batch) /\ batch' = <<>> /\ wpc' = "top"
      /\ rules_snapshot' = <<>> /\ cep_snapshot' = <<>> /\ ei' = 0 /\ ri' = 0
      /\ ring' = ring /\ recorded' = recorded /\ rules' = rules /\ cep_rules' = cep_rules
      /\ windows' = windows /\ signalled' = signalled
  BY DEF WriteBatch, ClearBatch, appVars
<1> DEFINE b == Len(batch)
<1>2. PICK k \in 0..b : /\ written' = written \o [j \in 1..k |-> batch[j].id]
                        /\ lost' = lost \o [j \in 1..(b - k) |-> batch[k + j].id]
  BY DEF WriteBatch
<1>3. TypeOK /\ Numbered /\ Filed /\ RulesKnown /\ Position /\ Before /\ EvaluatedOnce
  BY DEF Accounts
<1>4. /\ Handled \in Nat /\ b \in Nat /\ Len(ring) \in Nat /\ n \in Nat /\ m \in Nat
      /\ Len(written) \in Nat /\ Len(lost) \in Nat /\ Len(windows) \in Nat
  BY <1>3, Lengths DEF Numbered
<1>5. k \in Nat /\ b - k \in Nat /\ k <= b
  BY <1>4
<1>6. \A j \in 1..b : batch[j].id = Handled + j - 1
  BY <1>3 DEF Numbered
<1>7. Len(batch') = 0 /\ n' = 0 /\ m' = 0
  BY <1>1 DEF n, m
<1>8. Handled' = Handled + b
  <2>1. Handled' = recorded - Len(ring) - 0
    BY <1>1, <1>7 DEF Handled
  <2>2. Handled = recorded - Len(ring) - b
    BY DEF Handled
  <2>3. recorded \in Nat
    BY <1>3 DEF TypeOK
  <2> QED
    BY <1>4, <2>1, <2>2, <2>3
<1>9. ei = b + 1 /\ ri = 1
  <2>1. ei \in 1..(b + 1) /\ (ei = b + 1 => ri = 1)
    BY <1>1, <1>3 DEF Position
  <2>2. ei > b
    BY <1>1
  <2> QED
    BY <1>4, <2>1, <2>2
<1>10. Now = Handled + b /\ Now' = Now
  <2>1. Now = Handled + (b + 1) - 1
    BY <1>1, <1>9 DEF Now
  <2>2. Now' = Handled + b
    BY <1>1, <1>8 DEF Now
  <2> QED
    BY <1>4, <2>1, <2>2
<1> DEFINE s == [j \in 1..k |-> Handled + j - 1]
           t == [j \in 1..(b - k) |-> (Handled + k) + j - 1]
<1>11. written' = written \o s
  <2>1. \A j \in 1..k : j \in 1..b
    BY <1>4, <1>5
  <2>2. [j \in 1..k |-> batch[j].id] = s
    BY <1>6, <2>1
  <2> QED
    BY <1>2, <2>2
<1>12. lost' = lost \o t
  <2>1. \A j \in 1..(b - k) : k + j \in 1..b /\ Handled + (k + j) - 1 = (Handled + k) + j - 1
    BY <1>4, <1>5
  <2>2. \A j \in 1..(b - k) : batch[k + j].id = (Handled + k) + j - 1
    BY <1>6, <2>1
  <2>3. [j \in 1..(b - k) |-> batch[k + j].id] = t
    BY <2>2
  <2> QED
    BY <1>2, <2>3
<1>13. /\ s \in Seq(Nat) /\ Len(s) = k /\ Increasing(s) /\ Ids(s) = Handled..(Handled + k - 1)
       /\ \A j \in 1..k : s[j] >= Handled
  <2>1. Handled \in Nat
    BY <1>4
  <2>2. k \in Nat
    BY <1>5
  <2> QED
    BY <2>1, <2>2, RunFacts
<1>14. /\ t \in Seq(Nat) /\ Len(t) = b - k /\ Increasing(t)
       /\ Ids(t) = (Handled + k)..((Handled + k) + (b - k) - 1)
       /\ \A j \in 1..(b - k) : t[j] >= Handled + k
  <2>1. Handled + k \in Nat
    BY <1>4, <1>5
  <2>2. b - k \in Nat
    BY <1>5
  <2> QED
    BY <2>1, <2>2, RunFacts
<1> HIDE DEF s, t
<1>15. /\ written \in Seq(Nat) /\ lost \in Seq(Nat) /\ Increasing(written) /\ Increasing(lost)
       /\ Ids(written) \cup Ids(lost) = 0..(Handled - 1) /\ Len(written) + Len(lost) = Handled
  BY <1>3 DEF TypeOK, Filed
<1>16. /\ \A i \in 1..Len(written) : written[i] \in 0..(Handled - 1)
       /\ \A i \in 1..Len(lost) : lost[i] \in 0..(Handled - 1)
  BY <1>15 DEF Ids
<1>17. Increasing(written')
  <2>1. \A i \in 1..Len(written), j \in 1..Len(s) : written[i] < s[j]
    <3> SUFFICES ASSUME NEW i \in 1..Len(written), NEW j \in 1..Len(s)
                 PROVE  written[i] < s[j]
      OBVIOUS
    <3>1. written[i] \in 0..(Handled - 1) /\ s[j] >= Handled /\ s[j] \in Nat
      BY <1>13, <1>16
    <3> QED
      BY <1>4, <3>1
  <2>2. written \in Seq(Nat)
    BY <1>15
  <2>3. Increasing(written)
    BY <1>15
  <2>4. s \in Seq(Nat)
    BY <1>13
  <2>5. Increasing(s)
    BY <1>13
  <2> QED
    BY <1>11, <2>1, <2>2, <2>3, <2>4, <2>5, IncreasingConcat
<1>18. Increasing(lost')
  <2>1. \A i \in 1..Len(lost), j \in 1..Len(t) : lost[i] < t[j]
    <3> SUFFICES ASSUME NEW i \in 1..Len(lost), NEW j \in 1..Len(t)
                 PROVE  lost[i] < t[j]
      OBVIOUS
    <3>1. lost[i] \in 0..(Handled - 1) /\ t[j] >= Handled + k /\ t[j] \in Nat
      BY <1>14, <1>16
    <3> QED
      BY <1>4, <1>5, <3>1
  <2>2. lost \in Seq(Nat)
    BY <1>15
  <2>3. Increasing(lost)
    BY <1>15
  <2>4. t \in Seq(Nat)
    BY <1>14
  <2>5. Increasing(t)
    BY <1>14
  <2> QED
    BY <1>12, <2>1, <2>2, <2>3, <2>4, <2>5, IncreasingConcat
<1>19. /\ written' \in Seq(Nat) /\ lost' \in Seq(Nat)
       /\ Len(written') = Len(written) + k /\ Len(lost') = Len(lost) + (b - k)
  <2>1. written \in Seq(Nat) /\ s \in Seq(Nat) /\ Len(s) = k
    BY <1>13, <1>15
  <2>2. written' \in Seq(Nat) /\ Len(written') = Len(written) + k
    BY <1>11, <2>1, ConcatFacts
  <2>3. lost \in Seq(Nat) /\ t \in Seq(Nat) /\ Len(t) = b - k
    BY <1>14, <1>15
  <2>4. lost' \in Seq(Nat) /\ Len(lost') = Len(lost) + (b - k)
    BY <1>12, <2>3, ConcatFacts
  <2> QED
    BY <2>2, <2>4
<1>20. Ids(written') \cup Ids(lost') = 0..(Handled' - 1)
  <2>1. Ids(written') = Ids(written) \cup (Handled..(Handled + k - 1))
    BY <1>11, <1>13, <1>15, IdsConcat
  <2>2. Ids(lost') = Ids(lost) \cup ((Handled + k)..((Handled + k) + (b - k) - 1))
    BY <1>12, <1>14, <1>15, IdsConcat
  <2>3. (Handled..(Handled + k - 1)) \cup ((Handled + k)..((Handled + k) + (b - k) - 1))
           = Handled..(Handled + b - 1)
    BY <1>4, <1>5
  <2>4. (0..(Handled - 1)) \cup (Handled..(Handled + b - 1)) = 0..(Handled + b - 1)
    BY <1>4
  <2>5. Ids(written) \cup Ids(lost) = 0..(Handled - 1)
    BY <1>15
  <2>6. \A P, Q, U, V : (P \cup U) \cup (Q \cup V) = (P \cup Q) \cup (U \cup V)
    OBVIOUS
  <2>7. Ids(written') \cup Ids(lost') = (0..(Handled - 1)) \cup (Handled..(Handled + b - 1))
    BY <2>1, <2>2, <2>3, <2>5, <2>6, Zenon
  <2>8. Ids(written') \cup Ids(lost') = 0..(Handled + b - 1)
    BY <2>4, <2>7, Zenon
  <2>9. Handled' - 1 = Handled + b - 1
    BY <1>4, <1>8
  <2> QED
    BY <2>8, <2>9
<1>21. Filed'
  <2>1. Len(written') + Len(lost') = Handled'
    <3>1. Len(written) + Len(lost) = Handled
      BY <1>15
    <3>2. Len(written') = Len(written) + k /\ Len(lost') = Len(lost) + (b - k)
      BY <1>19
    <3>3. (Len(written) + k) + (Len(lost) + (b - k)) = Handled + b
      BY <1>4, <1>5, <3>1
    <3> QED
      BY <1>8, <3>2, <3>3
  <2> QED
    BY <1>17, <1>18, <1>20, <2>1 DEF Filed
<1>22. TypeOK'
  <2>1. batch' \in Seq(Event) /\ rules_snapshot' \in Seq(Kinds) /\ cep_snapshot' \in Seq(Kinds)
    BY <1>1
  <2> QED
    BY <1>1, <1>3, <1>19, <2>1 DEF TypeOK
<1>23. Numbered'
  <2>1. ASSUME NEW j \in 1..Len(ring)
        PROVE  ring[j].id = (Handled + b) + 0 + j - 1
    <3>1. ring[j].id = Handled + b + j - 1
      BY <1>3 DEF Numbered
    <3> QED
      BY <1>4, <3>1
  <2>2. Handled + b \in Nat /\ 1..0 = {}
    BY <1>4
  <2> QED
    BY <1>1, <1>7, <1>8, <2>1, <2>2 DEF Numbered
<1>24. RulesKnown'
  <2>1. 0 <= MaxRules /\ 0 <= Len(cep_rules) /\ 1..0 = {}
    BY <1>3, Lengths, BoundsAssumption
  <2> QED
    BY <1>1, <1>3, <1>7, <2>1 DEF RulesKnown
<1>25. Position'
  BY <1>1 DEF Position
<1>26. Before'
  <2>1. \A j \in 1..Len(windows) : \A i \in 1..Len(windows[j]) : windows[j][i] < Now
    <3>1. \A j \in 1..Len(windows) : ~(ri > n + j)
      BY <1>4, <1>9
    <3> QED
      BY <1>3, <3>1 DEF Before
  <2>2. \A i \in 1..Len(signalled) : signalled[i][1] < Now
    <3>1. ~(ri > 1)
      BY <1>9
    <3> QED
      BY <1>3, <3>1 DEF Before
  <2> QED
    BY <1>1, <1>10, <2>1, <2>2 DEF Before
<1>27. EvaluatedOnce'
  BY <1>1, <1>3 DEF EvaluatedOnce
<1> QED
  BY <1>21, <1>22, <1>23, <1>24, <1>25, <1>26, <1>27 DEF Accounts

(* Only start_persistence makes a worker, and it finds none; only the join  *)
(* that ends stop_persistence removes one.                                 *)
LEMMA ControlledStep ==
    ASSUME Controlled, Next
    PROVE  Controlled'
<1>1. ASSUME start_persistence
      PROVE  Controlled'
  BY <1>1 DEF Controlled, start_persistence
<1>2. ASSUME stop_persistence
      PROVE  Controlled'
  BY <1>2 DEF Controlled, stop_persistence
<1>3. ASSUME Join
      PROVE  Controlled'
  BY <1>3 DEF Controlled, Join
<1>4. ASSUME Application
      PROVE  Controlled'
  <2>1. running' = running /\ ctl' = ctl /\ wpc' = wpc
    BY <1>4 DEF Application, Record, AddRule, AddCepRule, PollSignal, ctlVars
  <2> QED
    BY <2>1 DEF Controlled
<1>5. ASSUME Worker
      PROVE  Controlled'
  <2>1. running' = running /\ ctl' = ctl
    BY <1>5 DEF Worker, TryOpen, AwaitSink, PopEvent, PopsDone, SnapshotRules, SnapshotCepRules,
                EvaluateRule, EvaluateCepRule, NextEvent, WriteBatch, CheckRunning, ctlVars
  <2>2. wpc # "none"
    BY <1>5 DEF Worker, TryOpen, AwaitSink, PopEvent, PopsDone, SnapshotRules, SnapshotCepRules,
                EvaluateRule, EvaluateCepRule, NextEvent, WriteBatch, CheckRunning
  <2> QED
    BY <2>1, <2>2 DEF Controlled
<1> QED
  BY <1>1, <1>2, <1>3, <1>4, <1>5 DEF Next, Lifecycle

(* Every step of the engine keeps the invariant. *)
LEMMA NextInv ==
    ASSUME IInv, [Next]_vars
    PROVE  IInv'
<1>1. Accounts /\ Controlled
  BY DEF IInv
<1>2. CASE UNCHANGED vars
  <2>1. Accounts'
    BY <1>1, <1>2, QuietStep DEF vars
  <2>2. Controlled'
    BY <1>1, <1>2 DEF Controlled, vars
  <2> QED
    BY <2>1, <2>2 DEF IInv
<1>3. CASE Next
  <2> USE <1>1
  <2>1. ASSUME NEW kind \in Kinds, Record(kind)
        PROVE  Accounts'
    BY <2>1, RecordStep
  <2>2. ASSUME NEW kind \in Kinds, AddRule(kind)
        PROVE  Accounts'
    BY <2>2, AddRuleStep
  <2>3. ASSUME NEW kind \in Kinds, AddCepRule(kind)
        PROVE  Accounts'
    BY <2>3, AddCepRuleStep
  <2>4. ASSUME PollSignal
        PROVE  Accounts'
    BY <2>4, QuietStep DEF PollSignal, appVars, evalVars
  <2>5. ASSUME start_persistence
        PROVE  Accounts'
    BY <2>5, QuietStep DEF start_persistence, Controlled, appVars, evalVars
  <2>6. ASSUME stop_persistence
        PROVE  Accounts'
    BY <2>6, QuietStep DEF stop_persistence, appVars, evalVars
  <2>7. ASSUME Join
        PROVE  Accounts'
    BY <2>7, QuietStep DEF Join, appVars, evalVars
  <2>8. ASSUME TryOpen
        PROVE  Accounts'
    BY <2>8, QuietStep DEF TryOpen, appVars, evalVars
  <2>9. ASSUME AwaitSink
        PROVE  Accounts'
    BY <2>9, QuietStep DEF AwaitSink, appVars, evalVars
  <2>10. ASSUME PopEvent
         PROVE  Accounts'
    BY <2>10, PopEventStep
  <2>11. ASSUME PopsDone
         PROVE  Accounts'
    BY <2>11, QuietStep DEF PopsDone, appVars, evalVars
  <2>12. ASSUME SnapshotRules
         PROVE  Accounts'
    BY <2>12, SnapshotRulesStep
  <2>13. ASSUME SnapshotCepRules
         PROVE  Accounts'
    BY <2>13, SnapshotCepRulesStep
  <2>14. ASSUME EvaluateRule
         PROVE  Accounts'
    BY <2>14, EvaluateRuleStep
  <2>15. ASSUME EvaluateCepRule
         PROVE  Accounts'
    BY <2>15, EvaluateCepRuleStep
  <2>16. ASSUME NextEvent
         PROVE  Accounts'
    BY <2>16, NextEventStep
  <2>17. ASSUME WriteBatch
         PROVE  Accounts'
    BY <2>17, WriteBatchStep
  <2>18. ASSUME CheckRunning
         PROVE  Accounts'
    BY <2>18, QuietStep DEF CheckRunning, appVars, evalVars
  <2>19. Accounts'
    <3>1. CASE Worker
      BY <3>1, <2>8, <2>9, <2>10, <2>11, <2>12, <2>13, <2>14, <2>15, <2>16, <2>17, <2>18 DEF Worker
    <3>2. CASE Application
      BY <3>2, <2>1, <2>2, <2>3, <2>4 DEF Application
    <3>3. CASE Lifecycle
      BY <3>3, <2>5, <2>6, <2>7 DEF Lifecycle
    <3> QED
      BY <1>3, <3>1, <3>2, <3>3 DEF Next
  <2> QED
    BY <1>3, <2>19, ControlledStep DEF IInv
<1> QED
  BY <1>2, <1>3

(* What the engine promises of its events follows from the invariant. *)
LEMMA InvAccounts ==
    ASSUME IInv
    PROVE  EventsAccounted
<1>1. TypeOK /\ Numbered /\ Filed /\ RulesKnown /\ EvaluatedOnce
  BY DEF IInv, Accounts
<1>2. DOMAIN batch = 1..Len(batch) /\ DOMAIN ring = 1..Len(ring)
  BY <1>1 DEF TypeOK
<1>3. RulesSeeLaterEvents
  BY <1>1, <1>2 DEF RulesKnown, RulesSeeLaterEvents
<1> QED
  BY <1>1, <1>2, <1>3 DEF EventsAccounted, Numbered, Filed, Handled

(***************************************************************************)
(* Every event that record accepted is, at any time and through any        *)
(* failures of the log and restarts of the worker, in exactly one of the   *)
(* log, a failed batch, the batch in hand and the ring, in order; it is    *)
(* evaluated with every rule that was installed before it was recorded;    *)
(* no rule is given it twice, and no match is signalled twice.             *)
(***************************************************************************)
THEOREM Accounted == Spec => []EventsAccounted
<1>1. Init => IInv
  BY InitInv
<1>2. IInv /\ [Next]_vars => IInv'
  BY NextInv
<1>3. IInv => EventsAccounted
  BY InvAccounts
<1> QED
  BY <1>1, <1>2, <1>3, PTL DEF Spec
=============================================================================
