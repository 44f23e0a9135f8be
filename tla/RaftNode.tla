------------------------------ MODULE RaftNode ------------------------------
(***************************************************************************)
(* animus::cluster::RaftNode (AnimusCore_v1/animus_cluster.hpp): the       *)
(* in-memory Raft that replicates AddRule commands to every node's engine. *)
(*                                                                         *)
(* A step is what one thread does under one hold of state_mutex_.  Two     *)
(* threads of a node call its peers: the tick thread (elections and        *)
(* heartbeats) and a client's thread inside propose.  Each starts one      *)
(* worker per peer and joins them all.  A worker's blocking call_rpc is    *)
(* two steps: the peer handles the request at any time after it was        *)
(* prepared, and the worker acts on the reply at any time after that.  The *)
(* link mutex is released before the reply is acted on, so the replies of  *)
(* the two threads may be acted on in either order.  A connection that     *)
(* breaks fails the call at its caller, and a request that was already     *)
(* sent may still be handled later (orphans).                              *)
(*                                                                         *)
(* A node that stops is one that takes no more steps, and calls to it      *)
(* fail.  Restarts are left out: the header says that a restarted node     *)
(* rejoins with an empty log.  The leader hint is left out too: it is only *)
(* returned to clients.                                                    *)
(***************************************************************************)
EXTENDS Integers, Sequences, FiniteSets, SequencesExt

CONSTANTS
    Nodes,
    Commands,             \* the AddRule commands clients propose
    kMaxEntriesPerRpc,
    MaxElections,         \* bound: calls of start_election
    MaxRounds,            \* bound: calls of replicate_to_all_peers by a leader
    MaxProposals,         \* bound: calls of propose that reach a log
    MaxFailures,          \* bound: calls of call_rpc that return false
    MaxOrphans            \* bound: requests outliving their connection

ASSUME NodesAssumption == IsFiniteSet(Nodes)
ASSUME BatchAssumption == kMaxEntriesPerRpc \in Nat \ {0}

VARIABLES
    current_term, role, voted_for, log, commit_index, next_index, match_index,
    applied,      \* the commands apply_committed_entries_locked gave the engine
    election,     \* the tick thread's locals in start_election
    round,        \* per thread: its locals in replicate_to_all_peers
    rpc,          \* per thread and peer: the worker's call
    orphans,      \* sent requests whose connection broke
    proposal,     \* the locals of a client's thread inside propose
    used,         \* how much of each bound has been used
    elected,      \* history: who became leader, in which term
    answers       \* history: the entries for which propose returned Ok

leaderVars == <<next_index, match_index>>
termVars == <<current_term, role, voted_for>>
logVars == <<log, commit_index, applied>>
clientVars == <<proposal, answers>>
vars == <<termVars, logVars, leaderVars, election, round, rpc, orphans, elected, clientVars, used>>

None == [kind |-> "none"]
Nobody == "nobody"        \* has_voted_this_term_ is false
noop == "noop"
Threads == {"tick", "propose"}
Peers(i) == Nodes \ {i}
Majority == (Cardinality(Nodes) \div 2) + 1
Least(a, b) == IF a < b THEN a ELSE b
Entry(term, command) == [term |-> term, command |-> command]

Init ==
    /\ current_term = [i \in Nodes |-> 0]
    /\ role = [i \in Nodes |-> "Follower"]
    /\ voted_for = [i \in Nodes |-> Nobody]
    /\ log = [i \in Nodes |-> <<>>]
    /\ commit_index = [i \in Nodes |-> 0]
    /\ next_index = [i \in Nodes |-> [j \in Nodes |-> 0]]
    /\ match_index = [i \in Nodes |-> [j \in Nodes |-> 0]]
    /\ applied = [i \in Nodes |-> <<>>]
    /\ election = [i \in Nodes |-> None]
    /\ round = [i \in Nodes |-> [t \in Threads |-> None]]
    /\ rpc = [i \in Nodes |-> [t \in Threads |-> [j \in Nodes |-> None]]]
    /\ orphans = {}
    /\ proposal = [i \in Nodes |-> None]
    /\ used = [elections |-> 0, rounds |-> 0, proposals |-> 0, failures |-> 0]
    /\ elected = {}
    /\ answers = {}

last_log_term(i) == IF log[i] = <<>> THEN 0 ELSE Last(log[i]).term

\* A reply with a newer term makes its receiver a follower in that term.
StepDown(i, term) ==
    /\ current_term' = [current_term EXCEPT ![i] = term]
    /\ role' = [role EXCEPT ![i] = "Follower"]
    /\ voted_for' = [voted_for EXCEPT ![i] = Nobody]

\* commit_index_ moves to n and the entries up to n of the new log are applied.
apply_committed_entries(i, n) ==
    /\ commit_index' = [commit_index EXCEPT ![i] = n]
    /\ applied' = [applied EXCEPT ![i] =
          @ \o SelectSeq(SubSeq(log'[i], commit_index[i] + 1, n), LAMBDA e : e.command # noop)]

WorkersJoined(i, t) == \A j \in Peers(i) : rpc[i][t][j] = None

-----------------------------------------------------------------------------
(* Elections *)

\* tick_loop: not leader and the deadline has passed.
start_election(i) ==
    /\ election[i] = None /\ round[i]["tick"] = None
    /\ role[i] # "Leader"
    /\ used.elections < MaxElections
    /\ used' = [used EXCEPT !.elections = @ + 1]
    /\ current_term' = [current_term EXCEPT ![i] = @ + 1]
    /\ role' = [role EXCEPT ![i] = "Candidate"]
    /\ voted_for' = [voted_for EXCEPT ![i] = i]
    /\ election' = [election EXCEPT ![i] = [kind |-> "election", term |-> current_term[i] + 1, votes |-> 1]]
    /\ rpc' = [rpc EXCEPT ![i]["tick"] = [j \in Nodes |->
          IF j = i THEN None
          ELSE [kind |-> "vote", from |-> i, term |-> current_term[i] + 1,
                last_index |-> Len(log[i]), last_term |-> last_log_term(i)]]]
    /\ UNCHANGED <<logVars, leaderVars, round, orphans, elected, clientVars>>

\* Mutant: a node votes again in a term it has voted in
vote_granted_Twice(j, args) ==
    /\ args.term >= current_term[j]
    /\ \/ args.last_term > last_log_term(j)
       \/ args.last_term = last_log_term(j) /\ args.last_index >= Len(log[j])

\* Mutant: the candidate's log is not compared
vote_granted_AnyLog(j, args) ==
    /\ args.term >= current_term[j]
    /\ args.term > current_term[j] \/ voted_for[j] \in {Nobody, args.from}

vote_granted(j, args) ==
    /\ args.term >= current_term[j]
    /\ args.term > current_term[j] \/ voted_for[j] \in {Nobody, args.from}
    /\ \/ args.last_term > last_log_term(j)
       \/ args.last_term = last_log_term(j) /\ args.last_index >= Len(log[j])

handle_request_vote(j, args) ==
    /\ IF args.term > current_term[j]
       THEN /\ current_term' = [current_term EXCEPT ![j] = args.term]
            /\ role' = [role EXCEPT ![j] = "Follower"]
       ELSE UNCHANGED <<current_term, role>>
    /\ voted_for' = [voted_for EXCEPT ![j] =
          IF vote_granted(j, args) THEN args.from
          ELSE IF args.term > current_term[j] THEN Nobody ELSE @]
    /\ UNCHANGED logVars

VoteReply(i, j) ==
    LET reply == rpc[i]["tick"][j]
    IN  /\ reply.kind = "voted"
        /\ IF reply.term > current_term[i]
           THEN StepDown(i, reply.term) /\ UNCHANGED election
           ELSE /\ election' = [election EXCEPT ![i].votes =
                      IF reply.granted /\ reply.term = election[i].term THEN @ + 1 ELSE @]
                /\ UNCHANGED termVars
        /\ rpc' = [rpc EXCEPT ![i]["tick"][j] = None]
        /\ UNCHANGED <<logVars, leaderVars, round, orphans, elected, clientVars, used>>

\* The workers have joined: a candidate with a majority leads and appends a no-op.
FinishElection(i) ==
    /\ election[i] # None /\ WorkersJoined(i, "tick")
    /\ election' = [election EXCEPT ![i] = None]
    /\ IF role[i] = "Candidate" /\ current_term[i] = election[i].term /\ election[i].votes >= Majority
       THEN /\ role' = [role EXCEPT ![i] = "Leader"]
            /\ next_index' = [next_index EXCEPT ![i] = [j \in Nodes |-> Len(log[i]) + 1]]
            /\ match_index' = [match_index EXCEPT ![i] = [j \in Nodes |-> 0]]
            /\ log' = [log EXCEPT ![i] = Append(@, Entry(current_term[i], noop))]
            /\ elected' = elected \cup {<<current_term[i], i>>}
       ELSE UNCHANGED <<role, leaderVars, log, elected>>
    /\ UNCHANGED <<current_term, voted_for, commit_index, applied, round, rpc, orphans, clientVars, used>>

-----------------------------------------------------------------------------
(* Replication *)

\* replicate_to_all_peers: a heartbeat of the tick thread, or the call propose makes.
BeginRound(i, t) ==
    /\ round[i][t] = None
    /\ used.rounds < MaxRounds
    /\ used' = [used EXCEPT !.rounds = @ + 1]
    /\ IF t = "tick" THEN election[i] = None /\ role[i] = "Leader" ELSE proposal[i].kind = "replicate"
    /\ round' = [round EXCEPT ![i][t] =
          IF role[i] = "Leader"
          THEN [kind |-> "round", term |-> current_term[i], commit |-> commit_index[i], todo |-> Peers(i)]
          ELSE None]
    /\ proposal' = [proposal EXCEPT ![i] = IF t = "propose" THEN [@ EXCEPT !.kind = "wait"] ELSE @]
    /\ UNCHANGED <<termVars, logVars, leaderVars, election, rpc, orphans, elected, answers>>

\* The first half of replicate_to_peer: what to send j is read under the mutex.
replicate_to_peer(i, t, j) ==
    /\ round[i][t] # None /\ j \in round[i][t].todo
    /\ round' = [round EXCEPT ![i][t].todo = @ \ {j}]
    /\ IF role[i] = "Leader" /\ current_term[i] = round[i][t].term
       THEN LET prev == next_index[i][j] - 1
            IN  rpc' = [rpc EXCEPT ![i][t][j] =
                  [kind |-> "append", from |-> i, term |-> round[i][t].term,
                   prev |-> prev, prev_term |-> IF prev = 0 THEN 0 ELSE log[i][prev].term,
                   entries |-> SubSeq(log[i], prev + 1, Least(Len(log[i]), prev + kMaxEntriesPerRpc)),
                   commit |-> round[i][t].commit]]
       ELSE UNCHANGED rpc
    /\ UNCHANGED <<termVars, logVars, leaderVars, election, orphans, elected, clientVars, used>>

log_matches(j, hdr) ==
    \/ hdr.prev = 0
    \/ hdr.prev <= Len(log[j]) /\ log[j][hdr.prev].term = hdr.prev_term

\* j's log after the entries loop: cut at the first entry that is new or differs.
Merged(j, hdr) ==
    LET new == {k \in 1..Len(hdr.entries) :
                  hdr.prev + k > Len(log[j]) \/ log[j][hdr.prev + k].term # hdr.entries[k].term}
    IN  IF new = {} THEN log[j]
        ELSE SubSeq(log[j], 1, hdr.prev + Min(new) - 1)
             \o SubSeq(hdr.entries, Min(new), Len(hdr.entries))

\* Mutant: a heartbeat with an older commit index is obeyed
CommitMoves_Back(j, hdr) == hdr.commit # commit_index[j]

CommitMoves(j, hdr) == hdr.commit > commit_index[j]

handle_append_entries(j, hdr) ==
    IF hdr.term < current_term[j]
    THEN UNCHANGED <<termVars, logVars>>
    ELSE /\ IF hdr.term > current_term[j]
            THEN StepDown(j, hdr.term)
            ELSE /\ role' = [role EXCEPT ![j] = "Follower"]
                 /\ UNCHANGED <<current_term, voted_for>>
         /\ IF log_matches(j, hdr)
            THEN /\ log' = [log EXCEPT ![j] = Merged(j, hdr)]
                 /\ IF CommitMoves(j, hdr)
                    THEN apply_committed_entries(j, Least(hdr.commit, Len(log'[j])))
                    ELSE UNCHANGED <<commit_index, applied>>
            ELSE /\ log' = [log EXCEPT ![j] =
                       IF hdr.prev <= Len(@) THEN SubSeq(@, 1, hdr.prev - 1) ELSE @]
                 /\ UNCHANGED <<commit_index, applied>>

AppendReply(i, t, j) ==
    LET reply == rpc[i][t][j]
    IN  /\ reply.kind = "appended"
        /\ rpc' = [rpc EXCEPT ![i][t][j] = None]
        /\ IF reply.term > current_term[i]
           THEN StepDown(i, reply.term) /\ UNCHANGED leaderVars
           ELSE /\ UNCHANGED termVars
                /\ IF role[i] # "Leader" \/ current_term[i] # round[i][t].term
                   THEN UNCHANGED leaderVars
                   ELSE IF reply.success
                   THEN /\ next_index' = [next_index EXCEPT ![i][j] = reply.last + 1]
                        /\ match_index' = [match_index EXCEPT ![i][j] = reply.last]
                   ELSE /\ next_index' = [next_index EXCEPT ![i][j] = IF @ > 1 THEN @ - 1 ELSE @]
                        /\ UNCHANGED match_index
        /\ UNCHANGED <<logVars, election, round, orphans, elected, clientVars, used>>

\* Mutant: the leader commits what one node short of a majority holds
Replicated_OneTooFew(i) ==
    {n \in commit_index[i] + 1 .. Len(log[i]) :
        /\ log[i][n].term = current_term[i]
        /\ Cardinality({j \in Peers(i) : match_index[i][j] >= n}) + 1 >= Majority - 1}

\* The indices of its own term that leader i counts on a majority.
Replicated(i) ==
    {n \in commit_index[i] + 1 .. Len(log[i]) :
        /\ log[i][n].term = current_term[i]
        /\ Cardinality({j \in Peers(i) : match_index[i][j] >= n}) + 1 >= Majority}

\* The workers have joined: the leader recomputes commit_index_.
EndRound(i, t) ==
    /\ round[i][t] # None /\ round[i][t].todo = {} /\ WorkersJoined(i, t)
    /\ round' = [round EXCEPT ![i][t] = None]
    /\ UNCHANGED log
    /\ IF role[i] = "Leader" /\ current_term[i] = round[i][t].term /\ Replicated(i) # {}
       THEN apply_committed_entries(i, Max(Replicated(i)))
       ELSE UNCHANGED <<commit_index, applied>>
    /\ UNCHANGED <<termVars, leaderVars, election, rpc, orphans, elected, clientVars, used>>

-----------------------------------------------------------------------------
(* Calls *)

\* dispatch_request at j, on a request of a live connection or an orphan.
dispatch_request(j, request) ==
    IF request.kind = "vote" THEN handle_request_vote(j, request) ELSE handle_append_entries(j, request)

last_sent(request) == request.prev + Len(request.entries)

ReplyTo(j, request) ==
    IF request.kind = "vote"
    THEN [kind |-> "voted", term |-> current_term'[j], granted |-> vote_granted(j, request)]
    ELSE [kind |-> "appended", term |-> current_term'[j],
          success |-> request.term >= current_term[j] /\ log_matches(j, request),
          last |-> last_sent(request)]

HandleRequest(i, t, j) ==
    /\ rpc[i][t][j].kind \in {"vote", "append"}
    /\ dispatch_request(j, rpc[i][t][j])
    /\ rpc' = [rpc EXCEPT ![i][t][j] = ReplyTo(j, rpc[i][t][j])]
    /\ UNCHANGED <<leaderVars, election, round, orphans, elected, clientVars, used>>

\* call_rpc returns false: nobody listens, or the connection breaks.
CallFails(i, t, j) ==
    /\ rpc[i][t][j] # None
    /\ used.failures < MaxFailures
    /\ used' = [used EXCEPT !.failures = @ + 1]
    /\ rpc' = [rpc EXCEPT ![i][t][j] = None]
    /\ \/ UNCHANGED orphans
       \/ /\ rpc[i][t][j].kind \in {"vote", "append"}
          /\ Cardinality(orphans) < MaxOrphans
          /\ orphans' = orphans \cup {[to |-> j, request |-> rpc[i][t][j]]}
    /\ UNCHANGED <<termVars, logVars, leaderVars, election, round, elected, clientVars>>

HandleOrphan(o) ==
    /\ dispatch_request(o.to, o.request)
    /\ orphans' = orphans \ {o}
    /\ UNCHANGED <<leaderVars, election, round, rpc, elected, clientVars, used>>

-----------------------------------------------------------------------------
(* Clients *)

\* Mutant: a candidate takes proposals too
TakesProposals_Candidate(i) == role[i] # "Follower"

TakesProposals(i) == role[i] = "Leader"

propose(i, command) ==
    /\ proposal[i] = None
    /\ TakesProposals(i)
    /\ used.proposals < MaxProposals
    /\ used' = [used EXCEPT !.proposals = @ + 1]
    /\ log' = [log EXCEPT ![i] = Append(@, Entry(current_term[i], command))]
    /\ proposal' = [proposal EXCEPT ![i] =
          [kind |-> "replicate", index |-> Len(log[i]) + 1, entry |-> Entry(current_term[i], command)]]
    /\ UNCHANGED <<termVars, commit_index, applied, leaderVars, election, round, rpc, orphans, elected, answers>>

\* The wait loop of propose ends: Ok, NotLeader, or Failed at the deadline.
ProposeReturns(i) ==
    /\ proposal[i].kind = "wait" /\ round[i]["propose"] = None
    /\ proposal' = [proposal EXCEPT ![i] = None]
    /\ answers' = IF commit_index[i] >= proposal[i].index
                  THEN answers \cup {[node |-> i, index |-> proposal[i].index, entry |-> proposal[i].entry]}
                  ELSE answers
    /\ UNCHANGED <<termVars, logVars, leaderVars, election, round, rpc, orphans, elected, used>>

Next ==
    \/ \E i \in Nodes :
          \/ start_election(i) \/ FinishElection(i) \/ ProposeReturns(i)
          \/ \E c \in Commands : propose(i, c)
          \/ \E j \in Peers(i) : VoteReply(i, j)
          \/ \E t \in Threads :
                \/ BeginRound(i, t) \/ EndRound(i, t)
                \/ \E j \in Peers(i) :
                      \/ replicate_to_peer(i, t, j) \/ HandleRequest(i, t, j)
                      \/ AppendReply(i, t, j) \/ CallFails(i, t, j)
    \/ \E o \in orphans : HandleOrphan(o)

Spec == Init /\ [][Next]_vars

-----------------------------------------------------------------------------
(* Properties *)

\* The state is well formed: the workers of a thread run only inside its
\* election or round, and what is committed is in the log.
WellFormed ==
    /\ current_term \in [Nodes -> 0..MaxElections]
    /\ role \in [Nodes -> {"Follower", "Candidate", "Leader"}]
    /\ voted_for \in [Nodes -> Nodes \cup {Nobody}]
    /\ \A i \in Nodes :
          /\ \A n \in 1..Len(log[i]) : log[i][n].term \in 1..current_term[i]
          /\ commit_index[i] \in 0..Len(log[i])
          /\ \A j \in Peers(i) : match_index[i][j] <= Len(log[i]) \/ role[i] # "Leader"
          /\ election[i] = None \/ round[i]["tick"] = None
          /\ \A t \in Threads :
                (round[i][t] = None /\ (t = "propose" \/ election[i] = None)) => WorkersJoined(i, t)
    /\ Cardinality(orphans) <= MaxOrphans

\* Election safety: start_election makes at most one node leader of a term,
\* although votes come in from several workers, terms change while they are
\* out, and heartbeats arrive in between (the comment in handle_append_entries
\* on has_voted_this_term_).
ElectionSafety == \A x, y \in elected : x[1] = y[1] => x = y

\* Log matching: two logs that hold an entry of the same term at the same index
\* are the same up to there, however handle_append_entries truncated and merged.
LogMatching ==
    \A i, j \in Nodes : \A n \in 1..Least(Len(log[i]), Len(log[j])) :
        log[i][n].term = log[j][n].term => SubSeq(log[i], 1, n) = SubSeq(log[j], 1, n)

Committed(i) == SubSeq(log[i], 1, commit_index[i])

\* State machine safety: two nodes never commit different entries at an index,
\* and every engine has been given exactly the rules its node committed, once
\* each and in log order.
EnginesAgree ==
    /\ \A i, j \in Nodes : IsPrefix(Committed(i), Committed(j)) \/ IsPrefix(Committed(j), Committed(i))
    /\ \A i \in Nodes : applied[i] = SelectSeq(Committed(i), LAMBDA e : e.command # noop)

\* Leader completeness: what any node has committed is in the log of a leader
\* of a later term.
LeaderCompleteness ==
    \A i, k \in Nodes :
        (role[k] = "Leader" /\ current_term[k] >= current_term[i])
            => IsPrefix(Committed(i), log[k])

\* What makes the engines of a cluster interchangeable: one leader a term,
\* logs that match, commits that agree and reach every later leader, through
\* lost calls, concurrent rounds and workers that outlive their election.
RaftSafety == ElectionSafety /\ LogMatching /\ EnginesAgree /\ LeaderCompleteness /\ WellFormed

\* No step removes or changes a committed entry or moves commit_index_ back,
\* so last_applied_ always equals commit_index_ when state_mutex_ is free.
CommittedStays ==
    [][\A i \in Nodes :
          /\ commit_index'[i] >= commit_index[i]
          /\ IsPrefix(Committed(i), log'[i])]_vars

\* propose returns Ok only when its own command is the committed entry: "blocks
\* ... until it is committed and applied to this node's own engine".
OkMeansCommitted ==
    \A a \in answers : a.index <= commit_index[a.node] /\ log[a.node][a.index] = a.entry
=============================================================================
