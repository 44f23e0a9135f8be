------------------------------ MODULE Gateway -------------------------------
(***************************************************************************)
(* The RBAC gateways of AnimusCore_v1/animus_security.hpp as the C ABI of  *)
(* animus_engine.cpp exposes them: a TenantRegistry with one engine per    *)
(* tenant, a telemetry and an execution gateway over it with an audit      *)
(* trail each, the licence that gates orders and core pinning, and the     *)
(* start and stop of a tenant's persistence worker.                        *)
(*                                                                         *)
(* Each caller is a thread with one token.  A step is one critical section *)
(* or one atomic access.  Engines are addresses: a freed one can be handed *)
(* out again.  Of an engine's contents the model keeps whose events it     *)
(* has been given.                                                         *)
(***************************************************************************)
EXTENDS AuditLog, FiniteSets

CONSTANTS
    Callers,
    Tenants,
    Engines,        \* addresses of engines
    Cores,          \* core counts that licences grant
    Scenarios,      \* bound: the operations a behaviour draws on, the tokens of its
                    \* callers, the tenants it starts with, the licences it meets
    MaxCalls,       \* bound: calls one caller makes
    MaxRemovals     \* bound: calls of remove_tenant

ASSUME GatewayAssumption ==
    /\ IsFiniteSet(Callers) /\ Engines \cup Tenants \cup Cores \subseteq Nat \ {0}
    /\ MaxCalls \in Nat /\ MaxRemovals \in Nat

Role == {"Viewer", "Operator", "Admin"}
Trails == {"telemetry", "execution"}

VARIABLES
    scenario,
    token,          \* the AccessToken of each caller
    registry,       \* TenantRegistry::tenants_: the engine of a tenant, or 0
    removing,       \* the tenant remove_tenant is destroying, or 0; it holds the registry's mutex
    engine,         \* the engines
    exec,           \* SecureExecutionGateway::tenants_: the engine a client is bound to, or 0
    lic,            \* licence: process-wide flags, the step of verify, the history of grants
    call,           \* the call each caller is in
    calls,          \* how many calls each caller has begun
    trail,          \* the two audit logs
    hist, out,      \* history: entries appended to and drained from each trail
    begun, threw,   \* history: calls begun, calls left by an exception
    pin,            \* history: the last pin request of a licensed process and its outcome
    ghost           \* history: whether callers kept the rules of the classes

trailVars == <<trail, hist, out>>
state == <<scenario, token, registry, removing, engine, exec, lic>>
vars == <<scenario, token, registry, removing, engine, exec, lic, call, calls, trail, hist, out, begun, threw, pin, ghost>>

-----------------------------------------------------------------------------
(* RBAC *)

is_allowed(role, perm) ==
    CASE role = "Viewer" -> perm = "PollSignals"
      [] role = "Operator" -> perm \in {"PollSignals", "RecordEvent", "SubmitOrder"}
      [] role = "Admin" -> TRUE

Permission ==
    [record |-> "RecordEvent", add_rule |-> "AddRule", poll_signals |-> "PollSignals",
     start_persistence |-> "ManagePersistence", stop_persistence |-> "ManagePersistence",
     create_tenant |-> "ManageTenants", create_execution_tenant |-> "ManageTenants", submit |-> "SubmitOrder"]
Op == DOMAIN Permission
TrailOf(op) == IF op \in {"create_execution_tenant", "submit"} THEN "execution" ELSE "telemetry"

\* The tenant an operation is about: the token's own, unless it names one.
Targets(c, op) == IF op \in {"create_tenant", "create_execution_tenant"} THEN Tenants ELSE {token[c].tenant}

Idle == [pc |-> "idle", op |-> "record", tenant |-> 0, eng |-> 0, outcome |-> "Denied", bound |-> FALSE]
NewEngine(t) == [owner |-> t, live |-> TRUE, from |-> {}, running_ |-> FALSE, worker |-> "none"]
NoEngine == [owner |-> 0, live |-> FALSE, from |-> {}, running_ |-> FALSE, worker |-> "none"]

\* The process starts with tenants that its set-up code created directly.
Init ==
    /\ scenario \in Scenarios
    /\ token \in [Callers -> [tenant : Tenants, role : Role]]
    /\ \A c \in Callers : token[c] \in scenario.tokens[c]
    /\ \E f \in [Tenants -> Engines] :
          /\ \A s, t \in Tenants : s < t => f[s] < f[t]
          /\ registry = [t \in Tenants |-> IF t \in scenario.tenants THEN f[t] ELSE 0]
    /\ engine = [e \in Engines |->
                    IF \E t \in Tenants : registry[t] = e
                    THEN NewEngine(CHOOSE t \in Tenants : registry[t] = e) ELSE NoEngine]
    /\ removing = 0
    /\ exec = [t \in Tenants |-> 0]
    /\ lic = [required |-> FALSE, verified |-> FALSE, max_cores |-> 0, storing |-> 0, granted |-> {}]
    /\ call = [c \in Callers |-> Idle] /\ calls = [c \in Callers |-> 0]
    /\ trail = [g \in Trails |-> BoundedAuditLog]
    /\ hist = [g \in Trails |-> <<>>] /\ out = [g \in Trails |-> <<>>]
    /\ begun = [g \in Trails |-> 0] /\ threw = [g \in Trails |-> 0]
    /\ pin = {}
    /\ ghost = [removals |-> 0, removedInUse |-> FALSE, overlapped |-> FALSE, noThread |-> FALSE, terminated |-> FALSE]

-----------------------------------------------------------------------------
(* Calls of the gateways *)

Goto(c, pc) == call' = [call EXCEPT ![c].pc = pc]
ToAudit(c, outcome) == call' = [call EXCEPT ![c].pc = "audit", ![c].outcome = outcome]
UseEngine(c, pc, e) == call' = [call EXCEPT ![c].pc = pc, ![c].eng = e, ![c].outcome = "Allowed"]

\* An operation begins: the token's role is checked, and nothing else is
\* looked at when it is not entitled.
Begin(c, op, t) ==
    /\ call[c].pc = "idle" /\ calls[c] < MaxCalls
    /\ op \in scenario.ops /\ t \in Targets(c, op)
    /\ calls' = [calls EXCEPT ![c] = @ + 1]
    /\ begun' = [begun EXCEPT ![TrailOf(op)] = @ + 1]
    /\ call' = [call EXCEPT ![c] =
                  [pc |-> IF ~is_allowed(token[c].role, Permission[op]) THEN "audit"
                          ELSE IF op = "submit" THEN "license" ELSE "resolve",
                   op |-> op, tenant |-> t, eng |-> 0, outcome |-> "Denied", bound |-> lic.required]]
    /\ UNCHANGED <<state, trailVars, threw, pin, ghost>>

\* Mutant: the tenant of the token is used, not the one named.
get_tenant_OfToken(c) ==
    /\ call[c].pc = "resolve" /\ call[c].op # "create_tenant"
    /\ removing = 0
    /\ LET e == registry[token[c].tenant]
       IN  IF e = 0 THEN ToAudit(c, "Denied")
           ELSE UseEngine(c, IF call[c].op = "create_execution_tenant" THEN "bind" ELSE "dispatch", e)
    /\ UNCHANGED <<state, calls, trailVars, begun, threw, pin, ghost>>

get_tenant(c) ==
    /\ call[c].pc = "resolve" /\ call[c].op # "create_tenant"
    /\ removing = 0
    /\ LET e == registry[call[c].tenant]
       IN  IF e = 0 THEN ToAudit(c, "Denied")
           ELSE UseEngine(c, IF call[c].op = "create_execution_tenant" THEN "bind" ELSE "dispatch", e)
    /\ UNCHANGED <<state, calls, trailVars, begun, threw, pin, ghost>>

\* An exception leaves the gateway before the audit entry is written; the C
\* ABI turns it into its failure value.
abi_guard(c) ==
    /\ call' = [call EXCEPT ![c] = Idle]
    /\ threw' = [threw EXCEPT ![TrailOf(call[c].op)] = @ + 1]

create_tenant(c) ==
    /\ call[c].pc = "resolve" /\ call[c].op = "create_tenant"
    /\ removing = 0
    /\ \/ registry[call[c].tenant] # 0 /\ UNCHANGED <<registry, engine, threw>> /\ ToAudit(c, "Allowed")
       \/ /\ registry[call[c].tenant] = 0
          /\ \E e \in Engines :
                /\ ~engine[e].live
                /\ engine' = [engine EXCEPT ![e] = NewEngine(call[c].tenant)]
                /\ registry' = [registry EXCEPT ![call[c].tenant] = e]
          /\ ToAudit(c, "Allowed")
          /\ UNCHANGED threw
       \/ registry[call[c].tenant] = 0 /\ abi_guard(c) /\ UNCHANGED <<registry, engine>>
    /\ UNCHANGED <<scenario, token, removing, exec, lic, calls, trailVars, begun, pin, ghost>>

\* The tenant's events reach the engine unless its ring is full.
Received(c) ==
    \/ engine' = [engine EXCEPT ![call[c].eng].from = @ \cup {token[c].tenant}]
    \/ UNCHANGED engine

record(c) ==
    /\ call[c].pc = "dispatch" /\ call[c].op = "record"
    /\ Received(c)
    /\ Goto(c, "audit")
    /\ UNCHANGED <<scenario, token, registry, removing, exec, lic, calls, trailVars, begun, threw, pin, ghost>>

\* Rules and signals are within the engine: nothing the model keeps changes.
add_rule(c) ==
    /\ call[c].pc = "dispatch" /\ call[c].op = "add_rule"
    /\ Goto(c, "audit")
    /\ UNCHANGED <<state, calls, trailVars, begun, threw, pin, ghost>>

poll_signals(c) ==
    /\ call[c].pc = "dispatch" /\ call[c].op = "poll_signals"
    /\ Goto(c, "audit")
    /\ UNCHANGED <<state, calls, trailVars, begun, threw, pin, ghost>>

\* Mutant: the entry is left out when the call was denied.
append_audit_AllowedOnly(c) ==
    LET g == TrailOf(call[c].op)
        entry == [who |-> c, permission |-> Permission[call[c].op], outcome |-> call[c].outcome]
    IN  IF call[c].outcome = "Denied" THEN UNCHANGED <<trail, hist>>
        ELSE /\ trail' = [trail EXCEPT ![g] = append(@, entry)]
             /\ hist' = [hist EXCEPT ![g] = Append(@, entry)]

append_audit(c) ==
    LET g == TrailOf(call[c].op)
        entry == [who |-> c, permission |-> Permission[call[c].op], outcome |-> call[c].outcome]
    IN  /\ trail' = [trail EXCEPT ![g] = append(@, entry)]
        /\ hist' = [hist EXCEPT ![g] = Append(@, entry)]

Audit(c) ==
    /\ call[c].pc = "audit"
    /\ append_audit(c)
    /\ call' = [call EXCEPT ![c] = Idle]
    /\ UNCHANGED <<state, calls, out, begun, threw, pin, ghost>>

\* An auditor polls either trail; drain hands out the oldest unread entries,
\* noted with their positions.
poll_audit_log(g, max_count) ==
    LET log == trail[g]
    IN  /\ "poll_audit_log" \in scenario.ops /\ size(log) > 0
        /\ out' = [out EXCEPT ![g] = @ \o [i \in 1..DrainCount(log, max_count) |->
                      [pos |-> log.read_ + i, entry |-> Drained(log, max_count)[i]]]]
        /\ trail' = [trail EXCEPT ![g] = drain(@, max_count)]
        /\ UNCHANGED <<state, call, calls, hist, begun, threw, pin, ghost>>

-----------------------------------------------------------------------------
(* start_persistence and stop_persistence of a tenant's engine *)

InControl(c) == call[c].pc \in {"start_store", "start_thread", "stop_store", "joinable", "join"}
Contended(c) == \E d \in Callers \ {c} : InControl(d) /\ call[d].eng = call[c].eng
Overlap(c) == ghost' = [ghost EXCEPT !.overlapped = @ \/ Contended(c)]

\* Mutant: start_persistence does not return when the worker runs.
LoadRunning_StartUnguarded(c) ==
    /\ call[c].pc = "dispatch" /\ call[c].op \in {"start_persistence", "stop_persistence"}
    /\ IF call[c].op = "start_persistence" THEN Goto(c, "start_store")
       ELSE Goto(c, IF engine[call[c].eng].running_ THEN "stop_store" ELSE "audit")
    /\ Overlap(c)
    /\ UNCHANGED <<state, calls, trailVars, begun, threw, pin>>

\* Both begin by looking at running_ and return when there is nothing to do.
LoadRunning(c) ==
    /\ call[c].pc = "dispatch" /\ call[c].op \in {"start_persistence", "stop_persistence"}
    /\ LET starting == call[c].op = "start_persistence"
       IN  IF engine[call[c].eng].running_ = starting THEN Goto(c, "audit")
           ELSE Goto(c, IF starting THEN "start_store" ELSE "stop_store")
    /\ Overlap(c)
    /\ UNCHANGED <<state, calls, trailVars, begun, threw, pin>>

\* Mutant: stop_persistence joins without clearing the flag.
StoreRunning_StopKeeps(c) ==
    /\ call[c].pc \in {"start_store", "stop_store"}
    /\ engine' = [engine EXCEPT ![call[c].eng].running_ = TRUE]
    /\ Goto(c, IF call[c].pc = "start_store" THEN "start_thread" ELSE "joinable")
    /\ UNCHANGED <<scenario, token, registry, removing, exec, lic, calls, trailVars, begun, threw, pin, ghost>>

StoreRunning(c) ==
    /\ call[c].pc \in {"start_store", "stop_store"}
    /\ engine' = [engine EXCEPT ![call[c].eng].running_ = call[c].pc = "start_store"]
    /\ Goto(c, IF call[c].pc = "start_store" THEN "start_thread" ELSE "joinable")
    /\ UNCHANGED <<scenario, token, registry, removing, exec, lic, calls, trailVars, begun, threw, pin, ghost>>

\* The thread is created and moved into worker_thread_: creation may throw,
\* and assigning to a thread that can still be joined ends the process.
start_thread(c) ==
    /\ call[c].pc = "start_thread"
    /\ \/ abi_guard(c) /\ ghost' = [ghost EXCEPT !.noThread = TRUE] /\ UNCHANGED engine
       \/ /\ engine[call[c].eng].worker # "none"
          /\ ghost' = [ghost EXCEPT !.terminated = TRUE]
          /\ UNCHANGED <<engine, call, threw>>
       \/ /\ engine[call[c].eng].worker = "none"
          /\ engine' = [engine EXCEPT ![call[c].eng].worker = "running"]
          /\ Goto(c, "audit")
          /\ UNCHANGED <<threw, ghost>>
    /\ UNCHANGED <<scenario, token, registry, removing, exec, lic, calls, trailVars, begun, pin>>

\* Two threads inside join() of one thread: undefined, taken as the end.
joinable(c) ==
    /\ call[c].pc = "joinable"
    /\ IF \E d \in Callers : call[d].pc = "join" /\ call[d].eng = call[c].eng
       THEN ghost' = [ghost EXCEPT !.terminated = TRUE] /\ UNCHANGED call
       ELSE Goto(c, IF engine[call[c].eng].worker = "none" THEN "audit" ELSE "join") /\ UNCHANGED ghost
    /\ UNCHANGED <<state, calls, trailVars, begun, threw, pin>>

join(c) ==
    /\ call[c].pc = "join" /\ engine[call[c].eng].worker = "ended"
    /\ engine' = [engine EXCEPT ![call[c].eng].worker = "none"]
    /\ Goto(c, "audit")
    /\ UNCHANGED <<scenario, token, registry, removing, exec, lic, calls, trailVars, begun, threw, pin, ghost>>

\* The worker leaves its loop once it finds running_ false.
WorkerEnds(e) ==
    /\ engine[e].worker = "running" /\ ~engine[e].running_
    /\ engine' = [engine EXCEPT ![e].worker = "ended"]
    /\ UNCHANGED <<scenario, token, registry, removing, exec, lic, call, calls, trailVars, begun, threw, pin, ghost>>

-----------------------------------------------------------------------------
(* TenantRegistry::remove_tenant: the destructor of the engine stops its   *)
(* worker, all under the registry's mutex.                                 *)

\* The steps of a call that go through an engine pointer.
UsesEngine(c) == call[c].pc \in {"dispatch", "bind", "submit"} \/ InControl(c)

remove_tenant(t) ==
    LET e == registry[t]
    IN  /\ "remove_tenant" \in scenario.ops /\ removing = 0 /\ e # 0 /\ ghost.removals < MaxRemovals
        /\ registry' = [registry EXCEPT ![t] = 0]
        /\ removing' = t
        /\ engine' = [engine EXCEPT ![e].running_ = FALSE]
        /\ ghost' = [ghost EXCEPT !.removals = @ + 1,
                        !.removedInUse = @ \/ exec[t] = e \/ \E c \in Callers : UsesEngine(c) /\ call[c].eng = e]
        /\ UNCHANGED <<scenario, token, exec, lic, call, calls, trailVars, begun, threw, pin>>

EngineDestroyed(e) ==
    /\ removing # 0 /\ engine[e].live /\ engine[e].owner = removing
    /\ engine[e].worker # "running"
    /\ engine' = [engine EXCEPT ![e] = NoEngine]
    /\ removing' = 0
    /\ UNCHANGED <<scenario, token, registry, exec, lic, call, calls, trailVars, begun, threw, pin, ghost>>

-----------------------------------------------------------------------------
(* The execution gateway *)

\* create_execution_tenant once it has the engine: one client per tenant, and
\* a second request changes nothing.
create_execution_tenant(c) ==
    LET t == call[c].tenant
    IN  /\ call[c].pc = "bind"
        /\ \/ exec[t] # 0 /\ UNCHANGED <<exec, threw>> /\ Goto(c, "audit")
           \/ exec[t] = 0 /\ exec' = [exec EXCEPT ![t] = call[c].eng] /\ Goto(c, "audit") /\ UNCHANGED threw
           \/ exec[t] = 0 /\ abi_guard(c) /\ UNCHANGED exec
        /\ UNCHANGED <<scenario, token, registry, removing, engine, lic, calls, trailVars, begun, pin, ghost>>

\* require_license_, and then animus_is_licensed.
LoadRequired(c) ==
    /\ call[c].pc = "license"
    /\ Goto(c, IF lic.required THEN "is_licensed" ELSE "client")
    /\ UNCHANGED <<state, calls, trailVars, begun, threw, pin, ghost>>

animus_is_licensed(c) ==
    /\ call[c].pc = "is_licensed"
    /\ IF lic.verified THEN Goto(c, "client") ELSE ToAudit(c, "Denied")
    /\ UNCHANGED <<state, calls, trailVars, begun, threw, pin, ghost>>

FindClient(c) ==
    /\ call[c].pc = "client"
    /\ LET e == exec[call[c].tenant]
       IN  IF e = 0 THEN ToAudit(c, "Denied") ELSE UseEngine(c, "submit", e)
    /\ UNCHANGED <<state, calls, trailVars, begun, threw, pin, ghost>>

\* The broker fills the order, and its latency is recorded in the engine.
submit(c) ==
    /\ call[c].pc = "submit"
    /\ Received(c)
    /\ Goto(c, "audit")
    /\ UNCHANGED <<scenario, token, registry, removing, exec, lic, calls, trailVars, begun, threw, pin, ghost>>

set_execution_license_required(required) ==
    /\ "set_execution_license_required" \in scenario.ops /\ lic.required # required
    /\ lic' = [lic EXCEPT !.required = required]
    /\ call' = [c \in Callers |-> [call[c] EXCEPT !.bound = @ /\ required]]
    /\ UNCHANGED <<scenario, token, registry, removing, engine, exec, calls, trailVars, begun, threw, pin, ghost>>

-----------------------------------------------------------------------------
(* The licence *)

\* What verification looks at in a licence file, and the first check that
\* fails.
LicensePayload ==
    [opens : BOOLEAN, whole : BOOLEAN, magic : BOOLEAN, signed : BOOLEAN,
     expires : {"never", "later", "past"}, machine : {"this", "other", "unknown"}, max_cores : Cores]
compute_license_status(f) ==
    LET checks == << <<~f.opens, "Missing">>, <<~f.whole \/ ~f.magic, "Malformed">>, <<~f.signed, "BadSignature">>,
                     <<f.expires = "past", "Expired">>, <<f.machine = "unknown", "UnsupportedPlatform">>,
                     <<f.machine = "other", "WrongMachine">>, <<TRUE, "Valid">> >>
    IN  checks[CHOOSE i \in 1..7 : checks[i][1] /\ \A j \in 1..(i - 1) : ~checks[j][1]][2]
Licences == {f \in LicensePayload : compute_license_status(f) = "Valid"}

\* Mutant: the flag is stored before the core count.
animus_verify_license_FlagFirst(f) ==
    /\ "animus_verify_license" \in scenario.ops /\ lic.storing = 0
    /\ lic' = [lic EXCEPT !.verified = TRUE, !.storing = f.max_cores, !.granted = @ \cup {f.max_cores}]
    /\ UNCHANGED <<scenario, token, registry, removing, engine, exec, call, calls, trailVars, begun, threw, pin, ghost>>

\* A valid licence: the core count is stored, then the flag.  Any other
\* outcome changes nothing.
animus_verify_license(f) ==
    /\ "animus_verify_license" \in scenario.ops /\ lic.storing = 0
    /\ lic' = [lic EXCEPT !.max_cores = f.max_cores, !.storing = f.max_cores, !.granted = @ \cup {f.max_cores}]
    /\ UNCHANGED <<scenario, token, registry, removing, engine, exec, call, calls, trailVars, begun, threw, pin, ghost>>
LicenseVerified ==
    /\ lic.storing # 0
    /\ lic' = [lic EXCEPT !.verified = TRUE, !.max_cores = lic.storing, !.storing = 0]
    /\ UNCHANGED <<scenario, token, registry, removing, engine, exec, call, calls, trailVars, begun, threw, pin, ghost>>

\* animus_pin_current_thread_to_core: refused without a licence, else the
\* core must be below the licensed count.
animus_pin_current_thread_to_core(c) ==
    /\ call[c].pc = "idle" /\ calls[c] < MaxCalls
    /\ "animus_pin_current_thread_to_core" \in scenario.ops /\ lic.verified
    /\ calls' = [calls EXCEPT ![c] = @ + 1]
    /\ Goto(c, "pin")
    /\ UNCHANGED <<state, trailVars, begun, threw, pin, ghost>>
LoadMaxCores(c, core) ==
    /\ call[c].pc = "pin"
    /\ pin' = {[core |-> core, ok |-> core < lic.max_cores]}
    /\ call' = [call EXCEPT ![c] = Idle]
    /\ UNCHANGED <<state, calls, trailVars, begun, threw, ghost>>

-----------------------------------------------------------------------------
\* Nothing is promised from here on: the process was terminated, or a tenant
\* was removed under a call or an execution client that refers to its engine.
Undefined == ghost.terminated \/ ghost.removedInUse

CallStep(c) ==
    \/ get_tenant(c) \/ create_tenant(c) \/ record(c) \/ add_rule(c) \/ poll_signals(c) \/ Audit(c)
    \/ LoadRunning(c) \/ StoreRunning(c) \/ start_thread(c) \/ joinable(c) \/ join(c)
    \/ create_execution_tenant(c) \/ LoadRequired(c) \/ animus_is_licensed(c) \/ FindClient(c) \/ submit(c)
    \/ \E core \in 0..1 : LoadMaxCores(c, core)

NewCall(c) ==
    \/ \E op \in Op, t \in Tenants : Begin(c, op, t)
    \/ animus_pin_current_thread_to_core(c)

Background ==
    \/ \E e \in Engines : WorkerEnds(e) \/ EngineDestroyed(e)
    \/ LicenseVerified

Owner ==
    \/ \E t \in Tenants : remove_tenant(t)
    \/ \E f \in Licences : f.max_cores \in scenario.cores /\ animus_verify_license(f)
    \/ \E required \in BOOLEAN : set_execution_license_required(required)
    \/ \E g \in Trails, max_count \in 1..kCapacity : poll_audit_log(g, max_count)

Next ==
    /\ ~Undefined
    /\ (\E c \in Callers : CallStep(c) \/ NewCall(c)) \/ Background \/ Owner

Spec == Init /\ [][Next]_vars

(* Threads inside a call are scheduled, and so are the workers; nobody is  *)
(* obliged to call, remove, verify or poll.                                *)
FairSpec == Spec /\ \A c \in Callers : WF_vars(~Undefined /\ CallStep(c)) /\ WF_vars(~Undefined /\ Background)

-----------------------------------------------------------------------------
(* Properties *)

\* The entries of a log, those appended to it and those drained from it agree.
Accounted(log, appended, drained) ==
    /\ log.write_ = Len(appended)
    /\ log.read_ = Len(drained) + log.dropped_
    /\ size(log) \in 0..kCapacity
    /\ \A i \in log.read_..(log.write_ - 1) : log.entries_[i % kCapacity] = appended[i + 1]
    /\ \A k \in 1..Len(drained) : drained[k].pos \in 1..log.read_ /\ drained[k].entry = appended[drained[k].pos]
    /\ \A j, k \in 1..Len(drained) : j < k => drained[j].pos < drained[k].pos

\* Entries unread in a trail are the newest ones appended, in order; every
\* other entry was drained once, in order, or counted as dropped; nothing is
\* lost silently (BoundedAuditLog::append, drain).
AuditAccounted == \A g \in Trails : Accounted(trail[g], hist[g], out[g])

\* Calls that have begun and still owe their entry to a trail.
Pending(g) == {c \in Callers : call[c].pc \notin {"idle", "pin"} /\ TrailOf(call[c].op) = g}

\* "appends one AuditEvent per call -- allowed or denied": every call begun
\* is in the trail, still on its way there, or was left by an exception; an
\* Allowed entry is one whose role holds the permission.
EveryCallAudited ==
    /\ \A g \in Trails : begun[g] = Len(hist[g]) + threw[g] + Cardinality(Pending(g))
    /\ \A g \in Trails : \A i \in DOMAIN hist[g] :
          /\ hist[g][i].outcome = "Allowed" => hist[g][i].permission = "PollSignals" \/ token[hist[g][i].who].role # "Viewer"
          /\ hist[g][i].outcome = "Allowed" /\ hist[g][i].permission \in {"AddRule", "ManagePersistence", "ManageTenants"}
                => token[hist[g][i].who].role = "Admin"

\* "tenant A's calls never resolve to tenant B's Engine": an engine holds
\* events of its own tenant only, and no call goes through a pointer to an
\* engine that is gone or another tenant's, as long as no tenant is removed
\* under a call or under an execution client.
TenantIsolation ==
    /\ \A e \in Engines : engine[e].from \subseteq {engine[e].owner}
    /\ \A c \in Callers : UsesEngine(c) => engine[call[c].eng].live /\ engine[call[c].eng].owner = call[c].tenant

\* A thread that sees the process licensed sees the core count of a licence
\* that was verified, so a pin is refused or granted by such a count; and an
\* order submitted while a licence is required is routed only with one.
LicenceHonoured ==
    /\ lic.verified => lic.max_cores \in lic.granted
    /\ \A p \in pin : \E m \in lic.granted : p.ok = (p.core < m)
    /\ \A c \in Callers : call[c].pc \in {"client", "submit"} /\ call[c].bound => lic.verified

\* The flag of start_persistence and stop_persistence agrees with the worker
\* and the process survives, as long as no two of these calls overlap on an
\* engine and every thread could be created.
PersistenceControlled ==
    \/ ghost.overlapped \/ ghost.noThread
    \/ /\ ~ghost.terminated
       /\ \A e \in Engines :
              (~\E c \in Callers : InControl(c) /\ call[c].eng = e) /\ (removing = 0 \/ engine[e].owner # removing)
                 => (engine[e].running_ <=> engine[e].worker # "none")

\* Every call comes back: stop_persistence is joined, and a caller waiting
\* for the registry while a tenant is destroyed gets its turn.
CallReturns ==
    \A c \in Callers : call[c].pc # "idle" ~> (call[c].pc = "idle" \/ Undefined \/ ghost.overlapped)
=============================================================================
