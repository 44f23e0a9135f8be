---------------------------- MODULE TenantProofs ----------------------------
(***************************************************************************)
(* Calls through the gateways reach the engine of their own tenant only,   *)
(* the licence gates what it should, and the persistence workers are       *)
(* started and stopped in order, for every number of callers, tenants and  *)
(* engines.                                                                *)
(***************************************************************************)
EXTENDS Gateway, TLAPS

-----------------------------------------------------------------------------
(* Calls. *)

Outcome == {"Allowed", "Denied"}
Working ==
    {"resolve", "license", "dispatch", "bind", "is_licensed", "client", "submit",
     "start_store", "start_thread", "stop_store", "joinable", "join"}
Call ==
    [pc : Working \cup {"idle", "audit", "pin"}, op : Op, tenant : Tenants \cup {0}, eng : Engines \cup {0},
     outcome : Outcome, bound : BOOLEAN]
Map == [Tenants -> Engines \cup {0}]
Lic == [required : BOOLEAN, verified : BOOLEAN, max_cores : Nat, storing : Nat, granted : SUBSET Nat]

Typed ==
    /\ token \in [Callers -> [tenant : Tenants, role : Role]]
    /\ registry \in Map /\ exec \in Map /\ lic \in Lic
    /\ call \in [Callers -> Call]
    /\ begun \in [Trails -> Nat] /\ threw \in [Trails -> Nat]

(* Only an entitled call gets past the check of the role, and only such a  *)
(* call is ever going to be entered as Allowed.                            *)
Entitled(c) == is_allowed(token[c].role, Permission[call[c].op])
Rightful ==
    \A c \in Callers :
        /\ call[c].pc \in Working => call[c].tenant \in Tenants
        /\ call[c].pc \in Working \/ call[c].outcome = "Allowed" => Entitled(c)

IInv == Typed /\ Rightful

(* What a step means to the trails: nothing, a call left by an exception,  *)
(* an entry, a call begun, or a poll.                                      *)
Unowed == UNCHANGED <<token, trail, hist, out, begun, threw>> /\ \A g : Pending(g)' = Pending(g)
Thrown(c) == call[c].pc \in Working /\ abi_guard(c) /\ UNCHANGED <<token, trail, hist, out, begun>>
TrailStep ==
    \/ Unowed
    \/ \E c \in Callers : Thrown(c) \/ Audit(c) \/ \E op \in Op, t \in Tenants : Begin(c, op, t)
    \/ \E g \in Trails, n \in 1..kCapacity : poll_audit_log(g, n)

USE CapacityAssumption, GatewayAssumption

(* A caller between two calls is entitled to nothing. *)
LEMMA IdleFacts == Idle \in Call /\ Idle.pc \notin Working /\ Idle.outcome = "Denied"
  BY DEF Idle, Call, Op, Permission, Outcome, Working

(* Nobody has called a process that has just started. *)
LEMMA InitInv == Init => IInv
<1> SUFFICES ASSUME Init PROVE IInv
  OBVIOUS
<1>1. registry \in Map /\ exec \in Map
  BY DEF Init, Map
<1>2. lic \in Lic
  BY DEF Init, Lic
<1>3. Typed
  BY <1>1, <1>2, IdleFacts DEF Init, Typed, Trails
<1>4. Rightful
  BY DEF Init, Rightful, Idle, Working
<1> QED
  BY <1>3, <1>4 DEF IInv

(* What a step may do to the rest of the state while a call is worked on. *)
Steady ==
    /\ UNCHANGED <<token, trail, hist, out, begun, threw>>
    /\ registry' \in Map /\ exec' \in Map /\ lic' \in Lic

(* A step that leaves every call where it is owes nothing to the trails.   *)
LEMMA Quiet ==
    ASSUME IInv, Steady, call' \in [Callers -> Call],
           \A c \in Callers : /\ call'[c].op = call[c].op /\ call'[c].tenant = call[c].tenant
                              /\ call'[c].pc = call[c].pc /\ call'[c].outcome = call[c].outcome
    PROVE  IInv' /\ TrailStep
<1>1. Typed'
  BY DEF IInv, Typed, Steady
<1>2. Rightful'
  BY DEF IInv, Rightful, Entitled, Steady
<1>4. Unowed
  <2>1. \A g : Pending(g)' = Pending(g)
    BY DEF Pending
  <2> QED
    BY <2>1 DEF Unowed, Steady
<1> QED
  BY <1>1, <1>2, <1>4 DEF IInv, TrailStep

(* A step inside a call: it stays on its way to its audit entry.           *)
LEMMA Inner ==
    ASSUME IInv, Steady, NEW c \in Callers, NEW rec \in Call,
           call[c].pc \in Working, rec.pc \in Working \cup {"audit"},
           rec.op = call[c].op, rec.tenant = call[c].tenant,
           call' = [call EXCEPT ![c] = rec]
    PROVE  IInv' /\ TrailStep
<1>1. Typed'
  BY DEF IInv, Typed, Steady
<1>2. call'[c] = rec /\ \A d \in Callers \ {c} : call'[d] = call[d]
  BY DEF IInv, Typed
<1>3. Rightful'
  BY <1>2 DEF IInv, Rightful, Entitled, Steady
<1>4. Unowed
  <2>1. \A g : Pending(g)' = Pending(g)
    BY <1>2 DEF Pending, Working
  <2> QED
    BY <2>1 DEF Unowed, Steady
<1> QED
  BY <1>1, <1>3, <1>4 DEF IInv, TrailStep

(* A call that moves on inside the gateway. *)
LEMMA InnerGoto ==
    ASSUME IInv, Steady, NEW c \in Callers, NEW pc \in Working \cup {"audit"}, call[c].pc \in Working, Goto(c, pc)
    PROVE  IInv' /\ TrailStep
<1> DEFINE rec == [call[c] EXCEPT !.pc = pc]
<1>1. call[c] \in Call /\ call' = [call EXCEPT ![c] = rec]
  BY DEF IInv, Typed, Goto
<1>2. rec \in Call /\ rec.pc = pc /\ rec.op = call[c].op /\ rec.tenant = call[c].tenant
  BY <1>1 DEF Call
<1> HIDE DEF rec
<1> QED
  BY Zenon, <1>1, <1>2, Inner

(* A call that has its outcome and is about to be audited. *)
LEMMA InnerAudit ==
    ASSUME IInv, Steady, NEW c \in Callers, NEW outcome \in Outcome, call[c].pc \in Working, ToAudit(c, outcome)
    PROVE  IInv' /\ TrailStep
<1> DEFINE rec == [call[c] EXCEPT !.pc = "audit", !.outcome = outcome]
<1>1. call[c] \in Call /\ call' = [call EXCEPT ![c] = rec]
  BY Zenon DEF IInv, Typed, ToAudit
<1>2. rec \in Call /\ rec.pc = "audit" /\ rec.op = call[c].op /\ rec.tenant = call[c].tenant
  BY Zenon, <1>1 DEF Call
<1> HIDE DEF rec
<1> QED
  BY Zenon, <1>1, <1>2, Inner

(* A call that was given an engine. *)
LEMMA InnerUse ==
    ASSUME IInv, Steady, NEW c \in Callers, NEW pc \in Working, NEW e \in Engines \cup {0},
           call[c].pc \in Working, UseEngine(c, pc, e)
    PROVE  IInv' /\ TrailStep
<1> DEFINE rec == [call[c] EXCEPT !.pc = pc, !.eng = e, !.outcome = "Allowed"]
<1>1. call[c] \in Call /\ call' = [call EXCEPT ![c] = rec]
  BY Zenon DEF IInv, Typed, UseEngine
<1>2. rec \in Call /\ rec.pc = pc /\ rec.op = call[c].op /\ rec.tenant = call[c].tenant
  BY Zenon, <1>1 DEF Call, Outcome
<1> HIDE DEF rec
<1> QED
  BY Zenon, <1>1, <1>2, Inner

(* Each operation belongs to the trail of one of the two gateways. *)
LEMMA TrailOfOp == \A op \in Op : TrailOf(op) \in Trails
  BY DEF TrailOf, Trails

(* What a call may do is decided for each caller on its own. *)
LEMMA RightfulStep ==
    ASSUME Rightful, NEW c \in Callers, UNCHANGED token, \A d \in Callers \ {c} : call'[d] = call[d],
           call'[c].pc \in Working => call'[c].tenant \in Tenants,
           call'[c].pc \in Working \/ call'[c].outcome = "Allowed" => Entitled(c)'
    PROVE  Rightful'
<1> SUFFICES ASSUME NEW d \in Callers
             PROVE  /\ call'[d].pc \in Working => call'[d].tenant \in Tenants
                    /\ call'[d].pc \in Working \/ call'[d].outcome = "Allowed" => Entitled(d)'
  BY DEF Rightful
<1>1. CASE d = c
  BY <1>1
<1>2. CASE d # c
  <2>1. call'[d] = call[d] /\ token'[d] = token[d]
    BY <1>2
  <2>2. /\ call[d].pc \in Working => call[d].tenant \in Tenants
        /\ call[d].pc \in Working \/ call[d].outcome = "Allowed" => Entitled(d)
    BY DEF Rightful
  <2> QED
    BY <2>1, <2>2 DEF Entitled
<1> QED
  BY <1>1, <1>2

(* An exception ends the call and is counted in place of its entry. *)
LEMMA ThrowKeeps ==
    ASSUME IInv, NEW c \in Callers, Thrown(c), registry' \in Map, exec' \in Map, lic' \in Lic
    PROVE  IInv' /\ TrailStep
<1> DEFINE g0 == TrailOf(call[c].op)
<1>1. /\ g0 \in Trails /\ call' = [call EXCEPT ![c] = Idle] /\ threw' = [threw EXCEPT ![g0] = @ + 1]
      /\ UNCHANGED <<token, begun>>
  BY TrailOfOp DEF IInv, Typed, Call, abi_guard, Thrown
<1> HIDE DEF g0
<1>2. call'[c] = Idle /\ \A d \in Callers \ {c} : call'[d] = call[d]
  BY <1>1 DEF IInv, Typed
<1>3. Typed'
  <2>1. call' \in [Callers -> Call]
    BY <1>1, IdleFacts DEF IInv, Typed
  <2>2. threw' \in [Trails -> Nat]
    BY <1>1 DEF IInv, Typed
  <2> QED
    BY <1>1, <2>1, <2>2 DEF IInv, Typed
<1>4. Rightful'
  BY <1>1, <1>2, IdleFacts, RightfulStep DEF IInv
<1> QED
  BY <1>3, <1>4 DEF IInv, TrailStep

(* The entry ends the call. *)
LEMMA AuditKeeps ==
    ASSUME IInv, NEW c \in Callers, Audit(c)
    PROVE  IInv' /\ TrailStep
<1>1. call' = [call EXCEPT ![c] = Idle] /\ UNCHANGED <<token, registry, exec, lic, begun, threw>>
  BY DEF Audit, state
<1>2. call'[c] = Idle /\ \A d \in Callers \ {c} : call'[d] = call[d]
  BY <1>1 DEF IInv, Typed
<1>3. Typed'
  BY <1>1, IdleFacts DEF IInv, Typed
<1>4. Rightful'
  BY <1>1, <1>2, IdleFacts, RightfulStep DEF IInv
<1> QED
  BY <1>3, <1>4 DEF IInv, TrailStep

(* Polling a trail moves its reader and nothing else. *)
LEMMA PollKeeps ==
    ASSUME IInv, NEW g \in Trails, NEW n \in 1..kCapacity, poll_audit_log(g, n)
    PROVE  IInv' /\ TrailStep
<1>1. UNCHANGED <<token, registry, exec, lic, call, begun, threw>>
  BY DEF poll_audit_log, state
<1>2. Typed' /\ Rightful'
  BY <1>1 DEF IInv, Typed, Rightful, Entitled
<1> QED
  BY <1>2 DEF IInv, TrailStep

(* A call begins. *)
LEMMA BeginKeeps ==
    ASSUME IInv, NEW c \in Callers, NEW op \in Op, NEW t \in Tenants, Begin(c, op, t)
    PROVE  IInv' /\ TrailStep
<1> DEFINE g0 == TrailOf(op)
           rec == [pc |-> IF ~is_allowed(token[c].role, Permission[op]) THEN "audit"
                          ELSE IF op = "submit" THEN "license" ELSE "resolve",
                   op |-> op, tenant |-> t, eng |-> 0, outcome |-> "Denied", bound |-> lic.required]
<1>1. /\ call[c].pc = "idle" /\ call' = [call EXCEPT ![c] = rec]
      /\ begun' = [begun EXCEPT ![g0] = @ + 1]
      /\ UNCHANGED <<token, registry, exec, lic, threw>>
  BY DEF Begin, state, trailVars
<1>2. lic.required \in BOOLEAN
  BY DEF IInv, Typed, Lic
<1>3. /\ rec \in Call /\ rec.op = op /\ rec.tenant = t /\ rec.outcome = "Denied"
      /\ rec.pc \in Working => is_allowed(token[c].role, Permission[op])
  BY <1>2 DEF Call, Outcome, Working
<1>4. g0 \in Trails
  BY TrailOfOp
<1> HIDE DEF rec, g0
<1>5. call'[c] = rec /\ \A d \in Callers \ {c} : call'[d] = call[d]
  BY <1>1 DEF IInv, Typed
<1>6. Typed'
  <2>1. call' \in [Callers -> Call]
    BY <1>1, <1>3 DEF IInv, Typed
  <2>2. begun \in [Trails -> Nat]
    BY DEF IInv, Typed
  <2>3. begun' \in [Trails -> Nat]
    <3>1. PICK b \in Nat : b = begun[g0] + 1
      BY <1>4, <2>2
    <3>2. begun' = [begun EXCEPT ![g0] = b]
      BY <1>1, <3>1
    <3> QED
      BY Zenon, <2>2, <3>2
  <2> QED
    BY <1>1, <2>1, <2>3 DEF IInv, Typed
<1>7. Rightful'
  BY <1>1, <1>3, <1>5 DEF IInv, Rightful, Entitled
<1> QED
  BY <1>6, <1>7 DEF IInv, TrailStep

(* The pin of a thread goes through no gateway and leaves no entry. *)
LEMMA PinKeeps ==
    ASSUME IInv, NEW c \in Callers,
           animus_pin_current_thread_to_core(c) \/ \E core \in 0..1 : LoadMaxCores(c, core)
    PROVE  IInv' /\ TrailStep
<1> DEFINE rec == IF call[c].pc = "idle" THEN [call[c] EXCEPT !.pc = "pin"] ELSE Idle
<1>1. /\ call[c].pc \in {"idle", "pin"} /\ call' = [call EXCEPT ![c] = rec]
      /\ UNCHANGED <<token, registry, exec, lic, trail, hist, out, begun, threw>>
  BY DEF animus_pin_current_thread_to_core, LoadMaxCores, Goto, state, trailVars
<1>2. call[c] \in Call
  BY DEF IInv, Typed
<1>3. Idle \in Call
  BY DEF Idle, Call, Op, Permission, Outcome
<1>4. /\ rec \in Call /\ rec.pc \in {"idle", "pin"}
      /\ rec.outcome = "Denied" \/ (rec.outcome = call[c].outcome /\ rec.op = call[c].op)
  BY <1>2, <1>3 DEF Call, Idle
<1> HIDE DEF rec
<1>5. call'[c] = rec /\ \A d \in Callers \ {c} : call'[d] = call[d]
  BY <1>1 DEF IInv, Typed
<1>6. Typed'
  BY <1>1, <1>4 DEF IInv, Typed
<1>7. Rightful'
  <2>1. rec.pc \notin Working
    BY <1>4 DEF Working
  <2>2. rec.outcome = "Allowed" => Entitled(c)'
    <3>1. call[c].outcome = "Allowed" => Entitled(c)
      BY DEF IInv, Rightful
    <3> QED
      BY <1>1, <1>4, <1>5, <3>1 DEF Entitled
  <2> QED
    BY <1>1, <1>5, <2>1, <2>2, RightfulStep DEF IInv
<1>8. Unowed
  BY <1>1, <1>4, <1>5 DEF Pending, Unowed
<1> QED
  BY <1>6, <1>7, <1>8 DEF IInv, TrailStep

(* Every step of a caller keeps the invariant. *)
LEMMA CallStepKeeps ==
    ASSUME IInv, NEW c \in Callers, CallStep(c)
    PROVE  IInv' /\ TrailStep
<1>0. /\ registry \in Map /\ exec \in Map /\ lic \in Lic /\ call[c] \in Call
      /\ call[c].pc \in Working => call[c].tenant \in Tenants
      /\ call[c].eng \in Engines \cup {0}
  BY DEF IInv, Typed, Rightful, Call
<1> USE DEF state, trailVars
<1>1. CASE get_tenant(c)
  <2>1. Steady /\ call[c].pc \in Working
    BY <1>0, <1>1 DEF get_tenant, Steady, Working
  <2>2. registry[call[c].tenant] \in Engines \cup {0}
    BY <1>0, <2>1 DEF Map
  <2>3. CASE ToAudit(c, "Denied")
    BY <2>1, <2>3, InnerAudit DEF Outcome
  <2>4. CASE \E pc \in {"bind", "dispatch"} : UseEngine(c, pc, registry[call[c].tenant])
    BY <2>1, <2>2, <2>4, InnerUse DEF Working
  <2> QED
    BY <1>1, <2>3, <2>4 DEF get_tenant
<1>2. CASE create_tenant(c)
  <2>1. call[c].pc \in Working /\ UNCHANGED <<token, trail, hist, out, begun, exec, lic>>
    BY <1>2 DEF create_tenant, Working
  <2>2. registry' \in Map
    <3>1. registry' = registry \/ \E e \in Engines : registry' = [registry EXCEPT ![call[c].tenant] = e]
      BY <1>2 DEF create_tenant
    <3>2. ASSUME NEW e \in Engines PROVE [registry EXCEPT ![call[c].tenant] = e] \in Map
      BY Zenon, <1>0 DEF Map
    <3> QED
      BY <1>0, <3>1, <3>2
  <2>3. CASE ToAudit(c, "Allowed") /\ UNCHANGED threw
    BY <1>0, <2>1, <2>2, <2>3, InnerAudit DEF Outcome, Steady
  <2>4. CASE abi_guard(c)
    BY <1>0, <2>1, <2>2, <2>4, ThrowKeeps DEF Thrown
  <2> QED
    BY <1>2, <2>3, <2>4 DEF create_tenant
<1>3. CASE record(c) \/ add_rule(c) \/ poll_signals(c) \/ submit(c) \/ join(c)
  <2>1. Steady /\ call[c].pc \in Working /\ Goto(c, "audit")
    BY <1>0, <1>3 DEF record, add_rule, poll_signals, submit, join, Steady, Working
  <2> QED
    BY <2>1, InnerGoto
<1>4. CASE Audit(c)
  BY <1>4, AuditKeeps
<1>5. CASE LoadRunning(c) \/ StoreRunning(c) \/ LoadRequired(c)
  <2>1. Steady /\ call[c].pc \in Working
    BY <1>0, <1>5 DEF LoadRunning, StoreRunning, LoadRequired, Steady, Working
  <2>2. \E pc \in Working \cup {"audit"} : Goto(c, pc)
    BY <1>5 DEF LoadRunning, StoreRunning, LoadRequired, Working
  <2> QED
    BY <2>1, <2>2, InnerGoto
<1>6. CASE start_thread(c)
  <2>1. call[c].pc \in Working /\ UNCHANGED <<token, registry, exec, lic, trail, hist, out, begun>>
    BY <1>6 DEF start_thread, Working
  <2>2. CASE abi_guard(c)
    BY <1>0, <2>1, <2>2, ThrowKeeps DEF Thrown
  <2>3. CASE UNCHANGED <<call, threw>>
    BY <1>0, <2>1, <2>3, Quiet DEF Steady, IInv, Typed
  <2>4. CASE Goto(c, "audit") /\ UNCHANGED threw
    BY <1>0, <2>1, <2>4, InnerGoto DEF Steady
  <2> QED
    BY <1>6, <2>2, <2>3, <2>4 DEF start_thread
<1>7. CASE joinable(c)
  <2>1. Steady /\ call[c].pc \in Working
    BY <1>0, <1>7 DEF joinable, Steady, Working
  <2>2. CASE UNCHANGED call
    BY <2>1, <2>2, Quiet DEF IInv, Typed
  <2>3. CASE \E pc \in {"audit", "join"} : Goto(c, pc)
    BY <2>1, <2>3, InnerGoto DEF Working
  <2> QED
    BY <1>7, <2>2, <2>3 DEF joinable
<1>8. CASE create_execution_tenant(c)
  <2>1. call[c].pc \in Working /\ UNCHANGED <<token, registry, lic, trail, hist, out, begun>>
    BY <1>8 DEF create_execution_tenant, Working
  <2>2. exec' \in Map
    BY <1>0, <1>8 DEF create_execution_tenant, Map
  <2>3. CASE Goto(c, "audit") /\ UNCHANGED threw
    BY <1>0, <2>1, <2>2, <2>3, InnerGoto DEF Steady
  <2>4. CASE abi_guard(c)
    BY <1>0, <2>1, <2>2, <2>4, ThrowKeeps DEF Thrown
  <2> QED
    BY <1>8, <2>3, <2>4 DEF create_execution_tenant
<1>9. CASE animus_is_licensed(c)
  <2>1. Steady /\ call[c].pc \in Working
    BY <1>0, <1>9 DEF animus_is_licensed, Steady, Working
  <2>2. CASE Goto(c, "client")
    BY <2>1, <2>2, InnerGoto DEF Working
  <2>3. CASE ToAudit(c, "Denied")
    BY <2>1, <2>3, InnerAudit DEF Outcome
  <2> QED
    BY <1>9, <2>2, <2>3 DEF animus_is_licensed
<1>10. CASE FindClient(c)
  <2>1. Steady /\ call[c].pc \in Working
    BY <1>0, <1>10 DEF FindClient, Steady, Working
  <2>2. exec[call[c].tenant] \in Engines \cup {0}
    BY <1>0, <2>1 DEF Map
  <2>3. CASE ToAudit(c, "Denied")
    BY <2>1, <2>3, InnerAudit DEF Outcome
  <2>4. CASE UseEngine(c, "submit", exec[call[c].tenant])
    BY <2>1, <2>2, <2>4, InnerUse DEF Working
  <2> QED
    BY <1>10, <2>3, <2>4 DEF FindClient
<1>11. CASE \E core \in 0..1 : LoadMaxCores(c, core)
  BY <1>11, PinKeeps
<1> QED
  BY <1>1, <1>2, <1>3, <1>4, <1>5, <1>6, <1>7, <1>8, <1>9, <1>10, <1>11 DEF CallStep

(* So does every step of the rest of the process. *)
LEMMA OtherStepKeeps ==
    ASSUME IInv, Background \/ Owner
    PROVE  IInv' /\ TrailStep
<1>0. registry \in Map /\ exec \in Map /\ lic \in Lic /\ call \in [Callers -> Call]
  BY DEF IInv, Typed
<1> USE DEF trailVars
<1>1. CASE \E e \in Engines : WorkerEnds(e) \/ EngineDestroyed(e)
  <2>1. Steady /\ UNCHANGED call
    BY <1>0, <1>1 DEF WorkerEnds, EngineDestroyed, Steady
  <2> QED
    BY <1>0, <2>1, Quiet
<1>2. CASE LicenseVerified
  <2>1. lic' \in Lic
    BY Zenon, <1>0, <1>2 DEF LicenseVerified, Lic
  <2>2. Steady /\ UNCHANGED call
    BY <1>0, <1>2, <2>1 DEF LicenseVerified, Steady
  <2> QED
    BY <1>0, <2>2, Quiet
<1>3. CASE \E t \in Tenants : remove_tenant(t)
  <2>1. registry' \in Map
    BY <1>0, <1>3 DEF remove_tenant, Map
  <2>2. Steady /\ UNCHANGED call
    BY <1>0, <1>3, <2>1 DEF remove_tenant, Steady
  <2> QED
    BY <1>0, <2>2, Quiet
<1>4. CASE \E f \in Licences : f.max_cores \in scenario.cores /\ animus_verify_license(f)
  <2>1. PICK f \in Licences : animus_verify_license(f)
    BY <1>4
  <2>2. f.max_cores \in Nat
    BY DEF Licences, LicensePayload
  <2>3. lic' \in Lic
    BY Zenon, <1>0, <2>1, <2>2 DEF animus_verify_license, Lic
  <2>4. Steady /\ UNCHANGED call
    BY <1>0, <2>1, <2>3 DEF animus_verify_license, Steady
  <2> QED
    BY <1>0, <2>4, Quiet
<1>5. CASE \E required \in BOOLEAN : set_execution_license_required(required)
  <2>1. PICK required \in BOOLEAN : set_execution_license_required(required)
    BY <1>5
  <2>2. lic' \in Lic
    BY <1>0, <2>1 DEF set_execution_license_required, Lic
  <2>3. Steady /\ call' = [c \in Callers |-> [call[c] EXCEPT !.bound = @ /\ required]]
    BY <1>0, <2>1, <2>2 DEF set_execution_license_required, Steady
  <2>4. ASSUME NEW c \in Callers
        PROVE  /\ call'[c] \in Call
               /\ call'[c].op = call[c].op /\ call'[c].tenant = call[c].tenant
               /\ call'[c].pc = call[c].pc /\ call'[c].outcome = call[c].outcome
    BY <1>0, <2>3 DEF Call
  <2>5. call' \in [Callers -> Call]
    BY <2>3, <2>4
  <2> QED
    BY <2>3, <2>4, <2>5, Quiet
<1>6. CASE \E g \in Trails, max_count \in 1..kCapacity : poll_audit_log(g, max_count)
  BY <1>6, PollKeeps
<1> QED
  BY <1>1, <1>2, <1>3, <1>4, <1>5, <1>6 DEF Background, Owner

(* Every step of the gateways, the owner and the workers. *)
LEMMA NextInv == IInv /\ [Next]_vars => IInv' /\ TrailStep
<1> SUFFICES ASSUME IInv, [Next]_vars PROVE IInv' /\ TrailStep
  OBVIOUS
<1>1. CASE \E c \in Callers : CallStep(c)
  BY <1>1, CallStepKeeps
<1>2. CASE \E c \in Callers : NewCall(c)
  BY <1>2, BeginKeeps, PinKeeps DEF NewCall
<1>3. CASE Background \/ Owner
  BY <1>3, OtherStepKeeps
<1>4. CASE UNCHANGED vars
  <2>1. Steady /\ UNCHANGED call /\ call \in [Callers -> Call]
    BY <1>4 DEF vars, Steady, IInv, Typed
  <2> QED
    BY <2>1, Quiet
<1> QED
  BY <1>1, <1>2, <1>3, <1>4 DEF Next

(* Calls are what their steps say. *)
LEMMA Invariant == Spec => []IInv
  BY InitInv, NextInv, PTL DEF Spec

-----------------------------------------------------------------------------
(* Tenants and engines. *)

Eng ==
    [owner : Tenants \cup {0}, live : BOOLEAN, from : SUBSET Tenants, running_ : BOOLEAN,
     worker : {"none", "running", "ended"}]
Ghost ==
    [removals : Nat, removedInUse : BOOLEAN, overlapped : BOOLEAN, noThread : BOOLEAN, terminated : BOOLEAN]
EnginesTyped == engine \in [Engines -> Eng] /\ removing \in Tenants \cup {0} /\ ghost \in Ghost

(* Which operation a call is in follows from the step it is at, and what   *)
(* names no tenant is about the tenant of the token.                       *)
Lane ==
    \A c \in Callers :
        /\ call[c].pc \in Working /\ call[c].op \notin {"create_tenant", "create_execution_tenant"}
              => call[c].tenant = token[c].tenant
        /\ call[c].pc \in {"license", "is_licensed", "client", "submit"} => call[c].op = "submit"

(* A tenant has at most one engine, and only the one being destroyed is    *)
(* no longer in the registry.                                              *)
Registered ==
    /\ \A t \in Tenants : registry[t] # 0 =>
          engine[registry[t]].live /\ engine[registry[t]].owner = t /\ t # removing
    /\ \A e \in Engines : engine[e].live =>
          engine[e].owner \in Tenants /\ (registry[engine[e].owner] = e \/ engine[e].owner = removing)
    /\ \A e, f \in Engines : engine[e].live /\ engine[f].live /\ engine[e].owner = engine[f].owner => e = f

Bound == \A t \in Tenants : exec[t] # 0 => engine[exec[t]].live /\ engine[exec[t]].owner = t

Users ==
    \A c \in Callers : UsesEngine(c) =>
        call[c].eng \in Engines /\ engine[call[c].eng].live /\ engine[call[c].eng].owner = call[c].tenant

(* Unless it was in use, nothing refers to the engine being destroyed.     *)
Condemned ==
    removing # 0 /\ ~ghost.removedInUse =>
        exec[removing] = 0 /\ \A c \in Callers : UsesEngine(c) => call[c].tenant # removing

Own == \A e \in Engines : engine[e].from \subseteq {engine[e].owner}

Iso == EnginesTyped /\ Lane /\ Registered /\ Bound /\ Users /\ Condemned /\ Own

(* What a created and a destroyed engine look like. *)
LEMMA EngineFacts ==
    /\ \A t \in Tenants : /\ NewEngine(t) \in Eng /\ NewEngine(t).owner = t
                          /\ NewEngine(t).live = TRUE /\ NewEngine(t).from = {}
    /\ NoEngine \in Eng /\ NoEngine.owner = 0 /\ NoEngine.live = FALSE /\ NoEngine.from = {}
<1>1. ASSUME NEW t \in Tenants
      PROVE  NewEngine(t) \in Eng /\ NewEngine(t).owner = t /\ NewEngine(t).live = TRUE /\ NewEngine(t).from = {}
  BY DEF NewEngine, Eng
<1>2. NoEngine \in Eng /\ NoEngine.owner = 0 /\ NoEngine.live = FALSE /\ NoEngine.from = {}
  BY DEF NoEngine, Eng
<1> QED
  BY Zenon, <1>1, <1>2

(* A process starts without engines. *)
LEMMA InitIso == Init => Iso
<1> SUFFICES ASSUME Init PROVE Iso
  OBVIOUS
<1>1. PICK f \in [Tenants -> Engines] :
          /\ \A s, t \in Tenants : s < t => f[s] < f[t]
          /\ registry = [t \in Tenants |-> IF t \in scenario.tenants THEN f[t] ELSE 0]
  BY Zenon DEF Init
<1>2. Tenants \subseteq Nat /\ Engines \subseteq Nat /\ 0 \notin Engines /\ 0 \notin Tenants
  OBVIOUS
<1>3. ASSUME NEW s \in Tenants, NEW t \in Tenants, s # t PROVE f[s] # f[t]
  <2>1. s < t \/ t < s
    BY <1>2, <1>3
  <2>2. f[s] \in Nat /\ f[t] \in Nat
    BY <1>2
  <2> QED
    BY <1>1, <2>1, <2>2
<1>4. ASSUME NEW s \in Tenants, NEW t \in Tenants, registry[s] # 0, registry[s] = registry[t] PROVE s = t
  BY <1>1, <1>3, <1>4
<1>5. ASSUME NEW e \in Engines
      PROVE  \/ engine[e] = NoEngine /\ ~\E t \in Tenants : registry[t] = e
             \/ \E t \in Tenants : registry[t] = e /\ engine[e] = NewEngine(t)
  <2>1. engine[e] = IF \E t \in Tenants : registry[t] = e
                    THEN NewEngine(CHOOSE t \in Tenants : registry[t] = e) ELSE NoEngine
    BY DEF Init
  <2>2. CASE \E t \in Tenants : registry[t] = e
    <3>1. PICK t \in Tenants : registry[t] = e /\ t = CHOOSE u \in Tenants : registry[u] = e
      BY <2>2
    <3> QED
      BY Zenon, <2>1, <2>2, <3>1
  <2>3. CASE ~\E t \in Tenants : registry[t] = e
    BY <2>1, <2>3
  <2> QED
    BY <2>2, <2>3
<1>6. ASSUME NEW t \in Tenants, registry[t] # 0 PROVE registry[t] \in Engines /\ engine[registry[t]] = NewEngine(t)
  <2>1. registry[t] \in Engines
    BY <1>1, <1>6
  <2> QED
    BY <2>1, <1>4, <1>5, <1>6
<1>7. EnginesTyped
  <2>1. \A e \in Engines : engine[e] \in Eng
    BY <1>5, EngineFacts
  <2> QED
    BY Zenon, <2>1 DEF Init, EnginesTyped, Ghost
<1>8. Registered
  <2>1. ASSUME NEW t \in Tenants, registry[t] # 0
        PROVE  engine[registry[t]].live /\ engine[registry[t]].owner = t /\ t # removing
    BY <2>1, <1>2, <1>6, EngineFacts DEF Init
  <2>2. ASSUME NEW e \in Engines, engine[e].live
        PROVE  engine[e].owner \in Tenants /\ registry[engine[e].owner] = e
    BY <2>2, <1>5, EngineFacts
  <2> QED
    BY <2>1, <2>2 DEF Registered
<1>9. Own
  BY <1>5, EngineFacts DEF Own
<1>10. \A c \in Callers : call[c].pc = "idle"
  BY DEF Init, Idle
<1>11. Lane /\ Users
  BY <1>10 DEF Lane, Users, UsesEngine, InControl, Working
<1>12. Bound /\ Condemned
  BY DEF Init, Bound, Condemned
<1> QED
  BY <1>7, <1>8, <1>9, <1>11, <1>12 DEF Iso

-----------------------------------------------------------------------------
(* What a step of a call may do to engines: hand its own engine events of  *)
(* its owner, start or stop a worker.                                      *)
Modest ==
    /\ engine' \in [Engines -> Eng] /\ ghost' \in Ghost
    /\ \A e \in Engines : /\ engine'[e].live = engine[e].live /\ engine'[e].owner = engine[e].owner
                         /\ engine'[e].from \subseteq {engine[e].owner}
    /\ ghost'.removedInUse = ghost.removedInUse
    /\ UNCHANGED <<token, registry, removing>>

(* A modest step leaves every engine registered where it was. *)
LEMMA RegisteredKept ==
    ASSUME Iso, Modest, registry \in Map
    PROVE  Registered'
<1>1. registry' = registry /\ removing' = removing
  BY DEF Modest
<1>2. \A e \in Engines : engine'[e].live = engine[e].live /\ engine'[e].owner = engine[e].owner
  BY DEF Modest
<1>3. ASSUME NEW t \in Tenants, registry[t] # 0
      PROVE  engine'[registry[t]].live /\ engine'[registry[t]].owner = t /\ t # removing
  <2>1. registry[t] \in Engines
    BY <1>3 DEF Map
  <2>2. engine[registry[t]].live /\ engine[registry[t]].owner = t /\ t # removing
    BY <1>3 DEF Iso, Registered
  <2> QED
    BY <1>2, <2>1, <2>2
<1>4. ASSUME NEW e \in Engines, engine'[e].live
      PROVE  engine'[e].owner \in Tenants /\ (registry[engine'[e].owner] = e \/ engine'[e].owner = removing)
  <2>1. engine[e].live /\ engine'[e].owner = engine[e].owner
    BY <1>2, <1>4
  <2>2. engine[e].owner \in Tenants /\ (registry[engine[e].owner] = e \/ engine[e].owner = removing)
    BY <2>1 DEF Iso, Registered
  <2> QED
    BY <2>1, <2>2
<1>5. ASSUME NEW e \in Engines, NEW f \in Engines, engine'[e].live, engine'[f].live,
             engine'[e].owner = engine'[f].owner
      PROVE  e = f
  <2>1. engine[e].live /\ engine[f].live /\ engine[e].owner = engine[f].owner
    BY <1>2, <1>5
  <2> QED
    BY <2>1 DEF Iso, Registered
<1> QED
  BY Zenon, <1>1, <1>3, <1>4, <1>5 DEF Registered

(* The engine that call c goes through after the step, if any, is its      *)
(* tenant's, and that tenant is not being removed.                         *)
LEMMA Step ==
    ASSUME Iso, IInv', NEW c \in Callers, Modest, Lane',
           \A d \in Callers \ {c} : call'[d] = call[d],
           UsesEngine(c)' =>
               /\ call'[c].eng \in Engines /\ engine[call'[c].eng].live
               /\ engine[call'[c].eng].owner = call'[c].tenant
               /\ removing # 0 /\ ~ghost.removedInUse => call'[c].tenant # removing,
           \A t \in Tenants : \/ exec'[t] = exec[t]
                              \/ UsesEngine(c) /\ call[c].tenant = t /\ exec'[t] = call[c].eng
    PROVE  Iso'
<1>1. EnginesTyped'
  BY DEF Iso, EnginesTyped, Modest
<1>2. Registered'
  BY RegisteredKept DEF IInv, Typed, Modest
<1>3. \A t \in Tenants : exec'[t] \in Engines \cup {0}
  BY DEF IInv, Typed, Map
<1>4. Bound'
  <2> SUFFICES ASSUME NEW t \in Tenants, exec'[t] # 0
               PROVE  engine'[exec'[t]].live /\ engine'[exec'[t]].owner = t
    BY DEF Bound
  <2>1. exec'[t] \in Engines
    BY <1>3
  <2>2. engine[exec'[t]].live /\ engine[exec'[t]].owner = t
    BY DEF Iso, Bound, Users
  <2> QED
    BY Zenon, <2>1, <2>2 DEF Modest
<1>5. \A d \in Callers \ {c} : UsesEngine(d)' <=> UsesEngine(d)
  BY DEF UsesEngine, InControl
<1>6. Users'
  <2> SUFFICES ASSUME NEW d \in Callers, UsesEngine(d)'
               PROVE  /\ call'[d].eng \in Engines
                      /\ engine'[call'[d].eng].live /\ engine'[call'[d].eng].owner = call'[d].tenant
    BY Zenon DEF Users
  <2>1. /\ call'[d].eng \in Engines
        /\ engine[call'[d].eng].live /\ engine[call'[d].eng].owner = call'[d].tenant
    <3>1. CASE d = c
      BY <3>1
    <3>2. CASE d # c
      <4>1. call'[d] = call[d] /\ UsesEngine(d)
        BY <3>2, <1>5
      <4> QED
        BY <4>1 DEF Iso, Users
    <3> QED
      BY <3>1, <3>2
  <2> QED
    BY <2>1 DEF Modest
<1>7. Condemned'
  <2> SUFFICES ASSUME removing # 0, ~ghost.removedInUse
               PROVE  exec'[removing] = 0 /\ \A d \in Callers : UsesEngine(d)' => call'[d].tenant # removing
    BY DEF Condemned, Modest
  <2>1. removing \in Tenants /\ exec[removing] = 0 /\ \A d \in Callers : UsesEngine(d) => call[d].tenant # removing
    BY DEF Iso, Condemned, EnginesTyped
  <2> QED
    BY <2>1, <1>5
<1>8. Own'
  BY Zenon DEF Own, Modest
<1> QED
  BY <1>1, <1>2, <1>4, <1>6, <1>7, <1>8 DEF Iso

(* Every caller but one stays where it is. *)
OthersStay(c) == \A d \in Callers \ {c} : call'[d] = call[d]

(* A step of one call concerns its own lane only. *)
LEMMA LaneStep ==
    ASSUME Lane, NEW c \in Callers, OthersStay(c), UNCHANGED token,
           /\ call'[c].pc \in Working /\ call'[c].op \notin {"create_tenant", "create_execution_tenant"}
                 => call'[c].tenant = token[c].tenant
           /\ call'[c].pc \in {"license", "is_licensed", "client", "submit"} => call'[c].op = "submit"
    PROVE  Lane'
<1> SUFFICES ASSUME NEW d \in Callers
             PROVE  /\ call'[d].pc \in Working /\ call'[d].op \notin {"create_tenant", "create_execution_tenant"}
                          => call'[d].tenant = token'[d].tenant
                    /\ call'[d].pc \in {"license", "is_licensed", "client", "submit"} => call'[d].op = "submit"
  BY DEF Lane
<1>1. CASE d = c
  BY <1>1
<1>2. CASE d # c
  BY <1>2 DEF Lane, OthersStay
<1> QED
  BY <1>1, <1>2

(* Fields of a call after the assignments of the model. *)
LEMMA CallFields ==
    ASSUME IInv, NEW c \in Callers
    PROVE  /\ \A pc : Goto(c, pc) =>
                 /\ OthersStay(c) /\ call'[c].pc = pc /\ call'[c].op = call[c].op
                 /\ call'[c].tenant = call[c].tenant /\ call'[c].eng = call[c].eng
           /\ \A o : ToAudit(c, o) => OthersStay(c) /\ call'[c].pc = "audit"
           /\ \A pc, e : UseEngine(c, pc, e) =>
                 /\ OthersStay(c) /\ call'[c].pc = pc /\ call'[c].op = call[c].op
                 /\ call'[c].tenant = call[c].tenant /\ call'[c].eng = e
           /\ call' = [call EXCEPT ![c] = Idle] => OthersStay(c) /\ call'[c].pc = "idle"
<1>1. call \in [Callers -> Call] /\ call[c] \in Call
  BY DEF IInv, Typed
<1>2. ASSUME NEW pc, Goto(c, pc)
      PROVE  /\ OthersStay(c) /\ call'[c].pc = pc /\ call'[c].op = call[c].op
             /\ call'[c].tenant = call[c].tenant /\ call'[c].eng = call[c].eng
  BY <1>1, <1>2 DEF Goto, OthersStay, Call
<1>3. ASSUME NEW o, ToAudit(c, o)
      PROVE  OthersStay(c) /\ call'[c].pc = "audit"
  BY <1>1, <1>3 DEF ToAudit, OthersStay, Call
<1>4. ASSUME NEW pc, NEW e, UseEngine(c, pc, e)
      PROVE  /\ OthersStay(c) /\ call'[c].pc = pc /\ call'[c].op = call[c].op
             /\ call'[c].tenant = call[c].tenant /\ call'[c].eng = e
  BY <1>1, <1>4 DEF UseEngine, OthersStay, Call
<1>5. ASSUME call' = [call EXCEPT ![c] = Idle]
      PROVE  OthersStay(c) /\ call'[c].pc = "idle"
  BY <1>1, <1>5 DEF OthersStay, Idle
<1> QED
  BY <1>2, <1>3, <1>4, <1>5

(* A step to a place from which no engine is reached. *)
LEMMA StepAway ==
    ASSUME Iso, IInv', NEW c \in Callers, Modest, OthersStay(c),
           call'[c].pc \in {"idle", "audit", "pin"} \/ (call'[c].pc \in {"is_licensed", "client"} /\ call[c].op = "submit"
               /\ call[c].pc \in Working /\ call'[c].op = call[c].op /\ call'[c].tenant = call[c].tenant),
           \A t \in Tenants : \/ exec'[t] = exec[t]
                              \/ UsesEngine(c) /\ call[c].tenant = t /\ exec'[t] = call[c].eng
    PROVE  Iso'
<1>1. ~UsesEngine(c)'
  BY DEF UsesEngine, InControl
<1>2. Lane'
  BY Zenon, LaneStep DEF Iso, Lane, Working, Modest
<1> QED
  BY <1>1, <1>2, Step DEF OthersStay

(* A step along one engine. *)
LEMMA StepAlong ==
    ASSUME Iso, IInv', NEW c \in Callers, Modest, OthersStay(c), UNCHANGED exec, UsesEngine(c),
           call'[c].pc \in {"start_store", "start_thread", "stop_store", "joinable", "join"},
           call'[c].op = call[c].op, call'[c].tenant = call[c].tenant, call'[c].eng = call[c].eng
    PROVE  Iso'
<1>1. call[c].pc \in Working
  BY DEF UsesEngine, InControl, Working
<1>2. Lane'
  BY Zenon, <1>1, LaneStep DEF Iso, Lane, Modest
<1>3. /\ call'[c].eng \in Engines /\ engine[call'[c].eng].live /\ engine[call'[c].eng].owner = call'[c].tenant
      /\ removing # 0 /\ ~ghost.removedInUse => call'[c].tenant # removing
  BY Zenon DEF Iso, Users, Condemned
<1> QED
  BY <1>2, <1>3, Step DEF OthersStay

-----------------------------------------------------------------------------
(* Steps that leave the engines as they are are modest. *)
LEMMA EnginesLeft ==
    ASSUME Iso, UNCHANGED <<token, registry, removing, engine>>,
           ghost' = ghost \/ \E b \in BOOLEAN : \/ ghost' = [ghost EXCEPT !.overlapped = b]
                                              \/ ghost' = [ghost EXCEPT !.noThread = b]
                                              \/ ghost' = [ghost EXCEPT !.terminated = b]
    PROVE  Modest
<1>1. ghost' \in Ghost /\ ghost'.removedInUse = ghost.removedInUse
  BY DEF Iso, EnginesTyped, Ghost
<1> QED
  BY <1>1 DEF Iso, EnginesTyped, Own, Modest

(* So are steps that set the worker or its flag of one engine. *)
LEMMA WorkerSet ==
    ASSUME Iso, NEW e \in Engines, UNCHANGED <<token, registry, removing, ghost>>,
           \/ \E b \in BOOLEAN : engine' = [engine EXCEPT ![e].running_ = b]
           \/ \E w \in {"none", "running", "ended"} : engine' = [engine EXCEPT ![e].worker = w]
    PROVE  Modest
<1>1. engine \in [Engines -> Eng] /\ engine[e] \in Eng
  BY DEF Iso, EnginesTyped
<1>2. PICK r \in Eng : /\ engine' = [engine EXCEPT ![e] = r]
                       /\ r.owner = engine[e].owner /\ r.live = engine[e].live /\ r.from = engine[e].from
  <2>1. CASE \E b \in BOOLEAN : engine' = [engine EXCEPT ![e].running_ = b]
    <3>1. PICK b \in BOOLEAN : engine' = [engine EXCEPT ![e] = [engine[e] EXCEPT !.running_ = b]]
      BY Zenon, <2>1
    <3> DEFINE r == [engine[e] EXCEPT !.running_ = b]
    <3>2. /\ r \in Eng /\ engine' = [engine EXCEPT ![e] = r]
          /\ r.owner = engine[e].owner /\ r.live = engine[e].live /\ r.from = engine[e].from
      BY <1>1, <3>1 DEF Eng
    <3> HIDE DEF r
    <3> QED
      BY Zenon, <3>2
  <2>2. CASE \E w \in {"none", "running", "ended"} : engine' = [engine EXCEPT ![e].worker = w]
    <3>1. PICK w \in {"none", "running", "ended"} : engine' = [engine EXCEPT ![e] = [engine[e] EXCEPT !.worker = w]]
      BY Zenon, <2>2
    <3> DEFINE r == [engine[e] EXCEPT !.worker = w]
    <3>2. /\ r \in Eng /\ engine' = [engine EXCEPT ![e] = r]
          /\ r.owner = engine[e].owner /\ r.live = engine[e].live /\ r.from = engine[e].from
      BY <1>1, <3>1 DEF Eng
    <3> HIDE DEF r
    <3> QED
      BY Zenon, <3>2
  <2> QED
    BY <2>1, <2>2
<1> QED
  BY <1>1, <1>2 DEF Iso, EnginesTyped, Own, Modest

(* And so is handing an engine an event of its own tenant. *)
LEMMA ReceivedModest ==
    ASSUME Iso, IInv, NEW c \in Callers, UsesEngine(c), call[c].tenant = token[c].tenant, Received(c),
           UNCHANGED <<token, registry, removing, ghost>>
    PROVE  Modest
<1> DEFINE e == call[c].eng
<1>1. /\ engine \in [Engines -> Eng] /\ e \in Engines /\ engine[e] \in Eng
      /\ engine[e].owner = token[c].tenant /\ token[c].tenant \in Tenants
  BY DEF Iso, EnginesTyped, Users, IInv, Typed
<1>2. CASE UNCHANGED engine
  BY <1>2, EnginesLeft
<1>3. CASE engine' = [engine EXCEPT ![e].from = @ \cup {token[c].tenant}]
  <2> DEFINE r == [engine[e] EXCEPT !.from = @ \cup {token[c].tenant}]
  <2>1. engine' = [engine EXCEPT ![e] = r]
    BY <1>3
  <2>2. /\ r \in Eng /\ r.owner = engine[e].owner /\ r.live = engine[e].live
        /\ r.from = engine[e].from \cup {token[c].tenant}
    BY <1>1 DEF Eng
  <2> HIDE DEF r, e
  <2> QED
    BY <1>1, <2>1, <2>2 DEF Iso, EnginesTyped, Own, Modest
<1> QED
  BY <1>2, <1>3 DEF Received

-----------------------------------------------------------------------------
(* A new engine is its tenant's only one. *)
LEMMA Created ==
    ASSUME Iso, IInv, NEW c \in Callers, NEW t \in Tenants, NEW e \in Engines,
           ~engine[e].live, registry[t] = 0, removing = 0,
           engine' = [engine EXCEPT ![e] = NewEngine(t)], registry' = [registry EXCEPT ![t] = e],
           UNCHANGED <<token, removing, exec, ghost>>, OthersStay(c), call'[c].pc \in {"idle", "audit"}
    PROVE  Iso'
<1>1. /\ engine \in [Engines -> Eng] /\ registry \in Map /\ exec \in Map /\ 0 \notin Engines /\ 0 \notin Tenants
  BY DEF Iso, EnginesTyped, IInv, Typed
<1>2. /\ engine'[e] = NewEngine(t) /\ \A f \in Engines \ {e} : engine'[f] = engine[f]
      /\ registry'[t] = e /\ \A s \in Tenants \ {t} : registry'[s] = registry[s]
  BY <1>1 DEF Map
<1>3. \A f \in Engines : engine[f].live => engine[f].owner \in Tenants /\ registry[engine[f].owner] = f
  BY <1>1 DEF Iso, Registered
<1>4. EnginesTyped'
  BY <1>1, EngineFacts DEF Iso, EnginesTyped
<1>5. Registered'
  <2>1. ASSUME NEW s \in Tenants, registry'[s] # 0
        PROVE  engine'[registry'[s]].live /\ engine'[registry'[s]].owner = s /\ s # removing'
    <3>1. CASE s = t
      BY <1>1, <1>2, <3>1, EngineFacts
    <3>2. CASE s # t
      <4>1. registry[s] \in Engines /\ registry'[s] = registry[s]
        BY <1>1, <1>2, <2>1, <3>2 DEF Map
      <4>2. engine[registry[s]].live /\ engine[registry[s]].owner = s
        BY <2>1, <4>1 DEF Iso, Registered
      <4> QED
        BY <1>1, <1>2, <4>1, <4>2
    <3> QED
      BY <3>1, <3>2
  <2>2. ASSUME NEW f \in Engines, engine'[f].live
        PROVE  engine'[f].owner \in Tenants /\ registry'[engine'[f].owner] = f
    <3>1. CASE f = e
      BY <3>1, <1>2, EngineFacts
    <3>2. CASE f # e
      <4>1. engine'[f] = engine[f] /\ engine[f].live
        BY <3>2, <1>2, <2>2
      <4>2. PICK s \in Tenants : s = engine[f].owner /\ registry[s] = f
        BY <4>1, <1>3
      <4>3. s # t
        BY <4>2, <1>1
      <4> QED
        BY <1>2, <4>1, <4>2, <4>3
    <3> QED
      BY <3>1, <3>2
  <2> QED
    BY <2>1, <2>2 DEF Registered
<1>6. Bound'
  <2> SUFFICES ASSUME NEW s \in Tenants, exec[s] # 0
               PROVE  engine'[exec[s]].live /\ engine'[exec[s]].owner = s
    BY DEF Bound
  <2>1. exec[s] \in Engines /\ engine[exec[s]].live /\ engine[exec[s]].owner = s
    BY <1>1 DEF Map, Iso, Bound
  <2> QED
    BY <1>2, <2>1
<1>7. ~UsesEngine(c)' /\ \A d \in Callers \ {c} : UsesEngine(d)' <=> UsesEngine(d)
  BY DEF UsesEngine, InControl, OthersStay
<1>8. Users'
  <2> SUFFICES ASSUME NEW d \in Callers, UsesEngine(d)'
               PROVE  /\ call'[d].eng \in Engines
                      /\ engine'[call'[d].eng].live /\ engine'[call'[d].eng].owner = call'[d].tenant
    BY DEF Users
  <2>1. d # c /\ UsesEngine(d) /\ call'[d] = call[d]
    BY <1>7 DEF OthersStay
  <2>2. call[d].eng \in Engines /\ engine[call[d].eng].live /\ engine[call[d].eng].owner = call[d].tenant
    BY <2>1 DEF Iso, Users
  <2>3. engine'[call[d].eng] = engine[call[d].eng]
    BY <1>2, <2>2
  <2> QED
    BY <2>1, <2>2, <2>3
<1>9. Condemned'
  BY DEF Condemned
<1>10. Own'
  BY <1>2, EngineFacts DEF Iso, Own
<1>11. Lane'
  BY LaneStep DEF Iso, Working
<1> QED
  BY <1>4, <1>5, <1>6, <1>8, <1>9, <1>10, <1>11 DEF Iso

(* Every step inside a call keeps to the engine of its tenant. *)
LEMMA CallStepIso ==
    ASSUME Iso, IInv, IInv', NEW c \in Callers, CallStep(c)
    PROVE  Iso'
<1>0. /\ ghost \in Ghost /\ registry \in Map /\ exec \in Map
      /\ call[c].pc \in Working => call[c].tenant \in Tenants
  BY DEF Iso, EnginesTyped, IInv, Typed, Rightful
<1> USE DEF state, trailVars
<1>1. CASE get_tenant(c)
  <2>1. Modest /\ UNCHANGED exec /\ call[c].pc = "resolve" /\ removing = 0
    BY <1>1, EnginesLeft DEF get_tenant
  <2>2. CASE ToAudit(c, "Denied")
    BY Zenon, <2>1, <2>2, CallFields, StepAway
  <2>3. CASE /\ registry[call[c].tenant] # 0
             /\ \E pc \in {"bind", "dispatch"} : UseEngine(c, pc, registry[call[c].tenant])
    <3>1. /\ OthersStay(c) /\ call'[c].pc \in {"bind", "dispatch"} /\ call'[c].op = call[c].op
          /\ call'[c].tenant = call[c].tenant /\ call'[c].eng = registry[call[c].tenant]
      <4>1. PICK pc \in {"bind", "dispatch"} : UseEngine(c, pc, registry[call[c].tenant])
        BY <2>3
      <4>2. PICK e : e = registry[call[c].tenant]
        OBVIOUS
      <4>3. UseEngine(c, pc, e)
        BY <4>1, <4>2
      <4>4. /\ OthersStay(c) /\ call'[c].pc = pc /\ call'[c].op = call[c].op
            /\ call'[c].tenant = call[c].tenant /\ call'[c].eng = e
        BY <4>3, CallFields
      <4> QED
        BY Zenon, <4>2, <4>4
    <3>2. call[c].tenant \in Tenants
      BY <1>0, <2>1 DEF Working
    <3>3. /\ call'[c].eng \in Engines /\ engine[call'[c].eng].live /\ engine[call'[c].eng].owner = call'[c].tenant
      <4>1. PICK t \in Tenants : t = call[c].tenant
        BY <3>2
      <4>2. registry[t] \in Engines
        BY <1>0, <2>3, <4>1 DEF Map
      <4>3. engine[registry[t]].live /\ engine[registry[t]].owner = t
        BY <2>3, <4>1 DEF Iso, Registered
      <4> QED
        BY <3>1, <4>1, <4>2, <4>3
    <3>4. Lane'
      BY Zenon, <2>1, <3>1, LaneStep DEF Iso, Lane, Modest, Working
    <3> QED
      BY Zenon, <2>1, <3>1, <3>3, <3>4, Step DEF OthersStay
  <2> QED
    BY Zenon, <1>1, <2>2, <2>3 DEF get_tenant
<1>3. CASE record(c) \/ submit(c)
  <2>1. UsesEngine(c) /\ call[c].tenant = token[c].tenant
    BY Zenon, <1>3 DEF record, submit, UsesEngine, Iso, Lane, Working
  <2>2. Modest /\ Goto(c, "audit") /\ UNCHANGED exec
    BY Zenon, <1>3, <2>1, ReceivedModest DEF record, submit
  <2> QED
    BY Zenon, <2>2, CallFields, StepAway
<1>4. CASE add_rule(c) \/ poll_signals(c)
  <2>1. Modest /\ Goto(c, "audit") /\ UNCHANGED exec
    BY <1>4, EnginesLeft DEF add_rule, poll_signals
  <2> QED
    BY Zenon, <2>1, CallFields, StepAway
<1>5. CASE Audit(c)
  <2>1. Modest /\ call' = [call EXCEPT ![c] = Idle] /\ UNCHANGED exec
    BY <1>5, EnginesLeft DEF Audit
  <2> QED
    BY Zenon, <2>1, CallFields, StepAway
<1>6. CASE LoadRunning(c)
  <2>1. UsesEngine(c)
    BY <1>6 DEF LoadRunning, UsesEngine
  <2>2. Modest /\ UNCHANGED exec
    <3> DEFINE b == ghost.overlapped \/ Contended(c)
    <3>1. b \in BOOLEAN
      OBVIOUS
    <3>2. ghost' = [ghost EXCEPT !.overlapped = b]
      BY <1>6 DEF LoadRunning, Overlap
    <3> HIDE DEF b
    <3> QED
      BY <1>6, <3>1, <3>2, EnginesLeft DEF LoadRunning
  <2>3. CASE Goto(c, "audit")
    BY Zenon, <2>2, <2>3, CallFields, StepAway
  <2>4. CASE \E pc \in {"start_store", "stop_store"} : Goto(c, pc)
    BY <2>1, <2>2, <2>4, CallFields, StepAlong
  <2> QED
    BY <1>6, <2>3, <2>4 DEF LoadRunning
<1>7. CASE StoreRunning(c)
  <2>1. UsesEngine(c) /\ call[c].eng \in Engines
    BY <1>7 DEF StoreRunning, UsesEngine, InControl, Iso, Users
  <2>2. Modest /\ UNCHANGED exec
    BY Zenon, <1>7, <2>1, WorkerSet DEF StoreRunning
  <2>3. \E pc \in {"start_thread", "joinable"} : Goto(c, pc)
    BY <1>7 DEF StoreRunning
  <2> QED
    BY <2>1, <2>2, <2>3, CallFields, StepAlong
<1>8. CASE start_thread(c)
  <2>1. UsesEngine(c) /\ call[c].eng \in Engines /\ UNCHANGED exec
    BY <1>8 DEF start_thread, UsesEngine, InControl, Iso, Users
  <2>2. CASE abi_guard(c) /\ ghost' = [ghost EXCEPT !.noThread = TRUE] /\ UNCHANGED engine
    <3>1. Modest
      BY Zenon, <1>8, <2>2, EnginesLeft DEF start_thread
    <3> QED
      BY Zenon, <2>1, <2>2, <3>1, CallFields, StepAway DEF abi_guard
  <2>3. CASE ghost' = [ghost EXCEPT !.terminated = TRUE] /\ UNCHANGED <<engine, call, threw>>
    <3>1. Modest
      BY Zenon, <1>8, <2>3, EnginesLeft DEF start_thread
    <3>2. OthersStay(c) /\ call'[c] = call[c]
      BY <2>3 DEF OthersStay
    <3> QED
      BY <1>8, <2>1, <3>1, <3>2, StepAlong DEF start_thread
  <2>4. CASE engine' = [engine EXCEPT ![call[c].eng].worker = "running"] /\ Goto(c, "audit") /\ UNCHANGED ghost
    <3>1. Modest
      BY Zenon, <1>8, <2>1, <2>4, WorkerSet DEF start_thread
    <3> QED
      BY <2>1, <2>4, <3>1, CallFields, StepAway
  <2> QED
    BY <1>8, <2>2, <2>3, <2>4 DEF start_thread
<1>9. CASE joinable(c)
  <2>1. UsesEngine(c) /\ UNCHANGED exec
    BY <1>9 DEF joinable, UsesEngine, InControl
  <2>2. Modest
    BY Zenon, <1>9, EnginesLeft DEF joinable
  <2>3. CASE UNCHANGED call
    <3>1. OthersStay(c) /\ call'[c] = call[c]
      BY <2>3 DEF OthersStay
    <3> QED
      BY <1>9, <2>1, <2>2, <3>1, StepAlong DEF joinable
  <2>4. CASE Goto(c, "audit")
    BY Zenon, <2>1, <2>2, <2>4, CallFields, StepAway
  <2>5. CASE Goto(c, "join")
    BY <2>1, <2>2, <2>5, CallFields, StepAlong
  <2> QED
    BY <1>9, <2>3, <2>4, <2>5 DEF joinable
<1>10. CASE join(c)
  <2>1. UsesEngine(c) /\ call[c].eng \in Engines
    BY <1>10 DEF join, UsesEngine, InControl, Iso, Users
  <2>2. Modest /\ Goto(c, "audit") /\ UNCHANGED exec
    BY Zenon, <1>10, <2>1, WorkerSet DEF join
  <2> QED
    BY Zenon, <2>2, CallFields, StepAway
<1>11. CASE create_execution_tenant(c)
  <2>1. UsesEngine(c) /\ Modest
    BY <1>11, EnginesLeft DEF create_execution_tenant, UsesEngine
  <2>2. \A t \in Tenants : exec'[t] = exec[t] \/ (call[c].tenant = t /\ exec'[t] = call[c].eng)
    <3>1. exec' = exec \/ exec' = [exec EXCEPT ![call[c].tenant] = call[c].eng]
      BY <1>11 DEF create_execution_tenant
    <3> QED
      BY <1>0, <3>1 DEF Map
  <2>3. Goto(c, "audit") \/ call' = [call EXCEPT ![c] = Idle]
    BY <1>11 DEF create_execution_tenant, abi_guard
  <2>4. OthersStay(c) /\ call'[c].pc \in {"idle", "audit"}
    BY <2>3, CallFields
  <2> QED
    BY <2>1, <2>2, <2>4, StepAway
<1>12. CASE LoadRequired(c) \/ animus_is_licensed(c)
  <2>1. Modest /\ UNCHANGED exec /\ call[c].op = "submit" /\ call[c].pc \in Working
    BY <1>12, EnginesLeft DEF LoadRequired, animus_is_licensed, Iso, Lane, Working
  <2>2. (\E pc \in {"is_licensed", "client"} : Goto(c, pc)) \/ ToAudit(c, "Denied")
    BY <1>12 DEF LoadRequired, animus_is_licensed
  <2> QED
    BY Zenon, <2>1, <2>2, CallFields, StepAway
<1>13. CASE FindClient(c)
  <2>1. Modest /\ UNCHANGED exec /\ call[c].pc = "client" /\ call[c].op = "submit"
    BY <1>13, EnginesLeft DEF FindClient, Iso, Lane
  <2>2. CASE ToAudit(c, "Denied")
    BY Zenon, <2>1, <2>2, CallFields, StepAway
  <2>3. CASE exec[call[c].tenant] # 0 /\ UseEngine(c, "submit", exec[call[c].tenant])
    <3>1. /\ OthersStay(c) /\ call'[c].pc = "submit" /\ call'[c].op = call[c].op
          /\ call'[c].tenant = call[c].tenant /\ call'[c].eng = exec[call[c].tenant]
      BY Zenon, <2>3, CallFields
    <3>2. call[c].tenant \in Tenants
      BY <1>0, <2>1 DEF Working
    <3>3. /\ call'[c].eng \in Engines /\ engine[call'[c].eng].live /\ engine[call'[c].eng].owner = call'[c].tenant
          /\ removing # 0 /\ ~ghost.removedInUse => call'[c].tenant # removing
      BY Zenon, <1>0, <2>3, <3>1, <3>2 DEF Map, Iso, Bound, Condemned
    <3>4. Lane'
      BY Zenon, <2>1, <3>1, LaneStep DEF Iso, Lane, Modest, Working
    <3> QED
      BY Zenon, <2>1, <3>1, <3>3, <3>4, Step DEF OthersStay
  <2> QED
    BY <1>13, <2>2, <2>3 DEF FindClient
<1>14. CASE \E core \in 0..1 : LoadMaxCores(c, core)
  <2>1. Modest /\ call' = [call EXCEPT ![c] = Idle] /\ UNCHANGED exec
    BY <1>14, EnginesLeft DEF LoadMaxCores
  <2> QED
    BY Zenon, <2>1, CallFields, StepAway
<1>15. CASE create_tenant(c)
  <2>1. /\ call[c].pc = "resolve" /\ call[c].tenant \in Tenants /\ removing = 0
        /\ UNCHANGED <<token, removing, exec, ghost>>
    BY <1>0, <1>15 DEF create_tenant, Working
  <2>2. ToAudit(c, "Allowed") \/ call' = [call EXCEPT ![c] = Idle]
    BY Zenon, <1>15 DEF create_tenant, abi_guard
  <2>3. OthersStay(c) /\ call'[c].pc \in {"idle", "audit"}
    BY <2>2, CallFields
  <2>4. CASE UNCHANGED <<registry, engine>>
    <3>1. Modest
      BY <2>1, <2>4, EnginesLeft
    <3> QED
      BY <2>1, <2>3, <3>1, StepAway
  <2>5. CASE ~UNCHANGED <<registry, engine>>
    <3> DEFINE t == call[c].tenant
    <3>1. PICK e \in Engines : /\ ~engine[e].live /\ registry[t] = 0
                               /\ engine' = [engine EXCEPT ![e] = NewEngine(t)]
                               /\ registry' = [registry EXCEPT ![t] = e]
      BY Zenon, <1>15, <2>5 DEF create_tenant
    <3>2. t \in Tenants
      BY <2>1
    <3> HIDE DEF t
    <3> QED
      BY Zenon, <2>1, <2>3, <3>1, <3>2, Created
  <2> QED
    BY <2>4, <2>5
<1> QED
  BY <1>1, <1>3, <1>4, <1>5, <1>6, <1>7, <1>8, <1>9, <1>10, <1>11, <1>12, <1>13, <1>14, <1>15 DEF CallStep

(* A call begins with no engine. *)
LEMMA NewCallIso ==
    ASSUME Iso, IInv, IInv', NEW c \in Callers, NewCall(c)
    PROVE  Iso'
<1> USE DEF state, trailVars
<1>1. CASE \E op \in Op, t \in Tenants : Begin(c, op, t)
  <2>1. PICK op \in Op, t \in Tenants : Begin(c, op, t)
    BY <1>1
  <2>2. Modest /\ UNCHANGED exec /\ t \in Targets(c, op)
    BY <2>1, EnginesLeft DEF Begin
  <2>3. /\ OthersStay(c) /\ call'[c].op = op /\ call'[c].tenant = t
        /\ call'[c].pc \in {"audit", "resolve"} \/ (call'[c].pc = "license" /\ op = "submit")
    BY Zenon, <2>1 DEF Begin, OthersStay, IInv, Typed
  <2>4. Lane'
    BY Zenon, <2>2, <2>3, LaneStep DEF Iso, Modest, Targets
  <2>5. ~UsesEngine(c)'
    BY Zenon, <2>3 DEF UsesEngine, InControl
  <2> QED
    BY <2>2, <2>3, <2>4, <2>5, Step DEF OthersStay
<1>2. CASE animus_pin_current_thread_to_core(c)
  <2>1. Modest /\ Goto(c, "pin") /\ UNCHANGED exec
    BY <1>2, EnginesLeft DEF animus_pin_current_thread_to_core
  <2> QED
    BY Zenon, <2>1, CallFields, StepAway
<1> QED
  BY <1>1, <1>2 DEF NewCall

(* A step of nobody's call that leaves registry, clients and engines alone. *)
LEMMA IsoQuiet ==
    ASSUME Iso, IInv', Modest, UNCHANGED exec,
           \A c \in Callers : /\ call'[c].pc = call[c].pc /\ call'[c].op = call[c].op
                              /\ call'[c].tenant = call[c].tenant /\ call'[c].eng = call[c].eng
    PROVE  Iso'
<1>1. \A c \in Callers : UsesEngine(c)' <=> UsesEngine(c)
  BY DEF UsesEngine, InControl
<1>2. EnginesTyped' /\ Own'
  BY Zenon DEF Iso, EnginesTyped, Own, Modest
<1>3. Lane'
  BY DEF Iso, Lane, Modest
<1>4. \A t \in Tenants : registry[t] \in Engines \cup {0} /\ exec[t] \in Engines \cup {0}
  BY DEF IInv, Typed, Map, Modest
<1>5. Registered'
  BY RegisteredKept DEF IInv, Typed, Modest
<1>6. Bound'
  BY <1>4 DEF Iso, Bound, Modest
<1>7. Users'
  <2> SUFFICES ASSUME NEW d \in Callers, UsesEngine(d)'
               PROVE  /\ call'[d].eng \in Engines
                      /\ engine'[call'[d].eng].live /\ engine'[call'[d].eng].owner = call'[d].tenant
    BY DEF Users
  <2>1. UsesEngine(d) /\ call'[d].eng = call[d].eng /\ call'[d].tenant = call[d].tenant
    BY Zenon, <1>1
  <2>2. call[d].eng \in Engines /\ engine[call[d].eng].live /\ engine[call[d].eng].owner = call[d].tenant
    BY <2>1 DEF Iso, Users
  <2> QED
    BY Zenon, <2>1, <2>2 DEF Modest
<1>8. Condemned'
  BY <1>1 DEF Iso, Condemned, Modest
<1> QED
  BY Zenon, <1>2, <1>3, <1>5, <1>6, <1>7, <1>8 DEF Iso

(* remove_tenant takes the tenant out of the registry; if a call or a      *)
(* client refers to its engine, that is noted.                             *)
LEMMA RemoveIso ==
    ASSUME Iso, IInv, NEW t \in Tenants, remove_tenant(t)
    PROVE  Iso'
<1> DEFINE e == registry[t]
           used == ghost.removedInUse \/ exec[t] = e \/ \E c \in Callers : UsesEngine(c) /\ call[c].eng = e
<1>1. /\ removing = 0 /\ e # 0 /\ removing' = t
      /\ registry' = [registry EXCEPT ![t] = 0]
      /\ engine' = [engine EXCEPT ![e] = [engine[e] EXCEPT !.running_ = FALSE]]
      /\ UNCHANGED <<token, exec, call>>
  BY DEF remove_tenant
<1>2. /\ engine \in [Engines -> Eng] /\ registry \in Map /\ exec \in Map /\ ghost \in Ghost
      /\ e \in Engines /\ engine[e] \in Eng /\ 0 \notin Engines /\ 0 \notin Tenants
  BY <1>1 DEF Iso, EnginesTyped, IInv, Typed, Map
<1>3. used \in BOOLEAN /\ ghost' = [ghost EXCEPT !.removals = @ + 1, !.removedInUse = used]
  BY DEF remove_tenant
<1>4. ghost' \in Ghost /\ ghost'.removedInUse = used
  <2> HIDE DEF used
  <2>1. PICK n \in Nat : n = ghost.removals + 1
    BY <1>2 DEF Ghost
  <2>2. ghost' = [ghost EXCEPT !.removals = n, !.removedInUse = used]
    BY <1>3, <2>1
  <2> QED
    BY Zenon, <1>2, <1>3, <2>2 DEF Ghost
<1>5. engine[e].live /\ engine[e].owner = t
  BY <1>1 DEF Iso, Registered
<1> DEFINE r == [engine[e] EXCEPT !.running_ = FALSE]
<1>6. r \in Eng /\ r.owner = engine[e].owner /\ r.live = engine[e].live /\ r.from = engine[e].from
  BY Zenon, <1>2 DEF Eng
<1>7. engine' = [engine EXCEPT ![e] = r]
  BY <1>1
<1> HIDE DEF r
<1>8. /\ engine' \in [Engines -> Eng]
      /\ \A f \in Engines : /\ engine'[f].owner = engine[f].owner /\ engine'[f].live = engine[f].live
                           /\ engine'[f].from = engine[f].from
  BY <1>2, <1>6, <1>7
<1>9. registry'[t] = 0 /\ \A s \in Tenants \ {t} : registry'[s] = registry[s]
  BY <1>1, <1>2 DEF Map
<1>10. EnginesTyped' /\ Own'
  BY <1>1, <1>4, <1>8 DEF Iso, EnginesTyped, Own
<1>11. Lane'
  BY <1>1 DEF Iso, Lane
<1>12. Registered'
  <2>1. ASSUME NEW s \in Tenants, registry'[s] # 0
        PROVE  engine'[registry'[s]].live /\ engine'[registry'[s]].owner = s /\ s # removing'
    <3>1. s # t /\ registry'[s] = registry[s] /\ registry[s] \in Engines
      BY <1>2, <1>9, <2>1 DEF Map
    <3> QED
      BY <1>1, <1>8, <2>1, <3>1 DEF Iso, Registered
  <2>2. ASSUME NEW f \in Engines, engine'[f].live
        PROVE  /\ engine'[f].owner \in Tenants
               /\ registry'[engine'[f].owner] = f \/ engine'[f].owner = removing'
    <3>1. engine[f].owner \in Tenants /\ registry[engine[f].owner] = f
      BY <1>1, <1>2, <1>8, <2>2 DEF Iso, Registered
    <3> QED
      BY <1>1, <1>8, <1>9, <3>1
  <2>3. \A f, g \in Engines : engine'[f].live /\ engine'[g].live /\ engine'[f].owner = engine'[g].owner => f = g
    BY <1>8 DEF Iso, Registered
  <2> QED
    BY <2>1, <2>2, <2>3 DEF Registered
<1>13. \A c \in Callers : UsesEngine(c)' <=> UsesEngine(c)
  BY <1>1 DEF UsesEngine, InControl
<1>14. Bound'
  <2> SUFFICES ASSUME NEW s \in Tenants, exec[s] # 0
               PROVE  engine'[exec[s]].live /\ engine'[exec[s]].owner = s
    BY <1>1 DEF Bound
  <2>1. exec[s] \in Engines /\ engine[exec[s]].live /\ engine[exec[s]].owner = s
    BY <1>2 DEF Map, Iso, Bound
  <2> QED
    BY <1>8, <2>1
<1>15. Users'
  BY <1>1, <1>8, <1>13 DEF Iso, Users
<1>16. Condemned'
  <2> SUFFICES ASSUME ~used
               PROVE  exec[t] = 0 /\ \A c \in Callers : UsesEngine(c) => call[c].tenant # t
    BY Zenon, <1>1, <1>4, <1>13 DEF Condemned
  <2>1. exec[t] = 0
    <3>1. CASE exec[t] # 0
      <4>1. PICK f \in Engines : f = exec[t]
        BY <1>2, <3>1 DEF Map
      <4>2. engine[f].live /\ engine[f].owner = t
        BY <3>1, <4>1 DEF Iso, Bound
      <4>3. f = e
        BY <1>2, <1>5, <4>2 DEF Iso, Registered
      <4> QED
        BY <4>1, <4>3
    <3> QED
      BY <3>1
  <2>2. ASSUME NEW c \in Callers, UsesEngine(c) PROVE call[c].tenant # t
    <3>1. PICK f \in Engines : f = call[c].eng /\ engine[f].live /\ engine[f].owner = call[c].tenant
      BY <2>2 DEF Iso, Users
    <3>2. f # e
      BY <2>2, <3>1
    <3>3. engine[f].live /\ engine[e].live /\ engine[f].owner = engine[e].owner => f = e
      BY <1>2 DEF Iso, Registered
    <3>4. engine[f].owner # t
      BY <1>5, <3>1, <3>2, <3>3
    <3> QED
      BY <3>1, <3>4
  <2> QED
    BY <2>1, <2>2
<1> QED
  BY <1>10, <1>11, <1>12, <1>14, <1>15, <1>16 DEF Iso

(* The engine that goes away is nobody's. *)
LEMMA DestroyIso ==
    ASSUME Iso, IInv, ~Undefined, NEW e \in Engines, EngineDestroyed(e)
    PROVE  Iso'
<1>1. /\ removing # 0 /\ engine[e].live /\ engine[e].owner = removing /\ removing' = 0
      /\ engine' = [engine EXCEPT ![e] = NoEngine]
      /\ UNCHANGED <<token, registry, exec, call, ghost>>
  BY DEF EngineDestroyed
<1>2. /\ engine \in [Engines -> Eng] /\ registry \in Map /\ exec \in Map /\ removing \in Tenants
      /\ 0 \notin Engines /\ 0 \notin Tenants
  BY <1>1 DEF Iso, EnginesTyped, IInv, Typed
<1>3. exec[removing] = 0 /\ \A c \in Callers : UsesEngine(c) => call[c].tenant # removing
  BY <1>1 DEF Iso, Condemned, Undefined
<1>4. engine'[e] = NoEngine /\ \A f \in Engines \ {e} : engine'[f] = engine[f]
  BY <1>1, <1>2
<1>5. EnginesTyped'
  BY <1>1, <1>2, EngineFacts DEF Iso, EnginesTyped
<1>6. Lane'
  BY <1>1 DEF Iso, Lane
<1>7. Registered'
  <2>1. ASSUME NEW t \in Tenants, registry[t] # 0
        PROVE  engine'[registry[t]].live /\ engine'[registry[t]].owner = t /\ t # removing'
    <3>1. registry[t] \in Engines /\ engine[registry[t]].live /\ engine[registry[t]].owner = t /\ t # removing
      BY <1>2, <2>1 DEF Map, Iso, Registered
    <3> QED
      BY <1>1, <1>2, <1>4, <3>1
  <2>2. ASSUME NEW f \in Engines, engine'[f].live
        PROVE  engine'[f].owner \in Tenants /\ registry[engine'[f].owner] = f
    <3>1. f # e /\ engine'[f] = engine[f]
      BY Zenon, <1>4, <2>2, EngineFacts
    <3> QED
      BY <1>1, <2>2, <3>1 DEF Iso, Registered
  <2>3. ASSUME NEW f \in Engines, NEW g \in Engines, engine'[f].live, engine'[g].live,
               engine'[f].owner = engine'[g].owner
        PROVE  f = g
    BY <2>2, <2>3
  <2>4. registry' = registry
    BY <1>1
  <2> QED
    BY <2>1, <2>2, <2>3, <2>4 DEF Registered
<1>8. Bound'
  <2> SUFFICES ASSUME NEW t \in Tenants, exec[t] # 0
               PROVE  engine'[exec[t]].live /\ engine'[exec[t]].owner = t
    BY <1>1 DEF Bound
  <2>1. exec[t] \in Engines /\ engine[exec[t]].live /\ engine[exec[t]].owner = t /\ t # removing
    BY <1>2, <1>3 DEF Map, Iso, Bound
  <2> QED
    BY <1>1, <1>4, <2>1
<1>9. \A c \in Callers : UsesEngine(c)' <=> UsesEngine(c)
  BY <1>1 DEF UsesEngine, InControl
<1>10. Users'
  <2> SUFFICES ASSUME NEW d \in Callers, UsesEngine(d)'
               PROVE  /\ call'[d].eng \in Engines
                      /\ engine'[call'[d].eng].live /\ engine'[call'[d].eng].owner = call'[d].tenant
    BY DEF Users
  <2>1. UsesEngine(d) /\ call'[d] = call[d] /\ call[d].tenant # removing
    BY <1>1, <1>3, <1>9
  <2>2. call[d].eng \in Engines /\ engine[call[d].eng].live /\ engine[call[d].eng].owner = call[d].tenant
    BY <2>1 DEF Iso, Users
  <2>3. engine'[call[d].eng] = engine[call[d].eng]
    BY <1>1, <1>4, <2>1, <2>2
  <2> QED
    BY <2>1, <2>2, <2>3
<1>11. Condemned'
  BY <1>1 DEF Condemned
<1>12. Own'
  BY <1>4, EngineFacts DEF Iso, Own
<1> QED
  BY <1>5, <1>6, <1>7, <1>8, <1>10, <1>11, <1>12 DEF Iso

(* Every step of the gateways, the owner and the workers keeps tenants apart. *)
LEMMA NextIso == Iso /\ IInv /\ IInv' /\ [Next]_vars => Iso'
<1> SUFFICES ASSUME Iso, IInv, IInv', [Next]_vars PROVE Iso'
  OBVIOUS
<1> USE DEF state, trailVars
<1>1. CASE \E c \in Callers : CallStep(c) \/ NewCall(c)
  BY <1>1, CallStepIso, NewCallIso
<1>2. CASE \E e \in Engines : WorkerEnds(e)
  <2>1. Modest /\ UNCHANGED <<exec, call>>
    BY Zenon, <1>2, WorkerSet DEF WorkerEnds
  <2> QED
    BY <2>1, IsoQuiet
<1>3. CASE ~Undefined /\ \E e \in Engines : EngineDestroyed(e)
  BY <1>3, DestroyIso
<1>4. CASE \E t \in Tenants : remove_tenant(t)
  BY <1>4, RemoveIso
<1>5. CASE \/ LicenseVerified \/ \E f \in Licences : animus_verify_license(f)
           \/ \E g \in Trails, n \in 1..kCapacity : poll_audit_log(g, n)
           \/ UNCHANGED vars
  <2>1. UNCHANGED <<token, registry, removing, engine, exec, call, ghost>>
    BY Zenon, <1>5 DEF LicenseVerified, animus_verify_license, poll_audit_log, vars
  <2>2. Modest
    BY <2>1, EnginesLeft
  <2> QED
    BY <2>1, <2>2, IsoQuiet
<1>6. CASE \E required \in BOOLEAN : set_execution_license_required(required)
  <2>1. PICK required \in BOOLEAN : set_execution_license_required(required)
    BY <1>6
  <2>2. /\ UNCHANGED <<token, registry, removing, engine, exec, ghost>>
        /\ call' = [c \in Callers |-> [call[c] EXCEPT !.bound = @ /\ required]]
    BY <2>1 DEF set_execution_license_required
  <2>3. Modest
    BY <2>2, EnginesLeft
  <2>4. ASSUME NEW c \in Callers
        PROVE  /\ call'[c].pc = call[c].pc /\ call'[c].op = call[c].op
               /\ call'[c].tenant = call[c].tenant /\ call'[c].eng = call[c].eng
    <3>1. call[c] \in Call
      BY DEF IInv, Typed
    <3> QED
      BY <2>2, <3>1 DEF Call
  <2> QED
    BY <2>2, <2>3, <2>4, IsoQuiet
<1> QED
  BY <1>1, <1>2, <1>3, <1>4, <1>5, <1>6 DEF Next, Background, Owner

(* However tenants, clients and engines come and go, an engine is given     *)
(* events of its own tenant only, and a call in progress goes through a     *)
(* live engine of its own tenant.                                           *)
THEOREM TenantsIsolated == Spec => []TenantIsolation
<1>1. Iso => TenantIsolation
  BY DEF Iso, Own, Users, TenantIsolation
<1> QED
  BY <1>1, InitIso, NextIso, Invariant, PTL DEF Spec

-----------------------------------------------------------------------------
(* The licence. *)

(* A call is bound to the requirement only while the process is; what a    *)
(* licence grants is stored before anyone can see the process licensed.    *)
Licensed ==
    /\ \A c \in Callers : call[c].bound => lic.required
    /\ lic.storing # 0 => lic.storing \in lic.granted
    /\ lic.verified \/ lic.storing # 0 => lic.max_cores \in lic.granted
    /\ \A c \in Callers : call[c].pc = "pin" => lic.verified
    /\ LicenceHonoured

(* A step that leaves the licence alone and takes no call past the check. *)
LEMMA LicenceLeft ==
    ASSUME Licensed, UNCHANGED <<lic, pin>>,
           \A c \in Callers : /\ call'[c].bound => call[c].bound
                              /\ call'[c].pc \in {"client", "submit"} /\ call'[c].bound =>
                                    call[c].pc \in {"client", "submit"} \/ lic.verified
                              /\ call'[c].pc = "pin" => call[c].pc = "pin" \/ lic.verified
    PROVE  Licensed'
  BY DEF Licensed, LicenceHonoured

(* What the assignments of the model do to the binding of a call. *)
LEMMA CallBound ==
    ASSUME IInv, NEW c \in Callers
    PROVE  /\ \A pc : Goto(c, pc) => OthersStay(c) /\ call'[c].pc = pc /\ call'[c].bound = call[c].bound
           /\ \A o : ToAudit(c, o) => OthersStay(c) /\ call'[c].pc = "audit" /\ call'[c].bound = call[c].bound
           /\ \A pc, e : UseEngine(c, pc, e) => OthersStay(c) /\ call'[c].pc = pc /\ call'[c].bound = call[c].bound
           /\ call' = [call EXCEPT ![c] = Idle] => OthersStay(c) /\ call'[c].pc = "idle" /\ call'[c].bound = FALSE
<1>1. call \in [Callers -> Call] /\ call[c] \in Call
  BY DEF IInv, Typed
<1>2. ASSUME NEW pc, Goto(c, pc)
      PROVE  OthersStay(c) /\ call'[c].pc = pc /\ call'[c].bound = call[c].bound
  BY <1>1, <1>2 DEF Goto, OthersStay, Call
<1>3. ASSUME NEW o, ToAudit(c, o)
      PROVE  OthersStay(c) /\ call'[c].pc = "audit" /\ call'[c].bound = call[c].bound
  BY <1>1, <1>3 DEF ToAudit, OthersStay, Call
<1>4. ASSUME NEW pc, NEW e, UseEngine(c, pc, e)
      PROVE  OthersStay(c) /\ call'[c].pc = pc /\ call'[c].bound = call[c].bound
  BY <1>1, <1>4 DEF UseEngine, OthersStay, Call
<1>5. ASSUME call' = [call EXCEPT ![c] = Idle]
      PROVE  OthersStay(c) /\ call'[c].pc = "idle" /\ call'[c].bound = FALSE
  BY <1>1, <1>5 DEF OthersStay, Idle
<1> QED
  BY Zenon, <1>2, <1>3, <1>4, <1>5

(* A caller's step that leaves the licence alone. *)
LEMMA StepLicence ==
    ASSUME Licensed, NEW c \in Callers, OthersStay(c), UNCHANGED <<lic, pin>>,
           call'[c].bound => call[c].bound,
           call'[c].pc \in {"client", "submit"} /\ call'[c].bound => call[c].pc \in {"client", "submit"} \/ lic.verified,
           call'[c].pc = "pin" => lic.verified
    PROVE  Licensed'
<1>1. ASSUME NEW d \in Callers
      PROVE  /\ call'[d].bound => call[d].bound
             /\ call'[d].pc \in {"client", "submit"} /\ call'[d].bound =>
                   call[d].pc \in {"client", "submit"} \/ lic.verified
             /\ call'[d].pc = "pin" => call[d].pc = "pin" \/ lic.verified
  <2>1. CASE d = c
    BY <2>1
  <2>2. CASE d # c
    BY <2>2 DEF OthersStay
  <2> QED
    BY Zenon, <2>1, <2>2
<1> QED
  BY Zenon, <1>1, LicenceLeft

(* A process starts unlicensed. *)
LEMMA InitLicence == Init => Licensed
<1> SUFFICES ASSUME Init PROVE Licensed
  OBVIOUS
<1>1. \A c \in Callers : call[c].pc = "idle" /\ call[c].bound = FALSE
  BY Zenon DEF Init, Idle
<1>2. lic.verified = FALSE /\ lic.storing = 0 /\ pin = {}
  BY Zenon DEF Init
<1> QED
  BY <1>1, <1>2 DEF Licensed, LicenceHonoured

(* Every step keeps the licence ahead of what it gates. *)
LEMMA NextLicence == Licensed /\ IInv /\ [Next]_vars => Licensed'
<1> SUFFICES ASSUME Licensed, IInv, [Next]_vars PROVE Licensed'
  OBVIOUS
<1> USE DEF state, trailVars
<1>1. ASSUME NEW c \in Callers, CallStep(c), ~\E core \in 0..1 : LoadMaxCores(c, core)
      PROVE  Licensed'
  <2>1. UNCHANGED <<lic, pin>>
    BY Zenon, <1>1 DEF CallStep, get_tenant, create_tenant, record, add_rule, poll_signals, Audit, LoadRunning, StoreRunning,
         start_thread, joinable, join, create_execution_tenant, LoadRequired, animus_is_licensed, FindClient, submit
  <2>2. CASE UNCHANGED call
    BY <2>1, <2>2, LicenceLeft
  <2>3. CASE \/ call' = [call EXCEPT ![c] = Idle] \/ \E o \in Outcome : ToAudit(c, o)
             \/ \E pc \in (Working \ {"client", "submit"}) \cup {"audit"} : Goto(c, pc)
             \/ \E pc \in {"bind", "dispatch"} : \E e : UseEngine(c, pc, e)
    <3>1. /\ call'[c].bound => call[c].bound
          /\ call'[c].pc \notin {"client", "submit", "pin"}
      BY Zenon, <2>3, CallBound DEF Working
    <3>2. OthersStay(c)
      BY Zenon, <2>3, CallBound
    <3> QED
      BY <2>1, <3>1, <3>2, StepLicence
  <2>4. CASE LoadRequired(c) /\ ~lic.required
    <3>1. Goto(c, "client") /\ ~call[c].bound
      BY <2>4 DEF LoadRequired, Licensed
    <3>2. OthersStay(c) /\ call'[c].pc = "client" /\ call'[c].bound = call[c].bound
      BY Zenon, <3>1, CallBound
    <3> QED
      BY <2>1, <3>1, <3>2, StepLicence
  <2>5. CASE animus_is_licensed(c) /\ lic.verified
    <3>1. Goto(c, "client")
      BY Zenon, <2>5 DEF animus_is_licensed
    <3>2. OthersStay(c) /\ call'[c].pc = "client" /\ call'[c].bound = call[c].bound
      BY Zenon, <3>1, CallBound
    <3> QED
      BY <2>1, <2>5, <3>2, StepLicence
  <2>6. CASE call[c].pc = "client" /\ \E e : UseEngine(c, "submit", e)
    <3>1. OthersStay(c) /\ call'[c].pc = "submit" /\ call'[c].bound = call[c].bound
      BY Zenon, <2>6, CallBound
    <3> QED
      BY <2>1, <2>6, <3>1, StepLicence
  <2>7. QED
    <3>1. CASE get_tenant(c)
      BY Zenon, <3>1, <2>3 DEF get_tenant, Outcome
    <3>2. CASE create_tenant(c)
      BY Zenon, <3>2, <2>3 DEF create_tenant, abi_guard, Outcome
    <3>3. CASE record(c) \/ add_rule(c) \/ poll_signals(c) \/ submit(c) \/ join(c) \/ Audit(c)
      BY <3>3, <2>3 DEF record, add_rule, poll_signals, submit, join, Audit
    <3>4. CASE LoadRunning(c) \/ StoreRunning(c)
      BY <3>4, <2>3 DEF LoadRunning, StoreRunning, Working
    <3>5. CASE start_thread(c) \/ joinable(c)
      BY <3>5, <2>2, <2>3 DEF start_thread, joinable, abi_guard, Working
    <3>6. CASE create_execution_tenant(c)
      BY <3>6, <2>3 DEF create_execution_tenant, abi_guard
    <3>7. CASE LoadRequired(c)
      BY <3>7, <2>3, <2>4 DEF LoadRequired, Working
    <3>8. CASE animus_is_licensed(c)
      BY <3>8, <2>3, <2>5 DEF animus_is_licensed, Outcome
    <3>9. CASE FindClient(c)
      BY Zenon, <3>9, <2>3, <2>6 DEF FindClient, Outcome
    <3> QED
      BY <1>1, <3>1, <3>2, <3>3, <3>4, <3>5, <3>6, <3>7, <3>8, <3>9 DEF CallStep
<1>2. ASSUME NEW c \in Callers, NEW core \in 0..1, LoadMaxCores(c, core)
      PROVE  Licensed'
  <2>1. /\ call[c].pc = "pin" /\ call' = [call EXCEPT ![c] = Idle] /\ UNCHANGED lic
        /\ pin' = {[core |-> core, ok |-> core < lic.max_cores]}
    BY Zenon, <1>2 DEF LoadMaxCores
  <2>2. lic.max_cores \in lic.granted
    BY Zenon, <2>1 DEF Licensed
  <2>3. \A p \in pin' : \E m \in lic'.granted : p.ok = (p.core < m)
    BY <2>1, <2>2
  <2>4. \A d \in Callers : call'[d] = call[d] \/ (call'[d].pc = "idle" /\ call'[d].bound = FALSE)
    BY Zenon, <2>1, CallBound DEF OthersStay
  <2> QED
    BY Zenon, <2>1, <2>3, <2>4 DEF Licensed, LicenceHonoured
<1>3. ASSUME NEW c \in Callers, NEW op \in Op, NEW t \in Tenants, Begin(c, op, t)
      PROVE  Licensed'
  <2>1. UNCHANGED <<lic, pin>>
    BY Zenon, <1>3 DEF Begin
  <2>2. /\ \A d \in Callers \ {c} : call'[d] = call[d]
        /\ call'[c].bound = lic.required /\ call'[c].pc \in {"audit", "license", "resolve"}
    BY Zenon, <1>3 DEF Begin, IInv, Typed
  <2> QED
    BY <2>1, <2>2 DEF Licensed, LicenceHonoured
<1>4. ASSUME NEW c \in Callers, animus_pin_current_thread_to_core(c)
      PROVE  Licensed'
  <2>1. Goto(c, "pin") /\ lic.verified /\ UNCHANGED <<lic, pin>>
    BY Zenon, <1>4 DEF animus_pin_current_thread_to_core
  <2> QED
    BY Zenon, <2>1, CallBound, StepLicence
<1>5. CASE \E f \in Licences : f.max_cores \in scenario.cores /\ animus_verify_license(f)
  <2>1. PICK f \in Licences : animus_verify_license(f)
    BY Zenon, <1>5
  <2>2. /\ lic'.required = lic.required /\ lic'.verified = lic.verified /\ lic'.storing = f.max_cores
        /\ lic'.max_cores = f.max_cores /\ lic'.granted = lic.granted \cup {f.max_cores}
        /\ UNCHANGED <<call, pin>>
    BY <2>1 DEF animus_verify_license, IInv, Typed, Lic
  <2> QED
    BY Zenon, <2>2 DEF Licensed, LicenceHonoured
<1>6. CASE LicenseVerified
  <2>1. /\ lic'.required = lic.required /\ lic'.verified = TRUE /\ lic'.storing = 0
        /\ lic'.max_cores = lic.storing /\ lic'.granted = lic.granted /\ lic.storing # 0
        /\ UNCHANGED <<call, pin>>
    BY <1>6 DEF LicenseVerified, IInv, Typed, Lic
  <2> QED
    BY <2>1 DEF Licensed, LicenceHonoured
<1>7. CASE \E required \in BOOLEAN : set_execution_license_required(required)
  <2>1. PICK required \in BOOLEAN : set_execution_license_required(required)
    BY <1>7
  <2>2. /\ lic'.required = required /\ lic'.verified = lic.verified /\ lic'.storing = lic.storing
        /\ lic'.max_cores = lic.max_cores /\ lic'.granted = lic.granted /\ UNCHANGED pin
    BY <2>1 DEF set_execution_license_required, IInv, Typed, Lic
  <2>3. ASSUME NEW c \in Callers
        PROVE  call'[c].pc = call[c].pc /\ (call'[c].bound <=> call[c].bound /\ required)
    <3>1. call[c] \in Call /\ call'[c] = [call[c] EXCEPT !.bound = @ /\ required]
      BY <2>1 DEF set_execution_license_required, IInv, Typed
    <3> QED
      BY <3>1 DEF Call
  <2> QED
    BY <2>2, <2>3 DEF Licensed, LicenceHonoured
<1>8. CASE \/ \E e \in Engines : WorkerEnds(e) \/ EngineDestroyed(e)
           \/ \E t \in Tenants : remove_tenant(t)
           \/ \E g \in Trails, n \in 1..kCapacity : poll_audit_log(g, n)
           \/ UNCHANGED vars
  <2>1. UNCHANGED <<lic, pin, call>>
    BY Zenon, <1>8 DEF WorkerEnds, EngineDestroyed, remove_tenant, poll_audit_log, vars
  <2> QED
    BY <2>1, LicenceLeft
<1> QED
  BY Zenon, <1>1, <1>2, <1>3, <1>4, <1>5, <1>6, <1>7, <1>8 DEF Next, NewCall, Background, Owner

(* Whoever sees the process licensed sees the core count of a licence that  *)
(* was verified, and an order under a required licence is routed only with  *)
(* one, however verification, requirement and calls interleave.             *)
THEOREM LicenceGates == Spec => []LicenceHonoured
<1>1. Licensed => LicenceHonoured
  BY DEF Licensed
<1> QED
  BY <1>1, InitLicence, NextLicence, Invariant, PTL DEF Spec
-----------------------------------------------------------------------------
(* The persistence workers. *)

(* A dead engine is as one that was never made. *)
Gone == \A e \in Engines : ~engine[e].live => engine[e] = NoEngine

(* Calls that do not overlap have an engine's worker to themselves ...     *)
Alone == \A c, d \in Callers : InControl(c) /\ InControl(d) /\ call[c].eng = call[d].eng => c = d

(* ... and find flag and worker as the step they are at expects them.      *)
Expected(c) ==
    LET e == engine[call[c].eng]
    IN  /\ call[c].pc = "start_store" => ~e.running_ /\ e.worker = "none"
        /\ call[c].pc = "start_thread" => e.running_ /\ e.worker = "none"
        /\ call[c].pc = "stop_store" => e.running_ /\ e.worker # "none"
        /\ call[c].pc \in {"joinable", "join"} => ~e.running_ /\ e.worker # "none"

Held(e) == \E c \in Callers : InControl(c) /\ call[c].eng = e
Agrees(e) == engine[e].running_ <=> engine[e].worker # "none"
Settled == \A e \in Engines : ~Held(e) /\ (removing = 0 \/ engine[e].owner # removing) => Agrees(e)

Orderly ==
    /\ ~ghost.terminated /\ Alone /\ Settled
    /\ ghost.removedInUse \/ \A c \in Callers : Expected(c)
Control == Gone /\ (ghost.overlapped \/ ghost.noThread \/ Orderly)

(* Engines start and end without a worker. *)
LEMMA FreshEngine ==
    /\ \A t : NewEngine(t).live = TRUE /\ NewEngine(t).running_ = FALSE /\ NewEngine(t).worker = "none"
    /\ NoEngine.live = FALSE /\ NoEngine.running_ = FALSE /\ NoEngine.worker = "none"
  BY DEF NewEngine, NoEngine

(* A process starts with no worker running and no call begun. *)
LEMMA InitControl == Init => Control
<1> SUFFICES ASSUME Init PROVE Control
  OBVIOUS
<1>1. \A e \in Engines : engine[e] = NoEngine \/ \E t : engine[e] = NewEngine(t)
  <2>1. \A e \in Engines : engine[e] = IF \E t \in Tenants : registry[t] = e
                                       THEN NewEngine(CHOOSE t \in Tenants : registry[t] = e) ELSE NoEngine
    BY Zenon DEF Init
  <2> QED
    BY <2>1
<1>2. Gone /\ \A e \in Engines : Agrees(e)
  BY <1>1, FreshEngine DEF Gone, Agrees
<1>3. \A c \in Callers : call[c].pc = "idle"
  BY Zenon DEF Init, Idle
<1>4. Alone /\ \A c \in Callers : Expected(c)
  BY <1>3 DEF Alone, Expected, InControl
<1>5. ~ghost.terminated
  BY Zenon DEF Init
<1> QED
  BY <1>2, <1>4, <1>5 DEF Control, Orderly, Settled

(* What a step may do to an engine without the calls that control its      *)
(* worker noticing: hand it events, end the loop of its worker, create it. *)
Unnoticed(e) ==
    \/ engine'[e] = engine[e]
    \/ /\ engine'[e].live /\ engine'[e].owner = engine[e].owner /\ engine'[e].running_ = engine[e].running_
       /\ engine'[e].worker = "none" <=> engine[e].worker = "none"
    \/ ~engine[e].live /\ engine'[e].live /\ Agrees(e)'

SameGhost ==
    /\ ghost'.overlapped = ghost.overlapped /\ ghost'.noThread = ghost.noThread
    /\ ghost'.terminated = ghost.terminated /\ ghost'.removedInUse = ghost.removedInUse

(* Steps outside start_persistence and stop_persistence. *)
LEMMA ControlLeft ==
    ASSUME Control, Iso, UNCHANGED removing, SameGhost,
           \A d \in Callers : \/ call'[d].pc = call[d].pc /\ call'[d].eng = call[d].eng
                              \/ ~InControl(d) /\ ~InControl(d)',
           \A e \in Engines : Unnoticed(e)
    PROVE  Control'
<1>1. Gone'
  BY DEF Control, Gone, Unnoticed
<1>2. CASE ghost.overlapped \/ ghost.noThread
  BY <1>1, <1>2 DEF Control, SameGhost
<1>3. CASE Orderly
  <2>1. ~ghost'.terminated
    BY <1>3 DEF Orderly, SameGhost
  <2>2. \A d \in Callers : InControl(d)' => InControl(d) /\ call'[d].pc = call[d].pc /\ call'[d].eng = call[d].eng
    BY DEF InControl
  <2>3. \A d \in Callers : InControl(d) => InControl(d)' /\ call'[d].eng = call[d].eng
    BY DEF InControl
  <2>4. \A d \in Callers : InControl(d) => call[d].eng \in Engines /\ engine[call[d].eng].live
    BY DEF Iso, Users, UsesEngine
  <2>5. Alone'
    BY <1>3, <2>2 DEF Orderly, Alone
  <2>6. Settled'
    <3> SUFFICES ASSUME NEW e \in Engines, ~Held(e)', removing' = 0 \/ engine'[e].owner # removing'
                 PROVE  Agrees(e)'
      BY DEF Settled
    <3>1. ~Held(e)
      BY <2>3 DEF Held
    <3>2. CASE engine'[e] = engine[e]
      BY <1>3, <3>1, <3>2 DEF Orderly, Settled, Agrees
    <3>3. CASE /\ engine'[e].live /\ engine'[e].owner = engine[e].owner /\ engine'[e].running_ = engine[e].running_
               /\ engine'[e].worker = "none" <=> engine[e].worker = "none"
      BY <1>3, <3>1, <3>3 DEF Orderly, Settled, Agrees
    <3> QED
      BY <3>2, <3>3 DEF Unnoticed
  <2>7. ASSUME NEW d \in Callers, Expected(d)
        PROVE  Expected(d)'
    <3>1. CASE ~InControl(d)'
      BY Zenon, <3>1 DEF Expected, InControl
    <3>2. CASE InControl(d)'
      <4>1. /\ InControl(d) /\ call'[d].pc = call[d].pc /\ call'[d].eng = call[d].eng
            /\ call[d].eng \in Engines /\ engine[call[d].eng].live
        BY Zenon, <2>2, <2>4, <3>2
      <4>2. /\ engine'[call[d].eng].running_ = engine[call[d].eng].running_
            /\ engine'[call[d].eng].worker = "none" <=> engine[call[d].eng].worker = "none"
        BY <4>1 DEF Unnoticed
      <4> QED
        BY Zenon, <2>7, <4>1, <4>2 DEF Expected
    <3> QED
      BY <3>1, <3>2
  <2>8. ghost'.removedInUse \/ \A d \in Callers : Expected(d)'
    BY <1>3, <2>7 DEF Orderly, SameGhost
  <2> QED
    BY <1>1, <2>1, <2>5, <2>6, <2>8 DEF Control, Orderly
<1> QED
  BY <1>2, <1>3 DEF Control

(* A step of a call that has the worker of its engine to itself: it finds  *)
(* the engine as it expects it, or leaves it with flag and worker agreeing. *)
LEMMA ControlMoved ==
    ASSUME Gone, Orderly, Iso, ~Undefined, NEW c \in Callers, UsesEngine(c), ~Contended(c), OthersStay(c),
           call'[c].eng = call[c].eng, UNCHANGED removing, SameGhost,
           \A f \in Engines \ {call[c].eng} : engine'[f] = engine[f],
           engine'[call[c].eng].live, engine'[call[c].eng].owner = engine[call[c].eng].owner,
           InControl(c)' => Expected(c)', ~InControl(c)' => Agrees(call[c].eng)'
    PROVE  Control'
<1> DEFINE e == call[c].eng
<1>1. Gone'
  BY Zenon DEF Gone
<1>2. ~ghost'.terminated
  BY Zenon DEF Orderly, SameGhost
<1>3. \A d \in Callers \ {c} : (InControl(d)' <=> InControl(d)) /\ call'[d] = call[d]
  BY DEF InControl, OthersStay
<1>4. \A d \in Callers \ {c} : InControl(d) => call[d].eng \in Engines \ {e}
  BY Zenon DEF Contended, Iso, Users, UsesEngine
<1>5. Alone'
  <2> SUFFICES ASSUME NEW d \in Callers, NEW b \in Callers, InControl(d)', InControl(b)', call'[d].eng = call'[b].eng
               PROVE  d = b
    BY Zenon DEF Alone
  <2>1. CASE d = c \/ b = c
    BY Zenon, <1>3, <1>4, <2>1
  <2>2. CASE d # c /\ b # c
    <3>1. InControl(d) /\ InControl(b) /\ call[d].eng = call[b].eng
      BY Zenon, <1>3, <2>2
    <3> QED
      BY Zenon, <3>1 DEF Orderly, Alone
  <2> QED
    BY Zenon, <2>1, <2>2
<1>6. Settled'
  <2> SUFFICES ASSUME NEW f \in Engines, ~Held(f)', removing' = 0 \/ engine'[f].owner # removing'
               PROVE  Agrees(f)'
    BY DEF Settled
  <2>1. CASE f = e
    BY <2>1 DEF Held
  <2>2. CASE f # e
    <3>1. ~Held(f)
      BY Zenon, <1>3, <2>2 DEF Held
    <3>2. engine'[f] = engine[f]
      BY <2>2
    <3>3. Agrees(f)
      BY <3>1, <3>2 DEF Orderly, Settled
    <3> QED
      BY <3>2, <3>3 DEF Agrees
  <2> QED
    BY Zenon, <2>1, <2>2
<1>7. ASSUME NEW d \in Callers
      PROVE  Expected(d)'
  <2>1. Expected(d)
    BY DEF Orderly, Undefined
  <2>2. CASE ~InControl(d)'
    BY Zenon, <2>2 DEF Expected, InControl
  <2>3. CASE InControl(d)' /\ d # c
    <3>1. InControl(d) /\ call'[d] = call[d] /\ engine'[call[d].eng] = engine[call[d].eng]
      BY Zenon, <1>3, <1>4, <2>3
    <3>2. call'[d].pc = call[d].pc /\ engine'[call'[d].eng] = engine[call[d].eng]
      BY <3>1
    <3> QED
      BY Zenon, <2>1, <3>2 DEF Expected
  <2> QED
    BY Zenon, <2>2, <2>3
<1> QED
  BY <1>1, <1>2, <1>5, <1>6, <1>7 DEF Control, Orderly

(* Once two calls have overlapped, or a thread could not be created, nothing *)
(* more is claimed of flags and workers.                                   *)
LEMMA ControlLost ==
    ASSUME Control, \A e \in Engines : engine'[e] = engine[e] \/ engine'[e].live \/ engine'[e] = NoEngine,
           ghost'.overlapped \/ ghost'.noThread
    PROVE  Control'
  BY DEF Control, Gone

(* A step of a call that is in neither operation. *)
LEMMA ControlPassed ==
    ASSUME Control, Iso, NEW c \in Callers, OthersStay(c), ~InControl(c), ~InControl(c)',
           UNCHANGED <<removing, ghost>>, \A e \in Engines : Unnoticed(e)
    PROVE  Control'
<1>1. SameGhost
  BY DEF SameGhost
<1>2. \A d \in Callers : \/ call'[d].pc = call[d].pc /\ call'[d].eng = call[d].eng
                         \/ ~InControl(d) /\ ~InControl(d)'
  BY DEF OthersStay
<1> QED
  BY <1>1, <1>2, ControlLeft

(* A call in control of an undisturbed engine, where no calls overlapped. *)
LEMMA InOrder ==
    ASSUME Orderly, Iso, ~Undefined, NEW c \in Callers, UsesEngine(c)
    PROVE  /\ call[c].eng \in Engines /\ engine[call[c].eng].live /\ engine \in [Engines -> Eng]
           /\ removing = 0 \/ engine[call[c].eng].owner # removing
           /\ InControl(c) => ~Contended(c)
           /\ Expected(c)
<1>1. /\ call[c].eng \in Engines /\ engine[call[c].eng].live /\ engine \in [Engines -> Eng]
      /\ engine[call[c].eng].owner = call[c].tenant
  BY DEF Iso, Users, EnginesTyped
<1>2. removing = 0 \/ call[c].tenant # removing
  BY DEF Iso, Condemned, Undefined
<1>3. InControl(c) => ~Contended(c)
  BY DEF Orderly, Alone, Contended
<1>4. Expected(c)
  BY DEF Orderly, Undefined
<1> QED
  BY Zenon, <1>1, <1>2, <1>3, <1>4

(* The fields of an engine after the assignments of the model. *)
LEMMA EngineSet ==
    ASSUME engine \in [Engines -> Eng], NEW e \in Engines
    PROVE  /\ \A b \in BOOLEAN : engine' = [engine EXCEPT ![e].running_ = b] =>
                 /\ \A f \in Engines \ {e} : engine'[f] = engine[f]
                 /\ engine'[e].live = engine[e].live /\ engine'[e].owner = engine[e].owner
                 /\ engine'[e].running_ = b /\ engine'[e].worker = engine[e].worker
           /\ \A w \in {"none", "running", "ended"} : engine' = [engine EXCEPT ![e].worker = w] =>
                 /\ \A f \in Engines \ {e} : engine'[f] = engine[f]
                 /\ engine'[e].live = engine[e].live /\ engine'[e].owner = engine[e].owner
                 /\ engine'[e].running_ = engine[e].running_ /\ engine'[e].worker = w
<1>1. engine[e] \in Eng
  OBVIOUS
<1>2. ASSUME NEW b \in BOOLEAN, engine' = [engine EXCEPT ![e].running_ = b]
      PROVE  /\ \A f \in Engines \ {e} : engine'[f] = engine[f]
             /\ engine'[e].live = engine[e].live /\ engine'[e].owner = engine[e].owner
             /\ engine'[e].running_ = b /\ engine'[e].worker = engine[e].worker
  BY <1>1, <1>2 DEF Eng
<1>3. ASSUME NEW w \in {"none", "running", "ended"}, engine' = [engine EXCEPT ![e].worker = w]
      PROVE  /\ \A f \in Engines \ {e} : engine'[f] = engine[f]
             /\ engine'[e].live = engine[e].live /\ engine'[e].owner = engine[e].owner
             /\ engine'[e].running_ = engine[e].running_ /\ engine'[e].worker = w
  BY <1>1, <1>3 DEF Eng
<1> QED
  BY <1>2, <1>3

(* The look at running_: with no other call in control of the engine, its  *)
(* flag tells whether there is a worker.                                   *)
LEMMA LoadRunningControl ==
    ASSUME Control, Iso, IInv, ~Undefined, NEW c \in Callers, LoadRunning(c)
    PROVE  Control'
<1>1. /\ call[c].pc = "dispatch" /\ UsesEngine(c) /\ ~InControl(c) /\ engine' = engine /\ removing' = removing
      /\ ghost' = [ghost EXCEPT !.overlapped = @ \/ Contended(c)]
  BY DEF LoadRunning, UsesEngine, InControl, Overlap, state
<1>2. ghost \in Ghost
  BY DEF Iso, EnginesTyped
<1>3. /\ ghost'.overlapped = (ghost.overlapped \/ Contended(c)) /\ ghost'.noThread = ghost.noThread
      /\ ghost'.terminated = ghost.terminated /\ ghost'.removedInUse = ghost.removedInUse
  BY <1>1, <1>2 DEF Ghost
<1>4. CASE ghost.overlapped \/ ghost.noThread \/ Contended(c)
  BY Zenon, <1>1, <1>3, <1>4, ControlLost
<1>5. CASE Orderly /\ ~ghost.overlapped /\ ~Contended(c)
  <2>1. SameGhost
    <3>1. ghost'.overlapped = FALSE /\ ghost.overlapped \in BOOLEAN
      BY <1>2, <1>3, <1>5 DEF Ghost
    <3> QED
      BY <1>3, <1>5, <3>1 DEF SameGhost
  <2> DEFINE e == call[c].eng
  <2>2. e \in Engines /\ engine[e].live /\ (removing = 0 \/ engine[e].owner # removing)
    BY <1>1, <1>5, InOrder
  <2>3. ~Held(e)
    BY <1>1, <1>5 DEF Contended, Held
  <2>4. Agrees(e)
    BY Zenon, <1>5, <2>2, <2>3 DEF Orderly, Settled
  <2>5. PICK pc : Goto(c, pc) /\ \/ pc = "audit"
                                 \/ pc = "start_store" /\ ~engine[e].running_
                                 \/ pc = "stop_store" /\ engine[e].running_
    <3>1. engine[e].running_ \in BOOLEAN
      BY <2>2 DEF Iso, EnginesTyped, Eng
    <3>2. CASE engine[e].running_ = (call[c].op = "start_persistence")
      BY Zenon, <3>2 DEF LoadRunning
    <3>3. CASE engine[e].running_ # (call[c].op = "start_persistence") /\ call[c].op = "start_persistence"
      BY <3>1, <3>3 DEF LoadRunning
    <3>4. CASE engine[e].running_ # (call[c].op = "start_persistence") /\ call[c].op # "start_persistence"
      BY <3>1, <3>4 DEF LoadRunning
    <3> QED
      BY Zenon, <3>2, <3>3, <3>4
  <2>6. OthersStay(c) /\ call'[c].pc = pc /\ call'[c].eng = e
    BY Zenon, <2>5, CallFields
  <2>7. InControl(c)' => Expected(c)'
    <3>1. CASE pc = "audit"
      BY <2>6, <3>1 DEF InControl
    <3>2. CASE pc = "start_store" /\ ~engine[e].running_
      <4>1. engine[e].worker = "none"
        BY <2>4, <3>2 DEF Agrees
      <4>2. call'[c].pc = "start_store" /\ engine'[call'[c].eng] = engine[e]
        BY <1>1, <2>6, <3>2
      <4> QED
        BY <3>2, <4>1, <4>2 DEF Expected
    <3>3. CASE pc = "stop_store" /\ engine[e].running_
      <4>1. engine[e].worker # "none"
        BY <2>4, <3>3 DEF Agrees
      <4>2. call'[c].pc = "stop_store" /\ engine'[call'[c].eng] = engine[e]
        BY <1>1, <2>6, <3>3
      <4> QED
        BY <3>3, <4>1, <4>2 DEF Expected
    <3> QED
      BY Zenon, <2>5, <3>1, <3>2, <3>3
  <2>8. Agrees(e)'
    BY <1>1, <2>4, <2>6 DEF Agrees
  <2> QED
    BY <1>1, <1>5, <2>1, <2>2, <2>6, <2>7, <2>8, ControlMoved DEF Control
<1> QED
  BY <1>4, <1>5 DEF Control

(* running_ is stored. *)
LEMMA StoreRunningControl ==
    ASSUME Control, Iso, IInv, ~Undefined, NEW c \in Callers, StoreRunning(c)
    PROVE  Control'
<1> DEFINE e == call[c].eng
           b == call[c].pc = "start_store"
<1>1. /\ call[c].pc \in {"start_store", "stop_store"} /\ UsesEngine(c) /\ InControl(c)
      /\ engine' = [engine EXCEPT ![e].running_ = b] /\ removing' = removing /\ ghost' = ghost
      /\ Goto(c, IF b THEN "start_thread" ELSE "joinable")
  BY DEF StoreRunning, UsesEngine, InControl
<1>2. e \in Engines /\ engine[e].live /\ engine \in [Engines -> Eng] /\ b \in BOOLEAN
  BY <1>1 DEF Iso, Users, EnginesTyped
<1>3. /\ \A f \in Engines \ {e} : engine'[f] = engine[f]
      /\ engine'[e].live = engine[e].live /\ engine'[e].owner = engine[e].owner
      /\ engine'[e].running_ = b /\ engine'[e].worker = engine[e].worker
  <2>1. PICK v \in BOOLEAN : v = b
    BY Zenon, <1>2
  <2>2. engine' = [engine EXCEPT ![e].running_ = v]
    BY <1>1, <2>1
  <2>3. e \in Engines
    BY <1>2
  <2>4. engine \in [Engines -> Eng]
    BY <1>2
  <2> HIDE DEF e, b
  <2>5. /\ \A f \in Engines \ {e} : engine'[f] = engine[f]
        /\ engine'[e].live = engine[e].live /\ engine'[e].owner = engine[e].owner
        /\ engine'[e].running_ = v /\ engine'[e].worker = engine[e].worker
    BY <2>2, <2>3, <2>4, EngineSet
  <2> QED
    BY <2>1, <2>5
<1>4. OthersStay(c) /\ call'[c].eng = e /\ call'[c].pc = IF b THEN "start_thread" ELSE "joinable"
  BY <1>1, CallFields
<1>5. CASE ghost.overlapped \/ ghost.noThread
  BY <1>1, <1>2, <1>3, <1>5, ControlLost
<1>6. CASE Orderly
  <2>1. ~Contended(c) /\ Expected(c)
    BY <1>1, <1>6, InOrder
  <2>2. Expected(c)'
    BY Zenon, <1>1, <1>3, <1>4, <2>1 DEF Expected
  <2>3. InControl(c)'
    BY <1>4 DEF InControl
  <2>4. SameGhost
    BY <1>1 DEF SameGhost
  <2> QED
    BY <1>1, <1>2, <1>3, <1>4, <1>6, <2>1, <2>2, <2>3, <2>4, ControlMoved DEF Control
<1> QED
  BY <1>5, <1>6 DEF Control

(* The thread is created; a call that does not overlap finds none there.   *)
LEMMA StartThreadControl ==
    ASSUME Control, Iso, IInv, ~Undefined, NEW c \in Callers, start_thread(c)
    PROVE  Control'
<1> DEFINE e == call[c].eng
<1>1. call[c].pc = "start_thread" /\ UsesEngine(c) /\ InControl(c) /\ removing' = removing
  BY DEF start_thread, UsesEngine, InControl
<1>2. e \in Engines /\ engine[e].live /\ engine \in [Engines -> Eng] /\ ghost \in Ghost
  BY Zenon, <1>1 DEF Iso, Users, EnginesTyped
<1>3. CASE ghost' = [ghost EXCEPT !.noThread = TRUE] /\ UNCHANGED engine
  <2>1. ghost'.noThread = TRUE
    BY <1>2, <1>3 DEF Ghost
  <2> QED
    BY <1>3, <2>1, ControlLost
<1>4. CASE engine[e].worker # "none" /\ ghost' = [ghost EXCEPT !.terminated = TRUE] /\ UNCHANGED engine
  <2>1. ghost'.overlapped = ghost.overlapped /\ ghost'.noThread = ghost.noThread
    BY <1>2, <1>4 DEF Ghost
  <2>2. ~Orderly
    BY <1>1, <1>4, InOrder DEF Expected
  <2> QED
    BY <1>4, <2>1, <2>2, ControlLost DEF Control
<1>5. CASE engine' = [engine EXCEPT ![e].worker = "running"] /\ Goto(c, "audit") /\ UNCHANGED ghost
  <2>1. /\ \A f \in Engines \ {e} : engine'[f] = engine[f]
        /\ engine'[e].live = engine[e].live /\ engine'[e].owner = engine[e].owner
        /\ engine'[e].running_ = engine[e].running_ /\ engine'[e].worker = "running"
    BY Zenon, <1>2, <1>5, EngineSet
  <2>2. OthersStay(c) /\ call'[c].eng = e /\ call'[c].pc = "audit"
    BY <1>5, CallFields
  <2>3. CASE ghost.overlapped \/ ghost.noThread
    BY <1>2, <1>5, <2>1, <2>3, ControlLost
  <2>4. CASE Orderly
    <3>1. ~Contended(c) /\ Expected(c)
      BY Zenon, <1>1, <2>4, InOrder
    <3>2. Agrees(e)'
      <4>1. engine[e].running_
        BY Zenon, <1>1, <3>1 DEF Expected
      <4>2. engine'[e].running_ /\ engine'[e].worker # "none"
        BY Zenon, <2>1, <4>1
      <4> QED
        BY Zenon, <2>2, <4>2 DEF Agrees
    <3>3. ~InControl(c)' /\ SameGhost
      BY <1>5, <2>2 DEF InControl, SameGhost
    <3> QED
      BY Zenon, <1>1, <1>2, <2>1, <2>2, <2>4, <3>1, <3>2, <3>3, ControlMoved DEF Control
  <2> QED
    BY <2>3, <2>4 DEF Control
<1> QED
  BY <1>3, <1>4, <1>5 DEF start_thread

(* The call that stops finds a thread to join, and nobody joining it. *)
LEMMA JoinableControl ==
    ASSUME Control, Iso, IInv, ~Undefined, NEW c \in Callers, joinable(c)
    PROVE  Control'
<1> DEFINE e == call[c].eng
<1>1. /\ call[c].pc = "joinable" /\ UsesEngine(c) /\ InControl(c) /\ removing' = removing /\ engine' = engine
  BY DEF joinable, UsesEngine, InControl, state
<1>2. e \in Engines /\ engine[e].live /\ engine \in [Engines -> Eng] /\ ghost \in Ghost
  BY <1>1 DEF Iso, Users, EnginesTyped
<1>3. CASE ghost.overlapped \/ ghost.noThread
  <2>1. ghost' = ghost \/ ghost' = [ghost EXCEPT !.terminated = TRUE]
    BY DEF joinable
  <2>2. ghost'.overlapped = ghost.overlapped /\ ghost'.noThread = ghost.noThread
    BY <1>2, <2>1 DEF Ghost
  <2> QED
    BY <1>1, <1>3, <2>2, ControlLost
<1>4. CASE Orderly
  <2>1. ~Contended(c) /\ Expected(c)
    BY Zenon, <1>1, <1>4, InOrder
  <2>2. ~\E d \in Callers : call[d].pc = "join" /\ call[d].eng = e
    BY <1>1, <2>1 DEF Contended, InControl
  <2>3. ~engine[e].running_ /\ engine[e].worker # "none"
    BY Zenon, <1>1, <2>1 DEF Expected
  <2>4. Goto(c, "join") /\ ghost' = ghost
    BY <2>2, <2>3 DEF joinable
  <2>5. OthersStay(c) /\ call'[c].eng = e /\ call'[c].pc = "join"
    BY <2>4, CallFields
  <2>6. Expected(c)' /\ InControl(c)' /\ SameGhost
    BY Zenon, <1>1, <2>3, <2>4, <2>5 DEF Expected, InControl, SameGhost
  <2> QED
    BY Zenon, <1>1, <1>2, <1>4, <2>1, <2>5, <2>6, ControlMoved DEF Control
<1> QED
  BY <1>3, <1>4 DEF Control

(* The worker is joined. *)
LEMMA JoinControl ==
    ASSUME Control, Iso, IInv, ~Undefined, NEW c \in Callers, join(c)
    PROVE  Control'
<1> DEFINE e == call[c].eng
<1>1. /\ call[c].pc = "join" /\ UsesEngine(c) /\ InControl(c) /\ removing' = removing /\ ghost' = ghost
      /\ engine' = [engine EXCEPT ![e].worker = "none"] /\ Goto(c, "audit")
  BY DEF join, UsesEngine, InControl
<1>2. e \in Engines /\ engine[e].live /\ engine \in [Engines -> Eng]
  BY <1>1 DEF Iso, Users, EnginesTyped
<1>3. /\ \A f \in Engines \ {e} : engine'[f] = engine[f]
      /\ engine'[e].live = engine[e].live /\ engine'[e].owner = engine[e].owner
      /\ engine'[e].running_ = engine[e].running_ /\ engine'[e].worker = "none"
  BY Zenon, <1>1, <1>2, EngineSet
<1>4. OthersStay(c) /\ call'[c].eng = e /\ call'[c].pc = "audit"
  BY <1>1, CallFields
<1>5. CASE ghost.overlapped \/ ghost.noThread
  BY <1>1, <1>2, <1>3, <1>5, ControlLost
<1>6. CASE Orderly
  <2>1. ~Contended(c) /\ Expected(c)
    BY <1>1, <1>6, InOrder
  <2>2. Agrees(e)'
    <3>1. ~engine[e].running_
      BY <1>1, <2>1 DEF Expected
    <3>2. ~engine'[e].running_ /\ engine'[e].worker = "none"
      BY Zenon, <1>3, <3>1
    <3> QED
      BY <1>4, <3>2 DEF Agrees
  <2>3. ~InControl(c)' /\ SameGhost
    BY <1>1, <1>4 DEF InControl, SameGhost
  <2> QED
    BY <1>1, <1>2, <1>3, <1>4, <1>6, <2>1, <2>2, <2>3, ControlMoved DEF Control
<1> QED
  BY <1>5, <1>6 DEF Control

(* Every step inside a call. *)
LEMMA CallStepControl ==
    ASSUME Control, Iso, IInv, ~Undefined, NEW c \in Callers, CallStep(c)
    PROVE  Control'
<1> USE DEF state, trailVars
<1>1. CASE get_tenant(c)
  <2>1. ~InControl(c) /\ UNCHANGED <<engine, removing, ghost>>
    BY Zenon, <1>1 DEF get_tenant, InControl
  <2>2. ToAudit(c, "Denied") \/ \E pc \in {"bind", "dispatch"}, e \in {registry[call[c].tenant]} : UseEngine(c, pc, e)
    BY <1>1 DEF get_tenant
  <2>3. OthersStay(c) /\ ~InControl(c)'
    BY Zenon, <2>2, CallFields DEF InControl
  <2> QED
    BY Zenon, <2>1, <2>3, ControlPassed DEF Unnoticed
<1>2. CASE record(c) \/ submit(c)
  <2>1. ~InControl(c) /\ UNCHANGED <<removing, ghost>> /\ Goto(c, "audit") /\ UsesEngine(c) /\ Received(c)
    BY Zenon, <1>2 DEF record, submit, InControl, UsesEngine
  <2>0. OthersStay(c) /\ call'[c].pc = "audit"
    BY <2>1, CallFields
  <2>2. OthersStay(c) /\ ~InControl(c)'
    BY <2>0 DEF InControl
  <2>3. \A e \in Engines : Unnoticed(e)
    <3> DEFINE e == call[c].eng
               r == [engine[e] EXCEPT !.from = @ \cup {token[c].tenant}]
    <3>1. engine \in [Engines -> Eng] /\ e \in Engines /\ engine[e].live /\ engine[e] \in Eng
      BY Zenon, <2>1 DEF Iso, EnginesTyped, Users
    <3>2. /\ r.live = engine[e].live /\ r.owner = engine[e].owner
          /\ r.running_ = engine[e].running_ /\ r.worker = engine[e].worker
      BY Zenon, <3>1 DEF Eng
    <3>3. engine' = engine \/ engine' = [engine EXCEPT ![e] = r]
      BY <2>1 DEF Received
    <3> HIDE DEF r, e
    <3>4. CASE engine' = engine
      BY <3>4 DEF Unnoticed
    <3>5. CASE engine' = [engine EXCEPT ![e] = r]
      BY Zenon, <3>1, <3>2, <3>5 DEF Unnoticed
    <3> QED
      BY <3>3, <3>4, <3>5
  <2> QED
    BY <2>1, <2>2, <2>3, ControlPassed
<1>3. CASE add_rule(c) \/ poll_signals(c) \/ Audit(c) \/ create_execution_tenant(c)
             \/ \E core \in 0..1 : LoadMaxCores(c, core)
  <2>1. ~InControl(c) /\ UNCHANGED <<engine, removing, ghost>>
    BY Zenon, <1>3 DEF add_rule, poll_signals, Audit, create_execution_tenant, LoadMaxCores, InControl
  <2>2. Goto(c, "audit") \/ call' = [call EXCEPT ![c] = Idle]
    BY Zenon, <1>3 DEF add_rule, poll_signals, Audit, create_execution_tenant, LoadMaxCores, abi_guard
  <2>3. OthersStay(c) /\ ~InControl(c)'
    BY <2>2, CallFields DEF InControl
  <2> QED
    BY <2>1, <2>3, ControlPassed DEF Unnoticed
<1>4. CASE LoadRequired(c) \/ animus_is_licensed(c) \/ FindClient(c)
  <2>1. ~InControl(c) /\ UNCHANGED <<engine, removing, ghost>>
    BY Zenon, <1>4 DEF LoadRequired, animus_is_licensed, FindClient, InControl
  <2>2. \/ \E pc \in {"is_licensed", "client"} : Goto(c, pc)
        \/ ToAudit(c, "Denied")
        \/ \E e \in {exec[call[c].tenant]} : UseEngine(c, "submit", e)
    BY Zenon, <1>4 DEF LoadRequired, animus_is_licensed, FindClient
  <2>3. OthersStay(c) /\ call'[c].pc \in {"is_licensed", "client", "audit", "submit"}
    BY Zenon, <2>2, CallFields
  <2>4. ~InControl(c)'
    BY <2>3 DEF InControl
  <2> QED
    BY Zenon, <2>1, <2>3, <2>4, ControlPassed DEF Unnoticed
<1>5. CASE create_tenant(c)
  <2>1. ~InControl(c) /\ UNCHANGED <<removing, ghost>>
    BY Zenon, <1>5 DEF create_tenant, InControl
  <2>2. ToAudit(c, "Allowed") \/ call' = [call EXCEPT ![c] = Idle]
    BY Zenon, <1>5 DEF create_tenant, abi_guard
  <2>3. OthersStay(c) /\ ~InControl(c)'
    BY <2>2, CallFields DEF InControl
  <2>4. CASE UNCHANGED engine
    BY <2>1, <2>3, <2>4, ControlPassed DEF Unnoticed
  <2>5. CASE ~UNCHANGED engine
    <3>1. PICK e \in Engines : ~engine[e].live /\ engine' = [engine EXCEPT ![e] = NewEngine(call[c].tenant)]
      BY Zenon, <1>5, <2>5 DEF create_tenant
    <3>2. engine \in [Engines -> Eng]
      BY DEF Iso, EnginesTyped
    <3>3. /\ \A f \in Engines \ {e} : engine'[f] = engine[f]
          /\ engine'[e].live = TRUE /\ engine'[e].running_ = FALSE /\ engine'[e].worker = "none"
      BY <3>1, <3>2, FreshEngine
    <3>4. \A f \in Engines : Unnoticed(f)
      BY <3>1, <3>3 DEF Unnoticed, Agrees
    <3> QED
      BY <2>1, <2>3, <3>4, ControlPassed
  <2> QED
    BY <2>4, <2>5
<1> QED
  BY <1>1, <1>2, <1>3, <1>4, <1>5, LoadRunningControl, StoreRunningControl, StartThreadControl,
     JoinableControl, JoinControl DEF CallStep

(* remove_tenant clears the flag of the engine it is about to destroy. *)
LEMMA RemoveControl ==
    ASSUME Control, Iso, IInv, ~Undefined, NEW t \in Tenants, remove_tenant(t)
    PROVE  Control'
<1> DEFINE e == registry[t]
<1>1. /\ removing = 0 /\ e # 0 /\ removing' = t /\ call' = call /\ engine' = [engine EXCEPT ![e].running_ = FALSE]
  BY DEF remove_tenant
<1>2. /\ engine \in [Engines -> Eng] /\ ghost \in Ghost /\ e \in Engines /\ engine[e].live /\ engine[e].owner = t
      /\ 0 \notin Tenants
  BY <1>1 DEF Iso, EnginesTyped, Registered, IInv, Typed, Map
<1> DEFINE used == ghost.removedInUse \/ exec[t] = e \/ \E c \in Callers : UsesEngine(c) /\ call[c].eng = e
<1>3. /\ ghost'.overlapped = ghost.overlapped /\ ghost'.noThread = ghost.noThread
      /\ ghost'.terminated = ghost.terminated /\ ghost'.removedInUse = used
  <2>1. ghost' = [ghost EXCEPT !.removals = ghost.removals + 1, !.removedInUse = used]
    BY DEF remove_tenant
  <2> HIDE DEF used
  <2> QED
    BY <1>2, <2>1 DEF Ghost
<1>4. /\ \A f \in Engines \ {e} : engine'[f] = engine[f]
      /\ engine'[e].live = engine[e].live /\ engine'[e].owner = engine[e].owner
  BY Zenon, <1>1, <1>2, EngineSet
<1>5. Gone'
  BY Zenon, <1>2, <1>4 DEF Control, Gone
<1>6. CASE ghost.overlapped \/ ghost.noThread
  BY <1>3, <1>5, <1>6 DEF Control
<1>7. CASE Orderly
  <2>1. ~ghost'.terminated
    BY Zenon, <1>3, <1>7 DEF Orderly
  <2>2. \A c \in Callers : (InControl(c)' <=> InControl(c)) /\ call'[c] = call[c]
    BY <1>1 DEF InControl
  <2>3. Alone'
    BY <1>7, <2>2 DEF Orderly, Alone
  <2>4. Settled'
    <3> SUFFICES ASSUME NEW f \in Engines, ~Held(f)', removing' = 0 \/ engine'[f].owner # removing'
                 PROVE  Agrees(f)'
      BY DEF Settled
    <3>1. f # e
      BY <1>1, <1>2, <1>4
    <3>2. ~Held(f) /\ engine'[f] = engine[f]
      BY <1>4, <2>2, <3>1 DEF Held
    <3>3. Agrees(f)
      BY <1>1, <1>7, <3>2 DEF Orderly, Settled
    <3> QED
      BY Zenon, <3>2, <3>3 DEF Agrees
  <2>5. ASSUME ~used, NEW c \in Callers
        PROVE  Expected(c)'
    <3>1. Expected(c)
      BY <1>7 DEF Orderly, Undefined
    <3>2. CASE ~InControl(c)
      BY <2>2, <3>2 DEF Expected, InControl
    <3>3. CASE InControl(c)
      <4>1. call[c].eng \in Engines \ {e}
        BY Zenon, <2>5, <3>3 DEF UsesEngine, Iso, Users
      <4>2. call'[c].pc = call[c].pc /\ engine'[call'[c].eng] = engine[call[c].eng]
        BY Zenon, <1>4, <2>2, <4>1
      <4> QED
        BY Zenon, <3>1, <4>2 DEF Expected
    <3> QED
      BY <3>2, <3>3
  <2>6. ghost'.removedInUse \/ \A c \in Callers : Expected(c)'
    BY Zenon, <1>3, <2>5
  <2> QED
    BY <1>5, <2>1, <2>3, <2>4, <2>6 DEF Control, Orderly
<1> QED
  BY <1>6, <1>7 DEF Control

(* The engine is gone, and with it its worker. *)
LEMMA DestroyControl ==
    ASSUME Control, Iso, IInv, ~Undefined, NEW e \in Engines, EngineDestroyed(e)
    PROVE  Control'
<1>1. /\ removing # 0 /\ engine[e].live /\ engine[e].owner = removing /\ removing' = 0
      /\ engine' = [engine EXCEPT ![e] = NoEngine] /\ UNCHANGED <<call, ghost>>
  BY DEF EngineDestroyed
<1>2. engine \in [Engines -> Eng]
  BY DEF Iso, EnginesTyped
<1>3. engine'[e] = NoEngine /\ \A f \in Engines \ {e} : engine'[f] = engine[f]
  BY <1>1, <1>2
<1>4. Gone'
  BY <1>3 DEF Control, Gone
<1>5. CASE ghost.overlapped \/ ghost.noThread
  BY <1>1, <1>4, <1>5 DEF Control
<1>6. CASE Orderly
  <2>1. \A c \in Callers : (InControl(c)' <=> InControl(c)) /\ call'[c] = call[c]
    BY <1>1 DEF InControl
  <2>2. \A c \in Callers : InControl(c) => call[c].eng \in Engines \ {e}
    BY <1>1 DEF Iso, Users, Condemned, UsesEngine, Undefined
  <2>3. Alone'
    BY <1>6, <2>1 DEF Orderly, Alone
  <2>4. Settled'
    <3> SUFFICES ASSUME NEW f \in Engines, ~Held(f)' PROVE Agrees(f)'
      BY DEF Settled
    <3>1. CASE f = e
      BY <1>3, <3>1, FreshEngine DEF Agrees
    <3>2. CASE f # e
      <4>1. ~Held(f) /\ engine'[f] = engine[f]
        BY Zenon, <1>3, <2>1, <3>2 DEF Held
      <4>2. CASE engine[f].live
        <5>1. engine[f].owner # removing
          BY <1>1, <3>2, <4>2 DEF Iso, Registered
        <5>2. Agrees(f)
          BY <1>6, <4>1, <5>1 DEF Orderly, Settled
        <5> QED
          BY <4>1, <5>2 DEF Agrees
      <4>3. CASE ~engine[f].live
        <5>1. engine[f] = NoEngine
          BY <4>3 DEF Control, Gone
        <5> QED
          BY <4>1, <5>1, FreshEngine DEF Agrees
      <4> QED
        BY <4>2, <4>3
    <3> QED
      BY <3>1, <3>2
  <2>5. ASSUME NEW c \in Callers
        PROVE  Expected(c)'
    <3>1. Expected(c)
      BY <1>6 DEF Orderly, Undefined
    <3>2. CASE ~InControl(c)
      BY <2>1, <3>2 DEF Expected, InControl
    <3>3. CASE InControl(c)
      <4>1. call'[c].pc = call[c].pc /\ engine'[call'[c].eng] = engine[call[c].eng]
        BY Zenon, <1>3, <2>1, <2>2, <3>3
      <4> QED
        BY Zenon, <3>1, <4>1 DEF Expected
    <3> QED
      BY <3>2, <3>3
  <2>6. ~ghost'.terminated
    BY <1>1, <1>6 DEF Orderly
  <2> QED
    BY <1>4, <2>3, <2>4, <2>5, <2>6 DEF Control, Orderly
<1> QED
  BY <1>5, <1>6 DEF Control

(* Every step of the gateways, the owner and the workers. *)
LEMMA NextControl == Control /\ Iso /\ IInv /\ [Next]_vars => Control'
<1> SUFFICES ASSUME Control, Iso, IInv, [Next]_vars PROVE Control'
  OBVIOUS
<1> USE DEF state, trailVars
<1>1. CASE ~Undefined /\ \E c \in Callers : CallStep(c)
  BY <1>1, CallStepControl
<1>2. ASSUME NEW c \in Callers, NewCall(c)
      PROVE  Control'
  <2>1. ~InControl(c) /\ UNCHANGED <<engine, removing, ghost>>
    BY Zenon, <1>2 DEF NewCall, Begin, animus_pin_current_thread_to_core, InControl
  <2>2. CASE animus_pin_current_thread_to_core(c)
    <3>1. Goto(c, "pin")
      BY <2>2 DEF animus_pin_current_thread_to_core
    <3>2. OthersStay(c) /\ call'[c].pc = "pin"
      BY <3>1, CallFields
    <3>3. ~InControl(c)'
      BY <3>2 DEF InControl
    <3> QED
      BY Zenon, <2>1, <3>2, <3>3, ControlPassed DEF Unnoticed
  <2>3. CASE \E op \in Op, t \in Tenants : Begin(c, op, t)
    <3>1. OthersStay(c) /\ call'[c].pc \in {"audit", "license", "resolve"}
      <4>1. call \in [Callers -> Call]
        BY DEF IInv, Typed
      <4>2. PICK op \in Op, t \in Tenants : Begin(c, op, t)
        BY <2>3
      <4> QED
        BY Zenon, <4>1, <4>2 DEF Begin, OthersStay
    <3>2. ~InControl(c)'
      BY <3>1 DEF InControl
    <3> QED
      BY <2>1, <3>1, <3>2, ControlPassed DEF Unnoticed
  <2> QED
    BY <1>2, <2>2, <2>3 DEF NewCall
<1>3. ASSUME NEW e \in Engines, WorkerEnds(e)
      PROVE  Control'
  <2>1. /\ engine[e].worker = "running" /\ engine' = [engine EXCEPT ![e].worker = "ended"]
        /\ UNCHANGED <<call, removing, ghost>>
    BY <1>3 DEF WorkerEnds
  <2>2. engine \in [Engines -> Eng]
    BY DEF Iso, EnginesTyped
  <2>3. /\ \A f \in Engines \ {e} : engine'[f] = engine[f]
        /\ engine'[e].live = engine[e].live /\ engine'[e].owner = engine[e].owner
        /\ engine'[e].running_ = engine[e].running_ /\ engine'[e].worker = "ended"
    BY <2>1, <2>2, EngineSet
  <2>4. engine[e].live
    BY <2>1, FreshEngine DEF Control, Gone
  <2>5. \A f \in Engines : Unnoticed(f)
    BY <2>1, <2>3, <2>4 DEF Unnoticed
  <2> QED
    BY <2>1, <2>5, ControlLeft DEF SameGhost
<1>4. CASE ~Undefined /\ \E e \in Engines : EngineDestroyed(e)
  BY <1>4, DestroyControl
<1>5. CASE ~Undefined /\ \E t \in Tenants : remove_tenant(t)
  BY <1>5, RemoveControl
<1>6. CASE \/ LicenseVerified \/ \E f \in Licences : animus_verify_license(f)
           \/ \E g \in Trails, n \in 1..kCapacity : poll_audit_log(g, n)
           \/ UNCHANGED vars
  <2>1. UNCHANGED <<removing, engine, call, ghost>>
    BY Zenon, <1>6 DEF LicenseVerified, animus_verify_license, poll_audit_log, vars
  <2> QED
    BY Zenon, <2>1, ControlLeft DEF SameGhost, Unnoticed
<1>7. ASSUME NEW required \in BOOLEAN, set_execution_license_required(required)
      PROVE  Control'
  <2>1. /\ UNCHANGED <<removing, engine, ghost>>
        /\ call' = [c \in Callers |-> [call[c] EXCEPT !.bound = @ /\ required]]
    BY <1>7 DEF set_execution_license_required
  <2>2. ASSUME NEW c \in Callers
        PROVE  call'[c].pc = call[c].pc /\ call'[c].eng = call[c].eng
    <3>1. call[c] \in Call
      BY DEF IInv, Typed
    <3> QED
      BY <2>1, <3>1 DEF Call
  <2> QED
    BY <2>1, <2>2, ControlLeft DEF SameGhost, Unnoticed
<1> QED
  BY Zenon, <1>1, <1>2, <1>3, <1>4, <1>5, <1>6, <1>7 DEF Next, Background, Owner

(***************************************************************************)
(* Unless two of these calls overlap on an engine or a thread cannot be    *)
(* created, starting and stopping never ends the process, and whenever no  *)
(* such call is under way on an engine that is not being removed, running_ *)
(* is set exactly while there is a worker: for every number of callers and *)
(* engines and through removals of tenants.                                *)
(***************************************************************************)
THEOREM WorkersControlled == Spec => []PersistenceControlled
<1>1. Control => PersistenceControlled
  BY DEF Control, Orderly, Settled, Held, Agrees, PersistenceControlled
<1> QED
  BY <1>1, InitControl, NextControl, InitIso, NextIso, Invariant, PTL DEF Spec
=============================================================================
