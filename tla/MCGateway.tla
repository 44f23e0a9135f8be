------------------------------ MODULE MCGateway -----------------------------
(* Instances of Gateway for TLC: the operations are grouped by the state   *)
(* they share, so that a behaviour need not interleave unrelated ones.     *)
EXTENDS Gateway

Token(role, tenant) == [role |-> role, tenant |-> tenant]

MCScenarios ==
    [ops : {{"record", "add_rule", "poll_signals", "poll_audit_log"}},
     tokens : {<<{Token("Viewer", 1), Token("Operator", 1)}, {Token("Admin", 2)}>>},
     tenants : {{1}}, cores : {{}}]
    \cup
    [ops : {{"start_persistence", "stop_persistence", "remove_tenant"}},
     tokens : {<<{Token("Admin", 1)}, {Token("Admin", 1), Token("Admin", 2)}>>},
     tenants : {{1, 2}}, cores : {{}}]
    \cup
    [ops : {{"create_tenant", "create_execution_tenant", "submit", "remove_tenant"}},
     tokens : {<<{Token("Admin", 1)}, {Token("Operator", 1)}>>},
     tenants : {{2}}, cores : {{}}]
    \cup
    [ops : {{"record", "create_execution_tenant", "submit"}},
     tokens : {<<{Token("Admin", 1)}, {Token("Admin", 2)}>>},
     tenants : {{1, 2}}, cores : {{}}]
    \cup
    [ops : {{"create_execution_tenant", "submit", "set_execution_license_required", "animus_verify_license"}},
     tokens : {<<{Token("Admin", 1)}, {Token("Operator", 1)}>>},
     tenants : {{1}}, cores : {{1}}]
    \cup
    [ops : {{"animus_pin_current_thread_to_core", "animus_verify_license"}},
     tokens : {<<{Token("Viewer", 1)}, {Token("Viewer", 1)}>>},
     tenants : {{}}, cores : {{1, 2}}]
=============================================================================
