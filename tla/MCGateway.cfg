CONSTANTS
    kCapacity = 2
    Callers = {1, 2}
    Tenants = {1, 2}
    Engines = {1, 2}
    Cores = {1, 2}
    Scenarios <- MCScenarios
    MaxCalls = 2
    MaxRemovals = 1
SPECIFICATION FairSpec
INVARIANTS AuditAccounted EveryCallAudited TenantIsolation LicenceHonoured PersistenceControlled
PROPERTIES CallReturns
CHECK_DEADLOCK FALSE
