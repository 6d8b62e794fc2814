\* the stores of the admin API, on a damaged or unwritable disk
SPECIFICATION FleetSpec
CONSTANTS
    d1 = d1  d2 = d2  d3 = d3  c1 = c1  c2 = c2  g1 = g1  g2 = g2
    t1 = t1  t2 = t2  toolA = toolA  toolB = toolB  p1 = p1  p2 = p2
    Device = {d1, d2, d3}
    Credential = {c1, c2}
    MaxDevices = 2
    Heartbeats <- Reports
    CanarySize <- Sizes
    MaxDevFails = 1
    Grant = {g1, g2}
    Tenant = {t1}
    Unscoped = Unscoped
    Tool = {toolA, toolB}
    RoleTools <- TwoRoles
    MaxGrants = 1
    MaxTime = 2
    MaxJitFails = 1
    Package = {p1}
    Version = {v1, v2, v3}
    NoVersion = NoVersion
    MaxPkgFaults = 2
    PolTenant = {t1, t2}
    NoRevision = 0
    MaxRevisions = 2
    MaxCreated = 4
    MaxPolFaults = 2
INVARIANTS DevicesStayOut AdminStoresHold
PROPERTIES UpgradesAdvance
