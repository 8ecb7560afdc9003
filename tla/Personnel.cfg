\* Two organisations with a site each; mo manages both sites and ana is a cook on
\* the first, each one request at a time; ben is to come, in any interleaving;
\* three requests.
SPECIFICATION Spec
CONSTANTS
    mo = mo
    ana = ana
    ben = ben
    s1 = s1
    s2 = s2
    manager = manager
    cook = cook
    User = {mo, ana, ben}
    Site = {s1, s2}
    Role = {manager, cook}
    Manager = {manager}
    Platform = {manager}
    organisation <- OneSiteEach
    Seed <- Hired
    Request = {q1, q2, q3}
    Exclusive = {mo, ana}
    None = None
SYMMETRY Symmetry
INVARIANTS TypeOK
PROPERTIES ImplementsEmployment RightsEnd SecondRoleExplained TenantsKeepRights
CHECK_DEADLOCK FALSE
