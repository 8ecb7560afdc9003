\* An organisation with two sites, one request at a time; one with a site and
\* two to come, in any interleaving; and two organisations to come.  The cleaning
\* logs hold their site, the time-clock events do not.
SPECIFICATION Spec
CONSTANTS
    org = org
    chain = chain
    a = a
    b = b
    c = c
    d = d
    e = e
    Organisation = {org, chain, n1, n2}
    Site = {a, b, c, d, e}
    owner <- Owners
    Seed = {a, b, c}
    timeclock = timeclock
    cleaning = cleaning
    Feature = {timeclock, cleaning}
    Held = {cleaning}
    Request = {q1, q2, q3}
    Exclusive = {org}
    None = None
SYMMETRY Symmetry
INVARIANTS TypeOK RecordsOnFile
PROPERTIES KeepsASite SettingsMerged GateInForce
CHECK_DEADLOCK FALSE
