\* The kitchen in any interleaving, the bar one request at a time; four requests.
SPECIFICATION Spec
CONSTANTS
    kitchen = kitchen
    bar = bar
    floor = floor
    counter = counter
    shelf = shelf
    morning = morning
    evening = evening
    late = late
    mop = mop
    scrub = scrub
    rinse = rinse
    wipe = wipe
    Site = {kitchen, bar}
    Zone = {floor, counter, shelf}
    Routine = {morning, evening, late}
    Task = {mop, scrub, rinse, wipe}
    establishment <- Where
    schedule <- When
    Seed <- There
    plan <- Planned
    Request = {q1, q2, q3, q4}
    Exclusive = {bar}
    None = None
    Gone = Gone
SYMMETRY Symmetry
INVARIANTS TypeOK LogsAreExplained BatchWhole TodoIsCurrent
PROPERTIES ImplementsLogbook
CHECK_DEADLOCK FALSE
