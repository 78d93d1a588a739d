SPECIFICATION Spec

CONSTANTS
    prepare = prepare
    care = care
    harvest = harvest
    store = store
    Seasons = {s1}
    Steps <- MCSteps
    Order <- MCOrder
    Repeated <- MCRepeated
    PostHarvest <- MCPostHarvest
    Details = {d1, d2}
    Logs = {l1, l2}
    Products = {}
    Calls = {k1, k2}
    Null = Null

SYMMETRY Symmetry

INVARIANTS
    TypeOK
    NoPhaseSkipped
    EndedByHarvestOrOverlap
    StartedStaysStarted
    FinishedWorkIsLogged
