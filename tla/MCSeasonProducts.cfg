SPECIFICATION Spec

CONSTANTS
    prepare = prepare
    care = care
    harvest = harvest
    store = store
    Seasons = {s1, s2}
    Steps <- ShortSteps
    Order <- ShortOrder
    Repeated <- MCPostHarvest
    PostHarvest <- MCPostHarvest
    Details = {d1, d2}
    Logs = {}
    Products = {p1}
    Calls = {k1, k2, k3}
    Null = Null

SYMMETRY Symmetry

INVARIANTS
    OnSaleIsGrown
