SPECIFICATION Spec
CONSTANTS
    NoIntent = NoIntent
    NoPlan = NoPlan
    Actors = {"SCHEDULER"}
    Runs = {r1, r2}
    Intents = {i1, i2}
    Plans = {p1, p2}
    LastBoundary = 2
    MaxStops = 1
SYMMETRY Symmetry
CHECK_DEADLOCK FALSE
INVARIANTS
    FillIsNeverLost
    PositionsMatchFills
    ReportedFillIsMaterialized
