CONSTANTS
    r1 = r1
    r2 = r2
    r3 = r3
    Relays = {r1, r2, r3}
    None = None
    Configured <- TwoConfigured
    MaxDiscovered = 1
    MaxTimers = 6
    Scenarios <- AllScenarios
SPECIFICATION ManagerSpec
INVARIANTS SelectedIsUsed
PROPERTIES WorkingReservationSurvives Reconnects
CHECK_DEADLOCK FALSE
