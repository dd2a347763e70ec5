\* One device: every rule, every threshold change, removal and return.
SPECIFICATION Spec
CONSTANTS
    Address = {d1}
    Temperature <- MCTemperature
    CabinetCount <- MCCabinetCount
    Tunable <- MCTunable
    Configured <- MCConfigured
    MissBound = 3
    None = None
INVARIANTS
    TypeOK
    OfflineAlertTracksOutage
PROPERTIES
    NoFlapping
    LifecycleSpec
    EscalationIsHeard
