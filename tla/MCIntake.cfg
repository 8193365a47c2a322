SPECIFICATION Spec
CONSTANTS
    Deliveries = {d1, d2}
    Batch = Batch
    MaxLane = 2
    MaxSnapshots = 2
    CombinedAdmission = 2
    WalAdmission = 2
    CheckpointAt = 2
    MaxMain = 1
    MaxWal = 2
    MaxRows = 1
    MaxConfigs = 1
INVARIANTS IntakeInv DisabledIsQuiet HandedBackIsQuiet
PROPERTIES AdmittedBelowLimit SettingsHold
SYMMETRY Symmetry
