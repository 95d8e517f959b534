SPECIFICATION Spec
CONSTANTS
    NPlugs = 1
    NSlots = 2
    SPM = 2
    MPH = 2
    HPD = 2
    DPW = 2
    Sync = 2
    Boot = 9
    Zone = 5
    Drift <- AnyDrift
    NewTasks <- MCMixed
    Levels <- MCLevels
    MaxEdits = 2
    None = none
INVARIANTS
    TypeOK
    OneShotFiresOnce
PROPERTIES
    DueIsServed
    DisarmsWhatFired
    FiresWhenDue
