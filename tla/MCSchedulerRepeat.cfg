SPECIFICATION Spec
CONSTANTS
    NPlugs = 1
    NSlots = 1
    SPM = 2
    MPH = 2
    HPD = 2
    DPW = 2
    Sync = 2
    Boot = 9
    Zone = 5
    Drift <- NoDrift
    NewTasks <- MCMarked
    Levels <- MCLevels
    MaxEdits = 1
    None = none
PROPERTY
    RepeatAsDocumented
