SPECIFICATION Spec
CONSTANTS
    old = old
    new = new
    long = long
    NSettings = 3
    NPlugs = 2
    NSlots = 2
    Texts <- MCTexts
    Plain <- MCPlain
    Numbers <- MCNumbers
    Levels <- MCLevels
    Lost = lost
    Absent = absent
    Bad = bad
    Commands <- MCCommands
INVARIANTS
    TypeOK
    CarriedOut
    AnswerIsTrue
    SentAsAsked
    RepetitionIsHarmless
