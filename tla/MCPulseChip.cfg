SPECIFICATION Spec
CONSTANTS
    Choices <- MCChoices
    Default <- MCDefault
    Adjusts <- MCAdjusts
    Searched = {3, 300}
    Rounds = 2
INVARIANTS
    TypeOK
    RowAsSet
    SettingsApplied
PROPERTY
    ModifyEnds
