SPECIFICATION PartsSpec
CONSTANTS
    CoarseMax = 4
    MediumMax = 2
    FineMax = 2
    Start = 2
    Samples = 10
    MediumInCoarse = 2
    FineInMedium = 3
    Rounds = 1
    Reference = 2470
    CoarseTune = 4
    MediumTune = 2
    Garbage <- GarbageDelays
    Choices = {a, b}
    Factory = f
    FolderCount = 4
    FileCount = 1
    Length = 6
    Spike = 49
    Half = 64
    Word = 256
    Readings <- ReadingsTried
    Voltages <- VoltagesTried
    Gauges <- GaugesTried
    Networks <- NetworksTried
    Channels <- ChannelsTold
INVARIANTS
    CoarseEdgeFirst
    FineTellsMedium
    AdjustmentCloses
    SettingsKept
    FilesGoneFoldersLeft
    SpikesCut
    LightsTell
    ScanTold
PROPERTY MeasureEnds
CHECK_DEADLOCK FALSE
