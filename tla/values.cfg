\* Dictionaries, texts and passwords, saved and read over and over.
SPECIFICATION Spec
CONSTANTS
    Configs <- MCConfigs
    PublicData <- MCPublic
    FoundBuffers <- MCFound
    NewSeed <- OwnSeed
    CutItems = 2
    ValuesSaved <- MCValuesSaved
    FoundTexts <- MCFoundTexts
    Tick = 2
    Baseline = 100
    MaxSaves = 2
    Urls <- MCUrls
    Starts <- MCStarts
    RunsFor = 12
CHECK_DEADLOCK FALSE
INVARIANTS DictionaryReturns ValuesSettle CodeValid
