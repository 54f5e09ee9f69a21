\* One stream of one customer, up to five words and three days, the phrase
\* list edited twice, the service and a second copy.
SPECIFICATION FairSpec
CONSTANTS
    Words <- MCWords
    Spelling <- MCSpelling
    Sound <- MCSound
    Common = {"a", "and", "ask", "get"}
    Stopwords = {"a", "and"}
    Files <- MCFiles
    Langs = {"en"}
    Vocabularies <- MCVocabularies
    TriggerDfMax = 1
    BrandSpan = 3
    EditRatio = 5
    Kill = 860
    Review = 720
    PairKill = 920
    PairReview = 800
    DistanceBound = 4
    WindowS = 1
    MaxTokens = 4
    BThreshold = 4
    C1Weight = 3
    C2Weight = 1
    MaxSuppress = 4
    DayS = 2
    AlertMinCalls = 1
    AlertKillRate = 1
    AlertBRate = 20
    AlertEveryS = 1
    Lexicon <- MCWords
    StartBurst = 2
    Plans <- MCPlans
    None = None
INVARIANTS
    TypeOK
    ReportsDoNotOverlap
    CrossingIsReported
    EvidenceKept
    ListIsTheFile
    DistanceIsExact
PROPERTIES
    ConfidentPhraseFires
    OverRateIsAlerted
    DetectionComesBack
\* A service that was stopped, or ended cleanly, may never be started again.
CHECK_DEADLOCK FALSE
