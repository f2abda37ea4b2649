SPECIFICATION SpecParts
CONSTANTS
    Templates = {t1, t2}
    MaxLines = 3
    MaxLives = 3
    t1 = t1
    t2 = t2
    s1 = s1
    s2 = s2
    none = none
    Patterns = {pat1, pat2}
    Scores = {5, 6}
    Cooldown = 1
    MaxCooldown = 4
    Escalation = 1
    MaxTracked = 1
    LastSignal = 9
    MaxLag = 1
    MaxSeen = 4
    Gauges = {"a", "b"}
    Families <- TheFamilies
    WarmupSamples = 1
    SeasonalDays = 3
    MaxSeries = 1
    SeriesTTL = 5
    SweepInterval = 2
    SeasonalTolerance = 1
    MaxDeviations = 4
    MetricDay = 4
    LastSample = 10
    MaxGap = 4
    MaxSamples = 4
    MaxOrders = 1
    Journal <- TheJournal
    Excluded = {"tezcatl"}
    Transient <- TheSessions
    Routes <- TheRoutes
    MaxLearned = 2
    Objects = {d1, d2}
    MaxChanges = 3
    MaxOccurrences = 4
    MaxBreaks = 2
    Pods = {p1}
    Second = 2
    InitialSince = 2
    FirstWait = 1
    LongestWait = 4
    LongEnough = 2
    LongLines = {FALSE}
    LastLine = 4
    MaxPodLines = 2
    MaxMoves = 3
    MaxEnds = 1
    Ids = {t1, t2}
    Names = {"web"}
    ServiceNamed <- TheServices
    Width = 16
    LastTick = 4
    MaxBootings = 2
    MaxRuns = 2
    Queries <- TheQueries
    Answers <- TheAnswers
    LastReading = 4
    At <- SomeTimes
    Of <- SomeContainers
    Blank = {3}
    Limit = 3
    Lookback = 3
    Environment = ""
    MaxPolls = 2
    MaxRefreshes = 2
    LogDay = 2
    Retention = 2
    Skews <- SomeSkews
    LogEnd = 7
    MaxBatches = 2
    MaxTorn = 1
    Installable = {"journald", "host"}
    Supervised = {"journald"}
    Releases <- TheReleases
    FirstRestart = 1
    LongestRestart = 4
    LastRestart = 8
    MaxInstalls = 2
    Browsers = {t1, t2}
    Modes = {"password", "oidc"}
    SessionTTL = 1
    TripTTL = 1
    Slots = {s1, s2}
    LastVisit = 2
    MaxTokens = 3
    Texts = {"a", "b"}
    Glob = "*"
    Markings = {"", "ignore"}
    Configured <- SomeMarks
    Tabs = {"tab"}
    MaxRead = 1
    MaxCommands = 2
    MaxCrashes = 1
    EventHistory = 2
    RingSize = 2
    Behind = 1
    MaxEvents = 3
    MaxMarks = 1
    MaxBoots = 1
    MaxListings = 1
SYMMETRY Symmetry
INVARIANTS
    SilencesFit
    MemoryServes
    DeviationsAreTold
    ResumesWhereItStopped
    ClusterIsTold
    TailsAreWhole
    MetricsAreReal
    StagesAgree
    PollsMissNothing
    QueryFindsRetained
    PluginsAreKept
    TripsClose
    PagesTellTheTruth
    DecisionsHold
    FeedIsWhole
    WellGrouped
PROPERTIES
    KeepsPromise
    NamesStick
CHECK_DEADLOCK FALSE
