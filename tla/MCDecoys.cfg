\* Every decoy on an instance of its own; the bounds are those of the modules.
CONSTANTS
    \* profiles: seven kinds of events, every sequence, every cut into batches
    Inputs <- MCInputs
    EventTypes <- MCEventTypes
    Categories <- MCCategories
    CommandCap = 2
    MaxEvents = 4
    \* tracker: three addresses, room for two
    Processes = {"sensor"}
    Visitors = {"a", "b", "c"}
    Window = 1
    MaxEntries = 2
    MaxTime = 2
    MaxSids = 5
    \* timing: two addresses, room for one
    Sources = {"s1", "s2"}
    TimingMax = 1
    BurstWindow = 2
    MaxCalls = 5
    \* capture: three connections on one port pair
    MaxConns = 3
    MaxRepeats = 1
    SmallBuf = 2
    MaxBuf = 4
    \* probes
    Streams <- MCStreams
    Budget = 4
    \* docker: three requests, room for one container
    MaxRequests = 3
    Bodies <- MCBodies
    ContMax = 1
    \* redis
    Conns = {"c1"}
    Commands <- MCCommands
    MaxCmds = 3
    MaxFrames = 4
    \* http
    Kinds <- MCKinds
    MaxVisits = 3
    \* share
    TypedUrls <- MCTypedUrls
    \* routes
    Agents = {"a1", "a2", "a 3"}
    PlainAgents = {"a1", "a2"}
    DownloadIds = {"i1", "i2"}
    \* canary
    IPs = {"p", "q"}
    Beacons = {"b1"}
    DlMax = 2
    MaxDownloads = 3
    Headers = {"none", "kerberos"}
    MaxRestarts = 1
    \* universe
    Sessions = {"s1", "s2"}
    ShareThread = "sh"
    MaxStarts = 2
    \* shell
    Users = {"root", "admin", "pi"}
    Typed <- MCTyped
    MaxCommands = 2
    \* editor
    Twins = {"ssh", "base"}
    Letters = {"exit"}
    ExitKey = "exit"
    MaxKeys = 4
SPECIFICATION MCSpec
INVARIANTS
    CountersCarried
    OrderKept
    SevereVerdictKept
    BurstsWithinFactorTwo
    PrintsMatchClients
    ProbeIsTold
    StartKnowsItsCreate
    BoundedAtRest
    AttackIsTold
    VisitorIsToldApart
    ListedIsServed
    EveryLinkComesHome
    AttributedOrForgotten
    OneUniverse
    ShellKeepsItsStory
    LoggedAsTyped
PROPERTY
    SessionIsAWindow
CHECK_DEADLOCK FALSE
