\* Liveness, and what has to hold for it, of four parts.
CONSTANTS
    \* telnet
    MaxTelnetLines = 5
    \* ssh: two channels multiplexed over one connection, in every order
    Channels = {"c1", "c2"}
    \* geo: two connections looking one address up, two changes of the files
    Threads = {"t1", "t2"}
    Addresses = {"a1"}
    MaxChanges = 2
    CacheMax = 1
    EvictCount = 1
    \* supervision
    Profiles = {"ssh", "esxi", "owa", "fileshare", "winserver"}
    DataDirs = {"closed", "empty", "cert"}
    MaxFaults = 3
SPECIFICATION MCSpec
INVARIANTS
    StoryTold
    ChannelsSound
    LossIsNoticed
    GeoSound
PROPERTIES
    LetGo
    TakenChannelsClose
    RefreshPickedUp
    Recovers
CHECK_DEADLOCK FALSE
