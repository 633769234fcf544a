\* Two logs and their readers.
CONSTANTS
    \* events: three emitters, the aggregator and prune in every order, one crash
    \* each, and one event the fold cannot digest
    Events = {1, 2, 3}
    Hours = {0, 1}
    HourOf <- MCHourOf
    IPs = {0, 1}
    IpOf <- MCIpOf
    Poison = {3}
    Cap = 1
    MaxRunCrashes = 1
    MaxPruneCrashes = 1
    \* kernel: two lines over three files in turn, one truncation, one kill
    MaxLines = 2
    MaxInodes = 3
    MaxTruncations = 1
    MaxKills = 1
SPECIFICATION MCSpec
INVARIANTS
    LostOnlyIfExposed
    RepeatedOnlyByCrash
    CountersFollowRaw
    CursorAccountedFor
    LinesComeThrough
PROPERTIES
    KeepsDeliveryPromise
    EventuallyPublished
    EventuallyYielded
