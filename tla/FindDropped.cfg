\* README: no un-synced event is ever dropped.  No crash is needed.
CONSTANTS
    Events = {1, 2, 3}
    Hours = {0, 1}
    HourOf <- MCHourOf
    IPs = {0, 1}
    IpOf <- MCIpOf
    Poison = {}
    Cap = 1
    MaxRunCrashes = 0
    MaxPruneCrashes = 0
SPECIFICATION Spec
INVARIANT NoUnsyncedEventDropped
