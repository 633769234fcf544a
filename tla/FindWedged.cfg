\* README: pushes events every five minutes.  No crash, no prune, one poison event.
CONSTANTS
    Events = {1, 2, 3}
    Hours = {0, 1}
    HourOf <- MCHourOf
    IPs = {0, 1}
    IpOf <- MCIpOf
    Poison = {2}
    Cap = 9
    MaxRunCrashes = 0
    MaxPruneCrashes = 0
SPECIFICATION FairSpec
PROPERTIES EveryEventPublished
