\* beacon.py: HTTPS is a bonus, never fatal if missing.  No fault is needed.
CONSTANTS
    Profiles = {"ssh", "esxi", "owa", "fileshare", "winserver"}
    DataDirs = {"closed", "empty", "cert"}
    MaxFaults = 0
SPECIFICATION SupSpec
PROPERTY HttpsIsABonus
CHECK_DEADLOCK FALSE
