SPECIFICATION Spec
CONSTANTS
    Configs <- MCConfigs
    Requests <- MCRequests
INVARIANTS
    MandatoryFirst
    NoPolicyTwice
    NothingIgnored
    PlatformNeverRejects
