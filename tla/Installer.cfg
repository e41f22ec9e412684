\* Two installations at a time on one host of seven kinds, three in all, with one
\* fault.
SPECIFICATION ISpec
CONSTANTS
    i1 = i1
    i2 = i2
    Installers = {i1, i2}
    Runners = {i1, i2}
    Bootstraps = {i1, i2}
    Selectors = {i1, i2}
    Versions <- MCVersions
    Releases <- MCReleases
    Rerunnable <- MCRerunnable
    CoreVersion = 1
    SeedVersion = 2
    NoOne = NoOne
    Unset = Unset
    External = External
    NoURL = NoURL
    Hosts <- MCHosts
    Options <- MCOptions
    MaxFaults = 1
    MaxRuns = 3
INVARIANTS
    CredentialsAgree
    PanelHasDatabase
    InstalledMeansComplete
    SettingTruthful
    OneRunServes
PROPERTIES
    InstalledStays
    PreflightSound
CHECK_DEADLOCK FALSE
