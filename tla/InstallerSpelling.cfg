\* The same with a spelling of the web server that the settings accept.
SPECIFICATION ISpec
CONSTANTS
    i1 = i1
    i2 = i2
    Installers = {i1, i2}
    Runners = {i1, i2}
    Bootstraps = {i1, i2}
    Selectors = {i1, i2}
    Versions <- MCVersions
    Releases <- MCReleases
    Rerunnable <- MCRerunnable
    CoreVersion = 1
    SeedVersion = 2
    NoOne = NoOne
    Unset = Unset
    External = External
    NoURL = NoURL
    Hosts <- MCHosts
    Options <- SpelledOptions
    MaxFaults = 1
    MaxRuns = 2
INVARIANTS
    InstalledMeansComplete
CHECK_DEADLOCK FALSE
