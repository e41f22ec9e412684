\* Two migration runs of either release beside two bootstraps, with two faults, under
\* fairness.
CONSTANTS
    Runners = {r1, r2}
    Versions <- MCVersions
    Releases <- MCReleases
    Rerunnable <- MCRerunnable
    MaxFaults = 2
    Bootstraps = {b1, b2}
    NoOne = NoOne
    CoreVersion = 1
    SeedVersion = 2
SPECIFICATION FairSpec
INVARIANTS MigrationInv OneFirstAdmin AdminComplete
PROPERTIES InOrder RerunCompletes BootstrapEnds
