SPECIFICATION ReleasesSpec
CONSTANTS
    None = None
    a1 = a1
    a2 = a2
    good = good
    bad = bad
    prod = prod
    open = open
    strict = strict
    Actors <- TwoActors
    Contents <- GoodOrBad
    Valid <- Good
    MaxVersions = 3
    Environments <- Prod
    Policies <- TwoPolicies
    Default = open
    Ready <- ReadyInOpen
    MaxRequests = 3
SYMMETRY Symmetry
INVARIANTS
    VersionsAreContiguous
    PublishedByRacesOnly
    PublishedIsValid
    ReleasedIsReady
PROPERTIES
    EnvironmentRunsItsRelease
CHECK_DEADLOCK FALSE
