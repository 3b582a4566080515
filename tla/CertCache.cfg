\* One database, two images that take turns on a disk, three boots; a
\* certificate that lives two days. No symmetry: liveness.
SPECIFICATION FairSpec
CONSTANTS
    Dbs = {d1}
    Images = {i1, i2}
    MaxWrites = 2
    MaxBoots = 3
    MaxDeaths = 1
    None = None
    h1 = h1
    h2 = h2
    Hosts = {h1, h2}
    Setups <- SomeSetups
    MaxAttempts = 2
    Life = 2
    Buffer = 1
    MaxDay = 2
INVARIANTS
    VmInv
    NoGarbageRestored
    ServedCertIsOurs
PROPERTY CachesNeverBlockStart
CHECK_DEADLOCK FALSE
