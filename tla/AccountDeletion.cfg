\* One process, two sellers, two isolates, lost calls and crashes.
SPECIFICATION FairSpec
CONSTANTS
    NoList = NoList
    u1 = u1
    u2 = u2
    i1 = i1
    i2 = i2
    loop = loop
    Users = {u1, u2}
    Procs = {loop}
    Isolates = {i1, i2}
    ListLimit = 2
    QueueDays = 2
    MaxPages = 2
    MaxFaults = 2
INVARIANTS
    TypeOK
    ErasedStaysErased
PROPERTIES
    AckedWasErased
    AllowlistSettles
    Erasure
