\* The service and a command-line run over one database: edited texts, entries
\* nobody lists, calls that fail, a lock kept over them.
SPECIFICATION FairSpec
CONSTANTS
    NoRow = NoRow
    Nobody = Nobody
    Procs = {loop, cli}
    Services = {loop}
    Ads = {a1, a2}
    t1 = t1
    Texts = {t1, t2, t3}
    Unknown = 2
    Urgent = {1}
    BatchSize = 2
    MaxEvents = 3
INVARIANTS
    TypeOK
    AskedOrLost
PROPERTIES
    DrainIsAtomic
    QuestionIsAnswered
    LockIsReleased
