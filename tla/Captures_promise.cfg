\* A failure, a kill and a restore among captures; every change is recorded.
SPECIFICATION FairSpec
CONSTANTS
    h1 = h1
    h2 = h2
    timer = timer
    Nobody = Nobody
    Hooks <- TwoHooks
    Timers <- OneTimer
    MaxChanges = 2
    MaxFailures = 1
    MaxKills = 1
    MaxRestores = 1
INVARIANTS
    TypeOK
    DeferredIsPending
PROPERTIES
    CommittedInOrder
    RecordsEveryChange
