SPECIFICATION FairSpec
CONSTANTS
    CLOCKSIZE = 3
    PGSIZE = 2
    TextPages = 1
    MaxPages = 6
    Sbrks <- MCSbrks
    Spans = {FALSE}
INVARIANTS
    ClockOK
    ContentMatches
    SetIsResident
PROPERTIES
    GuardKills
