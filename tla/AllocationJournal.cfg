\* Two processes on one journal, two failures of any kind, one change of the
\* platform's list; a second project so that a second POST would show.
SPECIFICATION JournalFairSpec
CONSTANTS
    Processes = {r1, r2}
    Projects = {p1, p2}
    MaxFaults = 2
    MaxOthers = 1
    Absent = Absent
    Torn = Torn
    Null = Null
CHECK_DEADLOCK FALSE
INVARIANTS
    JournalInvariant
    
    StuckOnlyByFailure

    
