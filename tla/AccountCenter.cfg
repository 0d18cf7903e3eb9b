SPECIFICATION CenterSpec
CONSTANTS
    Clicks = {r1, r2}
    Bases = 2
    MaxExpiries = 2
    MaxFaults = 1
    None = None
CHECK_DEADLOCK FALSE
INVARIANTS
    CenterInvariant
    
PROPERTIES
    
    ClicksAreAnswered
