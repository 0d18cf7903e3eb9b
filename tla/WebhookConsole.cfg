\* Two instances of the page, so that the handlers of the one left run beside
\* those of the next, and two webhooks, so that lists supersede each other.
SPECIFICATION ConsoleSpec
CONSTANTS
    Pages = {p1, p2}
    Hooks = {h1, h2}
    MaxCommands = 2
    MaxFaults = 1
    Null = Null
SYMMETRY ConsoleSymmetry
CHECK_DEADLOCK FALSE
INVARIANTS
    
    OneWriterPerLock

    
