SPECIFICATION Spec
CONSTANTS
    r1 = r1
    r2 = r2
    r3 = r3
    Processes = {r1, r2, r3}
    Clients = {r1, r2, r3}
    ProcessOf <- OwnProcess
    Texts = {on, off, blank}
    Default = off
    Blank = blank
    Null = Null
    NoRow = NoRow
    NoEntry = NoEntry
    Ttl = 3
    Failures = FALSE
    Behind = FALSE
INVARIANT SetInvalidates
CHECK_DEADLOCK FALSE
