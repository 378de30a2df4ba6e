CONSTANTS
    c1 = c1
    c2 = c2
    s1 = s1
    None = None
    Conn = {c1, c2}
    Slot = {s1}
    MaxSessions = 2
    MaxRequests = 4
    MaxNumber = 2
    MaxMsg = 2
SPECIFICATION Spec
INVARIANTS OwnMessages
CHECK_DEADLOCK FALSE
