CONSTANTS
    c1 = c1
    c2 = c2
    s1 = s1
    s2 = s2
    None = None
    Conn = {c1, c2}
    Slot = {s1, s2}
    MaxSessions = 2
    MaxRequests = 6
    MaxNumber = 2
    MaxMsg = 3
SPECIFICATION Spec
SYMMETRY Symmetry
INVARIANTS TypeOK OwnRegistration Unchained Mailbox OneAnswer
CHECK_DEADLOCK FALSE
