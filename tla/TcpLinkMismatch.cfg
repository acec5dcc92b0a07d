SPECIFICATION FairSpec
CONSTANTS
    Clients = {a}
    FileMan = {}
    Knows = {}
    Handles = {h1}
    Secure = {a}
    Certs = {1}
    Tears = FALSE
    Quits = {}
    Segments = 1
    MaxFaults = 0
    MaxDisc = 2
    None = None
PROPERTIES MismatchCloses
CHECK_DEADLOCK FALSE
