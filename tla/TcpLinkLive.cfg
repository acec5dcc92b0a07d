\* A client with the exchanges and one without; resets, refusals, a full disk.
SPECIFICATION FairSpec
CONSTANTS
    Clients = {a, b}
    FileMan = {}
    Knows = {a}
    Handles = {h1, h2}
    Secure = {a}
    Certs = {1}
    Tears = FALSE
    Quits = {}
    Segments = 2
    MaxFaults = 1
    MaxDisc = 1
    None = None
INVARIANTS ServerSurvives DownloadWhole
PROPERTIES DownloadEnds
CHECK_DEADLOCK FALSE
