\* Two connections share one handle; stops, resets, refusals, torn packets, another visit code.
SPECIFICATION Spec
CONSTANTS
    Clients = {a, b}
    FileMan = {b}
    Knows = {a}
    Handles = {h1}
    Secure = {a, b}
    Certs = {0, 1}
    Tears = TRUE
    Quits = {a, "server"}
    Segments = 1
    MaxFaults = 1
    MaxDisc = 2
    None = None
INVARIANTS TypeOK HandleInv CiphersInStep
CHECK_DEADLOCK FALSE
