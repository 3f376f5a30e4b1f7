SPECIFICATION Spec
CONSTANTS
    a = a
    b = b
    c = c
    r = r
    Node = {a, b, c, r}
    Room = {r}
    Contacts <- Heard
    MaxRetries = 1
    Wrap = 2
    MaxSends = 2
    MaxNow = 2
    MaxUnread = 1
    MaxPackets = 3
    Gap = 1
    None = None
CHECK_DEADLOCK FALSE
INVARIANTS
    TextsUnique
