SPECIFICATION Spec
CONSTANTS
    A = A  B = B  x = x  y = y  z = z  w = w  p = p  q = q
    Rooms = {A, B}
    Sections = {x, y, z, w}
    Teachers = {p, q}
    Slots <- MCSlots
    Start <- MCStart
    End <- MCEnd
    Lunches <- MCLunches
    Duration <- MCDuration
    TaughtBy <- MCTaughtBy
    Declared <- MCDeclared
    Allowed <- MCAllowed
    Value <- MCValue
    Loaded <- MCLoaded
    Targets = {x, w}
    Depth = 3
INVARIANTS ChecksSound StaysValid HistoryReplays
PROPERTIES SearchEnds
