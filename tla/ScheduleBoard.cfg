SPECIFICATION Spec
CONSTANTS
    None = None
    teacher = teacher  b1 = b1  b2 = b2  s1 = s1  s2 = s2  r1 = r1  r2 = r2
    Browsers = {b1, b2}
    Sections = {s1, s2}
    Rooms = {r1, r2}
    Times = {1, 2}
    RoomTimes <- MCRoomTimes
    RoomOfName <- MCRoomOfName
    TaughtBy <- MCTaughtBy
    Available <- MCAvailable
    Boards <- MCBoards
    Overriders = {b2}
    Plans <- MCPlans
    MaxChanges = 2
    MaxAnswers = 1
INVARIANTS NoDoubleBooking 
PROPERTIES SaveSound CatchesUp
CHECK_DEADLOCK FALSE
