SPECIFICATION Spec
CONSTANTS
    a = a  b = b  c = c  d = d
    Students = {1, 2, 3, 4}
    Web = {5}
    Active = {1, 5}
    MaxSite = 3
    Sections = {1, 2, 3, 4, 5}
    Classes = {a, b, c, d}
    Times = {1, 2}
    Limit = 1
    ParentClass <- MCParentClass
    MeetingTimes <- MCMeetingTimes
    Capacity <- MCCapacity
    Inputs <- MCInputs
INVARIANTS SchedulesPossible NobodyLoses NothingWasted NewcomersFit UnsaveRestores
PROPERTIES ScriptEnds
