SPECIFICATION Spec
CONSTANTS
    u1 = u1  u2 = u2  u3 = u3
    long = long  late = late  short = short  noon = noon  lunch1 = lunch1  lunch2 = lunch2
    a = a  b = b  c = c  lunch = lunch
    t1 = t1  l1 = l1  l2 = l2  t2 = t2
    Students = {u1, u2, u3}
    Sections = {long, late, short, noon, lunch1, lunch2}
    Classes = {a, b, c, lunch}
    Times = {t1, l1, l2, t2}
    Limit = 1
    ParentClass <- MCParentClass
    MeetingTimes <- MCMeetingTimes
    Capacity <- MCCapacity
    LunchSections = {lunch1, lunch2}
    Days <- MCDays
    Signups <- MCSignups
    Graded <- MCGraded
    OptionSets <- MCOptionSets
INVARIANTS LimitsKept SchedulesPossible NothingWasted
PROPERTIES PriorityRespected RunEnds
