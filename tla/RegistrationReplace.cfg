SPECIFICATION FairSpec
CONSTANTS
    u1 = u1  u2 = u2  u3 = u3
    s1 = s1  s2 = s2  s3 = s3
    c1 = c1  c2 = c2
    t1 = t1  t2 = t2
    r1 = r1  r2 = r2  r3 = r3
    None = None
    Students = {u1, u2}
    Sections = {s1, s2, s3}
    Classes = {c1, c2}
    Times = {t1, t2}
    Requests = {r1, r2}
    ParentClass <- MCParentClass
    MeetingTimes <- MCMeetingTimes
    Capacity <- MCCapacity
    Closed = {}
    EnforceMax = TRUE
    Kinds = {"add", "replace", "clearslot"}
    OnsiteModes = {FALSE}
INVARIANT OneSectionPerClass
PROPERTIES ReplaceIsAtomic RequestsFinish
