SPECIFICATION Spec
CONSTANTS
    None = None
    Requests = {r1, r2}
    Fee = 2
    Donations = {0, 1}
    MaxFaults = 1
INVARIANT ChargedIsRecorded
CHECK_DEADLOCK FALSE
