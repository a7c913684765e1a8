SPECIFICATION FairSpec
CONSTANTS
    None = None
    Requests = {r1, r2, r3}
    Fee = 2
    Donations = {0, 1}
    MaxFaults = 1
INVARIANTS RecordedIsCharged LinksArePayments
PROPERTIES FirstPaymentCovers RequestsFinish
CHECK_DEADLOCK FALSE
