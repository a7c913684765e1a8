SPECIFICATION Spec
CONSTANTS
    None = None
    Pages = {p1, p2}
    Postbacks = {n1, n2}
    Forms = {f1}
    Extras = {shirt}
    Prices = {1, 2}
    ExtraPrice = 1
    MaxFaults = 1
INVARIANT BankedOnce
PROPERTIES PaymentCovers PaidOnce PostbacksSettled
CHECK_DEADLOCK FALSE
