SPECIFICATION ForwarderSpec
CONSTANTS
    Users = {a, b, c, d}
    NoUser = NoUser
    MAX_DEPTH = 5
    SelfCalls = FALSE
INVARIANT Flat
PROPERTY ForwardingIsOneStep
