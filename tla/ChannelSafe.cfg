CONSTANTS
    Senders = {s1, s2}
    Receivers = {r1, r2}
    Cap = 2
    MaxSend = 3
SYMMETRY MCSymmetry
SPECIFICATION ChannelSpec
CHECK_DEADLOCK FALSE
INVARIANTS
    NobodyStuck
