CONSTANTS
    Senders = {s1, s2}
    Receivers = {r1}
    Cap = 1
    MaxSend = 3
SPECIFICATION LiveSpec
CHECK_DEADLOCK FALSE
PROPERTIES
    WaiterServed
