CONSTANTS
    MaxText = 4
    MaxErr = 1
SPECIFICATION RSpec
CHECK_DEADLOCK FALSE
INVARIANTS
    LineAsserts
