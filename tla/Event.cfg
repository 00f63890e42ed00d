CONSTANTS
    l1 = l1  l2 = l2  l3 = l3  n1 = n1  NULL = NULL
    Listeners <- MCListeners
    Notifiers = {n1}
    MaxN = 2
SYMMETRY MCSymmetry
SPECIFICATION Spec
INVARIANTS
    EventSound
PROPERTIES
    ImplementsEvent
