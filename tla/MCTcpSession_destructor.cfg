SPECIFICATION Spec
CONSTANTS
    Apps = {a1}
    Ios = {i1}
    MaxSends = 1
    a1 = a1
    i1 = i1
INVARIANT
    DestructorAsserts
CHECK_DEADLOCK FALSE
