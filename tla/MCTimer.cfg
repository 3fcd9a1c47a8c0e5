SPECIFICATION Spec
CONSTANTS
    Hard = {h1}
    Soft = {s1, s2}
    ThreadTimer = tt
    Controlled = {h1}
    Periodic = {s1}
    FirstInit <- MCFirstInit
    h1 = h1
    s1 = s1
    s2 = s2
    MaxCalls = 1
    TickValues = 10
    InitTicks = {1, 2}
    MaxLate = 1
    None = None
INVARIANT Sorted
PROPERTIES AllDueServed ServedRightly
VIEW View
