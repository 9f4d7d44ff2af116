\* Two calls at a time, on one dictionary or on none.  The application may
\* make no more calls.
SPECIFICATION Spec
CONSTANTS
    Calls = {c1, c2}
    Dicts = {d1}
    MaxBodies = 2
CHECK_DEADLOCK FALSE
INVARIANTS
    DeliveredAsAsked
    TestBrokerAgrees
