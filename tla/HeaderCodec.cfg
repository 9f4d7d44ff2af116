CONSTANTS
    Commands = {"CONNECT", "SEND"}
    Plain = {"n", "c"}
    MaxLength = 3
SPECIFICATION Spec
INVARIANT RoundTrip
CHECK_DEADLOCK FALSE
