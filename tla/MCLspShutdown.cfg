SPECIFICATION Spec
CONSTANTS
    Paths = {p1}
    Contents = {a, b}
    Languages = {go}
    None = None
    Garbled = Garbled
    MaxVersion = 2
INVARIANT ShutDownInOrder
CHECK_DEADLOCK FALSE
