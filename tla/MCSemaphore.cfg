SPECIFICATION SemSpec
CONSTANTS
    Callers = {"big", "c", "d"}
    Need <- MCNeed
    Limits = {1, 2}
PROPERTIES
    CancelWakes
CHECK_DEADLOCK FALSE
