SPECIFICATION Spec
CONSTANTS
    Sessions = {"s1"}
    MaxClock = 0
    MaxPulses = 1
    MaxEvents = 1
PROPERTIES RestartsAfterCrash
CHECK_DEADLOCK FALSE
