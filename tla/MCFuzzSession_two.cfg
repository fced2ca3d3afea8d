SPECIFICATION Spec
CONSTANTS
    Sessions = {"s1", "s2"}
    MaxClock = 1
    MaxPulses = 1
    MaxEvents = 1
INVARIANTS FileIsHistory TornOnlyByInterrupt LastPulseWritten
CHECK_DEADLOCK FALSE
PROPERTIES SessionEnds
