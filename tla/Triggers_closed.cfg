SPECIFICATION Spec
CONSTANTS
    Variants = {"v1"}
    NotDraft = {"v1"}
    MaxHead = 1
    MaxCloses = 1
    MaxFlight = 2
    MaxSwept = 1
PROPERTIES
    NeverForClosed
CHECK_DEADLOCK FALSE
