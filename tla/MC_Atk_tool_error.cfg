SPECIFICATION Spec
CONSTANTS
    ClientIds = {"pt-1", "pt-2"}
    NoOrder = "none"
    Pinned = {"server"}
    Misshapen = {"spot_place_order"}
    VerdictsOnly = FALSE
INVARIANTS
    RejectionsAreVerdicts
CHECK_DEADLOCK FALSE
