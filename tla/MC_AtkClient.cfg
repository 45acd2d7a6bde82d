SPECIFICATION Spec
CONSTANTS
    ClientIds = {"pt-1", "pt-2"}
    NoOrder = "none"
    Pinned = {"server"}
    Misshapen = {"spot_place_order"}
    VerdictsOnly = TRUE
INVARIANTS
    TypeOK
    OnlyVerifiedSessionsTrade
PROPERTIES
    ImplementsContract
CHECK_DEADLOCK FALSE
