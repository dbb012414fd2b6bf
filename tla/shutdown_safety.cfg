\* Three racing upgrades, two handles.  The calls end, so the system may stop.
SPECIFICATION Spec
CONSTANTS
    Upgrades = {u1, u2, u3}
    Handles  = {h1, h2}
SYMMETRY Symmetry
INVARIANTS
    TypeOK
    CountIsGuards
    NoLostWakeup
PROPERTIES
    AdmissibleShrinks
    ImplementsContract
CHECK_DEADLOCK FALSE
