\* No symmetry: it is unsound under liveness.
SPECIFICATION FairSpec
CONSTANTS
    Upgrades = {u1, u2}
    Handles  = {h1, h2}
PROPERTIES
    DrainCompletes
CHECK_DEADLOCK FALSE
