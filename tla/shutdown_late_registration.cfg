\* One upgrade that read the drain flag just before shutdown() stored it.
SPECIFICATION Spec
CONSTANTS
    Upgrades = {u1}
    Handles  = {h1}
PROPERTIES
    ShutdownIsFinal
CHECK_DEADLOCK FALSE
