SPECIFICATION Spec
CONSTANTS
    I64Max = 300
    MaxHops = 3
    Json <- MCJson
    MsgPack <- MCMsgPack
    Depth <- MCDepth
    Texts <- MCTexts
    Bodies <- MCBodies
INVARIANTS
    TypeOK
    MeaningKept
    AcceptedStaysSendable
CHECK_DEADLOCK FALSE
