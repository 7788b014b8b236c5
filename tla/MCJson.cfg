\* A text at a time; the types are scaled down.
SPECIFICATION Spec
CONSTANTS
    maxLargestInt = 127
    maxLargestUInt = 255
    maxInt = 15
    maxUInt = 31
    Mantissa = 6
    ByteName <- MCByteName
    stackLimit = 4
    rightMargin = 12
    NameOrder <- MCNameOrder
    Texts <- MCTexts
    MessageItems <- MCMessageItems
    Value <- MCValue
    LaidOut <- MCLaidOut
    DataItems <- MCDataItems
INVARIANTS ReadsDocument WrittenIsRead ConvertsAsPromised HandledAsSent MalformedIgnored
PROPERTY ReadingAdvances
