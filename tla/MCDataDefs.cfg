SPECIFICATION Spec
CONSTANTS
    Definition <- MCDefinition
    MaxItems = 4
    MAX_CSV_COLUMNS = 4
    Character <- MCCharacter
    Comma = ","
INVARIANTS ColumnsFit ColumnsCounted ReadingsUnderHeading HeadingsAlign
\* The start ends when the definitions are analysed.
CHECK_DEADLOCK FALSE
