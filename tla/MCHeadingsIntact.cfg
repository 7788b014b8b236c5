SPECIFICATION Spec
CONSTANTS
    Definition <- MCDefinition
    MaxItems = 3
    MAX_CSV_COLUMNS = 4
    Character <- MCCharacter
    Comma = ","
INVARIANT HeadingsIntact
CHECK_DEADLOCK FALSE
