SPECIFICATION Spec
CONSTANT MaxOptions = 2
INVARIANT ConversionHasWriters
CHECK_DEADLOCK FALSE
