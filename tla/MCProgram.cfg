SPECIFICATION Spec
CONSTANT MaxOptions = 4
INVARIANTS IInv OfflineNeverConnects SessionHasWriters
\* The program ends.
CHECK_DEADLOCK FALSE
