CONSTANTS
    Batches = 1
    TestFlags = {FALSE}
    Message <- MCMessage
SPECIFICATION Spec
INVARIANT FailureIsReported
CHECK_DEADLOCK FALSE
