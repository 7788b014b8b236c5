CONSTANTS
    Batches = 1
    TestFlags = {FALSE}
    Message <- MCMessage
SPECIFICATION Spec
PROPERTY ManyIsHandled
CHECK_DEADLOCK FALSE
