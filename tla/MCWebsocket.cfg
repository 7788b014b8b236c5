\* All nine batches of requests, with and without -t.
CONSTANTS
    Batches = 9
    TestFlags = {TRUE, FALSE}
    Message <- MCMessage
SPECIFICATION FairSpec
INVARIANTS OneWriteInFlight WriteBufferAlive IInv
PROPERTIES SentInOrder StartSettles ClosedEnds AllRequested
\* The program ends.
CHECK_DEADLOCK FALSE
