SPECIFICATION Spec
CONSTANTS
    c1 = c1
    c2 = c2
    Clients <- MCClients
    Requests <- MCRequests
    NfsPort = 2049
    MaxCalls = 2
INVARIANT AnswersItsRequest
CHECK_DEADLOCK FALSE
