\* Two concurrent requests on either server.
CONSTANTS
    q1 = q1
    q2 = q2
    Reqs <- MCReqs
    Requests <- MCRequests
SPECIFICATION Spec
\* Every request ends: the model serves a fixed set of them.
CHECK_DEADLOCK FALSE
INVARIANT NoHstsOverPlaintext
