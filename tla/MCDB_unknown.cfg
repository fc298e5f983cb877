SPECIFICATION MCSpec
CONSTANTS
    w1 = w1
    w2 = w2
    hello = hello
    empty = empty
    absent = absent
    alice = alice
    bob = bob
    Workers = {w1, w2}
    Users <- MCUsers
    Messages <- MCMessages
    EmptyMessage = empty
    Args <- MCArgs
    Requests <- MCRequests
    MaxId = 2
    MaxUInt = 3
    MaxCalls = 3
    MaxFaults = 1
INVARIANT UnknownMethodReported
