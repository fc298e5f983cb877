SPECIFICATION MCSpec
SYMMETRY Symmetry
CONSTANTS
    w1 = w1
    w2 = w2
    alice = alice
    hello = hello
    empty = empty
    absent = absent
    t1 = t1
    t2 = t2
    Workers = {w1, w2}
    Users <- MCUsers
    Tabs <- MCTabs
    UserOf <- MCUserOf
    Absent = absent
    Messages <- MCMessages
    EmptyMessage = empty
    Args <- MCArgs
    Requests <- MCRequests
    MaxId = 2
    MaxUInt = 2
    MaxCalls = 4
    MaxLoads = 2
    MaxFaults = 1
INVARIANTS RemovesWhatWasShown ShowsWhatItWasTold
