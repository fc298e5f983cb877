SPECIFICATION MCFairSpec
CONSTANTS
    w1 = w1
    w2 = w2
    hello = hello
    empty = empty
    absent = absent
    alice = alice
    bob = bob
    agent = agent
    Workers = {w1, w2}
    Users <- MCUsers
    Messages <- MCMessages
    EmptyMessage = empty
    Args <- MCArgs
    Targets <- MCTargets
    HttpCalls <- MCHttpCalls
    Requests <- MCRequests
    MaxId = 2
    MaxUInt = 2
    MaxCalls = 3
    MaxFaults = 1
    MaxChanges = 1
INVARIANT AnswersGuarded
PROPERTIES WritesNeedControl EveryRequestAnswered
