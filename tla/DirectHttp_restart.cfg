SPECIFICATION FairSpec
CONSTANTS
    i1 = i1
    i2 = i2
    i3 = i3
    a = a
    b = b
    Invocation = {i1}
    Agent = {a, b}
    AgentOf <- One
    MaxConcurrency = 2
    PerAgentMaxConcurrency = 1
    Estimate = 2
    Limit = 5
    Cost = {3}
    MaxCrashes = 1
    NoHandler = none
PROPERTIES
    AcceptedEnds
CHECK_DEADLOCK FALSE
