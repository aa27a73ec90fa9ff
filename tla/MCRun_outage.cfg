CONSTANTS
    Configs <- WaitConfigs
    MaxPolls = 2
SPECIFICATION Spec
INVARIANT OutageKeepsAssignee
CHECK_DEADLOCK FALSE
