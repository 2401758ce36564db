SPECIFICATION GrantSpec
CONSTANTS
    GrantCalls <- MCGrantCalls
    GrantFlows = {g1}
    MaxTokens = 2
    MaxGrantFaults = 1
PROPERTIES
    SheetsHeals
CHECK_DEADLOCK FALSE
