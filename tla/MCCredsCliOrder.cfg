SPECIFICATION Spec
CONSTANTS
    Missing = Missing
    Torn = Torn
    Names <- MCNames
    Days <- MCDays
    Validity = 0
    Configs <- OrderConfigs
    Creds <- MCCreds
    Specs <- OrderSpecs
    Messages = {0}
    Issuer = 9
    MaxGen = 1
    MaxChanges = 0
    MaxTime = 0
INVARIANTS
    SubsetVerifies
CHECK_DEADLOCK FALSE
