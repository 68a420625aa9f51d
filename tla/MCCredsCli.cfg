SPECIFICATION Spec
CONSTANTS
    Missing = Missing
    Torn = Torn
    Names <- MCNames
    Days <- MCDays
    Validity = 0
    Configs <- MCConfigs
    Creds <- MCCreds
    Specs <- MCSpecs
    Messages = {0, 1}
    Issuer = 9
    MaxGen = 2
    MaxChanges = 1
    MaxTime = 1
INVARIANTS
    AcceptedIsTrue
    AcceptedIsCurrent
    ShowHidesTheRest
    HonestVerifies
CHECK_DEADLOCK FALSE
