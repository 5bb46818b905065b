SPECIFICATION FairSpec
CONSTANTS
    Terminals <- TestTerminals
    Codes = {0, 1, 3}
    None = None
CHECK_DEADLOCK FALSE
INVARIANT DescriptorsAccounted
INVARIANT SettingsSurvive
PROPERTY ExitReported
