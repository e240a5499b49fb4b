CONSTANTS
    Files <- MCFalseEnd
    Setups <- MCPlainSetup
    MaxYaml = 2
    IndexSize = 2
SPECIFICATION FairSpec
CHECK_DEADLOCK FALSE
PROPERTY Terminates
