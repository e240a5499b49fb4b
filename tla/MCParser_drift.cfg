CONSTANTS
    Files <- MCDrift
    Setups <- MCPlainSetup
    MaxYaml = 2
    IndexSize = 2
SPECIFICATION Spec
CHECK_DEADLOCK FALSE
INVARIANT BlocksFound
