CONSTANTS
    Files <- MCMiddle
    Setups <- MCMemSetup
    MaxYaml = 2
    IndexSize = 2
SPECIFICATION Spec
INVARIANT BlocksFound
