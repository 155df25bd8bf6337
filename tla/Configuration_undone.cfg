SPECIFICATION ConfigurationSpec
CONSTANTS
    NumServers = 1
    Setting = {2}
    Editor = {e1}
    MaxSaves = 2
    MaxUpsets = 0
INVARIANTS
    NoUpdateIsUndone
CHECK_DEADLOCK FALSE
