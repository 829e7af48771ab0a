SPECIFICATION Spec
CONSTANTS
    SHELL_MAX_LINE_LEN = 3
    SHELL_MAX_ARGS = 2
    Keys = {"u", "CR"}
    LineLimit = 3
    MaxTyped = 4

INVARIANTS NoOverrun
