\* Every command line of up to three arguments, against the help text.
CONSTANTS
    None = None
    Ports <- MCPorts
    Texts <- MCTexts
    DefaultPort = "8883"
    Situations <- ByArguments
    Bare <- MCBare
    Kafka = TRUE
SPECIFICATION Spec
CHECK_DEADLOCK FALSE
INVARIANTS HelpIsFollowed
