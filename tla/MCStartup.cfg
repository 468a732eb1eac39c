\* Command lines of three arguments, broker lines of four parts, files with faults, hosts that come and go.
CONSTANTS
    None = None
    Ports <- MCPorts
    Texts <- MCTexts
    DefaultPort = "8883"
    Situations <- MCSituations
    Bare <- MCBare
    Kafka = TRUE
SPECIFICATION Spec
CHECK_DEADLOCK FALSE
INVARIANTS TypeOK ConfigFollowsPrecedence ExitCodesTellWhy EndpointIsConfigured SteadyEndpointIsTaken
PROPERTIES StartupEnds
