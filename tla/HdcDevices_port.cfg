\* A port of the server, and one error of the link layer.
SPECIFICATION FairSpec
CONSTANTS
    Links <- MCPort
    MaxPlugs = 1
    MaxSessions = 2
    MaxCommands <- MCOnce
    MaxFaults <- MCOnce
    MaxRetry = 1
PROPERTIES
    PortReopened
CHECK_DEADLOCK FALSE
