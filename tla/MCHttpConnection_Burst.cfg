\* An acknowledgment may confirm more packets than the channel has room for.
CONSTANT Connections <- BurstyConnection
SPECIFICATION HttpSpec
PROPERTY MainKeepsRunningAlways
CHECK_DEADLOCK FALSE
