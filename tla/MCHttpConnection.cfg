\* Two exchanges on one connection, with large and with small channels, and
\* an exchange with "100 continue" of which the capture may miss any packet.
CONSTANT Connections <- ThreeConnections
SPECIFICATION HttpSpec
INVARIANTS PairedWithOwnResponse OnceInOrder
PROPERTIES MainKeepsRunning HandlerEnds AllReported
CHECK_DEADLOCK FALSE
