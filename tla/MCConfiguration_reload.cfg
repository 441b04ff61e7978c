\* Four protocols, blocks of four levels, twelve sets of main settings over two
\* caches and a namespace.
CONSTANTS
    Order <- MCOrder
    Proxy = "proxy"
    Files <- MCFiles
    Blocks <- MCBlocks
    Caches = {"a", "b"}
    Namespaces = {"ns"}
    Page = 2
    MinPages = 2
    MaxSerial = 1
    Null = Null
SPECIFICATION Spec
CONSTRAINT Scenario
INVARIANTS BacklogKept GenerationsKept QueueCovers TrafficReaches PurgesWhereAsked
