CONSTANTS
    Daemons = {d1, d2, d3, d4}
    Tuis = {t1, t2}
    NoDaemon = NoDaemon
    Leftover = Leftover
    MaxStops = 2
SPECIFICATION Spec
INVARIANTS
    TypeOK
    ServingIsReachable
PROPERTIES
    EveryClientIsServed
CHECK_DEADLOCK FALSE
