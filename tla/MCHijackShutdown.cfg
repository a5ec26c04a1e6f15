\* Three hijacking handlers racing the shutdown of main.
CONSTANTS
    c1 = c1
    c2 = c2
    c3 = c3
    Conns <- MCConns
    CounterModulus <- MCCounterModulus
SPECIFICATION Spec
\* The process exits at the end of main.
CHECK_DEADLOCK FALSE
INVARIANT HijackCountAccurate
PROPERTY ImplementsShutdownRegistry
