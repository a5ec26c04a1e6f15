\* Spec, Cancellation: responses in flight complete before main returns.
CONSTANTS
    c1 = c1
    c2 = c2
    c3 = c3
    Conns <- MCConns
    CounterModulus <- MCCounterModulus
SPECIFICATION Spec
CHECK_DEADLOCK FALSE
INVARIANT NoResponseCutOff
