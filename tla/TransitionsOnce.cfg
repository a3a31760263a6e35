SPECIFICATION Spec
CONSTANTS
    Consents = {c1}
    Calls = {p1, p2}
    Sweeps = {w1}
    MaxClock = 2
PROPERTIES
    TransitionsOnce
