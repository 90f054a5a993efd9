SPECIFICATION Spec
CONSTANTS
    Routers = {r1, r2}
    Red = 1
    MaxChanges = 2
INVARIANT TrafficIsTrusted
