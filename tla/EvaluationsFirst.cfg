SPECIFICATION Spec
CONSTANTS
    Runs = {r1, r2}
    Clients = {c1, c2}
    Rated = {}
INVARIANT OnePreferred
