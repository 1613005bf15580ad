SPECIFICATION Spec
CONSTANTS
    r1 = r1
    r2 = r2
    r3 = r3
    fire = fire
    ending = ending
    k1 = k1
    k2 = k2
    NoWriter = NoWriter
    Keys = {k1, k2}
    Requests = {r1, r3}
    Appliers = {}
    Enders = {}
    Aggregates = {1, 2}
    World = 1
    KeyOf <- TheKeyOf
    InputOf <- TheInputOf
    Writes <- TheWrites
    Reads <- TheReads
INVARIANT WritersSerialize
CHECK_DEADLOCK FALSE
