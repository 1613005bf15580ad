SPECIFICATION Spec
CONSTANTS
    r1 = r1
    r2 = r2
    r3 = r3
    fire = fire
    ending = ending
    k1 = k1
    k2 = k2
    NoWriter = NoWriter
    Keys = {k1, k2}
    Requests = {r1, r2, r3}
    Appliers = {}
    Enders = {ending}
    Aggregates = {1, 2}
    World = 1
    KeyOf <- TheKeyOf
    InputOf <- TheInputOf
    Writes <- TheWrites
    Reads <- TheReads
INVARIANTS
    TypeOK
    SequenceIsDense
    ExactlyOnce
    StoreLocksSerialize
PROPERTY
    SerialSpec
CHECK_DEADLOCK FALSE
