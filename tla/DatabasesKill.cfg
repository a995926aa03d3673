CONSTANTS
    p1 = p1
    p2 = p2
    a = a
    b = b
    alice = alice
    bob = bob
    s1 = s1
    s2 = s2
    chan = chan
    Procs = {p1, p2}
    NoProc = NoProc
    Pass = {a, b}
    Plain = Plain
    Empty = Empty
    Keys = {1, 2}
    Names = {alice, bob}
    NoName = NoName
    Seeds = {s1, s2}
    NoSeed = NoSeed
    Imports = {chan}
    MaxIDs = 2
    MaxSkip = 1
SPECIFICATION Spec
SYMMETRY Symmetry
INVARIANT KeysSurvive
CHECK_DEADLOCK FALSE
