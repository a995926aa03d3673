CONSTANTS
    c1 = c1
    c2 = c2
    c3 = c3
    Callers = {c1, c2, c3}
    MaxID = 3
    NoCaller = NoCaller
SPECIFICATION Spec
SYMMETRY CallerSymmetry
INVARIANTS ReturnsItsKey OnlyRacesHarm DiskNotFarBehind
PROPERTY IDsIncrease
