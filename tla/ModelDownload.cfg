SPECIFICATION Spec
CONSTANTS
    Downloads = {d1, d2, d3}
    Size = 2
SYMMETRY DownloadSymmetry
INVARIANTS
    OkMeansWhole
    MismatchIsReal
    RaceHeals
PROPERTY WholeStays
