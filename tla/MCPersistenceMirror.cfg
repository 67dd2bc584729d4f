\* Two documents behind one connection, three contents, three lives of the process.
SPECIFICATION Spec
CONSTANTS
    Docs = {d1, d2}
    Contents = {empty, v1, v2}
    Empty = empty
    Cold = Cold
    Missing = Missing
    MaxStarts = 3
    MaxUpserts = 3
INVARIANTS MirrorTypeOK LatestServed MirrorCatchesUp ColdOnlyUnmirrored
SYMMETRY Symmetry
CHECK_DEADLOCK FALSE
