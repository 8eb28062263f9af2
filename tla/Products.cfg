CONSTANTS
    Requests = {r1, r2}
    SKUs = {s1, s2, s3}
    Infos = {i1, i2}
    Files = {f1, f2}
    MaxRows = 3
    MaxCalls = 4
    DefaultSize = 1
    MaxSize = 2
    MaxInt = 3
    PageNumbers <- SomePages
    PageSizes = {0, 3}
SPECIFICATION Spec
SYMMETRY Symmetries
CHECK_DEADLOCK FALSE
INVARIANTS TypeOK UploadsAreSound PagesAreExact
PROPERTIES EditsAreExact DeletedRowsAreFrozen
