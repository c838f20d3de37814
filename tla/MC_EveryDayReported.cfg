CONSTANTS
    Users = {a, b}
    FileIds = {f1, f2, f3}
    Sizes = {1, 2}
    Today = 1
    DaysArgs = {0, 1, 2}
    NoFile = NoFile
    a = a
    b = b
    f1 = f1
    f2 = f2
    f3 = f3
SPECIFICATION Spec
INVARIANTS
    EveryDayReported
\* The run ends when every file id is taken.
CHECK_DEADLOCK FALSE
