SPECIFICATION Spec
CONSTANTS
    Sources = {files, journal}
    Calls = {c1, c2}
    LineCap = 1
    CtlCap = 1
    MaxDue = 2
INVARIANT AnswersAreTrue
PROPERTY CallsGetDone
PROPERTY NothingStarves
