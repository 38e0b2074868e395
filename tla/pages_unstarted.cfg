SPECIFICATION Spec
CONSTANTS
    RunIds = {1, 2, 3}
    Times = {1}
    Limit = 2
INVARIANT ListingsAnswer
