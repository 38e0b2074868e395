SPECIFICATION Spec
CONSTANTS
    RunIds = {1, 2, 3, 4}
    Times = {1, 2}
    Limit = 2
INVARIANTS TypeOK ShownOnce NewestFirst EveryRunShown
PROPERTY KeepsItsPromise
