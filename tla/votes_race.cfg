\* A vote overtaken by its own withdrawal.
SPECIFICATION Spec
CONSTANTS
    s1 = s1
    s2 = s2
    v1 = v1
    v2 = v2
    m1 = m1
    m2 = m2
    w1 = w1
    w2 = w2
    w3 = w3
    SuggestionIds = {s1}
    Voters = {v1, v2}
    Moderators = {m1}
    Statuses = {"open", "planned", "completed"}
    Workers = {w1, w2}
    MaxCount = 2
    MaxChanges = 2
    MaxCrashes = 0
SYMMETRY Symmetric
INVARIANTS
    CountIsVotes
