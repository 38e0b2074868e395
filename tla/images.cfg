\* Two requests at a time on two documents and three images, two faults.
\* No request is left to come once the ids of the instance are used up.
CHECK_DEADLOCK FALSE
SPECIFICATION FairSpec
CONSTANTS
    i1 = i1
    i2 = i2
    i3 = i3
    d1 = d1
    d2 = d2
    w1 = w1
    w2 = w2
    Images = {i1, i2, i3}
    DocumentIds = {d1, d2}
    Workers = {w1, w2}
    MaxFiles = 2
    MaxFaults = 2
INVARIANTS
    TypeOK
    ImagesAreThere
    LeaksAreFaults
    BreakOffsExplained
PROPERTY
    UploadsSettle
