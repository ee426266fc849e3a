SPECIFICATION FairSpec
CONSTANTS
    k1 = k1
    k2 = k2
    blob = blob
    c1 = c1
    c2 = c2
    c3 = c3
    Empty = Empty
    Absent = Absent
    Keys = {k1}
    Blobs = {blob, Empty}
    Modulus = 2
    Conns = {c1, c2}
    Requests <- WaitOrSet
    RequestsOf <- WaitOrSetOf
PROPERTIES WaitIsAnswered
CHECK_DEADLOCK FALSE
