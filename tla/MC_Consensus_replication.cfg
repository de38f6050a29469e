\* One follower, four strings through a channel of capacity 2, three
\* attempts per call: the task can hold one string while two wait in the
\* channel and a fourth caller waits in send().
CONSTANTS
    f1 = f1
    f2 = f2
    d1 = d1
    d2 = d2
    d3 = d3
    d4 = d4
    Followers = {f1}
    Data = {d1, d2, d3, d4}
    Capacity = 2
    RetryAttempts = 3
SPECIFICATION Spec
CHECK_DEADLOCK FALSE
INVARIANTS
    TypeOK
    FollowerOrder
    MissedOnlyAfterRetries
PROPERTIES
    EveryStringFinished
    SendersProceed
