SPECIFICATION FairSpec
CONSTANTS
    Writers = {w1, w2}
    Keys = {k1, k2}
    Consumers = {provider, worker}
    LoadFirst = {worker}
    Slow = {worker}
    Interest <- MCInterest
    BufferSize = 1
    MaxWrites = 2
    MaxRegister = 1
INVARIANTS TypeOK CacheCurrent
PROPERTIES FeedSpec Received ShutsDown
CHECK_DEADLOCK FALSE
