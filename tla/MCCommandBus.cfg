\* Two dispatches to one shard, with and without a buffer, and two calls of Stop.
CONSTANTS
    c1 = c1
    c2 = c2
    Commands <- Two
    CommandType <- OneType
    Types = {"t1"}
    Shards = {0}
    selectShard <- OneShard
    BufferSizes = {0, 1}
    Stoppers = {k1, k2}
SPECIFICATION FairSpec
INVARIANTS
    ResultIsTrue
PROPERTIES
    GivenUpIsNotHandled
    CallsComplete
CHECK_DEADLOCK FALSE
