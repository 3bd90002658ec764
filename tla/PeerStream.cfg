CONSTANTS
    Calls = {c1, c2, c3}
    NoCall = NoCall
    MaxStreams = 3
SPECIFICATION FairStreamsSpec
INVARIANTS PoolIsSound NobodySleepsThrough AnswersAreOwn
PROPERTIES EveryCallSettles
CHECK_DEADLOCK FALSE
