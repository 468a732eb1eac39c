\* Plans that fit into the queue and plans that do not, one filter of which may be
\* no valid filter, before or after the queue is full; connections break at any time.
CONSTANTS
    ReplyTopic = "reply"
    DxlTopics = "dxl"
    TopicLists <- UpToFive
    Refusals <- NoneOrOne
    Capacity = 5
    MaxSessions = 3
SPECIFICATION Spec
CHECK_DEADLOCK FALSE
INVARIANTS QueriesFollowSubscriptions AwaitedIsAsked
PROPERTIES HandlerReturns StateIsQueried
