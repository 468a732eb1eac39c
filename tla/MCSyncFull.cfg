\* One request more than the queue has places.
CONSTANTS
    ReplyTopic = "reply"
    DxlTopics = "dxl"
    TopicLists <- TwoTopics
    Refusals <- OnlyValid
    Capacity = 5
    MaxSessions = 1
SPECIFICATION Spec
CHECK_DEADLOCK FALSE
PROPERTIES AnyListIsQueried
