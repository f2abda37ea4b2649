SPECIFICATION SpecFlows
CONSTANTS
    Subscribers = {s1, s2}
    Size = 2
    Buffer = 1
    Asked = {0, 1}
    MaxBatch = 2
    MaxEvents = 3
    p1 = p1
    QueueSize = 2
    MaxAttempts = 4
    InitialBackoff = 1
    RetryMaxBackoff = 2
    Clients = {c1}
    Kinds = {"log", "change", "metric", "hook"}
    Load = 2
    MaxBreaks = 1
    BufferSize = 1
    Window = 2
INVARIANTS
    ClosedOnce
    Delivery
    LinkIsHonest
PROPERTIES
    ImplementsFeed
    StreamsEnd
    EventsSettle
    NothingHangs
    EachLineShipped
CHECK_DEADLOCK FALSE
