SPECIFICATION FairSpec
CONSTANTS
    Agent = Agent
    Trigger = Trigger
    p1 = p1
    s1 = s1
    Probes = {p1}
    Jobs = {1, 2, 3}
    Slugs = {s1}
    DemoSlug = s1
    Base = Base
    None = None
INVARIANT TypeOK
PROPERTY PushesReviewedWork
INVARIANT ProbesCleanUp
PROPERTY AgentComesBack
CHECK_DEADLOCK FALSE
