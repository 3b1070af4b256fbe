\* One chat, sends only, nothing fails: the topics and the columns are those that are deployed.
SPECIFICATION LastSafety
CONSTANTS
    alice = alice
    bob = bob
    red = red
    blue = blue
    Topics <- AllTopics
    Partitions = {"c0", "d0", "c1", "d1"}
    TopicOf <- AllTopicOf
    Payloads <- MCPayloads
    Deliveries = {1}
    MaxLog = 3
    Consumers <- MCConsumers
    Subscribed <- DeployedTopics
    NoRecord = NoRecord
    MaxDisturbances = 0
    Requests = {r1, r2, r3}
    Workload <- OnlySend
    Users = {alice, bob}
    Chats = {red, blue}
    Texts = {"t1", "t2"}
    MessageIds = {1, 2, 3}
    MaxTime = 2
    InitialMembers <- MCMembers
    Churn = {}
    DatabaseErrors = FALSE
    NoRequest = NoRequest
    ChatColumns <- MigratedColumns
INVARIANT SettledNewestIsShown
CHECK_DEADLOCK FALSE
