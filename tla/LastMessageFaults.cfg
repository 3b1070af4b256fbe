\* Sends and edits, no deletion; databases fail, events are lost, consumers are disturbed.
\* The topics and the columns are the repaired ones, not those that are deployed.
SPECIFICATION LastSafety
CONSTANTS
    alice = alice
    bob = bob
    red = red
    blue = blue
    Topics <- MCTopics
    Partitions = {"c0", "d0"}
    TopicOf <- MCTopicOf
    Payloads <- MCPayloads
    Deliveries = {0, 1, 2}
    MaxLog = 3
    Consumers <- MCConsumers
    Subscribed <- RepairedTopics
    NoRecord = NoRecord
    MaxDisturbances = 1
    Requests = {r1, r2, r3}
    Workload <- TwoChatsEdited
    Users = {alice, bob}
    Chats = {red, blue}
    Texts = {"t1", "t2"}
    MessageIds = {1, 2}
    MaxTime = 2
    InitialMembers <- MCMembers
    Churn = {}
    DatabaseErrors = TRUE
    NoRequest = NoRequest
    ChatColumns <- RepairedColumns
SYMMETRY MCRequests
INVARIANTS PreviewIsOfTheChat CommittedMeansVisible
PROPERTIES PreviewNeverGoesBack
CHECK_DEADLOCK FALSE
