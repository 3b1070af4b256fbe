\* Sends and deletions; databases fail, events are lost or doubled, consumers are disturbed.
\* The topics and the columns are the repaired ones, not those that are deployed.
SPECIFICATION LastSafety
CONSTANTS
    alice = alice
    bob = bob
    red = red
    blue = blue
    Topics <- MCTopics
    Partitions = {"c0", "d0"}
    TopicOf <- MCTopicOf
    Payloads <- MCPayloads
    Deliveries = {0, 1, 2}
    MaxLog = 2
    Consumers <- MCConsumers
    Subscribed <- RepairedTopics
    NoRecord = NoRecord
    MaxDisturbances = 1
    Requests = {r1, r2, r3}
    Workload <- SendOrDelete
    Users = {alice, bob}
    Chats = {red, blue}
    Texts = {"t1", "t2"}
    MessageIds = {1, 2}
    MaxTime = 1
    InitialMembers <- MCMembers
    Churn = {}
    DatabaseErrors = TRUE
    NoRequest = NoRequest
    ChatColumns <- RepairedColumns
SYMMETRY MCRequests
INVARIANT NothingIsBroughtBack
CHECK_DEADLOCK FALSE
