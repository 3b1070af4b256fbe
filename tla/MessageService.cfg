\* Sends, deletions and edits, with failing databases and a lossy broker.
SPECIFICATION ServiceSpec
CONSTANTS
    alice = alice
    bob = bob
    red = red
    blue = blue
    Topics = {"msg_created", "msg_deleted"}
    Partitions = {"c0", "d0"}
    TopicOf <- MCTopicOf
    Payloads <- MCPayloads
    Deliveries = {0, 1}
    MaxLog = 3
    Requests = {r1, r2, r3}
    Workload <- MCWorkload
    Users = {alice, bob}
    Chats = {red, blue}
    Texts = {"t1", "t2"}
    MessageIds = {1, 2}
    MaxTime = 2
    InitialMembers <- MCMembers
    Churn <- MCChurn
    DatabaseErrors = TRUE
    NoRequest = NoRequest
SYMMETRY MCRequests
INVARIANTS ServiceTypeOK MemberWhileServed CreatedEventsAreOfStoredMessages DeletedInTheSendersName WrittenInTheSendersName DeletionsAreAnsweredTruthfully AcknowledgedMeansStored
CHECK_DEADLOCK FALSE
