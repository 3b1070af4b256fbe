\* A consumer of two partitions and one of a single partition, disturbed twice.
SPECIFICATION ConsumerSpec
CONSTANTS
    Topics = {"created", "deleted"}
    Partitions = {"c0", "c1", "d0"}
    TopicOf <- MCTopicOf
    Payloads = {e1}
    Deliveries = {1}
    MaxLog = 2
    Consumers = {"createdConsumer", "deletedConsumer"}
    Subscribed <- MCSubscribed
    NoRecord = NoRecord
    MaxDisturbances = 2
INVARIANTS ConsumerTypeOK CommittedWereAttempted SessionCovered
PROPERTIES ImplementsAtLeastOnce EveryEventIsAttempted
CHECK_DEADLOCK FALSE
