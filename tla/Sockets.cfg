\* Two users, two connections, two pushes.
SPECIFICATION Spec
CONSTANTS
    anna = anna
    bert = bert
    Users = {anna, bert}
    Jobs <- MCJobs
    Members <- MCMembers
    Pushes = {p1, p2}
    MaxConns = 2
    Columns <- MatchingColumns
    NoUser = NoUser
INVARIANTS SocketsTypeOK OnlyFailedWritesUnlist PushReachesConnected
PROPERTIES ConnectingNeverWaits
CHECK_DEADLOCK FALSE
