\* Two requests, with every list.
SPECIFICATION Spec
CONSTANTS
    Owner = owner
    anna = anna
    bert = bert
    nobody = nobody
    Users <- MCUsers
    Registered = {owner, anna, bert}
    Lists <- MCLists
    Requests = {p1, p2}
    MaxChats = 2
    DatabaseErrors = TRUE
    NoRequest = NoRequest
INVARIANTS DirectoryTypeOK
PROPERTIES ImplementsMembership EveryRequestIsAnswered
CHECK_DEADLOCK FALSE
