\* The three servers of the process, and two requests for any of them.
SPECIFICATION Spec
CONSTANTS
    HttpServers = {http, metrics}
    Grpc = grpc
    Requests = {r1, r2}
    NoServer = NoServer
INVARIANTS ShutdownTypeOK NothingIsCutOffInTime ExitCodeTellsFailure
PROPERTIES ProcessExits
CHECK_DEADLOCK FALSE
